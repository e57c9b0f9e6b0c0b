----------------------------- MODULE SerialLine -----------------------------
(***************************************************************************)
(* apps/cpu/uart/uart.c: the serial line between the receive interrupt and *)
(* the task loop.  The interrupt puts bytes into a ring and counts the     *)
(* carriage returns; a pass of a task's loop that finds the count above    *)
(* zero takes one line out, without masking the interrupt: it can fall     *)
(* between any two of the steps below.                                     *)
(***************************************************************************)
EXTENDS Naturals, Sequences, FiniteSets

CONSTANTS
  Size,      \* UART_RX_BUF_SIZE
  Bytes,     \* bytes received
  CR,        \* 13
  Ignored,   \* 0 and LF
  Negative,  \* the bytes from 128 up, where char is signed
  NoByte     \* a cell never written

ASSUME SerialAssumption ==
  /\ Size \in Nat \ {0, 1}
  /\ CR \in Bytes \ (Ignored \union Negative)
  /\ NoByte \notin Bytes

VARIABLES
  buf,    \* UART_RxBuf
  head,   \* UART_RxHead: the cell last written
  tail,   \* UART_RxTail: the cell last read
  lines,  \* ascii_line
  pc,     \* the loop: "out", "get", "take" (between the two statements of
          \* uart_getc), "load", "store" (within ascii_line--)
  n,      \* bytes in zbuf
  reg     \* the register of ascii_line--

reader == <<pc, n, reg>>
vars == <<buf, head, tail, lines, reader>>

Cells == 0 .. Size - 1

Following(i) == IF i + 1 = Size THEN 0 ELSE i + 1

\* The unread cells.
Unread == {i \in Cells : IF tail <= head THEN tail < i /\ i <= head
                         ELSE tail < i \/ i <= head}
Ends == {i \in Unread : buf[i] = CR}

Init ==
  /\ buf = [i \in Cells |-> NoByte]
  /\ head = 0 /\ tail = 0 /\ lines = 0
  /\ pc = "out" /\ n = 0 /\ reg = 0

\* Faulty variant: the ring is never full.
Full_Never == FALSE

Full == Following(head) = tail

\* Faulty variant: a CR that finds no room is counted all the same.
Receive_CountsLost(c) ==
  /\ c \notin Ignored
  /\ IF Full THEN UNCHANGED <<head, buf>>
     ELSE head' = Following(head) /\ buf' = [buf EXCEPT ![Following(head)] = c]
  /\ lines' = IF c = CR THEN lines + 1 ELSE lines
  /\ UNCHANGED <<tail, reader>>

\* user_common_uart_isr
Receive(c) ==
  /\ ~Full /\ c \notin Ignored
  /\ head' = Following(head)
  /\ buf' = [buf EXCEPT ![Following(head)] = c]
  /\ lines' = IF c = CR THEN lines + 1 ELSE lines
  /\ UNCHANGED <<tail, reader>>

\* Faulty variant: whatever is there is read, a line or not.
Begin_AnyBytes ==
  /\ pc = "out" /\ head # tail
  /\ pc' = "get" /\ n' = 0
  /\ UNCHANGED <<buf, head, tail, lines, reg>>

\* UART_RX_STR_EVENT and the test of uart_get_str: only this side decrements.
Begin ==
  /\ pc = "out" /\ lines > 0
  /\ pc' = "get" /\ n' = 0
  /\ UNCHANGED <<buf, head, tail, lines, reg>>

\* uart_getc: UART_RxTail moves before the cell is read; on an empty ring the
\* -1 ends the line.
Getc ==
  /\ pc = "get"
  /\ IF head = tail THEN pc' = "load" /\ UNCHANGED tail
     ELSE pc' = "take" /\ tail' = Following(tail)
  /\ UNCHANGED <<buf, head, lines, n, reg>>

\* The loop of uart_get_str: CR ends the line, and so does a negative char.
Take ==
  /\ pc = "take"
  /\ IF buf[tail] \in {CR} \union Negative THEN pc' = "load" /\ UNCHANGED n
     ELSE pc' = "get" /\ n' = n + 1
  /\ UNCHANGED <<buf, head, tail, lines, reg>>

Load ==
  /\ pc = "load"
  /\ reg' = lines /\ pc' = "store"
  /\ UNCHANGED <<buf, head, tail, lines, n>>

Store ==
  /\ pc = "store"
  /\ lines' = reg - 1 /\ pc' = "out"
  /\ UNCHANGED <<buf, head, tail, n, reg>>

Read == Begin \/ Getc \/ Take \/ Load \/ Store
Next == (\E c \in Bytes : Receive(c)) \/ Read

Spec == Init /\ [][Next]_vars

-----------------------------------------------------------------------------
(***************************************************************************)
(* Properties.                                                             *)
(***************************************************************************)

\* Every variable keeps its range.
TypeOK ==
  /\ buf \in [Cells -> Bytes \union {NoByte}]
  /\ head \in Cells /\ tail \in Cells
  /\ lines \in 0 .. Size
  /\ pc \in {"out", "get", "take", "load", "store"}
  /\ n \in 0 .. Size - 2
  /\ reg \in 0 .. Size

\* A line that is counted is in the ring: the loop never starts on a line whose
\* end has not come, whatever the interrupt adds or drops meanwhile.
CountedIsThere == pc = "out" => lines <= Cardinality(Ends)

\* The line being copied always fits zbuf (the ring's size) with its
\* terminating zero: the interrupt refills the ring during the copy, but not
\* in front of the end that was there when the copy began.
LineFits == n + 1 < Size

Position(i) == IF i > tail THEN i - tail ELSE i + Size - tail
Fifo == [k \in 1 .. Cardinality(Unread) |-> buf[CHOOSE i \in Unread : Position(i) = k]]

Ring == INSTANCE ByteFifo
          WITH fifo <- Fifo, Room <- Size - 1,
               taken <- IF pc = "take" THEN buf[tail] ELSE NoByte

\* The ring is a FIFO, although uart_getc gives its cell back before it has
\* read it.
ImplementsFifo == Ring!FifoSpec

\* uart.c:360: "we signal the presence of another line in the buffer".
LineSignalled == pc = "out" => Cardinality(Ends) <= lines
=============================================================================
