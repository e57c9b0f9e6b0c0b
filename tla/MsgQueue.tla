------------------------------ MODULE MsgQueue ------------------------------
(***************************************************************************)
(* apps/common/msg.c: the only channel between the interrupt handlers and  *)
(* the task loop.  Events are bits of a word; messages are frames in a     *)
(* ring of bytes: a 16-bit header (number of 32-bit parameters in the top  *)
(* four bits, message number in the other twelve), then the parameters.    *)
(*                                                                         *)
(* The ring is kept in 16-bit cells, so a header takes one and a parameter *)
(* two.  A cell is written as the pair (n, id) a reader would decode from  *)
(* it, whatever it was written as: reading a parameter as a header is      *)
(* therefore possible, as in the code.  The fields hdr and args are        *)
(* history: they say what the cell was written as, and no guard reads them.*)
(***************************************************************************)
EXTENDS Naturals, Sequences, FiniteSets

CONSTANTS
  Events,      \* event numbers that are raised (msg.h)
  OneSecond,   \* EVENT_ONE_SECOND
  HalfSecond,  \* EVENT_HALF_SECOND
  Ids,         \* message numbers that are posted
  CleanAll,    \* MSG_CLEAN_ALL_MSG
  Params,      \* parameters, as the pairs of cells <<low, high>> they become
  MaxArgs,     \* most parameters of a post: 0 without BT_TWS, 1 with it
  Lens,        \* buffer sizes handed to task_get_msg: 2 in task_bt, else 1
  Capacity,    \* cells in msg_pool: 256
  HalfPeriod,  \* timer 0 interrupts per half second: 250
  Undef        \* a parameter variable that was never read

ASSUME MsgAssumption ==
  /\ Events \subseteq Nat
  /\ {OneSecond, HalfSecond} \subseteq Events
  /\ Ids \subseteq Nat
  /\ CleanAll \notin Ids
  /\ \A p \in Params : p \in Seq([n : Nat, id : Nat]) /\ Len(p) = 2
  /\ MaxArgs \in {0, 1}
  /\ Lens \subseteq Nat \ {0}
  /\ Capacity \in Nat
  /\ HalfPeriod \in Nat \ {0}

VARIABLES
  events,    \* event_buf_L and event_buf_H
  ring,      \* the unread cells of msg_cbuf
  cpu,       \* "run", "sleepy" (between OS_EXIT_CRITICAL and idle), "idle"
  reply,     \* what the last task_get_msg left in its buffer
  tick,      \* t0_cnt1 modulo HalfPeriod
  half,      \* half_sec_cnt
  torn       \* history: a parameter was refused after its header went in,
             \* and the ring has not been empty since

vars == <<events, ring, cpu, reply, tick, half, torn>>

Args == {<<>>} \union (IF MaxArgs = 1 THEN {<<p>> : p \in Params} ELSE {})
Messages == [id : Ids, args : Args]
Cell == [n : Nat, id : Nat, hdr : BOOLEAN, args : Args]
Nothing == [kind |-> "none", id |-> 0, args |-> <<>>]

Header(m) == [n |-> Len(m.args), id |-> m.id, hdr |-> TRUE, args |-> m.args]
ArgCells(p) ==
  [i \in 1 .. 2 |-> [n |-> p[i].n, id |-> p[i].id, hdr |-> FALSE, args |-> <<>>]]

\* Faulty variant: the interrupt leaves the core stopped.
Wake_StaysIdle == cpu' = cpu

\* Any interrupt ends __builtin_pi32_idle.
Wake == cpu' = IF cpu = "idle" THEN "run" ELSE cpu

\* Faulty variant: one cell more than the pool has.
CbufWrite_OneMore(r, cells) ==
  IF Len(r) + Len(cells) <= Capacity + 1 THEN r \o cells ELSE r

\* cbuf_write: all of it or nothing.
CbufWrite(r, cells) == IF Len(r) + Len(cells) <= Capacity THEN r \o cells ELSE r

-----------------------------------------------------------------------------
Init ==
  /\ events = {}
  /\ ring = <<>>
  /\ cpu = "run"
  /\ reply = Nothing
  /\ tick = 0
  /\ half = 0
  /\ torn = FALSE

\* task_post_event, from the task loop or from an interrupt.
PostEvent(e) ==
  /\ events' = events \union {e}
  /\ Wake
  /\ UNCHANGED <<ring, reply, tick, half, torn>>

\* task_post_msg: neither write is checked, so the header of a frame may be
\* accepted and its parameter refused.
PostMsg(m) ==
  LET withHdr == CbufWrite(ring, <<Header(m)>>)
      full    == IF m.args = <<>> THEN withHdr
                 ELSE CbufWrite(withHdr, ArgCells(m.args[1]))
  IN  /\ ring' = full
      /\ torn' = (torn \/ (withHdr # ring /\ m.args # <<>> /\ full = withHdr))
      /\ Wake
      /\ UNCHANGED <<events, reply, tick, half>>

\* task_post_msg(MSG_CLEAN_ALL_MSG) and task_clear_all_message, called by the
\* task that ends: the messages go, the events stay.
ClearAll ==
  /\ cpu = "run"
  /\ ring' = <<>>
  /\ torn' = FALSE
  /\ UNCHANGED <<events, cpu, reply, tick, half>>

\* timer0_isr_fun, its half_second_msg handler, and the wake-up it gives.
TimerTick ==
  /\ tick' = (tick + 1) % HalfPeriod
  /\ IF tick' = 0
       THEN /\ half' = (half + 1) % 2
            /\ events' = events \union
                 (IF half = 1 THEN {HalfSecond, OneSecond} ELSE {HalfSecond})
       ELSE UNCHANGED <<half, events>>
  /\ Wake
  /\ UNCHANGED <<ring, reply, torn>>

-----------------------------------------------------------------------------
\* Faulty variant: the scan runs from the highest event down.
GetEvent_HighestFirst ==
  /\ cpu = "run"
  /\ \E e \in events :
       /\ \A d \in events : e >= d
       /\ events' = events \ {e}
       /\ reply' = [kind |-> "event", id |-> e, args |-> <<>>]
  /\ UNCHANGED <<ring, cpu, tick, half, torn>>

\* task_get_msg, first exit: the pending event with the lowest number.
GetEvent ==
  /\ cpu = "run"
  /\ \E e \in events :
       /\ \A d \in events : e <= d
       /\ events' = events \ {e}
       /\ reply' = [kind |-> "event", id |-> e, args |-> <<>>]
  /\ UNCHANGED <<ring, cpu, tick, half, torn>>

\* Parameters a header promises that are really there: cbuf_read takes four
\* bytes or none.
Readable(r) == IF 2 * Head(r).n <= Len(r) - 1 THEN Head(r).n ELSE (Len(r) - 1) \div 2

\* Faulty variant: the parameter is taken one cell too early.
ParamAt_OneEarly(r, i) ==
  LET k == IF i <= Readable(r) THEN i ELSE Readable(r)
  IN  IF k = 0 THEN Undef
      ELSE [j \in 1 .. 2 |-> [n |-> r[2 * k - 2 + j].n, id |-> r[2 * k - 2 + j].id]]

\* The parameter variable after the i-th read: a read that finds too little
\* leaves what the last good one put there.
ParamAt(r, i) ==
  LET k == IF i <= Readable(r) THEN i ELSE Readable(r)
  IN  IF k = 0 THEN Undef
      ELSE [j \in 1 .. 2 |-> [n |-> r[2 * k - 1 + j].n, id |-> r[2 * k - 1 + j].id]]

\* Faulty variant: parameters that do not fit the buffer stay in the ring.
GetFrame_KeepsRest(len) ==
  /\ cpu = "run"
  /\ events = {}
  /\ ring # <<>>
  /\ reply' = [kind |-> "msg", id |-> Head(ring).id,
               args |-> [i \in 1 .. (IF Head(ring).n < len THEN Head(ring).n ELSE len - 1)
                           |-> ParamAt(ring, i)]]
  /\ ring' = SubSeq(ring, IF Readable(ring) < len THEN 2 + 2 * Readable(ring)
                          ELSE 2 * len, Len(ring))
  /\ torn' = (torn /\ ring' # <<>>)
  /\ UNCHANGED <<events, cpu, tick, half>>

\* task_get_msg, second exit: one frame, as its first cell describes it, into
\* a buffer of len words.  The parameters beyond it are read and thrown away.
GetFrame(len) ==
  /\ cpu = "run"
  /\ events = {}
  /\ ring # <<>>
  /\ reply' = [kind |-> "msg", id |-> Head(ring).id,
               args |-> [i \in 1 .. (IF Head(ring).n < len THEN Head(ring).n ELSE len - 1)
                           |-> ParamAt(ring, i)]]
  /\ ring' = SubSeq(ring, 2 + 2 * Readable(ring), Len(ring))
  /\ torn' = (torn /\ ring' # <<>>)
  /\ UNCHANGED <<events, cpu, tick, half>>

\* task_get_msg, last exit: nothing found; interrupts are enabled again
\* before the instruction that stops the clock.
GetNothing ==
  /\ cpu = "run"
  /\ events = {}
  /\ ring = <<>>
  /\ reply' = Nothing
  /\ cpu' = "sleepy"
  /\ UNCHANGED <<events, ring, tick, half, torn>>

EnterIdle ==
  /\ cpu = "sleepy"
  /\ cpu' = "idle"
  /\ UNCHANGED <<events, ring, reply, tick, half, torn>>

Get == GetEvent \/ (\E len \in Lens : GetFrame(len)) \/ GetNothing \/ EnterIdle

Next ==
  \/ \E e \in Events : PostEvent(e)
  \/ \E m \in Messages : PostMsg(m)
  \/ ClearAll
  \/ TimerTick
  \/ Get

\* The timer interrupt is never masked for long and the loop never stops
\* calling task_get_msg; nothing obliges anyone to post.
Fairness == WF_vars(Get) /\ WF_vars(TimerTick)

Spec == Init /\ [][Next]_vars /\ Fairness

-----------------------------------------------------------------------------
(***************************************************************************)
(* Properties.                                                             *)
(***************************************************************************)

\* Every variable keeps its range; the ring never holds more than msg_pool.
TypeOK ==
  /\ events \subseteq Events
  /\ ring \in Seq(Cell)
  /\ Len(ring) <= Capacity
  /\ cpu \in {"run", "sleepy", "idle"}
  /\ tick \in 0 .. HalfPeriod - 1
  /\ half \in {0, 1}
  /\ torn \in BOOLEAN

\* The frame that starts at cell i ends at this cell.
FrameEnd(i) == i + 2 * ring[i].n

\* Until a post is torn by a full ring, the ring is a run of whole frames: the
\* cell task_get_msg takes for a header was written as one, and the cells it
\* takes for parameters belong to it, however posts, reads with a short
\* buffer and task_clear_all_message interleave.
Framed ==
  ~torn =>
    /\ ring # <<>> => ring[1].hdr
    /\ \A i \in 1 .. Len(ring) :
         ring[i].hdr =>
           /\ FrameEnd(i) <= Len(ring)
           /\ \A j \in i + 1 .. FrameEnd(i) : ~ring[j].hdr
           /\ FrameEnd(i) < Len(ring) => ring[FrameEnd(i) + 1].hdr

\* The messages whose headers are in the ring, in order: the k-th is that of the
\* header with k headers up to and with its own.
Headers == {i \in 1 .. Len(ring) : ring[i].hdr}
Rank(S, i) == Cardinality({j \in S : j <= i})
MessageOf(c) == [id |-> c.id, args |-> c.args]
Queue ==
  [k \in 1 .. Cardinality(Headers) |->
     MessageOf(ring[CHOOSE i \in Headers : Rank(Headers, i) = k])]

Bus == INSTANCE MsgBus WITH pending <- events, queue <- Queue, last <- reply

\* msg.c implements the message bus as long as no post is torn: a message is
\* lost as a whole or delivered once, in order and with its own parameters,
\* after every pending event, and the lowest event first.
ImplementsBus == Bus!BusInit /\ [][torn \/ torn' \/ Bus!BusNext]_(Bus!busVars)

\* A core that idles while something is waiting comes back to the loop: the
\* window between OS_EXIT_CRITICAL and the idle instruction, in which an
\* interrupt posts unseen, costs at most one timer interrupt.
WakesUp == (events # {} \/ ring # <<>>) ~> cpu = "run"

\* The event with the lowest number cannot be starved by the other events,
\* the messages or the idle state.
LowestServed ==
  \A e \in Events :
    (\A d \in Events : e <= d) => (e \in events ~> e \notin events)
=============================================================================
