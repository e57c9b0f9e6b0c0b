-------------------------- MODULE SerialLineProofs --------------------------
(***************************************************************************)
(* Theorems about SerialLine for every size of the ring, with the          *)
(* interrupt between any two steps of the loop.                            *)
(*                                                                         *)
(* The inductive invariant Inv has two parts beside the ranges.  Counted:  *)
(* the count never exceeds the ends that are in the ring, plus the one the *)
(* loop has taken and not yet subtracted.  Fits: while a line is copied    *)
(* some end is in the ring, close enough for zbuf; the interrupt only puts *)
(* bytes behind it.  From the ranges follows the refinement of ByteFifo:   *)
(* the content of the ring as a sequence, cell by cell from the tail.      *)
(***************************************************************************)
EXTENDS SerialLine, FiniteSetTheorems, FunctionTheorems, SequenceTheorems, TLAPS

Stops == {CR} \union Negative

\* The end of the line the loop has taken and not yet subtracted.
Slack == IF pc \in {"load", "store"} \/ (pc = "take" /\ buf[tail] = CR) THEN 1 ELSE 0

Ranges ==
  /\ buf \in [Cells -> Bytes \union {NoByte}]
  /\ head \in Cells /\ tail \in Cells
  /\ pc \in {"out", "get", "take", "load", "store"}
  /\ n \in Nat /\ n <= Size - 2
  /\ lines \in Nat /\ reg \in Nat
  /\ pc # "out" => lines >= 1
  /\ reg <= Size
  /\ pc = "store" => reg >= 1 /\ reg <= lines

Counted == lines <= Cardinality(Ends) + Slack

Fits ==
  /\ pc = "get" => \E k \in Ends : n + Position(k) <= Size - 1
  /\ pc = "take" => buf[tail] \in Stops \/ \E k \in Ends : n + 1 + Position(k) <= Size - 1

Inv == Ranges /\ Counted /\ Fits

-----------------------------------------------------------------------------
(***************************************************************************)
(* The ring.                                                               *)
(***************************************************************************)
LEMMA FollowingCell ==
  ASSUME NEW i \in Cells
  PROVE  Following(i) \in Cells
BY SerialAssumption DEF Cells, Following

\* The unread cells are all but at least one, and each is between 1 and
\* Size - 1 places behind tail.
LEMMA Places ==
  ASSUME head \in Cells, tail \in Cells
  PROVE  /\ Unread \subseteq Cells \ {tail}
         /\ \A i \in Unread : Position(i) \in 1 .. Size - 1
BY SerialAssumption DEF Cells, Unread, Position

LEMMA EndsFinite ==
  ASSUME head \in Cells, tail \in Cells
  PROVE  IsFiniteSet(Ends) /\ Cardinality(Ends) \in Nat /\ Cardinality(Ends) <= Size - 1
<1>1. IsFiniteSet(Cells) /\ Cardinality(Cells) = Size
  BY SerialAssumption, FS_Interval DEF Cells
<1>2. IsFiniteSet(Cells \ {tail}) /\ Cardinality(Cells \ {tail}) = Size - 1
  BY <1>1, FS_RemoveElement
<1>3. Ends \subseteq Cells \ {tail}
  BY Places DEF Ends
<1> QED BY <1>2, <1>3, FS_Subset, FS_CardinalityType

\* A byte that is received becomes the last unread cell and moves no other.
LEMMA Received ==
  ASSUME head \in Cells, tail \in Cells, ~Full,
         head' = Following(head), tail' = tail
  PROVE  /\ Following(head) \in Cells
         /\ Following(head) \notin Unread /\ Following(head) # tail
         /\ Unread' = Unread \union {Following(head)}
         /\ \A i \in Cells : Position(i)' = Position(i)
<1>1. Following(head) \in Cells /\ Following(head) # tail
  BY FollowingCell DEF Full
<1>2. Following(head) \notin Unread
  BY <1>1, SerialAssumption DEF Cells, Unread, Following
<1>3. Unread' = Unread \union {Following(head)}
  BY <1>1, SerialAssumption DEF Cells, Unread, Following
<1>4. \A i \in Cells : Position(i)' = Position(i)
  BY DEF Position
<1> QED BY <1>1, <1>2, <1>3, <1>4

\* A byte that is taken out was the first unread cell; the others come one
\* place nearer.
LEMMA TakenOut ==
  ASSUME head \in Cells, tail \in Cells, head # tail,
         head' = head, tail' = Following(tail)
  PROVE  /\ Following(tail) \in Unread
         /\ Unread' = Unread \ {Following(tail)}
         /\ \A i \in Unread' : Position(i)' = Position(i) - 1
<1>1. Following(tail) \in Cells
  BY FollowingCell
<1>2. Following(tail) \in Unread
  BY <1>1, SerialAssumption DEF Cells, Unread, Following
<1>3. Unread' = Unread \ {Following(tail)}
  BY <1>1, SerialAssumption DEF Cells, Unread, Following
<1>4. \A i \in Unread' : Position(i)' = Position(i) - 1
  BY <1>1, SerialAssumption DEF Cells, Unread, Following, Position
<1> QED BY <1>2, <1>3, <1>4

-----------------------------------------------------------------------------
(***************************************************************************)
(* Steps.                                                                  *)
(***************************************************************************)
LEMMA InitInv == Init => Inv
<1> SUFFICES ASSUME Init PROVE Inv
  OBVIOUS
<1>1. Ranges
  BY SerialAssumption DEF Init, Ranges, Cells
<1>2. Counted
  BY <1>1, EndsFinite DEF Init, Ranges, Counted, Slack
<1> QED BY <1>1, <1>2 DEF Inv, Fits, Init

LEMMA ReceiveStep ==
  ASSUME Inv, NEW c \in Bytes, Receive(c)
  PROVE  Inv'
<1> DEFINE j == Following(head)
<1>1. head \in Cells /\ tail \in Cells /\ ~Full /\ head' = j /\ tail' = tail
  BY DEF Inv, Ranges, Receive
<1>2. j \in Cells /\ j \notin Unread /\ j # tail /\ Unread' = Unread \union {j}
  BY <1>1, Received
<1>3. \A i \in Cells : Position(i)' = Position(i)
  BY <1>1, Received
<1>4. buf' = [buf EXCEPT ![j] = c] /\ buf \in [Cells -> Bytes \union {NoByte}]
  BY DEF Inv, Ranges, Receive
<1>5. pc' = pc /\ n' = n /\ reg' = reg /\ lines' = IF c = CR THEN lines + 1 ELSE lines
  BY DEF Receive, reader
<1> HIDE DEF j
<1>6. buf'[tail] = buf[tail]
  BY <1>1, <1>2, <1>4
<1>7. Ends' = IF c = CR THEN Ends \union {j} ELSE Ends
  BY <1>2, <1>4, Places, <1>1 DEF Ends
<1>8. j \notin Ends
  BY <1>2 DEF Ends
<1>9. Cardinality(Ends)' = IF c = CR THEN Cardinality(Ends) + 1 ELSE Cardinality(Ends)
  BY <1>1, <1>7, <1>8, EndsFinite, FS_AddElement
<1>10. Ranges'
  BY <1>1, <1>2, <1>4, <1>5 DEF Inv, Ranges
<1>11. Slack' = Slack
  BY <1>1, <1>5, <1>6 DEF Slack
<1>12. Slack \in Nat
  BY DEF Slack
<1>13. Counted'
  BY <1>1, <1>5, <1>9, <1>11, <1>12, EndsFinite DEF Inv, Ranges, Counted
<1>14. Fits'
  <2>1. Ends \subseteq Ends' /\ Ends \subseteq Cells
    BY <1>1, <1>7, Places DEF Ends
  <2>2. ASSUME NEW m, NEW k \in Ends, m + Position(k) <= Size - 1
        PROVE  k \in Ends' /\ m + Position(k)' <= Size - 1
    BY <1>3, <2>1, <2>2
  <2>3. CASE pc = "get"
    <3>1. PICK k \in Ends : n + Position(k) <= Size - 1
      BY <2>3 DEF Inv, Fits
    <3>2. k \in Ends' /\ n' + Position(k)' <= Size - 1
      BY <1>5, <2>2, <3>1
    <3> QED BY <1>5, <2>3, <3>2 DEF Fits
  <2>4. CASE pc = "take"
    <3>1. CASE buf[tail] \in Stops
      BY <1>1, <1>5, <1>6, <2>4, <3>1 DEF Fits, Stops
    <3>2. CASE buf[tail] \notin Stops
      <4>1. PICK k \in Ends : n + 1 + Position(k) <= Size - 1
        BY <2>4, <3>2 DEF Inv, Fits
      <4>2. k \in Ends' /\ n' + 1 + Position(k)' <= Size - 1
        BY <1>5, <2>2, <4>1
      <4> QED BY <1>5, <2>4, <4>2 DEF Fits
    <3> QED BY <3>1, <3>2
  <2> QED BY <1>5, <2>3, <2>4 DEF Fits
<1> QED BY <1>10, <1>13, <1>14 DEF Inv

LEMMA BeginStep ==
  ASSUME Inv, Begin
  PROVE  Inv'
<1>1. head \in Cells /\ tail \in Cells /\ lines > 0 /\ lines \in Nat /\ pc = "out"
  BY DEF Inv, Ranges, Begin
<1>2. /\ pc' = "get" /\ n' = 0
      /\ UNCHANGED <<buf, head, tail, lines, reg>>
  BY DEF Begin
<1>3. Ends' = Ends /\ \A i \in Ends : Position(i)' = Position(i)
  BY <1>2 DEF Ends, Unread, Position
<1>4. Ranges'
  BY <1>1, <1>2, SerialAssumption DEF Inv, Ranges
<1>5. Counted'
  BY <1>1, <1>2, <1>3 DEF Inv, Counted, Slack
<1>6. Cardinality(Ends) >= 1
  BY <1>1, EndsFinite DEF Inv, Counted, Slack
<1>7. PICK k \in Ends : TRUE
  BY <1>1, <1>6, EndsFinite, FS_EmptySet
<1>8. Position(k) \in 1 .. Size - 1
  BY <1>1, Places DEF Ends
<1>9. Fits'
  BY <1>2, <1>3, <1>7, <1>8, SerialAssumption DEF Fits
<1> QED BY <1>4, <1>5, <1>9 DEF Inv

LEMMA GetcStep ==
  ASSUME Inv, Getc
  PROVE  Inv'
<1> DEFINE t == Following(tail)
<1>1. head \in Cells /\ tail \in Cells /\ pc = "get" /\ UNCHANGED <<buf, head, lines, n, reg>>
  BY DEF Inv, Ranges, Getc
<1>2. PICK k \in Ends : n + Position(k) <= Size - 1
  BY <1>1 DEF Inv, Fits
<1>3. head # tail
  BY <1>1, <1>2 DEF Ends, Unread, Cells
<1>4. pc' = "take" /\ tail' = t
  BY <1>3 DEF Getc
<1>5. t \in Unread /\ Unread' = Unread \ {t} /\ \A i \in Unread' : Position(i)' = Position(i) - 1
  BY <1>1, <1>3, <1>4, TakenOut
<1>6. t \in Cells
  BY <1>1, FollowingCell
<1> HIDE DEF t
<1>7. Ends' = Ends \ {t} /\ (t \in Ends <=> buf[t] = CR)
  BY <1>1, <1>5 DEF Ends
<1>8. Ranges'
  BY <1>1, <1>4, <1>6 DEF Inv, Ranges
<1>9. Cardinality(Ends)' = IF buf[t] = CR THEN Cardinality(Ends) - 1 ELSE Cardinality(Ends)
  BY <1>1, <1>7, EndsFinite, FS_RemoveElement
<1>10. Slack = 0 /\ Slack' = IF buf[t] = CR THEN 1 ELSE 0
  BY <1>1, <1>4 DEF Slack
<1>11. Counted'
  BY <1>1, <1>9, <1>10, EndsFinite DEF Inv, Ranges, Counted
<1>12. Fits'
  <2>1. CASE k = t
    BY <1>1, <1>2, <1>4, <1>7, <2>1 DEF Fits, Stops
  <2>2. CASE k # t
    <3>1. k \in Ends' /\ k \in Unread'
      BY <1>2, <1>5, <1>7, <2>2 DEF Ends
    <3>2. Position(k)' = Position(k) - 1 /\ Position(k) \in Nat
      BY <1>1, <1>2, <1>5, <3>1, Places, SerialAssumption DEF Ends
    <3>3. n' + 1 + Position(k)' <= Size - 1
      BY <1>1, <1>2, <3>2 DEF Inv, Ranges
    <3> QED BY <1>4, <3>1, <3>3 DEF Fits
  <2> QED BY <2>1, <2>2
<1> QED BY <1>8, <1>11, <1>12 DEF Inv

LEMMA TakeStep ==
  ASSUME Inv, Take
  PROVE  Inv'
<1>1. head \in Cells /\ tail \in Cells /\ pc = "take" /\ UNCHANGED <<buf, head, tail, lines, reg>>
  BY DEF Inv, Ranges, Take
<1>2. Ends' = Ends /\ \A i \in Ends : Position(i)' = Position(i)
  BY <1>1 DEF Ends, Unread, Position
<1>3. CASE buf[tail] \in Stops
  <2>1. pc' = "load" /\ n' = n
    BY <1>3 DEF Take, Stops
  <2>2. Ranges'
    BY <1>1, <2>1 DEF Inv, Ranges
  <2>3. Counted'
    BY <1>1, <1>2, <2>1, EndsFinite DEF Inv, Ranges, Counted, Slack
  <2> QED BY <2>1, <2>2, <2>3 DEF Inv, Fits
<1>4. CASE buf[tail] \notin Stops
  <2>1. pc' = "get" /\ n' = n + 1
    BY <1>4 DEF Take, Stops
  <2>2. PICK k \in Ends : n + 1 + Position(k) <= Size - 1
    BY <1>1, <1>4 DEF Inv, Fits
  <2>3. Position(k) \in 1 .. Size - 1
    BY <1>1, Places DEF Ends
  <2>4. Ranges'
    BY <1>1, <2>1, <2>2, <2>3, SerialAssumption DEF Inv, Ranges
  <2>5. Slack = 0 /\ Slack' = 0
    BY <1>1, <1>4, <2>1 DEF Slack, Stops
  <2>6. Counted'
    BY <1>1, <1>2, <2>5 DEF Inv, Counted
  <2>7. k \in Ends' /\ n' + Position(k)' <= Size - 1
    BY <1>2, <2>1, <2>2
  <2> QED BY <2>1, <2>4, <2>6, <2>7 DEF Inv, Fits
<1> QED BY <1>3, <1>4

LEMMA LoadStep ==
  ASSUME Inv, Load
  PROVE  Inv'
<1>1. head \in Cells /\ tail \in Cells /\ pc = "load" /\ lines \in Nat
  BY DEF Inv, Ranges, Load
<1>2. pc' = "store" /\ reg' = lines /\ UNCHANGED <<buf, head, tail, lines, n>>
  BY DEF Load
<1>3. Ends' = Ends
  BY <1>2 DEF Ends, Unread
<1>4. Counted'
  BY <1>1, <1>2, <1>3 DEF Inv, Counted, Slack
<1>5. lines <= Size
  BY <1>1, EndsFinite, SerialAssumption DEF Inv, Counted, Slack
<1>6. Ranges'
  BY <1>1, <1>2, <1>5 DEF Inv, Ranges
<1> QED BY <1>2, <1>4, <1>6 DEF Inv, Fits

LEMMA StoreStep ==
  ASSUME Inv, Store
  PROVE  Inv'
<1>1. head \in Cells /\ tail \in Cells /\ pc = "store" /\ lines \in Nat /\ reg \in Nat
      /\ reg >= 1 /\ reg <= lines
  BY DEF Inv, Ranges, Store
<1>2. pc' = "out" /\ lines' = reg - 1 /\ UNCHANGED <<buf, head, tail, n, reg>>
  BY DEF Store
<1>3. Ends' = Ends
  BY <1>2 DEF Ends, Unread
<1>4. Counted'
  BY <1>1, <1>2, <1>3, EndsFinite DEF Inv, Counted, Slack
<1>5. Ranges'
  BY <1>1, <1>2 DEF Inv, Ranges
<1> QED BY <1>2, <1>4, <1>5 DEF Inv, Fits

LEMMA NextInv == Inv /\ [Next]_vars => Inv'
<1> SUFFICES ASSUME Inv, [Next]_vars PROVE Inv'
  OBVIOUS
<1>1. CASE Next
  BY <1>1, ReceiveStep, BeginStep, GetcStep, TakeStep, LoadStep, StoreStep DEF Next, Read
<1>2. CASE UNCHANGED vars
  BY <1>2 DEF vars, reader, Inv, Ranges, Counted, Slack, Fits, Stops, Ends, Unread, Position
<1> QED BY <1>1, <1>2

LEMMA InvAlways == Spec => []Inv
BY InitInv, NextInv, PTL DEF Spec

-----------------------------------------------------------------------------
\* Every variable of the serial line keeps its range: in particular the 8-bit
\* count of lines never exceeds the ring, nor does the lost update of
\* ascii_line-- take it below zero.
THEOREM TypeCorrect == Spec => []TypeOK
<1>1. Inv => TypeOK
  BY EndsFinite, SerialAssumption DEF Inv, Ranges, Counted, Slack, TypeOK
<1> QED BY <1>1, InvAlways, PTL

\* A counted line is in the ring when the loop looks: uart_get_str never runs
\* into an empty ring.
THEOREM CountedAlwaysThere == Spec => []CountedIsThere
<1>1. Inv => CountedIsThere
  BY EndsFinite DEF Inv, Ranges, Counted, Slack, CountedIsThere
<1> QED BY <1>1, InvAlways, PTL

\* The copied line fits zbuf, which is as large as the ring, whatever the
\* interrupt puts into the ring during the copy.
THEOREM LineAlwaysFits == Spec => []LineFits
<1>1. Inv => LineFits
  BY SerialAssumption DEF Inv, Ranges, LineFits
<1> QED BY <1>1, InvAlways, PTL
-----------------------------------------------------------------------------
(***************************************************************************)
(* The refinement of ByteFifo.  The unread cells are numbered from tail on *)
(* (Nth inverts Position), so the FIFO they hold is written without CHOOSE *)
(* and without counting; each step then appends to it, takes its first     *)
(* byte or leaves it alone.                                                *)
(***************************************************************************)
Amount == IF tail <= head THEN head - tail ELSE head + Size - tail
Nth(k) == IF tail + k < Size THEN tail + k ELSE tail + k - Size

LEMMA Numbered ==
  ASSUME head \in Cells, tail \in Cells
  PROVE  /\ Amount \in 0 .. Size - 1
         /\ \A k \in 1 .. Amount : Nth(k) \in Unread /\ Position(Nth(k)) = k
         /\ \A i \in Unread : Position(i) \in 1 .. Amount /\ Nth(Position(i)) = i
BY SerialAssumption DEF Cells, Amount, Nth, Unread, Position

LEMMA UnreadCounted ==
  ASSUME head \in Cells, tail \in Cells
  PROVE  Cardinality(Unread) = Amount
<1> DEFINE f == [k \in 1 .. Amount |-> Nth(k)]
<1>1. Amount \in Nat /\ 1 \in Int
  BY Numbered, SerialAssumption
<1>2. f \in Bijection(1 .. Amount, Unread)
  <2>1. f \in [1 .. Amount -> Unread]
    BY Numbered
  <2>2. \A k, l \in 1 .. Amount : f[k] = f[l] => k = l
    BY Numbered
  <2>3. \A i \in Unread : \E k \in 1 .. Amount : f[k] = i
    BY Numbered
  <2> QED BY <2>1, <2>2, <2>3, Fun_IsBij
<1>3. IsFiniteSet(1 .. Amount) /\ Cardinality(1 .. Amount) = Amount
  BY <1>1, FS_Interval
<1> QED BY <1>2, <1>3, FS_Bijection DEF ExistsBijection

LEMMA FifoIs ==
  ASSUME head \in Cells, tail \in Cells
  PROVE  Fifo = [k \in 1 .. Amount |-> buf[Nth(k)]]
<1> DEFINE At(k) == CHOOSE i \in Unread : Position(i) = k
<1>1. Fifo = [k \in 1 .. Amount |-> buf[At(k)]]
  BY UnreadCounted DEF Fifo
<1>2. ASSUME NEW k \in 1 .. Amount
      PROVE  At(k) = Nth(k)
  <2>1. Nth(k) \in Unread /\ Position(Nth(k)) = k
    BY Numbered
  <2>2. \A i \in Unread : Position(i) = k => i = Nth(k)
    BY Numbered
  <2> QED BY <2>1, <2>2
<1> HIDE DEF At
<1> QED BY <1>1, <1>2

\* The unread bytes as a sequence.
LEMMA FifoTyped ==
  Ranges => /\ Fifo \in Seq(Bytes \union {NoByte})
            /\ Len(Fifo) = Amount
            /\ \A k \in 1 .. Amount : Fifo[k] = buf[Nth(k)]
<1> SUFFICES ASSUME Ranges
             PROVE  /\ Fifo \in Seq(Bytes \union {NoByte})
                    /\ Len(Fifo) = Amount
                    /\ \A k \in 1 .. Amount : Fifo[k] = buf[Nth(k)]
  OBVIOUS
<1>1. head \in Cells /\ tail \in Cells /\ buf \in [Cells -> Bytes \union {NoByte}]
  BY DEF Ranges
<1>2. Amount \in Nat /\ Unread \subseteq Cells
  BY <1>1, Numbered, Places, SerialAssumption
<1>3. \A k \in 1 .. Amount : buf[Nth(k)] \in Bytes \union {NoByte}
  BY <1>1, <1>2, Numbered
<1>4. Fifo = [k \in 1 .. Amount |-> buf[Nth(k)]]
  BY <1>1, FifoIs
<1> QED BY <1>2, <1>3, <1>4

Taken == IF pc = "take" THEN buf[tail] ELSE NoByte

\* A received byte is appended.
LEMMA ReceivePuts ==
  ASSUME Ranges, Ranges', NEW c \in Bytes, Receive(c)
  PROVE  /\ Len(Fifo) < Size - 1
         /\ Fifo' = Append(Fifo, c)
         /\ Taken' = Taken
<1> DEFINE j == Following(head)
<1>1. head \in Cells /\ tail \in Cells /\ ~Full /\ head' = j /\ tail' = tail
      /\ pc' = pc /\ buf' = [buf EXCEPT ![j] = c] /\ buf \in [Cells -> Bytes \union {NoByte}]
  BY DEF Ranges, Receive, reader
<1>2. /\ j \in Cells /\ j \notin Unread /\ j # tail
  BY <1>1, Received
<1>3. Amount < Size - 1 /\ Amount' = Amount + 1 /\ Nth(Amount + 1) = j
      /\ Amount \in Nat /\ \A k : Nth(k)' = Nth(k)
  BY <1>1, SerialAssumption DEF Cells, Amount, Nth, Full, Following
<1> HIDE DEF j
<1>4. /\ Fifo \in Seq(Bytes \union {NoByte}) /\ Len(Fifo) = Amount
      /\ \A k \in 1 .. Amount : Fifo[k] = buf[Nth(k)]
  BY FifoTyped
<1>5. /\ Fifo' \in Seq(Bytes \union {NoByte}) /\ Len(Fifo') = Amount + 1
      /\ \A k \in 1 .. Amount + 1 : Fifo'[k] = buf'[Nth(k)]
  <2>1. (/\ Fifo \in Seq(Bytes \union {NoByte})
         /\ Len(Fifo) = Amount
         /\ \A k \in 1 .. Amount : Fifo[k] = buf[Nth(k)])'
    BY FifoTyped, PTL
  <2> QED BY <1>3, <2>1
<1>6. \A k \in 1 .. Amount : Fifo'[k] = Fifo[k]
  <2> SUFFICES ASSUME NEW k \in 1 .. Amount PROVE Fifo'[k] = Fifo[k]
    OBVIOUS
  <2>1. Nth(k) \in Unread /\ Nth(k) \in Cells
    BY <1>1, Numbered, Places
  <2>2. k \in 1 .. Amount + 1
    BY <1>3
  <2> QED BY <1>1, <1>2, <1>4, <1>5, <2>1, <2>2
<1>7. Fifo'[Amount + 1] = c
  BY <1>1, <1>2, <1>3, <1>5
<1>8. Fifo' = Append(Fifo, c)
  <2>1. /\ Append(Fifo, c) \in Seq(Bytes \union {NoByte})
        /\ Len(Append(Fifo, c)) = Amount + 1
        /\ \A k \in 1 .. Amount : Append(Fifo, c)[k] = Fifo[k]
        /\ Append(Fifo, c)[Amount + 1] = c
    BY <1>4, AppendProperties
  <2>2. \A k \in 1 .. Amount + 1 : Fifo'[k] = Append(Fifo, c)[k]
    BY <1>3, <1>6, <1>7, <2>1
  <2> QED BY <1>5, <2>1, <2>2, SeqEqual
<1>9. Taken' = Taken
  BY <1>1, <1>2 DEF Taken
<1> QED BY <1>3, <1>4, <1>8, <1>9

\* uart_getc on a ring that is not empty takes its first byte; on an empty one
\* it takes none.
LEMMA GetcTakes ==
  ASSUME Ranges, Ranges', Getc
  PROVE  \/ Fifo # <<>> /\ Taken = NoByte /\ Taken' = Head(Fifo) /\ Fifo' = Tail(Fifo)
         \/ Fifo' = Fifo /\ Taken' = Taken
<1> DEFINE t == Following(tail)
<1>1. head \in Cells /\ tail \in Cells /\ pc = "get" /\ buf' = buf /\ head' = head
  BY DEF Ranges, Getc
<1>2. CASE head = tail
  <2>1. tail' = tail /\ pc' = "load"
    BY <1>2 DEF Getc
  <2> QED BY <1>1, <2>1 DEF Fifo, Unread, Position, Taken
<1>3. CASE head # tail
  <2>1. tail' = t /\ pc' = "take"
    BY <1>3 DEF Getc
  <2>2. /\ Amount \in Nat /\ Amount >= 1 /\ Amount' = Amount - 1 /\ Nth(1) = t
        /\ \A k \in 1 .. Amount - 1 : Nth(k)' = Nth(k + 1)
    BY <1>1, <1>3, <2>1, SerialAssumption DEF Cells, Amount, Nth, Following
  <2>3. /\ Fifo \in Seq(Bytes \union {NoByte}) /\ Len(Fifo) = Amount
        /\ \A k \in 1 .. Amount : Fifo[k] = buf[Nth(k)]
    BY FifoTyped
  <2>4. /\ Fifo' \in Seq(Bytes \union {NoByte}) /\ Len(Fifo') = Amount - 1
        /\ \A k \in 1 .. Amount - 1 : Fifo'[k] = buf[Nth(k + 1)]
    <3>1. (/\ Fifo \in Seq(Bytes \union {NoByte})
           /\ Len(Fifo) = Amount
           /\ \A k \in 1 .. Amount : Fifo[k] = buf[Nth(k)])'
      BY FifoTyped, PTL
    <3> QED BY <1>1, <2>2, <3>1
  <2>5. Fifo # <<>>
    BY <2>2, <2>3, EmptySeq
  <2>6. Taken = NoByte /\ Taken' = Head(Fifo)
    <3>1. Fifo[1] = buf[t]
      BY <2>2, <2>3
    <3> QED BY <1>1, <2>1, <2>3, <2>5, <3>1 DEF Taken
  <2>7. Fifo' = Tail(Fifo)
    <3>1. /\ Tail(Fifo) \in Seq(Bytes \union {NoByte})
          /\ Len(Tail(Fifo)) = Amount - 1
          /\ \A k \in 1 .. Amount - 1 : Tail(Fifo)[k] = Fifo[k + 1]
      BY <2>3, <2>5, HeadTailProperties
    <3>2. \A k \in 1 .. Amount - 1 : Fifo'[k] = Tail(Fifo)[k]
      <4> SUFFICES ASSUME NEW k \in 1 .. Amount - 1 PROVE Fifo'[k] = Tail(Fifo)[k]
        OBVIOUS
      <4>1. k + 1 \in 1 .. Amount
        BY <2>2
      <4> QED BY <2>3, <2>4, <3>1, <4>1
    <3> QED BY <2>4, <3>1, <3>2, SeqEqual
  <2> QED BY <2>5, <2>6, <2>7
<1> QED BY <1>2, <1>3

\* The other steps of the loop leave the FIFO alone; Take uses the byte.
LEMMA OthersUse ==
  ASSUME Begin \/ Take \/ Load \/ Store \/ UNCHANGED vars
  PROVE  Fifo' = Fifo /\ (Taken' = Taken \/ (Taken # NoByte /\ Taken' = NoByte))
<1>1. buf' = buf /\ head' = head /\ tail' = tail
  BY DEF Begin, Take, Load, Store, vars
<1>2. Fifo' = Fifo
  BY <1>1 DEF Fifo, Unread, Position
<1>3. Taken' = Taken \/ (Taken # NoByte /\ Taken' = NoByte)
  BY <1>1 DEF Begin, Take, Load, Store, vars, reader, Taken
<1> QED BY <1>2, <1>3

\* The receive ring is a FIFO of Size - 1 bytes, although uart_getc gives a
\* cell back to the interrupt before it has read it, for every ring size.
THEOREM RingIsFifo == Spec => ImplementsFifo
<1>1. Init => Ring!FifoInit
  <2> SUFFICES ASSUME Init PROVE Fifo = <<>> /\ Taken = NoByte
    BY DEF Ring!FifoInit, Taken
  <2>1. Ranges
    BY InitInv DEF Inv
  <2>2. Len(Fifo) = 0 /\ Fifo \in Seq(Bytes \union {NoByte})
    BY <2>1, FifoTyped DEF Init, Amount
  <2> QED BY <2>2, EmptySeq DEF Init, Taken
<1>2. Inv /\ Inv' /\ [Next]_vars => [Ring!FifoNext]_(Ring!fifoVars)
  <2> SUFFICES ASSUME Inv, Inv', [Next]_vars
               PROVE  \/ Fifo' = Fifo /\ Taken' = Taken
                      \/ \E c \in Bytes : /\ Len(Fifo) < Size - 1
                                          /\ Fifo' = Append(Fifo, c) /\ Taken' = Taken
                      \/ /\ Taken = NoByte /\ Fifo # <<>>
                         /\ Taken' = Head(Fifo) /\ Fifo' = Tail(Fifo)
                      \/ Taken # NoByte /\ Taken' = NoByte /\ Fifo' = Fifo
    BY DEF Ring!FifoNext, Ring!Put, Ring!TakeOut, Ring!Use, Ring!fifoVars, Taken
  <2>1. Ranges /\ Ranges'
    BY DEF Inv
  <2>2. ASSUME NEW c \in Bytes, Receive(c)
        PROVE  Len(Fifo) < Size - 1 /\ Fifo' = Append(Fifo, c) /\ Taken' = Taken
    BY <2>1, <2>2, ReceivePuts
  <2> QED BY <2>1, <2>2, GetcTakes, OthersUse DEF Next, Read
<1> QED BY <1>1, <1>2, InvAlways, PTL DEF Spec, ImplementsFifo, Ring!FifoSpec

=============================================================================
