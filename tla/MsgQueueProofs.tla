--------------------------- MODULE MsgQueueProofs ---------------------------
(***************************************************************************)
(* For every set of events, messages and parameters and every ring size:   *)
(* the ring of msg.c stays within msg_pool and, until a post is torn by a  *)
(* full ring, is a run of whole frames that carry what was posted, so that *)
(* msg.c implements MsgBus.                                                *)
(*                                                                         *)
(* Framed says where the headers are, Loaded what is behind them.  The     *)
(* queue of the bus is read off the ring by the rank of its headers; the   *)
(* lemmas about ranks say what a cell at the end or at the front does to   *)
(* them.                                                                   *)
(***************************************************************************)
EXTENDS MsgQueue, SequenceTheorems, FiniteSetTheorems, FunctionTheorems, TLAPS

LEMMA ArgsTyped ==
  /\ <<>> \in Args
  /\ \A a \in Args : a = <<>> \/ (Len(a) = 1 /\ a[1] \in Params)
BY MsgAssumption DEF Args

\* The two cells a parameter becomes.
LEMMA ArgCellsTyped ==
  ASSUME NEW p \in Params
  PROVE  /\ ArgCells(p) \in Seq(Cell)
         /\ Len(ArgCells(p)) = 2
         /\ \A i \in 1 .. 2 : ~ArgCells(p)[i].hdr
<1>1. p \in Seq([n : Nat, id : Nat]) /\ Len(p) = 2
  BY MsgAssumption
<1>2. \A i \in 1 .. 2 : p[i] \in [n : Nat, id : Nat]
  BY <1>1, ElementOfSeq
<1>3. \A i \in 1 .. 2 : ArgCells(p)[i] \in Cell /\ ~ArgCells(p)[i].hdr
  BY <1>2, ArgsTyped DEF ArgCells, Cell
<1>4. ArgCells(p) \in [1 .. 2 -> Cell]
  BY <1>3 DEF ArgCells
<1>5. ArgCells(p) \in Seq(Cell)
  <2>1. ArgCells(p) \in UNION {[1 .. n -> Cell] : n \in Nat}
    BY <1>4
  <2> QED BY <2>1, SeqDef
<1>6. Len(ArgCells(p)) = 2
  <2>1. Len(ArgCells(p)) \in Nat /\ DOMAIN ArgCells(p) = 1 .. Len(ArgCells(p))
    BY <1>5, LenProperties
  <2>2. DOMAIN ArgCells(p) = 1 .. 2
    BY <1>4
  <2>3. \A k \in Nat : 1 .. k = 1 .. 2 => k = 2
    <3> SUFFICES ASSUME NEW k \in Nat, 1 .. k = 1 .. 2 PROVE k = 2
      OBVIOUS
    <3>1. 2 \in 1 .. k /\ 3 \notin 1 .. k
      OBVIOUS
    <3> QED BY <3>1
  <2> QED BY <2>1, <2>2, <2>3
<1> QED BY <1>3, <1>5, <1>6

LEMMA HeaderTyped ==
  ASSUME NEW m \in Messages
  PROVE  /\ Header(m) \in Cell
         /\ Header(m).hdr
         /\ Header(m).n = Len(m.args)
         /\ m.args = <<>> \/ (Len(m.args) = 1 /\ m.args[1] \in Params)
<1>1. m.args \in Args /\ m.id \in Nat
  BY MsgAssumption DEF Messages
<1>2. Len(m.args) \in Nat
  BY <1>1, ArgsTyped
<1>3. Header(m) \in Cell
  BY <1>1, <1>2 DEF Header, Cell
<1> QED BY <1>1, <1>3, ArgsTyped DEF Header

\* cbuf_write appends everything or changes nothing, and never overfills.
LEMMA CbufWriteFits ==
  ASSUME NEW r \in Seq(Cell), NEW c \in Seq(Cell), Len(r) <= Capacity
  PROVE  /\ CbufWrite(r, c) \in Seq(Cell)
         /\ Len(CbufWrite(r, c)) <= Capacity
         /\ \/ CbufWrite(r, c) = r /\ Len(r) + Len(c) > Capacity
            \/ /\ Len(CbufWrite(r, c)) = Len(r) + Len(c)
               /\ \A i \in 1 .. Len(r) : CbufWrite(r, c)[i] = r[i]
               /\ \A i \in 1 .. Len(c) : CbufWrite(r, c)[Len(r) + i] = c[i]
<1>1. Len(r) \in Nat /\ Len(c) \in Nat /\ Capacity \in Nat
  BY LenProperties, MsgAssumption
<1>2. CASE Len(r) + Len(c) <= Capacity
  <2>1. CbufWrite(r, c) = r \o c
    BY <1>2 DEF CbufWrite
  <2>2. /\ r \o c \in Seq(Cell)
        /\ Len(r \o c) = Len(r) + Len(c)
        /\ \A i \in 1 .. Len(r) + Len(c) :
             (r \o c)[i] = IF i <= Len(r) THEN r[i] ELSE c[i - Len(r)]
    BY ConcatProperties
  <2>3. \A i \in 1 .. Len(r) : (r \o c)[i] = r[i]
    BY <1>1, <2>2
  <2>4. ASSUME NEW i \in 1 .. Len(c) PROVE (r \o c)[Len(r) + i] = c[i]
    <3>1. Len(r) + i \in 1 .. Len(r) + Len(c) /\ ~(Len(r) + i <= Len(r)) /\ (Len(r) + i) - Len(r) = i
      BY <1>1
    <3> QED BY <2>2, <3>1
  <2> QED BY <1>2, <2>1, <2>2, <2>3, <2>4
<1>3. CASE ~(Len(r) + Len(c) <= Capacity)
  BY <1>1, <1>3 DEF CbufWrite
<1> QED BY <1>2, <1>3

LEMMA HeaderFits ==
  ASSUME NEW r \in Seq(Cell), Len(r) <= Capacity, NEW x \in Cell
  PROVE  LET h == CbufWrite(r, <<x>>)
         IN  /\ h \in Seq(Cell)
             /\ Len(h) <= Capacity
             /\ \/ h = r /\ Len(r) + 1 > Capacity
                \/ /\ Len(h) = Len(r) + 1
                   /\ \A i \in 1 .. Len(r) : h[i] = r[i]
                   /\ h[Len(r) + 1] = x
<1> DEFINE c == <<x>>
           h == CbufWrite(r, c)
<1>1. c \in Seq(Cell) /\ Len(c) = 1 /\ c[1] = x
  OBVIOUS
<1> HIDE DEF c
<1>2. /\ h \in Seq(Cell)
      /\ Len(h) <= Capacity
      /\ \/ h = r /\ Len(r) + Len(c) > Capacity
         \/ /\ Len(h) = Len(r) + Len(c)
            /\ \A i \in 1 .. Len(r) : h[i] = r[i]
            /\ \A i \in 1 .. Len(c) : h[Len(r) + i] = c[i]
  BY <1>1, CbufWriteFits
<1>3. /\ h \in Seq(Cell)
      /\ Len(h) <= Capacity
      /\ \/ h = r /\ Len(r) + 1 > Capacity
         \/ /\ Len(h) = Len(r) + 1
            /\ \A i \in 1 .. Len(r) : h[i] = r[i]
            /\ h[Len(r) + 1] = x
  BY <1>1, <1>2
<1> QED BY <1>3 DEF c

\* What task_post_msg leaves in the ring: nothing of the message, its header
\* without its parameter, or the whole frame.
Unchanged(r, f, m) == f = r
Tore(r, f, m) == Len(f) = Len(r) + 1 /\ m.args # <<>>
Whole(r, f, m) ==
  /\ Len(f) = Len(r) + 1 + 2 * Len(m.args)
  /\ \A i \in 1 .. Len(r) : f[i] = r[i]
  /\ f[Len(r) + 1] = Header(m)
  /\ \A i \in Len(r) + 2 .. Len(f) : ~f[i].hdr
  /\ m.args # <<>> => /\ f[Len(r) + 1 + 1] = ArgCells(m.args[1])[1]
                      /\ f[Len(r) + 1 + 2] = ArgCells(m.args[1])[2]

LEMMA PostResult ==
  ASSUME TypeOK, NEW m \in Messages, PostMsg(m)
  PROVE  /\ ring' \in Seq(Cell)
         /\ Len(ring') <= Capacity
         /\ \/ Unchanged(ring, ring', m) /\ torn' = torn
            \/ Tore(ring, ring', m) /\ torn'
            \/ Whole(ring, ring', m) /\ torn' = torn
<1> DEFINE h == CbufWrite(ring, <<Header(m)>>)
           c == ArgCells(m.args[1])
           f == CbufWrite(h, c)
<1>1. ring \in Seq(Cell) /\ Len(ring) <= Capacity /\ Len(ring) \in Nat /\ Capacity \in Nat
      /\ torn \in BOOLEAN
  BY LenProperties, MsgAssumption DEF TypeOK
<1>2. /\ h \in Seq(Cell)
      /\ Len(h) <= Capacity
      /\ \/ h = ring /\ Len(ring) + 1 > Capacity
         \/ /\ Len(h) = Len(ring) + 1
            /\ \A i \in 1 .. Len(ring) : h[i] = ring[i]
            /\ h[Len(ring) + 1] = Header(m)
  <2>1. Header(m) \in Cell
    BY HeaderTyped
  <2> QED BY <1>1, <2>1, HeaderFits
<1> HIDE DEF h
<1>3. /\ ring' = IF m.args = <<>> THEN h ELSE f
      /\ torn' = (torn \/ (h # ring /\ m.args # <<>> /\ ring' = h))
  BY DEF PostMsg, h
<1>4. CASE m.args = <<>>
  <2>1. ring' = h /\ torn' = torn /\ Len(m.args) = 0
    BY <1>1, <1>3, <1>4
  <2>2. CASE h = ring
    BY <1>2, <2>1, <2>2 DEF Unchanged
  <2>3. CASE h # ring
    <3>1. Whole(ring, h, m)
      BY <1>1, <1>2, <2>1, <2>3 DEF Whole
    <3> QED BY <1>2, <2>1, <3>1
  <2> QED BY <2>2, <2>3
<1>5. CASE m.args # <<>>
  <2>1. Len(m.args) = 1 /\ c \in Seq(Cell) /\ Len(c) = 2 /\ \A i \in 1 .. 2 : ~c[i].hdr
    BY <1>5, HeaderTyped, ArgCellsTyped
  <2> HIDE DEF c
  <2>2. Len(h) \in Nat
    BY <1>2, LenProperties
  <2>3. /\ f \in Seq(Cell)
        /\ Len(f) <= Capacity
        /\ \/ f = h /\ Len(h) + 2 > Capacity
           \/ /\ Len(f) = Len(h) + 2
              /\ \A i \in 1 .. Len(h) : f[i] = h[i]
              /\ \A i \in 1 .. 2 : f[Len(h) + i] = c[i]
    <3>1. /\ f \in Seq(Cell)
          /\ Len(f) <= Capacity
          /\ \/ f = h /\ Len(h) + Len(c) > Capacity
             \/ /\ Len(f) = Len(h) + Len(c)
                /\ \A i \in 1 .. Len(h) : f[i] = h[i]
                /\ \A i \in 1 .. Len(c) : f[Len(h) + i] = c[i]
      BY <1>2, <2>1, CbufWriteFits
    <3> QED BY <2>1, <3>1
  <2>4. ring' = f /\ torn' = (torn \/ (h # ring /\ f = h))
    BY <1>3, <1>5
  <2> HIDE DEF f
  <2>5. CASE h = ring
    <3>1. f = h
      BY <1>1, <1>2, <2>3, <2>5
    <3> QED BY <1>1, <2>3, <2>4, <2>5, <3>1 DEF Unchanged
  <2>6. CASE h # ring /\ f = h
    BY <1>2, <1>5, <2>3, <2>4, <2>6 DEF Tore
  <2>7. CASE h # ring /\ f # h
    <3>1. Len(f) = Len(ring) + 3 /\ Len(h) = Len(ring) + 1
      BY <1>1, <1>2, <2>3, <2>7
    <3>2. \A i \in 1 .. Len(ring) : f[i] = ring[i]
      <4>1. \A i \in 1 .. Len(ring) : i \in 1 .. Len(h) /\ h[i] = ring[i]
        BY <1>1, <1>2, <2>7, <3>1
      <4>2. \A i \in 1 .. Len(h) : f[i] = h[i]
        BY <2>3, <2>7
      <4> QED BY <4>1, <4>2
    <3>3. f[Len(ring) + 1] = Header(m)
      BY <1>1, <1>2, <2>3, <2>7, <3>1
    <3>4. \A i \in Len(ring) + 2 .. Len(f) : ~f[i].hdr
      <4>1. f[Len(h) + 1] = c[1] /\ f[Len(h) + 2] = c[2] /\ ~c[1].hdr /\ ~c[2].hdr
        BY <2>1, <2>3, <2>7
      <4>2. \A i \in Len(ring) + 2 .. Len(f) : i = Len(h) + 1 \/ i = Len(h) + 2
        BY <1>1, <3>1
      <4> QED BY <4>1, <4>2
    <3>5. /\ f[Len(ring) + 1 + 1] = ArgCells(m.args[1])[1]
          /\ f[Len(ring) + 1 + 2] = ArgCells(m.args[1])[2]
      BY <2>3, <2>7, <3>1 DEF c
    <3>6. Whole(ring, f, m)
      BY <2>1, <3>1, <3>2, <3>3, <3>4, <3>5, <1>1 DEF Whole
    <3> QED BY <2>3, <2>4, <2>7, <3>6, <1>1
  <2> QED BY <2>5, <2>6, <2>7
<1> QED BY <1>4, <1>5

\* What task_get_msg takes from the ring: a prefix of at least the header.
LEMMA GetResult ==
  ASSUME TypeOK, NEW len \in Lens, GetFrame(len)
  PROVE  LET k == 1 + 2 * Readable(ring)
         IN  /\ k \in 1 .. Len(ring)
             /\ ring' \in Seq(Cell)
             /\ Len(ring') = Len(ring) - k
             /\ \A i \in 1 .. Len(ring) - k : ring'[i] = ring[k + i]
             /\ 2 * ring[1].n <= Len(ring) - 1 => Readable(ring) = ring[1].n
<1> DEFINE R == Readable(ring)
           L == Len(ring)
<1>1. ring \in Seq(Cell) /\ L \in Nat /\ ring # <<>>
  BY LenProperties DEF TypeOK, GetFrame
<1>2. L >= 1 /\ Head(ring) = ring[1] /\ ring[1] \in Cell /\ ring[1].n \in Nat
  <2>1. L # 0
    BY <1>1, EmptySeq
  <2>2. L >= 1
    BY <1>1, <2>1
  <2>3. ring[1] \in Cell
    BY <1>1, <2>2, ElementOfSeq
  <2> QED BY <1>1, <2>2, <2>3 DEF Cell
<1>3. R \in Nat /\ 2 * R <= L - 1 /\ (2 * ring[1].n <= L - 1 => R = ring[1].n)
  BY <1>1, <1>2 DEF Readable
<1>4. ring' = SubSeq(ring, 2 + 2 * R, L)
  BY DEF GetFrame
<1>5. \A i \in 2 + 2 * R .. L : ring[i] \in Cell
  BY <1>1, <1>3, ElementOfSeq
<1>6. /\ ring' \in Seq(Cell)
      /\ Len(ring') = (IF 2 + 2 * R <= L THEN L - (2 + 2 * R) + 1 ELSE 0)
      /\ \A i \in 1 .. L - (2 + 2 * R) + 1 : ring'[i] = ring[(2 + 2 * R) + i - 1]
  <2>1. 2 + 2 * R \in Int /\ L \in Int
    BY <1>1, <1>3
  <2> QED BY <1>4, <1>5, <2>1, SubSeqProperties
<1>7. Len(ring') = L - (1 + 2 * R)
  BY <1>1, <1>3, <1>6
<1>8. \A i \in 1 .. L - (1 + 2 * R) : ring'[i] = ring[1 + 2 * R + i]
  <2> SUFFICES ASSUME NEW i \in 1 .. L - (1 + 2 * R)
               PROVE  ring'[i] = ring[1 + 2 * R + i]
    OBVIOUS
  <2>1. i \in 1 .. L - (2 + 2 * R) + 1 /\ (2 + 2 * R) + i - 1 = 1 + 2 * R + i
    BY <1>1, <1>3
  <2> QED BY <1>6, <2>1
<1> QED BY <1>1, <1>2, <1>3, <1>6, <1>7, <1>8

-----------------------------------------------------------------------------
(***************************************************************************)
(* Types.                                                                  *)
(***************************************************************************)

LEMMA EmptyRing == <<>> \in Seq(Cell) /\ Len(<<>>) = 0 /\ 0 <= Capacity
BY MsgAssumption, EmptySeq

LEMMA TypeInit == Init => TypeOK
<1> SUFFICES ASSUME Init PROVE TypeOK
  OBVIOUS
<1>1. ring \in Seq(Cell) /\ Len(ring) <= Capacity
  BY EmptyRing DEF Init
<1>2. tick \in 0 .. HalfPeriod - 1
  BY MsgAssumption DEF Init
<1> QED BY <1>1, <1>2 DEF Init, TypeOK

LEMMA TypeNext == TypeOK /\ [Next]_vars => TypeOK'
<1> SUFFICES ASSUME TypeOK, [Next]_vars
             PROVE  TypeOK'
  OBVIOUS
<1> USE DEF TypeOK
<1>1. ASSUME NEW e \in Events, PostEvent(e) PROVE TypeOK'
  BY <1>1 DEF PostEvent, Wake
<1>2. ASSUME NEW m \in Messages, PostMsg(m) PROVE TypeOK'
  <2>1. ring' \in Seq(Cell) /\ Len(ring') <= Capacity /\ torn' \in BOOLEAN
    BY <1>2, PostResult
  <2> QED BY <1>2, <2>1 DEF PostMsg, Wake
<1>3. CASE ClearAll
  <2>1. ring' \in Seq(Cell) /\ Len(ring') <= Capacity
    BY <1>3, EmptyRing DEF ClearAll
  <2> QED BY <1>3, <2>1 DEF ClearAll
<1>4. CASE TimerTick
  <2>1. tick' \in 0 .. HalfPeriod - 1 /\ half' \in {0, 1}
    BY <1>4, MsgAssumption DEF TimerTick
  <2>2. events' \subseteq Events
    BY <1>4, MsgAssumption DEF TimerTick
  <2> QED BY <1>4, <2>1, <2>2 DEF TimerTick, Wake
<1>5. CASE GetEvent
  BY <1>5 DEF GetEvent
<1>6. ASSUME NEW len \in Lens, GetFrame(len) PROVE TypeOK'
  <2>1. ring' \in Seq(Cell) /\ Len(ring') <= Len(ring)
    BY <1>6, GetResult
  <2>2. Len(ring) \in Nat /\ Len(ring') \in Nat /\ Capacity \in Nat
    BY <2>1, LenProperties, MsgAssumption
  <2> QED BY <1>6, <2>1, <2>2 DEF GetFrame
<1>7. CASE GetNothing
  BY <1>7 DEF GetNothing
<1>8. CASE EnterIdle
  BY <1>8 DEF EnterIdle
<1>9. CASE UNCHANGED vars
  BY <1>9 DEF vars
<1> QED BY <1>1, <1>2, <1>3, <1>4, <1>5, <1>6, <1>7, <1>8, <1>9 DEF Next, Get

\* The ring of msg.c never outgrows msg_pool, and events, timer and core stay
\* in their ranges, whatever the interrupts and the tasks post.
THEOREM TypeCorrect == Spec => []TypeOK
<1>1. Init => TypeOK
  BY TypeInit
<1>2. TypeOK /\ [Next]_vars => TypeOK'
  BY TypeNext
<1> QED BY <1>1, <1>2, PTL DEF Spec

-----------------------------------------------------------------------------
(***************************************************************************)
(* Framing.  The invariant is inductive together with TypeOK: a step that  *)
(* is not torn either leaves the ring alone, empties it, appends a whole   *)
(* frame, or drops the frame at its head.                                  *)
(***************************************************************************)

WholeFrames(r) ==
  /\ r # <<>> => r[1].hdr
  /\ \A i \in 1 .. Len(r) :
       r[i].hdr =>
         /\ i + 2 * r[i].n <= Len(r)
         /\ \A j \in i + 1 .. i + 2 * r[i].n : ~r[j].hdr
         /\ i + 2 * r[i].n < Len(r) => r[i + 2 * r[i].n + 1].hdr

LEMMA FramedIsWhole == Framed <=> (~torn => WholeFrames(ring))
BY DEF Framed, FrameEnd, WholeFrames

\* A whole frame appended to whole frames.
LEMMA AppendKeepsFrames ==
  ASSUME NEW r \in Seq(Cell), NEW f \in Seq(Cell), NEW m \in Messages,
         WholeFrames(r), Whole(r, f, m)
  PROVE  WholeFrames(f)
<1> DEFINE L == Len(r)
           k == 2 * Len(m.args)
<1>1. L \in Nat /\ Len(f) \in Nat /\ k \in Nat /\ Len(f) = L + 1 + k
  <2>1. L \in Nat /\ Len(f) \in Nat
    BY LenProperties
  <2>2. Len(m.args) \in Nat
    BY HeaderTyped, EmptySeq
  <2>3. k \in Nat
    BY <2>2
  <2>4. Len(f) = L + 1 + k
    BY DEF Whole
  <2> QED BY <2>1, <2>3, <2>4
<1>2. /\ \A i \in 1 .. L : f[i] = r[i] /\ r[i].n \in Nat
      /\ f[L + 1].hdr
      /\ 2 * f[L + 1].n = k
      /\ \A i \in L + 2 .. Len(f) : ~f[i].hdr
  <2>1. ASSUME NEW i \in 1 .. L PROVE r[i].n \in Nat
    <3>1. r[i] \in Cell
      BY ElementOfSeq
    <3> QED BY <3>1 DEF Cell
  <2>2. f[L + 1].hdr /\ f[L + 1].n = Len(m.args)
    BY HeaderTyped DEF Whole
  <2> QED BY <2>1, <2>2 DEF Whole
<1> HIDE DEF k
<1>3. f[1].hdr
  <2>1. CASE L = 0
    BY <1>2, <2>1
  <2>2. CASE L # 0
    <3>1. r # <<>> /\ 1 \in 1 .. L
      BY <1>1, <2>2, EmptySeq
    <3> QED BY <1>2, <3>1 DEF WholeFrames
  <2> QED BY <2>1, <2>2
<1>4. ASSUME NEW i \in 1 .. Len(f), f[i].hdr
      PROVE  /\ i + 2 * f[i].n <= Len(f)
             /\ \A j \in i + 1 .. i + 2 * f[i].n : ~f[j].hdr
             /\ i + 2 * f[i].n < Len(f) => f[i + 2 * f[i].n + 1].hdr
  <2>1. i \in 1 .. L \/ i = L + 1
    BY <1>1, <1>2, <1>4
  <2>2. CASE i \in 1 .. L
    <3> DEFINE e == i + 2 * r[i].n
    <3>1. f[i] = r[i] /\ r[i].n \in Nat /\ r[i].hdr
      BY <1>2, <1>4, <2>2
    <3>2. /\ e <= L
          /\ \A j \in i + 1 .. e : ~r[j].hdr
          /\ e < L => r[e + 1].hdr
      BY <2>2, <3>1 DEF WholeFrames
    <3>3. e \in Nat /\ e >= 1
      BY <2>2, <3>1
    <3> HIDE DEF e
    <3>4. \A j \in i + 1 .. e : ~f[j].hdr
      <4>1. \A j \in i + 1 .. e : j \in 1 .. L
        BY <1>1, <2>2, <3>2, <3>3
      <4> QED BY <1>2, <3>2, <4>1
    <3>5. f[e + 1].hdr
      <4>1. CASE e < L
        BY <1>1, <1>2, <3>2, <3>3, <4>1
      <4>2. CASE e = L
        BY <1>2, <4>2
      <4> QED BY <1>1, <3>2, <3>3, <4>1, <4>2
    <3>6. e <= Len(f)
      BY <1>1, <3>2, <3>3
    <3> QED BY <3>1, <3>4, <3>5, <3>6 DEF e
  <2>3. CASE i = L + 1
    <3>1. i + 2 * f[i].n = Len(f)
      BY <1>1, <1>2, <2>3
    <3>2. \A j \in i + 1 .. Len(f) : ~f[j].hdr
      BY <1>1, <1>2, <2>3
    <3> QED BY <1>1, <3>1, <3>2
  <2> QED BY <2>1, <2>2, <2>3
<1> QED BY <1>3, <1>4 DEF WholeFrames

LEMMA ShiftedIndex ==
  ASSUME NEW k \in Nat, NEW l \in Nat, NEW m \in Nat, m = l - k, NEW i \in 1 .. m
  PROVE  i \in Nat /\ k + i \in 1 .. l
OBVIOUS

LEMMA ShiftedRange ==
  ASSUME NEW k \in Nat, NEW i \in Nat, NEW n \in Nat, NEW m \in Nat, i + n <= m,
         NEW j \in i + 1 .. i + n
  PROVE  j \in 1 .. m /\ k + j \in (k + i) + 1 .. (k + i) + n
OBVIOUS

\* What is left of whole frames behind a place where a frame ends.
LEMMA RestKeepsFrames ==
  ASSUME NEW r \in Seq(Cell), NEW f \in Seq(Cell), NEW k \in Nat, WholeFrames(r),
         k < Len(r) => r[k + 1].hdr,
         Len(f) = Len(r) - k, \A i \in 1 .. Len(f) : f[i] = r[k + i]
  PROVE  WholeFrames(f)
<1>1. Len(r) \in Nat /\ Len(f) \in Nat
  OBVIOUS
<1>2. f # <<>> => f[1].hdr
  <2> SUFFICES ASSUME f # <<>> PROVE f[1].hdr
    OBVIOUS
  <2>1. Len(f) \in Nat \ {0}
    BY EmptySeq
  <2>2. k < Len(r) /\ f[1] = r[k + 1]
    BY <1>1, <2>1
  <2> QED BY <2>2
<1>3. ASSUME NEW i \in 1 .. Len(f), f[i].hdr
      PROVE  /\ i + 2 * f[i].n <= Len(f)
             /\ \A j \in i + 1 .. i + 2 * f[i].n : ~f[j].hdr
             /\ i + 2 * f[i].n < Len(f) => f[i + 2 * f[i].n + 1].hdr
  <2>1. i \in Nat /\ k + i \in 1 .. Len(r)
    BY <1>1, ShiftedIndex
  <2>2. f[i] = r[k + i] /\ r[k + i].hdr
    BY <1>3
  <2>3. r[k + i].n \in Nat
    <3>1. r[k + i] \in Cell
      BY <2>1, ElementOfSeq
    <3> QED BY <3>1 DEF Cell
  <2>4. PICK n \in Nat : n = 2 * f[i].n
    BY <2>2, <2>3
  <2>5. /\ (k + i) + n <= Len(r)
        /\ \A j \in (k + i) + 1 .. (k + i) + n : ~r[j].hdr
        /\ (k + i) + n < Len(r) => r[(k + i) + n + 1].hdr
    BY <2>1, <2>2, <2>4 DEF WholeFrames
  <2>6. i + n <= Len(f)
    BY <1>1, <2>1, <2>5
  <2>7. ASSUME NEW j \in i + 1 .. i + n PROVE ~f[j].hdr
    <3>1. j \in 1 .. Len(f) /\ k + j \in (k + i) + 1 .. (k + i) + n
      BY <1>1, <2>1, <2>6, ShiftedRange
    <3> QED BY <2>5, <3>1
  <2>8. ASSUME i + n < Len(f) PROVE f[i + n + 1].hdr
    <3>1. i + n + 1 \in 1 .. Len(f) /\ k + (i + n + 1) = (k + i) + n + 1
          /\ (k + i) + n < Len(r)
      BY <1>1, <2>1, <2>8
    <3>2. f[i + n + 1] = r[k + (i + n + 1)]
      BY <3>1
    <3> QED BY <2>5, <3>1, <3>2
  <2> QED BY <2>4, <2>6, <2>7, <2>8
<1> QED BY <1>2, <1>3 DEF WholeFrames

\* The frame at the head taken from whole frames.
LEMMA DropKeepsFrames ==
  ASSUME NEW r \in Seq(Cell), NEW f \in Seq(Cell), r # <<>>, WholeFrames(r),
         Len(f) = Len(r) - (1 + 2 * r[1].n),
         \A i \in 1 .. Len(f) : f[i] = r[1 + 2 * r[1].n + i]
  PROVE  WholeFrames(f)
<1>1. Len(r) \in Nat \ {0}
  BY EmptySeq
<1>2. r[1].hdr /\ r[1].n \in Nat
  <2>1. 1 \in 1 .. Len(r)
    BY <1>1
  <2>2. r[1] \in Cell
    BY <2>1, ElementOfSeq
  <2> QED BY <2>2 DEF WholeFrames, Cell
<1>3. PICK k \in Nat : k = 1 + 2 * r[1].n
  BY <1>2
<1>4. k < Len(r) => r[k + 1].hdr
  <2>1. 1 \in 1 .. Len(r) /\ 1 + 2 * r[1].n + 1 = k + 1
    BY <1>1, <1>2, <1>3
  <2>2. 1 + 2 * r[1].n < Len(r) => r[1 + 2 * r[1].n + 1].hdr
    BY <1>2, <2>1 DEF WholeFrames
  <2> QED BY <1>3, <2>1, <2>2
<1>5. Len(f) = Len(r) - k /\ \A i \in 1 .. Len(f) : f[i] = r[k + i]
  BY <1>3
<1> QED BY <1>4, <1>5, RestKeepsFrames

LEMMA FramedNext == TypeOK /\ Framed /\ [Next]_vars => Framed'
<1> SUFFICES ASSUME TypeOK, Framed, [Next]_vars, ~torn'
             PROVE  WholeFrames(ring')
  BY DEF Framed, FrameEnd, WholeFrames
<1>0. (~torn => WholeFrames(ring)) /\ ring \in Seq(Cell) /\ torn \in BOOLEAN
  BY FramedIsWhole DEF TypeOK
<1>1. CASE UNCHANGED <<ring, torn>>
  BY <1>0, <1>1
<1>2. CASE ring' = <<>>
  BY <1>2, EmptySeq DEF WholeFrames
<1>3. ASSUME NEW m \in Messages, PostMsg(m) PROVE WholeFrames(ring')
  <2>1. ring' \in Seq(Cell) /\ ~torn
    BY <1>0, <1>3, PostResult DEF PostMsg
  <2>2. Unchanged(ring, ring', m) \/ Whole(ring, ring', m)
    BY <1>3, PostResult
  <2>3. CASE Unchanged(ring, ring', m)
    BY <1>0, <2>1, <2>3 DEF Unchanged
  <2>4. CASE Whole(ring, ring', m)
    BY <1>0, <2>1, <2>4, AppendKeepsFrames
  <2> QED BY <2>2, <2>3, <2>4
<1>4. ASSUME NEW len \in Lens, GetFrame(len), ring' # <<>> PROVE WholeFrames(ring')
  <2>1. ~torn /\ ring # <<>>
    BY <1>0, <1>4 DEF GetFrame
  <2>2. ring[1].hdr /\ Len(ring) \in Nat \ {0} /\ ring[1] \in Cell
    BY <1>0, <2>1, EmptySeq, ElementOfSeq DEF WholeFrames
  <2>3. ring[1].n \in Nat /\ 2 * ring[1].n <= Len(ring) - 1
    BY <1>0, <2>1, <2>2 DEF WholeFrames, Cell
  <2>4. /\ ring' \in Seq(Cell)
        /\ Len(ring') = Len(ring) - (1 + 2 * Readable(ring))
        /\ \A i \in 1 .. Len(ring) - (1 + 2 * Readable(ring)) :
             ring'[i] = ring[1 + 2 * Readable(ring) + i]
        /\ Readable(ring) = ring[1].n
    BY <1>4, <2>3, GetResult
  <2>5. /\ Len(ring') = Len(ring) - (1 + 2 * ring[1].n)
        /\ \A i \in 1 .. Len(ring') : ring'[i] = ring[1 + 2 * ring[1].n + i]
    BY <2>4
  <2> QED BY <1>0, <2>1, <2>4, <2>5, DropKeepsFrames
<1> QED
  BY <1>1, <1>2, <1>3, <1>4
     DEF Next, Get, PostEvent, ClearAll, TimerTick, GetEvent, GetNothing, EnterIdle, vars

\* As long as a full ring has not torn a post, task_get_msg always finds a
\* header where it looks for one, with its own parameters behind it.
THEOREM FramedAlways == Spec => []Framed
<1>1. Init => TypeOK /\ Framed
  BY TypeInit, EmptySeq DEF Init, Framed
<1>2. TypeOK /\ Framed /\ [Next]_vars => (TypeOK /\ Framed)'
  BY TypeNext, FramedNext
<1> QED BY <1>1, <1>2, PTL DEF Spec

-----------------------------------------------------------------------------
(***************************************************************************)
(* Ranks.  What Queue counts: the rank of a member of a finite set of      *)
(* numbers, when a greatest member comes or the least one goes and the     *)
(* others are renumbered.                                                  *)
(***************************************************************************)
LEMMA RankFinite ==
  ASSUME NEW n \in Nat, NEW S \in SUBSET (1 .. n)
  PROVE  /\ IsFiniteSet(S) /\ Cardinality(S) \in Nat
         /\ \A i \in Nat : /\ IsFiniteSet({j \in S : j <= i})
                           /\ Rank(S, i) \in 0 .. Cardinality(S)
<1>1. IsFiniteSet(S)
  <2>1. 1 \in Int /\ n \in Int
    OBVIOUS
  <2> QED BY <2>1, FS_Interval, FS_Subset
<1>2. \A i \in Nat : {j \in S : j <= i} \in SUBSET S
  OBVIOUS
<1>3. ASSUME NEW i \in Nat
      PROVE  /\ IsFiniteSet({j \in S : j <= i})
             /\ Rank(S, i) \in 0 .. Cardinality(S)
  <2>1. /\ IsFiniteSet({j \in S : j <= i})
        /\ Cardinality({j \in S : j <= i}) <= Cardinality(S)
    BY <1>1, <1>2, FS_Subset
  <2> QED BY <1>1, <2>1, FS_CardinalityType DEF Rank
<1> QED BY <1>1, <1>3, FS_CardinalityType

\* Ranks number a set from 1 to its size.
LEMMA RankNumbers ==
  ASSUME NEW n \in Nat, NEW S \in SUBSET (1 .. n)
  PROVE  /\ \A i \in S : Rank(S, i) \in 1 .. Cardinality(S)
         /\ \A i, j \in S : Rank(S, i) = Rank(S, j) => i = j
         /\ \A k \in 1 .. Cardinality(S) : \E i \in S : Rank(S, i) = k
<1> DEFINE c == Cardinality(S)
           f == [i \in S |-> Rank(S, i)]
<1>0. S \subseteq Nat
  OBVIOUS
<1>1. IsFiniteSet(S) /\ c \in Nat
  BY RankFinite
<1>2. ASSUME NEW i \in S PROVE Rank(S, i) \in 1 .. c
  <2>1. IsFiniteSet({j \in S : j <= i}) /\ Rank(S, i) \in 0 .. c
    BY <1>0, RankFinite
  <2>0. i \in {j \in S : j <= i}
    BY <1>0
  <2>2. Rank(S, i) # 0
    BY <2>0, <2>1, FS_EmptySet DEF Rank
  <2> QED BY <1>1, <2>1, <2>2
<1>3. ASSUME NEW i \in S, NEW j \in S, i < j PROVE Rank(S, i) < Rank(S, j)
  <2> DEFINE A == {x \in S : x <= i}
             B == {x \in S : x <= j}
  <2>1. IsFiniteSet(B) /\ Cardinality(B) \in Nat /\ IsFiniteSet(A) /\ Cardinality(A) \in Nat
    BY <1>0, RankFinite, FS_CardinalityType
  <2>2. A \in SUBSET (B \ {j}) /\ j \in B
    <3>1. \A x \in S : x <= i => x <= j /\ x # j
      BY <1>0, <1>3
    <3>2. j <= j
      BY <1>0
    <3>3. A \subseteq B \ {j}
      BY <3>1
    <3> QED BY <3>2, <3>3
  <2>3. IsFiniteSet(B \ {j}) /\ Cardinality(B \ {j}) = Cardinality(B) - 1
    BY <2>1, <2>2, FS_RemoveElement
  <2>4. Cardinality(A) <= Cardinality(B \ {j})
    BY <2>2, <2>3, FS_Subset
  <2> HIDE DEF A, B
  <2>5. Cardinality(A) < Cardinality(B)
    BY <2>1, <2>3, <2>4
  <2> QED BY <2>5 DEF Rank, A, B
<1>4. ASSUME NEW i \in S, NEW j \in S, Rank(S, i) = Rank(S, j) PROVE i = j
  <2>1. i < j \/ j < i \/ i = j
    OBVIOUS
  <2>2. Rank(S, i) \in Nat /\ Rank(S, j) \in Nat
    BY <1>2
  <2> QED BY <1>3, <1>4, <2>1, <2>2
<1>5. f \in Injection(S, 1 .. c)
  <2>1. f \in [S -> 1 .. c]
    BY <1>2
  <2>2. \A i, j \in S : f[i] = f[j] => i = j
    BY <1>4
  <2> HIDE DEF f
  <2> QED BY <2>1, <2>2, Fun_IsInj
<1>6. f \in Surjection(S, 1 .. c)
  <2>1. IsFiniteSet(1 .. c) /\ Cardinality(1 .. c) = c
    <3>1. 1 \in Int /\ c \in Int
      BY <1>1
    <3> QED BY <1>1, <3>1, FS_Interval
  <2> HIDE DEF f
  <2> QED BY <1>5, <2>1, FS_Injection
<1>7. ASSUME NEW k \in 1 .. c PROVE \E i \in S : Rank(S, i) = k
  BY <1>6 DEF Surjection
<1> QED BY <1>2, <1>4, <1>7

\* A member above all others comes last.
LEMMA RankAdded ==
  ASSUME NEW n \in Nat, NEW S \in SUBSET (1 .. n), NEW m \in Nat, \A i \in S : i < m
  PROVE  /\ Cardinality(S \union {m}) = Cardinality(S) + 1
         /\ \A i \in S : Rank(S \union {m}, i) = Rank(S, i)
         /\ Rank(S \union {m}, m) = Cardinality(S) + 1
<1>1. IsFiniteSet(S) /\ m \notin S
  BY RankFinite
<1>2. Cardinality(S \union {m}) = Cardinality(S) + 1
  BY <1>1, FS_AddElement
<1>3. \A i \in S : {j \in S \union {m} : j <= i} = {j \in S : j <= i}
  OBVIOUS
<1>4. {j \in S \union {m} : j <= m} = S \union {m}
  <2>1. \A j \in S \union {m} : j <= m
    OBVIOUS
  <2> QED BY <2>1
<1> QED BY <1>2, <1>3, <1>4 DEF Rank

LEMMA Shifted ==
  ASSUME NEW T \in SUBSET Nat, IsFiniteSet(T), NEW k \in Nat
  PROVE  /\ IsFiniteSet({j + k : j \in T})
         /\ Cardinality({j + k : j \in T}) = Cardinality(T)
<1> DEFINE U == {j + k : j \in T}
           f == [j \in T |-> j + k]
<1>1. f \in Bijection(T, U)
  <2>1. f \in [T -> U]
    OBVIOUS
  <2>2. \A i, j \in T : f[i] = f[j] => i = j
    OBVIOUS
  <2>3. \A u \in U : \E j \in T : f[j] = u
    OBVIOUS
  <2> HIDE DEF f, U
  <2> QED BY <2>1, <2>2, <2>3, Fun_IsBij
<1> HIDE DEF f, U
<1>2. IsFiniteSet(U) /\ Cardinality(U) = Cardinality(T)
  BY <1>1, FS_Bijection DEF ExistsBijection
<1> QED BY <1>2 DEF U

\* The least member goes, and the others, all above k, come k lower.
Lowered(S, R, k, m) ==
  /\ S \in SUBSET Nat /\ R \in SUBSET Nat /\ IsFiniteSet(R)
  /\ k \in Nat /\ m \in S /\ m <= k
  /\ \A i \in S : i = m \/ i > k
  /\ \A i \in Nat : i \in R <=> i + k \in S /\ i >= 1

LEMMA RankDropped ==
  ASSUME NEW S, NEW R, NEW k, NEW m, Lowered(S, R, k, m)
  PROVE  /\ Cardinality(S) = Cardinality(R) + 1
         /\ Rank(S, m) = 1
         /\ \A i \in R : i + k \in S /\ Rank(S, i + k) = Rank(R, i) + 1
<1>0. /\ S \in SUBSET Nat /\ R \in SUBSET Nat /\ IsFiniteSet(R)
      /\ k \in Nat /\ m \in S /\ m <= k
      /\ \A i \in S : i = m \/ i > k
      /\ \A i \in Nat : i \in R <=> i + k \in S /\ i >= 1
  BY DEF Lowered
<1>1. ASSUME NEW Q \in SUBSET R
      PROVE  Cardinality({m} \union {j + k : j \in Q}) = Cardinality(Q) + 1
  <2>1. IsFiniteSet(Q) /\ Q \in SUBSET Nat
    BY <1>0, FS_Subset
  <2>2. IsFiniteSet({j + k : j \in Q}) /\ Cardinality({j + k : j \in Q}) = Cardinality(Q)
    BY <1>0, <2>1, Shifted
  <2>3. m \notin {j + k : j \in Q}
    BY <1>0
  <2>4. {m} \union {j + k : j \in Q} = {j + k : j \in Q} \union {m}
    BY <1>0
  <2> QED BY <2>2, <2>3, <2>4, FS_AddElement
<1>2. S = {m} \union {j + k : j \in R}
  <2>1. \A i \in S : i = m \/ (i - k \in Nat /\ i - k >= 1 /\ (i - k) + k = i)
    BY <1>0
  <2>2. \A i \in S : i = m \/ i - k \in R
    <3>1. \A j \in Nat : j \in R <=> j + k \in S /\ j >= 1
      BY <1>0
    <3> QED BY <2>1, <3>1
  <2>3. \A i \in S : i = m \/ \E j \in R : i = j + k
    BY <2>1, <2>2
  <2>4. \A j \in R : j + k \in S
    BY <1>0
  <2> QED BY <1>0, <2>3, <2>4
<1>3. {j \in S : j <= m} = {m} \union {j + k : j \in {}}
  <2>1. \A j \in S : j <= m <=> j = m
    BY <1>0
  <2> QED BY <1>0, <2>1
<1>4. ASSUME NEW i \in R
      PROVE  {j \in S : j <= i + k} = {m} \union {j + k : j \in {x \in R : x <= i}}
  <2>1. \A j \in R : j \in Nat /\ (j + k <= i + k <=> j <= i)
    BY <1>0
  <2>2. m <= i + k
    BY <1>0
  <2> QED BY <1>2, <2>1, <2>2
<1>5. Cardinality(S) = Cardinality(R) + 1
  BY <1>1, <1>2
<1>6. Rank(S, m) = 1
  <2>1. {} \in SUBSET R
    BY <1>0
  <2> QED BY <1>1, <1>3, <2>1, FS_EmptySet DEF Rank
<1>7. ASSUME NEW i \in R PROVE i + k \in S /\ Rank(S, i + k) = Rank(R, i) + 1
  <2>1. {x \in R : x <= i} \in SUBSET R
    BY <1>0
  <2> QED BY <1>0, <1>1, <1>4, <2>1 DEF Rank
<1> QED BY <1>5, <1>6, <1>7
-----------------------------------------------------------------------------
(***************************************************************************)
(* The parameters behind a header.  Framed says that they belong to it;    *)
(* Loaded says that they are the ones it was posted with.  It is inductive *)
(* together with TypeOK and Framed.                                        *)
(***************************************************************************)
LoadedFrames(r) ==
  \A i \in 1 .. Len(r) :
    r[i].hdr =>
      /\ r[i].n = Len(r[i].args)
      /\ r[i].args # <<>> => /\ r[i + 1].n = r[i].args[1][1].n
                             /\ r[i + 1].id = r[i].args[1][1].id
                             /\ r[i + 2].n = r[i].args[1][2].n
                             /\ r[i + 2].id = r[i].args[1][2].id

Loaded == ~torn => LoadedFrames(ring)

LEMMA HeaderLength ==
  ASSUME NEW r \in Seq(Cell), WholeFrames(r), LoadedFrames(r),
         NEW i \in 1 .. Len(r), r[i].hdr
  PROVE  /\ r[i].args = <<>> => r[i].n = 0
         /\ r[i].args # <<>> => /\ r[i].n = 1 /\ i + 2 <= Len(r)
                                /\ Len(r[i].args) = 1 /\ r[i].args[1] \in Params
<1>1. r[i].args \in Args
  <2>1. r[i] \in Cell
    BY ElementOfSeq
  <2> QED BY <2>1 DEF Cell
<1>2. r[i].n = Len(r[i].args) /\ i + 2 * r[i].n <= Len(r)
  BY DEF WholeFrames, LoadedFrames
<1>3. r[i].args = <<>> \/ (Len(r[i].args) = 1 /\ r[i].args[1] \in Params)
  BY <1>1, ArgsTyped
<1>4. CASE r[i].args = <<>>
  BY <1>2, <1>4, EmptySeq
<1>5. CASE r[i].args # <<>>
  BY <1>2, <1>3, <1>5
<1> QED BY <1>4, <1>5

LEMMA AppendKeepsLoads ==
  ASSUME NEW r \in Seq(Cell), NEW f \in Seq(Cell), NEW m \in Messages,
         WholeFrames(r), LoadedFrames(r), Whole(r, f, m)
  PROVE  LoadedFrames(f)
<1>1. Len(r) \in Nat /\ Len(f) \in Nat
  OBVIOUS
<1>2. SUFFICES ASSUME NEW i \in 1 .. Len(f), f[i].hdr
               PROVE  /\ f[i].n = Len(f[i].args)
                      /\ f[i].args # <<>> => /\ f[i + 1].n = f[i].args[1][1].n
                                             /\ f[i + 1].id = f[i].args[1][1].id
                                             /\ f[i + 2].n = f[i].args[1][2].n
                                             /\ f[i + 2].id = f[i].args[1][2].id
  BY DEF LoadedFrames
<1>3. i \in 1 .. Len(r) \/ i = Len(r) + 1
  <2>1. \A j \in Len(r) + 2 .. Len(f) : ~f[j].hdr
    BY DEF Whole
  <2>2. i \notin Len(r) + 2 .. Len(f)
    BY <1>2, <2>1
  <2> QED BY <1>1, <2>2
<1>4. CASE i \in 1 .. Len(r)
  <2>1. f[i] = r[i] /\ r[i].hdr
    BY <1>2, <1>4 DEF Whole
  <2>2. CASE r[i].args = <<>>
    BY <1>4, <2>1, <2>2 DEF LoadedFrames
  <2>3. CASE r[i].args # <<>>
    <3>1. i + 2 <= Len(r)
      BY <1>4, <2>1, <2>3, HeaderLength
    <3>2. i + 1 \in 1 .. Len(r) /\ i + 2 \in 1 .. Len(r)
      BY <1>1, <1>4, <3>1
    <3>3. f[i + 1] = r[i + 1] /\ f[i + 2] = r[i + 2]
      BY <3>2 DEF Whole
    <3> QED BY <1>4, <2>1, <2>3, <3>3 DEF LoadedFrames
  <2> QED BY <2>2, <2>3
<1>5. CASE i = Len(r) + 1
  <2>1. f[i] = Header(m)
    BY <1>5 DEF Whole
  <2>2. f[i].n = Len(m.args) /\ f[i].args = m.args
    BY <2>1 DEF Header
  <2>3. ASSUME m.args # <<>>
        PROVE  f[i + 1] = ArgCells(m.args[1])[1] /\ f[i + 2] = ArgCells(m.args[1])[2]
    BY <1>5, <2>3 DEF Whole
  <2>4. \A p : /\ ArgCells(p)[1].n = p[1].n /\ ArgCells(p)[1].id = p[1].id
               /\ ArgCells(p)[2].n = p[2].n /\ ArgCells(p)[2].id = p[2].id
    BY DEF ArgCells
  <2> QED BY <2>2, <2>3, <2>4
<1> QED BY <1>3, <1>4, <1>5

LEMMA RestKeepsLoads ==
  ASSUME NEW r \in Seq(Cell), NEW f \in Seq(Cell), NEW k \in Nat,
         WholeFrames(r), LoadedFrames(r), WholeFrames(f),
         Len(f) = Len(r) - k, \A i \in 1 .. Len(f) : f[i] = r[k + i]
  PROVE  LoadedFrames(f)
<1>1. Len(r) \in Nat /\ Len(f) \in Nat
  OBVIOUS
<1>2. SUFFICES ASSUME NEW i \in 1 .. Len(f), f[i].hdr
               PROVE  /\ f[i].n = Len(f[i].args)
                      /\ f[i].args # <<>> => /\ f[i + 1].n = f[i].args[1][1].n
                                             /\ f[i + 1].id = f[i].args[1][1].id
                                             /\ f[i + 2].n = f[i].args[1][2].n
                                             /\ f[i + 2].id = f[i].args[1][2].id
  BY DEF LoadedFrames
<1>3. PICK h \in 1 .. Len(r) : h = k + i
  BY <1>1
<1>4. f[i] = r[h] /\ r[h].hdr
  BY <1>2, <1>3
<1>5. r[h].n = Len(r[h].args)
  BY <1>4 DEF LoadedFrames
<1>6. ASSUME r[h].args # <<>>
      PROVE  f[i + 1] = r[h + 1] /\ f[i + 2] = r[h + 2]
  <2>1. r[h].n = 1
    BY <1>4, <1>6, HeaderLength
  <2>2. i + 2 * f[i].n <= Len(f)
    BY <1>2 DEF WholeFrames
  <2>3. i + 2 <= Len(f)
    BY <1>4, <2>1, <2>2
  <2>4. i + 1 \in 1 .. Len(f) /\ i + 2 \in 1 .. Len(f)
        /\ k + (i + 1) = h + 1 /\ k + (i + 2) = h + 2
    BY <1>1, <1>3, <2>3
  <2>5. f[i + 1] = r[k + (i + 1)] /\ f[i + 2] = r[k + (i + 2)]
    BY <2>4
  <2> QED BY <2>4, <2>5
<1> QED BY <1>4, <1>5, <1>6 DEF LoadedFrames

LEMMA LoadedNext == TypeOK /\ Framed /\ Loaded /\ [Next]_vars => Loaded'
<1> SUFFICES ASSUME TypeOK, Framed, Loaded, [Next]_vars, ~torn'
             PROVE  LoadedFrames(ring')
  BY DEF Loaded
<1>0. (~torn => WholeFrames(ring) /\ LoadedFrames(ring)) /\ ring \in Seq(Cell) /\ torn \in BOOLEAN
  BY FramedIsWhole DEF TypeOK, Loaded
<1>1. CASE UNCHANGED <<ring, torn>>
  BY <1>0, <1>1
<1>2. CASE ring' = <<>>
  BY <1>2, EmptySeq DEF LoadedFrames
<1>3. ASSUME NEW m \in Messages, PostMsg(m) PROVE LoadedFrames(ring')
  <2>1. ring' \in Seq(Cell) /\ ~torn
    BY <1>0, <1>3, PostResult DEF PostMsg
  <2>2. Unchanged(ring, ring', m) \/ Whole(ring, ring', m)
    BY <1>3, PostResult
  <2>3. CASE Unchanged(ring, ring', m)
    BY <1>0, <2>1, <2>3 DEF Unchanged
  <2>4. CASE Whole(ring, ring', m)
    BY <1>0, <2>1, <2>4, AppendKeepsLoads
  <2> QED BY <2>2, <2>3, <2>4
<1>4. ASSUME NEW len \in Lens, GetFrame(len), ring' # <<>> PROVE LoadedFrames(ring')
  <2>1. ~torn
    BY <1>0, <1>4 DEF GetFrame
  <2>2. WholeFrames(ring')
    <3>1. Framed'
      BY FramedNext
    <3> QED BY <3>1 DEF Framed, FrameEnd, WholeFrames
  <2>3. PICK k \in 1 .. Len(ring) : k = 1 + 2 * Readable(ring)
    BY <1>4, GetResult
  <2>4. /\ ring' \in Seq(Cell)
        /\ Len(ring') = Len(ring) - k
        /\ \A i \in 1 .. Len(ring) - k : ring'[i] = ring[k + i]
    BY <1>4, <2>3, GetResult
  <2>5. k \in Nat
    OBVIOUS
  <2> QED BY <1>0, <2>1, <2>2, <2>4, <2>5, RestKeepsLoads
<1> QED
  BY <1>1, <1>2, <1>3, <1>4
     DEF Next, Get, PostEvent, ClearAll, TimerTick, GetEvent, GetNothing, EnterIdle, vars

\* As long as no post is torn, the cells behind a header are the parameter that
\* task_post_msg was given with that message number.
THEOREM LoadedAlways == Spec => []Loaded
<1>1. Init => TypeOK /\ Framed /\ Loaded
  BY TypeInit, EmptySeq DEF Init, Framed, Loaded, LoadedFrames
<1>2. TypeOK /\ Framed /\ Loaded /\ [Next]_vars => (TypeOK /\ Framed /\ Loaded)'
  BY TypeNext, FramedNext, LoadedNext
<1> QED BY <1>1, <1>2, PTL DEF Spec

-----------------------------------------------------------------------------
(***************************************************************************)
(* The queue of messages that the ring stands for.                         *)
(***************************************************************************)
HeadersOf(r) == {i \in 1 .. Len(r) : r[i].hdr}
QueueOf(r) ==
  [k \in 1 .. Cardinality(HeadersOf(r)) |->
     MessageOf(r[CHOOSE i \in HeadersOf(r) : Rank(HeadersOf(r), i) = k])]

LEMMA QueueIsOf == Queue = QueueOf(ring)
BY DEF Queue, Headers, QueueOf, HeadersOf

AnyMessage == [id : Nat, args : Args]

\* The message of a header is at its rank, and there are no others.
LEMMA QueueAt ==
  ASSUME NEW r \in Seq(Cell)
  PROVE  /\ Cardinality(HeadersOf(r)) \in Nat
         /\ QueueOf(r) \in Seq(AnyMessage)
         /\ Len(QueueOf(r)) = Cardinality(HeadersOf(r))
         /\ \A i \in HeadersOf(r) :
              /\ Rank(HeadersOf(r), i) \in 1 .. Cardinality(HeadersOf(r))
              /\ QueueOf(r)[Rank(HeadersOf(r), i)] = MessageOf(r[i])
         /\ \A k \in 1 .. Cardinality(HeadersOf(r)) :
              \E i \in HeadersOf(r) : Rank(HeadersOf(r), i) = k
<1> DEFINE H == HeadersOf(r)
           c == Cardinality(H)
<1>1. Len(r) \in Nat /\ H \in SUBSET (1 .. Len(r))
  BY DEF HeadersOf
<1> HIDE DEF H
<1>2. /\ \A i \in H : Rank(H, i) \in 1 .. c
      /\ \A i, j \in H : Rank(H, i) = Rank(H, j) => i = j
      /\ \A k \in 1 .. c : \E i \in H : Rank(H, i) = k
      /\ c \in Nat
  BY <1>1, RankNumbers, RankFinite
<1>3. \A i \in H : MessageOf(r[i]) \in AnyMessage
  <2>1. \A i \in H : r[i] \in Cell
    BY <1>1, ElementOfSeq
  <2> QED BY <2>1 DEF MessageOf, AnyMessage, Cell
<1>4. \A k \in 1 .. c : /\ (CHOOSE i \in H : Rank(H, i) = k) \in H
                        /\ Rank(H, CHOOSE i \in H : Rank(H, i) = k) = k
  BY <1>2
<1>5. QueueOf(r) = [k \in 1 .. c |-> MessageOf(r[CHOOSE i \in H : Rank(H, i) = k])]
  BY DEF QueueOf, H
<1>6. QueueOf(r) \in [1 .. c -> AnyMessage]
  BY <1>3, <1>4, <1>5
<1>7. QueueOf(r) \in Seq(AnyMessage) /\ Len(QueueOf(r)) = c
  BY <1>2, <1>6
<1>8. ASSUME NEW i \in H PROVE QueueOf(r)[Rank(H, i)] = MessageOf(r[i])
  <2>1. Rank(H, i) \in 1 .. c
    BY <1>2
  <2>2. (CHOOSE j \in H : Rank(H, j) = Rank(H, i)) = i
    BY <1>2, <1>4, <2>1
  <2> QED BY <1>5, <2>1, <2>2
<1> QED BY <1>2, <1>7, <1>8 DEF H

\* A frame appended is a message appended.
LEMMA QueueAppends ==
  ASSUME NEW r \in Seq(Cell), NEW f \in Seq(Cell), NEW m \in Messages, Whole(r, f, m)
  PROVE  QueueOf(f) = Append(QueueOf(r), m)
<1> DEFINE H == HeadersOf(r)
           G == HeadersOf(f)
           c == Cardinality(H)
           l == Len(r) + 1
<1>1. Len(r) \in Nat /\ Len(f) \in Nat /\ l \in Nat /\ H \in SUBSET (1 .. Len(r))
  BY DEF HeadersOf
<1>0. /\ \A i \in 1 .. Len(r) : f[i] = r[i]
      /\ f[Len(r) + 1] = Header(m)
      /\ \A i \in Len(r) + 2 .. Len(f) : ~f[i].hdr
  BY DEF Whole
<1>2. f[l] = Header(m) /\ f[l].hdr /\ l \in 1 .. Len(f)
  <2>1. Len(m.args) \in Nat
    BY HeaderTyped, EmptySeq
  <2>2. Len(f) = Len(r) + 1 + 2 * Len(m.args)
    BY DEF Whole
  <2>3. PICK n \in Nat : n = Len(m.args)
    BY <2>1
  <2>4. Len(f) = l + 2 * n
    BY <1>1, <2>2, <2>3
  <2>5. l <= Len(f) /\ l >= 1
    BY <1>1, <2>4
  <2>6. l \in 1 .. Len(f)
    BY <1>1, <2>5
  <2> QED BY <1>0, <2>6, HeaderTyped
<1>3. G = H \union {l}
  <2>1. \A i \in Len(r) + 2 .. Len(f) : ~f[i].hdr
    BY <1>0
  <2>2. \A i \in 1 .. Len(r) : i \in 1 .. Len(f) /\ f[i] = r[i]
    BY <1>0, <1>1, <1>2
  <2>3. \A i \in 1 .. Len(f) : i \in 1 .. Len(r) \/ i = l \/ i \in Len(r) + 2 .. Len(f)
    BY <1>1
  <2> QED BY <1>2, <2>1, <2>2, <2>3 DEF HeadersOf
<1>4. \A i \in H : i < l /\ f[i] = r[i]
  BY <1>0, <1>1
<1> HIDE DEF G, H, l
<1>5. /\ Cardinality(G) = c + 1
      /\ \A i \in H : Rank(G, i) = Rank(H, i)
      /\ Rank(G, l) = c + 1
  BY <1>1, <1>3, <1>4, RankAdded
<1>6. MessageOf(f[l]) = m /\ m \in AnyMessage
  <2>1. Ids \subseteq Nat
    BY MsgAssumption
  <2>2. m \in AnyMessage
    BY <2>1 DEF Messages, AnyMessage
  <2>3. f[l].id = m.id /\ f[l].args = m.args
    BY <1>2 DEF Header
  <2>4. m = [id |-> m.id, args |-> m.args]
    BY DEF Messages
  <2> QED BY <2>2, <2>3, <2>4 DEF MessageOf
<1>7. /\ c \in Nat
      /\ QueueOf(r) \in Seq(AnyMessage) /\ Len(QueueOf(r)) = c
      /\ \A i \in H : Rank(H, i) \in 1 .. c /\ QueueOf(r)[Rank(H, i)] = MessageOf(r[i])
      /\ \A k \in 1 .. c : \E i \in H : Rank(H, i) = k
  BY QueueAt DEF H
<1>8. /\ QueueOf(f) \in Seq(AnyMessage) /\ Len(QueueOf(f)) = c + 1
      /\ \A i \in G : QueueOf(f)[Rank(G, i)] = MessageOf(f[i])
  BY <1>5, QueueAt DEF G
<1> DEFINE a == Append(QueueOf(r), m)
<1>9. /\ a \in Seq(AnyMessage)
      /\ Len(a) = c + 1
      /\ \A k \in 1 .. c : a[k] = QueueOf(r)[k]
      /\ a[c + 1] = m
  <2>1. /\ a \in Seq(AnyMessage)
        /\ Len(a) = Len(QueueOf(r)) + 1
        /\ \A k \in 1 .. Len(QueueOf(r)) : a[k] = QueueOf(r)[k]
        /\ a[Len(QueueOf(r)) + 1] = m
    <3>1. m \in AnyMessage /\ QueueOf(r) \in Seq(AnyMessage)
      BY <1>6, <1>7
    <3> QED BY <3>1, AppendProperties
  <2> QED BY <1>7, <2>1
<1> HIDE DEF a
<1>10. ASSUME NEW k \in 1 .. c + 1 PROVE QueueOf(f)[k] = a[k]
  <2>1. CASE k = c + 1
    BY <1>3, <1>5, <1>6, <1>8, <1>9, <2>1
  <2>2. CASE k # c + 1
    <3>1. k \in 1 .. c
      BY <1>7, <2>2
    <3>2. PICK i \in H : Rank(H, i) = k
      BY <1>7, <3>1
    <3>3. QueueOf(f)[Rank(G, i)] = MessageOf(f[i])
      BY <1>3, <1>8
    <3> QED BY <1>4, <1>5, <1>7, <1>9, <3>1, <3>2, <3>3
  <2> QED BY <2>1, <2>2
<1>11. QueueOf(f) = a
  BY <1>8, <1>9, <1>10, SeqEqual
<1> QED BY <1>11 DEF a

\* The frame at the head dropped is the oldest message taken.
LEMMA QueueDrops ==
  ASSUME NEW r \in Seq(Cell), NEW f \in Seq(Cell), r # <<>>, WholeFrames(r),
         Len(f) = Len(r) - (1 + 2 * r[1].n),
         \A i \in 1 .. Len(f) : f[i] = r[1 + 2 * r[1].n + i]
  PROVE  /\ QueueOf(r) # <<>>
         /\ Head(QueueOf(r)) = MessageOf(r[1])
         /\ QueueOf(f) = Tail(QueueOf(r))
<1> DEFINE H == HeadersOf(r)
           G == HeadersOf(f)
           c == Cardinality(G)
<1>1. Len(r) \in Nat \ {0} /\ Len(f) \in Nat
      /\ H \in SUBSET (1 .. Len(r)) /\ G \in SUBSET (1 .. Len(f))
  BY EmptySeq DEF HeadersOf
<1>2. 1 \in H /\ r[1].n \in Nat /\ 1 \in 1 .. Len(r)
  <2>1. 1 \in 1 .. Len(r)
    BY <1>1
  <2>2. r[1] \in Cell
    BY <2>1, ElementOfSeq
  <2> QED BY <2>1, <2>2 DEF HeadersOf, WholeFrames, Cell
<1>3. PICK k \in Nat : k = 1 + 2 * r[1].n
  BY <1>2
<1>4. 1 <= k /\ Len(f) = Len(r) - k /\ \A i \in 1 .. Len(f) : f[i] = r[k + i]
  BY <1>2, <1>3
<1>5. \A i \in H : i = 1 \/ i > k
  <2>1. \A j \in 1 + 1 .. 1 + 2 * r[1].n : ~r[j].hdr
    BY <1>2 DEF WholeFrames, HeadersOf
  <2>2. \A j \in 1 + 1 .. k : ~r[j].hdr
    BY <1>3, <2>1
  <2>3. \A i \in 1 .. Len(r) : i = 1 \/ i > k \/ i \in 1 + 1 .. k
    BY <1>1, <1>3
  <2> QED BY <2>2, <2>3 DEF HeadersOf
<1>6. \A i \in Nat : i \in G <=> i + k \in H /\ i >= 1
  <2> SUFFICES ASSUME NEW i \in Nat
               PROVE  i \in G <=> i + k \in H /\ i >= 1
    OBVIOUS
  <2>1. i \in 1 .. Len(f) <=> i + k \in 1 .. Len(r) /\ i >= 1
    BY <1>1, <1>4
  <2>2. i \in 1 .. Len(f) => f[i] = r[i + k]
    BY <1>4
  <2> QED BY <2>1, <2>2 DEF HeadersOf
<1> HIDE DEF G, H
<1>7. /\ Cardinality(H) = c + 1
      /\ Rank(H, 1) = 1
      /\ \A i \in G : i + k \in H /\ Rank(H, i + k) = Rank(G, i) + 1
  <2>1. Len(r) \in Nat /\ Len(f) \in Nat /\ 1 \in H
        /\ H \in SUBSET (1 .. Len(r)) /\ G \in SUBSET (1 .. Len(f))
    BY <1>1, <1>2
  <2>2. IsFiniteSet(G) /\ G \in SUBSET Nat /\ H \in SUBSET Nat
    <3>1. \A n \in Nat : 1 .. n \subseteq Nat
      OBVIOUS
    <3> QED BY <2>1, <3>1, RankFinite
  <2>3. Lowered(H, G, k, 1)
    BY <1>4, <1>5, <1>6, <2>1, <2>2 DEF Lowered
  <2> QED BY <2>3, RankDropped
<1>8. /\ c \in Nat
      /\ QueueOf(f) \in Seq(AnyMessage) /\ Len(QueueOf(f)) = c
      /\ \A i \in G : Rank(G, i) \in 1 .. c /\ QueueOf(f)[Rank(G, i)] = MessageOf(f[i])
      /\ \A j \in 1 .. c : \E i \in G : Rank(G, i) = j
  BY QueueAt DEF G
<1>9. /\ QueueOf(r) \in Seq(AnyMessage) /\ Len(QueueOf(r)) = c + 1
      /\ \A i \in H : QueueOf(r)[Rank(H, i)] = MessageOf(r[i])
  BY <1>7, QueueAt DEF H
<1>10. QueueOf(r) # <<>>
  BY <1>8, <1>9, EmptySeq
<1>11. Head(QueueOf(r)) = MessageOf(r[1])
  <2>1. Head(QueueOf(r)) = QueueOf(r)[1]
    BY <1>9, <1>10
  <2> QED BY <1>2, <1>7, <1>9, <2>1
<1> DEFINE t == Tail(QueueOf(r))
<1>12. /\ t \in Seq(AnyMessage) /\ Len(t) = c
       /\ \A j \in 1 .. c : t[j] = QueueOf(r)[j + 1]
  <2>1. /\ t \in Seq(AnyMessage) /\ Len(t) = Len(QueueOf(r)) - 1
        /\ \A j \in 1 .. Len(t) : t[j] = QueueOf(r)[j + 1]
    BY <1>9, <1>10, HeadTailProperties
  <2> QED BY <1>8, <1>9, <2>1
<1> HIDE DEF t
<1>13. ASSUME NEW j \in 1 .. c PROVE QueueOf(f)[j] = t[j]
  <2>1. PICK i \in G : Rank(G, i) = j
    BY <1>8
  <2>2. i + k \in H /\ Rank(H, i + k) = j + 1
    BY <1>7, <2>1
  <2>3. QueueOf(r)[j + 1] = MessageOf(r[i + k])
    BY <1>9, <2>2
  <2>4. i \in 1 .. Len(f) /\ i + k = k + i
    BY <1>1
  <2>5. f[i] = r[i + k]
    BY <1>4, <2>4
  <2> QED BY <1>8, <1>12, <2>1, <2>3, <2>5
<1>14. QueueOf(f) = t
  BY <1>8, <1>12, <1>13, SeqEqual
<1> QED BY <1>10, <1>11, <1>14 DEF t

LEMMA QueueEmpty == QueueOf(<<>>) = <<>>
<1>1. HeadersOf(<<>>) = {}
  BY EmptySeq DEF HeadersOf
<1>2. Cardinality(HeadersOf(<<>>)) = 0
  BY <1>1, FS_EmptySet
<1>3. QueueOf(<<>>) \in Seq(AnyMessage) /\ Len(QueueOf(<<>>)) = 0
  BY <1>2, QueueAt, EmptySeq
<1> QED BY <1>3, EmptySeq

-----------------------------------------------------------------------------
(***************************************************************************)
(* The refinement of MsgBus.                                               *)
(***************************************************************************)

\* A function on 1 .. 0 is the empty sequence, and one on 1 .. 1 a sequence of one.
LEMMA ShortFunction ==
  ASSUME NEW S, NEW n \in {0, 1}, NEW g \in [1 .. n -> S]
  PROVE  /\ g \in Seq(S) /\ Len(g) = n
         /\ n = 0 => g = <<>>
         /\ n = 1 => g = <<g[1]>>
<1>1. g \in Seq(S)
  BY SeqDef
<1>2. Len(g) = n
  <2>1. Len(g) \in Nat /\ 1 .. Len(g) = 1 .. n
    BY <1>1, LenProperties
  <2>2. \A l \in Nat : 1 .. l = 1 .. n => l = n
    <3> SUFFICES ASSUME NEW l \in Nat, 1 .. l = 1 .. n PROVE l = n
      OBVIOUS
    <3>1. n + 1 \notin 1 .. l /\ (n = 1 => 1 \in 1 .. l)
      OBVIOUS
    <3> QED BY <3>1
  <2> QED BY <2>1, <2>2
<1>3. ASSUME n = 0 PROVE g = <<>>
  BY <1>1, <1>2, <1>3, EmptySeq
<1>4. ASSUME n = 1 PROVE g = <<g[1]>>
  <2>1. g[1] \in S
    BY <1>4
  <2>2. <<g[1]>> \in Seq(S) /\ Len(<<g[1]>>) = 1 /\ <<g[1]>>[1] = g[1]
    BY <2>1
  <2>3. \A i \in 1 .. Len(g) : g[i] = <<g[1]>>[i]
    BY <1>2, <1>4, <2>2
  <2> QED BY <1>1, <1>2, <1>4, <2>2, <2>3, SeqEqual
<1> QED BY <1>1, <1>2, <1>3, <1>4

\* What task_get_msg reads behind the header at the head of the ring is the
\* parameter that was posted with it.
LEMMA ParamRead ==
  ASSUME NEW r \in Seq(Cell), r # <<>>, WholeFrames(r), LoadedFrames(r),
         r[1].args # <<>>
  PROVE  ParamAt(r, 1) = r[1].args[1]
<1>1. Len(r) \in Nat /\ 1 \in 1 .. Len(r) /\ Head(r) = r[1]
  BY EmptySeq
<1>2. r[1].hdr
  BY DEF WholeFrames
<1>3. r[1].n = 1 /\ 1 + 2 <= Len(r) /\ r[1].args[1] \in Params
  BY <1>1, <1>2, HeaderLength
<1>4. Readable(r) = 1
  BY <1>1, <1>3 DEF Readable
<1>5. PICK p \in Params : p = r[1].args[1]
  BY <1>3
<1>6. p \in Seq([n : Nat, id : Nat]) /\ Len(p) = 2
  BY MsgAssumption
<1>7. /\ r[1 + 1].n = p[1].n /\ r[1 + 1].id = p[1].id
      /\ r[1 + 2].n = p[2].n /\ r[1 + 2].id = p[2].id
  BY <1>1, <1>2, <1>5 DEF LoadedFrames
<1> DEFINE q == [j \in 1 .. 2 |-> [n |-> r[2 * 1 - 1 + j].n, id |-> r[2 * 1 - 1 + j].id]]
<1>8. ParamAt(r, 1) = q
  BY <1>4 DEF ParamAt
<1>9. p \in [1 .. 2 -> [n : Nat, id : Nat]]
  BY <1>6, LenProperties
<1>10. /\ p[1] = [n |-> p[1].n, id |-> p[1].id]
       /\ p[2] = [n |-> p[2].n, id |-> p[2].id]
  BY <1>9
<1>11. q[1] = p[1] /\ q[2] = p[2]
  BY <1>7, <1>10
<1>12. \A j \in 1 .. 2 : j = 1 \/ j = 2
  OBVIOUS
<1>13. \A j \in 1 .. 2 : q[j] = p[j]
  BY <1>11, <1>12
<1>14. q = [j \in 1 .. 2 |-> q[j]] /\ p = [j \in 1 .. 2 |-> p[j]]
  BY <1>9
<1> HIDE DEF q
<1>15. q = p
  BY <1>13, <1>14
<1> QED BY <1>5, <1>8, <1>15

LEMMA ReplyShows ==
  ASSUME NEW r \in Seq(Cell), r # <<>>, WholeFrames(r), LoadedFrames(r), NEW len \in Lens
  PROVE  [kind |-> "msg", id |-> Head(r).id,
          args |-> [i \in 1 .. (IF Head(r).n < len THEN Head(r).n ELSE len - 1)
                      |-> ParamAt(r, i)]]
         = Bus!MsgReply(MessageOf(r[1]), len)
<1> DEFINE n == IF Head(r).n < len THEN Head(r).n ELSE len - 1
           g == [i \in 1 .. n |-> ParamAt(r, i)]
           a == r[1].args
<1>1. Len(r) \in Nat /\ 1 \in 1 .. Len(r) /\ Head(r) = r[1] /\ len \in Nat /\ len >= 1
  BY EmptySeq, MsgAssumption
<1>2. r[1].hdr /\ r[1].n = Len(a)
  BY <1>1 DEF WholeFrames, LoadedFrames
<1>3. g = IF Len(a) < len THEN a ELSE SubSeq(a, 1, len - 1)
  <2>1. CASE a = <<>>
    <3>1. r[1].n = 0 /\ n = 0
      BY <1>1, <1>2, <2>1, HeaderLength
    <3>2. g \in [1 .. 0 -> {}]
      BY <3>1
    <3>3. g = <<>>
      BY <3>2, ShortFunction
    <3> QED BY <1>1, <1>2, <2>1, <3>1, <3>3
  <2>2. CASE a # <<>> /\ len = 1
    <3>1. Len(a) = 1 /\ n = 0
      BY <1>1, <1>2, <2>2, HeaderLength
    <3>2. g \in [1 .. 0 -> {}]
      BY <3>1
    <3>3. g = <<>>
      BY <3>2, ShortFunction
    <3>4. SubSeq(a, 1, len - 1) = <<>>
      BY <2>2, SubSeqEmpty
    <3> QED BY <2>2, <3>1, <3>3, <3>4
  <2>3. CASE a # <<>> /\ len # 1
    <3>1. Len(a) = 1 /\ n = 1 /\ Len(a) < len
      BY <1>1, <1>2, <2>3, HeaderLength
    <3>2. g \in [1 .. 1 -> {g[1]}] /\ g[1] = ParamAt(r, 1)
      BY <3>1
    <3>3. g = <<ParamAt(r, 1)>>
      BY <3>2, ShortFunction
    <3>4. ParamAt(r, 1) = a[1]
      BY <2>3, ParamRead
    <3>5. a = <<a[1]>>
      <4>1. a \in Args
        <5>1. r[1] \in Cell
          BY <1>1, ElementOfSeq
        <5> QED BY <5>1 DEF Cell
      <4> QED BY <2>3, <4>1 DEF Args
    <3> QED BY <3>1, <3>3, <3>4, <3>5
  <2> QED BY <2>1, <2>2, <2>3
<1> HIDE DEF n, g
<1>4. Bus!MsgReply(MessageOf(r[1]), len)
        = [kind |-> "msg", id |-> r[1].id,
           args |-> IF Len(a) < len THEN a ELSE SubSeq(a, 1, len - 1)]
  BY DEF Bus!MsgReply, MessageOf
<1>5. [kind |-> "msg", id |-> Head(r).id, args |-> g]
        = Bus!MsgReply(MessageOf(r[1]), len)
  BY <1>1, <1>3, <1>4
<1> QED BY <1>5 DEF n, g

LEMMA BusInitHolds == Init => Bus!BusInit
<1> SUFFICES ASSUME Init PROVE Bus!BusInit
  OBVIOUS
<1>1. Queue = <<>>
  BY QueueIsOf, QueueEmpty DEF Init
<1> QED BY <1>1 DEF Init, Bus!BusInit

LEMMA BusNextHolds ==
  TypeOK /\ Framed /\ Loaded /\ [Next]_vars
    => [torn \/ torn' \/ Bus!BusNext]_(Bus!busVars)
<1> SUFFICES ASSUME TypeOK, Framed, Loaded, [Next]_vars, ~torn, ~torn'
             PROVE  Bus!BusNext \/ UNCHANGED <<events, Queue, reply>>
  BY DEF Bus!busVars
<1>0. Queue = QueueOf(ring) /\ Queue' = QueueOf(ring')
  BY DEF Queue, Headers, QueueOf, HeadersOf
<1>1. ring \in Seq(Cell) /\ WholeFrames(ring) /\ LoadedFrames(ring) /\ events \subseteq Events
  BY FramedIsWhole DEF TypeOK, Loaded
<1>2. ASSUME NEW e \in Events, PostEvent(e) PROVE Bus!BusNext
  <2>1. Bus!Raise({e})
    BY <1>0, <1>2 DEF PostEvent, Bus!Raise
  <2> QED BY <2>1 DEF Bus!BusNext
<1>3. ASSUME NEW m \in Messages, PostMsg(m)
      PROVE  Bus!BusNext \/ UNCHANGED <<events, Queue, reply>>
  <2>1. events' = events /\ reply' = reply /\ ring' \in Seq(Cell)
    BY <1>3, PostResult DEF PostMsg
  <2>2. CASE Unchanged(ring, ring', m)
    BY <1>0, <2>1, <2>2 DEF Unchanged
  <2>3. CASE Whole(ring, ring', m)
    <3>1. QueueOf(ring') = Append(QueueOf(ring), m)
      BY <1>1, <2>1, <2>3, QueueAppends
    <3>2. Bus!Send(m)
      BY <1>0, <2>1, <3>1 DEF Bus!Send
    <3> QED BY <3>2 DEF Bus!BusNext
  <2> QED BY <1>3, <2>2, <2>3, PostResult
<1>4. CASE ClearAll
  <2>1. Bus!Flush
    BY <1>0, <1>4, QueueEmpty DEF ClearAll, Bus!Flush
  <2> QED BY <2>1 DEF Bus!BusNext
<1>5. CASE TimerTick
  <2>1. PICK S \in SUBSET Events : events' = events \union S
    <3>1. {HalfSecond} \in SUBSET Events /\ {HalfSecond, OneSecond} \in SUBSET Events
          /\ {} \in SUBSET Events
      BY MsgAssumption
    <3> QED BY <1>5, <3>1 DEF TimerTick
  <2>2. Bus!Raise(S)
    BY <1>0, <1>5, <2>1 DEF TimerTick, Bus!Raise
  <2> QED BY <2>2 DEF Bus!BusNext
<1>6. CASE GetEvent
  <2>1. Bus!DeliverEvent
    BY <1>0, <1>6 DEF GetEvent, Bus!DeliverEvent, Bus!EventReply
  <2> QED BY <2>1 DEF Bus!BusNext
<1>7. ASSUME NEW len \in Lens, GetFrame(len) PROVE Bus!BusNext
  <2>1. ring # <<>> /\ events = {} /\ events' = events
    BY <1>7 DEF GetFrame
  <2>2. ring[1].hdr /\ Len(ring) \in Nat \ {0} /\ ring[1] \in Cell
    BY <1>1, <2>1, EmptySeq, ElementOfSeq DEF WholeFrames
  <2>3. ring[1].n \in Nat /\ 2 * ring[1].n <= Len(ring) - 1
    BY <1>1, <2>1, <2>2 DEF WholeFrames, Cell
  <2>4. /\ ring' \in Seq(Cell)
        /\ Len(ring') = Len(ring) - (1 + 2 * Readable(ring))
        /\ \A i \in 1 .. Len(ring) - (1 + 2 * Readable(ring)) :
             ring'[i] = ring[1 + 2 * Readable(ring) + i]
        /\ Readable(ring) = ring[1].n
    BY <1>7, <2>3, GetResult
  <2>5. /\ Len(ring') = Len(ring) - (1 + 2 * ring[1].n)
        /\ \A i \in 1 .. Len(ring') : ring'[i] = ring[1 + 2 * ring[1].n + i]
    BY <2>4
  <2>6. /\ QueueOf(ring) # <<>>
        /\ Head(QueueOf(ring)) = MessageOf(ring[1])
        /\ QueueOf(ring') = Tail(QueueOf(ring))
    BY <1>1, <2>1, <2>4, <2>5, QueueDrops
  <2>7. reply' = Bus!MsgReply(Head(QueueOf(ring)), len)
    BY <1>1, <1>7, <2>1, <2>6, ReplyShows DEF GetFrame
  <2>8. Bus!DeliverMsg
    BY <1>0, <2>1, <2>6, <2>7 DEF Bus!DeliverMsg
  <2> QED BY <2>8 DEF Bus!BusNext
<1>8. CASE GetNothing
  <2>1. Bus!DeliverNothing
    BY <1>0, <1>8, QueueEmpty DEF GetNothing, Bus!DeliverNothing
  <2> QED BY <2>1 DEF Bus!BusNext
<1>9. CASE EnterIdle
  BY <1>0, <1>9 DEF EnterIdle
<1>10. CASE UNCHANGED vars
  BY <1>0, <1>10 DEF vars
<1> QED
  BY <1>2, <1>3, <1>4, <1>5, <1>6, <1>7, <1>8, <1>9, <1>10 DEF Next, Get

\* msg.c implements MsgBus until a post is torn, for every ring size: the
\* reader gets the lowest pending event first, then the messages in the order
\* of the posts that fitted, each once and with its own parameter.
THEOREM BusImplemented == Spec => ImplementsBus
<1>1. Init => TypeOK /\ Framed /\ Loaded
  BY TypeInit, EmptySeq DEF Init, Framed, Loaded, LoadedFrames
<1>2. TypeOK /\ Framed /\ Loaded /\ [Next]_vars => (TypeOK /\ Framed /\ Loaded)'
  BY TypeNext, FramedNext, LoadedNext
<1> QED BY <1>1, <1>2, BusInitHolds, BusNextHolds, PTL DEF Spec, ImplementsBus

=============================================================================
