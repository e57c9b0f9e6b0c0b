--------------------------- MODULE KeyScanProofs ---------------------------
(***************************************************************************)
(* Theorems about KeyScan for all thresholds that are ordered as those of  *)
(* key.h are, and any set of keys.                                         *)
(*                                                                         *)
(* The invariant of Ordered: a click that waits is older than the press    *)
(* that goes on (Older), so it expires before the press is long; a press   *)
(* counted as long has said so last (SaidLong).  The invariant of          *)
(* SteadyRight: while the filter answers with an older key, the count of   *)
(* the scan is not ahead of the filter's (Behind).                         *)
(***************************************************************************)
EXTENDS KeyScan, TLAPS

UpIsZero == last = NoKey => counter = 0
Older == flag # 0 => counter < flag
SaidLong ==
  counter >= Long => last \in Keys /\ latest \in {<<"LONG", last>>, <<"HOLD", last>>}
LongInv == UpIsZero /\ Older /\ SaidLong

Filtered == used # old => cnt < Base
Followed == IF down THEN old \in seen /\ last = used ELSE last = NoKey
Behind == down /\ seen = {old} /\ used # old => counter <= cnt
SteadyInv == UpIsZero /\ Filtered /\ Followed /\ Behind

Samples == Keys \union {NoKey}

-----------------------------------------------------------------------------
\* What a scan can post.
LEMMA Messages ==
  ASSUME NEW status \in {"NONE", "SHORT_UP", "LONG", "HOLD", "LONG_UP"}
  PROVE  /\ Message(status) \in {None, <<status, last>>, <<"SHORT_UP", Double>>}
         /\ status = "NONE" => Message(status) = None
         /\ status \in {"LONG", "HOLD", "LONG_UP"} => Message(status) = <<status, last>>
         /\ Message(status) = <<"SHORT_UP", Double>> =>
              last \in {Click, Double} /\ status = "SHORT_UP"
BY DEF Message, Clicked, None

LEMMA Statuses ==
  ASSUME NEW cur
  PROVE  Status(cur) \in {"NONE", "SHORT_UP", "LONG", "HOLD", "LONG_UP"}
BY DEF Status

\* The filter on one sample.
LEMMA ReadStep ==
  ASSUME TypeOK, NEW raw \in Samples, Read(raw)
  PROVE  /\ used' \in Samples /\ old' \in Keys /\ cnt' \in 0 .. Width - 1
         /\ Current(raw) \in Samples
<1>1. CASE raw = NoKey
  BY <1>1 DEF Read, Current, TypeOK, Samples, filter
<1>2. CASE raw # NoKey
  <2>1. raw \in Keys /\ KeyFilter(raw)
    BY <1>2 DEF Read, Samples
  <2>2. CASE old # raw
    BY <1>2, <2>1, <2>2, KeyAssumption DEF KeyFilter, Current, TypeOK, Samples
  <2>3. CASE old = raw
    <3>1. (cnt + 1) % Width \in 0 .. Width - 1
      BY KeyAssumption DEF TypeOK
    <3> QED BY <1>2, <2>1, <2>3, <3>1 DEF KeyFilter, Current, TypeOK, Samples
  <2> QED BY <2>2, <2>3
<1> QED BY <1>1, <1>2

LEMMA FlagStep ==
  ASSUME TypeOK, NEW status
  PROVE  Flag(status) \in 0 .. Wait
BY KeyAssumption DEF TypeOK, Flag, Pending, Expired, Waited

LEMMA StepType == TypeOK /\ [Next]_vars => TypeOK'
<1> SUFFICES ASSUME TypeOK, [Next]_vars PROVE TypeOK'
  OBVIOUS
<1>1. CASE UNCHANGED vars
  BY <1>1 DEF vars, filter, scan, output, history, TypeOK
<1>2. ASSUME NEW raw \in Samples, Scan(raw) PROVE TypeOK'
  <2> DEFINE cur == Current(raw)
             status == Status(cur)
  <2>1. /\ Read(raw)
        /\ last' = cur /\ counter' = Counter(cur) /\ flag' = Flag(status)
        /\ posted' = Message(status) /\ single' = Expired
        /\ latest' = IF posted' # None THEN posted'
                     ELSE IF single' THEN <<"SHORT_UP", Click>> ELSE latest
        /\ down' = (raw # NoKey)
        /\ seen' = IF raw = NoKey THEN seen ELSE IF down THEN seen \union {raw} ELSE {raw}
    BY <1>2 DEF Scan
  <2>2. used' \in Samples /\ old' \in Keys /\ cnt' \in 0 .. Width - 1 /\ cur \in Samples
    BY <2>1, ReadStep
  <2>3. status \in {"NONE", "SHORT_UP", "LONG", "HOLD", "LONG_UP"}
    BY Statuses
  <2> HIDE DEF cur, status
  <2>4. counter' \in 0 .. Long + Hold - 1
    BY <2>1, KeyAssumption DEF Counter, TypeOK
  <2>5. flag' \in 0 .. Wait
    BY <2>1, FlagStep
  <2>6. posted' \in {"NONE", "SHORT_UP", "LONG", "HOLD", "LONG_UP"} \X Samples
    BY <2>1, <2>3, Messages, KeyAssumption DEF None, TypeOK, Samples
  <2>7. latest' \in {"NONE", "SHORT_UP", "LONG", "HOLD", "LONG_UP"} \X Samples
    BY <2>1, <2>6, KeyAssumption DEF TypeOK, Samples
  <2>8. single' \in BOOLEAN /\ down' \in BOOLEAN /\ seen' \subseteq Keys
    BY <2>1 DEF Expired, TypeOK, Samples
  <2> QED BY <2>1, <2>2, <2>4, <2>5, <2>6, <2>7, <2>8 DEF TypeOK, Samples
<1> QED BY <1>1, <1>2 DEF Next, Samples

LEMMA InitType == Init => TypeOK
<1> SUFFICES ASSUME Init PROVE TypeOK
  OBVIOUS
<1>1. None \in {"NONE", "SHORT_UP", "LONG", "HOLD", "LONG_UP"} \X (Keys \union {NoKey})
  BY DEF None
<1>2. posted = None /\ latest = None /\ Click \in Keys
  BY KeyAssumption DEF Init
<1>3. 0 \in 0 .. Width - 1 /\ 0 \in 0 .. Long + Hold - 1 /\ 0 \in 0 .. Wait
  BY KeyAssumption
<1> QED BY <1>1, <1>2, <1>3 DEF Init, TypeOK

\* Every variable keeps its range; the two counters of key_scan never wrap.
THEOREM TypeCorrect == Spec => []TypeOK
BY InitType, StepType, PTL DEF Spec

-----------------------------------------------------------------------------
\* No click waits any more when a press has become long.
LEMMA NoneWaits ==
  ASSUME TypeOK, LongInv, counter + 1 >= Long
  PROVE  flag = 0 /\ ~Expired
<1>1. flag = 0
  BY KeyAssumption DEF TypeOK, LongInv, Older
<1> QED BY <1>1, KeyAssumption DEF Expired, Waited

LEMMA StepLong ==
  ASSUME TypeOK, LongInv, NEW raw \in Samples, Scan(raw)
  PROVE  LongInv'
<1> DEFINE cur == Current(raw)
           status == Status(cur)
<1>1. /\ last' = cur /\ counter' = Counter(cur) /\ flag' = Flag(status)
      /\ posted' = Message(status) /\ single' = Expired
      /\ latest' = IF posted' # None THEN posted'
                   ELSE IF single' THEN <<"SHORT_UP", Click>> ELSE latest
  BY DEF Scan
<1>2. status \in {"NONE", "SHORT_UP", "LONG", "HOLD", "LONG_UP"}
  BY Statuses
<1>3. status = Status(cur)
  OBVIOUS
<1> HIDE DEF cur, status
<1>4. UpIsZero'
  BY <1>1 DEF LongInv, UpIsZero, Counter
<1>5. Older'
  <2>1. counter' \in Nat /\ counter' <= counter + 1
    BY <1>1, KeyAssumption DEF Counter, TypeOK
  <2>2. Pending # 0 => Pending = flag + 1 /\ flag # 0
    BY DEF Pending, Expired, Waited
  <2>3. CASE Clicked(status)
    <3>1. cur # last
      BY <1>3, <2>3 DEF Clicked, Status
    <3>2. counter' = 0
      BY <1>1, <3>1 DEF Counter
    <3>3. flag' \in 0 .. Wait
      BY <1>1, FlagStep
    <3> QED BY <3>2, <3>3, KeyAssumption DEF Older
  <2>4. CASE ~Clicked(status)
    <3>1. flag' = Pending
      BY <1>1, <2>4 DEF Flag
    <3> QED BY <2>1, <2>2, <3>1 DEF Older, LongInv, TypeOK
  <2> QED BY <2>3, <2>4
<1>6. SaidLong'
  <2> SUFFICES ASSUME counter' >= Long
               PROVE  last' \in Keys /\ latest' \in {<<"LONG", last'>>, <<"HOLD", last'>>}
    BY DEF SaidLong
  <2>1. cur = last /\ cur # NoKey /\ counter + 1 >= Long
    BY <1>1, KeyAssumption DEF Counter, TypeOK, LongInv, UpIsZero
  <2>2. cur \in Keys
    BY <2>1 DEF TypeOK
  <2>3. ~Expired
    BY <2>1, NoneWaits
  <2>4. CASE status \in {"LONG", "HOLD"}
    <3>1. posted' = <<status, last>>
      BY <1>1, <2>4, Messages
    <3>2. posted' # None
      BY <2>4, <3>1 DEF None
    <3> QED BY <1>1, <2>1, <2>2, <2>4, <3>1, <3>2
  <2>5. CASE status \notin {"LONG", "HOLD"}
    <3>1. status = "NONE" /\ counter + 1 # Long
      BY <1>3, <2>1, <2>5 DEF Status
    <3>2. posted' = None
      BY <1>1, <3>1, Messages
    <3>3. counter >= Long
      BY <2>1, <3>1, KeyAssumption DEF TypeOK
    <3> QED BY <1>1, <2>1, <2>2, <2>3, <3>2, <3>3 DEF LongInv, SaidLong
  <2> QED BY <2>4, <2>5
<1> QED BY <1>4, <1>5, <1>6 DEF LongInv

\* The step Ordered speaks of.
LEMMA StepOrdered ==
  ASSUME TypeOK, LongInv, NEW raw \in Samples, Scan(raw), posted'[1] \in {"HOLD", "LONG_UP"}
  PROVE  ~single' /\ latest \in {<<"LONG", posted'[2]>>, <<"HOLD", posted'[2]>>}
<1> DEFINE cur == Current(raw)
           status == Status(cur)
<1>1. posted' = Message(status) /\ single' = Expired
  BY DEF Scan
<1>2. status \in {"NONE", "SHORT_UP", "LONG", "HOLD", "LONG_UP"}
  BY Statuses
<1>3. status = Status(cur)
  OBVIOUS
<1> HIDE DEF cur, status
<1>4. status \in {"HOLD", "LONG_UP"} /\ posted' = <<status, last>>
  BY <1>1, <1>2, Messages DEF None
<1>5. counter >= Long
  BY <1>3, <1>4, KeyAssumption DEF Status, TypeOK
<1>6. counter + 1 >= Long
  BY <1>5, KeyAssumption DEF TypeOK
<1>7. ~Expired
  BY <1>6, NoneWaits
<1>8. latest \in {<<"LONG", last>>, <<"HOLD", last>>}
  BY <1>5 DEF LongInv, SaidLong
<1> QED BY <1>1, <1>4, <1>7, <1>8

\* LONG, every HOLD and LONG_UP of a press follow one another: no other
\* message, nor the click that waited, comes between them.
THEOREM OrderedAlways == Spec => Ordered
<1>1. Init => LongInv
  BY KeyAssumption DEF Init, LongInv, UpIsZero, Older, SaidLong
<1>2. TypeOK /\ LongInv /\ [Next]_vars => LongInv'
  <2> SUFFICES ASSUME TypeOK, LongInv, [Next]_vars PROVE LongInv'
    OBVIOUS
  <2>1. CASE UNCHANGED vars
    BY <2>1 DEF vars, scan, output, LongInv, UpIsZero, Older, SaidLong
  <2> QED BY <2>1, StepLong DEF Next, Samples
<1>3. TypeOK /\ LongInv /\ [Next]_vars =>
        [posted'[1] \in {"HOLD", "LONG_UP"} =>
           ~single' /\ latest \in {<<"LONG", posted'[2]>>, <<"HOLD", posted'[2]>>}]_vars
  BY StepOrdered DEF Next, Samples
<1> QED BY <1>1, <1>2, <1>3, TypeCorrect, PTL DEF Spec, Ordered

-----------------------------------------------------------------------------
LEMMA StepSteady ==
  ASSUME TypeOK, SteadyInv, NEW raw \in Samples, Scan(raw)
  PROVE  SteadyInv' /\ SteadyRight'
<1> DEFINE cur == Current(raw)
           status == Status(cur)
<1>1. /\ Read(raw)
      /\ last' = cur /\ counter' = Counter(cur) /\ posted' = Message(status)
      /\ down' = (raw # NoKey)
      /\ seen' = IF raw = NoKey THEN seen ELSE IF down THEN seen \union {raw} ELSE {raw}
  BY DEF Scan
<1>2. status \in {"NONE", "SHORT_UP", "LONG", "HOLD", "LONG_UP"}
  BY Statuses
<1>3. status = Status(cur)
  OBVIOUS
<1>4. cur = IF raw = NoKey THEN NoKey ELSE used'
  BY DEF Current
<1> HIDE DEF cur, status
<1>5. UpIsZero'
  BY <1>1 DEF SteadyInv, UpIsZero, Counter
<1>6. CASE raw = NoKey
  <2>1. UNCHANGED filter /\ cur = NoKey /\ ~down' /\ seen' = seen
    BY <1>1, <1>4, <1>6 DEF Read
  <2>2. SteadyInv'
    BY <1>1, <1>5, <2>1 DEF SteadyInv, Filtered, Followed, Behind, filter
  <2>3. ASSUME NEW k \in Keys, posted' # None, seen' = {k}
        PROVE  posted'[2] = k \/ (k = Click /\ posted'[2] = Double)
    <3>1. status # "NONE"
      BY <1>1, <2>3, Messages, <1>2
    <3>2. counter > Short /\ last # NoKey
      BY <1>3, <2>1, <3>1, KeyAssumption DEF Status, TypeOK
    <3>3. down /\ last = used /\ old = k
      BY <2>1, <2>3, <3>2 DEF SteadyInv, Followed
    <3>4. used = old
      BY <2>1, <2>3, <3>2, <3>3, KeyAssumption DEF SteadyInv, Filtered, Behind, TypeOK
    <3>5. last = k
      BY <3>3, <3>4
    <3>6. posted' \in {<<status, last>>, <<"SHORT_UP", Double>>}
      BY <1>1, <1>2, <2>3, Messages
    <3>7. posted' = <<"SHORT_UP", Double>> => last \in {Click, Double}
      BY <1>1, <1>2, Messages
    <3> QED BY <3>5, <3>6, <3>7
  <2> QED BY <2>2, <2>3 DEF SteadyRight
<1>7. CASE raw # NoKey
  <2>1. raw \in Keys /\ KeyFilter(raw) /\ cur = used' /\ down' /\ old' = raw /\ raw \in seen'
    BY <1>1, <1>4, <1>7 DEF Read, KeyFilter, Samples
  <2>2. cnt \in Nat /\ cnt < Width /\ Base < Width /\ Base \in Nat \ {0} /\ counter \in Nat
    BY KeyAssumption DEF TypeOK
  <2>3. CASE old # raw
    <3>1. cnt' = 0 /\ used' = used
      BY <2>1, <2>3 DEF KeyFilter
    <3>2. seen' = {raw} => ~down
      BY <1>1, <1>7, <2>3 DEF SteadyInv, Followed
    <3>3. seen' = {raw} => counter' = 0
      BY <1>1, <3>2 DEF SteadyInv, Followed, UpIsZero, Counter
    <3>4. SteadyInv'
      BY <1>1, <1>5, <2>1, <2>2, <3>1, <3>3 DEF SteadyInv, Filtered, Followed, Behind
    <3>5. seen' = {raw} => status = "NONE"
      BY <1>3, <2>1, <3>2, KeyAssumption DEF SteadyInv, Followed, UpIsZero, Status
    <3>6. seen' = {raw} => posted' = None
      BY <1>1, <1>2, <3>5, Messages
    <3> QED BY <2>1, <3>4, <3>6 DEF SteadyRight
  <2>4. CASE old = raw
    <3>1. cnt' = (cnt + 1) % Width /\ used' = IF cnt' = Base THEN raw ELSE used
      BY <2>1, <2>4 DEF KeyFilter
    <3>2. used # old => cnt' = cnt + 1 /\ cnt < Base
      BY <2>2, <3>1, KeyAssumption DEF SteadyInv, Filtered
    <3>3. used' # old' => used # old /\ cnt' < Base /\ used' = used
      BY <2>1, <2>2, <2>4, <3>1, <3>2
    <3>4. Filtered'
      BY <3>3 DEF Filtered
    <3>5. Followed'
      BY <1>1, <2>1 DEF Followed
    <3>6. seen' = {raw} /\ used # old => counter' <= cnt' /\ counter <= cnt
      <4>1. CASE down
        <5>1. seen' = {raw} => seen = {old}
          BY <1>1, <1>7, <2>4, <4>1 DEF SteadyInv, Followed
        <5>2. counter' <= counter + 1 /\ counter' \in Nat
          BY <1>1, <2>2, KeyAssumption DEF Counter, TypeOK
        <5> QED BY <2>2, <3>2, <4>1, <5>1, <5>2 DEF SteadyInv, Behind
      <4>2. CASE ~down
        <5>1. last = NoKey /\ counter = 0
          BY <4>2 DEF SteadyInv, Followed, UpIsZero
        <5>2. counter' = 0
          BY <1>1, <5>1 DEF Counter
        <5> QED BY <2>2, <3>2, <5>1, <5>2
      <4> QED BY <4>1, <4>2
    <3>7. Behind'
      BY <2>1, <3>3, <3>6 DEF Behind
    <3>8. ASSUME NEW k \in Keys, posted' # None, seen' = {k}
          PROVE  posted'[2] = k
      <4>1. k = raw
        BY <2>1, <3>8
      <4>2. status # "NONE"
        BY <1>1, <1>2, <3>8, Messages
      <4>3. cur = last /\ cur # NoKey /\ counter + 1 >= Long /\ status \in {"LONG", "HOLD"}
        <5>1. cur # NoKey
          BY <1>3, <4>2, <2>2, KeyAssumption, <2>1, <3>1 DEF Status, SteadyInv, Followed, UpIsZero, TypeOK
        <5> QED BY <1>3, <2>2, <4>2, <5>1, KeyAssumption DEF Status
      <4>4. used = old
        BY <2>2, <3>2, <3>6, <3>8, <4>1, <4>3, KeyAssumption
      <4>5. used' = raw
        BY <2>4, <3>1, <4>4
      <4>6. posted' = <<status, last>>
        BY <1>1, <1>2, <4>3, Messages
      <4> QED BY <2>1, <4>1, <4>3, <4>5, <4>6
    <3> QED BY <1>5, <3>4, <3>5, <3>7, <3>8 DEF SteadyInv, SteadyRight
  <2> QED BY <2>3, <2>4
<1> QED BY <1>6, <1>7

\* A press on one key is reported as that key, although the filter answers
\* with an older one at first.
THEOREM SteadyAlwaysRight == Spec => []SteadyRight
<1>1. Init => SteadyInv /\ SteadyRight
  BY KeyAssumption DEF Init, SteadyInv, UpIsZero, Filtered, Followed, Behind, SteadyRight
<1>2. TypeOK /\ SteadyInv /\ SteadyRight /\ [Next]_vars => SteadyInv' /\ SteadyRight'
  <2> SUFFICES ASSUME TypeOK, SteadyInv, SteadyRight, [Next]_vars
               PROVE  SteadyInv' /\ SteadyRight'
    OBVIOUS
  <2>1. CASE UNCHANGED vars
    BY <2>1 DEF vars, filter, scan, output, history,
                SteadyInv, UpIsZero, Filtered, Followed, Behind, SteadyRight
  <2> QED BY <2>1, StepSteady DEF Next, Samples
<1> QED BY <1>1, <1>2, TypeCorrect, PTL DEF Spec
=============================================================================
