---------------------------- MODULE PlayerProofs ----------------------------
(***************************************************************************)
(* Theorems about Player for any number of devices, files and folders, any *)
(* contents of the devices and any number of movements.                    *)
(*                                                                         *)
(* The inductive invariant Inv adds to the type invariant that a device    *)
(* that is not plugged has no files, what is known while a decoder runs,   *)
(* and why the loop of music_player_play may be about to leave a device.   *)
(* IInv adds to Inv which files the loop has tried: the ones its count of  *)
(* faulty files stands for, and those between the file it started from and *)
(* the number it has come to.                                              *)
(***************************************************************************)
EXTENDS Player, WellFoundedInduction, TLAPS

\* A set of numbers has a least member, a bounded one a greatest.
LEMMA MinNat ==
  ASSUME NEW S \in SUBSET Nat, S # {}
  PROVE  Min(S) \in S /\ \A y \in S : Min(S) <= y
<1> DEFINE R == OpToRel(<, Nat)
<1>1. IsWellFoundedOn(R, Nat)
  BY NatLessThanWellFounded
<1> HIDE DEF R
<1>2. PICK x \in S : \A y \in S : ~ (<<y, x>> \in R)
  BY <1>1, WFMin
<1>3. \A y \in S : ~(y < x)
  BY <1>2 DEF R, OpToRel
<1>4. \A y \in S : x <= y
  BY <1>3
<1> QED
  BY <1>4, <1>2 DEF Min

LEMMA MaxNat ==
  ASSUME NEW n \in Nat, NEW S \in SUBSET (0 .. n), S # {}
  PROVE  Max(S) \in S /\ \A y \in S : Max(S) >= y
<1> DEFINE T == {n - x : x \in S}
<1>1. Min(T) \in T /\ \A y \in T : Min(T) <= y
  <2>1. \A x \in S : n - x \in Nat
    OBVIOUS
  <2>2. T \in SUBSET Nat /\ T # {}
    BY <2>1, Zenon
  <2> HIDE DEF T
  <2> QED
    BY <2>2, MinNat
<1>2. PICK x \in S : Min(T) = n - x
  BY <1>1
<1>3. \A y \in S : x >= y
  BY <1>1, <1>2
<1> QED
  BY <1>3, <1>2 DEF Max

-----------------------------------------------------------------------------
(***************************************************************************)
(* The inductive invariant.                                                *)
(***************************************************************************)
Bare == \A d \in Devices \ plugged : content[d] = <<>>

\* A decoder runs only in the loop of the task, on the file last played on the
\* device, which is then the selected one.
Decoding ==
  /\ run # "none" => pc = "idle" /\ st # "stop" /\ open = last[dev] /\ devsel = "CUR"
  /\ pc = "file" => devsel = "CUR"

Leaves == op \in {"start", "dev"} \/ mode = "ALL" \/ dev \notin dpt \cap online

\* What StaysOnDevice allows, before the step that does it.
Leaving == pc = "device" /\ calm /\ devsel \in {"NEXT", "PREV"} => Leaves

Inv == TypeOK /\ Bare /\ Decoding /\ Leaving /\ BpIsLast /\ NeverSilent /\ NumberMatches

LEMMA InitInv == Init => Inv
<1> SUFFICES ASSUME Init PROVE Inv
  OBVIOUS
<1>1. content \in [Devices -> Seq(Files)]
  <2> SUFFICES ASSUME NEW d \in Devices PROVE content[d] \in Seq(Files)
    BY DEF Init
  <2>1. CASE d \in plugged
    BY <2>1, PlayerAssumption DEF Init
  <2>2. CASE d \notin plugged
    <3>1. content[d] = <<>>
      BY <2>2 DEF Init
    <3> QED
      BY <3>1
  <2> QED
    BY <2>1, <2>2
<1>2. TypeOK
  BY <1>1, PlayerAssumption DEF Init, TypeOK, DevicesOK, TaskOK, SelectionOK, DecoderOK, HistoryOK, Modes, Sels
<1>3. Bare
  BY DEF Init, Bare
<1>4. Decoding /\ Leaving /\ BpIsLast /\ NeverSilent /\ NumberMatches
  BY DEF Init, Decoding, Leaving, BpIsLast, NeverSilent, NumberMatches, Playing, Idle
<1> QED
  BY <1>2, <1>3, <1>4 DEF Inv

-----------------------------------------------------------------------------
(***************************************************************************)
(* What the parts of the loop do to the variables.                         *)
(***************************************************************************)
Errs == {"END", "PRE", "BPFILE", "OFFLINE", "NOFIND", "FILE"}

\* The error handling keeps the types, only clears break points, and goes on
\* to another device only over a device that is not there, one whose partition
\* it has given up, or the end of the list of files.
LEMMA RecoverDoes ==
  ASSUME TypeOK, dev \in Devices, NEW err \in Errs, NEW a \in BOOLEAN,
         Recover(err, a)
  PROVE  /\ pc' = "device" /\ op' = op /\ from' = from
         /\ sel' \in Sels /\ devsel' \in {devsel, "NEXT", "PREV"} /\ errs' \in Nat
         /\ dpt' \subseteq dpt
         /\ bp' \in [Devices -> Files \union {NoFile}]
         /\ \A d \in Devices : bp'[d] \in {bp[d], NoFile}
         /\ \/ err \in {"END", "PRE", "OFFLINE"} \/ devsel' = devsel \/ dev \notin dpt'
<1>1. bp' \in [Devices -> Files \union {NoFile}] /\ \A d \in Devices : bp'[d] \in {bp[d], NoFile}
  BY DEF Recover, TypeOK, DevicesOK, TaskOK, SelectionOK, DecoderOK
<1>2. CASE err \in {"END", "PRE", "BPFILE", "OFFLINE", "NOFIND"}
  BY <1>1, <1>2 DEF Recover, TypeOK, DevicesOK, TaskOK, SelectionOK, DecoderOK, Sels, Remove, Onward
<1>3. CASE err = "FILE"
  BY <1>1, <1>3 DEF Recover, Statistics, TypeOK, DevicesOK, TaskOK, SelectionOK, DecoderOK, Sels, Remove, Onward
<1> QED
  BY <1>2, <1>3 DEF Errs

LEMMA DestroyedType ==
  ASSUME TypeOK, Destroyed
  PROVE  /\ pc' = "gone" /\ ring' = <<>> /\ devsel' = "CUR" /\ sel' \in Sels
         /\ num' \in Nat /\ total' \in Nat /\ errs' \in Nat /\ auto' \in BOOLEAN
         /\ open' \in Files \union {NoFile}
BY DEF Destroyed, Sels

\* Whoever leaves the loop empty-handed is gone or has a message to serve.
LEMMA GiveUpDoes ==
  ASSUME TypeOK, GiveUp
  PROVE  /\ pc' \in {"idle", "gone"} /\ op' = "none" /\ from' \in (Devices \union {0}) \X Nat
         /\ pc' = "idle" => pc # "gone" \/ op = "start"
         /\ pc' = "idle" => ring' # <<>>
         /\ ring' \in Seq({"END", "ERR", "CHANGE"}) /\ Len(ring') <= RingRoom + 1
         /\ devsel' \in {devsel, "CUR"} /\ sel' \in Sels
         /\ num' \in Nat /\ total' \in Nat /\ errs' \in Nat /\ auto' \in BOOLEAN
         /\ open' \in Files \union {NoFile}
<1>1. op' = "none" /\ from' \in (Devices \union {0}) \X Nat
  BY DEF GiveUp, Over
<1>2. CASE op = "start"
  <2>1. CASE Len(ring) <= RingRoom
    <3>1. ring' = Append(ring, "CHANGE") /\ ring \in Seq({"END", "ERR", "CHANGE"})
      BY <1>2, <2>1 DEF GiveUp, TypeOK, DevicesOK, TaskOK, SelectionOK, DecoderOK
    <3>2. ring' \in Seq({"END", "ERR", "CHANGE"}) /\ Len(ring') = Len(ring) + 1
      BY <3>1
    <3> QED
      BY <1>1, <1>2, <2>1, <3>2, PlayerAssumption DEF GiveUp, TypeOK, DevicesOK, TaskOK, SelectionOK, DecoderOK
  <2>2. CASE ~(Len(ring) <= RingRoom)
    BY <1>1, <1>2, <2>2, PlayerAssumption DEF GiveUp, TypeOK, DevicesOK, TaskOK, SelectionOK, DecoderOK
  <2> QED
    BY <2>1, <2>2
<1>3. CASE op # "start"
  BY <1>1, <1>3, DestroyedType, PlayerAssumption DEF GiveUp
<1> QED
  BY <1>2, <1>3

LEMMA AroundType ==
  ASSUME TypeOK, Listed # {}, NEW d \in Devices
  PROVE  Following(d) \in Listed /\ Preceding(d) \in Listed /\ Min(Listed) \in Listed
<1>1. DevNum \in Nat /\ Listed \in SUBSET (0 .. DevNum) /\ Listed \in SUBSET Nat
  BY PlayerAssumption DEF TypeOK, DevicesOK, TaskOK, SelectionOK, DecoderOK, Listed, Devices
<1>2. Following(d) \in Listed /\ Min(Listed) \in Listed
  <2>1. {e \in Listed : e > d} \in SUBSET Nat
    BY <1>1
  <2> QED
    BY <1>1, <2>1, MinNat DEF Following
<1>3. Preceding(d) \in Listed
  <2>1. {e \in Listed : e < d} \in SUBSET (0 .. DevNum)
    BY <1>1
  <2> QED
    BY <1>1, <2>1, MaxNat DEF Preceding
<1> QED
  BY <1>2, <1>3

\* The numbers file_operate_file_sel may come to; the end and the beginning of
\* the list are errors in REPEAT_ALL only.
LEMMA SelectedType ==
  ASSUME TypeOK, dev \in Devices, NEW c \in Selected
  PROVE  /\ c.num \in Nat /\ c.err \in {"none", "END", "PRE", "FILE"}
         /\ c.err \in {"END", "PRE"} => mode = "ALL"
<1>1. Len(content[dev]) \in Nat /\ num \in Nat /\ total \in Nat
  BY DEF TypeOK, DevicesOK, TaskOK, SelectionOK, DecoderOK
<1>2. Bounds \in Nat \X Nat
  <2>1. InFolder \in SUBSET (0 .. Len(content[dev])) /\ InFolder \in SUBSET Nat
    BY <1>1 DEF InFolder
  <2>2. InFolder # {} => Min(InFolder) \in Nat /\ Max(InFolder) \in Nat
    BY <1>1, <2>1, MinNat, MaxNat
  <2> QED
    BY <1>1, <2>2 DEF Bounds
<1>3. \A k \in Nat : /\ Ranged(k).num \in Nat /\ Ranged(k).err \in {"none", "END", "PRE"}
                     /\ Ranged(k).err \in {"END", "PRE"} => mode = "ALL"
  BY <1>1, <1>2 DEF Ranged, Number, Error
<1>4. Draws \subseteq Nat
  BY <1>1 DEF Draws
<1>5. \A r \in Nat : Stepped(r) \in Nat
  BY <1>1 DEF Stepped
<1>6. CASE sel \in {"NEXT", "AUTO", "PREV"}
  BY <1>3, <1>4, <1>5, <1>6 DEF Selected
<1>7. CASE sel = "FIRST" \/ sel = "LAST"
  BY <1>1, <1>2, <1>7 DEF Selected, Number
<1>8. CASE sel = "SPEC"
  BY <1>1, <1>3, <1>4, <1>8 DEF Selected, Error
<1>9. CASE sel \in {"NEXTDIR", "PREVDIR"}
  BY <1>1, <1>9 DEF Selected, Error, Number, Heads
<1>10. CASE sel = "BP"
  BY <1>1, <1>10 DEF Selected, Number, Places
<1> QED
  BY <1>6, <1>7, <1>8, <1>9, <1>10 DEF TypeOK, DevicesOK, TaskOK, SelectionOK, DecoderOK, Sels

-----------------------------------------------------------------------------
(***************************************************************************)
(* Every step preserves the invariant.                                     *)
(***************************************************************************)
Kinds == {"END", "ERR", "CHANGE"}

LEMMA HardwareStep ==
  ASSUME Inv, Interrupt
  PROVE  Inv'
<1> USE DEF Inv, TypeOK
<1>1. ASSUME NEW d \in Devices, Plug(d) PROVE Inv'
  <2>1. PICK c \in Contents[d] : content' = [content EXCEPT ![d] = c]
    BY <1>1 DEF Plug
  <2>2. c \in Seq(Files)
    BY PlayerAssumption
  <2>3. DevicesOK'
    BY <1>1, <2>1, <2>2, PlayerAssumption DEF Plug, DevicesOK
  <2>4. TaskOK' /\ SelectionOK' /\ DecoderOK' /\ HistoryOK'
    BY <1>1 DEF Plug, TaskOK, SelectionOK, DecoderOK, HistoryOK, fop, decoder, history
  <2>5. Bare'
    BY <1>1, <2>1 DEF Plug, DevicesOK, Bare
  <2>6. NumberMatches'
    <3>1. content[d] = <<>>
      BY <1>1 DEF Plug, Bare
    <3>2. Playing /\ calm => dev # d
      BY <3>1 DEF NumberMatches
    <3> QED
      BY <1>1, <2>1, <3>2 DEF Plug, NumberMatches, Playing, fop, decoder, history, DevicesOK
  <2> QED
    BY <1>1, <2>3, <2>4, <2>5, <2>6
    DEF Plug, Decoding, Leaving, Leaves, BpIsLast, NeverSilent, Idle, fop, decoder, history
<1>2. ASSUME NEW d \in Devices, Unplug(d) PROVE Inv'
  <2>1. <<>> \in Seq(Files)
    OBVIOUS
  <2>2. DevicesOK'
    BY <1>2, <2>1, PlayerAssumption DEF Unplug, DevicesOK
  <2>3. TaskOK' /\ SelectionOK' /\ DecoderOK' /\ HistoryOK'
    <3>1. TaskOK' /\ SelectionOK' /\ DecoderOK'
      BY <1>2 DEF Unplug, TaskOK, SelectionOK, DecoderOK, fop, decoder
    <3>2. calm' = FALSE /\ op' = op /\ from' = from
      BY <1>2 DEF Unplug
    <3> QED
      BY <3>1, <3>2 DEF HistoryOK
  <2>4. Bare'
    BY <1>2 DEF Unplug, DevicesOK, Bare
  <2> QED
    BY <1>2, <2>2, <2>3, <2>4
    DEF Unplug, Decoding, Leaving, NumberMatches, BpIsLast, NeverSilent, Idle, fop, decoder
<1>3. ASSUME NEW d \in Devices, Detect(d) PROVE Inv'
  <2>1. DevicesOK'
    BY <1>3 DEF Detect, DevicesOK
  <2>2. TaskOK' /\ SelectionOK' /\ DecoderOK' /\ HistoryOK'
    <3>1. TaskOK' /\ SelectionOK' /\ DecoderOK'
      BY <1>3 DEF Detect, TaskOK, SelectionOK, DecoderOK, fop, decoder
    <3>2. calm' = FALSE /\ op' = op /\ from' = from
      BY <1>3 DEF Detect
    <3> QED
      BY <3>1, <3>2 DEF HistoryOK
  <2> QED
    BY <1>3, <2>1, <2>2
    DEF Detect, Bare, Decoding, Leaving, NumberMatches, BpIsLast, NeverSilent, Idle, fop, decoder
<1>4. ASSUME DecodeEnds PROVE Inv'
  <2>1. PICK m \in Kinds : ring' = Append(ring, m)
    BY <1>4 DEF DecodeEnds, Kinds
  <2>2. ring' \in Seq(Kinds) /\ Len(ring') = Len(ring) + 1
    BY <2>1 DEF TaskOK, Kinds
  <2>3. TaskOK' /\ DecoderOK'
    BY <1>4, <2>2, PlayerAssumption DEF DecodeEnds, TaskOK, DecoderOK, fop, Kinds
  <2>4. DevicesOK' /\ SelectionOK' /\ HistoryOK'
    BY <1>4 DEF DecodeEnds, DevicesOK, SelectionOK, HistoryOK, fop, hardware, history
  <2>5. Bare' /\ Decoding' /\ Leaving' /\ BpIsLast' /\ NeverSilent'
    BY <1>4, <2>2
    DEF DecodeEnds, TaskOK, Bare, Decoding, Leaving, Leaves, BpIsLast, NeverSilent,
        Idle, hardware, fop, history
  <2>6. NumberMatches'
    BY <1>4 DEF DecodeEnds, NumberMatches, Playing, hardware, fop, history
  <2> QED
    BY <2>3, <2>4, <2>5, <2>6
<1> QED
  BY <1>1, <1>2, <1>3, <1>4 DEF Interrupt

\* The messages of the task that play call Play with a ring and files in order.
LEMMA PlayStep ==
  ASSUME Inv, Idle, NEW why \in {"file", "folder", "number", "dev", "delete"}, NEW s \in Sels,
         NEW ds \in {"CUR", "NEXT", "PREV", "SPEC"}, NEW n \in Nat, Play(why, s, ds, n),
         ds = devsel \/ why = "dev",
         content' \in [Devices -> Seq(Files)], Bare', total' \in Nat,
         ring' \in Seq(Kinds), Len(ring') <= RingRoom + 1
  PROVE  Inv'
<1> USE DEF Inv, TypeOK
<1>1. dev \in Devices
  BY DEF TaskOK, Idle
<1>2. bp' = bp \/ (run # "none" /\ bp' = [bp EXCEPT ![dev] = open])
  BY DEF Play, Saved
<1>3. DevicesOK' /\ TaskOK'
  <2>1. DevicesOK'
    BY DEF Play, DevicesOK, hardware
  <2> QED
    BY <1>1, <2>1 DEF Play, TaskOK, Kinds, Idle
<1>4. SelectionOK'
  BY DEF Play, SelectionOK
<1>5. DecoderOK'
  BY <1>1, <1>2 DEF Play, DecoderOK, SelectionOK
<1>6. HistoryOK'
  <2>1. calm' \in BOOLEAN
    BY DEF Play
  <2>2. from' \in (Devices \union {0}) \X Nat
    BY <1>1 DEF Play, SelectionOK
  <2> QED
    BY <2>1, <2>2 DEF Play, HistoryOK
<1>7. BpIsLast'
  BY <1>1, <1>2 DEF Play, BpIsLast, Decoding, DecoderOK
<1>8. Leaving'
  <2>1. calm' /\ devsel' \in {"NEXT", "PREV"} => op' = "dev"
    BY DEF Play, Decoding
  <2> QED
    BY <2>1 DEF Leaving, Leaves
<1>9. Decoding' /\ NeverSilent' /\ NumberMatches'
  BY DEF Play, Decoding, NeverSilent, NumberMatches, Playing, Idle
<1> QED
  BY <1>3, <1>4, <1>5, <1>6, <1>7, <1>8, <1>9

LEMMA StartStep ==
  ASSUME Inv, NEW d \in Devices, Start(d), mode' = mode, content' = content,
         plugged' = plugged, online' = online, dpt' \subseteq Devices,
         events' \subseteq {"on", "off"} \X Devices, moves' = moves,
         ring' = ring, bp' = bp \/ (pc = "idle" /\ bp' = Saved(dev)), last' = last
  PROVE  Inv'
<1> USE DEF Inv, TypeOK
<1>1. bp' = bp \/ (run # "none" /\ dev \in Devices /\ bp' = [bp EXCEPT ![dev] = open])
  BY DEF Saved, TaskOK
<1>2. DevicesOK' /\ TaskOK'
  BY DEF Start, DevicesOK, TaskOK, Devices
<1>3. SelectionOK'
  BY DEF Start, SelectionOK, Sels
<1>4. DecoderOK'
  BY <1>1 DEF Start, DecoderOK, SelectionOK
<1>5. HistoryOK'
  BY DEF Start, HistoryOK, Quiet
<1>6. BpIsLast'
  BY <1>1 DEF BpIsLast, Decoding, DecoderOK
<1>7. Bare' /\ Decoding' /\ Leaving' /\ NeverSilent' /\ NumberMatches'
  BY DEF Start, Bare, Decoding, Leaving, Leaves, NeverSilent, NumberMatches, Playing, Idle
<1> QED
  BY <1>2, <1>3, <1>4, <1>5, <1>6, <1>7

LEMMA LeaveStep ==
  ASSUME Inv, Idle, Leave
  PROVE  Inv'
<1> USE DEF Inv, TypeOK
<1>1. dev \in Devices
  BY DEF TaskOK, Idle
<1>2. bp' = bp \/ (run # "none" /\ bp' = [bp EXCEPT ![dev] = open])
  BY DEF Leave, Saved
<1>3. DevicesOK' /\ HistoryOK'
  BY DEF Leave, DevicesOK, HistoryOK, hardware, history
<1>4. TaskOK' /\ SelectionOK'
  <2>1. <<>> \in Seq({"END", "ERR", "CHANGE"}) /\ Len(<<>>) = 0
    OBVIOUS
  <2> QED
    BY <2>1, PlayerAssumption, DestroyedType DEF Leave, TaskOK, SelectionOK, Destroyed
<1>5. DecoderOK'
  BY <1>1, <1>2 DEF Leave, DecoderOK, SelectionOK
<1>6. BpIsLast'
  BY <1>1, <1>2 DEF Leave, BpIsLast, Decoding, DecoderOK
<1>7. Bare' /\ Decoding' /\ Leaving' /\ NeverSilent' /\ NumberMatches'
  BY DEF Leave, Destroyed, hardware, history, Bare, Decoding, Leaving, NeverSilent,
         NumberMatches, Playing, Idle
<1> QED
  BY <1>3, <1>4, <1>5, <1>6, <1>7

\* The device a key enters the task with is one of those there are.
LEMMA EnterStarts ==
  ASSUME TypeOK, Enter
  PROVE  \E d \in Devices : Start(d)
<1> USE DEF TypeOK
<1>1. CASE dev \in online
  BY <1>1 DEF Enter, DevicesOK
<1>2. CASE dev \notin online
  <2>1. Listed # {} /\ Start(Min(Listed))
    BY <1>2 DEF Enter
  <2>2. PICK d \in Listed : TRUE
    BY <2>1
  <2>3. d \in Devices
    BY <2>2 DEF Listed, DevicesOK
  <2>4. Min(Listed) \in Listed
    BY <2>1, <2>3, AroundType
  <2> QED
    BY <2>1, <2>4 DEF Listed, DevicesOK
<1> QED
  BY <1>1, <1>2

LEMMA KeyStep ==
  ASSUME Inv, Key
  PROVE  Inv'
<1> USE DEF Inv, TypeOK
<1>1. ring \in Seq(Kinds) /\ Len(ring) <= RingRoom + 1 /\ num \in Nat /\ total \in Nat
      /\ content \in [Devices -> Seq(Files)] /\ devsel \in {"CUR", "NEXT", "PREV", "SPEC"}
  BY DEF TaskOK, DevicesOK, SelectionOK, Kinds
<1>2. ASSUME NEW s \in {"NEXT", "PREV", "NEXTDIR", "PREVDIR"}, KeyFile(s) PROVE Inv'
  <2>1. PICK why \in {"file", "folder", "number", "dev", "delete"} :
          Play(why, s, devsel, num) /\ Idle /\ UNCHANGED <<content, total, ring>>
    BY <1>2 DEF KeyFile, Operate
  <2>2. s \in Sels
    BY DEF Sels
  <2>3. Bare'
    BY <2>1 DEF Play, Bare, hardware
  <2> QED
    BY <1>1, <2>1, <2>2, <2>3, PlayStep
<1>3. ASSUME NEW n \in (1 .. total) \union {1}, KeyNumber(n) PROVE Inv'
  <2>1. Play("number", "SPEC", devsel, n) /\ Idle /\ UNCHANGED <<content, total, ring>>
    BY <1>3 DEF KeyNumber
  <2>2. "SPEC" \in Sels /\ n \in Nat
    BY <1>1 DEF Sels
  <2>3. Bare'
    BY <2>1 DEF Play, Bare, hardware
  <2> QED
    BY <1>1, <2>1, <2>2, <2>3, PlayStep
<1>4. ASSUME KeyDev PROVE Inv'
  <2>1. Play("dev", "BP", "NEXT", num) /\ Idle /\ UNCHANGED <<content, total, ring>>
    BY <1>4 DEF KeyDev, NextDev
  <2>2. "BP" \in Sels
    BY DEF Sels
  <2>3. Bare'
    BY <2>1 DEF Play, Bare, hardware
  <2> QED
    BY <1>1, <2>1, <2>2, <2>3, PlayStep
<1>5. ASSUME KeyDelete PROVE Inv'
  <2>1. Play("delete", "SPEC", devsel, num) /\ Idle /\ ring' = ring /\ total' = Len(content'[dev])
    BY <1>5 DEF KeyDelete
  <2>2. dev \in Devices
    BY <2>1 DEF TaskOK, Idle
  <2>3. content' = content \/ \E i \in Places(dev, open) : content' = [content EXCEPT ![dev] = Without(@, i)]
    BY <1>5 DEF KeyDelete
  <2>4. content' \in [Devices -> Seq(Files)]
    <3>1. \A i \in Places(dev, open) : Without(content[dev], i) \in Seq(Files)
      BY <1>1, <2>2 DEF Places, Without
    <3> QED
      BY <1>1, <2>2, <2>3, <3>1
  <2>5. total' \in Nat
    BY <2>1, <2>2, <2>4
  <2>6. Bare'
    <3>1. dev \notin plugged => Places(dev, open) = {}
      BY <2>2 DEF Bare, Places
    <3>2. plugged' = plugged
      BY <2>1 DEF Play, hardware
    <3> QED
      BY <1>1, <2>2, <2>3, <3>1, <3>2 DEF Bare
  <2>7. "SPEC" \in Sels
    BY DEF Sels
  <2> QED
    BY <1>1, <2>1, <2>4, <2>5, <2>6, <2>7, PlayStep
<1>6. ASSUME KeyMode PROVE Inv'
  <2>1. mode' \in Modes
    BY <1>6 DEF KeyMode, TaskOK, Modes
  <2>2. DevicesOK' /\ TaskOK' /\ SelectionOK'
    BY <1>6, <2>1 DEF KeyMode, DevicesOK, TaskOK, SelectionOK, hardware, fop
  <2>3. DecoderOK' /\ HistoryOK'
    BY <1>6 DEF KeyMode, DecoderOK, HistoryOK, decoder, history
  <2> QED
    BY <1>6, <2>2, <2>3
    DEF KeyMode, hardware, fop, decoder, history, Idle, Bare, Decoding, Leaving, NeverSilent,
        NumberMatches, Playing, BpIsLast
<1>7. ASSUME KeyPp \/ KeySeek PROVE Inv'
  <2>1. DevicesOK' /\ TaskOK' /\ SelectionOK'
    BY <1>7 DEF KeyPp, KeySeek, DevicesOK, TaskOK, SelectionOK, hardware, fop
  <2>2. DecoderOK' /\ HistoryOK'
    BY <1>7 DEF KeyPp, KeySeek, DecoderOK, HistoryOK, decoder, history
  <2>3. NumberMatches'
    BY <1>7
    DEF KeyPp, KeySeek, hardware, fop, history, Decoding, NumberMatches, Playing
  <2> QED
    BY <1>7, <2>1, <2>2, <2>3
    DEF KeyPp, KeySeek, hardware, fop, history, Idle, Bare, Decoding, Leaving, NeverSilent,
        BpIsLast
<1>8. CASE KeyLeave
  BY <1>8, LeaveStep DEF KeyLeave
<1>9. ASSUME Enter PROVE Inv'
  <2>1. PICK d \in Devices : Start(d)
    BY <1>9, EnterStarts
  <2>2. /\ UNCHANGED <<plugged, online, events, moves, dpt, content, ring, mode, bp, last>>
    BY <1>9 DEF Enter, hardware
  <2>3. dpt' \subseteq Devices /\ events' \subseteq {"on", "off"} \X Devices
    BY <2>2 DEF DevicesOK
  <2> QED
    BY <2>1, <2>2, <2>3, StartStep
<1> QED
  BY <1>2, <1>3, <1>4, <1>5, <1>6, <1>7, <1>8, <1>9 DEF Key

LEMMA MessageStep ==
  ASSUME Inv, Message
  PROVE  Inv'
<1> USE DEF Inv, TypeOK
<1>1. ring \in Seq(Kinds) /\ Len(ring) <= RingRoom + 1 /\ num \in Nat /\ total \in Nat
      /\ content \in [Devices -> Seq(Files)] /\ devsel \in {"CUR", "NEXT", "PREV", "SPEC"}
      /\ RingRoom \in Nat
  BY PlayerAssumption DEF TaskOK, DevicesOK, SelectionOK, Kinds
<1>2. ring # <<>> => Tail(ring) \in Seq(Kinds) /\ Len(Tail(ring)) <= RingRoom + 1
  BY <1>1
<1>3. ASSUME TakeEnd \/ TakeErr PROVE Inv'
  <2>1. PICK why \in {"file", "folder", "number", "dev", "delete"}, s \in Sels,
             ds \in {"CUR", "NEXT", "PREV", "SPEC"} :
          /\ Play(why, s, ds, num) /\ Idle /\ UNCHANGED <<content, total>> /\ ring # <<>>
          /\ ring' = Tail(ring) /\ (ds = devsel \/ why = "dev")
    BY <1>1, <1>3 DEF TakeEnd, TakeErr, Operate, NextDev, Sels
  <2>2. Bare'
    BY <2>1 DEF Play, Bare, hardware
  <2> QED
    BY <1>1, <1>2, <2>1, <2>2, PlayStep
<1>4. CASE TakeChange
  BY <1>4, LeaveStep DEF TakeChange
<1>5. ASSUME NEW d \in Devices, On(d) PROVE Inv'
  <2>1. events' \subseteq {"on", "off"} \X Devices /\ dpt' \subseteq Devices
    BY <1>5 DEF On, DevicesOK
  <2>2. /\ UNCHANGED <<plugged, online, moves, content, ring, mode, last>>
        /\ pc \in {"idle", "gone"}
    BY <1>5 DEF On
  <2>3. CASE Start(d) /\ bp' = Saved(dev)
    <3>1. pc = "gone" => bp' = bp
      BY <2>3 DEF Saved, Decoding
    <3> QED
      BY <2>1, <2>2, <2>3, <3>1, StartStep
  <2>4. CASE UNCHANGED <<pc, fop, decoder, bp, history>>
    <3>1. DevicesOK' /\ TaskOK' /\ SelectionOK'
      BY <2>1, <2>2, <2>4 DEF DevicesOK, TaskOK, SelectionOK, fop
    <3>2. DecoderOK' /\ HistoryOK'
      BY <2>2, <2>4 DEF DecoderOK, HistoryOK, decoder, history
    <3> QED
      BY <2>2, <2>4, <3>1, <3>2
      DEF fop, decoder, history, Idle, Bare, Decoding, Leaving, NeverSilent, NumberMatches,
          Playing, BpIsLast
  <2> QED
    BY <1>5, <2>3, <2>4 DEF On
<1>6. ASSUME NEW d \in Devices, Off(d) PROVE Inv'
  <2>1. ring' = ring \/ (ring' = Append(ring, "ERR") /\ Len(ring) < RingRoom)
    BY <1>6 DEF Off
  <2>2. /\ ring' \in Seq(Kinds) /\ Len(ring') <= RingRoom + 1
        /\ ring # <<>> => ring' # <<>>
    <3>1. "ERR" \in Kinds
      BY DEF Kinds
    <3>2. CASE ring' = Append(ring, "ERR") /\ Len(ring) < RingRoom
      <4>1. ring' \in Seq(Kinds) /\ Len(ring') = Len(ring) + 1
        BY <1>1, <3>1, <3>2
      <4> QED
        BY <1>1, <3>2, <4>1
    <3> QED
      BY <1>1, <2>1, <3>2
  <2>3. DevicesOK' /\ TaskOK' /\ SelectionOK'
    BY <1>6, <2>2 DEF Off, DevicesOK, TaskOK, SelectionOK, fop, Kinds
  <2>4. DecoderOK' /\ HistoryOK'
    BY <1>6 DEF Off, DecoderOK, HistoryOK, decoder, history
  <2> QED
    BY <1>6, <2>2, <2>3, <2>4
    DEF Off, fop, decoder, history, Idle, Bare, Decoding, Leaving, NeverSilent, NumberMatches,
        Playing, BpIsLast
<1> QED
  BY <1>3, <1>4, <1>5, <1>6 DEF Message
\* A step of the loop that plays nothing.
LEMMA SearchStep ==
  ASSUME Inv, pc \in {"device", "system", "file"},
         UNCHANGED <<hardware, content, mode, decoder, calm, last>>, dpt' \subseteq dpt,
         TaskOK', SelectionOK', HistoryOK', Leaving',
         bp' \in [Devices -> Files \union {NoFile}], \A d \in Devices : bp'[d] \in {bp[d], NoFile},
         pc' = "file" => devsel' = "CUR", pc' = "idle" => ring' # <<>>
  PROVE  Inv'
<1> USE DEF Inv, TypeOK
<1>1. run' = "none"
  BY DEF Decoding, decoder
<1>2. DevicesOK'
  BY DEF DevicesOK, hardware
<1>3. DecoderOK'
  BY DEF DecoderOK, decoder
<1>4. BpIsLast'
  BY DEF BpIsLast
<1>5. Bare' /\ Decoding' /\ NumberMatches' /\ NeverSilent'
  BY <1>1 DEF Bare, hardware, Decoding, NumberMatches, Playing, NeverSilent, Idle
<1> QED
  BY <1>2, <1>3, <1>4, <1>5

LEMMA DevSelStep ==
  ASSUME Inv, DevSel
  PROVE  Inv'
<1> USE DEF Inv, TypeOK
<1>1. /\ pc = "device" /\ dev \in Devices /\ devsel \in {"CUR", "NEXT", "PREV", "SPEC"}
      /\ UNCHANGED <<hardware, content, mode, decoder, calm, last>>
  BY DEF DevSel, TaskOK, SelectionOK
<1>2. ASSUME NEW d \in Devices, Chosen(d),
             d = dev \/ (devsel \in {"NEXT", "PREV"} /\ d \in Listed)
      PROVE  Inv'
  <2>1. TaskOK' /\ SelectionOK' /\ HistoryOK'
    BY <1>1, <1>2 DEF Chosen, TaskOK, SelectionOK, HistoryOK, Devices
  <2>2. Leaving'
    BY <1>2 DEF Chosen, Leaving
  <2>3. /\ dpt' \subseteq dpt
        /\ bp' \in [Devices -> Files \union {NoFile}]
        /\ \A e \in Devices : bp'[e] \in {bp[e], NoFile}
        /\ pc' = "system"
    BY <1>2 DEF Chosen, DecoderOK
  <2> QED
    BY <1>1, <2>1, <2>2, <2>3, SearchStep
<1>3. ASSUME Recover("OFFLINE", auto), dev \notin online, UNCHANGED <<dev, ring, num, total, auto, open>>
      PROVE  Inv'
  <2>1. "OFFLINE" \in Errs /\ auto \in BOOLEAN
    BY DEF Errs, SelectionOK
  <2>2. /\ pc' = "device" /\ op' = op /\ from' = from
        /\ sel' \in Sels /\ devsel' \in {devsel, "NEXT", "PREV"} /\ errs' \in Nat
        /\ dpt' \subseteq dpt
        /\ bp' \in [Devices -> Files \union {NoFile}]
        /\ \A d \in Devices : bp'[d] \in {bp[d], NoFile}
    BY <1>1, <1>3, <2>1, RecoverDoes
  <2>3. TaskOK' /\ SelectionOK' /\ HistoryOK'
    BY <1>1, <1>3, <2>2 DEF TaskOK, SelectionOK, HistoryOK
  <2>4. Leaving'
    BY <1>1, <1>3 DEF Leaving, Leaves, hardware
  <2> QED
    BY <1>1, <2>2, <2>3, <2>4, SearchStep
<1>4. ASSUME GiveUp, UNCHANGED <<dpt, dev, bp>>
      PROVE  Inv'
  <2>1. TaskOK' /\ SelectionOK' /\ HistoryOK'
    BY <1>1, <1>4, GiveUpDoes DEF TaskOK, SelectionOK, HistoryOK
  <2>2. Leaving' /\ pc' # "file" /\ (pc' = "idle" => ring' # <<>>)
    BY <1>4, GiveUpDoes DEF Leaving
  <2>3. bp' \in [Devices -> Files \union {NoFile}] /\ \A d \in Devices : bp'[d] \in {bp[d], NoFile}
    BY <1>4 DEF DecoderOK
  <2> QED
    BY <1>1, <1>4, <2>1, <2>2, <2>3, SearchStep
<1>5. CASE devsel \in {"CUR", "SPEC"}
  BY <1>1, <1>2, <1>3, <1>5 DEF DevSel
<1>6. CASE devsel \in {"NEXT", "PREV"} /\ Listed = {}
  BY <1>4, <1>6 DEF DevSel
<1>7. CASE devsel \in {"NEXT", "PREV"} /\ Listed # {}
  <2>1. Chosen(IF devsel = "NEXT" THEN Following(dev) ELSE Preceding(dev))
    BY <1>7 DEF DevSel
  <2>2. Following(dev) \in Listed /\ Preceding(dev) \in Listed
    BY <1>1, <1>7, AroundType
  <2>3. Listed \subseteq Devices
    BY DEF Listed, DevicesOK
  <2> QED
    BY <1>2, <1>7, <2>1, <2>2, <2>3
<1> QED
  BY <1>1, <1>5, <1>6, <1>7

LEMMA DevBpStep ==
  ASSUME Inv, DevBp
  PROVE  Inv'
<1> USE DEF Inv, TypeOK
<1>1. /\ pc = "system" /\ dev \in Devices /\ run = "none"
      /\ UNCHANGED <<hardware, content, ring, mode, dev, num, auto, decoder, calm, last>>
  BY DEF DevBp, TaskOK, Decoding
<1>2. total' \in Nat /\ open' \in Files \union {NoFile}
  BY <1>1 DEF DevBp, DevicesOK, SelectionOK
<1>3. ASSUME Recover("NOFIND", auto) PROVE Inv'
  <2>1. "NOFIND" \in Errs /\ auto \in BOOLEAN
    BY DEF Errs, SelectionOK
  <2>2. /\ pc' = "device" /\ op' = op /\ from' = from
        /\ sel' \in Sels /\ devsel' \in {devsel, "NEXT", "PREV"} /\ errs' \in Nat
        /\ dpt' \subseteq dpt
        /\ bp' \in [Devices -> Files \union {NoFile}]
        /\ \A d \in Devices : bp'[d] \in {bp[d], NoFile}
    BY <1>1, <1>3, <2>1, RecoverDoes
  <2>3. dev \notin dpt'
    BY <1>3 DEF Recover, Remove
  <2>4. TaskOK' /\ SelectionOK' /\ HistoryOK'
    BY <1>1, <1>2, <2>2 DEF TaskOK, SelectionOK, HistoryOK
  <2>5. Leaving'
    BY <1>1, <2>3 DEF Leaving, Leaves
  <2> QED
    BY <1>1, <2>2, <2>4, <2>5, SearchStep
<1>4. ASSUME pc' \in {"device", "file"}, devsel' = "CUR", sel' \in {sel, "FIRST", "LAST"},
             UNCHANGED <<dpt, errs, bp, op, from>>
      PROVE  Inv'
  <2>1. TaskOK' /\ SelectionOK' /\ HistoryOK'
    BY <1>1, <1>2, <1>4 DEF TaskOK, SelectionOK, HistoryOK, Sels
  <2>2. Leaving'
    BY <1>4 DEF Leaving
  <2>3. bp' \in [Devices -> Files \union {NoFile}] /\ \A d \in Devices : bp'[d] \in {bp[d], NoFile}
    BY <1>4 DEF DecoderOK
  <2> QED
    BY <1>1, <1>4, <2>1, <2>2, <2>3, SearchStep
<1> QED
  BY <1>3, <1>4 DEF DevBp

LEMMA FileSelStep ==
  ASSUME Inv, FileSel
  PROVE  Inv'
<1> USE DEF Inv, TypeOK
<1>1. /\ pc = "file" /\ dev \in Devices /\ run = "none" /\ devsel = "CUR"
      /\ UNCHANGED <<hardware, content, ring, mode, dev, total, calm>>
  BY DEF FileSel, TaskOK, Decoding
<1>2. ASSUME NEW err \in Errs, NEW a \in BOOLEAN, Recover(err, a), auto' \in BOOLEAN, num' \in Nat,
             open' \in Files \union {NoFile}, UNCHANGED <<decoder, last>>,
             err \notin {"OFFLINE"}, err \in {"END", "PRE"} => mode = "ALL"
      PROVE  Inv'
  <2>1. /\ pc' = "device" /\ op' = op /\ from' = from
        /\ sel' \in Sels /\ devsel' \in {devsel, "NEXT", "PREV"} /\ errs' \in Nat
        /\ dpt' \subseteq dpt
        /\ bp' \in [Devices -> Files \union {NoFile}]
        /\ \A d \in Devices : bp'[d] \in {bp[d], NoFile}
        /\ err \in {"END", "PRE"} \/ devsel' = devsel \/ dev \notin dpt'
    BY <1>1, <1>2, RecoverDoes
  <2>2. TaskOK' /\ SelectionOK' /\ HistoryOK'
    BY <1>1, <1>2, <2>1 DEF TaskOK, SelectionOK, HistoryOK
  <2>3. Leaving'
    BY <1>1, <1>2, <2>1 DEF Leaving, Leaves
  <2> QED
    BY <1>1, <1>2, <2>1, <2>2, <2>3, SearchStep
<1>3. ASSUME NEW n \in Nat, NEW a \in BOOLEAN, num' = n, Opened(n, a)
      PROVE  Inv'
  <2>1. CASE n \notin 1 .. Len(content[dev])
    <3>1. /\ Recover("FILE", a) /\ auto' = a /\ UNCHANGED <<open, decoder, last>>
          /\ open \in Files \union {NoFile} /\ "FILE" \in Errs
      BY <1>3, <2>1 DEF Opened, SelectionOK, Errs
    <3> QED
      BY <1>2, <1>3, <3>1
  <2>2. CASE n \in 1 .. Len(content[dev]) /\ content[dev][n] \notin Good
    <3>1. /\ Recover("FILE", a) /\ auto' = a /\ UNCHANGED <<decoder, last>>
          /\ open' = content[dev][n] /\ "FILE" \in Errs
      BY <1>3, <2>2 DEF Opened, Errs
    <3>2. content[dev][n] \in Files
      BY <1>1, <2>2 DEF DevicesOK
    <3> QED
      BY <1>2, <1>3, <3>1, <3>2
  <2>3. CASE n \in 1 .. Len(content[dev]) /\ content[dev][n] \in Good
    <3>1. /\ open' = content[dev][n] /\ st' = "play" /\ run' = "busy"
          /\ bp' = [bp EXCEPT ![dev] = open'] /\ last' = [last EXCEPT ![dev] = open']
          /\ auto' \in BOOLEAN /\ errs' \in {errs, 0} /\ pc' = "idle" /\ Over
          /\ UNCHANGED <<dpt, devsel, sel>>
      BY <1>3, <2>3 DEF Opened
    <3>2. open' \in Files
      BY <1>1, <2>3, <3>1 DEF DevicesOK
    <3>3. DevicesOK' /\ TaskOK' /\ SelectionOK' /\ DecoderOK'
      BY <1>1, <1>3, <3>1, <3>2 DEF DevicesOK, TaskOK, SelectionOK, DecoderOK, hardware
    <3>4. HistoryOK'
      BY <1>1, <3>1 DEF HistoryOK, Over
    <3>5. NumberMatches'
      BY <1>1, <1>3, <2>3, <3>1 DEF NumberMatches
    <3>6. BpIsLast'
      BY <1>1, <3>1 DEF BpIsLast, DecoderOK
    <3>7. Bare' /\ Decoding' /\ Leaving' /\ NeverSilent'
      BY <1>1, <3>1, <3>2
      DEF Bare, Decoding, Leaving, NeverSilent, Idle, hardware, DecoderOK
    <3> QED
      BY <3>3, <3>4, <3>5, <3>6, <3>7
  <2> QED
    BY <2>1, <2>2, <2>3
<1>4. PICK a \in BOOLEAN :
        \/ \E c \in Selected :
             /\ num' = c.num
             /\ IF c.err # "none" THEN Recover(c.err, a) /\ auto' = a /\ UNCHANGED <<open, decoder, last>>
                ELSE Opened(c.num, a)
        \/ Recover("BPFILE", a) /\ UNCHANGED <<num, auto, open, decoder, last>>
  BY DEF FileSel, SelectionOK
<1>5. CASE Recover("BPFILE", a) /\ UNCHANGED <<num, auto, open, decoder, last>>
  <2>1. "BPFILE" \in Errs /\ auto' \in BOOLEAN /\ num' \in Nat /\ open' \in Files \union {NoFile}
    BY <1>5 DEF Errs, SelectionOK
  <2> QED
    BY <1>2, <1>5, <2>1
<1>6. ASSUME NEW c \in Selected, num' = c.num, c.err # "none", Recover(c.err, a), auto' = a,
             UNCHANGED <<open, decoder, last>>
      PROVE  Inv'
  <2>1. c.num \in Nat /\ c.err \in {"END", "PRE", "FILE"} /\ (c.err \in {"END", "PRE"} => mode = "ALL")
    BY <1>1, <1>6, SelectedType
  <2>2. c.err \in Errs /\ open' \in Files \union {NoFile}
    BY <1>6, <2>1 DEF Errs, SelectionOK
  <2> QED
    BY <1>2, <1>6, <2>1, <2>2
<1>7. ASSUME NEW c \in Selected, num' = c.num, Opened(c.num, a)
      PROVE  Inv'
  <2>1. c.num \in Nat
    BY <1>1, SelectedType
  <2> QED
    BY <1>3, <1>7, <2>1
<1> QED
  BY <1>4, <1>5, <1>6, <1>7

LEMMA NextInv == Inv /\ [Next]_vars => Inv'
<1> SUFFICES ASSUME Inv, [Next]_vars PROVE Inv'
  OBVIOUS
<1>1. CASE Loop
  BY <1>1, DevSelStep, DevBpStep, FileSelStep DEF Loop
<1>2. CASE Message
  BY <1>2, MessageStep
<1>3. CASE Key
  BY <1>3, KeyStep
<1>4. CASE Interrupt
  BY <1>4, HardwareStep
<1>5. CASE UNCHANGED vars
  <2> USE <1>5 DEF Inv, TypeOK, vars, hardware, fop, decoder, history
  <2>1. DevicesOK' /\ TaskOK' /\ SelectionOK' /\ DecoderOK' /\ HistoryOK'
    BY DEF DevicesOK, TaskOK, SelectionOK, DecoderOK, HistoryOK
  <2> QED
    BY <2>1
    DEF Bare, Decoding, Leaving, Leaves, BpIsLast, NeverSilent, NumberMatches, Playing, Idle
<1> QED
  BY <1>1, <1>2, <1>3, <1>4, <1>5 DEF Next

\* The first invariant holds: what most of the theorems below read off.
THEOREM Invariance == Spec => []Inv
<1> QED
  BY InitInv, NextInv, PTL DEF Spec

-----------------------------------------------------------------------------
(***************************************************************************)
(* The second invariant: what the search for a file may rely on.           *)
(*                                                                         *)
(* The counts of the loop are right only for a device whose files are the  *)
(* ones its total and its number were read from: one that has been there   *)
(* since its partition was mounted.  Known says when that is so, Counting  *)
(* and Skipping which files the loop has tried.                            *)
(***************************************************************************)
InLoop == pc \in {"device", "system", "file"}

\* A device that was there when its partition was mounted, and still is.
Fresh(d) == d \in dpt \cap plugged \cap online /\ <<"off", d>> \notin events

\* The selected device keeps its partition, out of sight, only until its
\* OFFLINE is served.
Unseen ==
  (pc = "system" \/ (pc # "gone" /\ devsel = "CUR")) /\ dev \in dpt \ online => <<"off", dev>> \in events

\* The total and the number are those of the files that are there.
Counted == pc # "gone" /\ devsel = "CUR" /\ Fresh(dev) => total = Len(content[dev])

Placed ==
  run # "none" => /\ Fresh(dev) => num \in 1 .. Len(content[dev]) /\ content[dev][num] = open
                  /\ open \in Good /\ (open \notin Zero => errs = 0)

\* In the loop, while nothing comes and goes.
Settled ==
  calm /\ InLoop =>
    /\ events = {} /\ online \subseteq plugged
    /\ pc = "system" \/ devsel = "CUR" => dev \in online
    /\ devsel = "CUR" /\ op # "delete" => dev \in dpt /\ content[dev] # <<>> /\ total = Len(content[dev])

\* What the loop was called with.
Called ==
  InLoop =>
    /\ op # "none"
    /\ op \in {"start", "file", "dev"} => sel \notin {"SPEC", "NEXTDIR", "PREVDIR"}
    /\ sel = "AUTO" => devsel = "CUR" /\ (calm => num \in 1 .. total)
    /\ pc = "system" /\ devsel # "CUR" => errs = 0

Known == Unseen /\ Counted /\ Placed /\ Settled /\ Called

\* The k files up to number m, in the direction of the search, of t in a ring.
Behind(m, k, t, forth) ==
  IF forth THEN IF k <= m THEN (m - k + 1) .. m ELSE (1 .. m) \union ((t + m - k + 1) .. t)
  ELSE IF m + k - 1 <= t THEN m .. (m + k - 1) ELSE (m .. t) \union (1 .. (m + k - 1 - t))

Bad(d, S) == \A i \in S : content[d][i] \notin Good

Timed(d) == \A i \in 1 .. Len(content[d]) : content[d][i] \notin Zero

\* The count of faulty files is that of different files: the last ones tried.
Counting ==
  calm /\ InLoop /\ mode \in {"ALL", "LGDEV", "ONE"} /\ op \in {"start", "file", "dev"}
    /\ devsel = "CUR" /\ Timed(dev)
  => /\ errs < total
     /\ errs > 0 => /\ sel \in {"NEXT", "PREV"} /\ num \in 1 .. total
                    /\ Bad(dev, Behind(num, errs, total, sel = "NEXT"))

\* The files tried on the way from number f to number m, m among them.
Tried(f, m, t, forth) ==
  IF forth THEN IF m >= f THEN (f + 1) .. m ELSE ((f + 1) .. t) \union (1 .. m)
  ELSE IF m <= f THEN m .. (f - 1) ELSE (1 .. (f - 1)) \union (m .. t)

\* Those from f to the end of the list, or to its beginning.
Rest(f, t, forth) == IF forth THEN (f + 1) .. t ELSE 1 .. (f - 1)

\* The search is still on the device it started at.
At(d, f, t) ==
  /\ dev = d /\ devsel = "CUR" /\ sel \in {"NEXT", "AUTO", "PREV"} /\ num \in 1 .. t
  /\ Bad(d, Tried(f, num, t, sel # "PREV"))

\* It has left it over an end of its list, and may come back to it.
Away(d, f, t) ==
  /\ bp[d] = NoFile /\ Bad(d, Rest(f, t, auto))
  /\ \/ sel \in {"BP", IF auto THEN "FIRST" ELSE "LAST"}
     \/ sel = Onward(auto) /\ devsel = "CUR" /\ dev # d /\ num \in 1 .. Len(content[dev])

\* Every file passed over on the device where NEXT or PREV started is faulty.
Skipping ==
  calm /\ InLoop /\ op = "file" /\ mode \in {"ALL", "LGDEV"} /\ from[1] \in dpt
  => LET d == from[1]
         f == from[2]
         t == Len(content[d])
     IN  d \in plugged /\ f \in 1 .. t /\ (At(d, f, t) \/ Away(d, f, t))

-----------------------------------------------------------------------------
(***************************************************************************)
(* Every step preserves Known.                                             *)
(***************************************************************************)
LEMMA InitKnown == Init => Known
BY DEF Init, Known, Unseen, Counted, Placed, Settled, Called, InLoop

\* Devices come and go: one that is seen again, its OFFLINE still unserved, is
\* not the one that was mounted.
LEMMA InterruptKnown ==
  ASSUME Inv, Known, Interrupt
  PROVE  Known'
<1> USE DEF Known
<1>1. ASSUME NEW d \in Devices, Plug(d) PROVE Known'
  <2>1. PICK c \in Contents[d] : content' = [content EXCEPT ![d] = c]
    BY <1>1 DEF Plug
  <2>2. \A e \in Devices \ {d} : content'[e] = content[e]
    BY <2>1 DEF Inv, TypeOK, DevicesOK
  <2>3. /\ d \notin online /\ d \notin plugged /\ plugged' = plugged \union {d}
        /\ UNCHANGED <<online, events, dpt, pc, run, dev, devsel, sel, num, total, errs, open, op, calm>>
    BY <1>1 DEF Plug, fop, decoder, history
  <2>4. dev \in Devices \union {0} /\ (pc # "gone" => dev \in Devices) /\ dpt \subseteq Devices
    BY DEF Inv, TypeOK, DevicesOK, TaskOK
  <2>5. \A e \in Devices : Fresh(e)' => Fresh(e) /\ content'[e] = content[e]
    BY <2>2, <2>3 DEF Fresh
  <2>6. Unseen'
    BY <2>3 DEF Unseen
  <2>7. Counted' /\ Placed'
    BY <2>3, <2>4, <2>5 DEF Counted, Placed, Inv, Decoding
  <2>8. Settled'
    BY <2>2, <2>3, <2>4 DEF Settled, InLoop
  <2>9. Called'
    BY <2>3 DEF Called, InLoop
  <2> QED
    BY <2>6, <2>7, <2>8, <2>9
<1>2. ASSUME NEW d \in Devices, Unplug(d) PROVE Known'
  <2>1. \A e \in Devices \ {d} : content'[e] = content[e]
    BY <1>2 DEF Unplug, Inv, TypeOK, DevicesOK
  <2>2. /\ plugged' = plugged \ {d} /\ calm' = FALSE
        /\ UNCHANGED <<online, events, dpt, pc, run, dev, devsel, sel, num, total, errs, open, op>>
    BY <1>2 DEF Unplug, fop, decoder
  <2>3. \A e : Fresh(e)' => Fresh(e) /\ e # d
    BY <2>2 DEF Fresh
  <2>4. dpt \subseteq Devices
    BY DEF Inv, TypeOK, DevicesOK
  <2>5. \A e : Fresh(e)' => content'[e] = content[e]
    BY <2>1, <2>2, <2>3, <2>4 DEF Fresh
  <2> QED
    BY <2>2, <2>3, <2>5 DEF Unseen, Counted, Placed, Settled, Called, InLoop
<1>3. ASSUME NEW d \in Devices, Detect(d) PROVE Known'
  <2>1. /\ calm' = FALSE
        /\ UNCHANGED <<plugged, content, dpt, pc, run, dev, devsel, sel, num, total, errs, open, op>>
    BY <1>3 DEF Detect, fop, decoder
  <2>2. /\ online' \in {online \union {d}, online \ {d}} /\ events \subseteq events'
        /\ online' = online \ {d} => <<"off", d>> \in events'
    BY <1>3 DEF Detect
  <2>3. Unseen'
    BY <2>1, <2>2 DEF Unseen
  <2>4. pc # "gone" /\ devsel = "CUR" /\ Fresh(dev)' => Fresh(dev)
    BY <2>1, <2>2 DEF Unseen, Fresh
  <2> QED
    BY <2>1, <2>3, <2>4 DEF Counted, Placed, Settled, Called, InLoop, Inv, Decoding
<1>4. ASSUME DecodeEnds PROVE Known'
  <2>1. /\ run # "none"
        /\ UNCHANGED <<plugged, online, events, content, dpt, pc, dev, devsel, sel, num, total, errs, open, op, calm>>
    BY <1>4 DEF DecodeEnds, fop, hardware, history
  <2> QED
    BY <2>1 DEF Unseen, Counted, Placed, Settled, Called, InLoop, Fresh
<1> QED
  BY <1>1, <1>2, <1>3, <1>4 DEF Interrupt

\* The calls of the loop by the messages of the task.
LEMMA PlayKnown ==
  ASSUME Inv, Known, Idle, NEW why \in {"file", "folder", "number", "dev", "delete"}, NEW s \in Sels,
         NEW ds, NEW n, Play(why, s, ds, n),
         why = "dev" => ds = "NEXT", why # "dev" => ds = devsel,
         why \in {"file", "dev"} => s \notin {"SPEC", "NEXTDIR", "PREVDIR"},
         s = "AUTO" => why = "file" /\ run # "none" /\ n = num,
         (why # "delete" /\ content' = content /\ total' = total) \/ (why = "delete" /\ total' = Len(content'[dev]))
  PROVE  Known'
<1>1. /\ UNCHANGED <<plugged, online, events, dpt, dev, errs, open>>
      /\ pc' = "device" /\ run' = "none" /\ sel' = s /\ devsel' = ds /\ num' = n /\ op' = why
      /\ calm' = (Quiet /\ dev \in dpt /\ run # "none")
  BY DEF Play, hardware
<1>2. pc = "idle"
  BY DEF Idle
<1>3. Unseen' /\ Counted' /\ Placed'
  BY <1>1, <1>2 DEF Known, Unseen, Counted, Placed, Fresh
<1>4. calm' => /\ devsel = "CUR" /\ dev \in online /\ Fresh(dev) /\ events = {} /\ online = plugged
  BY <1>1, <1>2 DEF Known, Unseen, Fresh, Quiet, Inv, Decoding
<1>5. calm' => total = Len(content[dev]) /\ num \in 1 .. Len(content[dev])
  BY <1>1, <1>2, <1>4 DEF Known, Counted, Placed
<1>6. \A c \in Seq(Files) : num \in 1 .. Len(c) => c # <<>>
  OBVIOUS
<1>7. dev \in Devices /\ content[dev] \in Seq(Files)
  BY <1>2 DEF Inv, TypeOK, TaskOK, DevicesOK
<1>8. Settled'
  BY <1>1, <1>4, <1>5, <1>6, <1>7 DEF Settled
<1>9. Called'
  BY <1>1, <1>2, <1>5 DEF Called, Inv, Decoding
<1> QED
  BY <1>3, <1>8, <1>9 DEF Known

\* A player created anew has selected nothing yet.
LEMMA StartKnown ==
  ASSUME Inv, Known, NEW d \in Devices, Start(d), online' = online, plugged' = plugged, events' \subseteq events
  PROVE  Known'
BY DEF Start, Quiet, Known, Unseen, Counted, Placed, Settled, Called, InLoop

LEMMA LeaveKnown ==
  ASSUME Leave
  PROVE  Known'
BY DEF Leave, Destroyed, Known, Unseen, Counted, Placed, Settled, Called, InLoop

\* Keys and messages reach Known through the three lemmas above.
LEMMA KeyKnown ==
  ASSUME Inv, Known, Key
  PROVE  Known'
<1>1. ASSUME NEW s \in {"NEXT", "PREV", "NEXTDIR", "PREVDIR"}, KeyFile(s) PROVE Known'
  <2>1. Idle /\ UNCHANGED <<content, total>>
        /\ Play(IF s \in {"NEXTDIR", "PREVDIR"} THEN "folder" ELSE "file", s, devsel, num)
    BY <1>1 DEF KeyFile, Operate
  <2>2. s \in Sels
    BY DEF Sels
  <2>3. CASE s \in {"NEXTDIR", "PREVDIR"}
    BY <2>1, <2>2, <2>3, PlayKnown
  <2>4. CASE s \in {"NEXT", "PREV"}
    BY <2>1, <2>2, <2>4, PlayKnown
  <2> QED
    BY <2>3, <2>4
<1>2. ASSUME NEW n, KeyNumber(n) PROVE Known'
  <2>1. Idle /\ Play("number", "SPEC", devsel, n) /\ UNCHANGED <<content, total>> /\ "SPEC" \in Sels
    BY <1>2 DEF KeyNumber, Sels
  <2> QED
    BY <2>1, PlayKnown
<1>3. ASSUME KeyDev PROVE Known'
  <2>1. Idle /\ Play("dev", "BP", "NEXT", num) /\ UNCHANGED <<content, total>> /\ "BP" \in Sels
    BY <1>3 DEF KeyDev, NextDev, Sels
  <2> QED
    BY <2>1, PlayKnown
<1>4. ASSUME KeyDelete PROVE Known'
  <2>1. Idle /\ Play("delete", "SPEC", devsel, num) /\ total' = Len(content'[dev]) /\ "SPEC" \in Sels
    BY <1>4 DEF KeyDelete, Sels
  <2> QED
    BY <2>1, PlayKnown
<1>5. ASSUME KeyMode \/ KeyPp \/ KeySeek PROVE Known'
  <2>1. /\ pc = "idle"
        /\ UNCHANGED <<plugged, online, events, content, dpt, pc, dev, devsel, sel, num, total, errs, open, run, op, calm>>
    BY <1>5 DEF KeyMode, KeyPp, KeySeek, Idle, hardware, fop, decoder, history
  <2> QED
    BY <2>1 DEF Known, Unseen, Counted, Placed, Settled, Called, InLoop, Fresh
<1>6. CASE KeyLeave
  BY <1>6, LeaveKnown DEF KeyLeave
<1>7. CASE Enter
  <2>1. PICK d \in Devices : Start(d)
    BY <1>7, EnterStarts DEF Inv
  <2>2. UNCHANGED <<plugged, online, events>>
    BY <1>7 DEF Enter, hardware
  <2> QED
    BY <2>1, <2>2, StartKnown
<1> QED
  BY <1>1, <1>2, <1>3, <1>4, <1>5, <1>6, <1>7 DEF Key

LEMMA MessageKnown ==
  ASSUME Inv, Known, Message
  PROVE  Known'
<1>1. ASSUME TakeEnd PROVE Known'
  <2>1. PICK s \in {"NEXT", "PREV", "AUTO"} :
          /\ Idle /\ Play("file", s, devsel, num) /\ UNCHANGED <<content, total>>
          /\ s = "AUTO" => run # "none"
    BY <1>1 DEF TakeEnd, Operate
  <2>2. s \in Sels
    BY DEF Sels
  <2> QED
    BY <2>1, <2>2, PlayKnown
<1>2. ASSUME TakeErr PROVE Known'
  <2>1. Idle /\ Play("dev", "BP", "NEXT", num) /\ UNCHANGED <<content, total>> /\ "BP" \in Sels
    BY <1>2 DEF TakeErr, NextDev, Sels
  <2> QED
    BY <2>1, PlayKnown
<1>3. CASE TakeChange
  BY <1>3, LeaveKnown DEF TakeChange
<1>4. ASSUME NEW d \in Devices, On(d) PROVE Known'
  <2>1. /\ pc \in {"idle", "gone"} /\ UNCHANGED <<plugged, online, content>>
        /\ events' = events \ {<<"on", d>>}
    BY <1>4 DEF On
  <2>2. CASE Start(d)
    BY <2>1, <2>2, StartKnown
  <2>3. CASE UNCHANGED <<pc, fop, decoder, bp, history>> /\ (dpt' = dpt \/ pc = "gone")
    <3>1. UNCHANGED <<pc, dev, devsel, sel, num, total, errs, open, run, op, calm>>
      BY <2>3 DEF fop, decoder, history
    <3>2. pc = "gone" => run = "none"
      BY DEF Inv, Decoding
    <3>3. pc = "idle" => (Fresh(dev)' => Fresh(dev))
      BY <2>1, <2>3, <3>1 DEF Fresh
    <3>4. Unseen' /\ Counted' /\ Placed'
      BY <2>1, <2>3, <3>1, <3>2, <3>3 DEF Known, Unseen, Counted, Placed
    <3> QED
      BY <2>1, <3>1, <3>4 DEF Known, Settled, Called, InLoop
  <2> QED
    BY <1>4, <2>2, <2>3 DEF On
<1>5. ASSUME NEW d \in Devices, Off(d) PROVE Known'
  <2>1. /\ pc \in {"idle", "gone"} /\ dpt' = dpt \ {d} /\ events' = events \ {<<"off", d>>}
        /\ UNCHANGED <<plugged, online, content, pc, dev, devsel, sel, num, total, errs, open, run, op, calm>>
    BY <1>5 DEF Off, fop, decoder, history
  <2>2. \A e : Fresh(e)' => Fresh(e)
    BY <2>1 DEF Fresh
  <2> QED
    BY <2>1, <2>2 DEF Known, Unseen, Counted, Placed, Settled, Called, InLoop
<1> QED
  BY <1>1, <1>2, <1>3, <1>4, <1>5 DEF Message

\* After an error the loop looks further; it stays on the device only if it has
\* kept its partition.
LEMMA RecoverSets ==
  ASSUME NEW err \in Errs, NEW a \in BOOLEAN, Recover(err, a)
  PROVE  /\ pc' = "device" /\ op' = op /\ from' = from /\ dpt' \subseteq dpt
         /\ sel' \in {"FIRST", "LAST", "BP", "NEXT", "PREV"}
         /\ devsel' = "CUR" => devsel = "CUR" /\ dpt' = dpt
<1>1. CASE err = "FILE"
  BY <1>1 DEF Recover, Statistics, Onward, Remove
<1>2. CASE err \in {"END", "PRE", "BPFILE", "OFFLINE", "NOFIND"}
  BY <1>2 DEF Recover, Onward, Remove
<1> QED
  BY <1>1, <1>2 DEF Errs

\* The way a FIRST, LAST, BP or SPEC goes on is that of the step before.
Way == IF sel \in {"NEXT", "AUTO"} THEN TRUE ELSE IF sel = "PREV" THEN FALSE ELSE auto

\* A number that does not exist, or whose file does not decode.
Faulty(n) == n \notin 1 .. Len(content[dev]) \/ content[dev][n] \notin Good

\* The ways through file_operate_file_sel and file_operate_op: no number, a
\* faulty one, and one that plays.
Astray ==
  /\ UNCHANGED <<decoder, last, open>>
  /\ \/ sel = "BP" /\ Recover("BPFILE", Way) /\ UNCHANGED <<num, auto>>
     \/ /\ auto' = Way
        /\ \E c \in Selected : c.err # "none" /\ num' = c.num /\ Recover(c.err, Way)

Fails ==
  /\ UNCHANGED <<decoder, last>>
  /\ auto' = Way /\ Faulty(num') /\ Recover("FILE", Way)
  /\ \E c \in Selected : c.err = "none" /\ num' = c.num

Plays ==
  /\ pc' = "idle" /\ op' = "none" /\ run' = "busy" /\ st' = "play" /\ ~Faulty(num')
  /\ open' = content[dev][num'] /\ (open' \notin Zero => errs' = 0)
  /\ UNCHANGED <<dpt, devsel, sel>>
  /\ \E c \in Selected : c.err = "none" /\ num' = c.num

\* FileSel is one of the three.
LEMMA FileSelDoes ==
  ASSUME Inv, FileSel
  PROVE  /\ pc = "file" /\ dev \in Devices /\ run = "none" /\ devsel = "CUR" /\ Way \in BOOLEAN
         /\ UNCHANGED <<plugged, online, events, content, ring, mode, dev, total, calm>>
         /\ Astray \/ Fails \/ Plays
<1>1. /\ pc = "file" /\ dev \in Devices /\ run = "none" /\ devsel = "CUR" /\ Way \in BOOLEAN
      /\ UNCHANGED <<plugged, online, events, content, ring, mode, dev, total, calm>>
  BY DEF FileSel, Inv, Decoding, TypeOK, TaskOK, SelectionOK, hardware, Way
<1>2. CASE sel = "BP" /\ Recover("BPFILE", Way) /\ UNCHANGED <<num, auto, open, decoder, last>>
  BY <1>1, <1>2 DEF Astray
<1>3. ASSUME NEW c \in Selected, num' = c.num, c.err # "none", Recover(c.err, Way), auto' = Way,
             UNCHANGED <<open, decoder, last>>
      PROVE  Astray
  BY <1>3 DEF Astray
<1>4. ASSUME NEW c \in Selected, num' = c.num, c.err = "none", Opened(num', Way)
      PROVE  Fails \/ Plays
  <2>1. CASE Faulty(num')
    <3>1. /\ UNCHANGED <<decoder, last>> /\ auto' = Way /\ Recover("FILE", Way)
      BY <1>4, <2>1 DEF Opened, Faulty
    <3> QED
      BY <1>4, <2>1, <3>1 DEF Fails
  <2>2. CASE ~Faulty(num')
    <3>1. /\ pc' = "idle" /\ op' = "none" /\ run' = "busy" /\ st' = "play"
          /\ open' = content[dev][num'] /\ (open' \notin Zero => errs' = 0)
          /\ UNCHANGED <<dpt, devsel, sel>>
      BY <1>4, <2>2 DEF Opened, Faulty, Over
    <3> QED
      BY <1>4, <2>2, <3>1 DEF Plays
  <2> QED
    BY <2>1, <2>2
<1>5. \/ \E c \in Selected :
              /\ num' = c.num
              /\ IF c.err # "none" THEN Recover(c.err, Way) /\ auto' = Way /\ UNCHANGED <<open, decoder, last>>
                 ELSE Opened(c.num, Way)
      \/ sel = "BP" /\ Recover("BPFILE", Way) /\ UNCHANGED <<num, auto, open, decoder, last>>
  BY <1>1 DEF FileSel, Way
<1> QED
  BY <1>1, <1>2, <1>3, <1>4, <1>5

\* Without a file to play there is an error to recover from.
LEMMA AstrayRecovers ==
  ASSUME TypeOK, dev \in Devices, Astray \/ Fails
  PROVE  \E err \in {"END", "PRE", "BPFILE", "FILE"} :
            /\ Recover(err, Way) /\ run' = run
            /\ err \in {"END", "PRE"} => mode = "ALL"
<1>1. ASSUME NEW c \in Selected, c.err # "none", Recover(c.err, Way)
      PROVE  c.err \in {"END", "PRE", "FILE"} /\ (c.err \in {"END", "PRE"} => mode = "ALL")
  BY <1>1, SelectedType
<1> QED
  BY <1>1 DEF Astray, Fails, decoder

LEMMA FileSelKnown ==
  ASSUME Inv, Known, FileSel
  PROVE  Known'
<1>1. /\ pc = "file" /\ dev \in Devices /\ run = "none" /\ devsel = "CUR" /\ Way \in BOOLEAN
      /\ UNCHANGED <<plugged, online, events, content, dev, total, calm>>
      /\ Astray \/ Fails \/ Plays
  BY FileSelDoes
<1>2. CASE Astray \/ Fails
  <2>1. PICK err \in Errs : Recover(err, Way) /\ run' = run
    BY <1>1, <1>2, AstrayRecovers DEF Errs, Inv
  <2>2. /\ pc' = "device" /\ op' = op /\ dpt' \subseteq dpt
        /\ sel' \in {"FIRST", "LAST", "BP", "NEXT", "PREV"} /\ (devsel' = "CUR" => dpt' = dpt)
    BY <1>1, <2>1, RecoverSets
  <2>3. Fresh(dev)' => Fresh(dev)
    BY <1>1, <2>2 DEF Fresh
  <2> QED
    BY <1>1, <2>1, <2>2, <2>3 DEF Known, Unseen, Counted, Placed, Settled, Called, InLoop
<1>3. CASE Plays
  <2>1. Fresh(dev)' => Fresh(dev)
    BY <1>1, <1>3 DEF Plays, Fresh
  <2> QED
    BY <1>1, <1>3, <2>1 DEF Plays, Faulty, Known, Unseen, Counted, Placed, Settled, Called, InLoop
<1> QED
  BY <1>1, <1>2, <1>3

\* DevSel selects a device that is there, finds that it is not, or gives up.
LEMMA DevSelDoes ==
  ASSUME Inv, DevSel
  PROVE  /\ pc = "device" /\ dev \in Devices /\ run = "none" /\ run' = run
         /\ UNCHANGED <<plugged, online, events, content, mode, calm, last>>
         /\ \/ \E d \in online : /\ Chosen(d)
                                 /\ IF devsel \in {"CUR", "SPEC"} THEN d = dev ELSE d \in Listed
            \/ /\ devsel \in {"CUR", "SPEC"} /\ dev \notin online /\ Recover("OFFLINE", auto)
               /\ UNCHANGED <<dev, num, total, auto, open>>
            \/ GiveUp /\ pc' \in {"idle", "gone"} /\ devsel \in {"NEXT", "PREV"}
               /\ devsel' \in {devsel, "CUR"} /\ UNCHANGED <<dpt, dev>>
<1>1. /\ pc = "device" /\ dev \in Devices /\ run = "none" /\ run' = run
      /\ UNCHANGED <<plugged, online, events, content, mode, calm, last>>
      /\ devsel \in {"CUR", "NEXT", "PREV", "SPEC"}
  BY DEF DevSel, Inv, TypeOK, TaskOK, SelectionOK, Decoding, hardware, decoder
<1>2. CASE devsel \in {"CUR", "SPEC"}
  BY <1>1, <1>2 DEF DevSel
<1>3. CASE devsel \in {"NEXT", "PREV"} /\ Listed = {}
  <2>1. GiveUp /\ UNCHANGED <<dpt, dev>>
    BY <1>3 DEF DevSel
  <2> QED
    BY <1>1, <1>3, <2>1, GiveUpDoes DEF Inv
<1>4. CASE devsel \in {"NEXT", "PREV"} /\ Listed # {}
  <2>1. Chosen(IF devsel = "NEXT" THEN Following(dev) ELSE Preceding(dev))
    BY <1>4 DEF DevSel
  <2>2. Following(dev) \in Listed /\ Preceding(dev) \in Listed /\ Listed \subseteq online
    BY <1>1, <1>4, AroundType DEF Inv, Listed
  <2> QED
    BY <1>1, <1>4, <2>1, <2>2
<1> QED
  BY <1>1, <1>2, <1>3, <1>4

LEMMA DevSelKnown ==
  ASSUME Inv, Known, DevSel
  PROVE  Known'
<1>1. /\ pc = "device" /\ dev \in Devices /\ run = "none" /\ run' = run
      /\ UNCHANGED <<plugged, online, events, content, calm>>
  BY DevSelDoes
<1>2. ASSUME NEW d \in online, Chosen(d), devsel \in {"CUR", "SPEC"} => d = dev PROVE Known'
  <2>1. /\ pc' = "system" /\ dev' = d /\ errs' = (IF devsel = "CUR" THEN errs ELSE 0)
        /\ UNCHANGED <<dpt, devsel, sel, num, total, open, op>>
    BY <1>2 DEF Chosen
  <2> QED
    BY <1>1, <1>2, <2>1 DEF Known, Unseen, Counted, Placed, Settled, Called, InLoop, Fresh
<1>3. CASE Recover("OFFLINE", auto)
  <2>1. /\ pc' = "device" /\ op' = op /\ sel' = "BP" /\ devsel' = "NEXT" /\ dpt' = dpt
    BY <1>3 DEF Recover
  <2> QED
    BY <1>1, <2>1 DEF Known, Unseen, Counted, Placed, Settled, Called, InLoop
<1>4. CASE /\ pc' \in {"idle", "gone"} /\ (pc' = "idle" => devsel' # "CUR")
  BY <1>1, <1>4 DEF Known, Unseen, Counted, Placed, Settled, Called, InLoop
<1>5. GiveUp /\ pc' = "idle" => devsel' = devsel
  BY DEF GiveUp, Destroyed
<1> QED
  BY <1>2, <1>3, <1>4, <1>5, DevSelDoes

\* DevBp goes on to the file, finds no file at all, or no break point.
LEMMA DevBpDoes ==
  ASSUME Inv, DevBp
  PROVE  /\ pc = "system" /\ dev \in Devices /\ run = "none" /\ run' = run
         /\ UNCHANGED <<plugged, online, events, content, mode, dev, num, auto, calm, last>>
         /\ \/ devsel = "CUR" /\ pc' = "file" /\ UNCHANGED <<dpt, devsel, sel, errs, total, open, bp, op, from>>
            \/ /\ devsel # "CUR" /\ (dev \notin plugged \cap dpt \/ content[dev] = <<>>)
               /\ Recover("NOFIND", auto)
            \/ /\ devsel # "CUR" /\ dev \in plugged \cap dpt /\ content[dev] # <<>>
               /\ total' = Len(content[dev]) /\ devsel' = "CUR" /\ UNCHANGED <<dpt, errs, bp, op, from>>
               /\ \/ pc' = "device" /\ sel = "BP" /\ sel' = (IF auto THEN "FIRST" ELSE "LAST")
                  \/ pc' = "file" /\ sel' = sel
<1>1. /\ pc = "system" /\ dev \in Devices /\ run = "none" /\ run' = run
      /\ UNCHANGED <<plugged, online, events, content, mode, dev, num, auto, calm, last>>
  BY DEF DevBp, Inv, TypeOK, TaskOK, Decoding, hardware, decoder
<1>2. CASE devsel = "CUR"
  BY <1>1, <1>2 DEF DevBp
<1>3. CASE devsel # "CUR" /\ (dev \notin plugged \cap dpt \/ content[dev] = <<>>)
  BY <1>1, <1>3 DEF DevBp
<1>4. CASE devsel # "CUR" /\ dev \in plugged \cap dpt /\ content[dev] # <<>>
  BY <1>1, <1>4 DEF DevBp
<1> QED
  BY <1>2, <1>3, <1>4

LEMMA DevBpKnown ==
  ASSUME Inv, Known, DevBp
  PROVE  Known'
<1>1. /\ pc = "system" /\ dev \in Devices /\ run = "none" /\ run' = run
      /\ UNCHANGED <<plugged, online, events, content, dev, num, auto, calm>>
  BY DevBpDoes
<1>2. CASE devsel = "CUR" /\ pc' = "file" /\ UNCHANGED <<dpt, devsel, sel, errs, total, open, bp, op, from>>
  BY <1>1, <1>2 DEF Known, Unseen, Counted, Placed, Settled, Called, InLoop, Fresh
<1>3. CASE Recover("NOFIND", auto)
  <2>1. pc' = "device" /\ op' = op /\ sel' = "BP" /\ devsel' \in {"NEXT", "PREV"}
    BY <1>3 DEF Recover, Onward
  <2> QED
    BY <1>1, <2>1 DEF Known, Unseen, Counted, Placed, Settled, Called, InLoop
<1>4. CASE /\ devsel # "CUR" /\ dev \in plugged \cap dpt /\ content[dev] # <<>>
           /\ total' = Len(content[dev]) /\ devsel' = "CUR" /\ UNCHANGED <<dpt, errs, bp, op, from>>
           /\ pc' \in {"device", "file"} /\ sel' \in {sel, "FIRST", "LAST"}
  BY <1>1, <1>4 DEF Known, Unseen, Counted, Placed, Settled, Called, InLoop, Fresh
<1> QED
  BY <1>2, <1>3, <1>4, DevBpDoes

LEMMA NextKnown == Inv /\ Known /\ [Next]_vars => Known'
<1> SUFFICES ASSUME Inv, Known, [Next]_vars PROVE Known'
  OBVIOUS
<1>1. CASE Loop
  BY <1>1, DevSelKnown, DevBpKnown, FileSelKnown DEF Loop
<1>2. CASE UNCHANGED vars
  BY <1>2 DEF vars, hardware, fop, decoder, history, Known, Unseen, Counted, Placed, Settled, Called,
              InLoop, Fresh
<1> QED
  BY <1>1, <1>2, KeyKnown, MessageKnown, InterruptKnown DEF Next

-----------------------------------------------------------------------------
(***************************************************************************)
(* How the loop is entered, and what an iteration of it leaves.            *)
(***************************************************************************)
\* Interrupts that change nothing the loop looks at.
Unmoved ==
  /\ calm /\ InLoop /\ plugged \subseteq plugged'
  /\ \A e \in plugged : content'[e] = content[e]
  /\ UNCHANGED <<online, dpt, pc, mode, dev, devsel, sel, num, total, errs, auto, open, bp, op, from>>

\* NEXT, PREV and the end of a file, from the file that plays.
FromFile ==
  /\ devsel = "CUR" /\ dev \in dpt \cap plugged /\ total = Len(content[dev])
  /\ num \in 1 .. total /\ open = content[dev][num] /\ open \in Good /\ (open \notin Zero => errs = 0)
  /\ op' = "file" /\ from' = <<dev, num>> /\ sel' \in {"NEXT", "AUTO", "PREV"}
  /\ UNCHANGED <<plugged, content, dpt, mode, dev, devsel, num, total, errs, auto>>

\* The player that is calm when it is called plays a file of a device that has
\* not been away.
LEMMA FileEntered ==
  ASSUME Inv, Known, Idle, NEW s \in {"NEXT", "AUTO", "PREV"}, Play("file", s, devsel, num),
         UNCHANGED <<content, total>>, calm'
  PROVE  FromFile
<1>1. /\ UNCHANGED <<plugged, dpt, mode, dev, errs, auto>>
      /\ sel' = s /\ devsel' = devsel /\ num' = num /\ op' = "file" /\ from' = <<dev, num>>
      /\ Quiet /\ dev \in dpt /\ run # "none"
  BY DEF Play, hardware
<1>2. devsel = "CUR" /\ pc = "idle"
  BY <1>1 DEF Idle, Inv, Decoding
<1>3. dev \in online /\ Fresh(dev)
  BY <1>1, <1>2 DEF Known, Unseen, Fresh, Quiet
<1>4. total = Len(content[dev]) /\ dev \in plugged
  BY <1>2, <1>3 DEF Known, Counted, Fresh
<1> QED
  BY <1>1, <1>2, <1>3, <1>4 DEF Known, Placed, FromFile

\* How the loop comes to run while nothing comes and goes.
LEMMA Entered ==
  ASSUME Inv, Known, Next, ~Loop, calm', InLoop'
  PROVE  \/ Unmoved \/ FromFile
         \/ op' \in {"start", "dev"} /\ devsel' # "CUR"
         \/ op' \in {"folder", "number", "delete"}
<1>1. CASE Interrupt
  <2>1. ASSUME NEW d \in Devices, Plug(d) PROVE Unmoved
    <3>1. PICK c \in Contents[d] : content' = [content EXCEPT ![d] = c]
      BY <2>1 DEF Plug
    <3>2. \A e \in plugged : content'[e] = content[e]
      BY <2>1, <3>1 DEF Plug, Inv, TypeOK, DevicesOK
    <3> QED
      BY <2>1, <3>2 DEF Plug, Unmoved, InLoop, fop, history
  <2>2. CASE DecodeEnds
    BY <2>2 DEF DecodeEnds, Unmoved, InLoop, hardware, fop, history
  <2>3. ASSUME NEW d \in Devices, Unplug(d) \/ Detect(d) PROVE FALSE
    BY <2>3 DEF Unplug, Detect
  <2> QED
    BY <1>1, <2>1, <2>2, <2>3 DEF Interrupt
<1>2. CASE Message
  <2>1. CASE TakeEnd
    <3>1. PICK s \in {"NEXT", "PREV", "AUTO"} :
            Idle /\ Play("file", s, devsel, num) /\ UNCHANGED <<content, total>>
      BY <2>1 DEF TakeEnd, Operate
    <3> QED
      BY <3>1, FileEntered
  <2>2. CASE TakeErr
    BY <2>2 DEF TakeErr, NextDev, Play
  <2>3. CASE TakeChange
    BY <2>3 DEF TakeChange, Leave, Destroyed, InLoop
  <2>4. ASSUME NEW d \in Devices, On(d) PROVE op' = "start" /\ devsel' # "CUR"
    BY <2>4 DEF On, Start, InLoop, fop
  <2>5. ASSUME NEW d \in Devices, Off(d) PROVE FALSE
    BY <2>5 DEF Off, InLoop
  <2> QED
    BY <1>2, <2>1, <2>2, <2>3, <2>4, <2>5 DEF Message
<1>3. CASE Key
  <2>1. ASSUME NEW s \in {"NEXT", "PREV", "NEXTDIR", "PREVDIR"}, KeyFile(s)
        PROVE  FromFile \/ op' = "folder"
    <3>1. CASE s \in {"NEXT", "PREV"}
      <4>1. Idle /\ Play("file", s, devsel, num) /\ UNCHANGED <<content, total>>
        BY <2>1, <3>1 DEF KeyFile, Operate
      <4> QED
        BY <3>1, <4>1, FileEntered
    <3>2. CASE s \in {"NEXTDIR", "PREVDIR"}
      BY <2>1, <3>2 DEF KeyFile, Operate, Play
    <3> QED
      BY <3>1, <3>2
  <2>2. CASE \E n \in (1 .. total) \union {1} : KeyNumber(n)
    BY <2>2 DEF KeyNumber, Play
  <2>3. CASE KeyDev
    BY <2>3 DEF KeyDev, NextDev, Play
  <2>4. CASE KeyDelete
    BY <2>4 DEF KeyDelete, Play
  <2>5. ASSUME KeyMode \/ KeyPp \/ KeySeek \/ KeyLeave PROVE FALSE
    BY <2>5 DEF KeyMode, KeyPp, KeySeek, KeyLeave, Leave, Destroyed, Idle, InLoop
  <2>6. CASE Enter
    BY <2>6 DEF Enter, Start
  <2> QED
    BY <1>3, <2>1, <2>2, <2>3, <2>4, <2>5, <2>6 DEF Key
<1> QED
  BY <1>1, <1>2, <1>3 DEF Next

-----------------------------------------------------------------------------
(***************************************************************************)
(* The numbers a search goes through, in a ring of t files.                *)
(***************************************************************************)
After(m, t, forth) ==
  IF forth THEN IF m < t THEN m + 1 ELSE 1 ELSE IF m > 1 THEN m - 1 ELSE t

LEMMA BehindOne ==
  ASSUME NEW t \in Nat, NEW n \in 1 .. t, NEW forth \in BOOLEAN
  PROVE  Behind(n, 1, t, forth) = {n}
BY DEF Behind

\* One step of the search adds one file to those behind it.
LEMMA BehindGrows ==
  ASSUME NEW t \in Nat, NEW m \in 1 .. t, NEW k \in 1 .. (t - 1), NEW forth \in BOOLEAN
  PROVE  Behind(After(m, t, forth), k + 1, t, forth)
           \subseteq Behind(m, k, t, forth) \union {After(m, t, forth)}
<1>1. CASE forth
  BY <1>1 DEF Behind, After
<1>2. CASE ~forth
  BY <1>2 DEF Behind, After
<1> QED
  BY <1>1, <1>2

\* As many different files as there are, are all of them.
LEMMA BehindAll ==
  ASSUME NEW t \in Nat, NEW n \in 1 .. t, NEW forth \in BOOLEAN
  PROVE  1 .. t \subseteq Behind(n, t, t, forth)
BY DEF Behind

\* What the next number passes over has been tried, and then the number is too.
LEMMA PassedTried ==
  ASSUME NEW t \in Nat, NEW f \in 1 .. t, NEW m \in 1 .. t, NEW forth \in BOOLEAN
  PROVE  /\ After(m, t, forth) \in 1 .. t
         /\ Passed(f, After(m, t, forth), t, forth) \subseteq Tried(f, m, t, forth)
<1>1. CASE forth
  BY <1>1 DEF Passed, Tried, After
<1>2. CASE ~forth
  BY <1>2 DEF Passed, Tried, After
<1> QED
  BY <1>1, <1>2

LEMMA TriedPassed ==
  ASSUME NEW t \in Nat, NEW f \in 1 .. t, NEW n \in 1 .. t, NEW forth \in BOOLEAN
  PROVE  Tried(f, n, t, forth) \subseteq Passed(f, n, t, forth) \union {n}
<1>1. CASE forth
  BY <1>1 DEF Passed, Tried
<1>2. CASE ~forth
  BY <1>2 DEF Passed, Tried
<1> QED
  BY <1>1, <1>2

\* At the end of the list the search has tried the rest of it.
LEMMA TriedRest ==
  ASSUME NEW t \in Nat, NEW f \in 1 .. t
  PROVE  /\ Rest(f, t, TRUE) = Tried(f, t, t, TRUE) /\ Rest(f, t, FALSE) = Tried(f, 1, t, FALSE)
         /\ Tried(f, f, t, TRUE) = {} /\ Tried(f, f, t, FALSE) = {}
         /\ Passed(f, 1, t, TRUE) \subseteq Rest(f, t, TRUE)
         /\ Passed(f, t, t, FALSE) \subseteq Rest(f, t, FALSE)
BY DEF Rest, Tried, Passed

\* Where NEXT, PREV and the end of a file go.
LEMMA SteppedNumber ==
  ASSUME TypeOK, dev \in Devices, mode \in {"ALL", "LGDEV", "ONE"}, sel \in {"NEXT", "AUTO", "PREV"},
         sel = "AUTO" => mode # "ONE", num \in 1 .. total, NEW c \in Selected
  PROVE  /\ c.err = "none" => c.num = After(num, total, sel # "PREV")
         /\ c.err # "none" => IF sel # "PREV" THEN c.err = "END" /\ num = total ELSE c.err = "PRE" /\ num = 1
<1>1. num \in Nat /\ total \in Nat
  BY DEF TypeOK, SelectionOK
<1>2. Bounds = <<1, total>> /\ Draws = {num}
  BY DEF Bounds, Draws
<1>3. c = Ranged(Stepped(num))
  BY <1>2 DEF Selected
<1>4. Stepped(num) = IF sel # "PREV" THEN num + 1 ELSE num - 1
  BY <1>1 DEF Stepped
<1>5. CASE sel # "PREV"
  BY <1>1, <1>2, <1>3, <1>4, <1>5 DEF Ranged, Number, Error, After
<1>6. CASE sel = "PREV"
  BY <1>1, <1>2, <1>3, <1>4, <1>6 DEF Ranged, Number, Error, After
<1> QED
  BY <1>5, <1>6

\* The numbers are those of files, in the three modes without folder or random.
LEMMA NumberThere ==
  ASSUME TypeOK, dev \in Devices, mode \in {"ALL", "LGDEV", "ONE"}, sel \notin {"SPEC", "NEXTDIR", "PREVDIR"},
         total = Len(content[dev]), total > 0, sel = "AUTO" => num \in 1 .. total, NEW c \in Selected
  PROVE  /\ c.err \in {"none", "END", "PRE"}
         /\ c.err = "none" => c.num \in 1 .. total
<1>1. num \in Nat /\ total \in Nat
  BY DEF TypeOK, SelectionOK
<1>2. CASE sel \in {"NEXT", "AUTO", "PREV"}
  <2>1. Draws = {num} /\ Bounds \in {<<1, total>>, <<num, num>>} /\ (Bounds = <<num, num>> => num \in 1 .. total)
    BY <1>1, <1>2 DEF Bounds, Draws
  <2>2. c = Ranged(Stepped(num)) /\ Stepped(num) \in Nat
    BY <1>1, <1>2, <2>1 DEF Selected, Stepped
  <2> QED
    BY <1>1, <2>1, <2>2 DEF Ranged, Number, Error
<1>3. CASE sel = "FIRST" \/ sel = "LAST"
  BY <1>1, <1>3 DEF Selected, Number
<1>4. CASE sel = "BP"
  BY <1>1, <1>4 DEF Selected, Number, Places
<1> QED
  BY <1>2, <1>3, <1>4 DEF TypeOK, SelectionOK, Sels

-----------------------------------------------------------------------------
(***************************************************************************)
(* Counting, Skipping and what they forbid.                                *)
(***************************************************************************)
\* The loop on a device where each faulty file counts as one.
Counts ==
  /\ calm /\ mode \in {"ALL", "LGDEV", "ONE"} /\ op \in {"start", "file", "dev"} /\ Timed(dev)

\* While nothing comes and goes, the loop reads files of a device that is there.
LEMMA SettledThere ==
  ASSUME Inv, Known, FileSel, calm, op # "delete"
  PROVE  /\ pc = "file" /\ devsel = "CUR" /\ dev \in Devices /\ dev \in online /\ dev \in plugged
         /\ dev \in dpt /\ content[dev] \in Seq(Files) /\ total = Len(content[dev]) /\ total \in Nat
         /\ total > 0
<1>1. pc = "file" /\ devsel = "CUR" /\ dev \in Devices
  BY FileSelDoes
<1>2. /\ dev \in online /\ dev \in plugged /\ dev \in dpt /\ content[dev] # <<>>
      /\ total = Len(content[dev])
  BY <1>1 DEF Known, Settled, InLoop
<1>3. content[dev] \in Seq(Files)
  BY <1>1 DEF Inv, TypeOK, DevicesOK
<1> QED
  BY <1>1, <1>2, <1>3

\* One more faulty file is one more of the files behind.
LEMMA FaultCounted ==
  ASSUME Inv, Known, Counting, FileSel, Fails, Counts
  PROVE  /\ num' \in 1 .. total /\ errs \in Nat /\ errs < total
         /\ Bad(dev, Behind(num', errs + 1, total, Way))
<1>1. /\ pc = "file" /\ devsel = "CUR" /\ dev \in Devices /\ content[dev] \in Seq(Files)
      /\ total = Len(content[dev]) /\ total \in Nat /\ total > 0
  BY SettledThere DEF Counts
<1>2. /\ errs < total
      /\ errs > 0 => /\ sel \in {"NEXT", "PREV"} /\ num \in 1 .. total
                     /\ Bad(dev, Behind(num, errs, total, sel = "NEXT"))
  BY <1>1 DEF Counting, Counts, InLoop
<1>3. /\ sel \notin {"SPEC", "NEXTDIR", "PREVDIR"}
      /\ sel = "AUTO" => num \in 1 .. total
  BY <1>1 DEF Known, Called, Counts, InLoop
<1>4. PICK c \in Selected : c.err = "none" /\ num' = c.num
  BY DEF Fails
<1>5. num' \in 1 .. total
  BY <1>1, <1>3, <1>4, NumberThere DEF Inv, Counts
<1>6. content[dev][num'] \notin Good
  BY <1>1, <1>5 DEF Fails, Faulty
<1>7. errs \in Nat /\ Way \in BOOLEAN
  BY FileSelDoes DEF Inv, TypeOK, SelectionOK
<1>8. CASE errs = 0
  <2>1. Behind(num', 1, total, Way) = {num'}
    BY <1>1, <1>5, <1>7, BehindOne
  <2> QED
    BY <1>2, <1>5, <1>6, <1>7, <1>8, <2>1 DEF Bad
<1>9. CASE errs > 0
  <2>1. sel \in {"NEXT", "PREV"} /\ num \in 1 .. total /\ Bad(dev, Behind(num, errs, total, Way))
    BY <1>2, <1>9 DEF Way
  <2>2. num' = After(num, total, Way)
    BY <1>1, <1>4, <2>1, SteppedNumber DEF Inv, Counts, Way
  <2>3. Behind(num', errs + 1, total, Way) \subseteq Behind(num, errs, total, Way) \union {num'}
    BY <1>1, <1>2, <1>7, <1>9, <2>1, <2>2, BehindGrows
  <2> QED
    BY <1>2, <1>5, <1>6, <1>7, <2>1, <2>3 DEF Bad
<1> QED
  BY <1>7, <1>8, <1>9

\* Without a number there is no faulty file: the search leaves the device, or
\* looks for another file than that of the break point.
LEMMA AstrayCounts ==
  ASSUME Inv, Known, FileSel, Astray, calm, mode \in {"ALL", "LGDEV", "ONE"}, op \in {"start", "file", "dev"}
  PROVE  /\ dpt' = dpt /\ errs' = errs
         /\ devsel' \in {"NEXT", "PREV"} \/ (devsel' = devsel /\ sel = "BP")
<1>1. /\ pc = "file" /\ dev \in Devices /\ total = Len(content[dev]) /\ total > 0
  BY SettledThere
<1>2. /\ sel \notin {"SPEC", "NEXTDIR", "PREVDIR"}
      /\ sel = "AUTO" => num \in 1 .. total
  BY <1>1 DEF Known, Called, InLoop
<1>3. \A c \in Selected : c.err \in {"none", "END", "PRE"}
  BY <1>1, <1>2, NumberThere DEF Inv
<1>4. (sel = "BP" /\ Recover("BPFILE", Way)) \/ Recover("END", Way) \/ Recover("PRE", Way)
  BY <1>3 DEF Astray
<1> QED
  BY <1>4 DEF Recover

\* Every step preserves Counting, and a partition given up is one it has tried
\* every file of.
LEMMA CountingStep == Inv /\ Known /\ Counting /\ [Next]_vars => Counting'
<1> SUFFICES ASSUME Inv, Known, Counting, [Next]_vars,
                    calm', InLoop', mode' \in {"ALL", "LGDEV", "ONE"}, op' \in {"start", "file", "dev"},
                    devsel' = "CUR", Timed(dev)'
             PROVE  /\ errs' < total'
                    /\ errs' > 0 => /\ sel' \in {"NEXT", "PREV"} /\ num' \in 1 .. total'
                                    /\ Bad(dev, Behind(num, errs, total, sel = "NEXT"))'
  BY DEF Counting
<1> USE DEF Counting
<1>1. CASE DevSel
  <2>1. /\ pc = "device" /\ UNCHANGED <<content, mode, calm>>
    BY <1>1, DevSelDoes
  <2>2. PICK d : Chosen(d) /\ (devsel = "CUR" => d = dev)
    <3>1. Recover("OFFLINE", auto) => devsel' = "NEXT"
      BY DEF Recover
    <3>2. ~(pc' \in {"idle", "gone"})
      BY DEF InLoop
    <3> QED
      BY <1>1, <3>1, <3>2, DevSelDoes
  <2>3. UNCHANGED <<dev, errs, total, num, sel, devsel, op>>
    BY <2>2 DEF Chosen
  <2> QED
    BY <2>1, <2>3 DEF InLoop, Timed, Bad
<1>2. CASE DevBp
  <2>1. /\ pc = "system" /\ UNCHANGED <<content, mode, calm, dev, num>>
        /\ \/ UNCHANGED <<devsel, sel, errs, total, op>>
           \/ Recover("NOFIND", auto)
           \/ /\ devsel # "CUR" /\ dev \in Devices /\ content[dev] # <<>> /\ total' = Len(content[dev])
              /\ UNCHANGED errs
    BY <1>2, DevBpDoes
  <2>2. CASE UNCHANGED <<devsel, sel, errs, total, op>>
    BY <2>1, <2>2 DEF InLoop, Timed, Bad
  <2>3. CASE Recover("NOFIND", auto)
    BY <2>3 DEF Recover, Onward
  <2>4. CASE /\ devsel # "CUR" /\ dev \in Devices /\ content[dev] # <<>> /\ total' = Len(content[dev])
             /\ UNCHANGED errs
    <3>1. errs = 0
      BY <2>1, <2>4 DEF Known, Called, InLoop
    <3>2. content[dev] \in Seq(Files)
      BY <2>4 DEF Inv, TypeOK, DevicesOK
    <3>3. total' > 0
      BY <2>4, <3>2
    <3> QED
      BY <2>4, <3>1, <3>3
  <2> QED
    BY <2>1, <2>2, <2>3, <2>4
<1>3. CASE FileSel
  <2>1. /\ pc = "file" /\ devsel = "CUR" /\ UNCHANGED <<online, content, mode, calm, dev, total>>
        /\ Way \in BOOLEAN /\ (Astray \/ Fails \/ Plays)
    BY <1>3, FileSelDoes
  <2>2. ~Plays
    BY DEF Plays, InLoop
  <2>3. op' = op
    <3>1. PICK err : Recover(err, Way)
      BY <2>1, <2>2 DEF Astray, Fails
    <3> QED
      BY <3>1 DEF Recover
  <2>4. Counts /\ InLoop
    BY <2>1, <2>3 DEF Counts, Timed, InLoop
  <2>5. CASE Astray
    <3>1. errs' = errs /\ sel = "BP"
      BY <1>3, <2>1, <2>4, <2>5, AstrayCounts DEF Counts
    <3>2. ~(errs > 0) /\ errs < total
      BY <2>1, <2>4, <3>1 DEF Counts
    <3> QED
      BY <2>1, <3>1, <3>2
  <2>6. CASE Fails
    <3>1. /\ num' \in 1 .. total /\ errs \in Nat /\ errs < total /\ total \in Nat /\ dev \in online
          /\ Bad(dev, Behind(num', errs + 1, total, Way))
      BY <1>3, <2>4, <2>6, FaultCounted, SettledThere DEF Counts
    <3>2. Statistics(Way)
      BY <2>6 DEF Fails, Recover
    <3>3. ~Exhausted
      BY <3>2 DEF Statistics, Onward
    <3>4. errs' = errs + 1 /\ sel' = Onward(Way)
      BY <3>2, <3>3 DEF Statistics
    <3>5. errs + 1 < total
      BY <3>1, <3>3 DEF Exhausted
    <3>6. sel' \in {"NEXT", "PREV"} /\ (sel' = "NEXT") = Way
      BY <2>1, <3>4 DEF Onward
    <3> QED
      BY <2>1, <3>1, <3>4, <3>5, <3>6 DEF Bad
  <2> QED
    BY <2>1, <2>2, <2>5, <2>6
<1>4. CASE Next /\ ~Loop
  <2>1. CASE Unmoved
    <3>1. dev \in plugged /\ content'[dev] = content[dev]
      BY <2>1 DEF Unmoved, Known, Settled, InLoop
    <3> QED
      BY <2>1, <3>1 DEF Unmoved, Timed, Bad
  <2>2. CASE FromFile
    <3>1. Timed(dev) /\ num \in 1 .. Len(content[dev]) /\ errs' = errs /\ total' = total
      BY <2>2 DEF FromFile, Timed
    <3>2. errs = 0
      BY <2>2, <3>1 DEF FromFile, Timed
    <3>3. total \in Nat
      BY DEF Inv, TypeOK, SelectionOK
    <3> QED
      BY <2>2, <3>1, <3>2, <3>3 DEF FromFile
  <2> QED
    BY <1>4, <2>1, <2>2, Entered
<1>5. CASE UNCHANGED vars
  BY <1>5 DEF vars, hardware, fop, decoder, history, InLoop, Timed, Bad
<1> QED
  BY <1>1, <1>2, <1>3, <1>4, <1>5 DEF Next, Loop

LEMMA DropsStep ==
  ASSUME Inv, Known, Counting, Loop, calm, mode \in {"ALL", "LGDEV", "ONE"},
         op \notin {"folder", "number", "delete"}, NEW d \in dpt \ dpt', Timed(d)
  PROVE  \A i \in 1 .. Len(content[d]) : content[d][i] \notin Good
<1>1. CASE DevSel
  <2>1. dpt' = dpt
    BY <1>1, DevSelDoes DEF Chosen, Recover
  <2> QED
    BY <2>1
<1>2. CASE DevBp
  <2>1. d = dev /\ (dev \notin plugged \cap dpt \/ content[dev] = <<>>) /\ dev \in Devices
    BY <1>2, DevBpDoes DEF Recover, Remove
  <2>2. content[d] = <<>>
    BY <2>1 DEF Inv, Bare
  <2> QED
    BY <2>2
<1>3. CASE FileSel
  <2>1. pc = "file" /\ (Astray \/ Fails \/ Plays) /\ Way \in BOOLEAN
    BY <1>3, FileSelDoes
  <2>2. op \in {"start", "file", "dev"}
    BY <2>1 DEF Known, Called, InLoop, Inv, TypeOK, HistoryOK
  <2>3. ~Plays
    BY DEF Plays
  <2>4. ~Astray
    BY <1>3, <2>2, AstrayCounts
  <2>5. Statistics(Way) /\ Fails
    BY <2>1, <2>3, <2>4 DEF Fails, Recover
  <2>6. Exhausted /\ d = dev
    BY <2>5 DEF Statistics, Remove
  <2>7. Counts
    BY <2>2, <2>6 DEF Counts
  <2>8. /\ num' \in 1 .. total /\ errs \in Nat /\ errs < total /\ total \in Nat /\ dev \in online
        /\ total = Len(content[dev]) /\ Bad(dev, Behind(num', errs + 1, total, Way))
    BY <1>3, <2>2, <2>5, <2>7, FaultCounted, SettledThere
  <2>9. errs + 1 = total
    BY <2>6, <2>8 DEF Exhausted
  <2>10. 1 .. total \subseteq Behind(num', total, total, Way)
    BY <2>1, <2>8, BehindAll
  <2> QED
    BY <2>6, <2>8, <2>9, <2>10 DEF Bad
<1> QED
  BY <1>1, <1>2, <1>3 DEF Loop

\* The search begun by NEXT, PREV or the end of a file.
Searches == calm /\ InLoop /\ op = "file" /\ mode \in {"ALL", "LGDEV"} /\ from[1] \in dpt

Origin == /\ from[1] \in plugged /\ from[2] \in 1 .. Len(content[from[1]])

AtOrigin == At(from[1], from[2], Len(content[from[1]]))
AwayFrom == Away(from[1], from[2], Len(content[from[1]]))

LEMMA SkippingIs == Skipping <=> (Searches => Origin /\ (AtOrigin \/ AwayFrom))
BY DEF Skipping, Searches, Origin, AtOrigin, AwayFrom

\* A faulty file ends the partition or leads to the next number.
LEMMA FailsGoOn ==
  ASSUME Fails, Way \in BOOLEAN
  PROVE  /\ auto' = Way /\ bp' = bp /\ from' = from /\ op' = op /\ pc' = "device"
         /\ \/ dpt' = dpt \ {dev} /\ sel' = "BP"
            \/ devsel' = devsel /\ sel' = Onward(Way) /\ dpt' = dpt
<1>1. Statistics(Way) /\ auto' = Way /\ bp' = bp /\ from' = from /\ op' = op /\ pc' = "device"
  BY DEF Fails, Recover
<1> QED
  BY <1>1 DEF Statistics, Remove

\* A step of the search on the device it started at.
LEMMA AtStep ==
  ASSUME Inv, Known, FileSel, Searches, Origin, AtOrigin
  PROVE  /\ Plays => Bad(dev, Passed(from[2], num', total, sel # "PREV"))
         /\ Fails => from[1] \notin dpt' \/ AtOrigin'
         /\ Astray => AwayFrom'
<1> DEFINE f == from[2]
<1>1. /\ devsel = "CUR" /\ dev \in Devices /\ dev \in dpt /\ total = Len(content[dev]) /\ total \in Nat
      /\ content[dev] \in Seq(Files)
      /\ UNCHANGED <<content, dev, total>> /\ Way \in BOOLEAN
  BY SettledThere, FileSelDoes DEF Searches
<1>2. /\ from[1] = dev /\ sel \in {"NEXT", "AUTO", "PREV"} /\ num \in 1 .. total /\ f \in 1 .. total
      /\ Bad(dev, Tried(f, num, total, sel # "PREV")) /\ Way = (sel # "PREV")
  BY <1>1 DEF AtOrigin, At, Origin, Way
<1>3. ASSUME NEW c \in Selected
      PROVE  /\ c.err = "none" => c.num = After(num, total, Way)
             /\ c.err # "none" => IF Way THEN c.err = "END" /\ num = total ELSE c.err = "PRE" /\ num = 1
  BY <1>1, <1>2, <1>3, SteppedNumber DEF Inv, Searches
<1>4. /\ After(num, total, Way) \in 1 .. total
      /\ Bad(dev, Passed(f, After(num, total, Way), total, Way))
  <2>1. /\ After(num, total, Way) \in 1 .. total
        /\ Passed(f, After(num, total, Way), total, Way) \subseteq Tried(f, num, total, Way)
    BY <1>1, <1>2, PassedTried
  <2> QED
    BY <1>2, <2>1 DEF Bad
<1>5. ASSUME Plays PROVE Bad(dev, Passed(from[2], num', total, sel # "PREV"))
  BY <1>2, <1>3, <1>4, <1>5 DEF Plays
<1>6. ASSUME Fails PROVE from[1] \notin dpt' \/ AtOrigin'
  <2>1. num' = After(num, total, Way) /\ num' \in 1 .. total
    BY <1>3, <1>4, <1>6 DEF Fails
  <2>2. content[dev][num'] \notin Good
    BY <1>1, <1>4, <1>6, <2>1 DEF Fails, Faulty
  <2>3. Tried(f, num', total, Way) \subseteq Passed(f, num', total, Way) \union {num'}
    <3>1. total \in Nat /\ f \in 1 .. total /\ num' \in 1 .. total /\ Way \in BOOLEAN
      BY <1>1, <1>2, <2>1
    <3> HIDE DEF f
    <3> QED
      BY <3>1, TriedPassed
  <2>4. Bad(dev, Tried(f, num', total, Way))
    BY <1>4, <2>1, <2>2, <2>3 DEF Bad
  <2>5. CASE dpt' = dpt \ {dev}
    BY <1>2, <2>5
  <2>6. CASE devsel' = devsel /\ sel' = Onward(Way)
    <3>1. sel' \in {"NEXT", "PREV"} /\ (sel' # "PREV") = Way /\ from' = from
      BY <1>1, <1>6, <2>6, FailsGoOn DEF Onward
    <3> QED
      BY <1>1, <1>2, <1>4, <2>1, <2>4, <2>6, <3>1 DEF AtOrigin, At, Bad
  <2> QED
    BY <1>1, <1>6, <2>5, <2>6, FailsGoOn
<1>7. ASSUME Astray PROVE AwayFrom'
  <2>1. PICK c \in Selected : c.err # "none" /\ Recover(c.err, Way)
    BY <1>2, <1>7 DEF Astray
  <2>2. c.err = (IF Way THEN "END" ELSE "PRE") /\ num = (IF Way THEN total ELSE 1)
    BY <1>1, <1>3, <2>1
  <2>3. auto' = Way
    BY <1>2, <1>7 DEF Astray
  <2>4. /\ bp' = [bp EXCEPT ![dev] = NoFile] /\ sel' = (IF Way THEN "FIRST" ELSE "LAST")
        /\ from' = from
    BY <1>1, <2>1, <2>2 DEF Recover
  <2>5. bp'[dev] = NoFile
    BY <1>1, <2>4 DEF Inv, TypeOK, DecoderOK
  <2>6. Rest(f, total, Way) = Tried(f, num, total, Way)
    BY <1>1, <1>2, <2>2, TriedRest
  <2>7. Bad(dev, Rest(f, total, Way))
    BY <1>2, <2>6
  <2> QED
    BY <1>1, <1>2, <2>3, <2>4, <2>5, <2>7 DEF AwayFrom, Away, Bad
<1> QED
  BY <1>5, <1>6, <1>7

\* A step of the search after it left the device, on another one or on this one
\* again.
LEMMA AwayStep ==
  ASSUME Inv, Known, FileSel, Searches, Origin, AwayFrom
  PROVE  /\ Plays /\ from[1] = dev /\ sel # "BP"
              => sel = (IF auto THEN "FIRST" ELSE "LAST") /\ Bad(dev, Passed(from[2], num', total, auto))
         /\ Fails => from[1] \notin dpt' \/ AtOrigin' \/ AwayFrom'
         /\ Astray => AwayFrom'
<1> DEFINE d == from[1]
           f == from[2]
           t == Len(content[d])
<1>1. /\ devsel = "CUR" /\ dev \in Devices /\ dev \in dpt /\ total = Len(content[dev]) /\ total \in Nat
      /\ total > 0 /\ content[dev] \in Seq(Files)
      /\ UNCHANGED <<content, dev, total>> /\ Way \in BOOLEAN /\ auto \in BOOLEAN
      /\ bp \in [Devices -> Files \union {NoFile}] /\ d \in Devices
  BY SettledThere, FileSelDoes DEF Searches, Inv, TypeOK, DecoderOK, SelectionOK, DevicesOK
<1>2. /\ bp[d] = NoFile /\ Bad(d, Rest(f, t, auto)) /\ f \in 1 .. t /\ d \in dpt
      /\ \/ sel \in {"BP", IF auto THEN "FIRST" ELSE "LAST"}
         \/ sel = Onward(auto) /\ dev # d /\ num \in 1 .. total
  BY <1>1 DEF AwayFrom, Away, Origin, Searches
<1>3. Way = auto
  BY <1>1, <1>2 DEF Way, Onward
<1>4. sel \in {"BP", "FIRST", "LAST", "NEXT", "PREV"}
  BY <1>1, <1>2 DEF Onward
<1>5. ASSUME NEW c \in Selected
      PROVE  /\ c.err = "none" => c.num \in 1 .. total
             /\ sel \in {"BP", "FIRST", "LAST"} => c.err = "none"
             /\ sel = "FIRST" => c.num = 1
             /\ sel = "LAST" => c.num = total
             /\ sel = "BP" => dev # d
  <2>1. c.err = "none" => c.num \in 1 .. total
    BY <1>1, <1>4, <1>5, NumberThere DEF Inv, Searches
  <2>2. CASE sel = "BP"
    <3>1. PICK i \in Places(dev, bp[dev]) : c = Number(i)
      BY <1>5, <2>2 DEF Selected
    <3>2. content[dev][i] = bp[dev] /\ content[dev][i] \in Files
      BY <1>1, <3>1 DEF Places
    <3>3. dev # d
      BY <1>2, <3>2, PlayerAssumption
    <3> QED
      BY <2>1, <2>2, <3>1, <3>3 DEF Number
  <2>3. CASE sel \in {"FIRST", "LAST"}
    BY <1>1, <1>5, <2>1, <2>3 DEF Selected, Number, Searches
  <2> QED
    BY <1>4, <2>1, <2>2, <2>3
<1>6. ASSUME Plays, d = dev, sel # "BP"
      PROVE  sel = (IF auto THEN "FIRST" ELSE "LAST") /\ Bad(dev, Passed(f, num', total, auto))
  <2>1. sel = (IF auto THEN "FIRST" ELSE "LAST")
    BY <1>2, <1>6
  <2>2. num' = (IF auto THEN 1 ELSE total)
    BY <1>1, <1>5, <1>6, <2>1 DEF Plays
  <2>3. Passed(f, num', total, auto) \subseteq Rest(f, total, auto)
    BY <1>1, <1>2, <1>6, <2>2, TriedRest
  <2>4. Bad(dev, Rest(f, total, auto))
    BY <1>1, <1>2, <1>6
  <2> QED
    BY <2>1, <2>3, <2>4 DEF Bad
<1>7. ASSUME Fails PROVE d \notin dpt' \/ AtOrigin' \/ AwayFrom'
  <2>1. /\ auto' = auto /\ bp' = bp /\ from' = from
        /\ \/ dpt' = dpt \ {dev} /\ sel' = "BP"
           \/ devsel' = devsel /\ sel' = Onward(auto)
    BY <1>1, <1>3, <1>7, FailsGoOn
  <2>2. PICK c \in Selected : c.err = "none" /\ num' = c.num
    BY <1>7 DEF Fails
  <2>3. num' \in 1 .. total /\ content[dev][num'] \notin Good
    BY <1>1, <1>5, <1>7, <2>2 DEF Fails, Faulty
  <2>4. Bad(d, Rest(f, t, auto))'
    BY <1>1, <1>2, <2>1 DEF Bad
  <2>5. CASE dpt' = dpt \ {dev} /\ sel' = "BP"
    <3>1. CASE dev = d
      BY <2>5, <3>1
    <3>2. CASE dev # d
      BY <1>1, <1>2, <2>1, <2>4, <2>5 DEF AwayFrom, Away
    <3> QED
      BY <3>1, <3>2
  <2>6. CASE devsel' = devsel /\ sel' = Onward(auto) /\ dev # d
    BY <1>1, <1>2, <2>1, <2>3, <2>4, <2>6 DEF AwayFrom, Away
  <2>7. CASE devsel' = devsel /\ sel' = Onward(auto) /\ dev = d
    <3>1. sel = (IF auto THEN "FIRST" ELSE "LAST")
      BY <1>2, <1>5, <2>2, <2>7
    <3>2. num' = (IF auto THEN 1 ELSE total)
      BY <1>1, <1>5, <2>2, <3>1
    <3>3. Passed(f, num', total, auto) \subseteq Rest(f, total, auto)
      BY <1>1, <1>2, <2>7, <3>2, TriedRest
    <3>4. Tried(f, num', total, auto) \subseteq Passed(f, num', total, auto) \union {num'}
      BY <1>1, <1>2, <2>3, <2>7, TriedPassed
    <3>5. Bad(dev, Rest(f, total, auto))
      BY <1>1, <1>2, <2>7
    <3>6. Bad(dev, Tried(f, num', total, auto))
      BY <2>3, <3>3, <3>4, <3>5 DEF Bad
    <3>7. sel' \in {"NEXT", "PREV"} /\ (sel' # "PREV") = auto
      BY <1>1, <2>7 DEF Onward
    <3> QED
      BY <1>1, <2>1, <2>3, <2>7, <3>6, <3>7 DEF AtOrigin, At, Bad
  <2> QED
    BY <2>1, <2>5, <2>6, <2>7
<1>8. ASSUME Astray PROVE AwayFrom'
  <2>1. CASE sel = "BP" /\ Recover("BPFILE", Way) /\ UNCHANGED <<num, auto>>
    <3>1. bp' = bp /\ from' = from /\ sel' = (IF auto THEN "FIRST" ELSE "LAST") /\ auto' = auto
      BY <1>3, <2>1 DEF Recover
    <3> QED
      BY <1>1, <1>2, <3>1 DEF AwayFrom, Away, Bad
  <2>2. ASSUME NEW c \in Selected, c.err # "none", Recover(c.err, Way), auto' = Way PROVE AwayFrom'
    <3>1. sel = Onward(auto) /\ dev # d /\ num \in 1 .. total
      BY <1>2, <1>5, <2>2
    <3>2. c.err = (IF auto THEN "END" ELSE "PRE")
      BY <1>1, <2>2, <3>1, SteppedNumber DEF Inv, Searches, Onward
    <3>3. /\ bp' = [bp EXCEPT ![dev] = NoFile] /\ sel' = (IF auto THEN "FIRST" ELSE "LAST")
          /\ from' = from
      BY <1>1, <2>2, <3>2 DEF Recover
    <3>4. bp'[d] = NoFile
      BY <1>1, <1>2, <3>3
    <3> QED
      BY <1>1, <1>2, <1>3, <2>2, <3>3, <3>4 DEF AwayFrom, Away, Bad
  <2> QED
    BY <1>8, <2>1, <2>2 DEF Astray
<1> QED
  BY <1>6, <1>7, <1>8

\* Every step preserves Skipping, and the file that plays is the next after
\* those tried.
LEMMA SkippingStep == Inv /\ Known /\ Skipping /\ [Next]_vars => Skipping'
<1> SUFFICES ASSUME Inv, Known, Searches => Origin /\ (AtOrigin \/ AwayFrom), [Next]_vars, Searches'
             PROVE  Origin' /\ (AtOrigin' \/ AwayFrom')
  <2>1. Skipping' <=> (Searches' => Origin' /\ (AtOrigin' \/ AwayFrom'))
    BY DEF Skipping, Searches, Origin, AtOrigin, AwayFrom
  <2> QED
    BY <2>1, SkippingIs
<1>1. ASSUME Loop PROVE InLoop /\ UNCHANGED <<plugged, online, content, mode, calm>>
  BY <1>1, DevSelDoes, DevBpDoes, FileSelDoes DEF Loop, InLoop
<1>2. ASSUME Loop, UNCHANGED <<from, op>>, dpt' \subseteq dpt PROVE Searches /\ Origin /\ Origin'
  BY <1>1, <1>2 DEF Searches, Origin
<1>3. CASE DevSel
  <2>1. pc = "device"
    BY <1>3, DevSelDoes
  <2>2. ASSUME NEW e \in online, Chosen(e), devsel \in {"CUR", "SPEC"} => e = dev
        PROVE  Origin' /\ (AtOrigin' \/ AwayFrom')
    <3>1. dev' = e /\ UNCHANGED <<dpt, devsel, sel, num, total, auto, open, bp, op, from>>
      BY <2>2 DEF Chosen
    <3> QED
      BY <1>1, <1>2, <1>3, <2>2, <3>1 DEF Loop, AtOrigin, At, AwayFrom, Away, Bad
  <2>3. ASSUME devsel \in {"CUR", "SPEC"}, dev \notin online, Recover("OFFLINE", auto),
               UNCHANGED <<dev, num, total, auto, open>>
        PROVE  Origin' /\ (AtOrigin' \/ AwayFrom')
    <3>1. sel' = "BP" /\ UNCHANGED <<dpt, bp, op, from>>
      BY <2>3 DEF Recover
    <3>2. calm /\ InLoop
      BY <1>1, <1>3 DEF Searches, Loop
    <3>3. ~AtOrigin
      BY <2>3, <3>2 DEF AtOrigin, At, Known, Settled
    <3> QED
      BY <1>1, <1>2, <1>3, <2>3, <3>1, <3>3 DEF Loop, AwayFrom, Away, Bad
  <2>4. ~(pc' \in {"idle", "gone"})
    BY DEF Searches, InLoop
  <2> QED
    BY <1>3, <2>2, <2>3, <2>4, DevSelDoes
<1>4. CASE DevBp
  <2>1. UNCHANGED <<dev, num, auto>>
    BY <1>4, DevBpDoes
  <2>2. CASE devsel = "CUR" /\ UNCHANGED <<dpt, devsel, sel, total, bp, op, from>>
    BY <1>1, <1>2, <1>4, <2>1, <2>2 DEF Loop, AtOrigin, At, AwayFrom, Away, Bad
  <2>3. CASE devsel # "CUR" /\ Recover("NOFIND", auto)
    <3>1. sel' = "BP" /\ UNCHANGED <<bp, op, from>> /\ dpt' \subseteq dpt
      BY <2>3 DEF Recover, Remove
    <3> QED
      BY <1>1, <1>2, <1>4, <2>1, <2>3, <3>1 DEF Loop, AtOrigin, At, AwayFrom, Away, Bad
  <2>4. CASE devsel # "CUR" /\ UNCHANGED <<dpt, bp, op, from>> /\ sel' \in {sel, IF auto THEN "FIRST" ELSE "LAST"}
    BY <1>1, <1>2, <1>4, <2>1, <2>4 DEF Loop, AtOrigin, At, AwayFrom, Away, Bad
  <2> QED
    BY <1>4, <2>2, <2>3, <2>4, DevBpDoes
<1>5. CASE FileSel
  <2>1. Astray \/ Fails
    BY <1>5, FileSelDoes DEF Plays, Searches, InLoop
  <2>2. PICK err \in Errs : Recover(err, Way)
    BY <1>5, <2>1, FileSelDoes, AstrayRecovers DEF Inv, Errs
  <2>3. UNCHANGED <<op, from>> /\ dpt' \subseteq dpt
    BY <1>5, <2>2, RecoverSets, FileSelDoes
  <2>4. Searches /\ Origin /\ Origin' /\ from[1] \in dpt'
    BY <1>2, <1>5, <2>3 DEF Loop, Searches
  <2> QED
    BY <1>5, <2>1, <2>4, AtStep, AwayStep
<1>6. CASE Next /\ ~Loop
  <2>1. CASE Unmoved
    <3>1. Searches /\ Origin /\ (AtOrigin \/ AwayFrom)
      BY <2>1 DEF Unmoved, Searches
    <3>2. devsel = "CUR" => dev \in plugged
      BY <3>1 DEF Searches, Known, Settled
    <3> QED
      BY <2>1, <3>1, <3>2 DEF Unmoved, Origin, AtOrigin, At, AwayFrom, Away, Bad
  <2>2. CASE FromFile
    <3>1. total \in Nat /\ total = Len(content[dev]) /\ num \in 1 .. total
      BY <2>2 DEF FromFile, Inv, TypeOK, SelectionOK
    <3>2. \A forth \in BOOLEAN : Tried(num, num, total, forth) = {}
      BY <3>1, TriedRest
    <3> QED
      BY <2>2, <3>1, <3>2 DEF FromFile, Origin, AtOrigin, At, Bad
  <2> QED
    BY <1>6, <2>1, <2>2, Entered DEF Searches
<1>7. CASE UNCHANGED vars
  BY <1>7 DEF vars, hardware, fop, decoder, history, Searches, InLoop, Origin, AtOrigin, At, AwayFrom,
              Away, Bad
<1> QED
  BY <1>3, <1>4, <1>5, <1>6, <1>7 DEF Next, Loop

LEMMA SkipsStep ==
  ASSUME Inv, Known, Skipping, FileSel, pc' = "idle", calm, op = "file", mode \in {"ALL", "LGDEV"},
         sel \in {"NEXT", "AUTO", "PREV", "FIRST", "LAST"}, from[1] = dev
  PROVE  Bad(dev, Passed(from[2], num', total, sel \in {"NEXT", "AUTO", "FIRST"}))
<1>1. Plays
  <2>1. ~Astray /\ ~Fails
    BY DEF Astray, Fails, Recover
  <2> QED
    BY <2>1, FileSelDoes
<1>2. Searches
  BY SettledThere DEF Searches, InLoop
<1>3. Origin /\ (AtOrigin \/ AwayFrom)
  BY <1>2, SkippingIs
<1>4. CASE AtOrigin
  <2>1. (sel # "PREV") = (sel \in {"NEXT", "AUTO", "FIRST"})
    BY <1>4 DEF AtOrigin, At
  <2> QED
    BY <1>1, <1>2, <1>3, <1>4, <2>1, AtStep
<1>5. CASE AwayFrom
  <2>1. sel = (IF auto THEN "FIRST" ELSE "LAST") /\ Bad(dev, Passed(from[2], num', total, auto))
    BY <1>1, <1>2, <1>3, <1>5, AwayStep
  <2>2. auto = (sel \in {"NEXT", "AUTO", "FIRST"})
    BY <2>1 DEF Inv, TypeOK, SelectionOK
  <2> QED
    BY <2>1, <2>2
<1> QED
  BY <1>3, <1>4, <1>5

\* What is known of the player, in the loop of music_player_play and out of it.
IInv == Inv /\ Known /\ Counting /\ Skipping

\* The count of the loop and its numbers are those of files it has tried, on a
\* device that has not been away: what the two theorems about the search need.
THEOREM Searching == Spec => []IInv
<1>1. Init => IInv
  BY InitInv, InitKnown DEF IInv, Init, Counting, Skipping, InLoop
<1>2. IInv /\ [Next]_vars => IInv'
  BY NextInv, NextKnown, CountingStep, SkippingStep DEF IInv
<1> QED
  BY <1>1, <1>2, PTL DEF Spec

-----------------------------------------------------------------------------
(***************************************************************************)
(* A measure of what is left of music_player_play's loop, and what each    *)
(* way through it does to the measure.                                     *)
(***************************************************************************)
\* 2: the selected device is not in the list the player walks, 1: it is about to
\* choose one that is.
Missing == IF dev \in Listed THEN 0 ELSE IF pc = "device" /\ devsel \in {"NEXT", "PREV"} THEN 1 ELSE 2

\* In REPEAT_ALL: the search goes over the whole list of the device from one end,
\* and each file counts, so that it cannot leave it over the other end.
Swept ==
  \/ sel = IF auto THEN "FIRST" ELSE "LAST"
  \/ /\ devsel = "CUR" /\ sel = Onward(auto) /\ 0 < errs /\ errs < total
     /\ num <= total /\ IF auto THEN num <= errs ELSE total < num + errs

\* It goes down the list, and can only leave it over the beginning.
Sinking == ~auto /\ (sel = "FIRST" \/ (devsel = "CUR" /\ sel = "PREV" /\ num \in 1 .. (total + 1)))

Stage == IF mode # "ALL" \/ Swept THEN 0 ELSE IF Sinking THEN 1 ELSE 2

\* 1 until the device's file system is open, 1 while its break point is looked
\* for, the files left to fail, the steps left of the iteration.
Unopened == IF devsel = "CUR" THEN 0 ELSE 1
Seeking == IF sel = "BP" THEN 1 ELSE 0
Left == IF devsel = "CUR" /\ errs < total THEN total - errs ELSE 0
Phase == IF pc = "device" THEN 2 ELSE IF pc = "system" THEN 1 ELSE 0

Rank == <<Missing, Stage, Unopened, Seeking, Left, Phase>>

\* The order of Rank: the first place that differs decides.
Before(a, b) == \E k \in DOMAIN a : a[k] < b[k] /\ \A j \in 1 .. (k - 1) : a[j] = b[j]

\* Every step of music_player_play gives up a partition for good, lowers Rank, or
\* ends it: no selection, error or order of the devices makes it repeat itself,
\* and only a device that comes or goes can raise Rank.
LoopAdvances ==
  [][Loop /\ InLoop' =>
       (dpt' \subseteq dpt /\ dpt' # dpt) \/ (dpt' = dpt /\ Before(Rank', Rank))]_vars

LEMMA RankTyped ==
  ASSUME TypeOK
  PROVE  /\ Missing \in Nat /\ Stage \in Nat /\ Unopened \in Nat /\ Seeking \in Nat /\ Left \in Nat
         /\ Phase \in Nat
BY DEF TypeOK, SelectionOK, Missing, Stage, Unopened, Seeking, Left, Phase

LEMMA RankLower ==
  ASSUME TypeOK, TypeOK',
         Missing' <= Missing,
         Missing' = Missing => Stage' <= Stage,
         Missing' = Missing /\ Stage' = Stage => Unopened' <= Unopened,
         Missing' = Missing /\ Stage' = Stage /\ Unopened' = Unopened =>
           \/ Seeking' < Seeking
           \/ Seeking' = Seeking /\ (Left' < Left \/ (Left' = Left /\ Phase' < Phase))
  PROVE  Before(Rank', Rank)
<1>1. /\ Missing \in Nat /\ Stage \in Nat /\ Unopened \in Nat /\ Seeking \in Nat /\ Left \in Nat
      /\ Phase \in Nat
  BY RankTyped
<1>2. (/\ Missing \in Nat /\ Stage \in Nat /\ Unopened \in Nat /\ Seeking \in Nat /\ Left \in Nat
       /\ Phase \in Nat)'
  BY RankTyped, PTL
<1> DEFINE a == Rank'
           b == Rank
<1>3. /\ DOMAIN a = 1 .. 6
      /\ a[1] = Missing' /\ a[2] = Stage' /\ a[3] = Unopened' /\ a[4] = Seeking' /\ a[5] = Left'
      /\ a[6] = Phase'
  BY DEF Rank
<1>4. /\ b[1] = Missing /\ b[2] = Stage /\ b[3] = Unopened /\ b[4] = Seeking /\ b[5] = Left
      /\ b[6] = Phase
  BY DEF Rank
<1>5. \/ a[1] < b[1]
      \/ a[1] = b[1] /\ a[2] < b[2]
      \/ a[1] = b[1] /\ a[2] = b[2] /\ a[3] < b[3]
      \/ a[1] = b[1] /\ a[2] = b[2] /\ a[3] = b[3] /\ a[4] < b[4]
      \/ a[1] = b[1] /\ a[2] = b[2] /\ a[3] = b[3] /\ a[4] = b[4] /\ a[5] < b[5]
      \/ a[1] = b[1] /\ a[2] = b[2] /\ a[3] = b[3] /\ a[4] = b[4] /\ a[5] = b[5] /\ a[6] < b[6]
  BY <1>1, <1>2, <1>3, <1>4
<1> HIDE DEF a, b
<1>6. \E k \in DOMAIN a : a[k] < b[k] /\ \A j \in 1 .. (k - 1) : a[j] = b[j]
  <2>1. CASE a[1] < b[1]
    BY <1>3, <2>1
  <2>2. CASE a[1] = b[1] /\ a[2] < b[2]
    BY <1>3, <2>2
  <2>3. CASE a[1] = b[1] /\ a[2] = b[2] /\ a[3] < b[3]
    <3>1. 3 \in DOMAIN a /\ \A j \in 1 .. (3 - 1) : a[j] = b[j]
      BY <1>3, <2>3
    <3> QED
      BY <2>3, <3>1
  <2>4. CASE a[1] = b[1] /\ a[2] = b[2] /\ a[3] = b[3] /\ a[4] < b[4]
    <3>1. 4 \in DOMAIN a /\ \A j \in 1 .. (4 - 1) : a[j] = b[j]
      BY <1>3, <2>4
    <3> QED
      BY <2>4, <3>1
  <2>5. CASE a[1] = b[1] /\ a[2] = b[2] /\ a[3] = b[3] /\ a[4] = b[4] /\ a[5] < b[5]
    <3>1. 5 \in DOMAIN a /\ \A j \in 1 .. (5 - 1) : a[j] = b[j]
      BY <1>3, <2>5
    <3> QED
      BY <2>5, <3>1
  <2>6. CASE a[1] = b[1] /\ a[2] = b[2] /\ a[3] = b[3] /\ a[4] = b[4] /\ a[5] = b[5] /\ a[6] < b[6]
    <3>1. 6 \in DOMAIN a /\ \A j \in 1 .. (6 - 1) : a[j] = b[j]
      BY <1>3, <2>6
    <3> QED
      BY <2>6, <3>1
  <2> QED
    BY <1>5, <2>1, <2>2, <2>3, <2>4, <2>5, <2>6
<1> QED
  BY <1>6 DEF Before, a, b

Advances == (dpt' \subseteq dpt /\ dpt' # dpt) \/ (dpt' = dpt /\ Before(Rank', Rank))

\* Nothing new is taken on while the selections stay.
LEMMA StageKept ==
  ASSUME UNCHANGED <<mode, sel, auto, devsel, num>>, devsel = "CUR" => UNCHANGED <<errs, total>>
  PROVE  Stage' = Stage
BY DEF Stage, Swept, Sinking, Onward

LEMMA DevSelAdvances ==
  ASSUME Inv, Inv', DevSel, InLoop'
  PROVE  Advances
<1> USE DEF Inv
<1>1. pc = "device" /\ dev \in Devices /\ UNCHANGED <<online, mode>>
  BY DevSelDoes
<1>2. ASSUME NEW d \in online, Chosen(d), IF devsel \in {"CUR", "SPEC"} THEN d = dev ELSE d \in Listed
      PROVE  Advances
  <2>1. /\ pc' = "system" /\ dev' = d /\ UNCHANGED <<dpt, devsel, sel, num, total, auto>>
        /\ devsel = "CUR" => errs' = errs
    BY <1>2 DEF Chosen
  <2>2. Stage' = Stage
    BY <1>1, <2>1, StageKept
  <2>3. Missing' <= Missing
    BY <1>1, <1>2, <2>1 DEF Missing, Listed, TypeOK, SelectionOK
  <2>4. Unopened' = Unopened /\ Seeking' = Seeking /\ Left' = Left /\ Phase' < Phase
    BY <1>1, <2>1 DEF Unopened, Seeking, Left, Phase
  <2>5. Unopened \in Nat /\ Stage \in Nat
    BY RankTyped
  <2> QED
    BY <2>1, <2>2, <2>3, <2>4, <2>5, RankLower DEF Advances
<1>3. ASSUME devsel \in {"CUR", "SPEC"}, dev \notin online, Recover("OFFLINE", auto), dev' = dev
      PROVE  Advances
  <2>1. pc' = "device" /\ devsel' = "NEXT" /\ dpt' = dpt
    BY <1>3 DEF Recover
  <2>2. Missing' = 1 /\ Missing = 2
    BY <1>1, <1>3, <2>1 DEF Missing, Listed
  <2> QED
    BY <2>1, <2>2, RankLower DEF Advances
<1> QED
  BY <1>2, <1>3, DevSelDoes DEF InLoop

LEMMA DevBpAdvances ==
  ASSUME Inv, Inv', DevBp
  PROVE  Advances
<1> USE DEF Inv
<1>1. pc = "system" /\ dev \in Devices /\ UNCHANGED <<online, mode, dev, num, auto>>
  BY DevBpDoes
<1>2. CASE devsel = "CUR" /\ pc' = "file" /\ UNCHANGED <<dpt, devsel, sel, errs, total, open, bp, op, from>>
  <2>1. Stage' = Stage
    BY <1>1, <1>2, StageKept
  <2>2. /\ Missing' = Missing /\ Unopened' = Unopened /\ Seeking' = Seeking /\ Left' = Left
        /\ Phase' < Phase
    BY <1>1, <1>2 DEF Missing, Listed, Unopened, Seeking, Left, Phase
  <2>3. Missing \in Nat /\ Stage \in Nat /\ Unopened \in Nat
    BY RankTyped
  <2> QED
    BY <1>2, <2>1, <2>2, <2>3, RankLower DEF Advances
<1>3. CASE devsel # "CUR" /\ Recover("NOFIND", auto)
  <2>1. pc' = "device" /\ devsel' \in {"NEXT", "PREV"} /\ dpt' = dpt \ {dev}
    BY <1>3 DEF Recover, Onward, Remove
  <2>2. CASE dev \in dpt
    BY <2>1, <2>2 DEF Advances
  <2>3. CASE dev \notin dpt
    <3>1. dpt' = dpt /\ Missing' = 1 /\ Missing = 2
      BY <1>1, <2>1, <2>3 DEF Missing, Listed
    <3> QED
      BY <3>1, RankLower DEF Advances
  <2> QED
    BY <2>2, <2>3
<1>4. CASE /\ devsel # "CUR" /\ devsel' = "CUR" /\ UNCHANGED dpt /\ pc' \in {"device", "file"}
           /\ sel' = sel \/ (sel = "BP" /\ sel' = (IF auto THEN "FIRST" ELSE "LAST"))
  <2>1. Missing' = Missing
    BY <1>1, <1>4 DEF Missing, Listed
  <2>2. Stage' <= Stage
    BY <1>1, <1>4 DEF Stage, Swept, Sinking
  <2>3. Unopened' < Unopened
    BY <1>4 DEF Unopened
  <2>4. Missing \in Nat /\ Stage \in Nat
    BY RankTyped
  <2>5. Unopened' <= Unopened /\ Unopened' # Unopened
    BY <1>4 DEF Unopened
  <2> QED
    BY <1>4, <2>1, <2>2, <2>4, <2>5, RankLower DEF Advances
<1> QED
  BY <1>2, <1>3, <1>4, DevBpDoes

\* In REPEAT_ALL the number goes up or down by one, or off the list.
LEMMA StepInAll ==
  ASSUME TypeOK, mode = "ALL", sel \in {"NEXT", "AUTO", "PREV"}, NEW c \in Selected
  PROVE  /\ sel # "PREV" => IF num + 1 > total THEN c = Error("END") ELSE c = Number(num + 1)
         /\ sel = "PREV" /\ num > 0 => IF num - 1 > total THEN c = Error("END")
                                       ELSE IF num = 1 THEN c = Error("PRE") ELSE c = Number(num - 1)
<1>1. num \in Nat /\ total \in Nat
  BY DEF TypeOK, SelectionOK
<1>2. Bounds = <<1, total>> /\ Draws = {num}
  BY DEF Bounds, Draws
<1>3. c = Ranged(Stepped(num))
  BY <1>2 DEF Selected
<1>4. CASE sel # "PREV"
  <2>1. Stepped(num) = num + 1
    BY <1>1, <1>4 DEF Stepped
  <2> QED
    BY <1>1, <1>2, <1>3, <1>4, <2>1 DEF Ranged
<1>5. CASE sel = "PREV" /\ num > 0
  <2>1. Stepped(num) = num - 1
    BY <1>1, <1>5 DEF Stepped
  <2> QED
    BY <1>1, <1>2, <1>3, <1>5, <2>1 DEF Ranged
<1> QED
  BY <1>4, <1>5

\* A search that has left the list over an end takes it from an end, and a search
\* from an end does not leave it over the other one.
LEMMA EndsLowerStage ==
  ASSUME Inv, FileSel, NEW c \in Selected, NEW err \in {"END", "PRE"}, c.err = err, Recover(err, Way), auto' = Way
  PROVE  Stage' < Stage
<1>1. /\ pc = "file" /\ dev \in Devices /\ devsel = "CUR" /\ Way \in BOOLEAN /\ UNCHANGED <<total, mode>>
      /\ num \in Nat /\ total \in Nat /\ errs \in Nat /\ auto \in BOOLEAN /\ sel \in Sels
  BY FileSelDoes DEF Inv, TypeOK, SelectionOK
<1>2. mode = "ALL"
  BY <1>1, SelectedType DEF Inv
<1>3. sel \in {"NEXT", "AUTO", "PREV"}
  <2>1. CASE sel \in {"FIRST", "LAST"}
    BY <2>1, <1>2 DEF Selected, Number
  <2>2. CASE sel = "BP"
    BY <2>2 DEF Selected, Number
  <2>3. CASE sel = "SPEC"
    <3>1. Draws = {num} /\ Bounds = <<1, total>>
      BY <1>2, <2>3 DEF Draws, Bounds
    <3>2. c = IF num = 0 \/ num > total THEN Error("FILE") ELSE Ranged(num)
      BY <2>3, <3>1 DEF Selected
    <3>3. ~(num = 0 \/ num > total) => Ranged(num) = Number(num)
      BY <1>1, <3>1 DEF Ranged
    <3> QED
      BY <3>2, <3>3 DEF Error, Number
  <2>4. CASE sel \in {"NEXTDIR", "PREVDIR"}
    BY <2>4 DEF Selected, Error, Number
  <2> QED
    BY <1>1, <2>1, <2>2, <2>3, <2>4 DEF Sels
<1>4. /\ sel # "PREV" => Way /\ err = "END" /\ num + 1 > total
      /\ sel = "PREV" => /\ ~Way /\ (num <= 1 \/ num > total)
                         /\ err = "PRE" \/ num = 0 \/ num > total + 1
  BY <1>1, <1>2, <1>3, StepInAll DEF Inv, Way, Error, Number
<1>5. ~Swept
  BY <1>1, <1>3, <1>4 DEF Swept, Onward, Way
<1>6. mode' = "ALL" /\ (sel' = IF err = "END" THEN "FIRST" ELSE "LAST") /\ auto' = Way
  BY <1>1, <1>2 DEF Recover
<1>7. CASE err = (IF Way THEN "END" ELSE "PRE")
  <2>1. Swept'
    BY <1>1, <1>6, <1>7 DEF Swept
  <2> QED
    BY <1>2, <1>5, <2>1 DEF Stage
<1>8. CASE ~Way /\ err = "END"
  <2>1. ~Sinking
    BY <1>1, <1>3, <1>4, <1>8 DEF Sinking, Way
  <2>2. Sinking'
    BY <1>1, <1>6, <1>8 DEF Sinking
  <2> QED
    BY <1>2, <1>5, <2>1, <2>2 DEF Stage
<1> QED
  BY <1>1, <1>4, <1>7, <1>8

\* The next number of a search over the whole list.
LEMMA FaultKeepsStage ==
  ASSUME Inv, FileSel, NEW c \in Selected, num' = c.num, c.err \in {"none", "FILE"}, auto' = Way,
         errs' = errs + 1, errs' < total, sel' = Onward(Way), devsel' = devsel
  PROVE  Stage' <= Stage
<1>1. /\ pc = "file" /\ dev \in Devices /\ devsel = "CUR" /\ Way \in BOOLEAN /\ UNCHANGED <<total, mode>>
      /\ num \in Nat /\ total \in Nat /\ errs \in Nat /\ auto \in BOOLEAN /\ sel \in Sels
  BY FileSelDoes DEF Inv, TypeOK, SelectionOK
<1>2. CASE mode = "ALL" /\ Swept
  <2>1. Swept'
    <3>1. CASE sel = IF auto THEN "FIRST" ELSE "LAST"
      <4>1. Way = auto /\ num' = (IF auto THEN 1 ELSE total)
        BY <1>1, <1>2, <3>1 DEF Way, Selected, Number
      <4> QED
        BY <1>1, <4>1 DEF Swept
    <3>2. CASE /\ sel = Onward(auto) /\ 0 < errs /\ errs < total
               /\ num <= total /\ IF auto THEN num <= errs ELSE total < num + errs
      <4>1. Way = auto /\ sel \in {"NEXT", "PREV"} /\ (sel = "NEXT") = auto
        BY <1>1, <3>2 DEF Way, Onward
      <4>2. num' = IF auto THEN num + 1 ELSE num - 1
        <5>1. c.err \notin {"END", "PRE"} /\ TypeOK
          BY DEF Inv
        <5>2. CASE auto
          <6>1. sel = "NEXT"
            BY <1>1, <3>2, <5>2 DEF Onward
          <6>2. c = Error("END") \/ c = Number(num + 1)
            BY <1>2, <5>1, <6>1, StepInAll
          <6>3. c = Number(num + 1)
            BY <5>1, <6>2 DEF Error
          <6> QED
            BY <5>2, <6>3 DEF Number
        <5>3. CASE ~auto
          <6>1. sel = "PREV" /\ num > 0
            BY <1>1, <3>2, <4>1, <5>3
          <6>2. c = Number(num - 1)
            BY <1>2, <5>1, <6>1, StepInAll DEF Error
          <6> QED
            BY <5>3, <6>2 DEF Number
        <5> QED
          BY <5>2, <5>3
      <4> QED
        BY <1>1, <3>2, <4>1, <4>2 DEF Swept
    <3> QED
      BY <1>2, <3>1, <3>2 DEF Swept
  <2> QED
    BY <1>1, <1>2, <2>1 DEF Stage
<1>3. CASE mode = "ALL" /\ ~Swept /\ Sinking
  <2>1. Sinking'
    <3>1. CASE sel = "FIRST"
      <4>1. Way = FALSE /\ num' = 1
        BY <1>1, <1>3, <3>1 DEF Sinking, Way, Selected, Number
      <4> QED
        BY <1>1, <4>1 DEF Sinking, Onward
    <3>2. CASE sel = "PREV" /\ num \in 1 .. (total + 1)
      <4>1. Way = FALSE /\ num' \in 1 .. total
        BY <1>1, <1>3, <3>2, StepInAll DEF Inv, Way, Error, Number
      <4> QED
        BY <1>1, <4>1 DEF Sinking, Onward
    <3> QED
      BY <1>3, <3>1, <3>2 DEF Sinking
  <2> QED
    BY <1>1, <1>3, <2>1 DEF Stage
<1> QED
  BY <1>1, <1>2, <1>3 DEF Stage

LEMMA FileSelAdvances ==
  ASSUME Inv, Inv', FileSel, InLoop'
  PROVE  Advances
<1> USE DEF Inv
<1>1. /\ pc = "file" /\ dev \in Devices /\ devsel = "CUR" /\ Way \in BOOLEAN
      /\ UNCHANGED <<online, mode, dev, total>>
  BY FileSelDoes
<1>2. num \in Nat /\ total \in Nat /\ errs \in Nat /\ auto \in BOOLEAN /\ Missing \in Nat
      /\ Stage \in Nat /\ Unopened \in Nat
  BY RankTyped DEF TypeOK, SelectionOK
<1>3. ASSUME NEW c \in Selected, num' = c.num, c.err \in {"none", "FILE"}, Recover("FILE", Way), auto' = Way
      PROVE  Advances
  <2>1. pc' = "device" /\ Statistics(Way)
    BY <1>3 DEF Recover
  <2>2. CASE Exhausted
    <3>1. devsel' \in {"NEXT", "PREV"} /\ dpt' = dpt \ {dev}
      BY <2>1, <2>2 DEF Statistics, Remove, Onward
    <3>2. CASE dev \in dpt
      BY <3>1, <3>2 DEF Advances
    <3>3. CASE dev \notin dpt
      <4>1. dpt' = dpt /\ Missing' = 1 /\ Missing = 2
        BY <1>1, <2>1, <3>1, <3>3 DEF Missing, Listed
      <4> QED
        BY <4>1, RankLower DEF Advances
    <3> QED
      BY <3>2, <3>3
  <2>3. CASE ~Exhausted
    <3>1. /\ errs' = errs + 1 /\ sel' = Onward(Way) /\ UNCHANGED <<dpt, devsel>> /\ errs + 1 < total
      BY <1>2, <2>1, <2>3 DEF Statistics, Exhausted
    <3>2. Stage' <= Stage
      BY <1>2, <1>3, <3>1, FaultKeepsStage
    <3>3. Missing' = Missing
      BY <1>1, <2>1, <3>1 DEF Missing, Listed
    <3>4. Unopened' = Unopened
      BY <3>1 DEF Unopened
    <3>5. Seeking' <= Seeking /\ Left' < Left /\ Seeking \in Nat /\ Seeking' \in Nat
      BY <1>1, <1>2, <3>1 DEF Seeking, Left, Onward
    <3> QED
      BY <1>2, <3>1, <3>2, <3>3, <3>4, <3>5, RankLower DEF Advances
  <2> QED
    BY <2>2, <2>3
<1>4. ASSUME NEW c \in Selected, NEW err \in {"END", "PRE"}, c.err = err, Recover(err, Way), auto' = Way
      PROVE  Advances
  <2>1. Stage' < Stage
    BY <1>4, EndsLowerStage
  <2>2. pc' = "device" /\ dpt' = dpt /\ devsel' \in {"NEXT", "PREV"}
    BY <1>4 DEF Recover
  <2>3. Missing' <= Missing
    BY <1>1, <2>2 DEF Missing, Listed
  <2>4. Stage' \in Nat /\ Stage' <= Stage /\ Stage' # Stage
    <3>1. Stage' \in Nat
      BY DEF Stage
    <3> QED
      BY <1>2, <2>1, <3>1
  <2> QED
    BY <2>2, <2>3, <2>4, RankLower DEF Advances
<1>5. ASSUME sel = "BP", Recover("BPFILE", Way), UNCHANGED <<num, auto>> PROVE Advances
  <2>1. /\ pc' = "device" /\ sel' = (IF auto THEN "FIRST" ELSE "LAST")
        /\ UNCHANGED <<dpt, devsel, errs>>
    BY <1>5 DEF Recover, Way
  <2>2. Missing' = Missing
    BY <1>1, <2>1 DEF Missing, Listed
  <2>3. Stage' = 0
    BY <1>5, <2>1 DEF Stage, Swept
  <2>4. Unopened' = Unopened /\ Seeking' < Seeking
    BY <1>2, <1>5, <2>1 DEF Unopened, Seeking
  <2> QED
    BY <1>2, <2>1, <2>2, <2>3, <2>4, RankLower DEF Advances
<1>6. \A c \in Selected : c.err \in {"none", "END", "PRE", "FILE"}
  BY <1>1, SelectedType
<1>7. CASE Astray
  BY <1>3, <1>4, <1>5, <1>6, <1>7 DEF Astray
<1>8. CASE Fails
  BY <1>3, <1>8 DEF Fails
<1>9. ~Plays
  BY DEF Plays, InLoop
<1> QED
  BY <1>7, <1>8, <1>9, FileSelDoes

-----------------------------------------------------------------------------
(***************************************************************************)
(* The theorems.                                                           *)
(***************************************************************************)
\* Every variable keeps its range; the ring of messages keeps its bound, and
\* the loop of music_player_play always has a device.
THEOREM TypeCorrect == Spec => []TypeOK
<1> QED
  BY Invariance, PTL DEF Inv

\* While nothing comes and goes, the number that NEXT and PREV count from is
\* that of the open file, which decodes: whatever was skipped, removed or
\* deleted on the way.
THEOREM NumberRight == Spec => []NumberMatches
<1> QED
  BY Invariance, PTL DEF Inv

\* No file's break point is saved in the slot of a device it was not last
\* played on.
THEOREM BreakPointsRight == Spec => []BpIsLast
<1> QED
  BY Invariance, PTL DEF Inv

\* The music task without a running decoder has a message to serve.
THEOREM Awake == Spec => []NeverSilent
<1> QED
  BY Invariance, PTL DEF Inv

\* Only REPEAT_ALL, a key or a new device makes the player leave a device that
\* is there and has something to play.
THEOREM StaysThere == Spec => StaysOnDevice
<1> DEFINE A == dev' # dev /\ calm => op' \in {"start", "dev"} \/ mode = "ALL" \/ dev \notin dpt \cap online
<1>1. Inv /\ [Next]_vars => [A]_vars
  <2> SUFFICES ASSUME Inv, Next, dev' # dev, calm
               PROVE  op' \in {"start", "dev"} \/ mode = "ALL" \/ dev \notin dpt \cap online
    BY DEF vars
  <2>1. CASE DevSel
    <3>1. pc = "device" /\ devsel \in {"CUR", "NEXT", "PREV", "SPEC"}
      BY <2>1 DEF DevSel, Inv, TypeOK, SelectionOK
    <3>2. devsel \in {"NEXT", "PREV"} /\ op' = op
      BY <2>1, <3>1 DEF DevSel, Chosen, GiveUp, Recover
    <3> QED
      BY <3>1, <3>2 DEF Inv, Leaving, Leaves
  <2>2. CASE DevBp \/ FileSel
    BY <2>2 DEF DevBp, FileSel
  <2>3. CASE Message
    <3>1. dev' = dev \/ op' = "start"
      BY <2>3 DEF Message, TakeEnd, TakeErr, TakeChange, On, Off, Operate, NextDev, Play, Leave,
                  Start, fop
    <3> QED
      BY <3>1
  <2>4. CASE Key
    <3>1. dev' = dev \/ op' = "start"
      BY <2>4 DEF Key, KeyFile, KeyNumber, KeyDev, KeyDelete, KeyMode, KeyPp, KeySeek, KeyLeave,
                  Enter, Operate, NextDev, Play, Leave, Start, fop
    <3> QED
      BY <3>1
  <2>5. CASE Interrupt
    BY <2>5 DEF Interrupt, DecodeEnds, Plug, Unplug, Detect, fop
  <2> QED
    BY <2>1, <2>2, <2>3, <2>4, <2>5 DEF Next, Loop
<1>2. Spec => [][Next]_vars
  BY PTL DEF Spec
<1> QED
  BY <1>1, <1>2, Invariance, PTL DEF StaysOnDevice

\* REPEAT_ALL, REPEAT_DEV and REPEAT_ONE give up a partition, of files with a
\* playing time, only when none of them decodes: the count that decides it is
\* that of as many different files.
THEOREM DropsRight == Spec => DropsOnlyBad
<1> DEFINE A == \A d \in dpt \ dpt' :
                  /\ Loop /\ calm /\ mode \in {"ALL", "LGDEV", "ONE"} /\ op \notin {"folder", "number", "delete"}
                  /\ \A i \in 1 .. Len(content[d]) : content[d][i] \notin Zero
                  => \A i \in 1 .. Len(content[d]) : content[d][i] \notin Good
<1>1. IInv => [A]_vars
  BY DropsStep DEF IInv, Timed
<1> QED
  BY <1>1, Searching, PTL DEF DropsOnlyBad

\* NEXT, PREV and the end of a file land on the nearest file in their direction
\* that decodes, though the search may have been on other devices in between.
THEOREM SkipsRight == Spec => SkipsOnlyBad
<1> DEFINE A == FileSel /\ pc' = "idle" /\ calm /\ op = "file" /\ mode \in {"ALL", "LGDEV"}
                  /\ sel \in {"NEXT", "AUTO", "PREV", "FIRST", "LAST"} /\ from[1] = dev
                  => \A i \in Passed(from[2], num', total, sel \in {"NEXT", "AUTO", "FIRST"}) :
                        content[dev][i] \notin Good
<1>1. IInv => [A]_vars
  BY SkipsStep DEF IInv, Bad
<1> QED
  BY <1>1, Searching, PTL DEF SkipsOnlyBad

\* music_player_play cannot go round for good by itself, whatever the devices
\* hold: each step of it gives up a partition, lowers Rank or ends it.
THEOREM LoopProgress == Spec => LoopAdvances
<1>1. Inv /\ Inv' => [Loop /\ InLoop' => Advances]_vars
  BY DevSelAdvances, DevBpAdvances, FileSelAdvances DEF Loop
<1>2. Spec => [][Loop /\ InLoop' => Advances]_vars
  BY <1>1, Invariance, PTL
<1> QED
  BY <1>2 DEF LoopAdvances, Advances
=============================================================================
