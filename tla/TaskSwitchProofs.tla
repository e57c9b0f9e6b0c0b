-------------------------- MODULE TaskSwitchProofs --------------------------
(***************************************************************************)
(* For every task list that starts with Bluetooth and has music in it:     *)
(* where the switch mask may be set, where the Bluetooth stack is, and     *)
(* that only a walk off the list leaves task_manager without a task.       *)
(***************************************************************************)
EXTENDS TaskSwitch, SequenceTheorems, TLAPS

LEMMA AfterInIds == \A i \in Ids : After(i) \in Ids
BY TaskAssumption DEF After, Ids, TaskMax

Requests == {TypeNext, TypeLast, BT, MUSIC, IDLE}

\* What task_switch can leave in target_id.
IsAim(a) == a.id \in Targets /\ a.left \in BOOLEAN /\ (a.left => Open)

LEMMA AimFields ==
  ASSUME NEW id, NEW left
  PROVE  Aim(id, left).id = id /\ Aim(id, left).left = left
BY DEF Aim

LEMMA LandingsTyped ==
  ASSUME NEW i \in Ids, NEW ok \in BOOLEAN
  PROVE  /\ \A a \in Landings(i, ok) : IsAim(a) /\ (a.id \in Ids \/ a.left)
         /\ Landings(i, ok) # {}
<1>1. 0 \in Ids
  BY TaskAssumption DEF Ids
<1> DEFINE k == Walk(ok)[i, 0]
<1>2. CASE k \in Ids
  <2>1. Landings(i, ok) = {Aim(k, FALSE)}
    BY <1>2 DEF Landings
  <2> HIDE DEF k
  <2> QED BY <1>2, <2>1 DEF IsAim, Targets, Aim
<1>3. CASE k \notin Ids
  <2>1. Landings(i, ok) = {Aim(id, TRUE) : id \in {0, Beyond, Unactive, Crash}}
    BY <1>3 DEF Landings
  <2>2. Open
    BY <1>3 DEF Open
  <2> HIDE DEF k
  <2>3. ASSUME NEW a \in Landings(i, ok)
        PROVE  a.id \in {0, Beyond, Unactive, Crash} /\ a.left = TRUE
    <3>1. PICK id \in {0, Beyond, Unactive, Crash} : a = Aim(id, TRUE)
      BY <2>1, <2>3
    <3> QED BY <3>1, AimFields
  <2>4. \A a \in Landings(i, ok) : IsAim(a) /\ a.left
    BY <1>1, <2>2, <2>3 DEF IsAim, Targets
  <2> QED BY <2>1, <2>4
<1> QED BY <1>2, <1>3

LEMMA StartTyped ==
  ASSUME NEW t \in Targets, t # Crash, NEW request \in Requests, TypeOK,
         Start(t, request) # Unactive
  PROVE  Start(t, request) \in Ids
<1>1. 0 \in Ids /\ BT \in Ids /\ MUSIC \in Ids /\ IDLE \in Ids /\ TypeNext # TypeLast
  BY TaskAssumption DEF Ids
<1>2. TypeNext \notin Ids /\ TypeLast \notin Ids
  BY TaskAssumption
<1>3. CASE request = TypeNext
  BY <1>1, <1>3, AfterInIds DEF Start, NextStart, Targets, TypeOK, Ranges
<1>4. CASE request = TypeLast
  BY <1>1, <1>4 DEF Start, TypeOK, Ranges
<1>5. CASE request \in {BT, MUSIC, IDLE}
  BY <1>1, <1>2, <1>5 DEF Start
<1> QED BY <1>3, <1>4, <1>5 DEF Requests

LEMMA AcceptedTyped ==
  ASSUME NEW m, NEW t \in Targets, t # Crash, NEW request \in Requests, NEW ok \in BOOLEAN, TypeOK
  PROVE  /\ \A a \in Accepted(m, t, request, ok) : IsAim(a) /\ (a.id \in Ids \/ a.left)
         /\ m => Accepted(m, t, request, ok) = {}
BY StartTyped, LandingsTyped DEF Accepted
LEMMA LineTargetsTyped ==
  ASSUME NEW line, NEW m, NEW a, IsAim(a), a.id # Crash, TypeOK
  PROVE  /\ \A b \in LineTargets(line, m, a) : IsAim(b) /\ (b = a \/ b.id \in Ids \/ b.left)
         /\ LineTargets(line, m, a) # {}
         /\ m => LineTargets(line, m, a) = {a}
<1>1. storage \in BOOLEAN /\ a.id \in Targets /\ MUSIC \in Requests
  BY DEF TypeOK, Flags, IsAim, Requests
<1>2. /\ \A b \in Accepted(m, a.id, MUSIC, storage) : IsAim(b) /\ (b.id \in Ids \/ b.left)
      /\ m => Accepted(m, a.id, MUSIC, storage) = {}
  BY <1>1, AcceptedTyped
<1> QED BY <1>2 DEF LineTargets

\* From the music task the next task can always be asked for.
LEMMA NextFromMusic ==
  ASSUME cur = MUSIC, NEW t \in Targets, t # Crash, NEW ok \in BOOLEAN, NEW m, ~m
  PROVE  Accepted(m, t, TypeNext, ok) # {}
<1>1. MUSIC \in Ids /\ 0 \in Ids /\ Unactive \notin Ids
  BY TaskAssumption DEF Ids
<1>2. Start(t, TypeNext) \in Ids
  <2> DEFINE base == IF t # Unactive THEN t ELSE cur
  <2>1. base \in Ids \union {Beyond}
    BY <1>1 DEF Targets
  <2>2. NextStart(base) \in Ids
    BY <1>1, <2>1, AfterInIds DEF NextStart
  <2> QED BY <2>2 DEF Start
<1>3. Start(t, TypeNext) # Unactive
  BY <1>1, <1>2
<1> QED BY <1>2, <1>3, LandingsTyped DEF Accepted

LEMMA AimedTyped ==
  ASSUME TypeOK, strayed => Open
  PROVE  IsAim(Aimed) /\ Aimed.id = target /\ Aimed.left = strayed
<1>1. Aimed.id = target /\ Aimed.left = strayed
  BY AimFields DEF Aimed
<1> QED BY <1>1 DEF IsAim, TypeOK, Flags, Ranges

-----------------------------------------------------------------------------
(***************************************************************************)
(* Types.                                                                  *)
(***************************************************************************)
Typed == TypeOK /\ (strayed => Open)

LEMMA EmptyQueue == <<>> \in Seq(Messages) /\ Len(<<>>) <= QueueMax
BY TaskAssumption, EmptySeq

IsQueue(q) == q \in Seq(Messages) /\ Len(q) <= QueueMax

LEMMA PostTyped ==
  ASSUME NEW q, IsQueue(q), NEW x \in Messages
  PROVE  IsQueue(Post(q, x))
<1>1. Len(q) \in Nat /\ QueueMax \in Nat
  BY TaskAssumption, LenProperties DEF IsQueue
<1>2. Append(q, x) \in Seq(Messages) /\ Len(Append(q, x)) = Len(q) + 1
  BY AppendProperties DEF IsQueue
<1> QED BY <1>1, <1>2 DEF Post, IsQueue

LEMMA ChangesTyped ==
  ASSUME NEW q, IsQueue(q), NEW n \in Nat
  PROVE  IsQueue(Changes(q, n))
<1> DEFINE room == QueueMax - Len(q)
           k == IF n < room THEN n ELSE room
           c == [i \in 1 .. k |-> "CHANGE"]
<1>1. Len(q) \in Nat /\ QueueMax \in Nat /\ q \in Seq(Messages)
  BY TaskAssumption, LenProperties DEF IsQueue
<1>2. k \in Nat /\ Len(q) + k <= QueueMax
  BY <1>1 DEF IsQueue
<1> HIDE DEF k
<1>3. c \in Seq(Messages)
  <2>1. c \in [1 .. k -> Messages]
    BY DEF Messages
  <2>2. c \in UNION {[1 .. j -> Messages] : j \in Nat}
    BY <1>2, <2>1
  <2> QED BY <2>2, SeqDef
<1>4. Len(c) = k
  <2>1. Len(c) \in Nat /\ 1 .. Len(c) = 1 .. k
    BY <1>3, LenProperties
  <2> HIDE DEF c
  <2>2. ~(Len(c) < k)
    <3>1. ASSUME Len(c) < k PROVE FALSE
      <4>1. k \in 1 .. k /\ k \notin 1 .. Len(c)
        BY <1>2, <2>1, <3>1
      <4> QED BY <2>1, <4>1
    <3> QED BY <3>1
  <2>3. ~(k < Len(c))
    <3>1. ASSUME k < Len(c) PROVE FALSE
      <4>1. Len(c) \in 1 .. Len(c) /\ Len(c) \notin 1 .. k
        BY <1>2, <2>1, <3>1
      <4> QED BY <2>1, <4>1
    <3> QED BY <3>1
  <2> QED BY <1>2, <2>1, <2>2, <2>3
<1> HIDE DEF c
<1>5. q \o c \in Seq(Messages) /\ Len(q \o c) = Len(q) + Len(c)
  BY <1>1, <1>3, ConcatProperties
<1>6. IsQueue(q \o c)
  BY <1>2, <1>4, <1>5 DEF IsQueue
<1> QED BY <1>6 DEF Changes, c, k

LEMMA LineQueueTyped ==
  ASSUME NEW line, NEW q, IsQueue(q)
  PROVE  IsQueue(LineQueue(line, q))
BY ChangesTyped DEF LineQueue

LEMMA TailTyped ==
  ASSUME NEW q, IsQueue(q), q # <<>>
  PROVE  IsQueue(Tail(q))
<1>1. Len(q) \in Nat /\ QueueMax \in Nat
  BY TaskAssumption, LenProperties DEF IsQueue
<1>2. Tail(q) \in Seq(Messages) /\ Len(Tail(q)) = Len(q) - 1
  BY HeadTailProperties DEF IsQueue
<1> QED BY <1>1, <1>2 DEF IsQueue

LEMMA HeadTyped ==
  ASSUME NEW q, IsQueue(q), q # <<>>
  PROVE  Head(q) \in Messages
BY HeadTailProperties DEF IsQueue

\* What a pass leaves, whatever it was about.
LEMMA DealResult ==
  ASSUME Typed, pc = "loop", target # Crash, NEW msg \in Messages \union {"NONE", "SD"},
         NEW line, NEW q, IsQueue(q), NEW ok \in BOOLEAN, Deal(msg, line, q, ok)
  PROVE  /\ IsQueue(queue')
         /\ target' \in Targets /\ strayed' \in BOOLEAN /\ (strayed' => Open)
         /\ pc' \in {"loop", "stopping"}
         /\ pc' = "stopping" => target' \in Ids \/ strayed'
         /\ mask' = (IF cur = BT THEN call ELSE mask)
         /\ mask' => pc' = pc /\ target' = target
<1>1. IsQueue(queue') /\ mask' = (IF cur = BT THEN call ELSE mask)
  BY LineQueueTyped DEF Deal, MaskAfterGet
<1>2. PICK a \in LineTargets(line, mask', Aimed) :
        LET s == IF msg = "NONE" THEN {} ELSE Accepted(mask', a.id, Request(msg), ok)
        IN  IF s = {} \/ a.id = Crash
              THEN Takes(a) /\ UNCHANGED pc
              ELSE (\E b \in s : Takes(b)) /\ pc' = "stopping"
  BY DEF Deal
<1> DEFINE s == IF msg = "NONE" THEN {} ELSE Accepted(mask', a.id, Request(msg), ok)
<1>3. /\ IsAim(a) /\ (mask' => a = Aimed)
      /\ Aimed.id = target
  BY AimedTyped, LineTargetsTyped DEF Typed
<1>4. a.id # Crash => (\A b \in s : IsAim(b) /\ (b.id \in Ids \/ b.left)) /\ (mask' => s = {})
  <2>1. msg # "NONE" => Request(msg) \in Requests
    BY DEF Request, Requests, Messages
  <2> QED BY <1>3, <2>1, AcceptedTyped DEF Typed, IsAim
<1> HIDE DEF s
<1>5. CASE s = {} \/ a.id = Crash
  <2>1. Takes(a) /\ pc' = pc
    BY <1>2, <1>5 DEF s
  <2> QED BY <1>1, <1>3, <2>1 DEF IsAim, Takes
<1>6. CASE ~(s = {} \/ a.id = Crash)
  <2>1. PICK b \in s : Takes(b) /\ pc' = "stopping"
    BY <1>2, <1>6 DEF s
  <2> QED BY <1>1, <1>4, <1>6, <2>1 DEF IsAim, Takes
<1> QED BY <1>5, <1>6

\* What the music task leaves that gives up.
LEMMA MusicTakes ==
  ASSUME Typed, NEW line, MusicFails(line)
  PROVE  \E a : /\ Takes(a) /\ IsAim(a)
                /\ ~mask => a.id \in Ids \/ a.left
<1>1. cur = MUSIC /\ target # Crash /\ storage \in BOOLEAN /\ TypeNext \in Requests
  BY DEF MusicFails, Running, Typed, TypeOK, Flags, Requests
<1>2. PICK a \in LineTargets(line, mask, Aimed) :
        LET s == Accepted(mask, a.id, TypeNext, storage)
        IN  IF s = {} \/ a.id = Crash THEN Takes(a) ELSE \E b \in s : Takes(b)
  BY DEF MusicFails
<1>3. IsAim(a) /\ (a = Aimed \/ a.id \in Ids \/ a.left) /\ Aimed.id = target
  BY <1>1, AimedTyped, LineTargetsTyped DEF Typed
<1>4. CASE a.id = Crash
  <2>1. Takes(a) /\ a # Aimed
    BY <1>1, <1>2, <1>3, <1>4
  <2> QED BY <1>3, <2>1
<1>5. CASE a.id # Crash
  <2> DEFINE s == Accepted(mask, a.id, TypeNext, storage)
  <2>1. \A b \in s : IsAim(b) /\ (b.id \in Ids \/ b.left)
    BY <1>1, <1>3, <1>5, AcceptedTyped DEF Typed, IsAim
  <2>2. ~mask => s # {}
    BY <1>1, <1>3, <1>5, NextFromMusic DEF IsAim
  <2>3. IF s = {} THEN Takes(a) ELSE \E b \in s : Takes(b)
    BY <1>2, <1>5
  <2> HIDE DEF s
  <2> QED BY <1>3, <2>1, <2>2, <2>3
<1> QED BY <1>4, <1>5

LEMMA InitTyped == Init => Typed
<1> SUFFICES ASSUME Init PROVE Typed
  OBVIOUS
<1>1. Flags
  BY DEF Init, Flags
<1>2. BT \in Ids
  BY TaskAssumption DEF Ids
<1>3. Ranges
  BY <1>2, EmptyQueue DEF Init, Ranges, Targets
<1> QED BY <1>1, <1>3 DEF TypeOK, Typed, Init

LEMMA StepTyped == Typed /\ [Next]_vars => Typed'
<1> SUFFICES ASSUME Typed, [Next]_vars
             PROVE  Typed'
  OBVIOUS
<1>0. IsQueue(queue) /\ storage \in BOOLEAN
  BY DEF Typed, TypeOK, Flags, Ranges, IsQueue
<1> USE DEF Typed, TypeOK, Flags, Ranges
<1>1. ASSUME NEW line, PassEvent(line) PROVE Typed'
  <2>1. PICK mounted \in BOOLEAN :
          Deal(IF mounted /\ cur # MUSIC THEN "SD" ELSE "NONE", line, queue, TRUE)
    BY <1>1 DEF PassEvent
  <2>2. pc = "loop" /\ target # Crash
    BY <1>1 DEF PassEvent, Running
  <2>3. IsQueue(queue') /\ target' \in Targets /\ strayed' \in BOOLEAN /\ (strayed' => Open)
        /\ pc' \in {"loop", "stopping"}
        /\ mask' = (IF cur = BT THEN call ELSE mask)
    BY <1>0, <2>1, <2>2, DealResult
  <2> QED BY <1>1, <2>3 DEF PassEvent, stack, IsQueue
<1>2. ASSUME NEW line, PassMsg(line) PROVE Typed'
  <2>1. IsQueue(Tail(queue)) /\ pc = "loop" /\ target # Crash /\ Head(queue) \in Messages
    BY <1>0, <1>2, TailTyped, HeadTyped DEF PassMsg, Running
  <2>2. IsQueue(queue') /\ target' \in Targets /\ strayed' \in BOOLEAN /\ (strayed' => Open)
        /\ pc' \in {"loop", "stopping"}
        /\ mask' = (IF cur = BT THEN call ELSE mask)
    BY <1>0, <1>2, <2>1, DealResult DEF PassMsg
  <2> QED BY <1>2, <2>2 DEF PassMsg, stack, IsQueue
<1>3. ASSUME NEW line, PassNone(line) PROVE Typed'
  <2>1. pc = "loop" /\ target # Crash
    BY <1>3 DEF PassNone, Running
  <2>2. IsQueue(queue') /\ target' \in Targets /\ strayed' \in BOOLEAN /\ (strayed' => Open)
        /\ pc' \in {"loop", "stopping"}
        /\ mask' = (IF cur = BT THEN call ELSE mask)
    BY <1>0, <1>3, <2>1, DealResult DEF PassNone
  <2> QED BY <1>3, <2>2 DEF PassNone, stack, IsQueue
<1>4. CASE StackStarts
  BY <1>4 DEF StackStarts, manager
<1>5. ASSUME NEW line, Stop(line) PROVE Typed'
  <2>1. target # Crash /\ IsQueue(queue')
    BY <1>0, <1>5, LineQueueTyped DEF Stop
  <2>2. PICK a \in LineTargets(line, mask, Aimed) : Takes(a)
    BY <1>5 DEF Stop
  <2>3. target' \in Targets /\ strayed' \in BOOLEAN /\ (strayed' => Open)
    BY <2>1, <2>2, AimedTyped, LineTargetsTyped DEF Takes, IsAim
  <2> QED BY <1>5, <2>1, <2>3 DEF Stop, stack, IsQueue
<1>6. ASSUME NEW line, MusicFails(line) PROVE Typed'
  <2>1. IsQueue(queue')
    BY <1>0, <1>6, LineQueueTyped DEF MusicFails
  <2>2. target' \in Targets /\ strayed' \in BOOLEAN /\ (strayed' => Open)
    BY <1>0, <1>6, MusicTakes DEF IsAim, Takes
  <2> QED BY <1>6, <2>1, <2>2 DEF MusicFails, stack, IsQueue
<1>7. CASE Suspend
  BY <1>7 DEF Suspend, manager
<1>8. CASE Leave
  BY <1>8, EmptyQueue DEF Leave, stack
<1>9. CASE Enter
  <2> HIDE DEF Flags, Ranges
  <2>1. target \in Ids
    BY <1>9 DEF Enter, Ranges
  <2>2. Flags'
    BY <1>9 DEF Enter, Flags
  <2>3. Ranges'
    BY <1>9, <2>1 DEF Enter, Ranges, Targets
  <2>4. (strayed => Open)'
    BY <1>9 DEF Enter
  <2> QED BY <2>2, <2>3, <2>4
<1>10. CASE Watchdog
  <2> HIDE DEF Flags, Ranges
  <2>1. BT \in Ids
    BY TaskAssumption DEF Ids
  <2>2. Flags'
    BY <1>10 DEF Watchdog, Flags
  <2>3. Ranges'
    BY <1>10, <2>1, EmptyQueue DEF Watchdog, Ranges, Targets
  <2>4. (strayed => Open)'
    BY <1>10 DEF Watchdog
  <2> QED BY <2>2, <2>3, <2>4
<1>11. ASSUME NEW m \in Keys, Key(m) PROVE Typed'
  <2>1. IsQueue(queue')
    BY <1>0, <1>11, PostTyped, TaskAssumption DEF Key, Messages
  <2> QED BY <1>11, <2>1 DEF Key, stack, manager, IsQueue
<1>12. CASE Plug \/ Unplug
  <2> HIDE DEF Flags, Ranges
  <2>1. Flags'
    BY <1>12 DEF Plug, Unplug, stack, manager, Flags
  <2>2. Ranges'
    BY <1>12 DEF Plug, Unplug, stack, manager, Ranges
  <2>3. (strayed => Open)'
    BY <1>12 DEF Plug, Unplug, manager
  <2> QED BY <2>1, <2>2, <2>3
<1>13. CASE CallChanges \/ Connected
  <2> HIDE DEF Flags, Ranges
  <2>1. Flags'
    BY <1>13 DEF CallChanges, Connected, manager, Flags
  <2>2. Ranges'
    BY <1>13 DEF CallChanges, Connected, manager, Ranges
  <2>3. (strayed => Open)'
    BY <1>13 DEF CallChanges, Connected, manager
  <2> QED BY <2>1, <2>2, <2>3
<1>14. ASSUME NEW flag \in BOOLEAN, BackgroundResume(flag) PROVE Typed'
  <2>1. IsQueue(queue')
    BY <1>0, <1>14, PostTyped DEF BackgroundResume, Messages
  <2> HIDE DEF Flags, Ranges
  <2>2. Flags'
    BY <1>14 DEF BackgroundResume, manager, Flags
  <2>3. Ranges'
    BY <1>14, <2>1 DEF BackgroundResume, manager, Ranges, IsQueue
  <2>4. (strayed => Open)'
    BY <1>14 DEF BackgroundResume, manager
  <2> QED BY <2>2, <2>3, <2>4
<1>15. CASE AutoSuspend
  <2>1. IsQueue(queue')
    BY <1>0, <1>15, PostTyped DEF AutoSuspend, Messages
  <2> HIDE DEF Flags, Ranges
  <2>2. Flags'
    BY <1>15 DEF AutoSuspend, manager, Flags
  <2>3. Ranges'
    BY <1>15, <2>1 DEF AutoSuspend, manager, Ranges, IsQueue
  <2>4. (strayed => Open)'
    BY <1>15 DEF AutoSuspend, manager
  <2> QED BY <2>2, <2>3, <2>4
<1>16. CASE UNCHANGED vars
  BY <1>16 DEF vars, stack, manager
<1> QED
  BY <1>1, <1>2, <1>3, <1>4, <1>5, <1>6, <1>7, <1>8, <1>9, <1>10, <1>11, <1>12,
     <1>13, <1>14, <1>15, <1>16
     DEF Next, Pass, Leaving, Manage, Interrupt

\* Every variable keeps its range for every task list and ring size.
THEOREM TypeCorrect == Spec => []TypeOK
<1>1. Typed => TypeOK
  BY DEF Typed
<1> QED BY <1>1, InitTyped, StepTyped, PTL DEF Spec

-----------------------------------------------------------------------------
(***************************************************************************)
(* The switch mask and the target.  Both facts need each other: MusicFails *)
(* finds a target because no mask is set outside Bluetooth.                *)
(***************************************************************************)
MaskInv == MaskOnlyInBt /\ (mask => target # Crash) /\ (pc # "loop" => target \in Ids \/ strayed)

LEMMA InitMask == Init => MaskInv
BY TaskAssumption DEF Init, MaskInv, MaskOnlyInBt, Ids

LEMMA DealMask ==
  ASSUME Typed, MaskInv, pc = "loop", target # Crash, cur' = cur,
         NEW msg \in Messages \union {"NONE", "SD"}, NEW line, NEW q, IsQueue(q),
         NEW ok \in BOOLEAN, Deal(msg, line, q, ok)
  PROVE  MaskInv'
BY DealResult DEF MaskInv, MaskOnlyInBt

LEMMA StepMask == Typed /\ MaskInv /\ [Next]_vars => MaskInv'
<1> SUFFICES ASSUME Typed, MaskInv, [Next]_vars
             PROVE  MaskInv'
  OBVIOUS
<1>0. IsQueue(queue) /\ storage \in BOOLEAN /\ MUSIC # BT
  BY TaskAssumption DEF Typed, TypeOK, Flags, Ranges, IsQueue
<1> USE DEF MaskInv, MaskOnlyInBt
<1>1. ASSUME NEW line, PassEvent(line) PROVE MaskInv'
  <2>1. PICK mounted \in BOOLEAN :
          Deal(IF mounted /\ cur # MUSIC THEN "SD" ELSE "NONE", line, queue, TRUE)
    BY <1>1 DEF PassEvent
  <2>2. pc = "loop" /\ target # Crash /\ cur' = cur
    BY <1>1 DEF PassEvent, Running
  <2> QED BY <1>0, <2>1, <2>2, DealMask
<1>2. ASSUME NEW line, PassMsg(line) PROVE MaskInv'
  <2>1. pc = "loop" /\ target # Crash /\ cur' = cur /\ IsQueue(Tail(queue))
        /\ Head(queue) \in Messages /\ Deal(Head(queue), line, Tail(queue), storage)
    BY <1>0, <1>2, TailTyped, HeadTyped DEF PassMsg, Running
  <2> QED BY <1>0, <2>1, DealMask
<1>3. ASSUME NEW line, PassNone(line) PROVE MaskInv'
  <2>1. pc = "loop" /\ target # Crash /\ cur' = cur
        /\ Deal("NONE", line, queue, storage)
    BY <1>3 DEF PassNone, Running
  <2> QED BY <1>0, <2>1, DealMask
<1>4. CASE StackStarts
  BY <1>4 DEF StackStarts, manager
<1>5. ASSUME NEW line, Stop(line) PROVE MaskInv'
  <2>1. target # Crash /\ ~mask /\ (target \in Ids \/ strayed)
    BY <1>5 DEF Stop
  <2>2. PICK a \in LineTargets(line, mask, Aimed) : Takes(a)
    BY <1>5 DEF Stop
  <2>3. target' \in Ids \/ strayed'
    BY <2>1, <2>2, AimedTyped, LineTargetsTyped DEF Takes, Typed
  <2> QED BY <1>5, <2>1, <2>3 DEF Stop
<1>6. ASSUME NEW line, MusicFails(line) PROVE MaskInv'
  <2>1. ~mask
    BY <1>0, <1>6 DEF MusicFails
  <2>2. target' \in Ids \/ strayed'
    BY <1>6, <2>1, MusicTakes DEF Takes
  <2> QED BY <1>6, <2>1, <2>2 DEF MusicFails
<1>7. CASE Suspend
  BY <1>0, <1>7 DEF Suspend, manager
<1>8. CASE Leave
  BY <1>8 DEF Leave
<1>9. CASE Enter
  BY <1>9 DEF Enter
<1>10. CASE Watchdog
  BY <1>10, TaskAssumption DEF Watchdog, Ids
<1>11. CASE Interrupt
  BY <1>11 DEF Interrupt, Key, Plug, Unplug, CallChanges, BackgroundResume,
               AutoSuspend, Connected, manager
<1>12. CASE UNCHANGED vars
  BY <1>12 DEF vars, manager
<1> QED
  BY <1>1, <1>2, <1>3, <1>4, <1>5, <1>6, <1>7, <1>8, <1>9, <1>10, <1>11, <1>12
     DEF Next, Pass, Leaving, Manage

\* For every task list: the mask of a call never reaches another task.
THEOREM MaskStaysInBt == Spec => []MaskOnlyInBt
<1>1. Init => Typed /\ MaskInv
  BY InitTyped, InitMask
<1>2. Typed /\ MaskInv /\ [Next]_vars => (Typed /\ MaskInv)'
  BY StepTyped, StepMask
<1>3. Typed /\ MaskInv => MaskOnlyInBt
  BY DEF MaskInv
<1> QED BY <1>1, <1>2, <1>3, PTL DEF Spec

\* For every task list: task_manager finds an id without a task only after a
\* walk that ran off the list, whether or not the task that returned looked at
\* task_switch's answer.
THEOREM TargetAlwaysKnown == Spec => []TargetKnown
<1>1. Init => Typed /\ MaskInv
  BY InitTyped, InitMask
<1>2. Typed /\ MaskInv /\ [Next]_vars => (Typed /\ MaskInv)'
  BY StepTyped, StepMask
<1>3. Typed /\ MaskInv => TargetKnown
  BY DEF Typed, MaskInv, TargetKnown
<1> QED BY <1>1, <1>2, <1>3, PTL DEF Spec

\* With a list that no walk runs off, as the default one is with IDLE registered,
\* task_manager always finds a task: the walk is all that can make it spin.
THEOREM ClosedListKnown ==
  ASSUME ~Open
  PROVE  Spec => [](pc # "loop" => target \in Ids)
<1>1. TargetKnown => (pc # "loop" => target \in Ids)
  BY DEF TargetKnown
<1> QED BY <1>1, TargetAlwaysKnown, PTL

\* For every task list: a call the loop has seen pins the task.
THEOREM CallPinsTask == Spec => CallStaysInBt
<1>1. Init => Typed /\ MaskInv
  BY InitTyped, InitMask
<1>2. Typed /\ MaskInv /\ [Next]_vars => (Typed /\ MaskInv)'
  BY StepTyped, StepMask
<1>3. ASSUME Typed, MaskInv, [Next]_vars, mask, call
      PROVE  UNCHANGED <<pc, cur, target>>
  <2>0. cur = BT /\ pc = "loop" /\ target # Crash /\ MUSIC # BT /\ IsQueue(queue)
        /\ storage \in BOOLEAN
    BY <1>3, TaskAssumption DEF MaskInv, MaskOnlyInBt, Typed, TypeOK, Flags, Ranges, IsQueue
  <2>1. ASSUME NEW line, PassEvent(line) PROVE UNCHANGED <<pc, cur, target>>
    <3>1. PICK mounted \in BOOLEAN :
            Deal(IF mounted /\ cur # MUSIC THEN "SD" ELSE "NONE", line, queue, TRUE)
      BY <2>1 DEF PassEvent
    <3> QED BY <1>3, <2>0, <2>1, <3>1, DealResult DEF PassEvent
  <2>2. ASSUME NEW line, PassMsg(line) PROVE UNCHANGED <<pc, cur, target>>
    <3>1. /\ IsQueue(Tail(queue)) /\ Head(queue) \in Messages
          /\ Deal(Head(queue), line, Tail(queue), storage)
      BY <2>0, <2>2, TailTyped, HeadTyped DEF PassMsg
    <3> QED BY <1>3, <2>0, <2>2, <3>1, DealResult DEF PassMsg
  <2>3. ASSUME NEW line, PassNone(line) PROVE UNCHANGED <<pc, cur, target>>
    BY <1>3, <2>0, <2>3, DealResult DEF PassNone
  <2>4. ASSUME Interrupt \/ StackStarts \/ UNCHANGED vars PROVE UNCHANGED <<pc, cur, target>>
    BY <2>4 DEF Interrupt, Key, Plug, Unplug, CallChanges, BackgroundResume,
                AutoSuspend, Connected, StackStarts, manager, vars
  <2>5. /\ \A line : ~Stop(line) /\ ~MusicFails(line)
        /\ ~Manage /\ ~Watchdog
    BY <2>0 DEF Stop, MusicFails, Manage, Suspend, Leave, Enter, Watchdog
  <2> QED BY <1>3, <2>1, <2>2, <2>3, <2>4, <2>5 DEF Next, Pass, Leaving
<1>4. Typed /\ MaskInv /\ [Next]_vars => [mask /\ call => UNCHANGED <<pc, cur, target>>]_vars
  BY <1>3
<1> QED BY <1>1, <1>2, <1>4, PTL DEF Spec, CallStaysInBt

-----------------------------------------------------------------------------
(***************************************************************************)
(* The stack in the background.  BackgroundMatches speaks of the loop; the *)
(* induction needs to know the stack's place in the steps of task_manager, *)
(* where cur still names the task that left.                               *)
(***************************************************************************)
Between == pc \in {"suspended", "entering"}

BackInv ==
  /\ back <=> bt = "suspend"
  /\ resume => back
  /\ Between \/ cur # BT => (back <=> bt # "waiting")
  /\ ~Between /\ cur = BT => ~back

LEMMA StepBack == Typed /\ MaskInv /\ BackInv /\ [Next]_vars => BackInv'
<1> SUFFICES ASSUME Typed, MaskInv, BackInv, [Next]_vars
             PROVE  BackInv'
  OBVIOUS
<1>0. IsQueue(queue) /\ storage \in BOOLEAN /\ Unactive # BT
  BY TaskAssumption DEF Typed, TypeOK, Flags, Ranges, IsQueue, Ids
<1> USE DEF BackInv, Between
<1>1. ASSUME NEW line, PassEvent(line) PROVE BackInv'
  <2>1. PICK mounted \in BOOLEAN :
          Deal(IF mounted /\ cur # MUSIC THEN "SD" ELSE "NONE", line, queue, TRUE)
    BY <1>1 DEF PassEvent
  <2>2. pc = "loop" /\ pc' \in {"loop", "stopping"}
    BY <1>0, <1>1, <2>1, DealResult DEF PassEvent, Running
  <2> QED BY <1>1, <2>2 DEF PassEvent, stack
<1>2. ASSUME NEW line, PassMsg(line) PROVE BackInv'
  <2>1. /\ pc = "loop" /\ target # Crash /\ IsQueue(Tail(queue)) /\ Head(queue) \in Messages
        /\ Deal(Head(queue), line, Tail(queue), storage)
    BY <1>0, <1>2, TailTyped, HeadTyped DEF PassMsg, Running
  <2>2. pc' \in {"loop", "stopping"}
    BY <1>0, <2>1, DealResult
  <2> QED BY <1>2, <2>1, <2>2 DEF PassMsg, stack
<1>3. ASSUME NEW line, PassNone(line) PROVE BackInv'
  <2>1. pc = "loop" /\ pc' \in {"loop", "stopping"}
    <3>1. pc = "loop" /\ target # Crash /\ Deal("NONE", line, queue, storage)
      BY <1>3 DEF PassNone, Running
    <3> QED BY <1>0, <3>1, DealResult
  <2> QED BY <1>3, <2>1 DEF PassNone, stack
<1>4. CASE StackStarts
  BY <1>4 DEF StackStarts, Running, manager
<1>5. ASSUME NEW line, Stop(line) \/ MusicFails(line) PROVE BackInv'
  BY <1>5 DEF Stop, MusicFails, Running, stack
<1>6. CASE Suspend
  BY <1>6 DEF Suspend, manager
<1>7. CASE Leave
  BY <1>7 DEF Leave, stack
<1>8. CASE Enter
  BY <1>8 DEF Enter
<1>9. CASE Watchdog
  BY <1>0, <1>9 DEF Watchdog
<1>10. CASE Interrupt
  BY <1>10 DEF Interrupt, Key, Plug, Unplug, CallChanges, BackgroundResume,
               AutoSuspend, Connected, manager, stack
<1>11. CASE UNCHANGED vars
  BY <1>11 DEF vars, manager, stack
<1> QED
  BY <1>1, <1>2, <1>3, <1>4, <1>5, <1>6, <1>7, <1>8, <1>9, <1>10, <1>11
     DEF Next, Pass, Leaving, Manage

\* For every task list: the stack is in the background exactly while another
\* task's loop runs.
THEOREM BackgroundAlwaysMatches == Spec => []BackgroundMatches
<1>1. Init => Typed /\ MaskInv /\ BackInv
  <2>1. Unactive # BT
    BY TaskAssumption DEF Ids
  <2> QED BY <2>1, InitTyped, InitMask DEF Init, BackInv, Between
<1>2. Typed /\ MaskInv /\ BackInv /\ [Next]_vars => (Typed /\ MaskInv /\ BackInv)'
  BY StepTyped, StepMask, StepBack
<1>3. Typed /\ MaskInv /\ BackInv => BackgroundMatches
  BY DEF BackInv, Between, BackgroundMatches, Typed, TypeOK, Flags
<1> QED BY <1>1, <1>2, <1>3, PTL DEF Spec
=============================================================================
