--------------------------- MODULE HotPlugProofs ---------------------------
(***************************************************************************)
(* For every set of devices and every ring: what the hot-plug events say   *)
(* about the partition tables, the mounts and the running task.            *)
(***************************************************************************)
EXTENDS HotPlug, SequenceTheorems, TLAPS

-----------------------------------------------------------------------------
(***************************************************************************)
(* Types.                                                                  *)
(***************************************************************************)
Players == [started : BOOLEAN, wait : BOOLEAN, dev : Devices \union {None},
            st : {"play", "pause", "stop"}, live : BOOLEAN]
IsQueue(q) == q \in Seq(Messages) /\ Len(q) <= QueueMax

LEMMA EmptyQueue == IsQueue(<<>>)
BY HotPlugAssumption, EmptySeq DEF IsQueue

LEMMA AppendTyped ==
  ASSUME NEW q, IsQueue(q), Len(q) < QueueMax, NEW x \in Messages
  PROVE  IsQueue(Append(q, x))
<1>1. Len(q) \in Nat /\ QueueMax \in Nat
  BY HotPlugAssumption, LenProperties DEF IsQueue
<1>2. Append(q, x) \in Seq(Messages) /\ Len(Append(q, x)) = Len(q) + 1
  BY AppendProperties DEF IsQueue
<1> QED BY <1>1, <1>2 DEF IsQueue

LEMMA PostTyped ==
  ASSUME NEW q, IsQueue(q), NEW x \in Messages
  PROVE  IsQueue(Post(q, x))
BY AppendTyped DEF Post

LEMMA HeadTailTyped ==
  ASSUME NEW q, IsQueue(q), q # <<>>
  PROVE  IsQueue(Tail(q)) /\ Head(q) \in Messages
<1>1. Len(q) \in Nat /\ QueueMax \in Nat
  BY HotPlugAssumption, LenProperties DEF IsQueue
<1>2. Tail(q) \in Seq(Messages) /\ Len(Tail(q)) = Len(q) - 1 /\ Head(q) \in Messages
  BY HeadTailProperties DEF IsQueue
<1> QED BY <1>1, <1>2 DEF IsQueue

LEMMA SilentTyped == \A d \in Devices \union {None} : Silent(d) \in Players
BY DEF Silent, Players

LEMMA PlayFromTyped ==
  ASSUME NEW d \in Devices \union {None}, dpt \subseteq Devices, NEW ok \in BOOLEAN,
         PlayFrom(d, dpt, ok)
  PROVE  dpt' \subseteq Devices /\ music' \in Players
<1>1. PICK good \in SUBSET dpt :
        /\ dpt' = good
        /\ IF ok THEN \E e \in good \cap Playable :
                        music' = [started |-> TRUE, wait |-> FALSE, dev |-> e,
                                  st |-> "play", live |-> TRUE]
           ELSE music' = [started |-> TRUE, wait |-> FALSE, dev |-> d,
                          st |-> "stop", live |-> FALSE]
  BY DEF PlayFrom
<1>2. CASE ok
  <2>1. PICK e \in Devices : music' = [started |-> TRUE, wait |-> FALSE, dev |-> e,
                                       st |-> "play", live |-> TRUE]
    BY <1>1, <1>2
  <2> QED BY <1>1, <2>1 DEF Players
<1>3. CASE ~ok
  <2>1. music' = [started |-> TRUE, wait |-> FALSE, dev |-> d, st |-> "stop", live |-> FALSE]
    BY <1>1, <1>3
  <2> QED BY <1>1, <2>1 DEF Players
<1> QED BY <1>2, <1>3

LEMMA MusicStartTyped ==
  ASSUME NEW d \in Devices \union {None}, NEW q, IsQueue(q), dpt \subseteq Devices,
         tone \in {"none", "playing", "dead"}, MusicStart(d, q)
  PROVE  /\ dpt' \subseteq Devices /\ music' \in Players /\ IsQueue(queue')
         /\ tone' \in {"none", "playing", "dead"}
<1>1. CASE tone = "none"
  <2>1. PICK ok \in BOOLEAN : PlayFrom(d, dpt, ok) /\ queue' = IF ok THEN q ELSE Post(q, "CHANGE")
    BY <1>1 DEF MusicStart
  <2>2. IsQueue(queue')
    BY <2>1, PostTyped DEF Messages
  <2> QED BY <1>1, <2>1, <2>2, PlayFromTyped DEF MusicStart
<1>2. CASE tone # "none"
  <2>1. music' \in Players
    BY <1>2 DEF MusicStart, Silent, Players
  <2> QED BY <1>2, <2>1 DEF MusicStart
<1> QED BY <1>1, <1>2

LEMMA EnterTyped ==
  ASSUME NEW d \in Devices \union {None}, EnterMusic(d) \/ EnterBt
  PROVE  /\ cur' \in {"BT", "MUSIC"} /\ IsQueue(queue') /\ music' \in Players
         /\ tone' \in {"none", "playing", "dead"}
BY EmptyQueue, SilentTyped DEF EnterMusic, EnterBt

LEMMA InitTyped == Init => TypeOK
<1> SUFFICES ASSUME Init PROVE TypeOK
  OBVIOUS
<1>1. IsQueue(queue)
  BY EmptyQueue DEF Init
<1>2. music \in Players
  BY SilentTyped DEF Init
<1> QED BY <1>1, <1>2 DEF Init, TypeOK, IsQueue, Players

LEMMA StepTyped == TypeOK /\ [Next]_vars => TypeOK'
<1> SUFFICES ASSUME TypeOK, [Next]_vars
             PROVE  TypeOK'
  OBVIOUS
<1>0. IsQueue(queue) /\ music \in Players /\ music.dev \in Devices \union {None}
  BY DEF TypeOK, IsQueue, Players
<1> USE DEF TypeOK
<1>1. ASSUME NEW d \in Devices, Plug(d) \/ Unplug(d) PROVE TypeOK'
  BY <1>1, HotPlugAssumption DEF Plug, Unplug, table
<1>2. CASE Detect
  <2>1. PICK seen \in SUBSET ((plugged \ online) \union (online \ plugged)) :
          /\ online' = (online \ seen) \union (seen \cap plugged)
          /\ events' = events \union UNION {Posted(d) : d \in seen}
          /\ owed' = (owed \ seen) \union {d \in seen \cap plugged : <<"off", d>> \notin events}
    BY <1>2 DEF Detect
  <2>2. \A d \in Devices : Posted(d) \subseteq Events
    BY DEF Posted, Events
  <2>3. events' \subseteq Events
    BY <2>1, <2>2
  <2>4. online' \subseteq Devices /\ owed' \subseteq online'
    BY <2>1
  <2> QED BY <1>2, <2>3, <2>4 DEF Detect, table
<1>3. ASSUME NEW m \in Messages, Key(m) PROVE TypeOK'
  <2>1. Len(queue) < QueueMax
    <3>1. Len(queue) \in Nat
      BY <1>0, LenProperties DEF IsQueue
    <3> QED BY <1>3, <3>1, HotPlugAssumption DEF Key
  <2>2. IsQueue(queue')
    BY <1>0, <1>3, <2>1, AppendTyped DEF Key
  <2> QED BY <1>3, <2>2 DEF Key, hardware, table, IsQueue
<1>4. ASSUME NEW said, ToneEnds(said) PROVE TypeOK'
  <2>1. IsQueue(queue')
    BY <1>0, <1>4, PostTyped DEF ToneEnds, Messages
  <2> QED BY <1>4, <2>1 DEF ToneEnds, hardware, table, IsQueue
<1>5. CASE DecodeEnds
  <2>1. IsQueue(queue')
    BY <1>0, <1>5, PostTyped DEF DecodeEnds, ErrMsg, Messages
  <2>2. music' \in Players
    BY <1>0, <1>5 DEF DecodeEnds, Players
  <2> QED BY <1>5, <2>1, <2>2 DEF DecodeEnds, hardware, table, IsQueue, Players
<1>6. CASE GetEvent
  <2>1. due' \in BOOLEAN
    BY <1>6 DEF GetEvent, Due
  <2> QED BY <1>6, <2>1 DEF GetEvent, hardware, table
<1>7. CASE GetMsg
  <2>2. due' \in BOOLEAN
    BY <1>7 DEF GetMsg, Due
  <2>1. IsQueue(queue') /\ Head(queue) \in Messages
    BY <1>0, <1>7, HeadTailTyped DEF GetMsg
  <2> QED BY <1>7, <2>1, <2>2 DEF GetMsg, hardware, table, IsQueue
<1>8. ASSUME NEW d \in Devices, DealOn(d) PROVE TypeOK'
  <2>1. IsQueue(queue') /\ music' \in Players /\ cur' \in {"BT", "MUSIC"}
        /\ tone' \in {"none", "playing", "dead"}
    BY <1>0, <1>8, EnterTyped DEF DealOn, Mounted
  <2>2. events' \subseteq Events
    BY <1>8 DEF DealOn, Mounted, Events
  <2>3. dpt' \subseteq Devices /\ left' \subseteq dpt'
    BY <1>8 DEF DealOn, table
  <2> QED BY <1>8, <2>1, <2>2, <2>3 DEF DealOn, IsQueue, Players, Nothing
<1>9. ASSUME NEW d \in Devices, DealOff(d) PROVE TypeOK'
  <2>1. IsQueue(queue')
    BY <1>0, <1>9, PostTyped DEF DealOff, AfterOff, Messages
  <2> QED BY <1>9, <2>1 DEF DealOff, hardware, IsQueue
<1>10. ASSUME NEW d \in Devices, DealSucc(d) PROVE TypeOK'
  <2>1. IsQueue(queue') /\ music' \in Players /\ tone' \in {"none", "playing", "dead"}
        /\ dpt' \subseteq Devices
    BY <1>0, <1>10, MusicStartTyped DEF DealSucc
  <2> QED BY <1>10, <2>1 DEF DealSucc, hardware, IsQueue, Players
<1>11. CASE DealStart
  <2>1. IsQueue(queue') /\ music' \in Players /\ tone' \in {"none", "playing", "dead"}
        /\ dpt' \subseteq Devices
    BY <1>0, <1>11, MusicStartTyped DEF DealStart
  <2> QED BY <1>11, <2>1 DEF DealStart, hardware, IsQueue, Players
<1>12. CASE DealErr
  <2>1. IsQueue(queue') /\ music' \in Players /\ tone' \in {"none", "playing", "dead"}
        /\ dpt' \subseteq Devices /\ cur' \in {"BT", "MUSIC"}
    BY <1>0, <1>12, PlayFromTyped, EnterTyped DEF DealErr
  <2> QED BY <1>12, <2>1 DEF DealErr, hardware, IsQueue, Players
<1>13. CASE DealPp
  <2>1. music' \in Players
    BY <1>0, <1>13 DEF DealPp, Players
  <2> QED BY <1>13, <2>1 DEF DealPp, hardware, table, Players
<1>14. CASE DealChange
  <2>1. IsQueue(queue') /\ music' \in Players /\ tone' \in {"none", "playing", "dead"}
        /\ cur' \in {"BT", "MUSIC"}
    BY <1>0, <1>14, EnterTyped DEF DealChange
  <2> QED BY <1>14, <2>1 DEF DealChange, hardware, table, IsQueue, Players
<1>15. CASE Schedule
  <2>1. IsQueue(queue') /\ music' \in Players /\ tone' \in {"none", "playing", "dead"}
        /\ dpt' \subseteq Devices
    BY <1>0, <1>15, MusicStartTyped DEF Schedule
  <2> QED BY <1>15, <2>1 DEF Schedule, hardware, IsQueue, Players
<1>16. CASE UNCHANGED vars
  BY <1>16 DEF vars, hardware, table
<1> QED
  <2>1. "CHANGE" \in Messages /\ "PP" \in Messages
    BY DEF Messages
  <2> HIDE DEF TypeOK
  <2> QED BY <2>1, <1>1, <1>2, <1>3, <1>4, <1>5, <1>6, <1>7, <1>8, <1>9, <1>10,
             <1>11, <1>12, <1>13, <1>14, <1>15, <1>16
          DEF Next, Get, Deal, Interrupt

\* Every variable keeps its range, for any devices and any ring size.
THEOREM TypeCorrect == Spec => []TypeOK
<1>1. Init => TypeOK
  BY InitTyped
<1>2. TypeOK /\ [Next]_vars => TypeOK'
  BY StepTyped
<1> QED BY <1>1, <1>2, PTL DEF Spec
-----------------------------------------------------------------------------
(***************************************************************************)
(* Mounts.  NotForgotten is inductive: an ONLINE is owed from the moment   *)
(* Detect posts it, and GetEvent and DealOn only move it on.               *)
(***************************************************************************)
\* The player does not touch the hot-plug events.
LEMMA OthersLeaveHotPlug ==
  ASSUME [Next]_vars, ~Detect, ~GetEvent, \A d \in Devices : ~DealOn(d)
  PROVE  owed' = owed /\ online' = online /\ events' = events
BY DEF Next, Get, Deal, Interrupt, Plug, Unplug, Key, ToneEnds, DecodeEnds, GetMsg,
       DealOff, DealSucc, DealStart, DealErr, DealPp, DealChange, Schedule,
       hardware, vars

\* Only a pass lets go of what it holds.
LEMMA HandLeaves ==
  ASSUME [Next]_vars, NEW e \in Events, hand = e,
         \A d \in Devices : ~DealOn(d) /\ ~DealOff(d) /\ ~DealSucc(d)
  PROVE  hand' = e
<1>1. e # Nothing /\ \A m : e # <<m, None>>
  BY HotPlugAssumption DEF Events, Nothing
<1> QED BY <1>1
        DEF Next, Get, Deal, Interrupt, Detect, Plug, Unplug, Key, ToneEnds, DecodeEnds,
            GetEvent, GetMsg, Ready, DealStart, DealErr, DealPp, DealChange, Schedule, vars

LEMMA StepOwed == TypeOK /\ NotForgotten /\ [Next]_vars => NotForgotten'
<1> SUFFICES ASSUME TypeOK, NotForgotten, [Next]_vars, NEW d \in Devices, d \in owed'
             PROVE  <<"on", d>> \in events' \/ hand' = <<"on", d>>
  BY StepTyped DEF NotForgotten, TypeOK
<1>0. <<"on", d>> \in Events
  BY DEF Events
<1>1. CASE Detect
  <2>1. PICK seen \in SUBSET ((plugged \ online) \union (online \ plugged)) :
          /\ events' = events \union UNION {Posted(f) : f \in seen}
          /\ owed' = (owed \ seen) \union {f \in seen \cap plugged : <<"off", f>> \notin events}
    BY <1>1 DEF Detect
  <2>2. CASE d \in seen
    <3>1. d \in plugged /\ ~Refused(d)
      BY <2>1, <2>2 DEF Refused
    <3> QED BY <2>1, <2>2, <3>1 DEF Posted
  <2>3. CASE d \notin seen
    BY <1>1, <2>1, <2>3 DEF NotForgotten, Detect
  <2> QED BY <2>2, <2>3
<1>2. CASE GetEvent
  <2>1. d \in owed
    BY <1>2 DEF GetEvent, hardware
  <2>2. hand # <<"on", d>>
    BY <1>2 DEF GetEvent, Ready, Nothing
  <2> QED BY <1>2, <2>1, <2>2 DEF GetEvent, NotForgotten
<1>3. ASSUME NEW f \in Devices, DealOn(f) PROVE <<"on", d>> \in events'
  <2>1. d \in owed /\ d # f /\ events \subseteq events'
    BY <1>3 DEF DealOn, Mounted
  <2>2. hand # <<"on", d>>
    BY <1>3, <2>1 DEF DealOn
  <2> QED BY <2>1, <2>2 DEF NotForgotten
<1>4. CASE ~Detect /\ ~GetEvent /\ \A f \in Devices : ~DealOn(f)
  <2>1. d \in owed /\ events' = events
    BY <1>4, OthersLeaveHotPlug
  <2>2. CASE hand = <<"on", d>>
    <3>1. \A f \in Devices : ~DealOn(f) /\ ~DealOff(f) /\ ~DealSucc(f)
      BY <1>4, <2>2 DEF DealOff, DealSucc
    <3> QED BY <1>0, <2>2, <3>1, HandLeaves
  <2>3. CASE hand # <<"on", d>>
    BY <2>1, <2>3 DEF NotForgotten
  <2> QED BY <2>2, <2>3
<1> QED BY <1>1, <1>2, <1>3, <1>4

\* For any devices: an ONLINE that was posted reaches the pass that mounts.
THEOREM OnlineServed == Spec => []NotForgotten
<1>1. Init => TypeOK /\ NotForgotten
  BY InitTyped DEF Init, NotForgotten
<1>2. TypeOK /\ NotForgotten /\ [Next]_vars => (TypeOK /\ NotForgotten)'
  BY StepTyped, StepOwed
<1> QED BY <1>1, <1>2, PTL DEF Spec

-----------------------------------------------------------------------------
(***************************************************************************)
(* Tables.  TableFollows needs to know of the two ways to a table apart:   *)
(* an ONLINE still on its way is always followed by the OFFLINE, which the *)
(* numbering of the events keeps behind it.                                *)
(***************************************************************************)
OnBeforeOff ==
  \A d \in Devices \ online :
    <<"on", d>> \in events \/ hand = <<"on", d>> => <<"off", d>> \in events
TableUndone ==
  \A d \in dpt \ online : <<"off", d>> \in events \/ hand = <<"off", d>> \/ d \in left
TableInv == OnBeforeOff /\ TableUndone

LEMMA StepOnBeforeOff ==
  TypeOK /\ OnBeforeOff /\ [Next]_vars => OnBeforeOff'
<1> SUFFICES ASSUME TypeOK, OnBeforeOff, [Next]_vars, NEW d \in Devices, d \notin online',
                    <<"on", d>> \in events' \/ hand' = <<"on", d>>
             PROVE  <<"off", d>> \in events'
  BY DEF OnBeforeOff
<1>1. CASE Detect
  <2>1. PICK seen \in SUBSET ((plugged \ online) \union (online \ plugged)) :
          /\ online' = (online \ seen) \union (seen \cap plugged)
          /\ events' = events \union UNION {Posted(f) : f \in seen}
    BY <1>1 DEF Detect
  <2>2. CASE d \in seen
    BY <2>1, <2>2 DEF Posted
  <2>3. CASE d \notin seen
    <3>1. d \notin online
      BY <2>1, <2>3
    <3>2. <<"on", d>> \in events \/ hand = <<"on", d>>
      <4>1. \A f \in seen : <<"on", d>> \notin Posted(f)
        BY <2>3 DEF Posted
      <4> QED BY <1>1, <2>1, <4>1 DEF Detect
    <3> QED BY <2>1, <3>1, <3>2 DEF OnBeforeOff
  <2> QED BY <2>2, <2>3
<1>2. CASE GetEvent
  <2>1. PICK e \in events : First(e) /\ events' = events \ {e} /\ hand' = e
    BY <1>2 DEF GetEvent
  <2>2. <<"on", d>> \in events /\ d \notin online
    BY <1>2, <2>1 DEF GetEvent, hardware
  <2>3. <<"off", d>> \in events
    BY <2>2 DEF OnBeforeOff
  <2>4. e # <<"off", d>>
    <3>1. No[<<"on", d>>] < No[<<"off", d>>]
      BY HotPlugAssumption
    <3>2. No[<<"on", d>>] \in Nat /\ No[<<"off", d>>] \in Nat
      BY HotPlugAssumption DEF Events
    <3> QED BY <2>1, <2>2, <3>1, <3>2 DEF First
  <2> QED BY <2>1, <2>3, <2>4
<1>3. ASSUME NEW f \in Devices, DealOn(f) PROVE <<"off", d>> \in events'
  <2>1. d \notin online /\ hand' = Nothing /\ events' \subseteq events \union {<<"succ", f>>}
        /\ events \subseteq events'
    BY <1>3 DEF DealOn, Mounted
  <2>2. <<"on", d>> \in events
    BY <2>1 DEF Nothing
  <2> QED BY <2>1, <2>2 DEF OnBeforeOff
<1>4. CASE ~Detect /\ ~GetEvent /\ \A f \in Devices : ~DealOn(f)
  <2>1. d \notin online /\ events' = events
    BY <1>4, OthersLeaveHotPlug
  <2>2. hand' = <<"on", d>> => hand = <<"on", d>>
    <3>1. \A m : <<m, None>> # <<"on", d>>
      BY HotPlugAssumption
    <3> QED BY <1>4, <3>1
            DEF Next, Get, Deal, Interrupt, Plug, Unplug, Key, ToneEnds, DecodeEnds, GetMsg,
                DealOff, DealSucc, DealStart, DealErr, DealPp, DealChange, Schedule,
                vars, Nothing
  <2> QED BY <2>1, <2>2 DEF OnBeforeOff
<1> QED BY <1>1, <1>2, <1>3, <1>4

\* The player only removes tables, and no failed unmount is forgotten then.
LEMMA PlayerTables ==
  ASSUME NEW d, dpt' \subseteq dpt, left' = left \cap dpt', d \in dpt'
  PROVE  d \in dpt /\ (d \in left => d \in left')
OBVIOUS

LEMMA MusicStartTables ==
  ASSUME NEW d, NEW q, MusicStart(d, q)
  PROVE  dpt' \subseteq dpt
BY DEF MusicStart, PlayFrom

LEMMA StepTableUndone ==
  TypeOK /\ TableInv /\ [Next]_vars => TableUndone'
<1> SUFFICES ASSUME TypeOK, TableInv, [Next]_vars, NEW d \in Devices, d \in dpt', d \notin online'
             PROVE  <<"off", d>> \in events' \/ hand' = <<"off", d>> \/ d \in left'
  BY StepTyped DEF TableUndone, TypeOK
<1> USE DEF TableInv
<1>0. <<"off", d>> \in Events
  BY DEF Events
<1>1. CASE Detect
  <2>1. PICK seen \in SUBSET ((plugged \ online) \union (online \ plugged)) :
          /\ online' = (online \ seen) \union (seen \cap plugged)
          /\ events' = events \union UNION {Posted(f) : f \in seen}
    BY <1>1 DEF Detect
  <2>2. CASE d \in seen
    BY <2>1, <2>2 DEF Posted
  <2>3. CASE d \notin seen
    <3>1. d \in dpt \ online /\ left' = left /\ hand' = hand
      BY <1>1, <2>1, <2>3 DEF Detect, table
    <3> QED BY <2>1, <3>1 DEF TableUndone
  <2> QED BY <2>2, <2>3
<1>2. CASE GetEvent
  <2>1. d \in dpt \ online /\ left' = left /\ hand # <<"off", d>>
    BY <1>2 DEF GetEvent, Ready, hardware, table, Nothing
  <2> QED BY <1>2, <2>1 DEF GetEvent, TableUndone
<1>3. ASSUME NEW f \in Devices, DealOn(f)
      PROVE  <<"off", d>> \in events' \/ hand' = <<"off", d>> \/ d \in left'
  <2>1. d \notin online /\ events \subseteq events' /\ hand = <<"on", f>>
    BY <1>3 DEF DealOn, Mounted
  <2>2. CASE d = f
    BY <2>1, <2>2 DEF OnBeforeOff
  <2>3. CASE d # f
    <3>1. d \in dpt /\ (d \in left => d \in left') /\ hand # <<"off", d>>
      BY <1>3, <2>1, <2>3 DEF DealOn, table
    <3> QED BY <2>1, <3>1 DEF TableUndone
  <2> QED BY <2>2, <2>3
<1>4. ASSUME NEW f \in Devices, DealOff(f)
      PROVE  <<"off", d>> \in events' \/ hand' = <<"off", d>> \/ d \in left'
  <2>1. d \in dpt \ online /\ events' = events /\ hand = <<"off", f>>
    BY <1>4 DEF DealOff, hardware
  <2>2. CASE d = f
    BY <1>4, <2>1, <2>2 DEF DealOff
  <2>3. CASE d # f
    <3>1. d \in left => d \in left'
      BY <1>4, <2>3 DEF DealOff
    <3> QED BY <2>1, <2>3, <3>1 DEF TableUndone
  <2> QED BY <2>2, <2>3
<1>5. CASE /\ ~Detect /\ ~GetEvent
           /\ \A f \in Devices : ~DealOn(f) /\ ~DealOff(f)
  <2>1. events' = events /\ d \notin online
    BY <1>5, OthersLeaveHotPlug
  <2>2. d \in dpt /\ (d \in left => d \in left')
    <3>1. \/ dpt' \subseteq dpt /\ left' = left \cap dpt'
          \/ dpt' = dpt /\ left' = left
      BY <1>5, MusicStartTables
         DEF Next, Get, Deal, Interrupt, Plug, Unplug, Key, ToneEnds, DecodeEnds, GetMsg,
             DealSucc, DealStart, DealErr, PlayFrom, DealPp, DealChange, Schedule,
             vars, table
    <3> QED BY <3>1
  <2>3. hand = <<"off", d>> => hand' = <<"off", d>>
    <3>1. hand = <<"off", d>> => \A f \in Devices : ~DealSucc(f)
      BY DEF DealSucc
    <3> QED BY <1>0, <1>5, <3>1, HandLeaves
  <2> QED BY <2>1, <2>2, <2>3 DEF TableUndone
<1> QED BY <1>1, <1>2, <1>3, <1>4, <1>5

\* For any devices: the table of a device that is gone is on its way out, or
\* the driver refused.
THEOREM TablesFollow == Spec => []TableFollows
<1>1. Init => TypeOK /\ TableInv
  BY InitTyped DEF Init, TableInv, OnBeforeOff, TableUndone, Nothing
<1>2. TypeOK /\ TableInv /\ [Next]_vars => (TypeOK /\ TableInv)'
  BY StepTyped, StepOnBeforeOff, StepTableUndone DEF TableInv
<1>3. TypeOK /\ TableInv => TableFollows
  BY DEF TypeOK, TableInv, OnBeforeOff, TableUndone, TableFollows
<1> QED BY <1>1, <1>2, <1>3, PTL DEF Spec

-----------------------------------------------------------------------------
(***************************************************************************)
(* The way of EVENT_xxx_ON_SUCC: messages, which switch tasks, are taken   *)
(* only when no event waits, and the pass holds one thing at a time.       *)
(***************************************************************************)
SuccPending == \E d \in Devices : <<"succ", d>> \in events
SuccInv == SuccInMusic /\ (hand \in Messages \X {None} => ~SuccPending)

LEMMA StepSucc == TypeOK /\ SuccInv /\ [Next]_vars => SuccInv'
<1> SUFFICES ASSUME TypeOK, SuccInv, [Next]_vars
             PROVE  SuccInv'
  OBVIOUS
<1> USE DEF SuccInv, SuccInMusic, SuccPending
<1>0. /\ \A d \in Devices : \A m : <<"succ", d>> # <<m, None>>
      /\ Nothing \notin Messages \X {None} /\ \A d \in Devices : Nothing # <<"succ", d>>
  BY HotPlugAssumption DEF Nothing, Messages
<1>1. CASE Detect
  <2>1. \A f, d : <<"succ", d>> \notin Posted(f)
    BY DEF Posted
  <2>2. \A d : <<"succ", d>> \in events' => <<"succ", d>> \in events
    BY <1>1, <2>1 DEF Detect
  <2> QED BY <1>1, <2>2 DEF Detect
<1>2. CASE GetEvent
  <2>1. hand' \notin Messages \X {None}
    BY <1>2, HotPlugAssumption DEF GetEvent, TypeOK, Events
  <2> QED BY <1>2, <2>1 DEF GetEvent
<1>3. CASE GetMsg
  BY <1>0, <1>3 DEF GetMsg
<1>4. ASSUME NEW f \in Devices, DealOn(f) PROVE SuccInv'
  <2>1. hand' = Nothing
    BY <1>4 DEF DealOn
  <2>2. cur = "MUSIC" => cur' = "MUSIC"
    BY <1>4 DEF DealOn, Mounted, EnterMusic
  <2>3. cur # "MUSIC" => events' = events
    BY <1>4 DEF DealOn, Mounted
  <2> QED BY <1>0, <2>1, <2>2, <2>3
<1>5. ASSUME NEW f \in Devices, DealOff(f) \/ DealSucc(f) PROVE SuccInv'
  BY <1>0, <1>5 DEF DealOff, DealSucc
<1>6. CASE DealStart \/ DealPp
  BY <1>0, <1>6 DEF DealStart, DealPp
<1>7. CASE DealErr \/ DealChange
  <2>1. hand \in Messages \X {None} /\ hand' = Nothing /\ events' = events
    <3>1. CASE DealErr
      BY <3>1 DEF DealErr, hardware, Messages
    <3>2. CASE DealChange
      BY <3>2 DEF DealChange, hardware, Messages
    <3> QED BY <1>7, <3>1, <3>2
  <2> QED BY <1>0, <2>1
<1>8. CASE Schedule
  BY <1>0, <1>8 DEF Schedule
<1>9. CASE Interrupt /\ ~Detect
  BY <1>9 DEF Interrupt, Plug, Unplug, Key, ToneEnds, DecodeEnds
<1>10. CASE UNCHANGED vars
  BY <1>10 DEF vars
<1> QED
  BY <1>1, <1>2, <1>3, <1>4, <1>5, <1>6, <1>7, <1>8, <1>9, <1>10 DEF Next, Get, Deal

\* For any devices: no task but MUSIC meets an EVENT_xxx_ON_SUCC.
THEOREM SuccReachesMusic == Spec => []SuccInMusic
<1>1. Init => TypeOK /\ SuccInv
  BY InitTyped DEF Init, SuccInv, SuccInMusic, SuccPending, Nothing
<1>2. TypeOK /\ SuccInv /\ [Next]_vars => (TypeOK /\ SuccInv)'
  BY StepTyped, StepSucc
<1>3. TypeOK /\ SuccInv => SuccInMusic
  BY DEF SuccInv
<1> QED BY <1>1, <1>2, <1>3, PTL DEF Spec
=============================================================================
