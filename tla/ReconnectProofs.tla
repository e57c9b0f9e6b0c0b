--------------------------- MODULE ReconnectProofs ---------------------------
(***************************************************************************)
(* The reach of the player, proved for any set of phones and any number of *)
(* returns: LinkTypeOK, ScansFit and InReach.  RetriesEnd is a liveness    *)
(* property and stays with TLC.                                            *)
(***************************************************************************)
EXTENDS Reconnect, FiniteSetTheorems, TLAPS

\* Both scans are open only before a phone is connected, or while the first one
\* is being reported.
Found == scan = "both" => /\ Cardinality(conn) <= 1
                          /\ owed = "none" => conn = {}

Closed == owed = "none" /\ scan # "none" => ~Full

\* Whom a retry pages is known before it is due.
Known == timer # "off" \/ count % 2 = 1 => addr # NoPhone

\* InReach, where the timer counts only while it has retries left.
Waits ==
  ready /\ ~Full /\ scan = "none" /\ ~lapse =>
    page # NoPhone \/ (timer # "off" /\ count > 0) \/ owed # "none"

LinkInv == LinkTypeOK /\ Found /\ Closed /\ Known /\ Waits

-----------------------------------------------------------------------------
(***************************************************************************)
(* The number of connected phones.                                         *)
(***************************************************************************)
LEMMA Count ==
  ASSUME LinkTypeOK
  PROVE  /\ IsFiniteSet(conn) /\ Cardinality(conn) \in Nat
         /\ (Cardinality(conn) = 0) <=> (conn = {})
<1>1. IsFiniteSet(Phones) BY ReconnectAssumption
<1>2. IsFiniteSet(conn) BY <1>1, FS_Subset DEF LinkTypeOK
<1> QED BY <1>2, FS_CardinalityType, FS_EmptySet

LEMMA CountMore ==
  ASSUME LinkTypeOK, NEW p \in Phones
  PROVE  Cardinality(conn \union {p}) = IF p \in conn THEN Cardinality(conn) ELSE Cardinality(conn) + 1
BY Count, FS_AddElement

LEMMA CountLess ==
  ASSUME LinkTypeOK, NEW p \in conn
  PROVE  /\ Cardinality(conn \ {p}) = Cardinality(conn) - 1
         /\ (Cardinality(conn \ {p}) = 0) <=> (conn \ {p} = {})
<1>1. IsFiniteSet(conn \ {p}) BY Count, FS_Subset
<1> QED BY <1>1, Count, FS_RemoveElement, FS_EmptySet

\* What bt_work_state_control leaves, for the phones that are connected after it.
LEMMA Controlled ==
  ASSUME NEW enable \in BOOLEAN, Control(enable, conn'), most' = most, most \in {1, 2},
         Cardinality(conn') \in 0 .. most, Cardinality(conn') = 0 <=> conn' = {}
  PROVE  /\ scan' \in {"none", "page", "both"} /\ ~lapse' /\ lapse' \in BOOLEAN
         /\ Found' /\ Closed'
         /\ enable /\ scan' = "none" => Full'
<1>1. ~lapse' /\ lapse' \in BOOLEAN
  BY Zenon DEF Control
<1>2. scan' = IF ~enable \/ Cardinality(conn') = most THEN "none"
              ELSE IF Cardinality(conn') = 1 THEN "page" ELSE "both"
  BY DEF Control
<1>3. scan' \in {"none", "page", "both"} /\ Found' /\ Closed'
  BY <1>2 DEF Found, Closed, Full
<1>4. enable /\ scan' = "none" => Full'
  BY <1>2 DEF Full
<1> QED BY <1>1, <1>3, <1>4

\* The controller pages somebody after a command.
LEMMA Paged ==
  ASSUME NEW p \in Phones, page \in Phones \union {NoPhone}, Page(p)
  PROVE  page' \in Phones
BY ReconnectAssumption DEF Page

-----------------------------------------------------------------------------
LEMMA Start0 == LinkInit => LinkInv
<1> SUFFICES ASSUME LinkInit PROVE LinkInv OBVIOUS
<1>1. Cardinality(conn) = 0
  BY FS_EmptySet DEF LinkInit
<1>2. {ready, lapse, call} \subseteq BOOLEAN /\ ~ready
  BY Zenon DEF LinkInit
<1>3. returns \in 0 .. Returns /\ search \in 0 .. 2
  BY ReconnectAssumption DEF LinkInit
<1>4. LinkTypeOK
  BY <1>1, <1>2, <1>3 DEF LinkInit, LinkTypeOK
<1> QED BY <1>2, <1>4 DEF LinkInit, LinkInv, Found, Closed, Known, Waits

(***************************************************************************)
(* The end of a page.                                                      *)
(***************************************************************************)
LEMMA JoinedStep ==
  ASSUME LinkInv, NEW p \in Phones, Joined(p), ~Full, owed = "none",
         page' \in Phones \union {NoPhone}
  PROVE  LinkInv'
<1>1. Cardinality(conn') = IF p \in conn THEN Cardinality(conn) ELSE Cardinality(conn) + 1
  BY CountMore DEF LinkInv, Joined
<1>2. LinkTypeOK'
  BY <1>1, Count DEF LinkInv, LinkTypeOK, Joined, RemoveTimer, Full
<1>3. Found'
  BY <1>1, Count DEF LinkInv, Found, Joined
<1>4. Known'
  BY DEF LinkInv, Known, Joined, RemoveTimer, LinkTypeOK
<1> QED BY <1>2, <1>3, <1>4 DEF LinkInv, Closed, Waits, Joined

LEMMA PageEndsStep ==
  ASSUME LinkInv, PageEnds
  PROVE  LinkInv'
<1> USE DEF LinkInv
<1>0. /\ Cardinality(conn) \in 0 .. most /\ most \in {1, 2}
      /\ Cardinality(conn) = 0 <=> conn = {}
  BY Count DEF LinkTypeOK
<1>1. CASE Success
  BY <1>1, JoinedStep DEF Success, Ended, LinkTypeOK
<1>2. CASE PageTimeout
  <2>1. /\ page \in Phones /\ count' = count - 1 /\ count \in 1 .. 10
        /\ UNCHANGED <<most, ready, conn, call, search, owed, returns>>
    BY <1>2 DEF PageTimeout, Retry, LinkTypeOK
  <2>2. CASE count' % 2 = 1
    <3>1. Control(TRUE, conn') /\ addr' = page /\ timer' = "armed" /\ page' = NoPhone
      BY <1>2, <2>1, <2>2 DEF PageTimeout, Retry
    <3>2. scan' \in {"none", "page", "both"} /\ ~lapse' /\ lapse' \in BOOLEAN /\ Found' /\ Closed'
      BY <1>0, <2>1, <3>1, Controlled
    <3>3. LinkTypeOK'
      BY <2>1, <3>1, <3>2 DEF LinkTypeOK
    <3>4. Known' /\ Waits'
      BY <2>1, <2>2, <3>1, ReconnectAssumption DEF Known, Waits
    <3> QED BY <3>2, <3>3, <3>4
  <2>3. CASE count' % 2 # 1
    <3>1. Control(FALSE, conn') /\ page' = addr /\ UNCHANGED <<addr, timer>>
      BY <1>2, <2>1, <2>3 DEF PageTimeout, Retry
    <3>2. scan' \in {"none", "page", "both"} /\ ~lapse' /\ lapse' \in BOOLEAN /\ Found' /\ Closed'
      BY <1>0, <2>1, <3>1, Controlled
    <3>3. count % 2 = 1
      BY <2>1, <2>3
    <3>4. LinkTypeOK'
      BY <2>1, <3>1, <3>2 DEF LinkTypeOK
    <3>5. Known' /\ Waits'
      BY <2>1, <2>3, <3>1, <3>3 DEF Known, Waits
    <3> QED BY <3>2, <3>4, <3>5
  <2> QED BY <2>2, <2>3
<1>3. CASE LastTimeout
  <2>1. /\ page # NoPhone /\ count = 0
        /\ UNCHANGED <<most, ready, conn, call, owed, count, addr, timer, returns>>
    BY <1>3 DEF LastTimeout, NextOr
  <2>2. CASE search > 0 /\ Phones # conn
    <3>1. search' = search - 1 /\ page' \in Phones /\ UNCHANGED <<scan, lapse>>
      BY <1>3, <2>2 DEF LastTimeout, NextOr
    <3> QED BY <2>1, <2>2, <3>1, ReconnectAssumption
            DEF LinkTypeOK, Found, Closed, Known, Waits, Full
  <2>3. CASE ~(search > 0 /\ Phones # conn)
    <3>1. page' = NoPhone /\ Control(TRUE, conn') /\ UNCHANGED search
      BY <1>3, <2>1, <2>3 DEF LastTimeout, NextOr
    <3>2. /\ scan' \in {"none", "page", "both"} /\ ~lapse' /\ lapse' \in BOOLEAN /\ Found' /\ Closed'
          /\ scan' = "none" => Full'
      BY <1>0, <2>1, <3>1, Controlled
    <3> QED BY <2>1, <3>1, <3>2 DEF LinkTypeOK, Known, Waits
  <2> QED BY <2>2, <2>3
<1>4. CASE Exists
  BY <1>4, ReconnectAssumption DEF Exists, Ended, LinkTypeOK, Found, Closed, Known, Waits, Full
<1>5. CASE Rejected
  <2>1. /\ page' = NoPhone /\ Control(TRUE, conn')
        /\ UNCHANGED <<most, ready, conn, call, search, owed, count, addr, timer, returns>>
    BY <1>5 DEF Rejected, Ended
  <2>2. /\ scan' \in {"none", "page", "both"} /\ ~lapse' /\ lapse' \in BOOLEAN /\ Found' /\ Closed'
        /\ scan' = "none" => Full'
    BY <1>0, <2>1, Controlled
  <2> QED BY <2>1, <2>2 DEF LinkTypeOK, Known, Waits
<1>6. CASE Dropped
  BY <1>6 DEF Dropped, Ended, LinkTypeOK, Found, Closed, Known, Waits, Full
<1> QED BY <1>1, <1>2, <1>3, <1>4, <1>5, <1>6 DEF PageEnds

(***************************************************************************)
(* Phones come and go.                                                     *)
(***************************************************************************)
LEMMA IncomingStep ==
  ASSUME LinkInv, NEW p \in Phones, Incoming(p)
  PROVE  LinkInv'
BY JoinedStep DEF Incoming, LinkInv, LinkTypeOK

LEMMA StatusStep ==
  ASSUME LinkInv, Status
  PROVE  LinkInv'
<1> USE DEF LinkInv
<1>0. /\ Cardinality(conn) \in 0 .. most /\ most \in {1, 2}
      /\ Cardinality(conn) = 0 <=> conn = {}
  BY Count DEF LinkTypeOK
<1>1. CASE Channel
  <2>1. /\ owed = "a2dp" /\ owed' = "conn"
        /\ UNCHANGED <<most, ready, conn, call, scan, count, addr, timer, lapse, returns>>
    BY <1>1 DEF Channel
  <2>2. search' \in 0 .. 2 /\ page' \in Phones \union {NoPhone}
    <3>1. CASE search > 0 /\ Start(conn)
      <4>1. PICK p \in Phones : Page(p)
        BY <3>1 DEF Start
      <4> QED BY <3>1, <4>1, Paged DEF Start, LinkTypeOK
    <3> QED BY <1>1, <3>1 DEF Channel, LinkTypeOK
  <2> QED BY <2>1, <2>2 DEF LinkTypeOK, Found, Closed, Known, Waits
<1>2. CASE Reported
  <2>1. /\ owed' = "none" /\ Control(TRUE, conn')
        /\ UNCHANGED <<most, ready, conn, call, page, search, count, addr, timer, returns>>
    BY <1>2 DEF Reported
  <2>2. /\ scan' \in {"none", "page", "both"} /\ ~lapse' /\ lapse' \in BOOLEAN /\ Found' /\ Closed'
        /\ scan' = "none" => Full'
    BY <1>0, <2>1, Controlled
  <2> QED BY <2>1, <2>2 DEF LinkTypeOK, Known, Waits
<1> QED BY <1>1, <1>2 DEF Status

LEMMA GoneStep ==
  ASSUME LinkInv, NEW p \in Phones, Disconnect(p) \/ Lost(p)
  PROVE  LinkInv'
<1> USE DEF LinkInv
<1>1. /\ p \in conn /\ conn' = conn \ {p} /\ call' \in BOOLEAN
      /\ owed' \in IF conn' = {} THEN {"none"} ELSE {owed, "none"}
      /\ UNCHANGED <<most, ready, search, addr, returns>>
  BY DEF Disconnect, Lost, Gone, LinkTypeOK
<1>2. /\ Cardinality(conn') = Cardinality(conn) - 1 /\ Cardinality(conn) \in 1 .. most
      /\ Cardinality(conn') = 0 <=> conn' = {}
      /\ most \in {1, 2} /\ Cardinality(conn') \in 0 .. most
  BY <1>1, Count, CountLess DEF LinkTypeOK
<1>3. CASE Disconnect(p)
  <2>1. Control(TRUE, conn') /\ UNCHANGED <<page, count, timer>>
    BY <1>3 DEF Disconnect
  <2>2. /\ scan' \in {"none", "page", "both"} /\ ~lapse' /\ lapse' \in BOOLEAN /\ Found' /\ Closed'
        /\ scan' = "none" => Full'
    BY <1>1, <1>2, <2>1, Controlled
  <2> QED BY <1>1, <1>2, <2>1, <2>2 DEF LinkTypeOK, Known, Waits
<1>4. CASE Lost(p)
  <2>1. Found' /\ Closed'
    BY <1>1, <1>2, <1>4 DEF Lost, Found, Closed, Full
  <2>2. CASE lapse' = TRUE /\ UNCHANGED <<count, timer, page>>
    BY <1>1, <1>2, <1>4, <2>1, <2>2 DEF Lost, LinkTypeOK, Known, Waits
  <2>3. CASE count' = 10 /\ RemoveTimer /\ Page(p) /\ UNCHANGED lapse
    <3>1. page' \in Phones
      BY <2>3, Paged DEF LinkTypeOK
    <3> QED BY <1>1, <1>2, <1>4, <2>1, <2>3, <3>1, ReconnectAssumption
            DEF Lost, RemoveTimer, LinkTypeOK, Known, Waits
  <2> QED BY <1>4, <2>2, <2>3 DEF Lost
<1> QED BY <1>3, <1>4

(***************************************************************************)
(* The timer and the task.                                                 *)
(***************************************************************************)
LEMMA TimerStep ==
  ASSUME LinkInv, Timer
  PROVE  LinkInv'
<1> USE DEF LinkInv
<1>0. /\ Cardinality(conn) \in 0 .. most /\ most \in {1, 2}
      /\ Cardinality(conn) = 0 <=> conn = {}
  BY Count DEF LinkTypeOK
<1>1. CASE Due
  BY <1>1 DEF Due, LinkTypeOK, Found, Closed, Known, Waits, Full
<1>2. CASE Fire
  <2>1. /\ timer = "due" /\ timer' = "off"
        /\ UNCHANGED <<most, ready, conn, call, search, owed, addr, returns>>
    BY <1>2 DEF Fire, Fires
  <2>2. CASE count > 0 /\ ~call
    <3>1. count' = count - 1 /\ Page(addr) /\ Control(conn = {}, conn')
      BY <1>2, <2>1, <2>2 DEF Fire, Fires
    <3>2. addr \in Phones
      BY <2>1 DEF Known, LinkTypeOK
    <3>3. page' \in Phones
      BY <3>1, <3>2, Paged DEF LinkTypeOK
    <3>4. scan' \in {"none", "page", "both"} /\ ~lapse' /\ lapse' \in BOOLEAN /\ Found' /\ Closed'
      BY <1>0, <2>1, <3>1, Controlled
    <3> QED BY <2>1, <2>2, <3>1, <3>2, <3>3, <3>4, ReconnectAssumption
            DEF LinkTypeOK, Known, Waits
  <2>3. CASE ~(count > 0 /\ ~call)
    <3>1. lapse' = (lapse \/ call) /\ UNCHANGED <<count, page, scan>>
      BY <1>2, <2>3 DEF Fire, Fires
    <3> QED BY <2>1, <2>3, <3>1 DEF LinkTypeOK, Found, Closed, Known, Waits, Full
  <2> QED BY <2>2, <2>3
<1> QED BY <1>1, <1>2 DEF Timer

LEMMA TaskStep ==
  ASSUME LinkInv, InitOk \/ Return
  PROVE  LinkInv'
<1> USE DEF LinkInv
<1>0. /\ Cardinality(conn) \in 0 .. most /\ most \in {1, 2}
      /\ Cardinality(conn) = 0 <=> conn = {}
  BY Count DEF LinkTypeOK
<1>1. CASE InitOk
  <2>1. ready' = TRUE /\ UNCHANGED <<most, conn, call, owed, count, addr, timer, returns>>
    BY <1>1 DEF InitOk
  <2>2. CASE search > 0 /\ Start(conn) /\ UNCHANGED <<scan, lapse>>
    <3>1. PICK p \in Phones : Page(p)
      BY <2>2 DEF Start
    <3>2. page' \in Phones /\ search' = search - 1
      BY <2>2, <3>1, Paged DEF Start, LinkTypeOK
    <3> QED BY <2>1, <2>2, <3>2, ReconnectAssumption
            DEF LinkTypeOK, Found, Closed, Known, Waits, Full
  <2>3. CASE search' = 0 /\ Control(TRUE, conn) /\ UNCHANGED page
    <3>1. /\ scan' \in {"none", "page", "both"} /\ ~lapse' /\ lapse' \in BOOLEAN /\ Found' /\ Closed'
          /\ scan' = "none" => Full'
      BY <1>0, <2>1, <2>3, Controlled
    <3> QED BY <2>1, <2>3, <3>1 DEF LinkTypeOK, Known, Waits
  <2> QED BY <1>1, <2>2, <2>3 DEF InitOk
<1>2. CASE Return
  <2>1. /\ returns' \in 0 .. Returns
        /\ UNCHANGED <<most, ready, conn, call, search, owed, scan, count, addr, timer, lapse>>
    BY <1>2, ReconnectAssumption DEF Return, LinkTypeOK
  <2>2. page' \in Phones \/ page' = page
    <3>1. ASSUME NEW p \in Phones, Page(p) PROVE page' \in Phones
      BY <3>1, Paged DEF LinkTypeOK
    <3> QED BY <1>2, <3>1 DEF Return
  <2> QED BY <2>1, <2>2, ReconnectAssumption DEF LinkTypeOK, Found, Closed, Known, Waits, Full
<1> QED BY <1>1, <1>2

LEMMA LinkStep ==
  ASSUME LinkInv, [Link]_linkVars
  PROVE  LinkInv'
<1>1. CASE CallBegins \/ CallEnds
  <2>1. /\ call' \in BOOLEAN
        /\ UNCHANGED <<most, ready, conn, page, search, owed, scan, count, addr, timer, lapse, returns>>
    BY <1>1 DEF CallBegins, CallEnds
  <2> QED BY <2>1 DEF LinkInv, LinkTypeOK, Found, Closed, Known, Waits, Full
<1>2. CASE UNCHANGED linkVars
  BY <1>2 DEF linkVars, LinkInv, LinkTypeOK, Found, Closed, Known, Waits, Full
<1> QED BY <1>1, <1>2, PageEndsStep, TimerStep, StatusStep, IncomingStep, GoneStep, TaskStep
        DEF Link

-----------------------------------------------------------------------------
THEOREM LinkInvariance == LinkSpec => []LinkInv
BY Start0, LinkStep, PTL DEF LinkSpec

\* The types: the phones never outnumber the build's limit, and the counter of
\* the retries does not pass zero.
THEOREM LinkTypeCorrect == LinkSpec => []LinkTypeOK
BY LinkInvariance, PTL DEF LinkInv

\* Nobody finds a player that has a phone, and a full one is closed.
THEOREM ScansRight == LinkSpec => []ScansFit
<1>1. LinkInv => ScansFit
  BY DEF LinkInv, Found, Closed, ScansFit
<1> QED BY <1>1, LinkInvariance, PTL

\* A player with room for a phone is within reach of one or is about to be,
\* unless a handler has given it up.
THEOREM StaysInReach == LinkSpec => []InReach
<1>1. LinkInv => InReach
  BY DEF LinkInv, Waits, InReach
<1> QED BY <1>1, LinkInvariance, PTL
=============================================================================
