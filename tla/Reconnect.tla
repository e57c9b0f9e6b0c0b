------------------------------ MODULE Reconnect ------------------------------
(***************************************************************************)
(* apps/task_manager/task_bt/task_bt.c: what the player does to stay in    *)
(* reach of its phones.  bt_discon_complete_handle answers the end of      *)
(* every page and of every connection; sys_time_auto_connection_deal pages *)
(* a lost phone again; bt_work_state_control switches the scans by which   *)
(* phones find the player and connect to it.                               *)
(*                                                                         *)
(* The handlers run in the stack's interrupt, the timer's function later,  *)
(* from the loop (delay_do), so a connection may come between the two.     *)
(* The build without TWS: the role is neither master nor slave.            *)
(***************************************************************************)
EXTENDS Naturals, FiniteSets

CONSTANTS
  Phones,
  NoPhone,
  Returns     \* bound: how often the Bluetooth task is entered again

ASSUME ReconnectAssumption == NoPhone \notin Phones /\ IsFiniteSet(Phones) /\ Returns \in Nat

VARIABLES
  most,     \* BT_CONNTCT_NUM of the build
  ready,    \* BT_STATUS_INIT_OK has come
  conn,     \* the connected phones
  call,     \* get_call_status() # BT_CALL_HANGUP
  page,     \* the phone the controller pages
  search,   \* get_current_search_index: phones START_CONNECTION is still to page
  owed,     \* the stack owes BT_STATUS_CONN_A2DP_CH, then BT_STATUS_RECONN_OR_CONN
  scan,     \* "none"; "page": phones connect; "both": they find it, too
  count,    \* auto_connection_counter
  addr,     \* connect_addr
  timer,    \* bt_connect_timeout: "off", "armed", "due" (its function is to run)
  lapse,    \* history: a handler gave up a phone without opening the scans since
            \* they were last set
  returns   \* bound: the entries left

linkVars == <<most, ready, conn, call, page, search, owed, scan, count, addr, timer, lapse, returns>>

Full == Cardinality(conn) = most

-----------------------------------------------------------------------------
(***************************************************************************)
(* Parts of the handlers.  c is the set of connected phones.               *)
(***************************************************************************)
\* Faulty variant: the limit of the build is not looked at.
Control_Blind(enable, c) ==
  /\ scan' = IF ~enable THEN "none" ELSE IF Cardinality(c) = 1 THEN "page" ELSE "both"
  /\ lapse' = FALSE

\* bt_work_state_control
Control(enable, c) ==
  /\ scan' = IF ~enable \/ Cardinality(c) = most THEN "none"
             ELSE IF Cardinality(c) = 1 THEN "page" ELSE "both"
  /\ lapse' = FALSE

\* USER_CTRL_START_CONNEC_VIA_ADDR.  The controller pages one phone at a time:
\* a second command is lost or takes the place of the first.
Page(p) == page' \in IF page = NoPhone THEN {p} ELSE {page, p}

\* sys_timer_remove: the function may already be on its way to the loop.
RemoveTimer == timer' \in IF timer = "due" THEN {"off", "due"} ELSE {"off"}

\* USER_CTRL_START_CONNECTION
Start(c) ==
  /\ search' = search - 1
  /\ \E p \in Phones \ c : Page(p)

-----------------------------------------------------------------------------
(***************************************************************************)
(* The controller has come to the end of a page: bt_discon_complete_handle *)
(* with the reason that names each action.                                 *)
(***************************************************************************)
Ended == page # NoPhone /\ page' = NoPhone

\* 0x00, as well when a phone connects of its own accord.
Joined(p) ==
  /\ conn' = conn \union {p}
  /\ owed' = "a2dp"
  /\ count' = 0 /\ RemoveTimer
  /\ UNCHANGED <<most, ready, call, search, scan, addr, lapse, returns>>

Success == Ended /\ ~Full /\ owed = "none" /\ Joined(page)

\* 0x04 while a lost phone is being looked for: wait or page, by turns.
Retry ==
  /\ count' = count - 1
  /\ IF count' % 2 = 1
       THEN Control(TRUE, conn) /\ addr' = page /\ timer' = "armed" /\ page' = NoPhone
       ELSE Control(FALSE, conn) /\ page' = addr /\ UNCHANGED <<addr, timer>>
  /\ UNCHANGED <<most, ready, conn, call, search, owed, returns>>

\* Faulty variant: the counter is not looked at.
PageTimeout_Below == page # NoPhone /\ Retry

PageTimeout == page # NoPhone /\ count > 0 /\ Retry

\* 0x04 otherwise: the next phone of the search, or the scans.
NextOr(Last) ==
  /\ page # NoPhone /\ count = 0
  /\ IF search > 0 /\ Phones # conn
       THEN /\ search' = search - 1 /\ (\E p \in Phones \ conn : page' = p)
            /\ UNCHANGED <<scan, lapse>>
       ELSE page' = NoPhone /\ Last /\ UNCHANGED search
  /\ UNCHANGED <<most, ready, conn, call, owed, count, addr, timer, returns>>

\* Faulty variant: the last page leaves the scans as they are.
LastTimeout_Closed == NextOr(UNCHANGED <<scan, lapse>>)

LastTimeout == NextOr(Control(TRUE, conn))

\* 0x0b: the phone is connecting by itself; one more page in two seconds.
Exists ==
  /\ Ended
  /\ addr' = page /\ count' = 1 /\ timer' = "armed"
  /\ UNCHANGED <<most, ready, conn, call, search, owed, scan, lapse, returns>>

\* 0x05, 0x0a, 0x0d, 0x0f, 0x10, and 0x13, 0x15 or 0x16 of a phone that has not
\* connected yet
Rejected ==
  /\ Ended /\ Control(TRUE, conn)
  /\ UNCHANGED <<most, ready, conn, call, search, owed, count, addr, timer, returns>>

\* 0x06, a phone that has forgotten the player, and 0xfd, a page the stack
\* cancels: nothing is done.
Dropped ==
  /\ Ended /\ lapse' = TRUE
  /\ UNCHANGED <<most, ready, conn, call, search, owed, scan, count, addr, timer, returns>>

-----------------------------------------------------------------------------
(***************************************************************************)
(* Phones come and go.                                                     *)
(***************************************************************************)
\* The controller answers a phone that pages the player.
Incoming(p) ==
  /\ ready /\ scan # "none" /\ ~Full /\ p \notin conn /\ owed = "none"
  /\ page' = IF page = p THEN NoPhone ELSE page
  /\ Joined(p)

\* BT_STATUS_CONN_A2DP_CH: the search goes on after a phone has been found.
Channel ==
  /\ owed = "a2dp" /\ owed' = "conn"
  /\ IF ~Full /\ search > 0 /\ Phones # conn THEN Start(conn) ELSE UNCHANGED <<search, page>>
  /\ UNCHANGED <<most, ready, conn, call, scan, count, addr, timer, lapse, returns>>

\* BT_STATUS_RECONN_OR_CONN
Reported ==
  /\ owed = "conn" /\ owed' = "none"
  /\ Control(TRUE, conn)
  /\ UNCHANGED <<most, ready, conn, call, page, search, count, addr, timer, returns>>

\* A connection ends, its call with it; the handler sees call as busy, before
\* the stack has updated it or after.
Gone(p, busy) ==
  /\ p \in conn /\ conn' = conn \ {p}
  /\ call' \in IF conn' = {} THEN {FALSE} ELSE {call, FALSE}
  /\ busy \in {call, call'}
  /\ owed' \in IF conn' = {} THEN {"none"} ELSE {owed, "none"}

\* 0x13, 0x15, 0x16: either side has ended the connection.
Disconnect(p) ==
  /\ Gone(p, call) /\ Control(TRUE, conn')
  /\ UNCHANGED <<most, ready, page, search, count, addr, timer, returns>>

\* 0x08: the phone is out of range.  During a call nothing is done.
Lost(p) ==
  /\ \/ Gone(p, TRUE) /\ lapse' = TRUE /\ UNCHANGED <<count, timer, page>>
     \/ Gone(p, FALSE) /\ count' = 10 /\ RemoveTimer /\ Page(p) /\ UNCHANGED lapse
  /\ UNCHANGED <<most, ready, search, scan, addr, returns>>

CallBegins ==
  /\ conn # {} /\ ~call /\ call' = TRUE
  /\ UNCHANGED <<most, ready, conn, page, search, owed, scan, count, addr, timer, lapse, returns>>

CallEnds ==
  /\ call /\ call' = FALSE
  /\ UNCHANGED <<most, ready, conn, page, search, owed, scan, count, addr, timer, lapse, returns>>

-----------------------------------------------------------------------------
(***************************************************************************)
(* The timer, the start and the return of the task.                        *)
(***************************************************************************)
Due ==
  /\ timer = "armed" /\ timer' = "due"
  /\ UNCHANGED <<most, ready, conn, call, page, search, owed, scan, count, addr, lapse, returns>>

\* sys_time_auto_connection_deal
Fires(next) ==
  /\ timer = "due" /\ timer' = next
  /\ IF count > 0 /\ ~call
       THEN /\ count' = count - 1 /\ Page(addr)
            /\ Control(conn = {}, conn)
       ELSE /\ lapse' = (lapse \/ call)
            /\ UNCHANGED <<count, page, scan>>
  /\ UNCHANGED <<most, ready, conn, call, search, owed, addr, returns>>

\* Faulty variant: the timer starts anew by itself.
Fire_Periodic == Fires("armed")

Fire == Fires("off")

\* BT_STATUS_INIT_OK: START_CONNECTION, answered by 0xfc when no phone is known.
InitOk ==
  /\ ~ready /\ ready' = TRUE
  /\ \/ /\ search > 0 /\ Start(conn) /\ UNCHANGED <<scan, lapse>>
     \/ /\ search' = 0 /\ Control(TRUE, conn) /\ UNCHANGED page
  /\ UNCHANGED <<most, conn, call, owed, count, addr, timer, returns>>

\* task_bt_init, back from another task: START_CONNEC_VIA_ADDR_MANUALLY.  The
\* stack only stays in the background in the build for one phone.
Return ==
  /\ ready /\ most = 1 /\ returns > 0 /\ returns' = returns - 1
  /\ IF conn = {} THEN \E p \in Phones : Page(p) ELSE UNCHANGED page
  /\ UNCHANGED <<most, ready, conn, call, search, owed, scan, count, addr, timer, lapse>>

LinkInit ==
  /\ most \in {1, 2} /\ ready = FALSE
  /\ conn = {} /\ call = FALSE /\ page = NoPhone /\ search \in 0 .. most /\ owed = "none"
  /\ scan = "none" /\ count = 0 /\ addr = NoPhone /\ timer = "off"
  /\ lapse = TRUE /\ returns = Returns

PageEnds == Success \/ PageTimeout \/ LastTimeout \/ Exists \/ Rejected \/ Dropped
Timer == Due \/ Fire
Status == Channel \/ Reported
Link ==
  \/ PageEnds \/ Timer \/ Status
  \/ \E p \in Phones : Incoming(p) \/ Disconnect(p) \/ Lost(p)
  \/ CallBegins \/ CallEnds \/ InitOk \/ Return

\* A page ends, the timer comes, and the stack reports what it owes.
LinkFair == WF_linkVars(PageEnds) /\ WF_linkVars(Timer) /\ WF_linkVars(Status)

LinkSpec == LinkInit /\ [][Link]_linkVars /\ LinkFair

-----------------------------------------------------------------------------
(***************************************************************************)
(* Properties.                                                             *)
(***************************************************************************)
\* The phones never outnumber the build's limit; a phone is only paged again if
\* its address has been kept.
LinkTypeOK ==
  /\ most \in {1, 2} /\ ready \in BOOLEAN /\ conn \subseteq Phones /\ Cardinality(conn) <= most
  /\ call \in BOOLEAN /\ page \in Phones \union {NoPhone} /\ search \in 0 .. 2
  /\ owed \in {"none", "a2dp", "conn"} /\ scan \in {"none", "page", "both"}
  /\ count \in 0 .. 10 /\ addr \in Phones \union {NoPhone}
  /\ timer \in {"off", "armed", "due"} /\ lapse \in BOOLEAN /\ returns \in 0 .. Returns

\* A player with room for a phone is open to it, pages one, waits to page again
\* or is just connecting: no course of pages, timeouts and connections leaves
\* it out of reach.  Except that it has given up a phone: one lost in a call, one
\* that forgot the player, a page cancelled, a retry that fell into a call.
InReach == ready /\ ~Full /\ scan = "none" /\ ~lapse => page # NoPhone \/ timer # "off" \/ owed # "none"

\* The retries come to an end: once no loss of a phone starts them anew, pages
\* that time out and the timer between them do not follow one another for good.
RetriesEnd ==
  <>[][count' <= count]_linkVars => <>[](page = NoPhone /\ timer = "off")

\* Once the stack has reported every connection, the scans fit the phones that
\* are left: a full player is closed, and only a player without a phone lets
\* itself be found.
ScansFit ==
  owed = "none" => /\ scan # "none" => ~Full
                   /\ scan = "both" => conn = {}
=============================================================================
