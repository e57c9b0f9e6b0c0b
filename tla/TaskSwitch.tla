----------------------------- MODULE TaskSwitch -----------------------------
(***************************************************************************)
(* apps/task_manager: the list of tasks, task_switch, the task_manager     *)
(* loop, the mode messages of task_common.c and uart.c, and the Bluetooth  *)
(* task's part in switching (a call pins the task; a call that arrives in  *)
(* the background brings Bluetooth back, and its end the task before).     *)
(*                                                                         *)
(* One pass of a task's loop is one action: nothing but interrupts runs    *)
(* beside it.  Interrupts (keys, device detection, the Bluetooth stack's   *)
(* callbacks) fall between any two passes and, in BT's exit, between the   *)
(* suspension of the stack and the clearing of the messages.               *)
(***************************************************************************)
EXTENDS Naturals, Sequences

CONSTANTS
  Max,        \* TASK_ID_MAX
  List,       \* task_app_list: "null", "free" (no skip_check) or "checked"
  BT, MUSIC, IDLE,              \* task ids
  TypeNext, TypeLast,           \* TASK_ID_TYPE_NEXT and _LAST
  Unactive,   \* TASK_ID_UNACTIVE
  Beyond,     \* any other id from TASK_ID_MAX up, read past the end of the list
  Crash,      \* a skip_check pointer read past the end of the list was called
  Keys,       \* mode messages keys post: "CHANGE", "OFF"
  Lines,      \* serial commands: "CM01", "CM02", "CM08"
  QueueMax    \* bound: messages in the ring

Ids == 0 .. Max - 1
TaskMax == Max - 1

ASSUME TaskAssumption ==
  /\ Max \in Nat \ {0, 1}
  /\ List \in [Ids -> {"null", "free", "checked"}]
  /\ BT = 0 /\ List[BT] = "free"
  /\ MUSIC \in Ids \ {BT} /\ List[MUSIC] = "checked"
  /\ IDLE \in Ids
  /\ Unactive \notin Ids /\ Beyond \notin Ids /\ Crash \notin Ids
  /\ Unactive # Beyond /\ Unactive # Crash /\ Beyond # Crash
  /\ TypeNext # TypeLast /\ {TypeNext, TypeLast} \cap Ids = {}
  /\ Keys \subseteq {"CHANGE", "OFF"}
  /\ Lines \subseteq {"CM01", "CM02", "CM08"}
  /\ QueueMax \in Nat

VARIABLES
  pc,        \* "manager", "suspended", "entering", "loop", "stopping"
  cur,       \* cur_id
  last,      \* last_id
  target,    \* target_id
  strayed,   \* history: the walk that gave target_id left the list
  mask,      \* mask_task_switch_flag
  queue,     \* the mode messages in the ring
  sd,        \* EVENT_SD1_ONLINE is pending
  storage,   \* some music device is online
  call,      \* is_bt_stack_cannot_exist()
  bt,        \* bt_task_sta: "waiting", "ok", "suspend"
  back,      \* get_is_in_background_flag()
  resume,    \* resume_flag = 0xff
  auto,      \* auto_suspend_flag
  quiet      \* not_play_bt_mode_tone = 0xaa

manager == <<cur, last, target, strayed>>
stack == <<call, bt, back, resume, auto, quiet>>
vars == <<pc, manager, mask, queue, sd, storage, stack>>

Messages == {"CHANGE", "OFF", "BACK", "LAST"}

\* Faulty variant: the ring is not limited.
Post_Unbounded(q, m) == Append(q, m)

\* task_post_msg: a full ring drops the message.
Post(q, m) == IF Len(q) < QueueMax THEN Append(q, m) ELSE q

\* n posts of MSG_CHANGE_WORKMODE.
Changes(q, n) ==
  LET room == QueueMax - Len(q)
  IN  q \o [i \in 1 .. (IF n < room THEN n ELSE room) |-> "CHANGE"]

-----------------------------------------------------------------------------
(***************************************************************************)
(* task_switch                                                             *)
(***************************************************************************)
After(i) == IF i + 1 >= TaskMax THEN 0 ELSE i + 1

\* Where the walk begins.  Unactive: there is nowhere to begin.
NextStart(base) ==
  IF base \in Ids THEN After(base) ELSE IF base = Beyond THEN 0 ELSE Unactive

Start(t, request) ==
  IF request = TypeNext THEN NextStart(IF t # Unactive THEN t ELSE cur)
  ELSE IF request = TypeLast THEN last
  ELSE request

\* The walk from index i after j skips; ok is what skip_check answers.  Max:
\* it has run past the end over unregistered entries.
Walk(ok) ==
  LET w[i \in 0 .. Max, j \in 0 .. TaskMax] ==
        IF i = Max THEN Max
        ELSE IF List[i] = "null" THEN w[i + 1, j]
        ELSE IF List[i] = "free" \/ ok THEN i
        ELSE IF j + 1 >= TaskMax THEN 0
        ELSE w[After(i), j + 1]
  IN  w

\* What task_switch leaves: an id, and whether the walk left the list for it.
Aim(id, left) == [id |-> id, left |-> left]

\* What a walk can end with.  Past the end it reads other data as entries:
\* zeros until the 8-bit index wraps to task 0, or an "entry" without a
\* skip_check (the one at the index TASK_ID_UNACTIVE too, an id like another to
\* the walk), or one whose skip_check it calls.
Landings(i, ok) ==
  LET k == Walk(ok)[i, 0]
  IN  IF k \in Ids THEN {Aim(k, FALSE)}
      ELSE {Aim(id, TRUE) : id \in {0, Beyond, Unactive, Crash}}

\* Faulty variant: a call does not pin the task.
Accepted_IgnoresMask(m, t, request, ok) ==
  IF Start(t, request) = Unactive THEN {} ELSE Landings(Start(t, request), ok)

\* What task_switch can leave with m in mask_task_switch_flag and t in
\* target_id; none when it returns false.
Accepted(m, t, request, ok) ==
  IF m \/ Start(t, request) = Unactive THEN {} ELSE Landings(Start(t, request), ok)

-----------------------------------------------------------------------------
(***************************************************************************)
(* The task's loop: task_get_msg, then task_common_msg_deal, which first   *)
(* looks at the serial line and then at the message.                       *)
(***************************************************************************)

\* target_id as task_switch left it, and as it leaves it.
Aimed == Aim(target, strayed)
Takes(a) == target' = a.id /\ strayed' = a.left

\* parse_uart_data: what a line leaves in target_id (a is what is there) and in
\* the ring.  The result of the task_switch of AT+CM08 is not looked at.
LineTargets(line, m, a) ==
  LET s == Accepted(m, a.id, MUSIC, storage)
  IN  IF line = "CM08" /\ s # {} THEN s ELSE {a}

LineQueue(line, q) ==
  IF line = "CM01" /\ cur # BT THEN Changes(q, 21)
  ELSE IF line = "CM02" /\ cur \in {BT, IDLE} THEN Changes(q, 3)
  ELSE q

Request(msg) ==
  CASE msg = "CHANGE" -> TypeNext
    [] msg = "BACK" -> BT
    [] msg = "LAST" -> TypeLast
    [] msg = "OFF" -> IDLE
    [] msg = "SD" -> MUSIC

\* Faulty variants: the flag is never cleared; every task follows the calls.
MaskAfterGet_Sticks == mask' = IF cur = BT THEN mask \/ call ELSE mask
MaskAfterGet_EveryTask == mask' = call

\* msg_mask_off_in_bt, in the Bluetooth task only.
MaskAfterGet == mask' = IF cur = BT THEN call ELSE mask

\* One pass with msg ("NONE": no message) and the serial line; q is the ring
\* after the get.  A switch that is accepted ends the task.
Deal(msg, line, q, ok) ==
  /\ MaskAfterGet
  /\ queue' = LineQueue(line, q)
  /\ \E a \in LineTargets(line, mask', Aimed) :
       LET s == IF msg = "NONE" THEN {} ELSE Accepted(mask', a.id, Request(msg), ok)
       IN  IF s = {} \/ a.id = Crash
             THEN Takes(a) /\ UNCHANGED pc
             ELSE (\E b \in s : Takes(b)) /\ pc' = "stopping"

Running == pc = "loop" /\ target # Crash

\* A pass with the hot-plug event.  The device is mounted or it is not (it is
\* gone, it is bad, or it is ignored in the first two seconds); in MUSIC the
\* task itself takes the device.
PassEvent(line) ==
  /\ Running
  /\ sd
  /\ sd' = FALSE
  /\ \E mounted \in BOOLEAN :
       /\ mounted => storage
       /\ Deal(IF mounted /\ cur # MUSIC THEN "SD" ELSE "NONE", line, queue, TRUE)
  /\ UNCHANGED <<cur, last, storage, stack>>

PassMsg(line) ==
  /\ Running
  /\ ~sd /\ queue # <<>>
  /\ Deal(Head(queue), line, Tail(queue), storage)
  /\ UNCHANGED <<cur, last, sd, storage, stack>>

\* A pass without a mode message.
PassNone(line) ==
  /\ Running
  /\ ~sd /\ queue = <<>>
  /\ Deal("NONE", line, queue, storage)
  /\ UNCHANGED <<cur, last, sd, storage, stack>>

\* The first SYS_EVENT_PLAY_SEL_END in the Bluetooth task starts the stack.
StackStarts ==
  /\ Running
  /\ cur = BT /\ bt = "waiting"
  /\ bt' = "ok"
  /\ UNCHANGED <<pc, manager, mask, queue, sd, storage, call, back, resume, auto, quiet>>

\* The tail of a task that leaves: one more task_common_msg_deal(NO_MSG).
Stop(line) ==
  /\ pc = "stopping" /\ target # Crash
  /\ \E a \in LineTargets(line, mask, Aimed) : Takes(a)
  /\ queue' = LineQueue(line, queue)
  /\ pc' = "manager"
  /\ UNCHANGED <<cur, last, mask, sd, storage, stack>>

\* The music task gives up (ret is false): it stops, asks for the next task
\* without looking at the answer, and returns.
MusicFails(line) ==
  /\ Running
  /\ cur = MUSIC /\ ~sd
  /\ queue' = LineQueue(line, queue)
  /\ \E a \in LineTargets(line, mask, Aimed) :
       LET s == Accepted(mask, a.id, TypeNext, storage)
       IN  IF s = {} \/ a.id = Crash THEN Takes(a) ELSE \E b \in s : Takes(b)
  /\ pc' = "manager"
  /\ UNCHANGED <<cur, last, mask, sd, storage, stack>>

-----------------------------------------------------------------------------
(***************************************************************************)
(* task_manager: the exit of one task and the init of the next.            *)
(***************************************************************************)

\* Faulty variant: BT's exit forgets the stack's state.
Suspend_KeepsSta ==
  /\ pc = "manager" /\ target \in Ids
  /\ IF cur = BT /\ bt # "waiting"
       THEN back' = TRUE /\ auto' = FALSE /\ UNCHANGED bt
       ELSE UNCHANGED <<bt, back, auto>>
  /\ quiet' = (quiet /\ cur # BT)
  /\ pc' = "suspended"
  /\ UNCHANGED <<manager, mask, queue, sd, storage, call, resume>>

\* Faulty variant: a switch to the running task is taken for no switch.
Suspend_SkipsSame ==
  /\ pc = "manager" /\ target \in Ids /\ target # cur
  /\ IF cur = BT /\ bt # "waiting"
       THEN back' = TRUE /\ bt' = "suspend" /\ auto' = FALSE
       ELSE UNCHANGED <<bt, back, auto>>
  /\ quiet' = (quiet /\ cur # BT)
  /\ pc' = "suspended"
  /\ UNCHANGED <<manager, mask, queue, sd, storage, call, resume>>

\* exit, first half: task_bt_exit puts the stack in the background.
Suspend ==
  /\ pc = "manager" /\ target \in Ids
  /\ IF cur = BT /\ bt # "waiting"
       THEN back' = TRUE /\ bt' = "suspend" /\ auto' = FALSE
       ELSE UNCHANGED <<bt, back, auto>>
  /\ quiet' = (quiet /\ cur # BT)
  /\ pc' = "suspended"
  /\ UNCHANGED <<manager, mask, queue, sd, storage, call, resume>>

\* exit, second half: task_clear_all_message.  The first task has no
\* predecessor to exit.
Leave ==
  /\ pc = "suspended"
  /\ IF cur = Unactive THEN UNCHANGED <<last, queue>>
     ELSE last' = cur /\ queue' = <<>>
  /\ pc' = "entering"
  /\ UNCHANGED <<cur, target, strayed, mask, sd, storage, stack>>

\* init and the start of the task's loop.
Enter ==
  /\ pc = "entering"
  /\ cur' = target
  /\ target' = Unactive /\ strayed' = FALSE
  /\ IF target = BT
       THEN /\ IF quiet \/ bt = "suspend"
                 THEN back' = FALSE /\ bt' = "ok" /\ resume' = FALSE
                 ELSE UNCHANGED <<back, bt, resume>>
            /\ quiet' = FALSE
       ELSE UNCHANGED <<back, bt, resume, quiet>>
  /\ pc' = "loop"
  /\ UNCHANGED <<last, mask, queue, sd, storage, call, auto>>

Init ==
  /\ pc = "manager" /\ target = BT /\ strayed = FALSE   \* main(): task_switch(TASK_ID_BT)
  /\ cur = Unactive /\ last = Unactive
  /\ mask = FALSE /\ queue = <<>> /\ sd = FALSE /\ storage \in BOOLEAN
  /\ call = FALSE /\ bt = "waiting" /\ back = FALSE
  /\ resume = FALSE /\ auto = FALSE /\ quiet = FALSE

\* An id outside the list leaves task_manager spinning without clear_wdt; a
\* crash hangs the core.  Either way the watchdog restarts the program.
Watchdog ==
  /\ target = Crash \/ (pc = "manager" /\ target \notin Ids)
  /\ pc' = "manager" /\ target' = BT /\ strayed' = FALSE
  /\ cur' = Unactive /\ last' = Unactive
  /\ mask' = FALSE /\ queue' = <<>> /\ sd' = FALSE
  /\ call' = FALSE /\ bt' = "waiting" /\ back' = FALSE
  /\ resume' = FALSE /\ auto' = FALSE /\ quiet' = FALSE
  /\ UNCHANGED storage

-----------------------------------------------------------------------------
(***************************************************************************)
(* Interrupts                                                              *)
(***************************************************************************)
Key(m) ==
  /\ queue' = Post(queue, m)
  /\ UNCHANGED <<pc, manager, mask, sd, storage, stack>>

Plug ==
  /\ ~storage
  /\ storage' = TRUE /\ sd' = TRUE
  /\ UNCHANGED <<pc, manager, mask, queue, stack>>

Unplug ==
  /\ storage
  /\ storage' = FALSE
  /\ UNCHANGED <<pc, manager, mask, queue, sd, stack>>

\* A call that comes or goes, seen by is_bt_stack_cannot_exist.
CallChanges ==
  /\ bt # "waiting"
  /\ call' = ~call
  /\ UNCHANGED <<pc, manager, mask, queue, sd, storage, bt, back, resume, auto, quiet>>

\* hook_btstack_resume: the stack wants Bluetooth in the foreground.
BackgroundResume(flag) ==
  /\ bt # "waiting"
  /\ quiet' = TRUE
  /\ IF back /\ ~resume
       THEN auto' = flag /\ resume' = TRUE /\ queue' = Post(queue, "BACK")
       ELSE UNCHANGED <<auto, resume, queue>>
  /\ UNCHANGED <<pc, manager, mask, sd, storage, call, bt, back>>

\* bredr_auto_suspend: what brought Bluetooth back is over.
AutoSuspend ==
  /\ auto /\ ~call
  /\ auto' = FALSE
  /\ queue' = Post(queue, "LAST")
  /\ UNCHANGED <<pc, manager, mask, sd, storage, call, bt, back, resume, quiet>>

\* A new connection forgets the way back.
Connected ==
  /\ auto
  /\ auto' = FALSE
  /\ UNCHANGED <<pc, manager, mask, queue, sd, storage, call, bt, back, resume, quiet>>

NoLine == "none"
Pass == \E line \in Lines \union {NoLine} : PassEvent(line) \/ PassMsg(line) \/ PassNone(line)
Leaving == \E line \in Lines \union {NoLine} : Stop(line)
Manage == Suspend \/ Leave \/ Enter
Interrupt ==
  \/ \E m \in Keys : Key(m)
  \/ Plug \/ Unplug
  \/ CallChanges \/ (\E flag \in BOOLEAN : BackgroundResume(flag))
  \/ AutoSuspend \/ Connected

Next ==
  \/ Pass
  \/ StackStarts
  \/ Leaving
  \/ \E line \in Lines \union {NoLine} : MusicFails(line)
  \/ Manage
  \/ Watchdog
  \/ Interrupt

\* The loop of the running task never stops, and a message is reached however
\* often devices are plugged: people do it slower than the loop turns.
Fairness ==
  /\ WF_vars(Pass) /\ SF_vars(\E line \in Lines \union {NoLine} : PassMsg(line))
  /\ WF_vars(StackStarts)
  /\ WF_vars(Leaving) /\ WF_vars(Manage) /\ WF_vars(Watchdog)

Spec == Init /\ [][Next]_vars /\ Fairness

-----------------------------------------------------------------------------
(***************************************************************************)
(* Properties.                                                             *)
(***************************************************************************)
Targets == Ids \union {Unactive, Beyond, Crash}

Flags ==
  /\ strayed \in BOOLEAN /\ mask \in BOOLEAN /\ sd \in BOOLEAN /\ storage \in BOOLEAN
  /\ call \in BOOLEAN /\ back \in BOOLEAN /\ resume \in BOOLEAN
  /\ auto \in BOOLEAN /\ quiet \in BOOLEAN

Ranges ==
  /\ pc \in {"manager", "suspended", "entering", "loop", "stopping"}
  /\ cur \in Ids \union {Unactive} /\ last \in Ids \union {Unactive}
  /\ target \in Targets
  /\ pc \in {"suspended", "entering"} => target \in Ids
  /\ queue \in Seq(Messages) /\ Len(queue) <= QueueMax
  /\ bt \in {"waiting", "ok", "suspend"}

\* Every variable keeps its range, and the ring never holds more than it can.
TypeOK == Flags /\ Ranges

\* The switch mask a call sets never outlives the Bluetooth task's loop: no
\* other task ever runs with task_switch disabled, although only the
\* Bluetooth task clears the mask.
MaskOnlyInBt == mask => cur = BT /\ pc = "loop"

\* A walk over the list can run past its end.
Open == \E i \in Ids, ok \in BOOLEAN : Walk(ok)[i, 0] \notin Ids

\* A task that has returned has left task_manager the id of a task, although
\* music does not look at task_switch's answer.  The exception is a switch whose
\* walk ran off a list it can run off: only then does task_manager find an id
\* without a task, TASK_ID_UNACTIVE or another, and spin.
TargetKnown == pc # "loop" => target \in Ids \/ (strayed /\ Open)

\* The stack is in the background exactly while another task runs, and the
\* wish to come back (resume_flag) is only remembered there.
BackgroundMatches ==
  /\ back <=> bt = "suspend"
  /\ resume => back
  /\ pc = "loop" => (back <=> cur # BT /\ bt # "waiting")

\* While a call goes on that the loop has seen, nothing moves the task: no
\* key, device, serial command or message of the stack itself.
CallStaysInBt == [][mask /\ call => UNCHANGED <<pc, cur, target>>]_vars

\* The pin of a call ends with the call: the flag is only refreshed by a pass of
\* the Bluetooth task, and one always comes.
MaskEnds == (mask /\ ~call) ~> (~mask \/ call)

\* Whatever task_switch ran into, some task comes to run in the end: the
\* registered one it found, or the first one after the watchdog.
ComesBack == pc = "stopping" ~> pc = "loop"

\* task_manager.c:158: "count the skips; past the total, go to mode 0".
StaysInList == strayed => target \in Ids

\* task_bt.c:317: "a phone call automatically returns to Bluetooth".
PhoneComesBack == resume ~> (pc = "loop" /\ cur = BT)
=============================================================================
