------------------------------ MODULE HotPlug ------------------------------
(***************************************************************************)
(* apps/common/dev_manage.c and what follows from it: the detection of SD  *)
(* card and USB disk in the timer interrupt, the hot-plug events, their    *)
(* handling in task_common.c (mount, unmount, the switch to MUSIC) and in  *)
(* task_music.c (the device the music task plays from, the mode tone that  *)
(* shares its decoder, the decoder's errors).                              *)
(*                                                                         *)
(* A pass of a task's loop is task_get_msg, the schedule of the resources  *)
(* (a step of its own only when a player waits for one) and what is done   *)
(* with the message: interrupts fall between them, and a mount takes long. *)
(* The order of the other mode switches is TaskSwitch's; here a switch is  *)
(* accepted or not.                                                        *)
(***************************************************************************)
EXTENDS Naturals, Sequences

CONSTANTS
  Devices,     \* sd1 and usb
  Movable,     \* bound: those that come and go while the program runs
  None,        \* no device
  No,          \* event numbers (msg.h): [{"on", "off", "succ"} \X Devices -> Nat]
  QueueMax,    \* bound: messages in the ring
  KeyRoom      \* bound: messages in the ring when a key adds one

Events == {"on", "off", "succ"} \X Devices

ASSUME HotPlugAssumption ==
  /\ Movable \subseteq Devices /\ None \notin Devices
  /\ No \in [Events -> Nat]
  /\ \A e, f \in Events : No[e] = No[f] => e = f
  /\ \A d, f \in Devices : No[<<"on", d>>] < No[<<"off", d>>] /\ No[<<"off", d>>] < No[<<"succ", f>>]
  /\ QueueMax \in Nat /\ KeyRoom \in 0 .. QueueMax

VARIABLES
  plugged,   \* the devices in their sockets
  online,    \* the devices dev_mg has seen come and not go
  events,    \* the pending events
  queue,     \* the messages in the ring
  hand,      \* what task_get_msg has returned and the pass has not dealt with
  due,       \* the pass has not yet looked whether the waiting player may start
  dpt,       \* the devices with a partition table (dev_dpt_info_init)
  left,      \* history: of those, the ones dev_unmount failed for
  owed,      \* history: the devices whose ONLINE was posted and not served
  cur,       \* the task: "BT" or "MUSIC"
  tone,      \* the mode tone: "none", "playing", or "dead": it holds the
             \* resource but its decoder was taken
  music      \* the music task's player: see Silent

hardware == <<plugged, online, owed>>
table == <<dpt, left>>
vars == <<hardware, events, queue, hand, due, table, cur, tone, music>>

Nothing == <<"none", None>>

\* The music task: music_start, the resource not granted yet, cur_use_dev or,
\* once the player runs, its device, its status, and whether its decoder runs.
Silent(d) == [started |-> FALSE, wait |-> FALSE, dev |-> d, st |-> "stop", live |-> FALSE]

\* Faulty variant: the ring is not limited.
Post_Unbounded(q, m) == Append(q, m)

Post(q, m) == IF Len(q) < QueueMax THEN Append(q, m) ELSE q

-----------------------------------------------------------------------------
(***************************************************************************)
(* Interrupts                                                              *)
(***************************************************************************)
Plug(d) ==
  /\ d \in Movable \ plugged
  /\ plugged' = plugged \union {d}
  /\ UNCHANGED <<online, owed, events, queue, hand, due, table, cur, tone, music>>

Unplug(d) ==
  /\ d \in Movable \cap plugged
  /\ plugged' = plugged \ {d}
  /\ UNCHANGED <<online, owed, events, queue, hand, due, table, cur, tone, music>>

\* Faulty variant: an ONLINE is dropped while any device's OFFLINE waits.
Refused_AnyDevice(d) == \E f \in Devices : <<"off", f>> \in events

\* dev_handle_to_msg: an ONLINE is not posted behind the device's OFFLINE.
Refused(d) == <<"off", d>> \in events

\* Faulty variant: OFFLINE, too, is posted only once the other is served.
Posted_OffWaits(d) ==
  IF d \in plugged THEN IF Refused(d) THEN {} ELSE {<<"on", d>>}
  ELSE IF <<"on", d>> \in events THEN {} ELSE {<<"off", d>>}

\* dev_handle_to_msg
Posted(d) ==
  IF d \in plugged THEN IF Refused(d) THEN {} ELSE {<<"on", d>>}
  ELSE {<<"off", d>>}

\* dev_detect_task, from timer 0: every device is polled; a driver may need
\* several polls to see a change.
Detect ==
  /\ \E seen \in SUBSET ((plugged \ online) \union (online \ plugged)) :
       /\ seen # {}
       /\ online' = (online \ seen) \union (seen \cap plugged)
       /\ events' = events \union UNION {Posted(d) : d \in seen}
       /\ owed' = (owed \ seen) \union {d \in seen \cap plugged : <<"off", d>> \notin events}
  /\ UNCHANGED <<plugged, queue, hand, due, table, cur, tone, music>>

Key(m) ==
  /\ Len(queue) < KeyRoom
  /\ queue' = Append(queue, m)
  /\ UNCHANGED <<hardware, events, hand, due, table, cur, tone, music>>

\* music_tone_err_deal in the decoder's interrupt: the tone is over; a
\* decoder error that is none of those named there posts no message.
ToneEnds(said) ==
  /\ tone = "playing"
  /\ tone' = "none"
  /\ queue' = IF said THEN Post(queue, "START") ELSE queue
  /\ UNCHANGED <<hardware, events, hand, due, table, cur, music>>

\* music_player_decoder_err_deal: the file is over (or faulty), or the device
\* is gone; it depends on what dev_mg has seen.
ErrMsg == IF music.dev \in online THEN "END" ELSE "ERR"

\* music_decoder_decode_deal: an error or the end of the file is reported
\* once and clears busy.
DecodeEnds ==
  /\ cur = "MUSIC" /\ music.live /\ music.st = "play"
  /\ queue' = Post(queue, ErrMsg)
  /\ music' = [music EXCEPT !.live = FALSE]
  /\ UNCHANGED <<hardware, events, hand, due, table, cur, tone>>

-----------------------------------------------------------------------------
(***************************************************************************)
(* task_get_msg                                                            *)
(***************************************************************************)
First(e) == \A f \in events : No[e] <= No[f]

\* A player waits for the resource.
Due == cur = "MUSIC" /\ music.wait

Ready == hand = Nothing /\ ~due

GetEvent ==
  /\ Ready /\ due' = Due
  /\ \E e \in events :
       /\ First(e)
       /\ events' = events \ {e}
       /\ hand' = e
  /\ UNCHANGED <<hardware, queue, table, cur, tone, music>>

\* music_msg_filter: while the tone plays, the music task drops the keys that
\* operate the player.
Filtered(m) == cur = "MUSIC" /\ tone # "none" /\ m = "PP"

\* Faulty variant: messages come before events.
GetMsg_BeforeEvents ==
  /\ Ready /\ due' = Due /\ queue # <<>>
  /\ hand' = IF Filtered(Head(queue)) THEN Nothing ELSE <<Head(queue), None>>
  /\ queue' = Tail(queue)
  /\ UNCHANGED <<hardware, events, table, cur, tone, music>>

GetMsg ==
  /\ Ready /\ due' = Due /\ events = {} /\ queue # <<>>
  /\ hand' = IF Filtered(Head(queue)) THEN Nothing ELSE <<Head(queue), None>>
  /\ queue' = Tail(queue)
  /\ UNCHANGED <<hardware, events, table, cur, tone, music>>

-----------------------------------------------------------------------------
(***************************************************************************)
(* The music player                                                        *)
(***************************************************************************)
Playable == plugged \cap online

\* music_player_play with its error handling: it plays from some device that
\* can be read, or from none; partitions it finds useless are removed.
PlayFrom(d, known, ok) ==
  \E good \in SUBSET known :
    /\ dpt' = good
    /\ IF ok THEN \E e \in good \cap Playable :
                    music' = [started |-> TRUE, wait |-> FALSE, dev |-> e,
                              st |-> "play", live |-> TRUE]
       ELSE music' = [started |-> TRUE, wait |-> FALSE, dev |-> d, st |-> "stop", live |-> FALSE]

\* music_play_start with cur_use_dev = d: the player is created in any case,
\* on the decoder the tone may be using; it plays once it has the resource.
\* q is the ring before; a failure asks for the next task.
MusicStart(d, q) ==
  IF tone = "none"
    THEN /\ UNCHANGED tone
         /\ \E ok \in BOOLEAN :
              /\ PlayFrom(d, dpt, ok)
              /\ queue' = IF ok THEN q ELSE Post(q, "CHANGE")
    ELSE /\ tone' = "dead"
         /\ music' = [Silent(d) EXCEPT !.started = TRUE, !.wait = TRUE]
         /\ UNCHANGED dpt /\ queue' = q

-----------------------------------------------------------------------------
(***************************************************************************)
(* The pass: task_common_msg_deal, then the task's own switch.             *)
(***************************************************************************)
\* The exit of the running task clears its messages, not its events.
EnterMusic(d) ==
  /\ cur' = "MUSIC"
  /\ queue' = <<>>
  /\ music' = Silent(d)
  /\ tone' \in IF tone = "dead" THEN {"dead", "playing"} ELSE {"playing"}

EnterBt ==
  /\ cur' = "BT"
  /\ queue' = <<>>
  /\ music' = Silent(None)
  /\ tone' \in IF tone = "dead" THEN {"dead", "none"} ELSE {"none"}

\* MSG_SD1_ONLINE and MSG_HUSB_ONLINE after dev_online_mount succeeded.  In the
\* first two seconds powerup_dev_detect_ignore mounts in silence; the switch
\* to MUSIC may be refused.
Mounted(d) ==
  \/ /\ cur = "MUSIC"
     /\ events' = events \union {<<"succ", d>>}
     /\ UNCHANGED <<queue, cur, music, tone>>
  \/ cur = "BT" /\ EnterMusic(d) /\ UNCHANGED events
  \/ UNCHANGED <<events, queue, cur, music, tone>>

\* dev_online_mount, which may fail.
DealOn(d) ==
  /\ hand = <<"on", d>> /\ ~due
  /\ hand' = Nothing /\ UNCHANGED due
  /\ owed' = owed \ {d}
  /\ \/ /\ UNCHANGED <<events, queue, table, cur, tone, music>>
     \/ /\ d \in plugged
        /\ dpt' = dpt \union {d}
        /\ left' = left \ {d}
        /\ Mounted(d)
  /\ UNCHANGED <<plugged, online>>

\* Faulty variant: a paused player is not told.
AfterOff_Silent(d) == queue' = queue

\* MSG_SD1_OFFLINE and MSG_HUSB_OFFLINE in the music task: a playing decoder
\* runs into an error by itself, a paused one does not.
AfterOff(d) ==
  queue' = IF cur = "MUSIC" /\ music.started /\ music.dev = d /\ music.st = "pause"
             THEN Post(queue, "ERR") ELSE queue

\* dev_offline_unmount: the table is kept when the driver refuses.
DealOff(d) ==
  /\ hand = <<"off", d>> /\ ~due
  /\ hand' = Nothing /\ UNCHANGED due
  /\ \/ dpt' = dpt \ {d} /\ left' = left \ {d}
     \/ UNCHANGED dpt /\ left' = left \union ({d} \cap dpt)
  /\ AfterOff(d)
  /\ UNCHANGED <<hardware, events, cur, tone, music>>

\* MSG_SD1_MOUNT_SUCC and MSG_USB_MOUNT_SUCC: only the music task looks.
DealSucc(d) ==
  /\ hand = <<"succ", d>> /\ ~due
  /\ hand' = Nothing /\ UNCHANGED due
  /\ IF cur = "MUSIC" THEN MusicStart(d, queue) ELSE UNCHANGED <<queue, dpt, tone, music>>
  /\ left' = left \cap dpt'
  /\ UNCHANGED <<hardware, events, cur>>

\* SYS_EVENT_PLAY_SEL_END: the first one starts the player.
DealStart ==
  /\ hand = <<"START", None>> /\ ~due
  /\ hand' = Nothing /\ UNCHANGED due
  /\ IF cur = "MUSIC" /\ ~music.started THEN MusicStart(music.dev, queue)
     ELSE UNCHANGED <<queue, dpt, tone, music>>
  /\ left' = left \cap dpt'
  /\ UNCHANGED <<hardware, events, cur>>

\* Faulty variant: a player that finds nothing to play stays.
DealErr_Stays ==
  /\ hand \in {<<"END", None>>, <<"ERR", None>>} /\ ~due
  /\ hand' = Nothing /\ UNCHANGED due
  /\ IF cur = "MUSIC"
       THEN \E ok \in BOOLEAN :
              /\ PlayFrom(music.dev, dpt, ok)
              /\ UNCHANGED <<cur, queue, tone>>
       ELSE UNCHANGED <<dpt, music, cur, queue, tone>>
  /\ left' = left \cap dpt'
  /\ UNCHANGED <<hardware, events>>

\* SYS_EVENT_DEC_END: the next file.  SYS_EVENT_DEC_DEVICE_ERR: the next
\* device.  The task gives up when there is none.
DealErr ==
  /\ hand \in {<<"END", None>>, <<"ERR", None>>} /\ ~due
  /\ hand' = Nothing /\ UNCHANGED due
  /\ IF cur = "MUSIC"
       THEN \/ PlayFrom(music.dev, dpt, TRUE) /\ UNCHANGED <<cur, queue, tone>>
            \/ (\E good \in SUBSET dpt : dpt' = good) /\ EnterBt
       ELSE UNCHANGED <<dpt, music, cur, queue, tone>>
  /\ left' = left \cap dpt'
  /\ UNCHANGED <<hardware, events>>

\* music_decoder_pp
DealPp ==
  /\ hand = <<"PP", None>> /\ ~due
  /\ hand' = Nothing /\ UNCHANGED due
  /\ music' = IF cur = "MUSIC"
                THEN [music EXCEPT !.st = IF @ = "play" THEN "pause" ELSE "play"]
                ELSE music
  /\ UNCHANGED <<hardware, events, queue, table, cur, tone>>

\* MSG_CHANGE_WORKMODE; task_music_skip_check finds a device that is online.
DealChange ==
  /\ hand = <<"CHANGE", None>> /\ ~due
  /\ hand' = Nothing /\ UNCHANGED due
  /\ \/ cur = "MUSIC" /\ EnterBt
     \/ cur = "BT" /\ \E d \in online : EnterMusic(d)
     \/ cur = "BT" /\ UNCHANGED <<cur, queue, tone, music>>
  /\ UNCHANGED <<hardware, events, table>>

\* resource_manage_schedule, at the head of task_common_msg_deal, with a
\* message in hand or without: the waiting player gets a resource that is free.
Schedule ==
  /\ due \/ (Ready /\ events = {} /\ queue = <<>> /\ Due)
  /\ due' = FALSE
  /\ IF tone = "none" THEN MusicStart(music.dev, queue)
     ELSE UNCHANGED <<queue, dpt, tone, music>>
  /\ left' = left \cap dpt'
  /\ UNCHANGED <<hardware, events, hand, cur>>

-----------------------------------------------------------------------------
Init ==
  /\ plugged \in SUBSET Devices /\ online = {} /\ events = {}
  /\ queue = <<>> /\ hand = Nothing /\ due = FALSE
  /\ dpt = {} /\ left = {} /\ owed = {}
  /\ cur = "BT" /\ tone = "none" /\ music = Silent(None)

Get == GetEvent \/ GetMsg
Deal ==
  \/ \E d \in Devices : DealOn(d) \/ DealOff(d) \/ DealSucc(d)
  \/ DealStart \/ DealErr \/ DealPp \/ DealChange
Interrupt ==
  \/ \E d \in Devices : Plug(d) \/ Unplug(d)
  \/ Detect \/ DecodeEnds
  \/ Key("CHANGE") \/ Key("PP")
  \/ \E said \in BOOLEAN : ToneEnds(said)

Next == Get \/ Deal \/ Schedule \/ Interrupt

\* The loop turns, timer 0 runs, a decoder that reads from a device that is
\* gone fails; messages are reached because people plug slower than that.
Fairness ==
  /\ WF_vars(Get) /\ SF_vars(GetMsg) /\ WF_vars(Deal) /\ WF_vars(Schedule)
  /\ WF_vars(Detect)
  /\ WF_vars(DecodeEnds /\ music.dev \notin plugged)

Spec == Init /\ [][Next]_vars /\ Fairness

-----------------------------------------------------------------------------
(***************************************************************************)
(* Properties.                                                             *)
(***************************************************************************)
Messages == {"CHANGE", "PP", "START", "END", "ERR"}

\* Every variable keeps its range.
TypeOK ==
  /\ plugged \subseteq Devices /\ online \subseteq Devices
  /\ events \subseteq Events
  /\ queue \in Seq(Messages) /\ Len(queue) <= QueueMax
  /\ hand \in Events \union (Messages \X {None}) \union {Nothing}
  /\ due \in BOOLEAN
  /\ dpt \subseteq Devices /\ left \subseteq dpt
  /\ owed \subseteq online
  /\ cur \in {"BT", "MUSIC"}
  /\ tone \in {"none", "playing", "dead"}
  /\ music \in [started : BOOLEAN, wait : BOOLEAN, dev : Devices \union {None},
                st : {"play", "pause", "stop"}, live : BOOLEAN]

\* A partition table outlives its device only until the OFFLINE that is
\* already on its way, or because the driver refused the unmount; a mount of
\* a device that went while it lasted is undone the same way.
TableFollows ==
  \A d \in Devices \ online :
    d \in dpt \/ <<"on", d>> \in events \/ hand = <<"on", d>>
      => <<"off", d>> \in events \/ hand = <<"off", d>> \/ d \in left

\* Every plug-in leads to a mount, except the one that finds the OFFLINE of
\* the unplugging before still unserved.
NotForgotten ==
  \A d \in owed : <<"on", d>> \in events \/ hand = <<"on", d>>

\* EVENT_xxx_ON_SUCC carries a device to the music task across passes, and no
\* other task ever takes it: the events that come before it do not switch
\* tasks there, and the messages that do come after it.
SuccInMusic == \A d \in Devices : <<"succ", d>> \in events \/ hand = <<"succ", d>> => cur = "MUSIC"

\* A paused player whose device is gone, and has not been told yet, does not
\* stay with it.
OnGone(d) == cur = "MUSIC" /\ music.started /\ music.dev = d /\ music.st = "pause" /\ d \notin online
PausedLeaves == \A d \in Devices : (OnGone(d) /\ <<"off", d>> \in events) ~> ~OnGone(d)

\* Without any device the music task gives up by itself, unless it is paused,
\* still waits for the decoder, or a device comes.
NoneLeft == plugged = {} /\ cur = "MUSIC" /\ music.started /\ ~music.wait /\ music.st # "pause"
GivesUp == NoneLeft ~> ~NoneLeft

\* task_music.c:274: "before the tone is over, filter the messages that
\* operate the decoder".
ToneUndisturbed == tone # "dead"
=============================================================================
