------------------------------- MODULE Player -------------------------------
(***************************************************************************)
(* apps/common/music_player/music_player.c and file_operate.c under the    *)
(* music task: music_player_play looks over devices and files until one    *)
(* decodes, with its error handling, the break points in the VM, and the   *)
(* messages of the task, the decoder and the devices that set it off.      *)
(*                                                                         *)
(* An iteration of the loop of music_player_play is three actions (device, *)
(* file system, file and decoder), so that devices come and go in between. *)
(* Which task runs, the tones and the order of the events are HotPlug's.   *)
(***************************************************************************)
EXTENDS Naturals, Sequences, FiniteSetsExt

CONSTANTS
  DevNum,      \* the music devices are 1 .. DevNum, in the order dev_mg lists them
  Movable,     \* bound: those that come and go while the program runs
  Moves,       \* bound: how often they do
  Files,       \* what a first cluster and a size identify
  Good, Zero,  \* those that decode; of those, the ones without any playing time
  Folder,      \* the folder of each file
  Contents,    \* the lists of files each device may be plugged in with
  NoFile,
  RingRoom     \* bound: messages of the decoder and of devices in the ring

Devices == 1 .. DevNum

ASSUME PlayerAssumption ==
  /\ DevNum \in Nat \ {0} /\ Movable \subseteq Devices /\ Moves \in Nat
  /\ Zero \subseteq Good /\ Good \subseteq Files /\ NoFile \notin Files
  /\ Folder \in [Files -> Nat]
  /\ Contents \in [Devices -> SUBSET Seq(Files)]
  /\ \A d \in Devices : Contents[d] # {}
  /\ RingRoom \in Nat

VARIABLES
  plugged, online,  \* in the socket; seen by dev_mg
  events,           \* hot-plug events not served yet
  dpt,              \* the devices with a partition
  content,          \* the files of each device, none of one that is not plugged
  moves,            \* bound: the movements left
  pc,       \* "gone": another task runs; "idle": the loop of the music task;
            \* "device", "system", "file": in the loop of music_player_play
  ring,     \* END, ERR (decoder, device) and CHANGE in the ring
  mode,     \* cur_play_mode
  dev,      \* fop_info->dev, in another task cur_use_dev
  devsel,   \* cur_dev_mode
  sel,      \* cur_sel_mode
  num,      \* filenum
  total,    \* total_file
  errs,     \* total_err_file
  auto,     \* auto_file_next
  open,     \* the file file_hdl is open on
  st,       \* the decoder's status
  run,      \* "none": no decoder, "busy": it runs, "over": it has reported its end
  bp,       \* the break points in the VM: the file, its position left out
  op,       \* history: what the last music_player_play was called for
  calm,     \* history: a file was open, and no device has come or gone since,
            \* nor before unseen
  from,     \* history: the device and number it started at
  last      \* history: the file last played on each device

hardware == <<plugged, online, events, moves>>
fop == <<dev, devsel, sel, num, total, errs, auto, open>>
decoder == <<st, run>>
history == <<op, calm, from>>
vars == <<hardware, dpt, content, pc, ring, mode, fop, decoder, bp, history, last>>

Modes == {"ALL", "LGDEV", "ONE", "RANDOM", "FOLDER"}
Sels == {"NEXT", "AUTO", "FIRST", "BP", "LAST", "PREV", "SPEC", "NEXTDIR", "PREVDIR"}

Places(d, f) == {i \in 1 .. Len(content[d]) : content[d][i] = f}
Has(d, f) == Places(d, f) # {}
Without(s, i) == SubSeq(s, 1, i - 1) \o SubSeq(s, i + 1, Len(s))

-----------------------------------------------------------------------------
(***************************************************************************)
(* Devices.  A device is not changed faster than its absence is seen.      *)
(***************************************************************************)
Plug(d) ==
  /\ moves > 0 /\ d \in Movable \ (plugged \union online)
  /\ moves' = moves - 1
  /\ plugged' = plugged \union {d}
  /\ content' \in {[content EXCEPT ![d] = c] : c \in Contents[d]}
  /\ UNCHANGED <<online, events, dpt, pc, ring, mode, fop, decoder, bp, history, last>>

Unplug(d) ==
  /\ moves > 0 /\ d \in Movable \cap plugged
  /\ moves' = moves - 1
  /\ plugged' = plugged \ {d}
  /\ content' = [content EXCEPT ![d] = <<>>]
  /\ calm' = FALSE
  /\ UNCHANGED <<online, events, dpt, pc, ring, mode, fop, decoder, bp, op, from, last>>

\* dev_detect_deal with dev_handle_to_msg; an ONLINE behind an OFFLINE is not posted.
Detect(d) ==
  /\ (d \in plugged) # (d \in online)
  /\ IF d \in plugged
       THEN /\ online' = online \union {d}
            /\ events' = IF <<"off", d>> \in events THEN events
                         ELSE events \union {<<"on", d>>}
       ELSE online' = online \ {d} /\ events' = events \union {<<"off", d>>}
  /\ calm' = FALSE
  /\ UNCHANGED <<plugged, moves, dpt, content, pc, ring, mode, fop, decoder, bp, op, from, last>>

\* music_player_decoder_err_deal: the decoder stops by itself, and says so once.
DecodeEnds ==
  /\ st = "play" /\ run = "busy" /\ Len(ring) < RingRoom
  /\ ring' = Append(ring, IF dev \in online THEN "END" ELSE "ERR")
  /\ run' = "over"
  /\ UNCHANGED <<hardware, dpt, content, pc, mode, fop, st, bp, history, last>>

-----------------------------------------------------------------------------
(***************************************************************************)
(* music_player_play: what is done before its loop.                        *)
(***************************************************************************)
\* Faulty variant: the slot is that of the last device in the list.
Saved_LastSlot(d) ==
  IF st # "stop" /\ run # "none" /\ online # {} THEN [bp EXCEPT ![Max(online)] = open] ELSE bp

\* music_player_save_break_point, into the slot of fop_info->dev.
Saved(d) ==
  IF st # "stop" /\ run # "none" THEN [bp EXCEPT ![d] = open] ELSE bp

\* All that was plugged in or pulled out has been seen and served.
Quiet == online = plugged /\ events = {}

\* Called with the file and device selection s and ds and the file number n.
Play(why, s, ds, n) ==
  /\ bp' = IF ds # "CUR" THEN Saved(dev) ELSE bp
  /\ st' = "stop" /\ run' = "none"
  /\ pc' = "device"
  /\ sel' = s /\ devsel' = ds /\ num' = n
  /\ op' = why /\ calm' = (Quiet /\ dev \in dpt /\ run # "none")
  /\ from' = IF why = "file" THEN <<dev, num>> ELSE <<0, 0>>
  /\ UNCHANGED <<hardware, dpt, mode, dev, errs, auto, open, last>>

\* music_play_start on device d: a player created anew, music_player_play_spec_dev.
Start(d) ==
  /\ pc' = "device"
  /\ dev' = d /\ devsel' = "SPEC" /\ sel' = "BP"
  /\ num' = 0 /\ total' = 0 /\ errs' = 0 /\ auto' = TRUE /\ open' = NoFile
  /\ st' = "stop" /\ run' = "none"
  /\ op' = "start" /\ calm' = Quiet /\ from' = <<0, 0>>

\* music_player_operation(op)
Operate(s) ==
  Play(IF s \in {"NEXTDIR", "PREVDIR"} THEN "folder" ELSE "file", s, devsel, num)
  /\ UNCHANGED <<content, total>>

\* music_player_play_next_dev
NextDev == Play("dev", "BP", "NEXT", num) /\ UNCHANGED <<content, total>>

-----------------------------------------------------------------------------
(***************************************************************************)
(* The loop of music_player_play, always with is_auto: one iteration is    *)
(* "device", "system", "file"; an error sets the selection of the next.    *)
(***************************************************************************)
\* What dev_get_first, _next, _prev and _last go through: the devices online
\* that have a partition left.
Listed == online \cap dpt

Following(d) ==
  IF \E e \in Listed : e > d THEN Min({e \in Listed : e > d}) ELSE Min(Listed)

Preceding(d) ==
  IF \E e \in Listed : e < d THEN Max({e \in Listed : e < d}) ELSE Max(Listed)

Over == op' = "none" /\ from' = <<0, 0>>

\* The player is freed with the task, and the ring cleared; cur_use_dev stays.
Destroyed ==
  /\ pc' = "gone" /\ ring' = <<>>
  /\ devsel' = "CUR" /\ sel' = "BP" /\ num' = 0 /\ total' = 0 /\ errs' = 0
  /\ auto' = TRUE /\ open' = NoFile

\* Faulty variant: the caller is not told.
GiveUp_Unsaid ==
  /\ IF op = "start"
       THEN pc' = "idle" /\ UNCHANGED <<ring, devsel, sel, num, total, errs, auto, open>>
       ELSE Destroyed
  /\ Over

\* Faulty variant: the change is posted whatever the ring holds.
GiveUp_NoRoom ==
  /\ IF op = "start"
       THEN /\ pc' = "idle" /\ ring' = Append(ring, "CHANGE")
            /\ UNCHANGED <<devsel, sel, num, total, errs, auto, open>>
       ELSE Destroyed
  /\ Over

\* music_player_play returns false: music_play_mutex_init posts the change of
\* the task, every other caller changes it at once.
GiveUp ==
  /\ IF op = "start"
       THEN /\ pc' = "idle"
            /\ ring' = IF Len(ring) <= RingRoom THEN Append(ring, "CHANGE") ELSE ring
            /\ UNCHANGED <<devsel, sel, num, total, errs, auto, open>>
       ELSE Destroyed
  /\ Over

\* Faulty variant: a device with nothing to play stays in the list.
Remove_Not(d) == UNCHANGED dpt

Remove(d) == dpt' = dpt \ {d}

\* Faulty variant: one file too few is tried.
Exhausted_Early == dev \notin online \/ errs + 2 >= total

Exhausted == dev \notin online \/ errs + 1 >= total

\* Faulty variant: a faulty file always sends to the one after it.
Onward_Forth(a) == "NEXT"

\* The way on, a being auto_file_next.
Onward(a) == IF a THEN "NEXT" ELSE "PREV"

\* file_operate_err_file_statistics_deal
Statistics(a) ==
  IF Exhausted
    THEN Remove(dev) /\ errs' = 0 /\ sel' = "BP" /\ devsel' = Onward(a)
    ELSE errs' = errs + 1 /\ sel' = Onward(a) /\ UNCHANGED <<dpt, devsel>>

\* file_operate_err_deal, after music_player_clear_break_point.  "FILE" stands
\* for a wrong number, a file that does not open and one that does not decode.
Recover(err, a) ==
  /\ pc' = "device" /\ UNCHANGED <<op, from>>
  /\ bp' = IF err \in {"END", "PRE"} THEN [bp EXCEPT ![dev] = NoFile] ELSE bp
  /\ CASE err = "END" -> sel' = "FIRST" /\ devsel' = "NEXT" /\ UNCHANGED <<errs, dpt>>
       [] err = "PRE" -> sel' = "LAST" /\ devsel' = "PREV" /\ UNCHANGED <<errs, dpt>>
       [] err = "BPFILE" -> /\ sel' = IF a THEN "FIRST" ELSE "LAST"
                            /\ UNCHANGED <<devsel, errs, dpt>>
       [] err = "OFFLINE" -> sel' = "BP" /\ devsel' = "NEXT" /\ UNCHANGED <<errs, dpt>>
       [] err = "NOFIND" -> sel' = "BP" /\ devsel' = Onward(a) /\ UNCHANGED errs /\ Remove(dev)
       [] err = "FILE" -> Statistics(a)

\* file_operate_dev_sel
Chosen(d) ==
  /\ pc' = "system"
  /\ dev' = d
  /\ errs' = IF devsel = "CUR" THEN errs ELSE 0
  /\ UNCHANGED <<dpt, ring, devsel, sel, num, total, auto, open, bp, op, from>>

DevSel ==
  /\ pc = "device"
  /\ CASE devsel \in {"CUR", "SPEC"} ->
            IF dev \in online THEN Chosen(dev)
            ELSE Recover("OFFLINE", auto) /\ UNCHANGED <<dev, ring, num, total, auto, open>>
       [] devsel \in {"NEXT", "PREV"} ->
            IF Listed = {} THEN GiveUp /\ UNCHANGED <<dpt, dev, bp>>
            ELSE Chosen(IF devsel = "NEXT" THEN Following(dev) ELSE Preceding(dev))
  /\ UNCHANGED <<hardware, content, mode, decoder, calm, last>>

\* file_operate_dev_bp, with music_player_read_break_point before it.
DevBp ==
  /\ pc = "system"
  /\ IF devsel = "CUR"
       THEN pc' = "file" /\ UNCHANGED <<dpt, devsel, sel, errs, total, open, bp, op, from>>
     ELSE /\ open' = NoFile
          /\ IF dev \in plugged \cap dpt THEN total' = Len(content[dev]) ELSE UNCHANGED total
          /\ IF dev \notin plugged \cap dpt \/ content[dev] = <<>>
               THEN Recover("NOFIND", auto)
             ELSE IF sel = "BP" /\ ~Has(dev, bp[dev])
               THEN /\ pc' = "device" /\ devsel' = "CUR"
                    /\ sel' = IF auto THEN "FIRST" ELSE "LAST"
                    /\ UNCHANGED <<dpt, errs, bp, op, from>>
             ELSE pc' = "file" /\ devsel' = "CUR" /\ UNCHANGED <<dpt, sel, errs, bp, op, from>>
  /\ UNCHANGED <<hardware, content, ring, mode, dev, num, auto, decoder, calm, last>>

\* The folder of the open file, the whole device when there is none.
InFolder == {i \in 1 .. Len(content[dev]) : open # NoFile /\ Folder[content[dev][i]] = Folder[open]}

Bounds ==
  IF mode = "FOLDER" /\ InFolder # {} THEN <<Min(InFolder), Max(InFolder)>>
  ELSE IF mode = "ONE" /\ sel = "AUTO" THEN <<num, num>>
  ELSE <<1, total>>

\* The first files of the folders: what FS_IO_CHANGE_FOLDER can give.
Heads == {i \in 1 .. Len(content[dev]) :
            i = 1 \/ Folder[content[dev][i]] # Folder[content[dev][i - 1]]}

Number(n) == [err |-> "none", num |-> n]
Error(e) == [err |-> e, num |-> num]

\* Faulty variant: only the repetition of a file, or of a folder, wraps.
Ranged_Leaves(c) ==
  IF c > Bounds[2] THEN IF mode \in {"ONE", "FOLDER"} THEN Number(Bounds[1]) ELSE Error("END")
  ELSE IF c < Bounds[1] THEN IF mode \in {"ONE", "FOLDER"} THEN Number(Bounds[2]) ELSE Error("PRE")
  ELSE Number(c)

Ranged(c) ==
  IF c > Bounds[2] THEN IF mode # "ALL" THEN Number(Bounds[1]) ELSE Error("END")
  ELSE IF c < Bounds[1] THEN IF mode # "ALL" THEN Number(Bounds[2]) ELSE Error("PRE")
  ELSE Number(c)

\* An unsigned 0 - 1 is past every number.
Stepped(r) ==
  LET c == IF sel # "PREV" THEN r + 1 ELSE IF r = 0 THEN total + num + 1 ELSE r - 1
  IN  IF mode = "RANDOM" /\ c = num THEN c + 1 ELSE c

\* random_number replaces the number, whatever the selection is.
Draws == IF mode = "RANDOM" THEN 1 .. (IF total = 0 THEN 1 ELSE total) ELSE {num}

\* file_operate_file_sel down to the number it opens.
Selected ==
  CASE sel \in {"NEXT", "AUTO", "PREV"} -> {Ranged(Stepped(r)) : r \in Draws}
    [] sel = "FIRST" -> {Number(IF mode = "FOLDER" THEN Bounds[1] ELSE 1)}
    [] sel = "LAST" -> {Number(IF mode = "FOLDER" THEN Bounds[2] ELSE total)}
    [] sel = "SPEC" -> {IF r = 0 \/ r > total THEN Error("FILE") ELSE Ranged(r) : r \in Draws}
    [] sel \in {"NEXTDIR", "PREVDIR"} -> {Error("FILE")} \union {Number(i) : i \in Heads}
    [] sel = "BP" -> {Number(i) : i \in Places(dev, bp[dev])}

\* file_operate_op and music_decoder_play with the file of number n.
Opened(n, a) ==
  IF n \notin 1 .. Len(content[dev])
    THEN Recover("FILE", a) /\ auto' = a /\ UNCHANGED <<open, decoder, last>>
  ELSE IF content[dev][n] \notin Good
    THEN Recover("FILE", a) /\ auto' = a /\ open' = content[dev][n] /\ UNCHANGED <<decoder, last>>
  ELSE /\ open' = content[dev][n]
       /\ st' = "play" /\ run' = "busy"
       /\ bp' = [bp EXCEPT ![dev] = open']
       /\ last' = [last EXCEPT ![dev] = open']
       /\ IF open' \in Zero THEN auto' = a /\ UNCHANGED errs ELSE auto' = TRUE /\ errs' = 0
       /\ pc' = "idle" /\ Over
       /\ UNCHANGED <<dpt, devsel, sel>>

FileSel ==
  /\ pc = "file"
  /\ LET a == IF sel \in {"NEXT", "AUTO"} THEN TRUE ELSE IF sel = "PREV" THEN FALSE ELSE auto
     IN  \/ \E c \in Selected :
              /\ num' = c.num
              /\ IF c.err # "none" THEN Recover(c.err, a) /\ auto' = a /\ UNCHANGED <<open, decoder, last>>
                 ELSE Opened(c.num, a)
         \/ /\ sel = "BP" /\ ~Has(dev, bp[dev])
            /\ Recover("BPFILE", a) /\ UNCHANGED <<num, auto, open, decoder, last>>
  /\ UNCHANGED <<hardware, content, ring, mode, dev, total, calm>>

-----------------------------------------------------------------------------
(***************************************************************************)
(* The music task's messages.                                              *)
(***************************************************************************)
Idle == pc = "idle"

\* MSG_MUSIC_NEXT_FILE, _PREV_FILE, _NEXT_FOLDER, _PREV_FOLDER
KeyFile(s) == Idle /\ Operate(s) /\ UNCHANGED ring

\* music_player_play_spec_num_file: MSG_INPUT_NUMBER_END, MSG_INPUT_TIMEOUT
\* with a number up to total_file; MSG_MUSIC_SPC_FILE with 1.
KeyNumber(n) ==
  /\ Idle /\ n \in (1 .. total) \union {1}
  /\ Play("number", "SPEC", devsel, n) /\ UNCHANGED <<content, total, ring>>

\* MSG_MUSIC_U_SD
KeyDev ==
  /\ Idle /\ (\E d, e \in Listed : d # e)
  /\ NextDev /\ UNCHANGED ring

\* Faulty variant: what plays goes on, with the numbers of the files after it moved.
KeyDelete_GoesOn ==
  /\ Idle /\ open # NoFile
  /\ content' \in {[content EXCEPT ![dev] = Without(@, i)] : i \in Places(dev, open)}
  /\ total' = Len(content'[dev])
  /\ UNCHANGED <<hardware, dpt, pc, ring, mode, dev, devsel, sel, num, errs, auto, open,
                 decoder, bp, history, last>>

\* MSG_MUSIC_DEL_FILE: the file may refuse to be deleted.
KeyDelete ==
  /\ Idle /\ open # NoFile
  /\ content' \in {content} \union
       {[content EXCEPT ![dev] = Without(@, i)] : i \in Places(dev, open)}
  /\ total' = Len(content'[dev])
  /\ Play("delete", "SPEC", devsel, num)
  /\ UNCHANGED ring

\* MSG_MUSIC_RPT
KeyMode ==
  /\ Idle
  /\ mode' = CASE mode = "ALL" -> "LGDEV" [] mode = "LGDEV" -> "ONE" [] mode = "ONE" -> "RANDOM"
               [] mode = "RANDOM" -> "FOLDER" [] mode = "FOLDER" -> "ALL"
  /\ UNCHANGED <<hardware, dpt, content, pc, ring, fop, decoder, bp, history, last>>

\* MSG_MUSIC_PP
KeyPp ==
  /\ Idle
  /\ st' = IF st = "play" THEN "pause" ELSE "play"
  /\ UNCHANGED <<hardware, dpt, content, pc, ring, mode, fop, run, bp, history, last>>

\* MSG_MUSIC_FF and _FR wake a paused decoder.
KeySeek ==
  /\ Idle /\ st = "pause"
  /\ st' = "play"
  /\ UNCHANGED <<hardware, dpt, content, pc, ring, mode, fop, run, bp, history, last>>

\* The task ends: music_play_stop saves cur_use_dev and the break point, the
\* task's exit clears the ring.
Leave ==
  /\ bp' = Saved(dev)
  /\ st' = "stop" /\ run' = "none"
  /\ Destroyed
  /\ UNCHANGED <<hardware, dpt, content, mode, dev, history, last>>

\* MSG_CHANGE_WORKMODE, from a key.
KeyLeave == Idle /\ Leave

\* SYS_EVENT_DEC_END: a file without playing time counts as one to skip.
TakeEnd ==
  /\ Idle /\ ring # <<>> /\ Head(ring) = "END"
  /\ ring' = Tail(ring)
  /\ Operate(IF run = "none" \/ open \in Zero THEN IF auto THEN "NEXT" ELSE "PREV" ELSE "AUTO")

\* SYS_EVENT_DEC_DEVICE_ERR
TakeErr ==
  /\ Idle /\ ring # <<>> /\ Head(ring) = "ERR"
  /\ ring' = Tail(ring)
  /\ NextDev

TakeChange == Idle /\ ring # <<>> /\ Head(ring) = "CHANGE" /\ Leave

\* MSG_xx_ONLINE with MSG_xx_MOUNT_SUCC: in the music task the player starts
\* anew on the device, another task may leave for the music task or not.
On(d) ==
  /\ pc \in {"idle", "gone"} /\ <<"on", d>> \in events
  /\ events' = events \ {<<"on", d>>}
  /\ \/ UNCHANGED <<dpt, pc, fop, decoder, bp, history>>
     \/ /\ d \in plugged
        /\ dpt' = dpt \union {d}
        /\ \/ Start(d) /\ bp' = Saved(dev)
           \/ pc = "gone" /\ UNCHANGED <<pc, fop, decoder, bp, history>>
  /\ UNCHANGED <<plugged, online, moves, content, ring, mode, last>>

\* MSG_xx_OFFLINE: the unmount, and a paused player is told.
Off(d) ==
  /\ pc \in {"idle", "gone"} /\ <<"off", d>> \in events /\ Len(ring) < RingRoom
  /\ events' = events \ {<<"off", d>>}
  /\ dpt' = dpt \ {d}
  /\ ring' = IF pc = "idle" /\ dev = d /\ st = "pause" THEN Append(ring, "ERR") ELSE ring
  /\ UNCHANGED <<plugged, online, moves, content, pc, mode, fop, decoder, bp, history, last>>

\* A key brings the music task; task_music_skip_check names the device.
Enter ==
  /\ pc = "gone"
  /\ dev \in online \/ Listed # {}
  /\ Start(IF dev \in online THEN dev ELSE Min(Listed))
  /\ UNCHANGED <<hardware, dpt, content, ring, mode, bp, last>>

Init ==
  /\ plugged \in SUBSET Devices /\ online = {} /\ events = {} /\ moves = Moves
  /\ dpt = {} /\ content \in [Devices -> {<<>>} \union UNION {Contents[d] : d \in Devices}]
  /\ \A d \in Devices : content[d] \in IF d \in plugged THEN Contents[d] ELSE {<<>>}
  /\ pc = "gone" /\ ring = <<>> /\ mode = "ALL"
  /\ dev = 0 /\ devsel = "CUR" /\ sel = "BP" /\ num = 0 /\ total = 0
  /\ errs = 0 /\ auto = TRUE /\ open = NoFile
  /\ st = "stop" /\ run = "none"
  /\ bp = [d \in Devices |-> NoFile] /\ last = [d \in Devices |-> NoFile]
  /\ op = "none" /\ calm = TRUE /\ from = <<0, 0>>

Loop == DevSel \/ DevBp \/ FileSel
Message == TakeEnd \/ TakeErr \/ TakeChange \/ (\E d \in Devices : On(d) \/ Off(d))
Key ==
  \/ \E s \in {"NEXT", "PREV", "NEXTDIR", "PREVDIR"} : KeyFile(s)
  \/ \E n \in (1 .. total) \union {1} : KeyNumber(n)
  \/ KeyDev \/ KeyDelete \/ KeyMode \/ KeyPp \/ KeySeek \/ KeyLeave \/ Enter
Interrupt == DecodeEnds \/ \E d \in Devices : Plug(d) \/ Unplug(d) \/ Detect(d)

Next == Loop \/ Message \/ Key \/ Interrupt

\* music_player_play is a loop of the running task: nothing but interrupts
\* keeps it from its next step.
Spec == Init /\ [][Next]_vars /\ WF_vars(Loop)

-----------------------------------------------------------------------------
(***************************************************************************)
(* Properties.                                                             *)
(***************************************************************************)
Playing == st # "stop" /\ run # "none"

DevicesOK ==
  /\ plugged \subseteq Devices /\ online \subseteq Devices /\ dpt \subseteq Devices
  /\ events \subseteq {"on", "off"} \X Devices /\ moves \in 0 .. Moves
  /\ content \in [Devices -> Seq(Files)]

TaskOK ==
  /\ pc \in {"gone", "idle", "device", "system", "file"}
  /\ ring \in Seq({"END", "ERR", "CHANGE"}) /\ Len(ring) <= RingRoom + 1
  /\ mode \in Modes
  /\ dev \in Devices \union {0} /\ (pc # "gone" => dev # 0)

SelectionOK ==
  /\ sel \in Sels /\ devsel \in {"CUR", "NEXT", "PREV", "SPEC"}
  /\ num \in Nat /\ total \in Nat /\ errs \in Nat
  /\ auto \in BOOLEAN /\ open \in Files \union {NoFile}

DecoderOK ==
  /\ st \in {"stop", "play", "pause"} /\ run \in {"none", "busy", "over"}
  /\ bp \in [Devices -> Files \union {NoFile}] /\ last \in [Devices -> Files \union {NoFile}]

HistoryOK ==
  /\ op \in {"none", "start", "file", "folder", "number", "dev", "delete"} /\ calm \in BOOLEAN
  /\ from \in (Devices \union {0}) \X Nat

\* Every variable keeps its range, the ring its bound; in the loop and in the
\* task there is a device.
TypeOK == DevicesOK /\ TaskOK /\ SelectionOK /\ DecoderOK /\ HistoryOK

\* The number shown, from which NEXT and PREV count, is the number of the file
\* that plays.
NumberMatches ==
  Playing /\ calm => num \in 1 .. Len(content[dev]) /\ content[dev][num] = open /\ open \in Good

\* The break point in a device's slot is of the file last played on that
\* device, or none: no file's position is saved in another device's slot.
BpIsLast == \A d \in Devices : bp[d] \in {NoFile, last[d]}

\* A task that is not playing, or whose decoder has stopped by itself, has a
\* message in the ring that moves it on: it never falls silent for good.
NeverSilent == Idle /\ run # "busy" => ring # <<>>

\* Only REPEAT_ALL leaves a device that is there and has something to play,
\* unless a key or a new device asks for it.
StaysOnDevice ==
  [][dev' # dev /\ calm => op' \in {"start", "dev"} \/ mode = "ALL" \/ dev \notin dpt \cap online]_vars

\* A partition is given up only if nothing on it plays.  Not so in
\* REPEAT_RANDOM, which counts a file it draws twice, in REPEAT_FOLDER, which
\* counts the files of a folder against the total of the device, after a folder
\* that is not found and a number past the end (counted as faulty files), and
\* with files without playing time, which do not reset the count: keys that
\* go to and fro between them over a faulty one add up to any total.
DropsOnlyBad ==
  [][\A d \in dpt \ dpt' :
        /\ Loop /\ calm /\ mode \in {"ALL", "LGDEV", "ONE"} /\ op \notin {"folder", "number", "delete"}
        /\ \A i \in 1 .. Len(content[d]) : content[d][i] \notin Zero
        => \A i \in 1 .. Len(content[d]) : content[d][i] \notin Good]_vars

\* The files NEXT, PREV and the end of a file pass over on the way from number
\* f to number n of device d.
Passed(f, n, t, forth) ==
  IF forth THEN IF n > f THEN (f + 1) .. (n - 1) ELSE ((f + 1) .. t) \union (1 .. (n - 1))
  ELSE IF n < f THEN (n + 1) .. (f - 1) ELSE (1 .. (f - 1)) \union ((n + 1) .. t)

\* However many files fail in a row, NEXT, PREV and the end of a file land on
\* the nearest file in their direction that plays.
SkipsOnlyBad ==
  [][FileSel /\ pc' = "idle" /\ calm /\ op = "file" /\ mode \in {"ALL", "LGDEV"}
       /\ sel \in {"NEXT", "AUTO", "PREV", "FIRST", "LAST"} /\ from[1] = dev
       => \A i \in Passed(from[2], num', total, sel \in {"NEXT", "AUTO", "FIRST"}) :
             content[dev][i] \notin Good]_vars

\* music_player_play ends: faulty files and devices that vanish meanwhile do
\* not make it loop for good.
LoopEnds == pc \in {"device", "system", "file"} ~> pc \in {"idle", "gone"}
=============================================================================
