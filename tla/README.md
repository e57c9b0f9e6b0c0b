# Verification of the AC692x audio firmware

This directory holds TLA+ models of the application layer of the firmware in
`src/apps`, the TLC configurations that check them on small instances, and
proofs, checked by TLAPS, of what holds for every value of their constants.

The program is a super-loop on one core. `task_manager` runs one *task* (mode)
at a time; a task is a loop of `task_get_msg`, `task_common_msg_deal` and its own
switch over the message. Everything else happens in interrupts: timer 0 with its
loop handlers (device detection, key scan, half-second event), the UART, the
decoder (a software interrupt) and the callbacks of the Bluetooth stack.
Interrupts talk to the loop through `msg.c` and through shared flags, so the
interleavings that matter are those of interrupts with the steps of the loop.
The default configuration registers two tasks, Bluetooth and music.

## Inventory

| Component | State | Operations | What makes it hard | What makes it correct |
|---|---|---|---|---|
| `common/msg.c` | event bits, 512-byte ring | post event, post message, get, clear, half-second handler | posts from interrupts between any two steps; a full ring; idle window | frames stay whole; events once, lowest first; messages FIFO; the core wakes up |
| `task_manager.c` | list of tasks, current, last and target id | `task_switch`, exit, init | holes in the list, relative targets, callers that ignore the answer | a target that is a registered task; some task always runs |
| `task_common.c` | power-off counters, number input | mode, hot-plug, volume, power messages | handlers cut by the stack's callbacks | switches happen or are refused as a whole; the volume heard is the one set |
| `task_bt.c`, switching | stack state, background, resume and auto-suspend flags, switch mask | init, exit, callbacks, calls | callbacks while the task is left | a call pins the task; the stack is in the background exactly while another task runs |
| `task_bt.c`, connections | scans, page in progress, retry counter, address, timer | end of a page or connection, reports of the stack, the timer | a connection, a call or a loss between a page and its timer; the timer's function runs later | never out of reach; retries end; the scans fit the phones |
| `dev_manage.c` | drivers' states, partition tables | detect, mount, unmount | a device goes while it is mounted; events lost behind others | tables follow the devices; no plug-in is forgotten |
| `task_music.c`, `music_player.c`, `music_decoder.c` | player, decoder, tone, resource mutex | start, play, pause, errors, device changes | errors from the decoder's interrupt cross device events and keys | leaves a device that is gone; gives up without one; the tone is left alone |
| `uart.c` | receive ring, count of lines | receive, read a line, commands | the interrupt between any two steps | FIFO; a counted line is there; a line fits its buffer |
| `key.c`, key drivers | last key, press counter, click flag | scan every 10 ms | thresholds, pending click, bouncing | a press is reported as its key; LONG, HOLD, LONG_UP in a row |
| `file_operate.c` with `music_player_play` | device, file number, selections, count of faulty files, break points in flash | select device, break point, file; recover from an error; five play modes | devices that vanish, runs of faulty files, several selections one after the other | ends, on the nearest file that plays; stays on its device; break points belong to their device |
| volume: `task_common.c`, `aec_main.c`, `a2dp_decode.c`, `bt_configs_user.c`, `audio.c` | system volume, limit, volume before the call, the phone's volumes | volume keys, call begins and ends, levels from the phone, music starts | callbacks between two accesses of a handler | heard as set; restored after calls |
| `flash_api.c` | write-back cache of settings | write, submit once a second | rewritten or failing before the write, power lost | the last value set is the one stored |
| power, BLE, TWS, signal processing, FM, record, RTC, USB device, display, drivers | | | mostly registers and libraries | see `components` in `PROJECT.json` |

`PROJECT.json` lists every component with its status, and under `hazards` what
is hard to test, at its line.

## Modules

| Module | Models | Extends or instantiates |
|---|---|---|
| `MsgBus` | abstract: a set of pending events in front of a FIFO of messages | |
| `MsgQueue` | `msg.c` with its ring of frames | `MsgBus` by refinement mapping |
| `TaskSwitch` | `task_switch`, `task_manager`, the mode messages, Bluetooth's part in switching, the serial mode commands | |
| `HotPlug` | detection, hot-plug events, mount/unmount, the music task's device, tone and decoder errors | |
| `ByteFifo` | abstract: a bounded FIFO of bytes with one reader | |
| `SerialLine` | the receive ring and the line reader of `uart.c`, one step per memory access that matters | `ByteFifo` by refinement mapping |
| `KeyScan` | `key_scan` and the filter of the ADC key driver, at the code's own thresholds | |
| `Player` | `music_player_play` and `file_operate.c` under the messages of the music task, the decoder and the devices | |
| `Reconnect` | how `task_bt.c` stays in reach of its phones: pages, retries, the timer, the scans | |
| `Volume` | the system volume between keys, calls, phones and tones, and its write-back cache in flash | |
| `MCMsgQueue`, `MCTaskSwitch`, `MCHotPlug`, `MCPlayer` | values of the constants for TLC | the module they name |
| `MCBluetooth` | `Reconnect` and `Volume` side by side in one run | `Reconnect`, `Volume` |
| `BluetoothProofs` | theorems about `Volume` and about the two together | `MCBluetooth`, `ReconnectProofs` |
| the other `...Proofs` | theorems | the module they name and TLAPS |

### MsgQueue

`events` is `event_buf_L/H`, `ring` the unread part of `msg_cbuf` in 16-bit cells: a
header takes one, a parameter two. A cell is the pair (count, number) a reader
would decode from it, so reading a parameter as a header is a behaviour of the
model. `PostMsg` makes the two unchecked writes of `task_post_msg`; `GetEvent`,
`GetFrame` and `GetNothing` are the exits of `task_get_msg`; `EnterIdle` is the
instruction after interrupts were enabled again. The queue of the bus (`Queue`) is read off the ring by the rank of each header among the headers. `torn` is history: a full ring
took a header and refused its parameter. The parameters only exist with TWS
(`MaxArgs`); without it the frames have one cell.

### TaskSwitch

`pc` says where `task_manager` is: in a task's loop, after the loop, between the
two halves of Bluetooth's exit, before the next init. One pass of a loop is one
action (`PassEvent`, `PassMsg`, `PassNone`), with the serial line looked at first,
as `task_common_msg_deal` does. `Walk` is the search over `task_app_list` as a
recursive function; past the end it lands on an index that holds data read as an entry without
a check (`Unactive`, if the index is TASK_ID_UNACTIVE, else `Beyond`), on `Crash` (data called as
a check) or on task 0 (after the 8-bit index wraps). `strayed` is history: the walk that gave `target`
left the list, which tells a landing on TASK_ID_UNACTIVE from a switch that nobody made. `Watchdog` restarts
the program: it is assumed that nothing feeds it while `task_manager` spins (in `src/` the loop of the task does, in `msg.c`; the
libraries are not visible), and `ComesBack` rests on that. Mounting is a choice here; `HotPlug` has its detail.

`TASK_ID_TYPE_PREV`, and switches requested from a task's init or exit, have no
caller in this tree.

### HotPlug

`plugged` is the world, `online` what the drivers have reported, `dpt` the
partition tables. A pass is three steps: `GetEvent`/`GetMsg` (what it takes is `hand`),
`Schedule` (the resource library, at the head of `task_common_msg_deal`; a step
only when a player waits for the resource, `due`) and `Deal...`. Mounting takes
long, so devices come and go between them. `PlayFrom` is `music_player_play` by
its result: some device that can be read plays, or none. A switch of mode asked
for by a mount may be refused (a call), so both outcomes are steps. Owed mounts
(`owed`) and refused unmounts (`left`) are history.

### SerialLine

The interrupt (`Receive`) is atomic; the loop's `uart_get_str` is cut at every access
to shared memory: moving `UART_RxTail` (`Getc`), reading the cell (`Take`), and the load and
the store of `ascii_line--`. `Negative` are the bytes that end a line where `char` is
signed; it is empty in the run of the finding, which does not depend on it.

### KeyScan

One step is one call of `key_scan`, every 10 ms in timer 0's interrupt: the sample `raw`
(a key or `NO_KEY`, any at any time) goes through `key_filter` (`used`, `old`, `cnt`) and
becomes the current key of `key_scan` (`last`, `counter`, `flag`). A message is the pair
of status and key `key2msg_filter` is called with; a scan may also post the click
that waited (`single`). `latest`, `down` and `seen` are history: the last message, and the keys
sampled since the press began.

### Player

`HotPlug` takes `music_player_play` as one step; here an iteration of its loop is
three, because devices may come and go before each: `DevSel` (`file_operate_dev_sel`),
`DevBp` (the break point read from flash and `file_operate_dev_bp`, where the file
system is opened) and `FileSel` (`file_operate_file_sel`, then the file and the decoder).
Every error goes through `Recover` (`music_player_clear_break_point`, `file_operate_err_deal`),
which sets the selections of the next iteration; only a missing device ends
the loop with `GiveUp`. `Selected` gives the numbers a selection may lead to: play mode, range and
wrap are `Bounds`, `Ranged` and `Stepped`, the random number `Draws`. A file is a member of
a set: it decodes, or not, or decodes with no playing time (`Zero`), which
`FILTER_NULL_TIME_MUSIC` skips again when it ends.

`plugged` is the world, `online` what `dev_mg` has seen, `dpt` the devices with a partition; the
list the player walks is the last two together (`Listed`). `ring` holds the messages
that move the player. `bp` is the file of each break point, without the position; a break point whose cluster now holds another file is not found here in `DevBp`,
in the code one call later, when it is opened, and the search goes on from there alike. A
device has one partition, as a card or disk without several of them has. Tones, the filter
of messages and an unmount that is refused are `HotPlug`'s. The keys are every message the music task
handles: the ADC keys of the default build send the files, play/pause and the change of mode, the remote control's table the others.

History: `op` and `from`, what the running call of `music_player_play` is for and where it started;
`calm`, that no device has come or gone since; `last`, the file last played on
each device. Properties about the player's choices are stated while `calm` holds: a device pulled out
in the middle may be given up, by design.

### Reconnect

One action per reason of `bt_discon_complete_handle`, named for what has happened, and per
report of the stack. `page` is the phone the controller pages, `scan` what
`bt_work_state_control` has set, `count`, `addr` and `timer` the retry's counter, address and timer. The
handlers run in the stack's interrupt; the timer's function is put off to the loop
(`delay_do`), so `timer` goes through "due", where `sys_timer_remove` may come too late
(`RemoveTimer`). The stack pages one phone at a time: which of two commands wins
is open (`Page`). `lapse` is history: the code has given up a phone without opening
the scans, which it does for a phone lost in a call, one that forgot the player, a cancelled page and a
retry that fell into a call.

### Volume

The volume keys are cut at each access of `sys_vol_l` and of the library's copy (`set`); the
callbacks of the stack may fall between any two. `cell`, `cnt` and `stored` are the cache's cell of the volume
and the flash; `PowerLoss` may come at any time and keeps only the flash, which `FromFlash`
reads back within its limits. `want` is history: the volume last set outside calls, or
`NoVol` once the stack has set the volume in the middle of a handler, where the code loses one of the two.

`MCBluetooth` checks `Reconnect` and `Volume` in one run. They share no variable, so
`part` lets one of them move while the other stands: the states add up instead of multiplying.

## Runs

| Run | Bounds | Shows |
|---|---|---|
| `msg_queue` | 3 events, 2 messages, 1 parameter that reads as a header, 4 cells, 2 ticks per half second | `Framed`: frames stay whole unless torn; `ImplementsBus`: the abstract bus is implemented while nothing is torn; `WakesUp`, `LowestServed`: liveness of the idle window and of the event scan |
| `tasks` | the default list, 2 keys, 3 serial commands, 2 messages in the ring | the call's mask (`MaskOnlyInBt`, `MaskEnds`, `CallStaysInBt`), the manager (`TargetKnown`, `ComesBack`), the stack (`BackgroundMatches`) |
| `task_list` | the same list, one key | finding: the walk leaves the list |
| `phone` | the same | finding: a call's resume is wiped |
| `hotplug` | an SD card that stays or is absent, a USB disk that comes and goes, 3 messages, of which keys add at most the first | tables (`TableFollows`), events (`NotForgotten`, `SuccInMusic`), the player (`PausedLeaves`, `GivesUp`) |
| `tone` | the same | finding: the tone's decoder is taken |
| `player` | a card that stays with three files, the second faulty; a USB disk that comes and goes once, with one file, either faulty or without playing time; 1 message of the decoder or a device in the ring | `LoopEnds`: the loop ends; `SkipsOnlyBad`: on the nearest file that plays; `StaysOnDevice`, `DropsOnlyBad`: devices are left and given up only with reason; `NumberMatches`, `BpIsLast`: the number and the break points are right; `NeverSilent`: something moves the task on |
| `bluetooth` | three phones, builds for one and for two, two returns to the task; volumes 0 to 3 with a call's limit of 2, two volume keys, failed writes or losses of power | `InReach`, `ScansFit`, `RetriesEnd`: the reconnection; `HeardAsSet`, `AfterCall`, `SavedAtLast`: the volume |
| `serial` | a ring of 5 cells (4 bytes), four kinds of bytes | FIFO, counted lines, the copy's bound |
| `serial_lost` | the same, no byte negative | finding: a line is left unsignalled |
| `keys` | three keys: the one with a double click, the one its double click is reported as, another; the thresholds of `key.h` | no counter wraps; `SteadyRight`: a steady press is reported as its key; `Ordered`: the messages of a long press follow one another |
| `keys_stale` | the same | finding: a key nobody pressed is reported |

Why the bounds are enough. *msg_queue*: four cells hold one frame with its
parameter and one more header, so posts are torn, and a parameter can be taken
for a header. *tasks*: two messages are what it takes for a post to meet another
and for one to be dropped; serial commands that post 21 messages fill the ring
anyway. *hotplug*: one device that comes and goes beside one that stays gives
every crossing of ON, OFF and ON_SUCC of two devices; the proofs cover any
number. The bound on keys (`KeyRoom`) keeps room for what the decoder posts.
*player*: three files give a first, a last and
one to pass over in both directions and a wrap in each mode; two devices give a next and a previous, and the one that comes and goes
may do so in any iteration of the loop. The proofs cover any number of devices and files.
*bluetooth*: with three phones a page, a connected phone and one that comes are
different ones; the counters (10 retries) are the code's own. The volume's numbers are scaled,
keeping every order between limit, default and least volume that the code's own have. *keys*: nothing is
scaled; keys other than the three are alike. *serial*: four bytes hold two lines, or a line and the interrupt's refill behind it.
Named bounds: `QueueMax`, `KeyRoom`, `Movable`, `Moves`, `RingRoom`, `Returns`, `Events`; `Capacity`, `HalfPeriod`, `Size` and the volumes are
the code's own constants at a smaller value. Deadlock is checked except in the
serial runs, where a full ring without a carriage return really stops the line, and in
`player` and `bluetooth`, where a device that is switched on and left alone may stand for good.

Fairness. The loop of the running task never blocks, so its steps are weakly
fair, and so is timer 0. A pass with a message is strongly fair: events are
served first, and people plug devices slower than the loop turns. A decoder
that reads from a device that is gone fails in the end. In `Player` only the loop of `music_player_play` is fair: it is the running
task's own code. In `Reconnect` a page ends (the controller's timeout), the timer comes, and the stack
reports what it owes. In `Volume` a handler goes on, and the message of the second, which is
one of many in a ring served in order, is strongly fair. No fairness is assumed of
keys, plugs, calls, the stack's callbacks or the sender on the serial line.

Every property has a mutant, a faulty variant defined next to the definition it
changes, with which TLC finds the property violated.

## Findings

1. `task_manager.c:160`: unregistered entries are skipped without the wrap and
   without being counted; a change of mode from music runs past the list (`StaysInList`).
2. `task_bt.c:1273`: messages are cleared after the stack went to the background; a
   call's resume in between is lost for good (`PhoneComesBack`).
3. `task_music.c:274`: mount messages pass the filter and take the tone's decoder;
   the tone's resource is never released (`ToneUndisturbed`).
4. `uart.c:316`: `ascii_line--` races with the interrupt; a command stays unsignalled
   (`LineSignalled`).
5. `key_drv_ad_vddio.c:106`: while the sampled value moves between keys, the filter
   answers with the key of the press before, which is then reported (`PressedKey`).

### Met while modelling

These are no disagreements with a text of the repository, so no run is made of
them; each is in the model, and the property it would break names it as an exception.

- `file_operate.c:888`, `:518`: in `REPEAT_RANDOM` a faulty file drawn twice counts twice, and a
  number past the end or a folder that is not found counts as a faulty file: a device with files that play may
  be given up (`DropsOnlyBad`). A file without playing time does not reset the count (`music_player.c:703`): keys that go to and fro between two
  of them over a faulty file have the same effect. A number the user chooses plays a random file in that mode.
- `file_operate.c:603`: the random number is moved off the file that plays, and may be moved back onto
  it by the wrap after it.
- `task_bt.c:1010`, `:1051`, `:1157`: a phone lost in a call, a cancelled page and a missing key are answered by nothing
  (without TWS); with the scans closed the player is out of reach until something else opens them (`InReach`).
- `task_bt.c:847`: a retry whose timer comes during a call is abandoned; one whose page times out during a call
  is not (line 1121).
- `task_common.c:310`: a volume key in a call stores the volume of the call in flash. What is in the
  cache when the power goes is lost; each further key starts the two seconds anew (`flash_api.c:54`).
- `task_common.c:285`: a call that begins or ends between two accesses of the key's handler leaves one of the two
  volumes standing (`HeardAsSet` and `AfterCall` except it).

## Proofs

Every theorem has the form `Spec => P` and the same layout: an inductive
invariant, a lemma per action that it is kept, and a last step by
temporal logic. The assumptions are the named ASSUMEs of the modules. Each invariant
was first checked by TLC on the instance of the module's run.

- `MsgQueueProofs`: `TypeCorrect`, `FramedAlways`, `LoadedAlways`, `BusImplemented`. `Framed` alone is not inductive: the
  proof adds that a header's count is the length of its parameters, and `Loaded`, that the cells behind it are the
  parameter it was posted with. `BusImplemented` is the refinement of `MsgBus`, until a post is torn:
  a post that fits appends to the queue of the bus, `GetFrame` takes its head, every other step leaves it alone. The queue picks
  the k-th header of the ring by its rank; the lemmas about ranks (`RankAdded`, `RankDropped`, `Shifted`) say what a header added at the
  end and a frame dropped at the front do to it, by cardinalities instead of induction over the ring.
- `TaskSwitchProofs`: `TypeCorrect`, `MaskStaysInBt`, `TargetAlwaysKnown`, `CallPinsTask` (an
  action property), `BackgroundAlwaysMatches`. They hold for every list that registers
  Bluetooth first and music with a check; what the walk returns is used
  only through the set of its landings, so no induction is needed. `TargetKnown` needs the mask's place: music, which
  does not look at `task_switch`'s answer, is never refused. It leaves one way to the spin of `task_manager`, a walk off the
  list, and `ClosedListKnown` says that a list without such walks (not `Open`) is free of it. The default list is open, with the finding of the run
  `task_list`; TLC evaluates (`OpenLists`) that registering IDLE closes it.
- `HotPlugProofs`: `TypeCorrect`, `OnlineServed`, `TablesFollow`, `SuccReachesMusic`, for every
  set of devices. The last needs that ON and OFF have smaller event numbers than every ON_SUCC:
  by the time a task switch is possible no ON_SUCC can be pending in the other task.
- `SerialLineProofs`: `TypeCorrect`, `CountedAlwaysThere`, `LineAlwaysFits`, `RingIsFifo`, for every ring
  size. The invariant counts the end that was taken and not yet subtracted,
  and says that during a copy some end lies within reach of the buffer. `RingIsFifo` is the refinement of
  `ByteFifo`: with the ring read from `tail` as a sequence, each access is an operation of the FIFO or none.
- `KeyScanProofs`: `TypeCorrect`, `OrderedAlways`, `SteadyAlwaysRight`, for any set of keys and any
  thresholds ordered as those of `key.h`. The invariants relate counters: a click that waits is
  older than the press that goes on, so it expires before that press is long; while the
  filter answers with an older key, the scan's count is not ahead of the filter's.
- `PlayerProofs`, for any number of devices, files and contents, in two invariants. `Inv` gives `TypeCorrect`, `NumberRight`, `BreakPointsRight`, `Awake` and
  `StaysThere` (an action property): a decoder runs only in the task's loop, on the file last played on the device
  selected; a device pulled out has no files; and, before the step that leaves a device, it may be left.
  `IInv` gives `DropsRight` and `SkipsRight`, the action properties about the search (`Searching` is its invariance). It has three more parts.
  `Known`: a device whose partition is mounted and that has not been away since is the one the total and the number were read
  from; one that went and came back between two OFFLINE events still has its OFFLINE unserved. `Counting`: `total_err_file` stands for as many *different* files, the
  ones up to `filenum` against the direction of the search in the ring of the device's files, so that a count that reaches the total has tried
  them all. `Skipping`: while the search is on the device it started at, every number between the start and `filenum` is faulty; once it has
  left over an end of the list, the rest of the list up to that end is, and the device has no break point to come back to, so it comes back by
  the other end. The counting is arithmetic on intervals (`BehindGrows`, `BehindAll`, `PassedTried`, `TriedPassed`), no induction over the loop.
  `LoopProgress` (`LoopAdvances`, from `Inv`) is the safety half of `LoopEnds`: each step of the loop of `music_player_play` gives up a partition, ends the loop, or lowers
  `Rank` in the order of its places, which are: is the selected device in the list; over which ends the search can still leave it (in REPEAT_ALL only: from an
  end of the list each file counts, so it is dropped before the other end comes); is its file system open; is a break point sought; the files left to fail; the step of the
  iteration. The places are natural numbers and nothing adds a partition in the loop, so with the fairness of `Spec` the loop ends unless devices come and go for ever;
  that last inference (well-founded order, fairness) is left to TLC's `LoopEnds`.
- `ReconnectProofs`: `ScansRight`, `StaysInReach`, for every finite set of phones. The first needs that
  both scans are open only up to the report of the first phone; the second, that a timer counts only while it has retries
  left, and that whom it pages is known before it is due.
- `BluetoothProofs`: `LoudAsSet`, `CallsRestore`, for every range of volumes. The invariant says at each access of
  a handler which of `vol`, `set` and `reg` agree and what is within the limit, and that a call keeps the volume before it.
  The composition is proved from the parts: every behaviour of `MCBluetooth` is one of `Reconnect` and one of `Volume` (`LinkImplemented`, `VolumeImplemented`), so that
  `BothTypeCorrect` and `BothKeepAll` need no invariant of their own.

Every invariant and every action property of the passing runs, and both refinements, are stated by a theorem. Model-checked only: all
liveness properties (`WakesUp`, `LowestServed`, `MaskEnds`, `ComesBack`, `PausedLeaves`, `GivesUp`, `LoopEnds`, `RetriesEnd`, `SavedAtLast`; the prover has no
ENABLED), and the findings. What a recursive function computes for every
input would need induction over data, which is out of the prover's reach.

Assumed in `Reconnect`: the timer's function and a callback of the stack do not interrupt each other in
the middle (its `auto_connection_counter--` would race); in `Volume`: a call stops the music of a phone before its sound
begins, and while it lasts the phone sends no music volume (the comment at `bt_configs_user.c:505`).

## Not modelled

The Bluetooth stack, the file system, codecs, the resource library and the cbuffer are
libraries without source here: where a model needs them they are external
definitions, written from how the code uses them. Signal processing, register
access, display and everything compiled out by default are left out; each is listed
with its reason in `PROJECT.json`.

The digits and the power-off hold of `task_common.c` count across messages that no key table of the
default build sends (only the ADC keys are enabled, and their tables hold neither); key 0, whose click waits for a second
one, has no message in them either. TWS, inquiry, the recorder with its pool of file handles, and the tasks outside
the default list are compiled out. BLE is compiled in, and left out: it serves a profile of the external stack, and no modelled part waits for it.

## Plan

1. `TaskSwitch` with the music task's `Player` in place of its abstract one: who owns the decoder when a call comes in the middle of `music_player_play`.
2. The transmit side and the settings commands of `uart.c`.
3. Proofs: measures like `Rank` for the safety half of the other liveness properties (`RetriesEnd`, `ComesBack`); the composition of 1 from its parts, as in `BluetoothProofs`.
