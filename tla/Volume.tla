------------------------------- MODULE Volume --------------------------------
(***************************************************************************)
(* The volume of the player: sound.vol.sys_vol_l, which the volume keys    *)
(* (apps/task_manager/task_common.c), the phone (bt_configs_user.c,        *)
(* task_bt.c, a2dp_decode.c) and every call (aec_main.c) set, and the      *)
(* write-back cache that keeps it in flash (common/flash_api.c).           *)
(*                                                                         *)
(* The keys and the one-second message are handled in the loop; the        *)
(* callbacks of the stack interrupt a handler between any two accesses of  *)
(* the volume.  sys_vol_r always follows sys_vol_l and is left out, as is  *)
(* the TWS slave, which only mirrors its master.                           *)
(***************************************************************************)
EXTENDS Integers

CONSTANTS
  Max,        \* MAX_SYS_VOL_L: 30
  CallMax,    \* aec_param.dac_analog_gain: 27
  Low,        \* the least volume the player starts with: 10
  Default,    \* the volume of a player that has none in flash: 20
  PhoneMax,   \* the levels of a phone in a call: 15
  MusicMax,   \* the levels of a phone that plays: 127
  NoVol,      \* nothing stored
  Events      \* bound: volume keys, writes that fail and losses of power together

Byte == 0 .. 255

ASSUME VolumeAssumption ==
  /\ Max \in 1 .. 254 /\ CallMax \in 0 .. Max /\ Low \in 0 .. Max /\ Default \in Low .. Max
  /\ PhoneMax \in Nat \ {0} /\ MusicMax \in Nat \ {0}
  /\ NoVol \notin Byte /\ Events \in Nat

VARIABLES
  vol,      \* sound.vol.sys_vol_l
  maxvol,   \* get_max_sys_vol: sound.vol.max_sys_vol_l, as the library was told
  set,      \* get_sys_vol: what set_sys_vol set
  tmp,      \* tmp_sys_vol: the volume before the call
  phone,    \* sound.phone_vol
  music,    \* g_bt_music_sync_vol; 255: the phone does not synchronise
  sco,      \* get_esco_busy_flag: the sound of a call is connected
  a2dp,     \* get_a2dp_decoder_status: the music of a phone is decoded
  cell,     \* vm_cache[0].data, NoVol: none since the start
  cnt,      \* vm_cache[0].cnt: seconds until it is written
  stored,   \* VM_SYS_VOL in flash
  pc,       \* the loop: "idle", or the access of a handler that comes next
  reg,      \* what the handler has read and not used yet, 0 otherwise
  want,     \* history: the volume last set outside calls, NoVol since the stack
            \* has set the volume while a handler worked on it
  left      \* bound: the events left

volVars == <<vol, maxvol, set, tmp, phone, music, sco, a2dp, cell, cnt, stored, pc, reg,
             want, left>>
call_ == <<tmp, phone, sco>>
cache == <<cell, cnt, stored>>

Crossed == want = NoVol
Idle == pc = "idle"
Spend == left > 0 /\ left' = left - 1

-----------------------------------------------------------------------------
(***************************************************************************)
(* The loop: MSG_VOL_UP and MSG_VOL_DOWN, cut at each access of the        *)
(* volume; the end of a tone, which sets the volume again; and the         *)
(* one-second message.                                                     *)
(***************************************************************************)
Loop(from, to) == pc = from /\ pc' = to

\* The key is taken and sys_vol_l is read: at 0, MSG_VOL_DOWN leaves it alone.
Key(way) ==
  /\ Idle /\ Spend
  /\ IF way = "down" /\ vol = 0
       THEN pc' = "args" /\ UNCHANGED reg
       ELSE pc' = (IF way = "up" THEN "inc" ELSE "dec") /\ reg' = vol
  /\ UNCHANGED <<vol, maxvol, set, music, a2dp, want, call_, cache>>

\* The new value is stored.
Inc ==
  /\ Loop("inc", "limit") /\ vol' = (reg + 1) % 256 /\ reg' = 0
  /\ UNCHANGED <<maxvol, set, music, a2dp, want, left, call_, cache>>

Dec ==
  /\ Loop("dec", "args") /\ vol' = reg - 1 /\ reg' = 0
  /\ UNCHANGED <<maxvol, set, music, a2dp, want, left, call_, cache>>

\* Faulty variant: no limit.
Limit_Not ==
  /\ Loop("limit", "args")
  /\ UNCHANGED <<vol, maxvol, set, music, a2dp, reg, want, left, call_, cache>>

\* sys_vol_l > get_max_sys_vol(0)
Limit ==
  /\ pc = "limit" /\ pc' = IF vol > maxvol THEN "clamp" ELSE "args"
  /\ UNCHANGED <<vol, maxvol, set, music, a2dp, reg, want, left, call_, cache>>

Clamp ==
  /\ Loop("clamp", "args") /\ vol' = maxvol
  /\ UNCHANGED <<maxvol, set, music, a2dp, reg, want, left, call_, cache>>

\* set_sys_vol: the arguments, then the library
Args ==
  /\ Loop("args", "apply") /\ reg' = vol
  /\ UNCHANGED <<vol, maxvol, set, music, a2dp, want, left, call_, cache>>

Apply ==
  /\ Loop("apply", "save") /\ set' = reg /\ reg' = 0
  /\ UNCHANGED <<vol, maxvol, music, a2dp, want, left, call_, cache>>

\* vm_cache_write(VM_SYS_VOL, &sound.vol.sys_vol_l, 2)
Save ==
  /\ Loop("save", "idle") /\ cell' = vol /\ cnt' = 2
  /\ want' = IF sco \/ Crossed THEN want ELSE vol
  /\ UNCHANGED <<vol, maxvol, set, music, a2dp, reg, left, call_, stored>>

\* music_tone_end sets the volume once more.
ToneEnd ==
  /\ Idle /\ pc' = "again" /\ reg' = vol
  /\ UNCHANGED <<vol, maxvol, set, music, a2dp, want, left, call_, cache>>

Again ==
  /\ Loop("again", "idle") /\ set' = reg /\ reg' = 0
  /\ UNCHANGED <<vol, maxvol, music, a2dp, want, left, call_, cache>>

\* vm_cache_submit; a write that fails is tried again after retry seconds.
Submit(retry) ==
  /\ Idle /\ cnt > 0
  /\ \/ cnt > 1 /\ cnt' = cnt - 1 /\ UNCHANGED <<stored, left>>
     \/ cnt = 1 /\ cnt' = 0 /\ stored' = cell /\ UNCHANGED left
     \/ cnt = 1 /\ cnt' = retry /\ Spend /\ UNCHANGED stored
  /\ UNCHANGED <<vol, maxvol, set, music, a2dp, cell, pc, reg, want, call_>>

\* Faulty variant: a write that fails is forgotten.
Second_Once == Submit(0)

Second == Submit(4)

-----------------------------------------------------------------------------
(***************************************************************************)
(* The stack, at any time.                                                 *)
(***************************************************************************)
\* The volume becomes v, at once in the library as well.
SetVolume(v, wanted) ==
  vol' = v /\ set' = v /\ want' = IF Crossed \/ ~Idle THEN NoVol ELSE wanted

CallVolume(level) == (level * CallMax) \div PhoneMax

\* phone_audio_init(1 or 3): a call, which stops the music first
ScoOn ==
  /\ ~sco /\ ~a2dp /\ sco' = TRUE
  /\ tmp' = set /\ maxvol' = CallMax
  /\ SetVolume(CallVolume(phone), want)
  /\ UNCHANGED <<phone, music, a2dp, cache, pc, reg, left>>

\* phone_audio_init(0)
ScoOff ==
  /\ sco /\ sco' = FALSE
  /\ maxvol' = Max /\ SetVolume(tmp, want)
  /\ UNCHANGED <<tmp, phone, music, a2dp, cache, pc, reg, left>>

\* Faulty variant: the level is set without a call, too.
CallVolChange_Always(level) ==
  /\ phone' = level /\ SetVolume(CallVolume(level), want)
  /\ UNCHANGED <<maxvol, tmp, music, sco, a2dp, cache, pc, reg, left>>

\* BT_STATUS_CALL_VOL_CHANGE
CallVolChange(level) ==
  /\ phone' = level
  /\ IF sco THEN SetVolume(CallVolume(level), want) ELSE UNCHANGED <<vol, set, want>>
  /\ UNCHANGED <<maxvol, tmp, music, sco, a2dp, cache, pc, reg, left>>

\* set_device_volume, which a phone in a call does not reach: its music stands
SetDeviceVolume(level) ==
  /\ music' = (level * Max) \div MusicMax
  /\ IF a2dp THEN SetVolume(music', music') ELSE UNCHANGED <<vol, set, want>>
  /\ UNCHANGED <<maxvol, sco, a2dp, tmp, phone, cache, pc, reg, left>>

\* set_device_volume: the phone has no such volume.
NoDeviceVolume ==
  /\ music' = 255
  /\ UNCHANGED <<vol, maxvol, set, a2dp, call_, cache, pc, reg, want, left>>

\* get_dac_vol
GetDacVol ==
  /\ music' = IF music > Max THEN vol ELSE music
  /\ UNCHANGED <<vol, maxvol, set, a2dp, call_, cache, pc, reg, want, left>>

\* a2dp_media_play: the volume of the phone that plays
MediaPlay ==
  /\ ~a2dp /\ ~sco /\ a2dp' = TRUE
  /\ LET v == IF music <= Max THEN music ELSE vol IN SetVolume(v, v)
  /\ UNCHANGED <<maxvol, music, call_, cache, pc, reg, left>>

\* a2dp_media_stop: a player with volume keys keeps the volume.
MediaStop ==
  /\ a2dp /\ a2dp' = FALSE
  /\ UNCHANGED <<vol, maxvol, set, music, call_, cache, pc, reg, want, left>>

-----------------------------------------------------------------------------
(***************************************************************************)
(* The power comes on and goes; only the flash outlives it.                *)
(***************************************************************************)
\* audio_init: the volume from flash, within its limits
FromFlash ==
  IF stored = NoVol THEN Default ELSE IF stored < Low THEN Low ELSE IF stored > Max THEN Max ELSE stored

VolumeInit ==
  /\ stored = NoVol /\ left = Events
  /\ vol = FromFlash /\ set = FromFlash /\ want = FromFlash
  /\ maxvol = Max /\ tmp = 255 /\ phone = 0 /\ music = Max
  /\ sco = FALSE /\ a2dp = FALSE /\ cell = NoVol /\ cnt = 0
  /\ pc = "idle" /\ reg = 0

\* The power goes, whatever the loop is about, and comes on again.
PowerLoss ==
  /\ Spend /\ UNCHANGED stored
  /\ vol' = FromFlash /\ set' = FromFlash /\ want' = FromFlash
  /\ maxvol' = Max /\ tmp' = 255 /\ phone' = 0 /\ music' = Max
  /\ sco' = FALSE /\ a2dp' = FALSE /\ cell' = NoVol /\ cnt' = 0
  /\ pc' = "idle" /\ reg' = 0

Handler == Inc \/ Dec \/ Limit \/ Clamp \/ Args \/ Apply \/ Save \/ Again
CallSound == ScoOn \/ ScoOff \/ \E level \in 0 .. PhoneMax : CallVolChange(level)
Music ==
  \/ \E level \in 0 .. MusicMax : SetDeviceVolume(level)
  \/ NoDeviceVolume \/ GetDacVol \/ MediaPlay \/ MediaStop
VolumeNext ==
  \/ Handler \/ Second \/ ToneEnd \/ \E way \in {"up", "down"} : Key(way)
  \/ CallSound \/ Music \/ PowerLoss

\* A handler goes on, and the message of the second is served between the others.
VolumeFair == WF_volVars(Handler) /\ SF_volVars(Second)

VolumeSpec == VolumeInit /\ [][VolumeNext]_volVars /\ VolumeFair

-----------------------------------------------------------------------------
(***************************************************************************)
(* Properties.                                                             *)
(***************************************************************************)
\* Every volume is a byte, and the cache waits four seconds at most.
VolumeTypeOK ==
  /\ {vol, maxvol, set, tmp, music, reg} \subseteq Byte
  /\ phone \in 0 .. PhoneMax /\ {sco, a2dp} \subseteq BOOLEAN
  /\ {cell, stored, want} \subseteq Byte \union {NoVol} /\ cnt \in 0 .. 4
  /\ pc \in {"idle", "inc", "dec", "limit", "clamp", "args", "apply", "save", "again"}
  /\ left \in 0 .. Events

\* Between the handlers the player is as loud as sys_vol_l says, and within the
\* limit of a call while its sound is connected, however keys, calls, phones and
\* tones have followed one another; unless the stack has set the volume in the
\* middle of a handler.
HeardAsSet ==
  Idle /\ ~Crossed => /\ set = vol /\ vol <= maxvol
                      /\ maxvol = IF sco THEN CallMax ELSE Max

\* Without a call the volume is the one last set without a call, whatever the
\* keys and the phone have done to it in the calls since; with the same exception.
AfterCall == Idle /\ ~Crossed /\ ~sco => vol = want

\* The volume a key has set last comes to the flash, through writes that fail,
\* unless the power goes first.
SavedAtLast == cnt > 0 ~> cnt = 0 /\ cell \in {stored, NoVol}
=============================================================================
