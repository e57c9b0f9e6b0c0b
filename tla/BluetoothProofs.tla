--------------------------- MODULE BluetoothProofs ---------------------------
(***************************************************************************)
(* The volume, and the volume together with the reconnection of phones,    *)
(* proved for any limits and levels and any number of phones, keys,        *)
(* failures and losses of power.  SavedAtLast and RetriesEnd are liveness  *)
(* properties and stay with TLC.                                           *)
(*                                                                         *)
(* The invariant of the volume follows a handler: what it has read is      *)
(* still the volume, and what it is about to set is within the limit, as   *)
(* long as the stack has not crossed it.                                   *)
(***************************************************************************)
EXTENDS MCBluetooth, ReconnectProofs

Limits == maxvol = IF sco THEN CallMax ELSE Max
Apart == ~(sco /\ a2dp)
Wanted == want \in 0 .. Max /\ (sco => tmp = want)
Still == set = vol /\ vol <= maxvol /\ (~sco => vol = want)
Working ==
  /\ pc = "idle" => Still
  /\ pc = "again" => Still /\ reg = vol
  /\ pc \in {"inc", "dec"} => reg <= maxvol
  /\ pc = "args" => vol <= maxvol
  /\ pc = "apply" => reg = vol /\ vol <= maxvol
  /\ pc = "save" => set = vol /\ vol <= maxvol

VolumeInv ==
  /\ VolumeTypeOK /\ Limits /\ Apart
  /\ pc = "dec" => reg > 0
  /\ ~Crossed => Wanted /\ Working

-----------------------------------------------------------------------------
(***************************************************************************)
(* The conversions.                                                        *)
(***************************************************************************)
\* A level scaled to a limit stays within the limit.
LEMMA Scaled ==
  ASSUME NEW k \in Nat \ {0}, NEW level \in 0 .. k, NEW limit \in Nat
  PROVE  (level * limit) \div k \in 0 .. limit
<1> DEFINE q == (level * limit) \div k
<1>1. level * limit \in Nat /\ k * limit \in Nat /\ level * limit <= k * limit
  OBVIOUS
<1>2. q \in Nat /\ k * q <= level * limit
  BY <1>1
<1>3. CASE q > limit
  <2>1. k * q >= k * (limit + 1)
    BY <1>2, <1>3
  <2>2. k * (limit + 1) = k * limit + k
    OBVIOUS
  <2> QED BY <1>1, <1>2, <2>1, <2>2
<1> QED BY <1>2, <1>3

LEMMA CallVolumes ==
  ASSUME NEW level \in 0 .. PhoneMax
  PROVE  CallVolume(level) \in 0 .. CallMax
<1>1. CallMax \in Nat /\ PhoneMax \in Nat \ {0}
  BY VolumeAssumption
<1> QED BY <1>1, Scaled DEF CallVolume

LEMMA Flash ==
  ASSUME stored \in Byte \union {NoVol}
  PROVE  FromFlash \in 0 .. Max
BY VolumeAssumption DEF FromFlash, Byte

-----------------------------------------------------------------------------
LEMMA VolumeStart == VolumeInit => VolumeInv
<1> SUFFICES ASSUME VolumeInit PROVE VolumeInv OBVIOUS
<1>1. FromFlash \in 0 .. Max
  BY Flash DEF VolumeInit
<1>2. ~sco /\ ~a2dp /\ {sco, a2dp} \subseteq BOOLEAN
  BY Zenon DEF VolumeInit
<1> QED BY <1>1, <1>2, VolumeAssumption
        DEF VolumeInit, VolumeInv, VolumeTypeOK, Limits, Apart, Crossed, Wanted, Working, Still, Byte

\* The steps of the loop.
LEMMA HandlerStep ==
  ASSUME VolumeInv, Handler
  PROVE  VolumeInv'
<1> USE VolumeAssumption
        DEF VolumeInv, VolumeTypeOK, Limits, Apart, Crossed, Wanted, Working, Still, Byte, Loop, call_, cache
<1>1. CASE Inc BY <1>1 DEF Inc
<1>2. CASE Dec BY <1>2 DEF Dec
<1>3. CASE Limit BY <1>3 DEF Limit
<1>4. CASE Clamp BY <1>4 DEF Clamp
<1>5. CASE Args BY <1>5 DEF Args
<1>6. CASE Apply BY <1>6 DEF Apply
<1>7. CASE Save BY <1>7 DEF Save
<1>8. CASE Again BY <1>8 DEF Again
<1> QED BY <1>1, <1>2, <1>3, <1>4, <1>5, <1>6, <1>7, <1>8 DEF Handler

LEMMA LoopStep ==
  ASSUME VolumeInv, Second \/ ToneEnd \/ \E way \in {"up", "down"} : Key(way)
  PROVE  VolumeInv'
<1> USE VolumeAssumption
        DEF VolumeInv, VolumeTypeOK, Limits, Apart, Crossed, Wanted, Working, Still, Byte, Idle, Spend,
            call_, cache
<1>1. CASE Second BY <1>1 DEF Second, Submit
<1>2. CASE ToneEnd BY <1>2 DEF ToneEnd
<1>3. ASSUME NEW way \in {"up", "down"}, Key(way) PROVE VolumeInv'
  BY <1>3 DEF Key
<1> QED BY <1>1, <1>2, <1>3

\* The stack.
LEMMA CallStep ==
  ASSUME VolumeInv, CallSound
  PROVE  VolumeInv'
<1> USE VolumeAssumption
        DEF VolumeInv, VolumeTypeOK, Limits, Apart, Crossed, Wanted, Working, Still, Byte, Idle, SetVolume,
            cache
<1>1. CASE ScoOn
  <2>1. CallVolume(phone) \in 0 .. CallMax
    BY CallVolumes
  <2> QED BY <1>1, <2>1 DEF ScoOn
<1>2. CASE ScoOff
  <2>1. ~sco' /\ {sco', a2dp'} \subseteq BOOLEAN
    BY <1>2, Zenon DEF ScoOff
  <2> QED BY <1>2, <2>1 DEF ScoOff
<1>3. ASSUME NEW level \in 0 .. PhoneMax, CallVolChange(level) PROVE VolumeInv'
  <2>1. CallVolume(level) \in 0 .. CallMax
    BY CallVolumes
  <2> QED BY <1>3, <2>1 DEF CallVolChange
<1> QED BY <1>1, <1>2, <1>3 DEF CallSound

LEMMA MusicStep ==
  ASSUME VolumeInv, Music
  PROVE  VolumeInv'
<1> USE VolumeAssumption
        DEF VolumeInv, VolumeTypeOK, Limits, Apart, Crossed, Wanted, Working, Still, Byte, Idle, SetVolume,
            call_, cache
<1>1. ASSUME NEW level \in 0 .. MusicMax, SetDeviceVolume(level) PROVE VolumeInv'
  <2>1. music' \in 0 .. Max
    <3>1. Max \in Nat /\ MusicMax \in Nat \ {0}
      OBVIOUS
    <3>2. (level * Max) \div MusicMax \in 0 .. Max
      BY <1>1, <3>1, Scaled
    <3> QED BY <1>1, <3>2 DEF SetDeviceVolume
  <2> QED BY <1>1, <2>1 DEF SetDeviceVolume
<1>2. CASE NoDeviceVolume BY <1>2 DEF NoDeviceVolume
<1>3. CASE GetDacVol BY <1>3 DEF GetDacVol
<1>4. CASE MediaPlay BY <1>4 DEF MediaPlay
<1>5. CASE MediaStop BY <1>5 DEF MediaStop
<1> QED BY <1>1, <1>2, <1>3, <1>4, <1>5 DEF Music

LEMMA PowerStep ==
  ASSUME VolumeInv, PowerLoss
  PROVE  VolumeInv'
<1>1. FromFlash \in 0 .. Max
  BY Flash DEF VolumeInv, VolumeTypeOK
<1>2. ~sco' /\ ~a2dp' /\ {sco', a2dp'} \subseteq BOOLEAN
  BY Zenon DEF PowerLoss
<1> QED BY <1>1, <1>2, VolumeAssumption
        DEF PowerLoss, Spend, VolumeInv, VolumeTypeOK, Limits, Apart, Crossed, Wanted, Working, Still, Byte

LEMMA VolumeStep ==
  ASSUME VolumeInv, [VolumeNext]_volVars
  PROVE  VolumeInv'
<1>1. CASE UNCHANGED volVars
  BY <1>1 DEF volVars, VolumeInv, VolumeTypeOK, Limits, Apart, Crossed, Wanted, Working, Still
<1> QED BY <1>1, HandlerStep, LoopStep, CallStep, MusicStep, PowerStep DEF VolumeNext

-----------------------------------------------------------------------------
\* What the volume's handlers have read and are about to set, at each access.
THEOREM VolumeInvariance == VolumeSpec => []VolumeInv
BY VolumeStart, VolumeStep, PTL DEF VolumeSpec

\* The types: no arithmetic on the volume leaves its byte.
THEOREM VolumeTypeCorrect == VolumeSpec => []VolumeTypeOK
BY VolumeInvariance, PTL DEF VolumeInv

\* The player is as loud as it says, and a call within its limit.
THEOREM LoudAsSet == VolumeSpec => []HeardAsSet
<1>1. VolumeInv => HeardAsSet
  BY DEF VolumeInv, Limits, Working, Still, HeardAsSet, Idle
<1> QED BY <1>1, VolumeInvariance, PTL

\* A call leaves the volume as it was.
THEOREM CallsRestore == VolumeSpec => []AfterCall
<1>1. VolumeInv => AfterCall
  BY DEF VolumeInv, Working, Still, AfterCall, Idle
<1> QED BY <1>1, VolumeInvariance, PTL

-----------------------------------------------------------------------------
(***************************************************************************)
(* The two together: every behaviour of MCBluetooth is one of Reconnect    *)
(* and one of Volume, with the fairness of both, so that each keeps what   *)
(* it has been proved to keep alone.                                       *)
(***************************************************************************)
THEOREM LinkImplemented == Spec => LinkSpec
<1>1. Init => LinkInit
  BY DEF Init
<1>2. [Next]_vars => [Link]_linkVars
  BY DEF Next, vars
<1> QED BY <1>1, <1>2, PTL DEF Spec, LinkSpec

\* The same for the volume.
THEOREM VolumeImplemented == Spec => VolumeSpec
<1>1. Init => VolumeInit
  BY DEF Init
<1>2. [Next]_vars => [VolumeNext]_volVars
  BY DEF Next, vars
<1> QED BY <1>1, <1>2, PTL DEF Spec, VolumeSpec

\* The types of the phones' connections and of the volume, whichever moves.
THEOREM BothTypeCorrect == Spec => []TypeOK
<1>1. Init => part \in {"link", "volume"}
  BY DEF Init
<1>2. part \in {"link", "volume"} /\ [Next]_vars => (part \in {"link", "volume"})'
  BY DEF Next, vars
<1>3. Spec => []LinkTypeOK
  BY LinkImplemented, LinkTypeCorrect
<1>4. Spec => []VolumeTypeOK
  BY VolumeImplemented, VolumeTypeCorrect
<1> QED BY <1>1, <1>2, <1>3, <1>4, PTL DEF Spec, TypeOK

\* The player stays in reach and its scans fit its phones, it is as loud as it
\* says, and calls leave its volume as it was, with the phones and the keys
\* interleaved in any order.
THEOREM BothKeepAll == Spec => [](InReach /\ ScansFit /\ HeardAsSet /\ AfterCall)
<1>1. Spec => []InReach /\ []ScansFit
  BY LinkImplemented, StaysInReach, ScansRight
<1>2. Spec => []HeardAsSet /\ []AfterCall
  BY VolumeImplemented, LoudAsSet, CallsRestore
<1> QED BY <1>1, <1>2, PTL
=============================================================================
