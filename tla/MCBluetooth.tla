----------------------------- MODULE MCBluetooth -----------------------------
(***************************************************************************)
(* Reconnect and Volume for TLC.  Both answer the Bluetooth stack, and     *)
(* neither reads or writes a variable of the other: any behaviour of the   *)
(* two together is one of each, interleaved.  part chooses the one that    *)
(* moves, so that the states of the two add up instead of multiplying.     *)
(***************************************************************************)
EXTENDS Reconnect, Volume

VARIABLE part

vars == <<part, linkVars, volVars>>

Init ==
  /\ part \in {"link", "volume"} /\ LinkInit /\ VolumeInit
  /\ part = "volume" => most = 1 /\ search = 0     \* the one that stands need not vary

Next ==
  /\ UNCHANGED part
  /\ \/ part = "link" /\ Link /\ UNCHANGED volVars
     \/ part = "volume" /\ VolumeNext /\ UNCHANGED linkVars

Spec == Init /\ [][Next]_vars /\ LinkFair /\ VolumeFair

\* The types of the two: see LinkTypeOK and VolumeTypeOK.
TypeOK == part \in {"link", "volume"} /\ LinkTypeOK /\ VolumeTypeOK
=============================================================================
