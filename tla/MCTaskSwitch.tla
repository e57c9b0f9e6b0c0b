---------------------------- MODULE MCTaskSwitch ----------------------------
(***************************************************************************)
(* TaskSwitch with the list the default configuration builds: Bluetooth    *)
(* and music are registered, LINEIN and IDLE have ids but no entry.        *)
(***************************************************************************)
EXTENDS TaskSwitch

MCList == [i \in 0 .. 3 |->
             CASE i = 0 -> "free" [] i = 1 -> "checked" [] OTHER -> "null"]

\* A walk can run off this list, and not off the same one with IDLE registered.
WithIdle == INSTANCE TaskSwitch WITH List <- [MCList EXCEPT ![3] = "free"]
ASSUME OpenLists == Open /\ ~WithIdle!Open
=============================================================================
