----------------------------- MODULE MCHotPlug -----------------------------
(***************************************************************************)
(* HotPlug with the event numbers of msg.h.                                *)
(***************************************************************************)
EXTENDS HotPlug

CONSTANTS sd1, usb

MCNo == [e \in Events |->
           IF e[2] = usb
             THEN (CASE e[1] = "on" -> 2 [] e[1] = "off" -> 3 [] e[1] = "succ" -> 14)
             ELSE (CASE e[1] = "on" -> 6 [] e[1] = "off" -> 7 [] e[1] = "succ" -> 13)]
=============================================================================
