----------------------------- MODULE MCMsgQueue -----------------------------
(***************************************************************************)
(* MsgQueue with three events, two messages and a ring of four cells: two  *)
(* frames with a parameter do not fit, so headers are accepted whose       *)
(* parameter is refused.  The low half of the parameter reads as a header  *)
(* that promises one parameter more.                                       *)
(***************************************************************************)
EXTENDS MsgQueue

MCEvents == {6, 29, 31}
MCParams == {<<[n |-> 1, id |-> 7], [n |-> 0, id |-> 0]>>}
MCLens == {1, 2}
MCUndef == <<>>
=============================================================================
