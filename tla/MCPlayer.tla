------------------------------ MODULE MCPlayer ------------------------------
(***************************************************************************)
(* Player with a card of three files, the second of them faulty, and a USB *)
(* disk that comes and goes with one file: one without playing time, or a  *)
(* faulty one.                                                             *)
(***************************************************************************)
EXTENDS Player

MCFiles == {"a", "b", "c", "x"}
MCGood == {"a", "c", "x"}
MCZero == {"c"}
MCFolder == [f \in MCFiles |-> IF f \in {"a", "b"} THEN 1 ELSE 2]
MCContents == [d \in 1 .. 2 |-> IF d = 1 THEN {<<"a", "b", "x">>} ELSE {<<"b">>, <<"c">>}]
=============================================================================
