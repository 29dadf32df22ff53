---------------------------- MODULE MCHumanGate ----------------------------
(***************************************************************************)
(* HumanGate with up to four stages, of which three may run.               *)
(***************************************************************************)
EXTENDS HumanGate

MCCheckpoints == {1, 3}
=============================================================================
