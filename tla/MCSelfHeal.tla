----------------------------- MODULE MCSelfHeal -----------------------------
(***************************************************************************)
(* Small instances of SelfHeal.                                            *)
(***************************************************************************)
EXTENDS SelfHeal, TLC

CONSTANTS s1, s2, b1, b2, n1, h1, h2
=============================================================================
