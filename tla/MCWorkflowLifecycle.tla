------------------------ MODULE MCWorkflowLifecycle ------------------------
(***************************************************************************)
(* Small instances of WorkflowLifecycle.                                   *)
(***************************************************************************)
EXTENDS WorkflowLifecycle, TLC

CONSTANTS s1, s2, b1, b2, n1, n2

\* Sessions are created alike and told apart by nothing else.
Symmetry == Permutations(Sessions)
=============================================================================
