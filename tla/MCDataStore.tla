---------------------------- MODULE MCDataStore ----------------------------
(***************************************************************************)
(* DataStore with runs and calls that write the same rows.                 *)
(***************************************************************************)
EXTENDS DataStore, TLC
=============================================================================
