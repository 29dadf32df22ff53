--------------------------- MODULE VersionLedger ---------------------------
(***************************************************************************)
(* What the workflow store promises about a workflow whatever requests     *)
(* race on it: its versions form a log that only grows, and the version    *)
(* that is marked as live is always one that passed a test run.            *)
(*                                                                         *)
(* `log` is the sequence of definitions, `tested` the versions with a      *)
(* completed execution and `live` the version marked as published, 0 when  *)
(* there is none.                                                          *)
(***************************************************************************)
EXTENDS Naturals, Sequences

CONSTANT Bodies       \* the definitions a version can hold

VARIABLES log, tested, live

vars == <<log, tested, live>>

Init == /\ \E b \in Bodies : log = <<b>>
        /\ tested = {}
        /\ live = 0

\* A new version is appended; the edit may also take the workflow offline.
Edit == /\ \E b \in Bodies : log' = Append(log, b)
        /\ live' \in {live, 0}
        /\ UNCHANGED tested

\* A run of some version of the log completes.
Test == /\ \E v \in 1..Len(log) : tested' = tested \cup {v}
        /\ UNCHANGED <<log, live>>

\* A tested version goes live.
GoLive == /\ live' \in tested
          /\ UNCHANGED <<log, tested>>

TakeOffline == live' = 0 /\ UNCHANGED <<log, tested>>

Next == Edit \/ Test \/ GoLive \/ TakeOffline

Spec == Init /\ [][Next]_vars
=============================================================================
