------------------------ MODULE MCScheduleDispatcher ------------------------
(***************************************************************************)
(* ScheduleDispatcher with two ticks, both in time for either slot, and    *)
(* two schedules.  Workflows are interchangeable.                          *)
(***************************************************************************)
EXTENDS ScheduleDispatcher, TLC

MCTicks == {1, 3}
MCSlots(v) == IF v = 1 THEN {1} ELSE {1, 2}
MCSymmetry == Permutations(Workflows)
=============================================================================
