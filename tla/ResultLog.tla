----------------------------- MODULE ResultLog -----------------------------
(***************************************************************************)
(* What the checkpoints of a flow promise to a run that resumes from them: *)
(* a log of node results that is only ever extended, that holds the        *)
(* results a recorded result came from, and whose results agree with one   *)
(* another.  A fresh run begins a log of its own.                          *)
(***************************************************************************)
EXTENDS Naturals

CONSTANT Nodes

VARIABLES
    shape,      \* the flow, which does not change
    chain,      \* which log this is, 0 before the first
    log         \* what it says of every node

\* The nodes that a node depends on; those whose failure or skip stops what
\* depends on them; those that are never logged; and those that may be skipped
\* on a condition or by a person.
Shape == [deps : [Nodes -> SUBSET Nodes], raises : SUBSET Nodes,
          unlogged : SUBSET Nodes, whim : SUBSET Nodes]

Values == {"none", "success", "failure", "skip"}

Logged(l) == {n \in Nodes : l[n] # "none"}

\* Something that n waits for ended in a way that n does not survive.
Blocked(l, n) == \E d \in shape.deps[n] \cap shape.raises : l[d] \in {"failure", "skip"}

\* n ran on the results that the log holds, or was skipped because of them.
Agrees(l, n) ==
    /\ shape.deps[n] \ shape.unlogged \subseteq Logged(l)
    /\ l[n] \in {"success", "failure"} => ~Blocked(l, n)
    /\ l[n] = "skip" => \/ Blocked(l, n)
                        \/ n \in shape.whim
                        \/ shape.deps[n] \cap shape.unlogged # {}

Sound(l) ==
    /\ l \in [Nodes -> Values]
    /\ Logged(l) \cap shape.unlogged = {}
    /\ \A n \in Logged(l) : Agrees(l, n)

Init == shape \in Shape /\ chain = 0 /\ log = [n \in Nodes |-> "none"]

Extend ==
    /\ UNCHANGED <<shape, chain>>
    /\ Sound(log') /\ \A n \in Logged(log) : log'[n] = log[n]

Begin == UNCHANGED shape /\ chain' \in Nat /\ chain' > chain /\ Sound(log')

Next == Extend \/ Begin

Spec == Init /\ [][Next]_<<shape, chain, log>>
=============================================================================
