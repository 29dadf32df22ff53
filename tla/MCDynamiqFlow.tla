---------------------------- MODULE MCDynamiqFlow ----------------------------
(***************************************************************************)
(* DynamiqFlow over a few flows of three nodes: a chain, a fork and a      *)
(* join, with approvals, agents, retries and excluded nodes among them.    *)
(***************************************************************************)
EXTENDS DynamiqFlow

N1 == 1
N2 == 2
N3 == 3
MCNodes == {N1, N2, N3}

Basic(deps) ==
    [async |-> FALSE, deps |-> deps, raises |-> MCNodes, choice |-> {}, approval |-> {},
     agents |-> {}, excluded |-> {}, tries |-> [n \in MCNodes |-> 1], timeout |-> {}]

Chain == <<{}, {1}, {2}>>
Fork == <<{}, {1}, {1}>>
Join == <<{}, {}, {1, 2}>>

Two == [Basic(Join) EXCEPT !.approval = {1, 2}, !.raises = {2, 3}]
Batch == [Basic(Fork) EXCEPT !.async = TRUE, !.excluded = {1}, !.approval = {2},
                             !.agents = {3}, !.choice = {2}]
Retry == [Basic(Chain) EXCEPT !.agents = {2}, !.approval = {2}, !.tries[2] = 2, !.timeout = {2}]

MCFlows == {Two, [Two EXCEPT !.async = TRUE], Batch, Retry}
=============================================================================
