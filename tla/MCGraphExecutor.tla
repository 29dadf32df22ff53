-------------------------- MODULE MCGraphExecutor --------------------------
(***************************************************************************)
(* GraphExecutor over families of small graphs: branches that are gated    *)
(* and converge, and loops with what depends on them and on their bodies.  *)
(***************************************************************************)
EXTENDS GraphExecutor, TLC

MCNodes == 1..4
MCBranches == {"ok", "failed"}

\* A node as the families below describe it.
Node(k, d, g, b, e) == [kind |-> k, deps |-> d, gate |-> g, body |-> b, on_error |-> e]
Plain(k, d) == Node(k, d, [m \in MCNodes |-> "none"], <<>>, "fail")
Gated(k, d, m, label) == [Plain(k, d) EXCEPT !.gate[m] = label]
Handled(node, policies) == {[node EXCEPT !.on_error = e] : e \in policies}

MakeGraph(a, b, c, d) ==
    LET N == <<a, b, c, d>>
    IN  [kind |-> [n \in MCNodes |-> N[n].kind], deps |-> [n \in MCNodes |-> N[n].deps],
         gate |-> [n \in MCNodes |-> N[n].gate], body |-> [n \in MCNodes |-> N[n].body],
         on_error |-> [n \in MCNodes |-> N[n].on_error]]

\* 1 decides, 2 and 3 are its branches (3 perhaps not waiting for it), 4 is
\* downstream of any of them and perhaps gated too.
Branching ==
    {MakeGraph(a, b, c, d) :
        a \in {Plain("condition", {}), Plain("trigger", {}),
               [Plain("action", {}) EXCEPT !.on_error = "route"]},
        b \in {Gated("agent", {1}, 1, "ok"), Gated("webhook", {1}, 1, "ok")}
              \cup Handled(Gated("action", {1}, 1, "ok"), {"fail", "continue"}),
        c \in {Gated("if", {1}, 1, "failed"), Gated("agent", {}, 1, "failed"),
               [Gated("action", {1, 2}, 1, "*") EXCEPT !.on_error = "continue"]},
        d \in {Plain(k, deps) : k \in {"merge", "data_store"}, deps \in SUBSET {2, 3}}
              \cup {Gated("agent", {2}, 1, "failed"), Gated("agent", {3}, 3, "ok")}}

\* 1 is a loop over 2 and 3, in either order, of which 3 perhaps waits for 2 or
\* does not wait for the loop; 4 depends on any of them.
Looping ==
    {MakeGraph([Plain("for_each", {}) EXCEPT !.body = body], b, c, d) :
        body \in {<<2>>, <<2, 3>>, <<3, 2>>},
        b \in Handled(Plain("action", {1}), Policies) \cup {Plain("agent", {1})},
        c \in {Plain("agent", {1}), Plain("action", {2}), Plain("merge", {1}), Plain("action", {})},
        d \in {Plain("merge", {1, 3}), Plain("agent", {1}), Plain("action", {3})}}

\* 1 decides whether the loop 2 over 3 runs; 4 converges.
GatedLoop ==
    {MakeGraph(Plain("condition", {}), [Gated("for_each", {1}, 1, "ok") EXCEPT !.body = <<3>>], c, d) :
        c \in Handled(Plain("action", {2}), {"fail", "continue"}),
        d \in {Plain("merge", {1, 3}), Plain("merge", {2, 3}), Plain("webhook", {2}),
               Gated("agent", {2}, 1, "failed")}}

\* The same graph with the ids the other way round.
Reversed(g) ==
    LET r(n) == 5 - n
        R(S) == {r(n) : n \in S}
    IN  [kind |-> [n \in MCNodes |-> g.kind[r(n)]],
         deps |-> [n \in MCNodes |-> R(g.deps[r(n)])],
         gate |-> [n \in MCNodes |-> [m \in MCNodes |-> g.gate[r(n)][r(m)]]],
         body |-> [n \in MCNodes |-> [i \in DOMAIN g.body[r(n)] |-> r(g.body[r(n)][i])]],
         on_error |-> [n \in MCNodes |-> g.on_error[r(n)]]]

Families == Branching \cup Looping \cup GatedLoop

MCGraphs == Families \cup {Reversed(g) : g \in Families}

\* Graphs in which only actions can fail.
ActionGraphs == {g \in Families : \A n \in MCNodes : g.kind[n] \notin {"agent", "webhook"}}
=============================================================================
