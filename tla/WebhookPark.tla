---------------------------- MODULE WebhookPark ----------------------------
(***************************************************************************)
(* Executions that wait for webhooks: the node that mints a token and      *)
(* polls Redis (_park_for_webhook of agents/extended_executor.py), the     *)
(* service that keeps the execution's row (execute_workflow of             *)
(* services/workflow_service.py), and the requests that resume it          *)
(* (resume_webhook_route of routers/workflows.py), three Redis commands    *)
(* each.                                                                   *)
(*                                                                         *)
(* The waits of an execution follow each other; the nodes between them are *)
(* left out.  There is no clock: a token lives for the node's timeout from *)
(* before the node starts to count, so the wait is over only when the      *)
(* token is.                                                               *)
(***************************************************************************)
EXTENDS Integers, Sequences

CONSTANTS
    Executions,
    Waits,        \* the number of waits of an execution
    MaxRequests   \* bound on the requests

ASSUME ParkAssumption == Waits \in Nat /\ MaxRequests \in Nat

Parks == Executions \X (1..Waits)   \* what a token stands for

VARIABLES
    pc,         \* where the walk of an execution is
    at,         \* the wait it has come to
    row,        \* the committed status of the execution
    error,      \* graph_error of the service
    output,     \* what a wait gave to the nodes after it: a request, or 0
    token,      \* the token of a park, in Redis
    known,      \* the parks whose token has been published
    payload,    \* the payload of a park, in Redis
    heard,      \* the payload an execution has read
    requests    \* the requests so far

vars == <<pc, at, row, error, output, token, known, payload, heard, requests>>

Request == [url : Executions, park : Parks,
            st : {"found", "stored", "resumed", "refused", "broken"}]

TypeOK ==
    /\ pc \in [Executions -> {"walk", "minted", "parked", "polling", "heard", "done", "dead"}]
    /\ at \in [Executions -> 1..(Waits + 1)]
    /\ \A e \in Executions : pc[e] \in {"minted", "parked", "polling", "heard"} => at[e] <= Waits
    /\ row \in [Executions -> {"running", "hitl_waiting", "completed", "failed"}]
    /\ error \in [Executions -> BOOLEAN]
    /\ output \in [Parks -> 0..MaxRequests]
    /\ token \in [Parks -> BOOLEAN]
    /\ known \subseteq Parks
    /\ payload \in [Parks -> 0..MaxRequests]
    /\ heard \in [Executions -> 0..MaxRequests]
    /\ requests \in Seq(Request) /\ Len(requests) <= MaxRequests

(***************************************************************************)
(* The execution                                                           *)
(***************************************************************************)

Here(e) == <<e, at[e]>>
GoesOn(e) == pc' = [pc EXCEPT ![e] = "walk"] /\ at' = [at EXCEPT ![e] = @ + 1]

\* (Definitions with a suffix after the underscore, here and below, are broken
\* variants of the definition that follows; nothing uses them.)
Mint(e) ==
    /\ pc[e] = "walk" /\ at[e] <= Waits
    /\ token' = [token EXCEPT ![Here(e)] = TRUE]
    /\ pc' = [pc EXCEPT ![e] = "minted"]
    /\ UNCHANGED <<at, row, error, output, known, payload, heard, requests>>

\* The service stores the status and the token.
Park(e) ==
    /\ pc[e] = "minted"
    /\ row' = [row EXCEPT ![e] = "hitl_waiting"] /\ known' = known \cup {Here(e)}
    /\ pc' = [pc EXCEPT ![e] = "parked"]
    /\ UNCHANGED <<at, error, output, token, payload, heard, requests>>

\* The event has gone out, and the node starts to poll.
Tell(e) ==
    /\ pc[e] = "parked"
    /\ pc' = [pc EXCEPT ![e] = "polling"]
    /\ UNCHANGED <<at, row, error, output, token, known, payload, heard, requests>>

\* GET of the payload.
Hear(e) ==
    /\ pc[e] = "polling" /\ payload[Here(e)] # 0
    /\ heard' = [heard EXCEPT ![e] = payload[Here(e)]]
    /\ pc' = [pc EXCEPT ![e] = "heard"]
    /\ UNCHANGED <<at, row, error, output, token, known, payload, requests>>

\* DELETE, and the service stores the status: what was written in between is
\* deleted unread.
Resumed_forgives(e) ==
    /\ pc[e] = "heard"
    /\ payload' = [payload EXCEPT ![Here(e)] = 0]
    /\ output' = [output EXCEPT ![Here(e)] = heard[e]]
    /\ heard' = [heard EXCEPT ![e] = 0]
    /\ row' = [row EXCEPT ![e] = "running"] /\ GoesOn(e)
    /\ error' = [error EXCEPT ![e] = FALSE]
    /\ UNCHANGED <<token, known, requests>>
Resumed(e) ==
    /\ pc[e] = "heard"
    /\ payload' = [payload EXCEPT ![Here(e)] = 0]
    /\ output' = [output EXCEPT ![Here(e)] = heard[e]]
    /\ heard' = [heard EXCEPT ![e] = 0]
    /\ row' = [row EXCEPT ![e] = "running"] /\ GoesOn(e)
    /\ UNCHANGED <<error, token, known, requests>>

\* The deadline passes while the node sleeps, whatever was written meanwhile.
\* The error is noted and the walk goes on.
TimeOut_unused(e) ==
    /\ pc[e] = "polling" /\ ~token[Here(e)] /\ payload[Here(e)] # 0
    /\ error' = [error EXCEPT ![e] = TRUE] /\ GoesOn(e)
    /\ UNCHANGED <<row, output, token, known, payload, heard, requests>>
TimeOut(e) ==
    /\ pc[e] = "polling" /\ ~token[Here(e)]
    /\ error' = [error EXCEPT ![e] = TRUE] /\ GoesOn(e)
    /\ UNCHANGED <<row, output, token, known, payload, heard, requests>>

Finish(e) ==
    /\ pc[e] = "walk" /\ at[e] > Waits
    /\ row' = [row EXCEPT ![e] = IF error[e] THEN "failed" ELSE "completed"]
    /\ pc' = [pc EXCEPT ![e] = "done"]
    /\ UNCHANGED <<at, error, output, token, known, payload, heard, requests>>

\* Redis or another node raises.
Raise(e) ==
    /\ pc[e] \in {"walk", "minted", "parked", "polling", "heard"}
    /\ row' = [row EXCEPT ![e] = "failed"] /\ pc' = [pc EXCEPT ![e] = "done"]
    /\ UNCHANGED <<at, error, output, token, known, payload, heard, requests>>

\* The process dies, the client leaves, or the headless runner leaves a stream
\* that parks: the row stays as it is.
Die(e) ==
    /\ pc[e] \notin {"done", "dead"} /\ pc' = [pc EXCEPT ![e] = "dead"]
    /\ UNCHANGED <<at, row, error, output, token, known, payload, heard, requests>>

(***************************************************************************)
(* resume_webhook_route                                                    *)
(***************************************************************************)

\* GET of the token, and the comparison with the execution in the URL.
Arrive_anyUrl(e, p) ==
    /\ p \in known /\ Len(requests) < MaxRequests
    /\ requests' = Append(requests, [url |-> e, park |-> p,
                      st |-> IF token[p] THEN "found" ELSE "refused"])
    /\ UNCHANGED <<pc, at, row, error, output, token, known, payload, heard>>
Arrive(e, p) ==
    /\ p \in known /\ Len(requests) < MaxRequests
    /\ requests' = Append(requests, [url |-> e, park |-> p,
                      st |-> IF token[p] /\ p[1] = e THEN "found" ELSE "refused"])
    /\ UNCHANGED <<pc, at, row, error, output, token, known, payload, heard>>

To(r, st) == requests' = [requests EXCEPT ![r].st = st]

\* SET of the payload under the execution in the URL and the node of the token.
Put(r) ==
    /\ requests[r].st = "found" /\ To(r, "stored")
    /\ payload' = [payload EXCEPT ![<<requests[r].url, requests[r].park[2]>>] = r]
    /\ UNCHANGED <<pc, at, row, error, output, token, known, heard>>

\* DELETE of the token, and the answer.
Answer_keeps(r) ==
    /\ requests[r].st = "stored" /\ To(r, "resumed")
    /\ UNCHANGED <<pc, at, row, error, output, token, known, payload, heard>>
Answer(r) ==
    /\ requests[r].st = "stored" /\ To(r, "resumed")
    /\ token' = [token EXCEPT ![requests[r].park] = FALSE]
    /\ UNCHANGED <<pc, at, row, error, output, known, payload, heard>>

Break(r) ==
    /\ requests[r].st \in {"found", "stored"} /\ To(r, "broken")
    /\ UNCHANGED <<pc, at, row, error, output, token, known, payload, heard>>

(***************************************************************************)
(* Time                                                                    *)
(***************************************************************************)

TokenExpires(p) ==
    /\ token[p] /\ token' = [token EXCEPT ![p] = FALSE]
    /\ UNCHANGED <<pc, at, row, error, output, known, payload, heard, requests>>

\* After an hour: only when nobody polls for it.
PayloadExpires(p) ==
    /\ payload[p] # 0 /\ ~(pc[p[1]] = "polling" /\ at[p[1]] = p[2])
    /\ payload' = [payload EXCEPT ![p] = 0]
    /\ UNCHANGED <<pc, at, row, error, output, token, known, heard, requests>>

Init ==
    /\ pc = [e \in Executions |-> "walk"] /\ at = [e \in Executions |-> 1]
    /\ row = [e \in Executions |-> "running"] /\ error = [e \in Executions |-> FALSE]
    /\ output = [p \in Parks |-> 0] /\ token = [p \in Parks |-> FALSE] /\ known = {}
    /\ payload = [p \in Parks |-> 0] /\ heard = [e \in Executions |-> 0]
    /\ requests = <<>>

Work(e) ==
    Mint(e) \/ Park(e) \/ Tell(e) \/ Hear(e) \/ Resumed(e) \/ TimeOut(e) \/ Finish(e)

Next ==
    \/ \E e \in Executions : Work(e) \/ Raise(e) \/ Die(e)
    \/ \E e \in Executions, p \in Parks : Arrive(e, p)
    \/ \E r \in 1..Len(requests) : Put(r) \/ Answer(r) \/ Break(r)
    \/ \E p \in Parks : TokenExpires(p) \/ PayloadExpires(p)

\* A coroutine that has not died goes on, and time passes.  Nobody has to post.
Fairness ==
    /\ \A e \in Executions : WF_vars(Work(e))
    /\ \A p \in Parks : WF_vars(TokenExpires(p))

Spec == Init /\ [][Next]_vars /\ Fairness

(***************************************************************************)
(* Properties                                                              *)
(***************************************************************************)

\* Hazard: payloads outlive their wait, several requests hold one token, and the
\* route writes before it deletes.  What a wait passes on was posted with its own
\* token.
OwnPayload ==
    \A p \in Parks : output[p] # 0 =>
        /\ output[p] <= Len(requests)
        /\ requests[output[p]].park = p
        /\ requests[output[p]].st # "refused"

\* Hazard: the token is checked by one command and deleted by a later one.  A
\* request that comes after an answered one is refused.
UsedOnce ==
    [][\A r \in 1..Len(requests') :
          /\ r > Len(requests)
          /\ \E q \in 1..Len(requests) :
                requests[q].st = "resumed" /\ requests[q].park = requests'[r].park
          => requests'[r].st = "refused"]_vars

\* Hazard: the walk goes on after a wait that timed out, and a later wait puts
\* the row back to running.  A completed execution heard from all its waits.
CompletedHeardAll ==
    \A e \in Executions : row[e] = "completed" =>
        \A n \in 1..Waits : output[<<e, n>>] # 0

\* Hazard: a wait that nobody answers, or whose answer is lost.  An execution
\* that does not die comes to an end, and its row says so.
Ends ==
    \A e \in Executions :
        row[e] = "hitl_waiting" ~> row[e] \in {"completed", "failed"} \/ pc[e] = "dead"
=============================================================================
