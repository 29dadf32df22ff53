------------------------- MODULE WebhookParkProofs -------------------------
(***************************************************************************)
(* The safety properties of waits for webhooks, for any set of executions, *)
(* any number of waits and any number of requests.                         *)
(***************************************************************************)
EXTENDS WebhookPark, SequenceTheorems, TLAPS

(***************************************************************************)
(* The inductive invariant                                                 *)
(***************************************************************************)

\* A park whose token was published is behind its execution, or the execution
\* waits there or has ended there: its token is not minted again.
KnownArePast ==
    \A p \in known :
        \/ p[2] < at[p[1]]
        \/ p[2] = at[p[1]] /\ pc[p[1]] \in {"parked", "polling", "heard", "done", "dead"}

\* A request is for a published park, in the name of its execution unless it was
\* refused, and once it is answered the token is gone.
RequestsFit ==
    \A r \in 1..Len(requests) :
        /\ requests[r].park \in known
        /\ requests[r].st # "refused" => requests[r].url = requests[r].park[1]
        /\ requests[r].st = "resumed" => ~token[requests[r].park]

\* Request r was posted with the token of park p.
Posted(r, p) ==
    r \in 1..Len(requests) /\ requests[r].park = p /\ requests[r].st # "refused"

\* What is stored, what is being consumed and what was passed on.
PayloadsFit ==
    /\ \A p \in Parks : payload[p] # 0 => Posted(payload[p], p)
    /\ \A e \in Executions : pc[e] = "heard" => heard[e] # 0 /\ Posted(heard[e], Here(e))
    /\ \A p \in Parks : output[p] # 0 => Posted(output[p], p)

\* Without an error every wait that is behind has been heard.
HeardSoFar ==
    \A e \in Executions : ~error[e] =>
        \A n \in 1..Waits : n < at[e] => output[<<e, n>>] # 0

Inv ==
    /\ TypeOK /\ KnownArePast /\ RequestsFit /\ PayloadsFit /\ HeardSoFar
    /\ CompletedHeardAll

(***************************************************************************)
(* Types                                                                   *)
(***************************************************************************)

LEMMA TypeInit == Init => TypeOK
  BY ParkAssumption DEF Init, TypeOK, Parks, Request

\* Here(e) is a park while the execution is at a wait.
LEMMA HereIsPark ==
    ASSUME TypeOK, NEW e \in Executions, at[e] <= Waits
    PROVE  Here(e) \in Parks /\ Here(e)[1] = e /\ Here(e)[2] = at[e]
  BY ParkAssumption DEF TypeOK, Here, Parks

LEMMA WorkTypes ==
    ASSUME TypeOK, NEW e \in Executions, Work(e) \/ Raise(e) \/ Die(e)
    PROVE  TypeOK'
<1>. USE ParkAssumption
<1>1. CASE Mint(e)
  BY <1>1, HereIsPark DEF TypeOK, Mint
<1>2. CASE Park(e)
  BY <1>2, HereIsPark DEF TypeOK, Park
<1>3. CASE Tell(e)
  BY <1>3 DEF TypeOK, Tell
<1>4. CASE Hear(e)
  <2>1. at[e] <= Waits
    BY <1>4 DEF TypeOK, Hear
  <2>2. Here(e) \in Parks /\ payload[Here(e)] \in 0..MaxRequests
    BY <2>1, HereIsPark DEF TypeOK
  <2>3. heard' \in [Executions -> 0..MaxRequests] /\ payload' \in [Parks -> 0..MaxRequests]
    BY <1>4, <2>2 DEF TypeOK, Hear
  <2>4. pc' = [pc EXCEPT ![e] = "heard"] /\ UNCHANGED <<at, row, error, output, token, known, requests>>
    BY <1>4 DEF Hear
  <2>5. \A f \in Executions : pc'[f] \in {"minted", "parked", "polling", "heard"} => at'[f] <= Waits
    BY <2>1, <2>4 DEF TypeOK
  <2>6. pc' \in [Executions -> {"walk", "minted", "parked", "polling", "heard", "done", "dead"}]
    BY <2>4 DEF TypeOK
  <2>. QED  BY <2>3, <2>4, <2>5, <2>6 DEF TypeOK
<1>5. CASE Resumed(e)
  BY <1>5, HereIsPark DEF TypeOK, Resumed, GoesOn
<1>6. CASE TimeOut(e)
  BY <1>6 DEF TypeOK, TimeOut, GoesOn
<1>7. CASE Finish(e)
  BY <1>7 DEF TypeOK, Finish
<1>8. CASE Raise(e)
  BY <1>8 DEF TypeOK, Raise
<1>9. CASE Die(e)
  BY <1>9 DEF TypeOK, Die
<1>. QED  BY <1>1, <1>2, <1>3, <1>4, <1>5, <1>6, <1>7, <1>8, <1>9 DEF Work

\* A request that moves on keeps its URL and its park.
LEMMA ToKeeps ==
    ASSUME TypeOK, NEW r \in 1..Len(requests), NEW st \in {"stored", "resumed", "broken"},
           To(r, st)
    PROVE  /\ requests' \in Seq(Request) /\ Len(requests') = Len(requests)
           /\ \A q \in 1..Len(requests) :
                 /\ requests'[q].url = requests[q].url
                 /\ requests'[q].park = requests[q].park
                 /\ requests'[q].st = IF q = r THEN st ELSE requests[q].st
<1>. DEFINE moved == [requests[r] EXCEPT !.st = st]
<1>1. requests \in Seq(Request) /\ requests[r] \in Request
  BY DEF TypeOK
<1>2. /\ moved \in Request
      /\ moved.url = requests[r].url /\ moved.park = requests[r].park /\ moved.st = st
  BY <1>1 DEF Request
<1>3. requests' = [requests EXCEPT ![r] = moved]
  BY DEF To
<1>. HIDE DEF moved
<1>. QED  BY <1>1, <1>2, <1>3, ExceptSeq

LEMMA ArriveAppends ==
    ASSUME TypeOK, NEW e \in Executions, NEW p \in Parks, Arrive(e, p)
    PROVE  /\ requests' \in Seq(Request) /\ Len(requests') = Len(requests) + 1
           /\ \A q \in 1..Len(requests) : requests'[q] = requests[q]
           /\ requests'[Len(requests) + 1] =
                 [url |-> e, park |-> p, st |-> IF token[p] /\ p[1] = e THEN "found" ELSE "refused"]
  BY DEF TypeOK, Arrive, Request

LEMMA RequestTypes ==
    ASSUME TypeOK, NEW r \in 1..Len(requests), Put(r) \/ Answer(r) \/ Break(r)
    PROVE  TypeOK'
<1>. USE ParkAssumption
<1>0. requests[r] \in Request
  BY DEF TypeOK
<1>1. CASE Put(r)
  <2>1. requests' \in Seq(Request) /\ Len(requests') = Len(requests)
    BY <1>1, ToKeeps DEF Put
  <2>2. r \in 0..MaxRequests
    BY DEF TypeOK
  <2>. QED  BY <1>1, <2>1, <2>2 DEF TypeOK, Put
<1>2. CASE Answer(r)
  <2>1. requests' \in Seq(Request) /\ Len(requests') = Len(requests)
    BY <1>2, ToKeeps DEF Answer
  <2>. QED  BY <1>2, <2>1 DEF TypeOK, Answer
<1>3. CASE Break(r)
  <2>1. requests' \in Seq(Request) /\ Len(requests') = Len(requests)
    BY <1>3, ToKeeps DEF Break
  <2>. QED  BY <1>3, <2>1 DEF TypeOK, Break
<1>. QED  BY <1>1, <1>2, <1>3

LEMMA TypeStep == TypeOK /\ [Next]_vars => TypeOK'
<1> SUFFICES ASSUME TypeOK, [Next]_vars PROVE TypeOK'
  OBVIOUS
<1>1. CASE \E e \in Executions : Work(e) \/ Raise(e) \/ Die(e)
  BY <1>1, WorkTypes
<1>2. CASE \E e \in Executions, p \in Parks : Arrive(e, p)
  <2>1. PICK e \in Executions, p \in Parks : Arrive(e, p)
    BY <1>2
  <2>2. requests' \in Seq(Request) /\ Len(requests') = Len(requests) + 1
    BY <2>1, ArriveAppends
  <2>. QED  BY <2>1, <2>2, ParkAssumption DEF TypeOK, Arrive
<1>3. CASE \E r \in 1..Len(requests) : Put(r) \/ Answer(r) \/ Break(r)
  BY <1>3, RequestTypes
<1>4. CASE \E p \in Parks : TokenExpires(p) \/ PayloadExpires(p)
  <2>1. PICK p \in Parks : TokenExpires(p) \/ PayloadExpires(p)
    BY <1>4
  <2>2. CASE TokenExpires(p)
    BY <2>2 DEF TypeOK, TokenExpires
  <2>3. CASE PayloadExpires(p)
    BY <2>3, ParkAssumption DEF TypeOK, PayloadExpires
  <2>. QED  BY <2>1, <2>2, <2>3
<1>5. CASE UNCHANGED vars
  BY <1>5 DEF vars, TypeOK
<1>. QED  BY <1>1, <1>2, <1>3, <1>4, <1>5 DEF Next

(***************************************************************************)
(* The invariant                                                           *)
(***************************************************************************)

LEMMA InvInit == Init => Inv
  BY TypeInit, ParkAssumption
     DEF Init, Inv, KnownArePast, RequestsFit, PayloadsFit, HeardSoFar, CompletedHeardAll, Parks

\* A new token is for a park that nobody has asked for.
LEMMA MintInv ==
    ASSUME Inv, NEW e \in Executions, Mint(e), TypeOK'  PROVE Inv'
<1>0. Here(e)[1] = e /\ Here(e)[2] = at[e] /\ at[e] \in Int
  BY HereIsPark DEF Inv, TypeOK, Mint
<1>1. Here(e) \notin known
  BY <1>0 DEF Inv, KnownArePast, Mint
<1>2. KnownArePast'
  BY DEF Inv, TypeOK, KnownArePast, Mint, Parks
<1>3. RequestsFit'
  BY <1>1 DEF Inv, TypeOK, RequestsFit, Mint
<1>4. PayloadsFit'
  BY DEF Inv, TypeOK, PayloadsFit, Posted, Here, Mint
<1>5. HeardSoFar' /\ CompletedHeardAll'
  BY DEF Inv, TypeOK, HeardSoFar, CompletedHeardAll, Mint
<1>. QED  BY <1>2, <1>3, <1>4, <1>5 DEF Inv

\* The other steps of an execution that pass nothing on.
LEMMA WaitInv ==
    ASSUME Inv, NEW e \in Executions, TypeOK',
           Park(e) \/ Tell(e) \/ Hear(e) \/ Raise(e) \/ Die(e) \/ Finish(e)
    PROVE  Inv'
<1>1. KnownArePast'
  <2>1. CASE Park(e)
    <3>1. Here(e)[1] = e /\ Here(e)[2] = at[e]
      BY DEF Here
    <3>2. known' = known \cup {Here(e)} /\ at' = at /\ pc' = [pc EXCEPT ![e] = "parked"]
      BY <2>1 DEF Park
    <3>3. \A p \in known : p[1] \in Executions
      BY DEF Inv, TypeOK, Parks
    <3>. QED  BY <2>1, <3>1, <3>2, <3>3 DEF Inv, TypeOK, KnownArePast, Park
  <2>2. CASE Tell(e) \/ Hear(e) \/ Raise(e) \/ Die(e) \/ Finish(e)
    BY <2>2 DEF Inv, TypeOK, KnownArePast, Tell, Hear, Raise, Die, Finish, Parks
  <2>. QED  BY <2>1, <2>2
<1>2. RequestsFit'
  BY DEF Inv, RequestsFit, Park, Tell, Hear, Raise, Die, Finish
<1>3. PayloadsFit'
  <2>1. CASE Hear(e)
    <3>1. Here(e) \in Parks /\ payload[Here(e)] # 0
      BY <2>1, HereIsPark DEF Inv, TypeOK, Hear
    <3>2. Posted(payload[Here(e)], Here(e))
      BY <3>1 DEF Inv, PayloadsFit
    <3>3. \A x \in Executions : Here(x)' = Here(x)
      BY <2>1 DEF Here, Hear
    <3>4. \A r, p : Posted(r, p)' <=> Posted(r, p)
      BY <2>1 DEF Posted, Hear
    <3>5. \A x \in Executions : pc'[x] = "heard" => heard'[x] # 0 /\ Posted(heard'[x], Here(x))
      BY <2>1, <3>1, <3>2 DEF Inv, TypeOK, PayloadsFit, Hear
    <3>. QED  BY <2>1, <3>3, <3>4, <3>5 DEF Inv, PayloadsFit, Hear
  <2>2. CASE Park(e) \/ Tell(e) \/ Raise(e) \/ Die(e) \/ Finish(e)
    BY <2>2 DEF Inv, TypeOK, PayloadsFit, Posted, Here, Park, Tell, Raise, Die, Finish
  <2>. QED  BY <2>1, <2>2
<1>4. HeardSoFar'
  BY DEF Inv, HeardSoFar, Park, Tell, Hear, Raise, Die, Finish
<1>5. CompletedHeardAll'
  <2>1. CASE Finish(e)
    BY <2>1, ParkAssumption DEF Inv, TypeOK, HeardSoFar, CompletedHeardAll, Finish
  <2>2. CASE Park(e) \/ Tell(e) \/ Hear(e) \/ Raise(e) \/ Die(e)
    BY <2>2 DEF Inv, TypeOK, CompletedHeardAll, Park, Tell, Hear, Raise, Die
  <2>. QED  BY <2>1, <2>2
<1>. QED  BY <1>1, <1>2, <1>3, <1>4, <1>5 DEF Inv

\* What is passed on is what was read for this wait.
LEMMA ResumedInv ==
    ASSUME Inv, NEW e \in Executions, Resumed(e), TypeOK'  PROVE Inv'
<1>. USE DEF Inv, Resumed, GoesOn
<1>0. Here(e) \in Parks /\ Here(e) = <<e, at[e]>> /\ at[e] <= Waits
  BY HereIsPark DEF TypeOK, Here
<1>1. KnownArePast'
  BY DEF TypeOK, KnownArePast, Parks
<1>2. RequestsFit'
  BY DEF RequestsFit
<1>3. PayloadsFit'
  <2>1. \A r, p : Posted(r, p)' <=> Posted(r, p)
    BY DEF Posted
  <2>2. heard[e] # 0 /\ Posted(heard[e], <<e, at[e]>>)
    BY <1>0 DEF PayloadsFit
  <2>3. \A p \in Parks : payload'[p] # 0 => Posted(payload'[p], p)
    BY <1>0 DEF TypeOK, PayloadsFit
  <2>4. \A p \in Parks : output'[p] # 0 => Posted(output'[p], p)
    <3>1. \A p \in Parks : output'[p] = IF p = Here(e) THEN heard[e] ELSE output[p]
      BY <1>0 DEF TypeOK
    <3>. QED  BY <1>0, <2>2, <3>1 DEF PayloadsFit
  <2>5. \A x \in Executions : pc'[x] = "heard" =>
           heard'[x] # 0 /\ Posted(heard'[x], <<x, at'[x]>>)
    BY DEF TypeOK, PayloadsFit, Here
  <2>. QED  BY <2>1, <2>3, <2>4, <2>5 DEF PayloadsFit, Here
<1>4. output' = [output EXCEPT ![<<e, at[e]>>] = heard[e]] /\ heard[e] # 0
  BY <1>0 DEF PayloadsFit
<1>5. HeardSoFar'
  <2> SUFFICES ASSUME NEW x \in Executions, ~error'[x], NEW n \in 1..Waits, n < at'[x]
               PROVE  output'[<<x, n>>] # 0
    BY DEF HeardSoFar
  <2>1. CASE x = e /\ n = at[e]
    BY <2>1, <1>0, <1>4 DEF TypeOK
  <2>2. CASE ~(x = e /\ n = at[e])
    <3>1. n < at[x]
      BY <2>2 DEF TypeOK
    <3>2. output[<<x, n>>] # 0
      BY <3>1 DEF HeardSoFar
    <3>. QED  BY <3>2, <1>4, <2>2 DEF TypeOK, Parks
  <2>. QED  BY <2>1, <2>2
<1>6. CompletedHeardAll'
  BY <1>4 DEF TypeOK, CompletedHeardAll, Parks
<1>. QED  BY <1>1, <1>2, <1>3, <1>5, <1>6

LEMMA TimeOutInv ==
    ASSUME Inv, NEW e \in Executions, TimeOut(e), TypeOK'  PROVE Inv'
<1>. USE DEF Inv, TimeOut, GoesOn
<1>1. KnownArePast'
  BY DEF TypeOK, KnownArePast, Parks
<1>2. RequestsFit'
  BY DEF RequestsFit
<1>3. PayloadsFit'
  BY DEF TypeOK, PayloadsFit, Posted, Here
<1>4. HeardSoFar'
  BY DEF TypeOK, HeardSoFar
<1>5. CompletedHeardAll'
  BY DEF CompletedHeardAll
<1>. QED  BY <1>1, <1>2, <1>3, <1>4, <1>5

LEMMA ArriveInv ==
    ASSUME Inv, NEW e \in Executions, NEW p \in Parks, Arrive(e, p), TypeOK'  PROVE Inv'
<1>1. /\ requests \in Seq(Request) /\ Len(requests') = Len(requests) + 1
      /\ \A q \in 1..Len(requests) : requests'[q] = requests[q]
      /\ requests'[Len(requests) + 1] =
            [url |-> e, park |-> p, st |-> IF token[p] /\ p[1] = e THEN "found" ELSE "refused"]
  BY ArriveAppends DEF Inv, TypeOK
<1>2. Len(requests) \in Nat
  BY <1>1
<1>3. KnownArePast'
  BY DEF Inv, KnownArePast, Arrive
<1>4. RequestsFit'
  <2> SUFFICES ASSUME NEW r \in 1..Len(requests')
               PROVE  /\ requests'[r].park \in known
                      /\ requests'[r].st # "refused" => requests'[r].url = requests'[r].park[1]
                      /\ requests'[r].st = "resumed" => ~token[requests'[r].park]
    BY DEF RequestsFit, Arrive
  <2>1. CASE r = Len(requests) + 1
    BY <2>1, <1>1 DEF Arrive
  <2>2. CASE r \in 1..Len(requests)
    BY <2>2, <1>1 DEF Inv, RequestsFit
  <2>. QED  BY <2>1, <2>2, <1>1, <1>2
<1>5. ASSUME NEW r, NEW q, Posted(r, q)  PROVE Posted(r, q)'
  BY <1>5, <1>1, <1>2 DEF Posted
<1>6. PayloadsFit'
  BY <1>5 DEF Inv, PayloadsFit, Here, Arrive
<1>7. HeardSoFar' /\ CompletedHeardAll'
  BY DEF Inv, HeardSoFar, CompletedHeardAll, Arrive
<1>. QED  BY <1>3, <1>4, <1>6, <1>7 DEF Inv

LEMMA RequestInv ==
    ASSUME Inv, NEW r \in 1..Len(requests), Put(r) \/ Answer(r) \/ Break(r), TypeOK'
    PROVE  Inv'
<1>0. PICK st \in {"stored", "resumed", "broken"} : To(r, st) /\ (st = "resumed" <=> Answer(r))
  BY DEF Put, Answer, Break
<1>1. /\ Len(requests') = Len(requests)
      /\ \A q \in 1..Len(requests) :
            /\ requests'[q].url = requests[q].url
            /\ requests'[q].park = requests[q].park
            /\ requests'[q].st = IF q = r THEN st ELSE requests[q].st
  BY <1>0, ToKeeps DEF Inv
<1>2. requests[r].st # "refused" /\ requests[r].park \in known /\ known \subseteq Parks
  BY DEF Put, Answer, Break, Inv, RequestsFit, TypeOK
<1>3. KnownArePast'
  BY DEF Inv, KnownArePast, Put, Answer, Break
<1>4. RequestsFit'
  <2> SUFFICES ASSUME NEW q \in 1..Len(requests)
               PROVE  /\ requests'[q].park \in known'
                      /\ requests'[q].st # "refused" => requests'[q].url = requests'[q].park[1]
                      /\ requests'[q].st = "resumed" => ~token'[requests'[q].park]
    BY <1>1 DEF RequestsFit
  <2>1. known' = known /\ \A p \in Parks : ~token[p] => ~token'[p]
    BY DEF Put, Answer, Break, Inv, TypeOK
  <2>a. /\ requests[q].park \in known /\ requests[q].park \in Parks
        /\ requests[q].st # "refused" => requests[q].url = requests[q].park[1]
        /\ requests[q].st = "resumed" => ~token[requests[q].park]
    BY <1>2 DEF Inv, RequestsFit
  <2>2. CASE q = r
    BY <2>1, <2>2, <2>a, <1>0, <1>1, <1>2 DEF Inv, Answer, TypeOK
  <2>3. CASE q # r
    BY <2>1, <2>3, <2>a, <1>1
  <2>. QED  BY <2>2, <2>3
<1>5. ASSUME NEW q, NEW p, Posted(q, p)  PROVE Posted(q, p)'
  BY <1>5, <1>1 DEF Posted
<1>6. PayloadsFit'
  <2>1. CASE Put(r)
    <3>1. <<requests[r].url, requests[r].park[2]>> = requests[r].park
      BY <1>2 DEF Inv, RequestsFit, Parks
    <3>2. payload' = [payload EXCEPT ![requests[r].park] = r] /\ Posted(r, requests[r].park)
      BY <2>1, <3>1, <1>2 DEF Put, Posted
    <3>3. \A p \in Parks : payload'[p] = IF p = requests[r].park THEN r ELSE payload[p]
      BY <3>2 DEF Inv, TypeOK
    <3>4. UNCHANGED <<pc, at, heard, output>>
      BY <2>1 DEF Put
    <3>. QED  BY <3>2, <3>3, <3>4, <1>5 DEF Inv, PayloadsFit, Here
  <2>2. CASE Answer(r) \/ Break(r)
    BY <2>2, <1>5 DEF Inv, PayloadsFit, Here, Answer, Break
  <2>. QED  BY <2>1, <2>2
<1>7. HeardSoFar' /\ CompletedHeardAll'
  BY DEF Inv, HeardSoFar, CompletedHeardAll, Put, Answer, Break
<1>. QED  BY <1>3, <1>4, <1>6, <1>7 DEF Inv

LEMMA ExpiryInv ==
    ASSUME Inv, NEW p \in Parks, TokenExpires(p) \/ PayloadExpires(p), TypeOK'  PROVE Inv'
<1>1. KnownArePast'
  BY DEF Inv, KnownArePast, TokenExpires, PayloadExpires
<1>2. RequestsFit'
  <2>1. UNCHANGED <<known, requests>>
    BY DEF TokenExpires, PayloadExpires
  <2>2. \A q \in Parks : ~token[q] => ~token'[q]
    BY DEF Inv, TypeOK, TokenExpires, PayloadExpires
  <2>3. \A r \in 1..Len(requests) : requests[r].park \in Parks
    BY DEF Inv, TypeOK, RequestsFit
  <2>. QED  BY <2>1, <2>2, <2>3 DEF Inv, RequestsFit
<1>3. PayloadsFit'
  <2>1. UNCHANGED <<pc, at, heard, output, requests>>
    BY DEF TokenExpires, PayloadExpires
  <2>2. \A q \in Parks : payload'[q] \in {0, payload[q]}
    BY DEF Inv, TypeOK, TokenExpires, PayloadExpires
  <2>. QED  BY <2>1, <2>2 DEF Inv, PayloadsFit, Posted, Here
<1>4. HeardSoFar' /\ CompletedHeardAll'
  BY DEF Inv, HeardSoFar, CompletedHeardAll, TokenExpires, PayloadExpires
<1>. QED  BY <1>1, <1>2, <1>3, <1>4 DEF Inv

LEMMA InvStep == Inv /\ [Next]_vars => Inv'
<1> SUFFICES ASSUME Inv, [Next]_vars PROVE Inv'
  OBVIOUS
<1>0. TypeOK'
  BY TypeStep DEF Inv
<1>1. CASE \E e \in Executions : Work(e) \/ Raise(e) \/ Die(e)
  BY <1>0, <1>1, MintInv, WaitInv, ResumedInv, TimeOutInv DEF Work
<1>2. CASE \E e \in Executions, p \in Parks : Arrive(e, p)
  BY <1>0, <1>2, ArriveInv
<1>3. CASE \E r \in 1..Len(requests) : Put(r) \/ Answer(r) \/ Break(r)
  BY <1>0, <1>3, RequestInv
<1>4. CASE \E p \in Parks : TokenExpires(p) \/ PayloadExpires(p)
  BY <1>0, <1>4, ExpiryInv
<1>5. CASE UNCHANGED vars
  BY <1>0, <1>5 DEF vars, Inv, KnownArePast, RequestsFit, PayloadsFit, Posted, Here, HeardSoFar,
                    CompletedHeardAll
<1>. QED  BY <1>1, <1>2, <1>3, <1>4, <1>5 DEF Next

(***************************************************************************)
(* The theorems                                                            *)
(***************************************************************************)

\* The variables keep their types (agents/extended_executor.py, _park_for_webhook,
\* and routers/workflows.py, resume_webhook_route).
THEOREM TypeCorrect == Spec => []TypeOK
<1>. QED  BY TypeInit, TypeStep, PTL DEF Spec

\* The inductive invariant of the executions, the tokens, the payloads and the requests.
THEOREM InvHolds == Spec => []Inv
<1>. QED  BY InvInit, InvStep, PTL DEF Spec

\* What _park_for_webhook passes to the next node was posted with the wait's own token.
THEOREM OwnPayloadHolds == Spec => []OwnPayload
<1>1. Inv => OwnPayload
  BY DEF Inv, PayloadsFit, Posted, OwnPayload
<1>. QED  BY <1>1, InvHolds, PTL

\* A row that says completed belongs to an execution that heard from all its waits,
\* although a later wait puts the row back to running.
THEOREM CompletedHeardAllHolds == Spec => []CompletedHeardAll
<1>. QED  BY InvHolds, PTL DEF Inv

\* A request that comes after an answered one with the same token is refused.
THEOREM UsedOnceHolds == Spec => UsedOnce
<1>1. ASSUME Inv, [Next]_vars,
             NEW r \in 1..Len(requests'), r > Len(requests),
             NEW q \in 1..Len(requests), requests[q].st = "resumed",
             requests[q].park = requests'[r].park
      PROVE  requests'[r].st = "refused"
  <2>1. CASE \E e \in Executions, p \in Parks : Arrive(e, p)
    <3>1. PICK e \in Executions, p \in Parks : Arrive(e, p)
      BY <2>1
    <3>2. /\ Len(requests) \in Nat /\ Len(requests') = Len(requests) + 1
          /\ requests'[Len(requests) + 1] =
               [url |-> e, park |-> p, st |-> IF token[p] /\ p[1] = e THEN "found" ELSE "refused"]
      BY <1>1, <3>1, ArriveAppends DEF Inv, TypeOK
    <3>3. r = Len(requests) + 1
      BY <3>2, <1>1
    <3>4. ~token[p]
      BY <1>1, <3>2, <3>3 DEF Inv, RequestsFit
    <3>. QED  BY <3>2, <3>3, <3>4
  <2>2. CASE ~\E e \in Executions, p \in Parks : Arrive(e, p)
    <3>1. CASE \E i \in 1..Len(requests) : Put(i) \/ Answer(i) \/ Break(i)
      <4>1. PICK i \in 1..Len(requests), st \in {"stored", "resumed", "broken"} : To(i, st)
        BY <3>1 DEF Put, Answer, Break
      <4>2. Len(requests') = Len(requests) /\ Len(requests) \in Nat
        <5>1. TypeOK
          BY <1>1 DEF Inv
        <5>. QED  BY <4>1, <5>1, ToKeeps DEF TypeOK
      <4>. QED  BY <4>2, <1>1
    <3>2. CASE ~\E i \in 1..Len(requests) : Put(i) \/ Answer(i) \/ Break(i)
      <4>1. requests' = requests
        BY <1>1, <2>2, <3>2 DEF Next, vars, Work, Mint, Park, Tell, Hear, Resumed, TimeOut,
                                Finish, Raise, Die, TokenExpires, PayloadExpires
      <4>2. Len(requests) \in Nat
        BY DEF Inv, TypeOK
      <4>. QED  BY <4>1, <4>2, <1>1
    <3>. QED  BY <3>1, <3>2
  <2>. QED  BY <2>1, <2>2
<1>2. Inv /\ [Next]_vars =>
         [\A r \in 1..Len(requests') :
            /\ r > Len(requests)
            /\ \E q \in 1..Len(requests) :
                  requests[q].st = "resumed" /\ requests[q].park = requests'[r].park
            => requests'[r].st = "refused"]_vars
  BY <1>1
<1>. QED  BY <1>2, InvHolds, PTL DEF Spec, UsedOnce
=============================================================================
