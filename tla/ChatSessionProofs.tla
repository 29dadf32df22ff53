------------------------- MODULE ChatSessionProofs -------------------------
(***************************************************************************)
(* The safety properties of a chat session, for any turns, limits, budget, *)
(* memory, number of rounds and number of re-prompts.                      *)
(***************************************************************************)
EXTENDS ChatSession, SequenceTheorems, FiniteSetTheorems, TLAPS

(***************************************************************************)
(* The inductive invariant                                                 *)
(***************************************************************************)

Entry == [turn : Turns, role : Role]

\* The calls of a conversation have their results, but perhaps the last one.
Answered(c, n) ==
    /\ c # <<>> /\ c[1] = "user" /\ n <= Len(c)
    /\ \A i \in 1..n : c[i] = "calls" => i < Len(c) /\ c[i + 1] = "tool"

\* A whole conversation.
Whole(c) == Answered(c, Len(c)) /\ c[Len(c)] = "assistant"

\* One that is cut at a call.
Cut(c) == Answered(c, Len(c) - 1) /\ c[Len(c)] = "calls"

\* What a turn has written so far, by the place where it is.
PendingFits ==
    \A t \in Turns :
        /\ pc[t] \in {"asking", "answered"} => Answered(pending[t], Len(pending[t]))
        /\ pc[t] = "tool" => Cut(pending[t])
        /\ pc[t] = "saving" => Whole(pending[t])

\* What it has committed: only the last commit is of an answer.
RowsFit ==
    \A t \in Turns : rows[t] # <<>> =>
        \/ Cut(rows[t]) /\ pc[t] \notin {"flushing", "done"}
        \/ Whole(rows[t]) /\ pc[t] \in {"flushing", "done", "failed"}

\* The budget is checked on what a turn has loaded, before it costs anything.
BudgetFits ==
    /\ total < Budget + MaxCost
    /\ \A t \in Turns :
          /\ pc[t] \in {"allowed", "loading", "reading", "writing", "asking", "tool", "answered"}
             => mine[t] < Budget
          /\ pc[t] = "saving" => mine[t] < Budget + MaxCost

\* In a calm session one turn is in flight at a time, ...
CalmIsSerial == calm => \A t, u \in Busy : t = u

\* ... the window has room for the message that was allowed, ...
CalmWindow ==
    calm => /\ window <= MaxPerMinute
            /\ \A t \in Turns : pc[t] = "allowed" => window < MaxPerMinute

\* ... and its map has what Redis has, and its own token.
CalmMap ==
    calm => \A t \in Turns :
        /\ pc[t] \in {"reading", "writing", "asking", "tool", "answered", "saving", "flushing"}
           => known \subseteq map[t]
        /\ pc[t] \in {"asking", "tool", "answered", "saving", "flushing"} => t \in map[t]

\* A turn commits nothing before it has asked the model.
EarlyRows ==
    \A t \in Turns :
        pc[t] \in {"none", "refused", "checking", "allowed", "loading", "reading", "writing"}
        => rows[t] = <<>>

\* In a calm session no turn in flight works with an old total.
CalmTotal ==
    calm => \A t \in Turns :
        /\ pc[t] \in {"checking", "allowed", "loading", "reading", "writing", "asking", "tool",
                     "answered"}
           => mine[t] = total
        /\ pc[t] = "saving" => mine[t] = total + Cost(t)

Inv ==
    /\ TypeOK /\ PendingFits /\ RowsFit /\ BudgetFits /\ EarlyRows
    /\ CalmIsSerial /\ CalmWindow /\ CalmMap /\ RowsRestorable /\ CalmTotal
    /\ IsFiniteSet(PaidCalls) /\ TotalIsCost

(***************************************************************************)
(* Conversations                                                           *)
(***************************************************************************)

LEMMA AppendFacts ==
    ASSUME NEW S, NEW c \in Seq(S), NEW r \in S
    PROVE  /\ Append(c, r) \in Seq(S) /\ Append(c, r) # <<>>
           /\ Len(Append(c, r)) = Len(c) + 1 /\ Len(c) \in Nat
           /\ Append(c, r)[Len(c) + 1] = r
           /\ \A i \in 1..Len(c) : Append(c, r)[i] = c[i]
  OBVIOUS

LEMMA NonEmpty == ASSUME NEW S, NEW c \in Seq(S), c # <<>>  PROVE Len(c) \in Nat /\ Len(c) >= 1
  BY EmptySeq

\* A call opens a conversation, its result closes it again, and so does an answer.
LEMMA Calls ==
    ASSUME NEW c \in Seq(Role), Answered(c, Len(c))
    PROVE  Cut(Append(c, "calls"))
<1>. DEFINE d == Append(c, "calls")
<1>1. /\ d # <<>> /\ Len(d) = Len(c) + 1 /\ Len(c) \in Nat /\ Len(c) >= 1
      /\ d[Len(c) + 1] = "calls" /\ \A i \in 1..Len(c) : d[i] = c[i]
  BY AppendFacts, NonEmpty DEF Role, Answered
<1>2. \A i \in 1..Len(c) : c[i] = "calls" => i + 1 \in 1..Len(c) /\ c[i + 1] = "tool"
  BY <1>1 DEF Answered
<1>. HIDE DEF d
<1>3. d[1] = "user"
  BY <1>1 DEF Answered
<1>4. \A i \in 1..Len(c) : d[i] = "calls" => i < Len(d) /\ d[i + 1] = "tool"
  BY <1>1, <1>2
<1>5. Cut(d)
  BY <1>1, <1>3, <1>4 DEF Answered, Cut
<1>. QED  BY <1>5 DEF d

LEMMA Results ==
    ASSUME NEW c \in Seq(Role), Cut(c)
    PROVE  Answered(Append(c, "tool"), Len(Append(c, "tool")))
<1>0. Answered(c, Len(c) - 1)
  BY DEF Cut
<1>. DEFINE d == Append(c, "tool")
<1>1. /\ d # <<>> /\ Len(d) = Len(c) + 1 /\ Len(c) \in Nat /\ Len(c) >= 1
      /\ d[Len(c) + 1] = "tool" /\ \A i \in 1..Len(c) : d[i] = c[i]
  BY <1>0, AppendFacts, NonEmpty DEF Role, Answered
<1>2. \A i \in 1..(Len(c) - 1) : c[i] = "calls" => i + 1 \in 1..Len(c) /\ c[i + 1] = "tool"
  BY <1>0, <1>1 DEF Answered
<1>. HIDE DEF d
<1>3. d[1] = "user"
  BY <1>0, <1>1 DEF Answered
<1>4. ASSUME NEW i \in 1..Len(d), d[i] = "calls"  PROVE i < Len(d) /\ d[i + 1] = "tool"
  <2>1. i # Len(c) + 1
    BY <1>1, <1>4
  <2>2. CASE i = Len(c)
    BY <1>1, <2>2
  <2>3. CASE i \in 1..(Len(c) - 1)
    BY <1>1, <1>2, <1>4, <2>3
  <2>. QED  BY <1>1, <2>1, <2>2, <2>3
<1>5. Answered(d, Len(d))
  BY <1>1, <1>3, <1>4 DEF Answered
<1>. QED  BY <1>5 DEF d

LEMMA Answers ==
    ASSUME NEW c \in Seq(Role), Answered(c, Len(c))
    PROVE  Whole(Append(c, "assistant"))
<1>. DEFINE d == Append(c, "assistant")
<1>1. /\ d # <<>> /\ Len(d) = Len(c) + 1 /\ Len(c) \in Nat /\ Len(c) >= 1
      /\ d[Len(c) + 1] = "assistant" /\ \A i \in 1..Len(c) : d[i] = c[i]
  BY AppendFacts, NonEmpty DEF Role, Answered
<1>2. \A i \in 1..Len(c) : c[i] = "calls" => i + 1 \in 1..Len(c) /\ c[i + 1] = "tool"
  BY <1>1 DEF Answered
<1>. HIDE DEF d
<1>3. d[1] = "user"
  BY <1>1 DEF Answered
<1>4. ASSUME NEW i \in 1..Len(d), d[i] = "calls"  PROVE i < Len(d) /\ d[i + 1] = "tool"
  <2>1. i # Len(c) + 1
    BY <1>1, <1>4
  <2>. QED  BY <1>1, <1>2, <1>4, <2>1
<1>5. Whole(d)
  BY <1>1, <1>3, <1>4 DEF Answered, Whole
<1>. QED  BY <1>5 DEF d

LEMMA Opening == Answered(<<"user">>, Len(<<"user">>))
  BY DEF Answered

(***************************************************************************)
(* Types                                                                   *)
(***************************************************************************)

LEMMA RememberTypes ==
    ASSUME TypeOK, NEW t \in Turns, NEW role \in Role, Remember(t, role)
    PROVE  memory' \in Seq(Entry) /\ Len(memory') <= MaxMemory
<1>. DEFINE longer == Append(memory, [turn |-> t, role |-> role])
<1>1. [turn |-> t, role |-> role] \in Entry /\ memory \in Seq(Entry) /\ Len(memory) <= MaxMemory
  BY DEF Entry, TypeOK
<1>2. longer \in Seq(Entry) /\ Len(longer) = Len(memory) + 1 /\ longer # <<>>
  BY <1>1, AppendFacts
<1>3. memory' = IF Len(longer) > MaxMemory THEN Tail(longer) ELSE longer
  BY DEF Remember
<1>. HIDE DEF longer
<1>4. Tail(longer) \in Seq(Entry) /\ Len(Tail(longer)) = Len(longer) - 1
  BY <1>2
<1>5. Len(memory) \in Nat /\ Len(longer) \in Nat
  BY <1>1, <1>2
<1>. QED  BY <1>1, <1>2, <1>3, <1>4, <1>5, ChatAssumption

LEMMA TypeInit == Init => TypeOK
  BY ChatAssumption DEF Init, TypeOK, InFlight, Role

\* The cost of a turn is bounded.
LEMMA CostType ==
    ASSUME TypeOK, NEW t \in Turns
    PROVE  Cost(t) \in 0..MaxCost /\ Cost(t) \in Nat /\ MaxCost \in Nat
<1>1. /\ rounds[t] \in 0..MaxRounds /\ retries[t] \in 0..MaxRetries
      /\ MaxRounds \in Nat /\ MaxRetries \in Nat
  BY ChatAssumption DEF TypeOK
<1>. QED  BY <1>1 DEF Cost, MaxCost

LEMMA TurnTypes ==
    ASSUME TypeOK, NEW t \in Turns, Begin(t) \/ Turn(t) \/ FailOpen(t) \/ Fail(t)
    PROVE  TypeOK'
<1>. USE ChatAssumption DEF rowVars, redisVars, To
<1>0. /\ memory \in Seq(Entry) /\ history \in [Turns -> Seq(Entry)]
      /\ pending[t] \in Seq(Role) /\ <<>> \in Seq(Entry) /\ <<>> \in Seq(Role)
  BY EmptySeq DEF TypeOK, Entry
<1>1. CASE Begin(t)
  BY <1>1 DEF TypeOK, Begin, InFlight
<1>2. CASE Check(t)
  BY <1>2 DEF TypeOK, Check, InFlight
<1>3. CASE Record(t)
  <2>1. window' \in Nat
    BY <1>3 DEF TypeOK, Record
  <2>. QED  BY <1>3, <2>1 DEF TypeOK, Record, InFlight
<1>4. CASE Load(t)
  BY <1>4 DEF TypeOK, Load, InFlight
<1>5. CASE Read(t)
  <2>1. history' \in [Turns -> Seq(Entry)]
    BY <1>0, <1>5 DEF Read
  <2>. QED  BY <1>5, <2>1 DEF TypeOK, Read, InFlight, Entry
<1>6. CASE Write(t)
  <2>1. memory' \in Seq(Entry) /\ Len(memory') <= MaxMemory
    BY <1>6, RememberTypes DEF Write, Role
  <2>2. history' \in [Turns -> Seq(Entry)]
    BY <1>0, <1>6 DEF Write
  <2>3. <<"user">> \in Seq(Role)
    BY DEF Role
  <2>4. pending' \in [Turns -> Seq(Role)]
    BY <1>6, <2>3 DEF Write, TypeOK
  <2>. QED  BY <1>6, <2>1, <2>2, <2>4 DEF TypeOK, Write, InFlight, Entry
<1>7. CASE Ask(t)
  <2>1. Append(pending[t], "calls") \in Seq(Role)
    BY <1>0 DEF Role
  <2>2. pending' \in [Turns -> Seq(Role)]
    BY <1>7, <2>1 DEF TypeOK, Ask
  <2>3. rounds' \in [Turns -> 0..MaxRounds]
    <3>1. \/ rounds' = rounds
          \/ rounds[t] < MaxRounds /\ rounds' = [rounds EXCEPT ![t] = @ + 1]
      BY <1>7 DEF Ask
    <3>2. rounds \in [Turns -> 0..MaxRounds]
      BY DEF TypeOK
    <3>3. rounds[t] < MaxRounds => rounds[t] + 1 \in 0..MaxRounds
      BY <3>2
    <3>. QED  BY <3>1, <3>2, <3>3
  <2>4. pc' \in [Turns -> InFlight \cup {"none", "refused", "failed", "done"}]
    BY <1>7 DEF TypeOK, Ask, InFlight
  <2>. QED  BY <1>7, <2>2, <2>3, <2>4 DEF TypeOK, Ask
<1>8. CASE Tool(t)
  <2>1. memory' \in Seq(Entry) /\ Len(memory') <= MaxMemory
    BY <1>8, RememberTypes DEF Tool, Role
  <2>2. Append(pending[t], "tool") \in Seq(Role)
    BY <1>0 DEF Role
  <2>3. pending' \in [Turns -> Seq(Role)]
    BY <1>8, <2>2 DEF TypeOK, Tool
  <2>. QED  BY <1>8, <2>1, <2>3 DEF TypeOK, Tool, InFlight, Entry
<1>9. CASE Answer(t)
  <2>1. memory' \in Seq(Entry) /\ Len(memory') <= MaxMemory
    BY <1>9, RememberTypes DEF Answer, Role
  <2>2. Append(pending[t], "assistant") \in Seq(Role)
    BY <1>0 DEF Role
  <2>3. pending' \in [Turns -> Seq(Role)]
    BY <1>9, <2>2 DEF TypeOK, Answer
  <2>4. mine' \in [Turns -> Nat]
    <3>1. mine[t] \in Nat /\ Cost(t) \in Nat
      BY CostType DEF TypeOK
    <3>2. mine[t] + Cost(t) \in Nat
      BY <3>1
    <3>. QED  BY <1>9, <3>2 DEF TypeOK, Answer
  <2>. QED  BY <1>9, <2>1, <2>3, <2>4 DEF TypeOK, Answer, InFlight, Entry
<1>10. CASE Commit(t)
  <2>1. rows' \in [Turns -> Seq(Role)] /\ pending' \in [Turns -> Seq(Role)] /\ total' \in Nat
    BY <1>0, <1>10 DEF TypeOK, Commit
  <2>. QED  BY <1>10, <2>1 DEF TypeOK, Commit, InFlight
<1>11. CASE Flush(t)
  BY <1>11 DEF TypeOK, Flush, InFlight
<1>12. CASE FailOpen(t)
  BY <1>12 DEF TypeOK, FailOpen, InFlight
<1>13. CASE Fail(t)
  <2>1. history' \in [Turns -> Seq(Entry)] /\ pending' \in [Turns -> Seq(Role)]
    BY <1>0, <1>13 DEF TypeOK, Fail
  <2>. QED  BY <1>13, <2>1 DEF TypeOK, Fail, InFlight, Entry
<1>14. CASE Store(t)
  <2>1. rows' \in [Turns -> Seq(Role)]
    BY <1>0, <1>14 DEF TypeOK, Store
  <2>. QED  BY <1>14, <2>1 DEF TypeOK, Store, turnVars, InFlight
<1>15. CASE Reprompt(t)
  <2>1. retries' \in [Turns -> 0..MaxRetries]
    <3>1. retries \in [Turns -> 0..MaxRetries] /\ retries[t] < MaxRetries
      BY <1>15 DEF TypeOK, Reprompt
    <3>2. retries[t] + 1 \in 0..MaxRetries
      BY <3>1
    <3>. QED  BY <1>15, <3>1, <3>2 DEF Reprompt
  <2>. QED  BY <1>15, <2>1 DEF TypeOK, Reprompt
<1>. QED  BY <1>1, <1>2, <1>3, <1>4, <1>5, <1>6, <1>7, <1>8, <1>9, <1>10, <1>11, <1>12, <1>13, <1>14, <1>15
          DEF Turn

LEMMA TypeStep == TypeOK /\ [Next]_vars => TypeOK'
<1> SUFFICES ASSUME TypeOK, [Next]_vars PROVE TypeOK'
  OBVIOUS
<1>. USE DEF rowVars, redisVars, turnVars
<1>1. CASE \E t \in Turns : Begin(t) \/ Turn(t) \/ FailOpen(t) \/ Fail(t)
  BY <1>1, TurnTypes
<1>0. <<>> \in Seq(Entry) /\ Len(<<>>) = 0 /\ 0 <= MaxMemory
  BY EmptySeq, ChatAssumption
<1>2. CASE Clear
  BY <1>0, <1>2 DEF TypeOK, Clear, Entry
<1>3. CASE Close
  BY <1>3 DEF TypeOK, Close
<1>4. CASE Age
  <2>1. window' \in Nat
    BY <1>4 DEF TypeOK, Age
  <2>. QED  BY <1>4, <2>1 DEF TypeOK, Age
<1>5. CASE Expire
  BY <1>0, <1>5 DEF TypeOK, Expire, Entry
<1>6. CASE UNCHANGED vars
  BY <1>6 DEF TypeOK, vars
<1>. QED  BY <1>1, <1>2, <1>3, <1>4, <1>5, <1>6 DEF Next

(***************************************************************************)
(* The invariant                                                           *)
(***************************************************************************)

LEMMA InvInit == Init => Inv
<1> SUFFICES ASSUME Init PROVE Inv
  OBVIOUS
<1>1. PaidCalls = {}
  BY DEF Init, PaidCalls
<1>2. IsFiniteSet(PaidCalls) /\ TotalIsCost
  BY <1>1, FS_EmptySet DEF Init, TotalIsCost
<1>3. PendingFits /\ RowsFit /\ EarlyRows
  BY DEF Init, PendingFits, RowsFit, EarlyRows
<1>4. BudgetFits
  BY ChatAssumption DEF Init, BudgetFits, MaxCost
<1>5. CalmIsSerial /\ CalmWindow /\ CalmMap /\ RowsRestorable /\ CalmTotal
  BY ChatAssumption DEF Init, CalmIsSerial, CalmWindow, CalmMap, RowsRestorable, CalmTotal, Busy, InFlight
<1>. QED  BY <1>2, <1>3, <1>4, <1>5, TypeInit DEF Inv

(***************************************************************************)
(* What a step of a turn does to that turn, and leaves of the others       *)
(***************************************************************************)

LEMMA BeginMoves ==
    ASSUME TypeOK, NEW t \in Turns, Begin(t)
    PROVE  /\ pc[t] = "none" /\ pc'[t] \in {"checking", "refused"} /\ mine'[t] = total
           /\ calm' = (calm /\ Busy = {})
           /\ UNCHANGED <<total, rows, pending, known, map, window, rounds, retries>>
  BY DEF TypeOK, Begin, To, rowVars, redisVars

LEMMA CheckMoves ==
    ASSUME TypeOK, NEW t \in Turns, Check(t)
    PROVE  /\ pc[t] = "checking"
           /\ \/ pc'[t] = "refused"
              \/ pc'[t] = "allowed" /\ ~(mine[t] >= Budget) /\ ~(window >= MaxPerMinute)
           /\ UNCHANGED <<total, rows, pending, known, map, window, mine, rounds, retries, calm>>
  BY DEF TypeOK, Check, To, rowVars, redisVars

LEMMA RecordMoves ==
    ASSUME TypeOK, NEW t \in Turns, Record(t)
    PROVE  /\ pc[t] = "allowed" /\ pc'[t] = "loading" /\ window' = window + 1
           /\ UNCHANGED <<total, rows, pending, known, map, mine, rounds, retries, calm>>
  BY DEF TypeOK, Record, To, rowVars

LEMMA LoadMoves ==
    ASSUME TypeOK, NEW t \in Turns, Load(t)
    PROVE  /\ pc[t] = "loading" /\ pc'[t] = "reading" /\ map'[t] = known
           /\ UNCHANGED <<total, rows, pending, known, window, mine, rounds, retries, calm>>
  BY DEF TypeOK, Load, To, rowVars, redisVars

LEMMA FailOpenMoves ==
    ASSUME TypeOK, NEW t \in Turns, FailOpen(t)
    PROVE  /\ \/ pc[t] = "checking" /\ pc'[t] = "allowed" /\ mine[t] < Budget
              \/ pc[t] = "allowed" /\ pc'[t] = "loading"
              \/ pc[t] = "loading" /\ pc'[t] = "reading"
              \/ pc[t] = "flushing" /\ pc'[t] = "done"
           /\ calm' = FALSE
           /\ UNCHANGED <<total, rows, pending, known, map, window, mine, rounds, retries>>
  BY DEF TypeOK, FailOpen, To, rowVars, redisVars

LEMMA ReadMoves ==
    ASSUME TypeOK, NEW t \in Turns, Read(t)
    PROVE  /\ pc[t] = "reading" /\ pc'[t] = "writing"
           /\ UNCHANGED <<total, rows, pending, known, map, window, mine, rounds, retries, calm>>
  BY DEF TypeOK, Read, To, rowVars, redisVars

LEMMA WriteMoves ==
    ASSUME TypeOK, NEW t \in Turns, Write(t)
    PROVE  /\ pc[t] = "writing" /\ pc'[t] = "asking" /\ pending'[t] = <<"user">>
           /\ map'[t] = map[t] \cup {t}
           /\ UNCHANGED <<total, rows, known, window, mine, rounds, retries, calm>>
  BY DEF TypeOK, Write, To, rowVars

LEMMA AskMoves ==
    ASSUME TypeOK, NEW t \in Turns, Ask(t)
    PROVE  /\ pc[t] = "asking"
           /\ \/ pc'[t] = "answered" /\ pending'[t] = pending[t]
              \/ pc'[t] = "tool" /\ pending'[t] = Append(pending[t], "calls")
           /\ UNCHANGED <<total, rows, known, map, window, mine, calm>>
  BY DEF TypeOK, Ask, To, rowVars, redisVars

LEMMA RepromptMoves ==
    ASSUME TypeOK, NEW t \in Turns, Reprompt(t)
    PROVE  /\ pc[t] = "answered" /\ pc' = pc
           /\ UNCHANGED <<total, rows, pending, known, map, window, mine, calm>>
  BY DEF TypeOK, Reprompt, rowVars, redisVars

LEMMA StoreMoves ==
    ASSUME TypeOK, NEW t \in Turns, Store(t)
    PROVE  /\ pc[t] = "tool" /\ rows'[t] = pending[t]
           /\ UNCHANGED <<total, pc, pending, known, map, window, mine, rounds, retries, calm>>
  BY DEF TypeOK, Store, redisVars, turnVars

LEMMA ToolMoves ==
    ASSUME TypeOK, NEW t \in Turns, Tool(t)
    PROVE  /\ pc[t] = "tool" /\ pc'[t] = "asking" /\ pending'[t] = Append(pending[t], "tool")
           /\ UNCHANGED <<total, rows, known, map, window, mine, rounds, retries, calm>>
  BY DEF TypeOK, Tool, To, rowVars

LEMMA AnswerMoves ==
    ASSUME TypeOK, NEW t \in Turns, Answer(t)
    PROVE  /\ pc[t] = "answered" /\ pc'[t] = "saving" /\ mine'[t] = mine[t] + Cost(t)
           /\ pending'[t] = Append(pending[t], "assistant")
           /\ UNCHANGED <<total, rows, known, map, window, rounds, retries, calm>>
  BY DEF TypeOK, Answer, To, rowVars

LEMMA CommitMoves ==
    ASSUME TypeOK, NEW t \in Turns, Commit(t)
    PROVE  /\ pc[t] = "saving" /\ pc'[t] = "flushing"
           /\ total' = mine[t] /\ rows'[t] = pending[t]
           /\ UNCHANGED <<known, map, window, mine, rounds, retries, calm>>
  BY DEF TypeOK, Commit, To, redisVars

LEMMA FlushMoves ==
    ASSUME TypeOK, NEW t \in Turns, Flush(t)
    PROVE  /\ pc[t] = "flushing" /\ pc'[t] = "done" /\ known' = map[t]
           /\ UNCHANGED <<total, rows, pending, window, rounds, retries, calm>>
  BY DEF TypeOK, Flush, To, rowVars

LEMMA FailMoves ==
    ASSUME TypeOK, NEW t \in Turns, Fail(t)
    PROVE  /\ pc[t] \in InFlight /\ pc'[t] = "failed" /\ calm' = (calm /\ rows[t] = <<>>)
           /\ UNCHANGED <<total, rows, known, window, rounds, retries>>
  BY DEF TypeOK, Fail, To, Busy, rowVars, redisVars

\* The other turns stay where they are, with what they hold.
LEMMA Others ==
    ASSUME TypeOK, NEW t \in Turns, Begin(t) \/ Turn(t) \/ FailOpen(t) \/ Fail(t),
           NEW u \in Turns, u # t
    PROVE  /\ pc'[u] = pc[u] /\ rows'[u] = rows[u] /\ pending'[u] = pending[u]
           /\ mine'[u] = mine[u] /\ map'[u] = map[u] /\ rounds'[u] = rounds[u]
           /\ retries'[u] = retries[u]
<1>. USE DEF To, rowVars, turnVars
<1>1. CASE Begin(t)
  BY <1>1 DEF TypeOK, Begin
<1>2. CASE Check(t)
  BY <1>2 DEF TypeOK, Check
<1>3. CASE Record(t)
  BY <1>3 DEF TypeOK, Record
<1>4. CASE Load(t)
  BY <1>4 DEF TypeOK, Load
<1>5. CASE FailOpen(t)
  BY <1>5 DEF TypeOK, FailOpen
<1>6. CASE Read(t)
  BY <1>6 DEF TypeOK, Read
<1>7. CASE Write(t)
  BY <1>7 DEF TypeOK, Write
<1>8. CASE Ask(t)
  BY <1>8 DEF TypeOK, Ask
<1>9. CASE Store(t)
  BY <1>9 DEF TypeOK, Store
<1>10. CASE Tool(t)
  BY <1>10 DEF TypeOK, Tool
<1>11. CASE Answer(t)
  BY <1>11 DEF TypeOK, Answer
<1>12. CASE Commit(t)
  BY <1>12 DEF TypeOK, Commit
<1>13. CASE Flush(t)
  BY <1>13 DEF TypeOK, Flush
<1>14. CASE Fail(t)
  BY <1>14 DEF TypeOK, Fail
<1>15. CASE Reprompt(t)
  BY <1>15 DEF TypeOK, Reprompt
<1>. QED  BY <1>1, <1>2, <1>3, <1>4, <1>5, <1>6, <1>7, <1>8, <1>9, <1>10, <1>11, <1>12, <1>13, <1>14, <1>15
          DEF Turn

(***************************************************************************)
(* Every part of the invariant                                             *)
(***************************************************************************)

LEMMA PendingInv ==
    ASSUME Inv, NEW t \in Turns, Begin(t) \/ Turn(t) \/ FailOpen(t) \/ Fail(t)
    PROVE  PendingFits'
<1>0. TypeOK /\ PendingFits /\ pending[t] \in Seq(Role)
  BY DEF Inv, TypeOK
<1>. SUFFICES /\ pc'[t] \in {"asking", "answered"} => Answered(pending'[t], Len(pending'[t]))
              /\ pc'[t] = "tool" => Cut(pending'[t])
              /\ pc'[t] = "saving" => Whole(pending'[t])
  <2>1. ASSUME NEW u \in Turns, u # t
        PROVE  /\ pc'[u] \in {"asking", "answered"} => Answered(pending'[u], Len(pending'[u]))
               /\ pc'[u] = "tool" => Cut(pending'[u])
               /\ pc'[u] = "saving" => Whole(pending'[u])
    <3>1. pc'[u] = pc[u] /\ pending'[u] = pending[u]
      BY <1>0, <2>1, Others
    <3>. QED  BY <1>0, <3>1 DEF PendingFits
  <2>. QED  BY <2>1 DEF PendingFits
<1>1. CASE pc'[t] \notin {"asking", "answered", "tool", "saving"}
  BY <1>1
<1>2. CASE Write(t)
  <2>1. pc'[t] = "asking" /\ pending'[t] = <<"user">>
    BY <1>0, <1>2, WriteMoves
  <2>. QED  BY <2>1, Opening
<1>3. CASE Ask(t)
  <2>1. /\ pc[t] = "asking"
        /\ \/ pc'[t] = "answered" /\ pending'[t] = pending[t]
           \/ pc'[t] = "tool" /\ pending'[t] = Append(pending[t], "calls")
    BY <1>0, <1>3, AskMoves
  <2>2. Answered(pending[t], Len(pending[t]))
    BY <1>0, <2>1 DEF PendingFits
  <2>3. Cut(Append(pending[t], "calls"))
    BY <1>0, <2>2, Calls
  <2>. QED  BY <2>1, <2>2, <2>3
<1>4. CASE Store(t) \/ Reprompt(t)
  <2>1. pc' = pc /\ pending' = pending
    BY <1>0, <1>4, StoreMoves, RepromptMoves
  <2>. QED  BY <1>0, <2>1 DEF PendingFits
<1>5. CASE Tool(t)
  <2>1. pc[t] = "tool" /\ pc'[t] = "asking" /\ pending'[t] = Append(pending[t], "tool")
    BY <1>0, <1>5, ToolMoves
  <2>2. Cut(pending[t])
    BY <1>0, <2>1 DEF PendingFits
  <2>. QED  BY <1>0, <2>1, <2>2, Results
<1>6. CASE Answer(t)
  <2>1. pc[t] = "answered" /\ pc'[t] = "saving" /\ pending'[t] = Append(pending[t], "assistant")
    BY <1>0, <1>6, AnswerMoves
  <2>2. Answered(pending[t], Len(pending[t]))
    BY <1>0, <2>1 DEF PendingFits
  <2>. QED  BY <1>0, <2>1, <2>2, Answers
<1>7. CASE Begin(t) \/ Check(t) \/ Record(t) \/ Load(t) \/ FailOpen(t) \/ Read(t)
  <2>1. pc'[t] \in {"checking", "refused", "allowed", "loading", "reading", "writing", "done"}
    BY <1>0, <1>7, BeginMoves, CheckMoves, RecordMoves, LoadMoves, FailOpenMoves, ReadMoves
  <2>. QED  BY <1>1, <2>1
<1>8. CASE Commit(t) \/ Flush(t) \/ Fail(t)
  <2>1. pc'[t] \in {"flushing", "done", "failed"}
    BY <1>0, <1>8, CommitMoves, FlushMoves, FailMoves
  <2>. QED  BY <1>1, <2>1
<1>. QED  BY <1>2, <1>3, <1>4, <1>5, <1>6, <1>7, <1>8 DEF Turn

\* The rows of a turn change at a Store, which is in a tool, and at its Commit.
LEMMA RowsInv ==
    ASSUME Inv, NEW t \in Turns, Begin(t) \/ Turn(t) \/ FailOpen(t) \/ Fail(t)
    PROVE  RowsFit' /\ EarlyRows'
<1>0. TypeOK /\ PendingFits /\ RowsFit /\ EarlyRows
  BY DEF Inv
<1>. DEFINE early == {"none", "refused", "checking", "allowed", "loading", "reading", "writing"}
<1>. SUFFICES /\ rows'[t] # <<>> =>
                    \/ Cut(rows'[t]) /\ pc'[t] \notin {"flushing", "done"}
                    \/ Whole(rows'[t]) /\ pc'[t] \in {"flushing", "done", "failed"}
              /\ pc'[t] \in early => rows'[t] = <<>>
  <2>1. ASSUME NEW u \in Turns, u # t
        PROVE  /\ rows'[u] # <<>> =>
                    \/ Cut(rows'[u]) /\ pc'[u] \notin {"flushing", "done"}
                    \/ Whole(rows'[u]) /\ pc'[u] \in {"flushing", "done", "failed"}
               /\ pc'[u] \in early => rows'[u] = <<>>
    <3>1. pc'[u] = pc[u] /\ rows'[u] = rows[u]
      BY <1>0, <2>1, Others
    <3>. QED  BY <1>0, <3>1 DEF RowsFit, EarlyRows
  <2>. QED  BY <2>1 DEF RowsFit, EarlyRows
<1>a. /\ rows[t] # <<>> =>
            \/ Cut(rows[t]) /\ pc[t] \notin {"flushing", "done"}
            \/ Whole(rows[t]) /\ pc[t] \in {"flushing", "done", "failed"}
      /\ pc[t] \in early => rows[t] = <<>>
  BY <1>0 DEF RowsFit, EarlyRows
<1>1. CASE Begin(t) \/ Check(t) \/ Record(t) \/ Load(t) \/ Read(t) \/ Write(t)
  <2>1. rows' = rows /\ pc[t] \in early /\ pc'[t] \in early \cup {"asking"}
    BY <1>0, <1>1, BeginMoves, CheckMoves, RecordMoves, LoadMoves, ReadMoves, WriteMoves
  <2>. QED  BY <1>a, <2>1
<1>2. CASE FailOpen(t)
  <2>1. /\ rows' = rows
        /\ \/ pc[t] \in early /\ pc'[t] \in early
           \/ pc[t] = "flushing" /\ pc'[t] = "done"
    BY <1>0, <1>2, FailOpenMoves
  <2>. QED  BY <1>a, <2>1
<1>3. CASE Ask(t) \/ Reprompt(t) \/ Tool(t) \/ Answer(t)
  <2>1. /\ rows' = rows /\ pc[t] \in {"asking", "tool", "answered"}
        /\ pc'[t] \in {"asking", "tool", "answered", "saving"}
    BY <1>0, <1>3, AskMoves, RepromptMoves, ToolMoves, AnswerMoves
  <2>. QED  BY <1>a, <2>1
<1>4. CASE Store(t)
  <2>1. pc[t] = "tool" /\ pc' = pc /\ rows'[t] = pending[t]
    BY <1>0, <1>4, StoreMoves
  <2>2. Cut(rows'[t])
    BY <1>0, <2>1 DEF PendingFits
  <2>. QED  BY <2>1, <2>2
<1>5. CASE Commit(t)
  <2>1. pc[t] = "saving" /\ pc'[t] = "flushing" /\ rows'[t] = pending[t]
    BY <1>0, <1>5, CommitMoves
  <2>2. Whole(rows'[t])
    BY <1>0, <2>1 DEF PendingFits
  <2>. QED  BY <2>1, <2>2
<1>6. CASE Flush(t)
  <2>1. rows' = rows /\ pc[t] = "flushing" /\ pc'[t] = "done"
    BY <1>0, <1>6, FlushMoves
  <2>. QED  BY <1>a, <2>1
<1>7. CASE Fail(t)
  <2>1. rows' = rows /\ pc'[t] = "failed"
    BY <1>0, <1>7, FailMoves
  <2>. QED  BY <1>a, <2>1
<1>. QED  BY <1>1, <1>2, <1>3, <1>4, <1>5, <1>6, <1>7 DEF Turn

LEMMA BudgetInv ==
    ASSUME Inv, NEW t \in Turns, Begin(t) \/ Turn(t) \/ FailOpen(t) \/ Fail(t)
    PROVE  BudgetFits'
<1>0. TypeOK /\ BudgetFits
  BY DEF Inv
<1>n. /\ total \in Nat /\ mine[t] \in Nat /\ Cost(t) \in 0..MaxCost
      /\ Budget \in Nat /\ MaxCost \in Nat
  BY <1>0, CostType, ChatAssumption DEF TypeOK
<1>. DEFINE within == {"allowed", "loading", "reading", "writing", "asking", "tool", "answered"}
<1>. SUFFICES /\ total' < Budget + MaxCost
              /\ pc'[t] \in within => mine'[t] < Budget
              /\ pc'[t] = "saving" => mine'[t] < Budget + MaxCost
  <2>1. ASSUME NEW u \in Turns, u # t
        PROVE  /\ pc'[u] \in within => mine'[u] < Budget
               /\ pc'[u] = "saving" => mine'[u] < Budget + MaxCost
    <3>1. pc'[u] = pc[u] /\ mine'[u] = mine[u]
      BY <1>0, <2>1, Others
    <3>. QED  BY <1>0, <3>1 DEF BudgetFits
  <2>. QED  BY <2>1 DEF BudgetFits
<1>a. /\ total < Budget + MaxCost
      /\ pc[t] \in within => mine[t] < Budget
      /\ pc[t] = "saving" => mine[t] < Budget + MaxCost
  BY <1>0 DEF BudgetFits
<1>1. CASE Begin(t)
  <2>1. total' = total /\ pc'[t] \in {"checking", "refused"}
    BY <1>0, <1>1, BeginMoves
  <2>. QED  BY <1>a, <2>1
<1>2. CASE Check(t)
  <2>1. /\ total' = total /\ mine' = mine
        /\ \/ pc'[t] = "refused"
           \/ pc'[t] = "allowed" /\ ~(mine[t] >= Budget)
    BY <1>0, <1>2, CheckMoves
  <2>2. ~(mine[t] >= Budget) => mine[t] < Budget
    BY <1>n
  <2>. QED  BY <1>a, <2>1, <2>2
<1>3. CASE Record(t) \/ Load(t) \/ Read(t) \/ Write(t)
  <2>1. total' = total /\ mine'[t] = mine[t] /\ pc[t] \in within /\ pc'[t] \in within
    <3>1. CASE Record(t)
      BY <1>0, <3>1, RecordMoves
    <3>2. CASE Load(t)
      BY <1>0, <3>2, LoadMoves
    <3>3. CASE Read(t)
      BY <1>0, <3>3, ReadMoves
    <3>4. CASE Write(t)
      BY <1>0, <3>4, WriteMoves
    <3>. QED  BY <1>3, <3>1, <3>2, <3>3, <3>4
  <2>. QED  BY <1>a, <2>1
<1>4. CASE FailOpen(t)
  <2>1. /\ total' = total /\ mine' = mine
        /\ \/ pc'[t] = "allowed" /\ mine[t] < Budget
           \/ pc[t] \in within /\ pc'[t] \in within
           \/ pc'[t] = "done"
    BY <1>0, <1>4, FailOpenMoves
  <2>. QED  BY <1>a, <2>1
<1>5. CASE Ask(t) \/ Reprompt(t) \/ Tool(t) \/ Store(t)
  <2>1. total' = total /\ mine'[t] = mine[t] /\ pc[t] \in within /\ pc'[t] \in within
    <3>1. CASE Ask(t)
      BY <1>0, <3>1, AskMoves
    <3>2. CASE Tool(t)
      BY <1>0, <3>2, ToolMoves
    <3>3. CASE Store(t)
      BY <1>0, <3>3, StoreMoves
    <3>4. CASE Reprompt(t)
      BY <1>0, <3>4, RepromptMoves
    <3>. QED  BY <1>5, <3>1, <3>2, <3>3, <3>4
  <2>. QED  BY <1>a, <2>1
<1>6. CASE Answer(t)
  <2>1. /\ total' = total /\ pc[t] = "answered" /\ pc'[t] = "saving"
        /\ mine'[t] = mine[t] + Cost(t)
    BY <1>0, <1>6, AnswerMoves
  <2>2. mine[t] < Budget
    BY <1>a, <2>1
  <2>3. mine[t] + Cost(t) < Budget + MaxCost
    BY <1>n, <2>2
  <2>. QED  BY <1>a, <2>1, <2>3
<1>7. CASE Commit(t)
  <2>1. total' = mine[t] /\ pc[t] = "saving" /\ pc'[t] = "flushing"
    BY <1>0, <1>7, CommitMoves
  <2>. QED  BY <1>a, <2>1
<1>8. CASE Flush(t)
  <2>1. total' = total /\ pc'[t] = "done"
    BY <1>0, <1>8, FlushMoves
  <2>. QED  BY <1>a, <2>1
<1>9. CASE Fail(t)
  <2>1. total' = total /\ pc'[t] = "failed"
    BY <1>0, <1>9, FailMoves
  <2>. QED  BY <1>a, <2>1
<1>. QED  BY <1>1, <1>2, <1>3, <1>4, <1>5, <1>6, <1>7, <1>8, <1>9 DEF Turn

\* A turn that has begun in a calm session is the one in flight until it ends.
LEMMA CalmAlone ==
    ASSUME Inv, NEW t \in Turns, Begin(t) \/ Turn(t) \/ Fail(t), calm'
    PROVE  calm /\ \A u \in Turns : u # t => pc[u] \notin InFlight /\ pc'[u] \notin InFlight
<1>0. TypeOK /\ CalmIsSerial
  BY DEF Inv
<1>1. ASSUME NEW u \in Turns, u # t, calm, pc[t] \in InFlight \/ Busy = {}
      PROVE  pc[u] \notin InFlight /\ pc'[u] \notin InFlight
  <2>1. pc'[u] = pc[u]
    BY <1>0, <1>1, Others
  <2>2. pc[u] \notin InFlight
    BY <1>0, <1>1 DEF CalmIsSerial, Busy
  <2>. QED  BY <2>1, <2>2
<1>2. CASE Begin(t)
  <2>1. calm /\ Busy = {}
    BY <1>0, <1>2, BeginMoves
  <2>. QED  BY <1>1, <2>1
<1>3. CASE Turn(t) \/ Fail(t)
  <2>1. calm /\ pc[t] \in InFlight
    <3>1. CASE Check(t) \/ Record(t) \/ Load(t) \/ Read(t) \/ Write(t)
      BY <1>0, <3>1, CheckMoves, RecordMoves, LoadMoves, ReadMoves, WriteMoves DEF InFlight
    <3>2. CASE Ask(t) \/ Reprompt(t) \/ Store(t) \/ Tool(t) \/ Answer(t) \/ Commit(t) \/ Flush(t)
      BY <1>0, <3>2, AskMoves, RepromptMoves, StoreMoves, ToolMoves, AnswerMoves, CommitMoves, FlushMoves
         DEF InFlight
    <3>3. CASE Fail(t)
      BY <1>0, <3>3, FailMoves
    <3>. QED  BY <1>3, <3>1, <3>2, <3>3 DEF Turn
  <2>. QED  BY <1>1, <2>1
<1>. QED  BY <1>2, <1>3

LEMMA CalmInv ==
    ASSUME Inv, NEW t \in Turns, Begin(t) \/ Turn(t) \/ FailOpen(t) \/ Fail(t)
    PROVE  CalmIsSerial' /\ CalmWindow' /\ CalmMap' /\ CalmTotal'
<1>. DEFINE mapped == {"asking", "tool", "answered", "saving", "flushing"}
            loaded == {"checking", "allowed", "loading", "reading", "writing", "asking", "tool",
                       "answered"}
<1>1. CASE FailOpen(t)
  <2>1. ~calm'
    BY <1>1 DEF FailOpen
  <2>. QED  BY <2>1 DEF CalmIsSerial, CalmWindow, CalmMap, CalmTotal
<1>2. CASE ~calm'
  BY <1>2 DEF CalmIsSerial, CalmWindow, CalmMap, CalmTotal
<1>3. CASE calm' /\ (Begin(t) \/ Turn(t) \/ Fail(t))
  <2>0. TypeOK /\ CalmWindow /\ CalmMap /\ CalmTotal
    BY DEF Inv
  <2>n. window \in Nat /\ MaxPerMinute \in Nat /\ known \subseteq Turns
    BY <2>0, ChatAssumption DEF TypeOK
  <2>1. calm /\ \A u \in Turns : u # t => pc'[u] \notin InFlight
    BY <1>3, CalmAlone
  <2>2. CalmIsSerial'
    BY <2>1 DEF CalmIsSerial, Busy
  <2>. SUFFICES /\ window' <= MaxPerMinute
                /\ pc'[t] = "allowed" => window' < MaxPerMinute
                /\ pc'[t] \in mapped \cup {"reading", "writing"} => known' \subseteq map'[t]
                /\ pc'[t] \in mapped => t \in map'[t]
                /\ pc'[t] \in loaded => mine'[t] = total'
                /\ pc'[t] = "saving" => mine'[t] = total' + Cost(t)'
    <3>1. \A u \in Turns : u # t => pc'[u] \notin mapped \cup loaded
      BY <2>1 DEF InFlight
    <3>2. CalmWindow'
      BY <3>1 DEF CalmWindow
    <3>3. CalmMap'
      BY <3>1 DEF CalmMap
    <3>4. CalmTotal'
      BY <3>1 DEF CalmTotal
    <3>. QED  BY <2>2, <3>2, <3>3, <3>4
  <2>a. /\ window <= MaxPerMinute
        /\ pc[t] = "allowed" => window < MaxPerMinute
        /\ pc[t] \in mapped \cup {"reading", "writing"} => known \subseteq map[t]
        /\ pc[t] \in mapped => t \in map[t]
        /\ pc[t] \in loaded => mine[t] = total
        /\ pc[t] = "saving" => mine[t] = total + Cost(t)
    BY <2>0, <2>1 DEF CalmWindow, CalmMap, CalmTotal
  <2>3. CASE Begin(t)
    <3>1. /\ pc'[t] \in {"checking", "refused"} /\ mine'[t] = total
          /\ UNCHANGED <<total, window>>
      BY <2>0, <2>3, BeginMoves
    <3>. QED  BY <2>a, <3>1
  <2>4. CASE Check(t)
    <3>1. /\ pc[t] = "checking"
          /\ \/ pc'[t] = "refused"
             \/ pc'[t] = "allowed" /\ ~(window >= MaxPerMinute)
          /\ UNCHANGED <<total, window, mine>>
      BY <2>0, <2>4, CheckMoves
    <3>2. ~(window >= MaxPerMinute) => window < MaxPerMinute
      BY <2>n
    <3>. QED  BY <2>a, <3>1, <3>2
  <2>5. CASE Record(t)
    <3>1. /\ pc[t] = "allowed" /\ pc'[t] = "loading" /\ window' = window + 1
          /\ UNCHANGED <<total, mine>>
      BY <2>0, <2>5, RecordMoves
    <3>2. window' <= MaxPerMinute
      BY <2>n, <2>a, <3>1
    <3>. QED  BY <2>a, <3>1, <3>2
  <2>6. CASE Load(t)
    <3>1. /\ pc[t] = "loading" /\ pc'[t] = "reading" /\ map'[t] = known
          /\ UNCHANGED <<total, known, window, mine>>
      BY <2>0, <2>6, LoadMoves
    <3>. QED  BY <2>a, <3>1
  <2>7. CASE Read(t)
    <3>1. /\ pc[t] = "reading" /\ pc'[t] = "writing"
          /\ UNCHANGED <<total, known, window, mine, map>>
      BY <2>0, <2>7, ReadMoves
    <3>. QED  BY <2>a, <3>1
  <2>8. CASE Write(t)
    <3>1. /\ pc[t] = "writing" /\ pc'[t] = "asking" /\ map'[t] = map[t] \cup {t}
          /\ UNCHANGED <<total, known, window, mine>>
      BY <2>0, <2>8, WriteMoves
    <3>. QED  BY <2>a, <3>1
  <2>9. CASE Ask(t) \/ Reprompt(t) \/ Tool(t) \/ Store(t)
    <3>1. /\ pc[t] \in {"asking", "tool", "answered"} /\ pc'[t] \in {"asking", "tool", "answered"}
          /\ UNCHANGED <<total, known, window, mine, map>>
      <4>1. CASE Ask(t)
        BY <2>0, <4>1, AskMoves
      <4>2. CASE Tool(t)
        BY <2>0, <4>2, ToolMoves
      <4>3. CASE Store(t)
        BY <2>0, <4>3, StoreMoves
      <4>4. CASE Reprompt(t)
        BY <2>0, <4>4, RepromptMoves
      <4>. QED  BY <2>9, <4>1, <4>2, <4>3, <4>4
    <3>. QED  BY <2>a, <3>1
  <2>10. CASE Answer(t)
    <3>1. /\ pc[t] = "answered" /\ pc'[t] = "saving" /\ mine'[t] = mine[t] + Cost(t)
          /\ UNCHANGED <<total, known, window, map, rounds, retries>>
      BY <2>0, <2>10, AnswerMoves
    <3>2. Cost(t)' = Cost(t)
      BY <3>1 DEF Cost
    <3>. QED  BY <2>a, <3>1, <3>2
  <2>11. CASE Commit(t)
    <3>1. /\ pc[t] = "saving" /\ pc'[t] = "flushing"
          /\ UNCHANGED <<known, window, map>>
      BY <2>0, <2>11, CommitMoves
    <3>. QED  BY <2>a, <3>1
  <2>12. CASE Flush(t)
    <3>1. pc'[t] = "done" /\ window' = window
      BY <2>0, <2>12, FlushMoves
    <3>. QED  BY <2>a, <3>1
  <2>13. CASE Fail(t)
    <3>1. pc'[t] = "failed" /\ window' = window
      BY <2>0, <2>13, FailMoves
    <3>. QED  BY <2>a, <3>1
  <2>. QED  BY <1>3, <2>3, <2>4, <2>5, <2>6, <2>7, <2>8, <2>9, <2>10, <2>11, <2>12, <2>13 DEF Turn
<1>. QED  BY <1>1, <1>2, <1>3

LEMMA RestorableInv ==
    ASSUME Inv, TypeOK', NEW t \in Turns, Begin(t) \/ Turn(t) \/ FailOpen(t) \/ Fail(t)
    PROVE  RowsRestorable'
<1>. USE DEF To, rowVars, redisVars, turnVars
<1>. SUFFICES ASSUME calm', NEW r \in Turns, rows'[r] # <<>>
              PROVE  r \in known' \/ (pc'[r] \in InFlight /\ r \in map'[r])
  BY DEF RowsRestorable, Busy
<1>0. calm
  BY DEF Begin, Turn, Check, Record, Load, Read, Write, Ask, Reprompt, Store, Tool, Answer, Commit, Flush,
         Fail, FailOpen
<1>1. rows[r] # <<>> => r \in known \/ (pc[r] \in InFlight /\ r \in map[r])
  BY <1>0 DEF Inv, RowsRestorable, Busy
<1>2. CASE Commit(t) \/ Store(t)
  <2>1. /\ t \in map[t] /\ map' = map /\ known' = known
        /\ \A u \in Turns : pc[u] \in InFlight => pc'[u] \in InFlight
        /\ pc'[t] \in InFlight
    <3>1. CASE Commit(t)
      BY <1>0, <3>1 DEF Inv, TypeOK, CalmMap, Commit, InFlight
    <3>2. CASE Store(t)
      BY <1>0, <3>2 DEF Inv, CalmMap, Store, InFlight
    <3>. QED  BY <1>2, <3>1, <3>2
  <2>2. r # t => rows'[r] = rows[r]
    BY <1>2 DEF Inv, TypeOK, Commit, Store
  <2>. QED  BY <1>1, <2>1, <2>2
<1>3. CASE Flush(t)
  <2>1. \A u \in Turns : pc[u] \in InFlight => u = t
    BY <1>0, <1>3 DEF Inv, CalmIsSerial, Busy, InFlight, Flush
  <2>2. known \subseteq map[t] /\ known' = map[t] /\ rows' = rows
    BY <1>0, <1>3 DEF Inv, CalmMap, Flush
  <2>. QED  BY <1>1, <2>1, <2>2
<1>4. CASE Fail(t)
  <2>1. rows[t] = <<>> /\ rows' = rows /\ known' = known
    BY <1>4 DEF Fail
  <2>2. r # t /\ pc'[r] = pc[r] /\ map'[r] = map[r]
    BY <1>4, <2>1 DEF Inv, TypeOK, Fail
  <2>. QED  BY <1>1, <2>1, <2>2
<1>5. CASE ~Commit(t) /\ ~Store(t) /\ ~Flush(t) /\ ~Fail(t)
  <2>1. rows' = rows /\ known' = known
    BY <1>5 DEF Begin, Turn, Check, Record, Load, Read, Write, Ask, Reprompt, Tool, Answer, FailOpen
  <2>2. r # t => pc'[r] = pc[r] /\ map'[r] = map[r]
    BY <1>5 DEF Inv, TypeOK, Begin, Turn, Check, Record, Load, Read, Write, Ask, Reprompt, Tool,
                Answer, FailOpen
  <2>3. CASE r = t
    <3>1. CASE Begin(t) \/ Check(t) \/ Record(t) \/ Load(t) \/ Read(t) \/ Write(t)
      BY <1>1, <2>1, <2>3, <3>1 DEF Inv, EarlyRows, Begin, Check, Record, Load, Read, Write
    <3>2. CASE Ask(t) \/ Reprompt(t) \/ Tool(t) \/ Answer(t)
      BY <1>1, <2>1, <2>3, <3>2 DEF Inv, TypeOK, Ask, Reprompt, Tool, Answer, InFlight
    <3>3. CASE FailOpen(t)
      BY <3>3 DEF FailOpen
    <3>. QED  BY <1>5, <3>1, <3>2, <3>3 DEF Turn
  <2>. QED  BY <1>1, <2>1, <2>2, <2>3
<1>. QED  BY <1>2, <1>3, <1>4, <1>5

(***************************************************************************)
(* What the total adds up to                                               *)
(***************************************************************************)

\* The calls behind the answer of a turn.
CallsOf(t) == {t} \X (1..Cost(t))

LEMMA CallsOfCount ==
    ASSUME TypeOK, NEW t \in Turns
    PROVE  IsFiniteSet(CallsOf(t)) /\ Cardinality(CallsOf(t)) = Cost(t)
<1>1. Cost(t) \in Nat
  BY CostType
<1>. DEFINE n == Cost(t)
<1>. HIDE DEF n
<1>2. IsFiniteSet(1..n) /\ Cardinality(1..n) = n /\ n \in Nat
  BY <1>1, FS_Interval DEF n
<1>3. IsFiniteSet({t}) /\ Cardinality({t}) = 1
  BY FS_Singleton, Zenon
<1>4. /\ IsFiniteSet({t} \X (1..n))
      /\ Cardinality({t} \X (1..n)) = Cardinality({t}) * Cardinality(1..n)
  BY <1>2, <1>3, FS_Product, Zenon
<1>5. 1 * n = n
  BY <1>2
<1>. QED  BY <1>2, <1>3, <1>4, <1>5 DEF CallsOf, n

\* Whether the calls of a turn are paid, from its rows.
Paid(t) == rows[t] # <<>> /\ rows[t][Len(rows[t])] = "assistant"

\* A turn that is not paid has no calls among them, and its commit adds them all.
LEMMA PaidBefore ==
    ASSUME Inv, NEW t \in Turns, pc[t] \notin {"flushing", "done", "failed"}
    PROVE  ~Paid(t)
  BY DEF Inv, RowsFit, Cut, Paid

LEMMA CommitPays ==
    ASSUME Inv, TypeOK', NEW t \in Turns, Commit(t)
    PROVE  PaidCalls' = PaidCalls \cup CallsOf(t) /\ PaidCalls \cap CallsOf(t) = {}
<1>0. TypeOK /\ PendingFits
  BY DEF Inv
<1>1. /\ pc[t] = "saving" /\ rows'[t] = pending[t] /\ rounds' = rounds /\ retries' = retries
      /\ \A u \in Turns : u # t => rows'[u] = rows[u]
  BY <1>0, CommitMoves, Others DEF Turn
<1>2. Paid(t)'
  <2>1. Whole(pending[t])
    BY <1>0, <1>1 DEF PendingFits
  <2>. QED  BY <1>1, <2>1 DEF Whole, Answered, Paid
<1>3. ~Paid(t)
  BY <1>1, PaidBefore
<1>4. \A u \in Turns : u # t => (Paid(u)' <=> Paid(u))
  BY <1>1 DEF Paid
<1>5. Cost(t) \in 0..MaxCost /\ MaxCost \in Nat /\ \A u \in Turns : Cost(u)' = Cost(u)
  BY <1>0, <1>1, CostType DEF Cost
<1>6. ASSUME NEW u \in Turns, NEW i \in 1..MaxCost
      PROVE  /\ <<u, i>> \in PaidCalls <=> Paid(u) /\ i <= Cost(u)
             /\ <<u, i>> \in PaidCalls' <=> Paid(u)' /\ i <= Cost(u)
             /\ <<u, i>> \in CallsOf(t) <=> u = t /\ i <= Cost(t)
  <2>1. <<u, i>> \in PaidCalls <=> Paid(u) /\ i <= Cost(u)
    BY DEF PaidCalls, Paid
  <2>2. <<u, i>> \in PaidCalls' <=> Paid(u)' /\ i <= Cost(u)
    BY <1>5 DEF PaidCalls, Paid
  <2>3. <<u, i>> \in CallsOf(t) <=> u = t /\ i <= Cost(t)
    BY <1>5 DEF CallsOf
  <2>. QED  BY <2>1, <2>2, <2>3
<1>7. /\ PaidCalls \subseteq Turns \X (1..MaxCost) /\ PaidCalls' \subseteq Turns \X (1..MaxCost)
      /\ CallsOf(t) \subseteq Turns \X (1..MaxCost)
  <2>1. PaidCalls \subseteq Turns \X (1..MaxCost) /\ PaidCalls' \subseteq Turns \X (1..MaxCost)
    BY DEF PaidCalls
  <2>2. CallsOf(t) \subseteq Turns \X (1..MaxCost)
    BY <1>5 DEF CallsOf
  <2>. QED  BY <2>1, <2>2
<1>8. ASSUME NEW c \in Turns \X (1..MaxCost)
      PROVE  /\ c \in PaidCalls' <=> c \in PaidCalls \/ c \in CallsOf(t)
             /\ ~(c \in PaidCalls /\ c \in CallsOf(t))
  <2>1. PICK u \in Turns, i \in 1..MaxCost : c = <<u, i>>
    OBVIOUS
  <2>. QED  BY <1>2, <1>3, <1>4, <1>6, <2>1
<1>. QED  BY <1>7, <1>8

\* Every other step leaves the paid calls: a turn counts its calls before it is paid.
LEMMA OthersPayNothing ==
    ASSUME Inv, NEW t \in Turns, Begin(t) \/ Turn(t) \/ FailOpen(t) \/ Fail(t), ~Commit(t)
    PROVE  PaidCalls' = PaidCalls
<1>0. TypeOK /\ PendingFits
  BY DEF Inv
<1>1. \A u \in Turns : u # t => rows'[u] = rows[u] /\ Cost(u)' = Cost(u)
  BY <1>0, Others DEF Cost
<1>2. CASE Ask(t) \/ Reprompt(t) \/ Store(t)
  <2>1. ~Paid(t)
    <3>1. pc[t] \in {"asking", "tool", "answered"}
      BY <1>0, <1>2, AskMoves, RepromptMoves, StoreMoves
    <3>. QED  BY <3>1, PaidBefore
  <2>2. ~(Paid(t)')
    <3>1. CASE Ask(t) \/ Reprompt(t)
      <4>1. rows' = rows
        BY <1>0, <3>1, AskMoves, RepromptMoves
      <4>. QED  BY <2>1, <4>1 DEF Paid
    <3>2. CASE Store(t)
      <4>1. pc[t] = "tool" /\ rows'[t] = pending[t]
        BY <1>0, <3>2, StoreMoves
      <4>2. Cut(pending[t])
        BY <1>0, <4>1 DEF PendingFits
      <4>. QED  BY <4>1, <4>2 DEF Cut, Paid
    <3>. QED  BY <1>2, <3>1, <3>2
  <2>3. ASSUME NEW c \in Turns \X (1..MaxCost)
        PROVE  c \in PaidCalls' <=> c \in PaidCalls
    <3>1. PICK u \in Turns, i \in 1..MaxCost : c = <<u, i>>
      OBVIOUS
    <3>2. c \in PaidCalls <=> Paid(u) /\ i <= Cost(u)
      BY <3>1 DEF PaidCalls, Paid
    <3>3. c \in PaidCalls' <=> Paid(u)' /\ i <= Cost(u)'
      BY <3>1 DEF PaidCalls, Paid
    <3>4. u # t => (Paid(u)' <=> Paid(u))
      BY <1>1 DEF Paid
    <3>. QED  BY <1>1, <2>1, <2>2, <3>2, <3>3, <3>4
  <2>4. PaidCalls \subseteq Turns \X (1..MaxCost) /\ PaidCalls' \subseteq Turns \X (1..MaxCost)
    BY DEF PaidCalls
  <2>. QED  BY <2>3, <2>4
<1>3. CASE ~Ask(t) /\ ~Reprompt(t) /\ ~Store(t)
  <2>1. rows' = rows /\ rounds' = rounds /\ retries' = retries
    <3>1. CASE Begin(t) \/ Check(t) \/ Record(t) \/ Load(t) \/ FailOpen(t) \/ Read(t) \/ Write(t)
      BY <1>0, <3>1, BeginMoves, CheckMoves, RecordMoves, LoadMoves, FailOpenMoves, ReadMoves, WriteMoves
    <3>2. CASE Tool(t) \/ Answer(t) \/ Flush(t) \/ Fail(t)
      BY <1>0, <3>2, ToolMoves, AnswerMoves, FlushMoves, FailMoves
    <3>. QED  BY <1>3, <3>1, <3>2 DEF Turn
  <2>. QED  BY <2>1 DEF PaidCalls, Cost
<1>. QED  BY <1>2, <1>3

LEMMA CostInv ==
    ASSUME Inv, TypeOK', NEW t \in Turns, Begin(t) \/ Turn(t) \/ FailOpen(t) \/ Fail(t)
    PROVE  IsFiniteSet(PaidCalls)' /\ TotalIsCost'
<1>0. /\ TypeOK /\ IsFiniteSet(PaidCalls) /\ (calm => total = Cardinality(PaidCalls)) /\ CalmTotal
  BY DEF Inv, TotalIsCost
<1>1. CASE Commit(t)
  <2>1. PaidCalls' = PaidCalls \cup CallsOf(t) /\ PaidCalls \cap CallsOf(t) = {}
    BY <1>1, CommitPays
  <2>2. IsFiniteSet(CallsOf(t)) /\ Cardinality(CallsOf(t)) = Cost(t)
    BY <1>0, CallsOfCount
  <2>3. /\ IsFiniteSet(PaidCalls')
        /\ Cardinality(PaidCalls') = Cardinality(PaidCalls) + Cost(t) - Cardinality({})
    BY <1>0, <2>1, <2>2, FS_Union
  <2>4. pc[t] = "saving" /\ total' = mine[t] /\ calm' = calm
    BY <1>0, <1>1, CommitMoves
  <2>5. calm => mine[t] = total + Cost(t)
    BY <1>0, <2>4 DEF CalmTotal
  <2>6. Cardinality({}) = 0 /\ Cardinality(PaidCalls) \in Nat /\ Cost(t) \in Nat
    BY <1>0, CostType, FS_EmptySet, FS_CardinalityType
  <2>7. Cardinality(PaidCalls') = Cardinality(PaidCalls) + Cost(t)
    BY <2>3, <2>6
  <2>. QED  BY <1>0, <2>3, <2>4, <2>5, <2>7 DEF TotalIsCost
<1>2. CASE ~Commit(t)
  <2>1. PaidCalls' = PaidCalls
    BY <1>2, OthersPayNothing
  <2>2. total' = total /\ (calm' => calm)
    <3>1. CASE Begin(t) \/ Check(t) \/ Record(t) \/ Load(t) \/ FailOpen(t) \/ Read(t) \/ Write(t)
      BY <1>0, <3>1, BeginMoves, CheckMoves, RecordMoves, LoadMoves, FailOpenMoves, ReadMoves, WriteMoves
    <3>2. CASE Ask(t) \/ Reprompt(t) \/ Store(t) \/ Tool(t) \/ Answer(t) \/ Flush(t) \/ Fail(t)
      BY <1>0, <3>2, AskMoves, RepromptMoves, StoreMoves, ToolMoves, AnswerMoves, FlushMoves, FailMoves
    <3>. QED  BY <1>2, <3>1, <3>2 DEF Turn
  <2>. QED  BY <1>0, <2>1, <2>2 DEF TotalIsCost
<1>. QED  BY <1>1, <1>2

LEMMA InvStep == Inv /\ [Next]_vars => Inv'
<1> SUFFICES ASSUME Inv, [Next]_vars PROVE Inv'
  OBVIOUS
<1>0. TypeOK'
  BY TypeStep DEF Inv
<1>1. CASE \E t \in Turns : Begin(t) \/ Turn(t) \/ FailOpen(t) \/ Fail(t)
  <2>1. PICK t \in Turns : Begin(t) \/ Turn(t) \/ FailOpen(t) \/ Fail(t)
    BY <1>1
  <2>2. PendingFits' /\ RowsFit' /\ EarlyRows' /\ BudgetFits'
    BY <2>1, PendingInv, RowsInv, BudgetInv
  <2>3. CalmIsSerial' /\ CalmWindow' /\ CalmMap' /\ CalmTotal'
    BY <2>1, CalmInv
  <2>4. RowsRestorable' /\ IsFiniteSet(PaidCalls)' /\ TotalIsCost'
    BY <1>0, <2>1, RestorableInv, CostInv
  <2>. QED  BY <1>0, <2>2, <2>3, <2>4 DEF Inv
<1>2. CASE Clear \/ Close \/ Age \/ Expire \/ UNCHANGED vars
  <2>1. UNCHANGED <<total, rows, turnVars>> /\ (calm' => calm /\ known' = known)
    BY <1>2 DEF Clear, Close, Age, Expire, vars, rowVars, redisVars
  <2>2. window' = window \/ window' = window - 1
    BY <1>2 DEF Clear, Close, Age, Expire, vars, redisVars
  <2>3. PendingFits' /\ RowsFit' /\ BudgetFits' /\ EarlyRows'
    BY <2>1 DEF Inv, PendingFits, RowsFit, BudgetFits, EarlyRows, turnVars
  <2>4. CalmIsSerial' /\ RowsRestorable'
    BY <2>1 DEF Inv, CalmIsSerial, RowsRestorable, Busy, turnVars
  <2>5. CalmMap' /\ CalmTotal'
    BY <2>1 DEF Inv, CalmMap, CalmTotal, Cost, turnVars
  <2>6. CalmWindow'
    <3>1. window \in Nat /\ MaxPerMinute \in Nat /\ CalmWindow
      BY ChatAssumption DEF Inv, TypeOK
    <3>2. pc' = pc /\ (calm' => calm)
      BY <2>1 DEF turnVars
    <3>3. window' <= window
      BY <2>2, <3>1
    <3>. QED  BY <2>2, <3>1, <3>2 DEF CalmWindow
  <2>7. IsFiniteSet(PaidCalls)' /\ TotalIsCost'
    <3>1. PaidCalls' = PaidCalls
      BY <2>1 DEF PaidCalls, Cost, turnVars
    <3>. QED  BY <2>1, <3>1 DEF Inv, TotalIsCost
  <2>. QED  BY <1>0, <2>3, <2>4, <2>5, <2>6, <2>7 DEF Inv
<1>. QED  BY <1>1, <1>2 DEF Next

(***************************************************************************)
(* The theorems                                                            *)
(***************************************************************************)

\* The variables keep their types; the memory keeps its bound (LTRIM,
\* services/memory_store.py).
THEOREM TypeCorrect == Spec => []TypeOK
<1>. QED  BY TypeInit, TypeStep, PTL DEF Spec

\* The inductive invariant of the turns of a session.
THEOREM InvHolds == Spec => []Inv
<1>. QED  BY InvInit, InvStep, PTL DEF Spec

\* The rows that the runtime commits for a turn are a whole conversation
\* (agents/chat_runtime.py).
THEOREM WholeTurnsHolds == Spec => []WholeTurns
<1>1. Inv => WholeTurns
  <2> SUFFICES ASSUME Inv, NEW t \in Turns, rows[t] # <<>>
               PROVE  LET n == Len(rows[t]) IN
                      /\ rows[t][1] = "user"
                      /\ \A i \in 1..(n - 1) : rows[t][i] = "calls" => rows[t][i + 1] = "tool"
                      /\ \/ rows[t][n] = "assistant"
                         \/ rows[t][n] = "calls" /\ pc[t] \notin {"flushing", "done"}
    BY DEF WholeTurns
  <2>1. Len(rows[t]) \in Nat
    BY DEF Inv, TypeOK
  <2>. QED  BY <2>1 DEF Inv, RowsFit, Whole, Cut, Answered
<1>. QED  BY <1>1, InvHolds, PTL

\* The total passes the budget by less than a turn can cost, in the rounds of its loop
\* over tools and in re-prompts, and in a calm session no minute has too many messages
\* (services/chat_rate_limiter.py, agents/chat_runtime.py).
THEOREM LimitsHoldHolds == Spec => []LimitsHold
<1>1. Inv => LimitsHold
  BY DEF Inv, BudgetFits, CalmWindow, LimitsHold
<1>. QED  BY <1>1, InvHolds, PTL

\* In a calm session every committed row can be restored (services/chat_pii.py).
THEOREM RowsRestorableHolds == Spec => []RowsRestorable
<1>. QED  BY InvHolds, PTL DEF Inv

\* In a calm session the recorded total is the number of calls of the model behind the
\* answers that are committed: no addition is lost or made twice
\* (agents/chat_runtime.py).
THEOREM TotalIsCostHolds == Spec => []TotalIsCost
<1>. QED  BY InvHolds, PTL DEF Inv
=============================================================================
