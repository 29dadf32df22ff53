---------------------------- MODULE ChatSession ----------------------------
(***************************************************************************)
(* One chat session: the requests that post messages to it, each a         *)
(* coroutine with a database session of its own (agents/chat_runtime.py,   *)
(* routers/chat.py), the limits (services/chat_rate_limiter.py), the       *)
(* memory in Redis (services/memory_store.py), the map of redacted values  *)
(* in Redis (services/chat_pii.py, services/pii_service.py), and the       *)
(* request that closes it.                                                 *)
(*                                                                         *)
(* A turn is one message with its answer.  What a turn redacts is one      *)
(* token, named like the turn.  A call of the model costs one unit.        *)
(***************************************************************************)
EXTENDS Integers, Sequences, FiniteSets

CONSTANTS
    Turns,
    MaxPerMinute,   \* messages_per_minute
    Budget,         \* max_total_tokens
    MaxMemory,      \* max_turns of the memory node
    MaxRounds,      \* _MAX_TOOL_LOOP_ITERATIONS, 12 in the code
    MaxRetries      \* max_retries of the output parser node, 0 without one

ASSUME ChatAssumption ==
    /\ MaxPerMinute \in Nat /\ Budget \in Nat \ {0}
    /\ MaxMemory \in Nat \ {0} /\ MaxRounds \in Nat \ {0} /\ MaxRetries \in Nat

VARIABLES
    status,     \* of the session's row
    total,      \* total_prompt_tokens + total_completion_tokens of the row
    rows,       \* the committed messages of a turn
    memory,     \* the list in Redis, oldest first
    known,      \* the map in Redis: the turns whose tokens it can restore
    window,     \* the messages of the last minute
    closer,     \* the request that closes the session
    pc,         \* where a turn is
    mine,       \* the total it has loaded, and adds to
    map,        \* its copy of the map
    history,    \* what it has read from the memory, until it is in the messages
    pending,    \* its rows, committed or not, until the last commit
    rounds,     \* its calls of the model in the loop over tools
    retries,    \* its calls to correct an answer
    calm        \* history: nothing has overlapped, failed in Redis, been cut
                \* short between a commit and the flush, or expired

rowVars == <<status, total, rows>>
redisVars == <<memory, known, window>>
turnVars == <<pc, mine, map, history, pending, rounds, retries>>
vars == <<rowVars, redisVars, closer, turnVars, calm>>

Role == {"user", "calls", "tool", "assistant"}
InFlight == {"checking", "allowed", "loading", "reading", "writing", "asking", "tool",
             "answered", "saving", "flushing"}
Busy == {t \in Turns : pc[t] \in InFlight}

TypeOK ==
    /\ status \in {"active", "closed"} /\ total \in Nat
    /\ rows \in [Turns -> Seq(Role)] /\ pending \in [Turns -> Seq(Role)]
    /\ memory \in Seq([turn : Turns, role : Role]) /\ Len(memory) <= MaxMemory
    /\ known \subseteq Turns /\ map \in [Turns -> SUBSET Turns]
    /\ window \in Nat
    /\ closer \in {"none", "cleared", "done"}
    /\ pc \in [Turns -> InFlight \cup {"none", "refused", "failed", "done"}]
    /\ mine \in [Turns -> Nat]
    /\ history \in [Turns -> Seq([turn : Turns, role : Role])]
    /\ rounds \in [Turns -> 0..MaxRounds] /\ retries \in [Turns -> 0..MaxRetries]
    /\ calm \in BOOLEAN

(***************************************************************************)
(* The memory: LPUSH and LTRIM                                             *)
(***************************************************************************)

Remember(t, role) ==
    LET longer == Append(memory, [turn |-> t, role |-> role]) IN
    memory' = IF Len(longer) > MaxMemory THEN Tail(longer) ELSE longer

(***************************************************************************)
(* A turn                                                                  *)
(***************************************************************************)

To(t, place) == pc' = [pc EXCEPT ![t] = place]

\* The session is loaded: refused when it is not active.
Begin(t) ==
    /\ pc[t] = "none"
    /\ To(t, IF status = "active" THEN "checking" ELSE "refused")
    /\ mine' = [mine EXCEPT ![t] = total]
    /\ calm' = (calm /\ Busy = {})
    /\ UNCHANGED <<rowVars, redisVars, closer, map, history, pending, rounds, retries>>

\* The budget of the row that was loaded, and the sliding window.  (Definitions
\* with a suffix after the underscore, here and below, are broken variants of the
\* definition that follows; nothing uses them.)
Check_rateOnly(t) ==
    /\ pc[t] = "checking"
    /\ To(t, IF window >= MaxPerMinute THEN "refused" ELSE "allowed")
    /\ UNCHANGED <<rowVars, redisVars, closer, mine, map, history, pending, rounds, retries, calm>>
Check(t) ==
    /\ pc[t] = "checking"
    /\ To(t, IF mine[t] >= Budget \/ window >= MaxPerMinute THEN "refused" ELSE "allowed")
    /\ UNCHANGED <<rowVars, redisVars, closer, mine, map, history, pending, rounds, retries, calm>>

Record(t) ==
    /\ pc[t] = "allowed" /\ To(t, "loading") /\ window' = window + 1
    /\ UNCHANGED <<rowVars, memory, known, closer, mine, map, history, pending, rounds, retries, calm>>

Load_nothing(t) ==
    /\ pc[t] = "loading" /\ To(t, "reading")
    /\ UNCHANGED <<rowVars, redisVars, closer, mine, map, history, pending, rounds, retries, calm>>
Load(t) ==
    /\ pc[t] = "loading" /\ To(t, "reading")
    /\ map' = [map EXCEPT ![t] = known]
    /\ UNCHANGED <<rowVars, redisVars, closer, mine, history, pending, rounds, retries, calm>>

\* Redis fails and the runtime fails open: the window is not asked, or the
\* message is not recorded, or the map is not loaded, or not saved.
FailOpen(t) ==
    /\ \/ pc[t] = "checking" /\ mine[t] < Budget /\ To(t, "allowed")
       \/ pc[t] = "allowed" /\ To(t, "loading")
       \/ pc[t] = "loading" /\ To(t, "reading")
       \/ pc[t] = "flushing" /\ To(t, "done")
    /\ calm' = FALSE
    /\ UNCHANGED <<rowVars, redisVars, closer, mine, map, history, pending, rounds, retries>>

Read(t) ==
    /\ pc[t] = "reading" /\ To(t, "writing")
    /\ history' = [history EXCEPT ![t] = memory]
    /\ UNCHANGED <<rowVars, redisVars, closer, mine, map, pending, rounds, retries, calm>>

\* The message goes to the memory and, redacted again, to a row.
Write_commits(t) ==
    /\ pc[t] = "writing" /\ To(t, "asking") /\ Remember(t, "user")
    /\ map' = [map EXCEPT ![t] = @ \cup {t}]
    /\ rows' = [rows EXCEPT ![t] = <<"user">>]
    /\ pending' = [pending EXCEPT ![t] = <<"user">>]
    /\ history' = [history EXCEPT ![t] = <<>>]
    /\ UNCHANGED <<status, total, known, window, closer, mine, rounds, retries, calm>>
Write(t) ==
    /\ pc[t] = "writing" /\ To(t, "asking") /\ Remember(t, "user")
    /\ map' = [map EXCEPT ![t] = @ \cup {t}]
    /\ pending' = [pending EXCEPT ![t] = <<"user">>]
    /\ history' = [history EXCEPT ![t] = <<>>]
    /\ UNCHANGED <<rowVars, known, window, closer, mine, rounds, retries, calm>>

\* The model answers, or calls a tool; after the last round the runtime answers.
Ask_uncounted(t) ==
    /\ pc[t] = "asking" /\ UNCHANGED rounds
    /\ \/ To(t, "answered") /\ UNCHANGED pending
       \/ To(t, "tool") /\ pending' = [pending EXCEPT ![t] = <<"user", "calls">>]
    /\ UNCHANGED <<rowVars, redisVars, closer, mine, map, history, retries, calm>>
Ask(t) ==
    /\ pc[t] = "asking"
    /\ \/ /\ rounds[t] < MaxRounds /\ rounds' = [rounds EXCEPT ![t] = @ + 1]
          /\ \/ To(t, "answered") /\ UNCHANGED pending
             \/ To(t, "tool") /\ pending' = [pending EXCEPT ![t] = Append(@, "calls")]
       \/ rounds[t] = MaxRounds /\ To(t, "answered") /\ UNCHANGED <<pending, rounds>>
    /\ UNCHANGED <<rowVars, redisVars, closer, mine, map, history, retries, calm>>

\* The output parser rejects the answer, and the model is asked for another one.
Reprompt(t) ==
    /\ pc[t] = "answered" /\ retries[t] < MaxRetries
    /\ retries' = [retries EXCEPT ![t] = @ + 1]
    /\ UNCHANGED <<rowVars, redisVars, closer, pc, mine, map, history, pending, rounds, calm>>

\* A data_store tool writes through the session of the turn, and its commit
\* commits the rows of the turn so far.  (When that commit is cut, the session
\* refuses everything and the turn fails: Store or nothing, and then Fail.)
Store(t) ==
    /\ pc[t] = "tool" /\ rows[t] # pending[t]
    /\ rows' = [rows EXCEPT ![t] = pending[t]]
    /\ UNCHANGED <<status, total, redisVars, closer, turnVars, calm>>

\* The result goes to a row and to the memory; the call only went to a row.
Tool(t) ==
    /\ pc[t] = "tool" /\ To(t, "asking") /\ Remember(t, "tool")
    /\ pending' = [pending EXCEPT ![t] = Append(@, "tool")]
    /\ UNCHANGED <<rowVars, known, window, closer, mine, map, history, rounds, retries, calm>>

\* What a turn costs.
Cost(t) == rounds[t] + retries[t]
MaxCost == MaxRounds + MaxRetries

Answer_firstAnswer(t) ==
    /\ pc[t] = "answered" /\ To(t, "saving") /\ Remember(t, "assistant")
    /\ mine' = [mine EXCEPT ![t] = @ + rounds[t]]
    /\ pending' = [pending EXCEPT ![t] = Append(@, "assistant")]
    /\ UNCHANGED <<rowVars, known, window, closer, map, history, rounds, retries, calm>>
Answer(t) ==
    /\ pc[t] = "answered" /\ To(t, "saving") /\ Remember(t, "assistant")
    /\ mine' = [mine EXCEPT ![t] = @ + Cost(t)]
    /\ pending' = [pending EXCEPT ![t] = Append(@, "assistant")]
    /\ UNCHANGED <<rowVars, known, window, closer, map, history, rounds, retries, calm>>

\* One transaction; the total is the one loaded, with what this turn has cost.
Commit(t) ==
    /\ pc[t] = "saving" /\ To(t, "flushing")
    /\ total' = mine[t] /\ rows' = [rows EXCEPT ![t] = pending[t]]
    /\ pending' = [pending EXCEPT ![t] = <<>>]
    /\ UNCHANGED <<status, redisVars, closer, mine, map, history, rounds, retries, calm>>

Flush(t) ==
    /\ pc[t] = "flushing" /\ To(t, "done") /\ known' = map[t]
    /\ mine' = [mine EXCEPT ![t] = 0] /\ map' = [map EXCEPT ![t] = {}]
    /\ UNCHANGED <<rowVars, memory, window, closer, history, pending, rounds, retries, calm>>

\* The model fails, the process dies, or the turn is canceled: the transaction is
\* rolled back; what a tool committed and what is in Redis stays.
Fail(t) ==
    /\ t \in Busy /\ To(t, "failed")
    /\ pending' = [pending EXCEPT ![t] = <<>>] /\ history' = [history EXCEPT ![t] = <<>>]
    /\ mine' = [mine EXCEPT ![t] = 0] /\ map' = [map EXCEPT ![t] = {}]
    /\ calm' = (calm /\ rows[t] = <<>>)
    /\ UNCHANGED <<rowVars, redisVars, closer, rounds, retries>>

(***************************************************************************)
(* close_session_route, and time                                           *)
(***************************************************************************)

Clear ==
    /\ closer = "none" /\ closer' = "cleared" /\ memory' = <<>>
    /\ UNCHANGED <<rowVars, known, window, turnVars, calm>>

Close ==
    /\ closer = "cleared" /\ closer' = "done" /\ status' = "closed"
    /\ UNCHANGED <<total, rows, redisVars, turnVars, calm>>

\* A message leaves the window; the memory or the map has not been written for
\* as long as it is kept.
Age == window > 0 /\ window' = window - 1
       /\ UNCHANGED <<rowVars, memory, known, closer, turnVars, calm>>
Expire ==
    /\ \/ memory # <<>> /\ memory' = <<>> /\ UNCHANGED known
       \/ known # {} /\ known' = {} /\ UNCHANGED memory
    /\ calm' = FALSE
    /\ UNCHANGED <<rowVars, window, closer, turnVars>>

Init ==
    /\ status = "active" /\ total = 0 /\ rows = [t \in Turns |-> <<>>]
    /\ memory = <<>> /\ known = {} /\ window = 0 /\ closer = "none"
    /\ pc = [t \in Turns |-> "none"] /\ mine = [t \in Turns |-> 0]
    /\ map = [t \in Turns |-> {}] /\ history = [t \in Turns |-> <<>>]
    /\ pending = [t \in Turns |-> <<>>] /\ rounds = [t \in Turns |-> 0]
    /\ retries = [t \in Turns |-> 0]
    /\ calm = TRUE

Turn(t) ==
    \/ Check(t) \/ Record(t) \/ Load(t) \/ Read(t) \/ Write(t) \/ Ask(t) \/ Reprompt(t)
    \/ Store(t) \/ Tool(t) \/ Answer(t) \/ Commit(t) \/ Flush(t)

Next ==
    \/ \E t \in Turns : Begin(t) \/ Turn(t) \/ FailOpen(t) \/ Fail(t)
    \/ Clear \/ Close \/ Age \/ Expire

\* A request that has been accepted goes on.
Spec == Init /\ [][Next]_vars /\ \A t \in Turns : WF_vars(Turn(t))

(***************************************************************************)
(* Properties                                                              *)
(***************************************************************************)

\* Hazard: rows are written one by one over many calls of the model, any of which
\* may fail, and a tool may commit those written so far.  The committed rows of a
\* turn are a conversation that is whole, or cut at a call whose result is not in it
\* yet; those of a turn that has committed its answer are whole.
WholeTurns ==
    \A t \in Turns : rows[t] # <<>> =>
        LET n == Len(rows[t]) IN
        /\ rows[t][1] = "user"
        /\ \A i \in 1..(n - 1) : rows[t][i] = "calls" => rows[t][i + 1] = "tool"
        /\ \/ rows[t][n] = "assistant"
           \/ rows[t][n] = "calls" /\ pc[t] \notin {"flushing", "done"}

\* Hazard: the cost is known after the call, the limit is checked on a row loaded
\* before, and turns that overlap overwrite each other's totals; the window is
\* asked by one command and added to by another.  The recorded total passes the
\* budget by less than one turn can cost, its re-prompts included, and in a calm
\* session no minute has more messages than the limit.
LimitsHold ==
    /\ total < Budget + MaxCost
    /\ calm => window <= MaxPerMinute

\* The calls of the model behind the answers that have been committed.
PaidCalls ==
    {c \in Turns \X (1..MaxCost) :
        LET r == rows[c[1]] IN r # <<>> /\ r[Len(r)] = "assistant" /\ c[2] <= Cost(c[1])}

\* Hazard: the total is read, added to and written back in Python.  In a calm
\* session it is what the turns with a committed answer have cost.
TotalIsCost == calm => total = Cardinality(PaidCalls)

\* Hazard: each turn writes the whole map back, once, after its rows.  In a calm
\* session every committed row can be restored, now or when its turn has flushed.
RowsRestorable ==
    calm => \A t \in Turns : rows[t] # <<>> => t \in known \/ (t \in Busy /\ t \in map[t])

\* Hazard: the loop over tools, and the loop over answers that are rejected.  A turn
\* that has begun comes to an end.
Ends == \A t \in Turns : pc[t] \in InFlight ~> pc[t] \notin InFlight

\* What the code says and does not do: a turn "mirrors the OpenAI tool-calling
\* protocol so the runtime can feed turns straight into the LLM message array"
\* (services/memory_store.py).  Then a result follows the call it answers.
HistoryIsProtocol ==
    \A t \in Turns : \A i \in 1..Len(history[t]) :
        history[t][i].role = "tool" => i > 1 /\ history[t][i - 1].role \in {"calls", "tool"}

\* The comment on the last commit says that the flush of the map comes after it,
\* "otherwise a crash between the two leaves redacted rows without a token map to
\* restore" (agents/chat_runtime.py).  Then no turn that fails leaves such rows.
NoRowWithoutMap ==
    [][\A t \in Turns :
          t \in Busy /\ pc'[t] = "failed" /\ rows[t] # <<>> => t \in known]_vars
=============================================================================
