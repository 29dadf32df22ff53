----------------------------- MODULE DataStore -----------------------------
(***************************************************************************)
(* Writes to the rows of a workspace's table (models/workflow_data.py): by *)
(* data_store nodes of runs (_data_store_op, agents/extended_executor.py)  *)
(* and by data_store tools of chats, which are called under a time limit   *)
(* and again when they fail (agents/tool_resolver.py).                     *)
(*                                                                         *)
(* A writer is one call, with a database session of its own.  It puts its  *)
(* own name into the fields of its payload, which is not empty; the empty  *)
(* function stands for a row that does not exist.                          *)
(***************************************************************************)
EXTENDS Integers, Sequences

CONSTANTS
    Runs, Calls,    \* the nodes that write, and the calls of tools
    Keys,           \* the keys that writers name
    Minted,         \* the keys that the code makes up
    Fields,
    MaxRetries      \* max_retries of the tool

Writers == Runs \cup Calls
Blank == "blank"

ASSUME DataAssumption ==
    /\ Runs \cap Calls = {} /\ Keys \cap Minted = {} /\ Blank \notin Keys \cup Minted
    /\ MaxRetries \in Nat

VARIABLES
    data,       \* the committed rows
    pc,         \* where a writer is
    asked,      \* the key it was given, or Blank
    fields,     \* of its payload
    key,        \* the key it writes
    seen,       \* the row that its SELECT returned
    usable,     \* its session takes statements
    tries,      \* the retries of a call
    told,       \* its result
    unsaved,    \* a run has step rows in its session that are not committed
    lost,       \* history: and they were rolled back, because somebody else has
                \* inserted the key
    log,        \* history: the writes in the order of their commits
    raced       \* history: the keys of rows that changed between a SELECT and the
                \* UPDATE that followed it

storeVars == <<data, log, raced>>
callVars == <<asked, fields>>
runVars == <<unsaved, lost>>
vars == <<storeVars, callVars, runVars, pc, key, seen, usable, tries, told>>

Row == UNION {[F -> Writers] : F \in SUBSET Fields}
NoRow == [f \in {} |-> f]

TypeOK ==
    /\ data \in [Keys \cup Minted -> Row]
    /\ pc \in [Writers -> {"idle", "ready", "selected", "told"}]
    /\ asked \in [Writers -> Keys \cup {Blank}] /\ fields \in [Writers -> SUBSET Fields]
    /\ key \in [Writers -> Keys \cup Minted \cup {Blank}] /\ seen \in [Writers -> Row]
    /\ usable \in [Writers -> BOOLEAN] /\ tries \in [Writers -> 0..MaxRetries]
    /\ told \in [Writers -> {"none", "ok", "failed"}]
    /\ unsaved \in [Writers -> BOOLEAN] /\ lost \in [Writers -> BOOLEAN]
    /\ log \in Seq([by : Writers, key : Keys \cup Minted])
    /\ raced \subseteq Keys \cup Minted

\* {**existing.data, **payload}
Merge(old, new) ==
    [f \in DOMAIN old \cup DOMAIN new |-> IF f \in DOMAIN new THEN new[f] ELSE old[f]]

Payload(w) == [f \in fields[w] |-> w]

(***************************************************************************)
(* The statements of a write                                               *)
(***************************************************************************)

\* The keys the write may get.  A run's is a whole uuid4, a call's the table's name
\* and six of its digits: it may be that of another row.
KeysFor(w) ==
    IF asked[w] # Blank THEN {asked[w]}
    ELSE IF w \in Calls THEN Minted
    ELSE {k \in Minted : data[k] = NoRow /\ \A v \in Writers : key[v] # k}

\* A run that comes to the node has recorded the steps of the nodes before.
Begin(w) ==
    /\ pc[w] = "idle" /\ pc' = [pc EXCEPT ![w] = "ready"]
    /\ \E k \in Keys \cup {Blank} : asked' = [asked EXCEPT ![w] = k]
    /\ \E F \in SUBSET Fields \ {{}} : fields' = [fields EXCEPT ![w] = F]
    /\ unsaved' = [unsaved EXCEPT ![w] = w \in Runs]
    /\ UNCHANGED <<storeVars, key, seen, usable, tries, told, lost>>

Select(w) ==
    /\ pc[w] = "ready" /\ usable[w] /\ pc' = [pc EXCEPT ![w] = "selected"]
    /\ \E k \in KeysFor(w) :
          key' = [key EXCEPT ![w] = k] /\ seen' = [seen EXCEPT ![w] = data[k]]
    /\ UNCHANGED <<storeVars, callVars, runVars, usable, tries, told>>

\* Two writers have inserted the key: the second fails on the unique constraint.
Conflicts(w) == seen[w] = NoRow /\ data[key[w]] # NoRow

\* What the commit does to the row: INSERT, or UPDATE of the whole column.
Stored_replaced(w) ==
    /\ ~Conflicts(w)
    /\ data' = [data EXCEPT ![key[w]] = Payload(w)]
    /\ log' = Append(log, [by |-> w, key |-> key[w]])
    /\ raced' = IF data[key[w]] = seen[w] THEN raced ELSE raced \cup {key[w]}
Stored(w) ==
    /\ ~Conflicts(w)
    /\ data' = [data EXCEPT ![key[w]] = Merge(seen[w], Payload(w))]
    /\ log' = Append(log, [by |-> w, key |-> key[w]])
    /\ raced' = IF data[key[w]] = seen[w] THEN raced ELSE raced \cup {key[w]}

Commit(w) ==
    /\ pc[w] = "selected" /\ Stored(w)
    /\ pc' = [pc EXCEPT ![w] = "told"] /\ told' = [told EXCEPT ![w] = "ok"]
    /\ unsaved' = [unsaved EXCEPT ![w] = FALSE]
    /\ UNCHANGED <<callVars, key, seen, usable, tries, lost>>

(***************************************************************************)
(* Failures                                                                *)
(***************************************************************************)

\* An attempt of a call has failed: the wrapper calls again, or gives up.
Retry(w) ==
    IF tries[w] < MaxRetries
    THEN /\ pc' = [pc EXCEPT ![w] = "ready"] /\ tries' = [tries EXCEPT ![w] = @ + 1]
         /\ UNCHANGED told
    ELSE /\ pc' = [pc EXCEPT ![w] = "told"] /\ told' = [told EXCEPT ![w] = "failed"]
         /\ UNCHANGED tries

\* The commit of a run failed: it rolls its session back.
RollBack_swallowed(w) ==
    /\ pc' = [pc EXCEPT ![w] = "told"] /\ told' = [told EXCEPT ![w] = "ok"]
    /\ lost' = [lost EXCEPT ![w] = unsaved[w] /\ Conflicts(w)]
    /\ unsaved' = [unsaved EXCEPT ![w] = FALSE]
    /\ UNCHANGED <<usable, tries>>
RollBack(w) ==
    /\ pc' = [pc EXCEPT ![w] = "told"] /\ told' = [told EXCEPT ![w] = "failed"]
    /\ lost' = [lost EXCEPT ![w] = unsaved[w] /\ Conflicts(w)]
    /\ unsaved' = [unsaved EXCEPT ![w] = FALSE]
    /\ UNCHANGED <<usable, tries>>

\* The commit of a call failed: nobody rolls back, and the session, whose
\* transaction has failed, takes no further statement.
LeaveBroken_rollsBack(w) == Retry(w) /\ UNCHANGED <<usable, runVars>>
LeaveBroken(w) ==
    /\ usable' = [usable EXCEPT ![w] = FALSE]
    /\ Retry(w) /\ UNCHANGED runVars

CommitFails(w) ==
    IF w \in Runs THEN RollBack(w) ELSE LeaveBroken(w)

Conflict(w) ==
    /\ pc[w] = "selected" /\ Conflicts(w) /\ CommitFails(w)
    /\ UNCHANGED <<storeVars, callVars, key, seen>>

\* The connection is lost, or the time limit of a call cuts it, while the commit is
\* under way: it has taken effect or not.
CutCommit(w) ==
    /\ pc[w] = "selected"
    /\ \/ Stored(w) /\ CommitFails(w)
       \/ UNCHANGED storeVars /\ CommitFails(w)
    /\ UNCHANGED <<callVars, key, seen>>

\* The same during the SELECT.  A call that still waited for a connection has a
\* session that is as good as new.
CutSelect(w) ==
    /\ pc[w] = "ready" /\ usable[w]
    /\ \/ /\ w \in Runs /\ pc' = [pc EXCEPT ![w] = "told"]
          /\ told' = [told EXCEPT ![w] = "failed"] /\ UNCHANGED tries
       \/ w \in Calls /\ Retry(w)
    /\ \/ usable' = [usable EXCEPT ![w] = FALSE]
       \/ w \in Calls /\ UNCHANGED usable
    /\ UNCHANGED <<storeVars, callVars, runVars, key, seen>>

\* A retry finds the session broken.
Refused(w) ==
    /\ pc[w] = "ready" /\ ~usable[w] /\ Retry(w)
    /\ UNCHANGED <<storeVars, callVars, runVars, key, seen, usable>>

Init ==
    /\ data = [k \in Keys \cup Minted |-> NoRow] /\ log = <<>> /\ raced = {}
    /\ pc = [w \in Writers |-> "idle"]
    /\ asked = [w \in Writers |-> Blank] /\ fields = [w \in Writers |-> {}]
    /\ key = [w \in Writers |-> Blank] /\ seen = [w \in Writers |-> NoRow]
    /\ usable = [w \in Writers |-> TRUE] /\ tries = [w \in Writers |-> 0]
    /\ told = [w \in Writers |-> "none"]
    /\ unsaved = [w \in Writers |-> FALSE] /\ lost = [w \in Writers |-> FALSE]

Step(w) ==
    \/ Select(w) \/ Commit(w) \/ Conflict(w) \/ CutCommit(w) \/ CutSelect(w) \/ Refused(w)

Next == \E w \in Writers : Begin(w) \/ Step(w)

Spec == Init /\ [][Next]_vars

(***************************************************************************)
(* Properties                                                              *)
(***************************************************************************)

\* Hazard: an attempt that timed out may have taken effect, and the next one makes
\* up a key of its own.  However often a call is tried, it writes one row.
WritesOnce == \A i, j \in 1..Len(log) : log[i].by = log[j].by => i = j

\* The writes to a field of a row.
WritesTo(k, f) == {i \in 1..Len(log) : log[i].key = k /\ f \in fields[log[i].by]}

\* Hazard: rows are read, merged in Python and written back.  A row that nobody wrote
\* between another's SELECT and UPDATE has in every field what was written there
\* last; any row has the whole payload of its last writer.
Merged ==
    \A k \in Keys \cup Minted, f \in Fields :
        LET W == WritesTo(k, f)
            Last(i) == \A j \in 1..Len(log) : log[j].key = k => j <= i
        IN  /\ f \in DOMAIN data[k] => W # {}
            /\ \A i \in W :
                  Last(i) \/ (k \notin raced /\ \A j \in W : j <= i)
                  => f \in DOMAIN data[k] /\ data[k][f] = log[i].by

\* Hazard: one commit carries the write and the steps of the run before it, and a
\* failure of it is told as a result.  A writer that was told ok has written, and its
\* run's steps are saved.
ToldIsStored ==
    \A w \in Writers : told[w] = "ok" =>
        /\ \E i \in 1..Len(log) : log[i] = [by |-> w, key |-> key[w]]
        /\ ~unsaved[w] /\ ~lost[w]

\* What the code says and does not do: "Merged with existing data when the key
\* already exists" (agents/tool_resolver.py).  Then no write of other fields to a
\* row makes a field go back.
NothingOverwritten ==
    \A k \in Keys \cup Minted, f \in Fields :
        \A i \in WritesTo(k, f) :
            (\A j \in WritesTo(k, f) : j <= i)
            => f \in DOMAIN data[k] /\ data[k][f] = log[i].by

\* Step rows "are committed by the caller's existing db.commit()"
\* (services/workflow_service.py).  Then none is rolled back.
StepsSaved == \A w \in Runs : ~lost[w]

\* A call that names no key gets "a readable unique one" (agents/tool_resolver.py).
\* Then no two of them write the same row.
MintedAreOwn ==
    \A i, j \in 1..Len(log) : log[i].key = log[j].key /\ log[i].key \in Minted => i = j
=============================================================================
