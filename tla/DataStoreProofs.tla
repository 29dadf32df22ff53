-------------------------- MODULE DataStoreProofs --------------------------
(***************************************************************************)
(* The safety properties of writes to the data store, for any runs, calls, *)
(* keys, fields and retries.                                               *)
(***************************************************************************)
EXTENDS DataStore, SequenceTheorems, TLAPS

AllKeys == Keys \cup Minted
Entry == [by : Writers, key : AllKeys]

(***************************************************************************)
(* The inductive invariant                                                 *)
(***************************************************************************)

\* A writer between SELECT and commit has a key and a session that works.
SelectedFits ==
    \A w \in Writers : pc[w] = "selected" => usable[w] /\ key[w] \in AllKeys

\* One that has written does not come there again: it has been told, or its session
\* is broken for good.
WrittenIsPast ==
    \A i \in 1..Len(log) :
        /\ pc[log[i].by] # "idle"
        /\ pc[log[i].by] = "told" \/ ~usable[log[i].by]

\* What a writer saw was written.
SeenIsWritten ==
    \A w \in Writers : pc[w] = "selected" =>
        \A f \in DOMAIN seen[w] : WritesTo(key[w], f) # {}

\* A writer is told at the end.
ToldLast == \A w \in Writers : pc[w] # "told" => told[w] = "none" /\ ~lost[w]

Inv ==
    /\ TypeOK /\ SelectedFits /\ WrittenIsPast /\ SeenIsWritten
    /\ ToldLast /\ WritesOnce /\ Merged /\ ToldIsStored

(***************************************************************************)
(* Rows and the log                                                        *)
(***************************************************************************)

LEMMA NoRowFacts == NoRow \in Row /\ DOMAIN NoRow = {}
<1>1. NoRow \in [{} -> Writers] /\ DOMAIN NoRow = {}
  BY DEF NoRow
<1>2. {} \in SUBSET Fields
  OBVIOUS
<1>. QED  BY <1>1, <1>2 DEF Row

\* A merge has the fields of both, those of the second as the second has them.
LEMMA MergeFacts ==
    ASSUME NEW old \in Row, NEW w \in Writers, fields[w] \subseteq Fields
    PROVE  LET m == Merge(old, Payload(w)) IN
           /\ m \in Row /\ DOMAIN m = DOMAIN old \cup fields[w]
           /\ \A f \in fields[w] : m[f] = w
           /\ \A f \in DOMAIN old \ fields[w] : m[f] = old[f]
<1>. DEFINE m == Merge(old, Payload(w))
<1>1. PICK F \in SUBSET Fields : old \in [F -> Writers]
  BY DEF Row
<1>2. DOMAIN Payload(w) = fields[w] /\ \A f \in fields[w] : Payload(w)[f] = w
  BY DEF Payload
<1>3. m = [f \in F \cup fields[w] |-> IF f \in fields[w] THEN Payload(w)[f] ELSE old[f]]
  BY <1>1, <1>2 DEF Merge
<1>. HIDE DEF m
<1>4. m \in [F \cup fields[w] -> Writers]
  BY <1>1, <1>2, <1>3
<1>5. F \cup fields[w] \in SUBSET Fields
  BY <1>1
<1>6. m \in Row
  BY <1>4, <1>5 DEF Row
<1>7. /\ DOMAIN m = DOMAIN old \cup fields[w]
      /\ \A f \in fields[w] : m[f] = w
      /\ \A f \in DOMAIN old \ fields[w] : m[f] = old[f]
  BY <1>1, <1>2, <1>3
<1>. QED  BY <1>6, <1>7 DEF m

LEMMA AppendFacts ==
    ASSUME NEW S, NEW c \in Seq(S), NEW r \in S
    PROVE  /\ Append(c, r) \in Seq(S) /\ Len(c) \in Nat
           /\ Len(Append(c, r)) = Len(c) + 1
           /\ Append(c, r)[Len(c) + 1] = r
           /\ \A i \in 1..Len(c) : Append(c, r)[i] = c[i] /\ c[i] \in S
  OBVIOUS

(***************************************************************************)
(* Types                                                                   *)
(***************************************************************************)

LEMMA RetryTypes ==
    ASSUME TypeOK, NEW w \in Writers, Retry(w)
    PROVE  /\ pc' \in [Writers -> {"idle", "ready", "selected", "told"}]
           /\ tries' \in [Writers -> 0..MaxRetries]
           /\ told' \in [Writers -> {"none", "ok", "failed"}]
<1>1. tries[w] \in 0..MaxRetries /\ (tries[w] < MaxRetries => tries[w] + 1 \in 0..MaxRetries)
  BY DataAssumption DEF TypeOK
<1>. QED  BY <1>1 DEF TypeOK, Retry

LEMMA CommitFailsTypes ==
    ASSUME TypeOK, NEW w \in Writers, CommitFails(w)
    PROVE  /\ pc' \in [Writers -> {"idle", "ready", "selected", "told"}]
           /\ tries' \in [Writers -> 0..MaxRetries]
           /\ told' \in [Writers -> {"none", "ok", "failed"}]
           /\ usable' \in [Writers -> BOOLEAN] /\ unsaved' \in [Writers -> BOOLEAN]
           /\ lost' \in [Writers -> BOOLEAN]
<1>1. CASE w \in Runs
  <2>1. (unsaved[w] /\ Conflicts(w)) \in BOOLEAN
    BY DEF TypeOK, Conflicts
  <2>2. lost' = [lost EXCEPT ![w] = unsaved[w] /\ Conflicts(w)]
    BY <1>1 DEF CommitFails, RollBack
  <2>3. lost' \in [Writers -> BOOLEAN]
    BY <2>1, <2>2 DEF TypeOK
  <2>. QED  BY <1>1, <2>3 DEF TypeOK, CommitFails, RollBack
<1>2. CASE w \notin Runs
  BY <1>2, RetryTypes DEF TypeOK, CommitFails, LeaveBroken, runVars
<1>. QED  BY <1>1, <1>2

LEMMA StoredTypes ==
    ASSUME TypeOK, NEW w \in Writers, key[w] \in AllKeys, Stored(w)
    PROVE  /\ data' \in [AllKeys -> Row] /\ log' \in Seq(Entry) /\ raced' \subseteq AllKeys
<1>1. seen[w] \in Row /\ fields[w] \subseteq Fields /\ data \in [AllKeys -> Row]
      /\ log \in Seq(Entry) /\ raced \subseteq AllKeys
  BY DEF TypeOK, AllKeys, Entry
<1>2. Merge(seen[w], Payload(w)) \in Row
  BY <1>1, MergeFacts
<1>3. data' \in [AllKeys -> Row]
  BY <1>1, <1>2 DEF Stored
<1>4. [by |-> w, key |-> key[w]] \in Entry
  BY DEF Entry
<1>5. log' \in Seq(Entry)
  BY <1>1, <1>4, AppendFacts DEF Stored
<1>. QED  BY <1>1, <1>3, <1>5 DEF Stored

LEMMA TypeInit == Init => TypeOK
<1>1. <<>> \in Seq([by : Writers, key : Keys \cup Minted])
  BY EmptySeq
<1>. QED  BY <1>1, NoRowFacts, DataAssumption DEF Init, TypeOK

LEMMA TypeStep ==
    ASSUME TypeOK, SelectedFits, NEW w \in Writers, Begin(w) \/ Step(w)
    PROVE  TypeOK'
<1>. USE DEF storeVars, callVars, runVars
<1>1. CASE Begin(w)
  <2>1. /\ pc' \in [Writers -> {"idle", "ready", "selected", "told"}]
        /\ asked' \in [Writers -> Keys \cup {Blank}] /\ fields' \in [Writers -> SUBSET Fields]
        /\ unsaved' \in [Writers -> BOOLEAN]
    BY <1>1 DEF TypeOK, Begin
  <2>. QED  BY <1>1, <2>1 DEF TypeOK, Begin
<1>2. CASE Select(w)
  <2>1. PICK k \in KeysFor(w) :
            key' = [key EXCEPT ![w] = k] /\ seen' = [seen EXCEPT ![w] = data[k]]
    BY <1>2 DEF Select
  <2>2. k \in AllKeys
    BY <2>1 DEF TypeOK, KeysFor, AllKeys
  <2>3. key' \in [Writers -> Keys \cup Minted \cup {Blank}] /\ seen' \in [Writers -> Row]
    BY <2>1, <2>2 DEF TypeOK, AllKeys
  <2>. QED  BY <1>2, <2>3 DEF TypeOK, Select
<1>3. CASE Commit(w)
  <2>1. key[w] \in AllKeys
    BY <1>3 DEF SelectedFits, Commit
  <2>. QED  BY <1>3, <2>1, StoredTypes DEF TypeOK, Commit, AllKeys, Entry
<1>4. CASE Conflict(w)
  BY <1>4, CommitFailsTypes DEF TypeOK, Conflict
<1>5. CASE CutCommit(w)
  <2>1. key[w] \in AllKeys /\ CommitFails(w)
    BY <1>5 DEF SelectedFits, CutCommit
  <2>2. CASE Stored(w)
    BY <1>5, <2>1, <2>2, StoredTypes, CommitFailsTypes DEF TypeOK, CutCommit, AllKeys, Entry
  <2>3. CASE UNCHANGED storeVars
    BY <1>5, <2>1, <2>3, CommitFailsTypes DEF TypeOK, CutCommit
  <2>. QED  BY <1>5, <2>2, <2>3 DEF CutCommit
<1>6. CASE CutSelect(w)
  <2>1. /\ pc' \in [Writers -> {"idle", "ready", "selected", "told"}]
        /\ tries' \in [Writers -> 0..MaxRetries]
        /\ told' \in [Writers -> {"none", "ok", "failed"}]
    <3>1. CASE Retry(w)
      BY <3>1, RetryTypes
    <3>2. CASE ~Retry(w)
      BY <1>6, <3>2 DEF TypeOK, CutSelect
    <3>. QED  BY <3>1, <3>2
  <2>2. usable' \in [Writers -> BOOLEAN]
    BY <1>6 DEF TypeOK, CutSelect
  <2>. QED  BY <1>6, <2>1, <2>2 DEF TypeOK, CutSelect
<1>7. CASE Refused(w)
  BY <1>7, RetryTypes DEF TypeOK, Refused
<1>. QED  BY <1>1, <1>2, <1>3, <1>4, <1>5, <1>6, <1>7 DEF Step

(***************************************************************************)
(* Steps that write, and steps that do not                                 *)
(***************************************************************************)

\* The other writers stay where they are.
LEMMA OthersStay ==
    ASSUME TypeOK, NEW w \in Writers, Begin(w) \/ Step(w), NEW v \in Writers, v # w
    PROVE  /\ pc'[v] = pc[v] /\ usable'[v] = usable[v] /\ told'[v] = told[v]
           /\ unsaved'[v] = unsaved[v] /\ lost'[v] = lost[v]
           /\ fields'[v] = fields[v] /\ key'[v] = key[v] /\ seen'[v] = seen[v]
<1>. USE DEF storeVars, callVars, runVars
<1>1. CASE Begin(w) \/ Select(w) \/ Commit(w)
  BY <1>1 DEF TypeOK, Begin, Select, Commit
<1>2. CASE Conflict(w) \/ CutCommit(w)
  BY <1>2 DEF TypeOK, Conflict, CutCommit, CommitFails, RollBack, LeaveBroken, Retry
<1>3. CASE CutSelect(w) \/ Refused(w)
  BY <1>3 DEF TypeOK, CutSelect, Refused, Retry
<1>. QED  BY <1>1, <1>2, <1>3 DEF Step

\* The writer itself: where it comes from and gets to.
Moves(w) ==
    /\ pc[w] # "told" /\ pc'[w] # "idle" /\ (~usable[w] => ~usable'[w])
    /\ pc[w] # "idle" => fields'[w] = fields[w]
    /\ pc'[w] = "selected" =>
          /\ pc[w] = "ready" /\ UNCHANGED storeVars /\ usable'[w]
          /\ key'[w] \in AllKeys /\ seen'[w] = data[key'[w]]
    /\ ~UNCHANGED storeVars =>
          /\ pc[w] = "selected" /\ Stored(w) /\ key'[w] = key[w]
          /\ pc'[w] = "told" \/ ~usable'[w]
    /\ told'[w] = "ok" =>
          /\ Stored(w) /\ key'[w] = key[w] /\ ~unsaved'[w] /\ lost'[w] = lost[w]
    /\ pc'[w] # "told" => told'[w] = told[w] /\ lost'[w] = lost[w]

LEMMA WriterMoves ==
    ASSUME TypeOK, SelectedFits, ToldLast, NEW w \in Writers, Begin(w) \/ Step(w)
    PROVE  Moves(w)
<1>. USE DEF callVars, runVars
<1>0. w \notin Runs => w \in Calls
  BY DEF Writers
<1>1. CASE Begin(w)
  BY <1>1 DEF TypeOK, ToldLast, Begin, Moves
<1>2. CASE Select(w)
  <2>1. PICK k \in KeysFor(w) :
            key' = [key EXCEPT ![w] = k] /\ seen' = [seen EXCEPT ![w] = data[k]]
    BY <1>2 DEF Select
  <2>2. k \in AllKeys
    BY <2>1 DEF TypeOK, KeysFor, AllKeys
  <2>3. key'[w] = k /\ seen'[w] = data[k]
    BY <2>1 DEF TypeOK
  <2>. QED  BY <1>2, <2>2, <2>3 DEF TypeOK, ToldLast, Select, Moves
<1>3. CASE Commit(w)
  BY <1>3 DEF TypeOK, SelectedFits, Commit, Moves
<1>4. CASE Conflict(w) \/ CutCommit(w)
  <2>1. /\ pc[w] = "selected" /\ CommitFails(w) /\ UNCHANGED <<callVars, key, seen>>
        /\ Stored(w) \/ UNCHANGED storeVars
    BY <1>4 DEF Conflict, CutCommit
  <2>2. usable[w] /\ told[w] = "none"
    BY <2>1 DEF SelectedFits, ToldLast
  <2>3. /\ told'[w] # "ok"
        /\ \/ pc'[w] = "told"
           \/ pc'[w] = "ready" /\ ~usable'[w] /\ told'[w] = told[w] /\ lost'[w] = lost[w]
    BY <2>1, <2>2 DEF TypeOK, CommitFails, RollBack, LeaveBroken, Retry
  <2>. QED  BY <2>1, <2>2, <2>3 DEF Moves
<1>5. CASE CutSelect(w) \/ Refused(w)
  <2>1. /\ pc[w] = "ready" /\ UNCHANGED <<storeVars, callVars, runVars, key, seen>>
        /\ ~usable[w] => ~usable'[w]
    BY <1>5 DEF TypeOK, CutSelect, Refused
  <2>2. told[w] = "none"
    BY <2>1 DEF ToldLast
  <2>3. /\ told'[w] # "ok"
        /\ \/ pc'[w] = "told"
           \/ pc'[w] = "ready" /\ told'[w] = told[w]
    BY <1>5, <2>1, <2>2 DEF TypeOK, CutSelect, Refused, Retry
  <2>. QED  BY <2>1, <2>2, <2>3 DEF Moves
<1>. QED  BY <1>1, <1>2, <1>3, <1>4, <1>5 DEF Step

(***************************************************************************)
(* The invariant                                                           *)
(***************************************************************************)

LEMMA InvInit == Init => Inv
<1> SUFFICES ASSUME Init PROVE Inv
  OBVIOUS
<1>1. TypeOK /\ Len(log) = 0 /\ \A w \in Writers : pc[w] = "idle" /\ told[w] = "none" /\ ~lost[w]
  BY TypeInit DEF Init
<1>2. Merged
  BY <1>1, NoRowFacts DEF Init, Merged, WritesTo
<1>. QED  BY <1>1, <1>2 DEF Inv, SelectedFits, WrittenIsPast, SeenIsWritten, ToldLast, WritesOnce, ToldIsStored

\* What a writer has put into the log, and which fields, does not change any more.
LEMMA FieldsKept ==
    ASSUME Inv, NEW w \in Writers, Begin(w) \/ Step(w), NEW i \in 1..Len(log)
    PROVE  /\ log[i] \in Entry /\ log[i].by \in Writers
           /\ fields'[log[i].by] = fields[log[i].by]
<1>0. log \in Seq(Entry)
  BY DEF Inv, TypeOK, Entry, AllKeys
<1>1. log[i] \in Entry /\ log[i].by \in Writers
  <2>1. log[i] \in Entry
    BY <1>0, ElementOfSeq
  <2>. QED  BY <2>1 DEF Entry
<1>2. CASE log[i].by = w
  BY <1>1, <1>2, WriterMoves DEF Inv, WrittenIsPast, Moves
<1>3. CASE log[i].by # w
  BY <1>1, <1>3, OthersStay DEF Inv
<1>. QED  BY <1>1, <1>2, <1>3

LEMMA PlacesInv ==
    ASSUME Inv, NEW w \in Writers, Begin(w) \/ Step(w), TypeOK'
    PROVE  SelectedFits' /\ ToldLast'
<1>1. Moves(w) /\ \A v \in Writers : v # w =>
          /\ pc'[v] = pc[v] /\ usable'[v] = usable[v] /\ told'[v] = told[v]
          /\ lost'[v] = lost[v] /\ key'[v] = key[v]
  BY WriterMoves, OthersStay DEF Inv
<1>. QED  BY <1>1 DEF Inv, SelectedFits, ToldLast, Moves

\* A step that writes nothing.
LEMMA ReadingInv ==
    ASSUME Inv, NEW w \in Writers, Begin(w) \/ Step(w), UNCHANGED storeVars
    PROVE  WrittenIsPast' /\ SeenIsWritten' /\ WritesOnce' /\ Merged'
<1>. DEFINE After(k, f) ==
            {i \in 1..Len(log') : log'[i].key = k /\ f \in fields'[log'[i].by]}
<1>1. Moves(w) /\ \A v \in Writers : v # w =>
          /\ pc'[v] = pc[v] /\ usable'[v] = usable[v] /\ key'[v] = key[v] /\ seen'[v] = seen[v]
  BY WriterMoves, OthersStay DEF Inv
<1>2. data' = data /\ log' = log /\ raced' = raced
  BY DEF storeVars
<1>3. \A k \in AllKeys, f \in Fields : After(k, f) = WritesTo(k, f)
  BY <1>2, FieldsKept DEF WritesTo
<1>4. WrittenIsPast'
  <2> SUFFICES ASSUME NEW i \in 1..Len(log)
               PROVE  pc'[log[i].by] # "idle" /\ (pc'[log[i].by] = "told" \/ ~usable'[log[i].by])
    BY <1>2 DEF WrittenIsPast
  <2>1. /\ log[i].by \in Writers /\ pc[log[i].by] # "idle"
        /\ pc[log[i].by] = "told" \/ ~usable[log[i].by]
    BY FieldsKept DEF Inv, WrittenIsPast
  <2>. QED  BY <1>1, <2>1 DEF Moves
<1>5. SeenIsWritten'
  <2> SUFFICES ASSUME NEW v \in Writers, pc'[v] = "selected", NEW f \in DOMAIN seen'[v]
               PROVE  After(key'[v], f) # {}
    BY DEF SeenIsWritten, WritesTo
  <2>1. CASE v = w
    <3>1. key'[w] \in AllKeys /\ seen'[w] = data[key'[w]]
      BY <1>1, <2>1 DEF Moves
    <3>2. data[key'[w]] \in Row /\ f \in DOMAIN data[key'[w]]
      BY <2>1, <3>1 DEF Inv, TypeOK, AllKeys
    <3>3. f \in Fields
      BY <3>2 DEF Row
    <3>. QED  BY <1>3, <2>1, <3>1, <3>2, <3>3 DEF Inv, Merged, AllKeys
  <2>2. CASE v # w
    <3>1. pc[v] = "selected" /\ key'[v] = key[v] /\ f \in DOMAIN seen[v]
      BY <1>1, <2>2
    <3>2. key[v] \in AllKeys /\ seen[v] \in Row
      BY <3>1 DEF Inv, TypeOK, SelectedFits
    <3>3. f \in Fields
      BY <3>1, <3>2 DEF Row
    <3>. QED  BY <1>3, <3>1, <3>2, <3>3 DEF Inv, SeenIsWritten
  <2>. QED  BY <2>1, <2>2
<1>6. WritesOnce'
  BY <1>2 DEF Inv, WritesOnce
<1>7. Merged'
  <2> SUFFICES ASSUME NEW k \in AllKeys, NEW f \in Fields
               PROVE  /\ f \in DOMAIN data[k] => After(k, f) # {}
                      /\ \A i \in After(k, f) :
                            (\/ \A j \in 1..Len(log) : log[j].key = k => j <= i
                             \/ k \notin raced /\ \A j \in After(k, f) : j <= i)
                            => f \in DOMAIN data[k] /\ data[k][f] = log[i].by
    BY <1>2 DEF Merged, AllKeys, WritesTo
  <2>. QED  BY <1>3 DEF Inv, Merged, AllKeys
<1>. QED  BY <1>4, <1>5, <1>6, <1>7

\* A step that writes: it adds one entry to the log.
LEMMA WritingInv ==
    ASSUME Inv, NEW w \in Writers, Begin(w) \/ Step(w), TypeOK', ~UNCHANGED storeVars
    PROVE  WrittenIsPast' /\ SeenIsWritten' /\ WritesOnce' /\ Merged'
<1>. DEFINE n == Len(log) + 1
            k0 == key[w]
            row == Merge(seen[w], Payload(w))
            After(k, f) ==
                {i \in 1..Len(log') : log'[i].key = k /\ f \in fields'[log'[i].by]}
<1>1. /\ Moves(w) /\ pc[w] = "selected" /\ Stored(w) /\ key'[w] = key[w]
      /\ pc'[w] # "idle" /\ fields'[w] = fields[w] /\ (pc'[w] = "told" \/ ~usable'[w])
  BY WriterMoves DEF Inv, Moves
<1>2. \A v \in Writers : v # w =>
          /\ pc'[v] = pc[v] /\ usable'[v] = usable[v]
          /\ key'[v] = key[v] /\ seen'[v] = seen[v] /\ fields'[v] = fields[v]
  BY OthersStay DEF Inv
<1>3. k0 \in AllKeys /\ usable[w] /\ [by |-> w, key |-> k0] \in Entry
  BY <1>1 DEF Inv, SelectedFits, Entry
<1>0. log \in Seq(Entry)
  BY DEF Inv, TypeOK, Entry, AllKeys
<1>4. /\ Len(log') = n /\ n \in Nat /\ log'[n] = [by |-> w, key |-> k0]
      /\ \A i \in 1..Len(log) : log'[i] = log[i] /\ log[i] \in Entry
  BY <1>0, <1>1, <1>3, AppendFacts DEF Stored
<1>5. n \in 1..n /\ log'[n].by = w /\ log'[n].key = k0
  BY <1>0, <1>4
<1>6. \A i \in 1..Len(log) : log[i].by # w /\ log[i].by \in Writers
  BY <1>1, <1>3, <1>4 DEF Inv, WrittenIsPast, Entry
<1>7. /\ row \in Row /\ DOMAIN row = DOMAIN seen[w] \cup fields[w] /\ fields[w] \subseteq Fields
      /\ \A f \in fields[w] : row[f] = w
      /\ \A f \in DOMAIN seen[w] \ fields[w] : row[f] = seen[w][f]
  BY MergeFacts DEF Inv, TypeOK
<1>8. /\ data'[k0] = row /\ \A k \in AllKeys \ {k0} : data'[k] = data[k]
      /\ raced \subseteq raced' /\ (k0 \notin raced' => data[k0] = seen[w])
      /\ \A k \in AllKeys \ {k0} : k \in raced' <=> k \in raced
  BY <1>1, <1>3 DEF Inv, TypeOK, Stored, AllKeys
<1>. HIDE DEF row
<1>9. \A k \in AllKeys, f \in Fields :
          After(k, f) = IF k = k0 /\ f \in fields[w] THEN WritesTo(k, f) \cup {n}
                            ELSE WritesTo(k, f)
  <2> SUFFICES ASSUME NEW k \in AllKeys, NEW f \in Fields
               PROVE  After(k, f) = IF k = k0 /\ f \in fields[w]
                                        THEN WritesTo(k, f) \cup {n} ELSE WritesTo(k, f)
    OBVIOUS
  <2>1. \A i \in 1..Len(log) : i \in After(k, f) <=> i \in WritesTo(k, f)
    BY <1>2, <1>4, <1>6 DEF WritesTo
  <2>2. n \in After(k, f) <=> (k = k0 /\ f \in fields[w])
    <3>1. \A m \in 1..Len(log') :
              log'[m].by = w /\ log'[m].key = k0
              => (m \in After(k, f) <=> (k = k0 /\ f \in fields[w]))
      BY <1>1
    <3>. QED  BY <1>4, <1>5, <3>1
  <2>3. After(k, f) \subseteq 1..n /\ WritesTo(k, f) \subseteq 1..Len(log)
    BY <1>4 DEF WritesTo
  <2>4. Len(log) \in Nat /\ 1..n = 1..Len(log) \cup {n}
    BY <1>4 DEF Inv, TypeOK
  <2>. QED  BY <2>1, <2>2, <2>3, <2>4
<1>10. WrittenIsPast'
  <2> SUFFICES ASSUME NEW i \in 1..n
               PROVE  pc'[log'[i].by] # "idle" /\ (pc'[log'[i].by] = "told" \/ ~usable'[log'[i].by])
    BY <1>4 DEF WrittenIsPast
  <2>1. CASE i = n
    <3>1. log'[i].by = w
      BY <1>5, <2>1
    <3>. QED  BY <1>1, <3>1
  <2>2. CASE i # n
    <3>1. i \in 1..Len(log)
      BY <1>4, <2>2 DEF Inv, TypeOK
    <3>. QED  BY <1>2, <1>4, <1>6, <3>1 DEF Inv, WrittenIsPast
  <2>. QED  BY <2>1, <2>2
<1>11. SeenIsWritten'
  <2> SUFFICES ASSUME NEW v \in Writers, pc'[v] = "selected", NEW f \in DOMAIN seen'[v]
               PROVE  After(key'[v], f) # {}
    BY DEF SeenIsWritten, WritesTo
  <2>1. v # w
    BY <1>1 DEF Moves
  <2>2. pc[v] = "selected" /\ key'[v] = key[v] /\ f \in DOMAIN seen[v]
    BY <1>2, <2>1
  <2>3. key[v] \in AllKeys /\ seen[v] \in Row
    BY <2>2 DEF Inv, TypeOK, SelectedFits
  <2>4. f \in Fields
    BY <2>2, <2>3 DEF Row
  <2>. QED  BY <1>9, <2>2, <2>3, <2>4 DEF Inv, SeenIsWritten
<1>12. WritesOnce'
  <2> SUFFICES ASSUME NEW i \in 1..n, NEW j \in 1..n, log'[i].by = log'[j].by  PROVE i = j
    BY <1>4 DEF WritesOnce
  <2>1. \A m \in 1..n : m = n \/ m \in 1..Len(log)
    BY <1>4 DEF Inv, TypeOK
  <2>. QED  BY <1>4, <1>6, <2>1 DEF Inv, WritesOnce
<1>13. Merged'
  <2> SUFFICES ASSUME NEW k \in AllKeys, NEW f \in Fields
               PROVE  /\ f \in DOMAIN data'[k] => After(k, f) # {}
                      /\ \A i \in After(k, f) :
                            (\/ \A j \in 1..n : log'[j].key = k => j <= i
                             \/ k \notin raced' /\ \A j \in After(k, f) : j <= i)
                            => f \in DOMAIN data'[k] /\ data'[k][f] = log'[i].by
    <3>. HIDE DEF After
    <3>1. \A k, f : WritesTo(k, f)' = After(k, f)
      BY <1>4 DEF WritesTo, After
    <3>2. Len(log') = n
      BY <1>4
    <3>3. ASSUME NEW k \in AllKeys, NEW f \in Fields,
                 /\ f \in DOMAIN data'[k] => After(k, f) # {}
                 /\ \A i \in After(k, f) :
                       (\/ \A j \in 1..n : log'[j].key = k => j <= i
                        \/ k \notin raced' /\ \A j \in After(k, f) : j <= i)
                       => f \in DOMAIN data'[k] /\ data'[k][f] = log'[i].by
          PROVE  LET W == WritesTo(k, f)
                     Last(i) == \A j \in 1..Len(log) : log[j].key = k => j <= i
                 IN  (/\ f \in DOMAIN data[k] => W # {}
                      /\ \A i \in W :
                            Last(i) \/ (k \notin raced /\ \A j \in W : j <= i)
                            => f \in DOMAIN data[k] /\ data[k][f] = log[i].by)'
      BY <3>1, <3>2, <3>3
    <3>. QED  BY <3>3 DEF Merged, AllKeys
  <2>0. /\ f \in DOMAIN data[k] => WritesTo(k, f) # {}
        /\ \A i \in WritesTo(k, f) :
              (\/ \A j \in 1..Len(log) : log[j].key = k => j <= i
               \/ k \notin raced /\ \A j \in WritesTo(k, f) : j <= i)
              => f \in DOMAIN data[k] /\ data[k][f] = log[i].by
    <3>1. Merged /\ k \in Keys \cup Minted
      BY DEF Inv, AllKeys
    <3>. QED  BY <3>1 DEF Merged
  <2>1. f \in DOMAIN data'[k] => After(k, f) # {}
    <3>1. CASE k # k0
      BY <1>8, <1>9, <2>0, <3>1
    <3>2. CASE k = k0
      <4>1. After(k, f) = IF f \in fields[w] THEN WritesTo(k, f) \cup {n} ELSE WritesTo(k, f)
        BY <1>9, <3>2
      <4>2. f \in DOMAIN seen[w] => WritesTo(k, f) # {}
        BY <1>1, <3>2 DEF Inv, SeenIsWritten
      <4>3. f \in DOMAIN data'[k] => f \in DOMAIN seen[w] \/ f \in fields[w]
        BY <1>7, <1>8, <3>2
      <4>. HIDE DEF After, n
      <4>. QED  BY <4>1, <4>2, <4>3
    <3>. QED  BY <3>1, <3>2
  <2>2. ASSUME NEW i \in After(k, f),
               \/ \A j \in 1..n : log'[j].key = k => j <= i
               \/ k \notin raced' /\ \A j \in After(k, f) : j <= i
        PROVE  f \in DOMAIN data'[k] /\ data'[k][f] = log'[i].by
    <3>1. WritesTo(k, f) \subseteq 1..Len(log) /\ Len(log) \in Nat /\ n \in 1..n
      BY <1>4 DEF Inv, TypeOK, WritesTo
    <3>2. CASE k # k0
      <4>1. i \in WritesTo(k, f) /\ log'[i] = log[i] /\ After(k, f) = WritesTo(k, f)
        BY <1>4, <1>9, <3>1, <3>2
      <4>2. \A j \in 1..Len(log) : j \in 1..n /\ log'[j] = log[j]
        BY <1>4, <3>1
      <4>. QED  BY <1>8, <2>0, <2>2, <3>2, <4>1, <4>2
    <3>3. CASE k = k0 /\ f \in fields[w]
      <4>1. n \in After(k, f) /\ log'[n].key = k
        BY <1>4, <1>9, <3>3
      <4>2. i = n
        BY <1>9, <2>2, <3>1, <3>3, <4>1
      <4>. QED  BY <1>4, <1>7, <1>8, <3>3, <4>2
    <3>4. CASE k = k0 /\ f \notin fields[w]
      <4>1. i \in WritesTo(k, f) /\ After(k, f) = WritesTo(k, f) /\ log'[i] = log[i]
        BY <1>4, <1>9, <3>1, <3>4
      <4>2. ~(n <= i) /\ log'[n].key = k
        BY <1>4, <3>1, <3>4, <4>1
      <4>3. k \notin raced' /\ \A j \in WritesTo(k, f) : j <= i
        BY <2>2, <3>1, <4>1, <4>2
      <4>4. data[k] = seen[w] /\ k \notin raced
        BY <1>8, <3>4, <4>3
      <4>5. f \in DOMAIN data[k] /\ data[k][f] = log[i].by
        BY <2>0, <4>1, <4>3, <4>4
      <4>. QED  BY <1>7, <1>8, <3>4, <4>1, <4>4, <4>5
    <3>. QED  BY <3>2, <3>3, <3>4
  <2>. QED  BY <2>1, <2>2
<1>. QED  BY <1>10, <1>11, <1>12, <1>13

LEMMA ToldInv ==
    ASSUME Inv, NEW w \in Writers, Begin(w) \/ Step(w), TypeOK'
    PROVE  ToldIsStored'
<1> SUFFICES ASSUME NEW v \in Writers, told'[v] = "ok"
             PROVE  /\ \E i \in 1..Len(log') : log'[i] = [by |-> v, key |-> key'[v]]
                    /\ ~unsaved'[v] /\ ~lost'[v]
  BY DEF ToldIsStored
<1>1. Moves(w) /\ log \in Seq(Entry)
  BY WriterMoves DEF Inv, TypeOK, Entry, AllKeys
<1>2. CASE v = w
  <2>1. Stored(w) /\ key'[w] = key[w] /\ ~unsaved'[w] /\ lost'[w] = lost[w] /\ ~lost[w]
    BY <1>1, <1>2 DEF Inv, ToldLast, Moves
  <2>2. pc[w] = "selected"
    <3>1. log' # log
      <4>1. log' = Append(log, [by |-> w, key |-> key[w]]) /\ Len(log) \in Nat
        BY <1>1, <2>1 DEF Stored
      <4>2. Len(log') = Len(log) + 1
        BY <1>1, <4>1
      <4>. QED  BY <4>1, <4>2
    <3>. QED  BY <1>1, <3>1 DEF Moves, storeVars
  <2>3. [by |-> w, key |-> key[w]] \in Entry
    BY <2>2 DEF Inv, SelectedFits, Entry
  <2>4. Len(log') = Len(log) + 1 /\ Len(log) \in Nat
        /\ log'[Len(log) + 1] = [by |-> w, key |-> key[w]]
    BY <1>1, <2>1, <2>3, AppendFacts DEF Stored
  <2>. QED  BY <1>2, <2>1, <2>4
<1>3. CASE v # w
  <2>1. /\ told[v] = "ok" /\ key'[v] = key[v] /\ unsaved'[v] = unsaved[v] /\ lost'[v] = lost[v]
    BY <1>3, OthersStay DEF Inv
  <2>2. PICK i \in 1..Len(log) : log[i] = [by |-> v, key |-> key[v]]
    BY <2>1 DEF Inv, ToldIsStored
  <2>3. i \in 1..Len(log') /\ log'[i] = log[i]
    <3>1. CASE log' = log
      BY <3>1
    <3>2. CASE log' # log
      <4>1. pc[w] = "selected" /\ Stored(w)
        BY <1>1, <3>2 DEF Moves, storeVars
      <4>2. [by |-> w, key |-> key[w]] \in Entry
        BY <4>1 DEF Inv, SelectedFits, Entry
      <4>3. Len(log') = Len(log) + 1 /\ Len(log) \in Nat
            /\ \A j \in 1..Len(log) : log'[j] = log[j]
        BY <1>1, <4>1, <4>2, AppendFacts DEF Stored
      <4>. QED  BY <4>3
    <3>. QED  BY <3>1, <3>2
  <2>. QED  BY <2>1, <2>2, <2>3 DEF Inv, ToldIsStored
<1>. QED  BY <1>2, <1>3

LEMMA InvStep == Inv /\ [Next]_vars => Inv'
<1> SUFFICES ASSUME Inv, [Next]_vars PROVE Inv'
  OBVIOUS
<1>1. ASSUME NEW w \in Writers, Begin(w) \/ Step(w)  PROVE Inv'
  <2>1. TypeOK'
    BY <1>1, TypeStep DEF Inv
  <2>2. WrittenIsPast' /\ SeenIsWritten' /\ WritesOnce' /\ Merged'
    BY <1>1, <2>1, ReadingInv, WritingInv
  <2>. QED  BY <1>1, <2>1, <2>2, PlacesInv, ToldInv DEF Inv
<1>2. CASE UNCHANGED vars
  BY <1>2 DEF vars, storeVars, callVars, runVars, Inv, TypeOK, SelectedFits, WrittenIsPast,
              SeenIsWritten, ToldLast, WritesOnce, Merged, ToldIsStored, WritesTo
<1>. QED  BY <1>1, <1>2 DEF Next

(***************************************************************************)
(* The theorems                                                            *)
(***************************************************************************)

\* The variables keep their types.
THEOREM TypeCorrect == Spec => []TypeOK
<1>1. Inv => TypeOK
  BY DEF Inv
<1>. QED  BY <1>1, InvInit, InvStep, PTL DEF Spec

\* The inductive invariant of rows, writers and their sessions.
THEOREM InvHolds == Spec => []Inv
<1>. QED  BY InvInit, InvStep, PTL DEF Spec

\* However often a call is tried, with whatever key, it writes one row
\* (agents/tool_resolver.py).
THEOREM WritesOnceHolds == Spec => []WritesOnce
<1>1. Inv => WritesOnce
  BY DEF Inv
<1>. QED  BY <1>1, InvHolds, PTL

\* A row that nobody raced for has the last value of every field, any row the whole
\* payload of its last writer (_data_store_op, agents/extended_executor.py).
THEOREM MergedHolds == Spec => []Merged
<1>1. Inv => Merged
  BY DEF Inv
<1>. QED  BY <1>1, InvHolds, PTL

\* Who was told ok has written, and its run's steps are saved.
THEOREM ToldIsStoredHolds == Spec => []ToldIsStored
<1>1. Inv => ToldIsStored
  BY DEF Inv
<1>. QED  BY <1>1, InvHolds, PTL
=============================================================================
