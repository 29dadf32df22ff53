-------------------------- MODULE HumanGateProofs --------------------------
(***************************************************************************)
(* The safety properties of executions with human checkpoints and of the   *)
(* event stream that carries them, for any capacity of the queue, any      *)
(* workflow and any number of decisions.                                   *)
(***************************************************************************)
EXTENDS HumanGate, SequenceTheorems, TLAPS

(***************************************************************************)
(* The stream: what it does, and what the queue holds                      *)
(***************************************************************************)

StreamStep ==
    \/ Produce \/ ProducerEnds \/ Put \/ PutEnd \/ Pulse \/ Get \/ Close
    \/ Leave \/ Abandon \/ Drain \/ Drained \/ CancelPump \/ UNCHANGED streamVars

Item == Nat \cup {End}

\* An item above Beat is an event.  The queue holds the events after seen up to
\* last, in order, and no event behind the sentinel.
Holds(last) ==
    /\ \A i, j \in 1..Len(queue) : i < j /\ queue[i] > Beat /\ queue[j] > Beat => queue[i] < queue[j]
    /\ \A i \in 1..Len(queue) : queue[i] > Beat => queue[i] \in (seen + 1)..last
    /\ \A n \in (seen + 1)..last : \E i \in 1..Len(queue) : queue[i] = n
    /\ seen <= last

Attended == reader \in {"reading", "ending", "closed"}

\* The last event is in the queue, in the hands of the pump, or lost with a pump
\* that was canceled after the client left; or the process died.
QueueFits ==
    \/ pump # "putting" /\ Holds(sent)
    \/ pump = "putting" /\ sent > 0 /\ Holds(sent - 1)
    \/ pump \in {"closing", "done"} /\ ~Attended /\ Holds(sent - 1)
    \/ pump = "done" /\ reader = "gone" /\ ~pulse /\ queue = <<>> /\ seen <= sent

\* Behind the sentinel there are heartbeats only, and the pump is done.
EndIsLast ==
    \A i \in 1..Len(queue) : queue[i] = End =>
        pump = "done" /\ \A j \in 1..Len(queue) : i < j => queue[j] <= Beat

\* After the sentinel nothing is left but heartbeats.
NothingLeft ==
    reader \in {"ending", "closed"} =>
        pump = "done" /\ \A i \in 1..Len(queue) : queue[i] <= Beat

StreamInv == StreamTypeOK /\ QueueFits /\ EndIsLast /\ NothingLeft

LEMMA StreamTypeInit == StreamInit => StreamTypeOK
  BY StreamAssumption, EmptySeq DEF StreamInit, StreamTypeOK, Item

LEMMA AppendItem ==
    ASSUME NEW q \in Seq(Item), NEW x \in Item
    PROVE  /\ Append(q, x) \in Seq(Item) /\ Len(Append(q, x)) = Len(q) + 1 /\ Len(q) \in Nat
           /\ Append(q, x)[Len(q) + 1] = x
           /\ \A i \in 1..Len(q) : Append(q, x)[i] = q[i] /\ q[i] \in Item
  OBVIOUS

LEMMA TailItems ==
    ASSUME NEW q \in Seq(Item), q # <<>>
    PROVE  /\ Tail(q) \in Seq(Item) /\ Len(Tail(q)) = Len(q) - 1 /\ Len(q) \in Nat \ {0}
           /\ Head(q) = q[1] /\ q[1] \in Item
           /\ \A i \in 1..(Len(q) - 1) : Tail(q)[i] = q[i + 1]
           /\ \A i \in 1..Len(q) : q[i] \in Item
  BY EmptySeq

LEMMA NothingBetween == ASSUME NEW n \in Nat  PROVE n <= n /\ (n + 1)..n = {}
  OBVIOUS

LEMMA StreamTypeStep == ASSUME StreamTypeOK, StreamStep  PROVE StreamTypeOK'
<1>. USE StreamAssumption DEF StreamTypeOK
<1>0. queue \in Seq(Item) /\ Len(queue) \in Nat
  BY DEF Item
<1>1. CASE Put
  <2>1. queue' \in Seq(Item) /\ Len(queue') = Len(queue) + 1
    BY <1>0, <1>1, AppendItem DEF Put, Item
  <2>. QED  BY <1>0, <1>1, <2>1 DEF Put, HasRoom, Item
<1>2. CASE PutEnd
  <2>1. queue' \in Seq(Item) /\ Len(queue') = Len(queue) + 1
    BY <1>0, <1>2, AppendItem DEF PutEnd, Item
  <2>. QED  BY <1>0, <1>2, <2>1 DEF PutEnd, HasRoom, Item
<1>3. CASE Pulse
  <2>1. queue' \in Seq(Item) /\ Len(queue') = Len(queue) + 1
    BY <1>0, <1>3, AppendItem DEF Pulse, Item, Beat
  <2>. QED  BY <1>0, <1>3, <2>1 DEF Pulse, HasRoom, Item
<1>4. CASE Get
  <2>1. queue' \in Seq(Item) /\ Len(queue') = Len(queue) - 1
    BY <1>0, <1>4, TailItems DEF Get
  <2>2. seen' \in Nat /\ reader' \in {"reading", "ending"}
    BY <1>4 DEF Get
  <2>. QED  BY <1>0, <1>4, <2>1, <2>2 DEF Get, Item
<1>5. CASE Produce \/ ProducerEnds \/ Close \/ Leave
  <2>1. sent' \in Nat /\ UNCHANGED <<queue, seen>>
    BY <1>5 DEF Produce, ProducerEnds, Close, Leave
  <2>2. pulse' \in BOOLEAN
    BY <1>5 DEF Produce, ProducerEnds, Close, Leave
  <2>. QED  BY <1>5, <2>1, <2>2 DEF Produce, ProducerEnds, Close, Leave
<1>6. CASE Abandon \/ Drain \/ Drained \/ UNCHANGED streamVars
  BY <1>6 DEF Abandon, Drain, Drained, streamVars
<1>7. CASE CancelPump
  BY <1>7 DEF CancelPump, PumpCanceled
<1>. QED  BY <1>1, <1>2, <1>3, <1>4, <1>5, <1>6, <1>7 DEF StreamStep

LEMMA StreamInvInit == StreamInit => StreamInv
  BY StreamTypeInit DEF StreamInit, StreamInv, QueueFits, Holds, EndIsLast, NothingLeft

\* An event that is put is the next one.
LEMMA PutInv == ASSUME StreamInv, StreamTypeOK', Put  PROVE StreamInv'
<1>. USE DEF StreamInv, StreamTypeOK
<1>1. /\ Len(queue') = Len(queue) + 1 /\ Len(queue) \in Nat /\ queue'[Len(queue) + 1] = sent
      /\ \A i \in 1..Len(queue) : queue'[i] = queue[i] /\ queue[i] \in Item
  BY AppendItem DEF Put, Item
<1>2. sent > 0 /\ Holds(sent - 1) /\ sent \in Nat /\ seen \in Nat
  BY DEF QueueFits, Put
<1>3. Holds(sent)'
  <2>1. ASSUME NEW i \in 1..Len(queue'), NEW j \in 1..Len(queue'), i < j,
               queue'[i] > Beat, queue'[j] > Beat
        PROVE  queue'[i] < queue'[j]
    <3>1. i \in 1..Len(queue)
      BY <1>1, <2>1
    <3>2. CASE j \in 1..Len(queue)
      <4>1. queue'[i] = queue[i] /\ queue'[j] = queue[j]
        BY <1>1, <3>1, <3>2
      <4>. QED  BY <1>2, <2>1, <3>1, <3>2, <4>1 DEF Holds
    <3>3. CASE j = Len(queue) + 1
      <4>1. queue[i] \in (seen + 1)..(sent - 1)
        BY <1>1, <1>2, <2>1, <3>1 DEF Holds
      <4>2. queue'[i] = queue[i] /\ queue'[j] = sent
        BY <1>1, <3>1, <3>3
      <4>. QED  BY <1>2, <4>1, <4>2
    <3>4. j \in 1..Len(queue) \/ j = Len(queue) + 1
      BY <1>1
    <3>. QED  BY <3>2, <3>3, <3>4
  <2>2. ASSUME NEW i \in 1..Len(queue'), queue'[i] > Beat  PROVE queue'[i] \in (seen + 1)..sent
    <3>1. i \in 1..Len(queue) \/ i = Len(queue) + 1
      BY <1>1
    <3>. QED  BY <1>1, <1>2, <2>2, <3>1 DEF Holds
  <2>3. ASSUME NEW n \in (seen + 1)..sent  PROVE \E i \in 1..Len(queue') : queue'[i] = n
    <3>1. CASE n = sent
      BY <1>1, <3>1
    <3>2. CASE n \in (seen + 1)..(sent - 1)
      BY <1>1, <1>2, <3>2 DEF Holds
    <3>. QED  BY <1>2, <3>1, <3>2
  <2>4. seen' = seen /\ sent' = sent /\ seen <= sent
    BY <1>2 DEF Put, Holds
  <2>. QED  BY <2>1, <2>2, <2>3, <2>4 DEF Holds
<1>4. QueueFits'
  BY <1>3 DEF QueueFits, Put
<1>5. \A i \in 1..Len(queue) : queue[i] # End
  BY DEF EndIsLast, Put
<1>6. EndIsLast' /\ NothingLeft'
  BY <1>1, <1>2, <1>5 DEF EndIsLast, NothingLeft, Put, End
<1>. QED  BY <1>4, <1>6

\* The sentinel and heartbeats are no events.
LEMMA PutOtherInv == ASSUME StreamInv, StreamTypeOK', PutEnd \/ Pulse  PROVE StreamInv'
<1>. USE DEF StreamInv, StreamTypeOK
<1>. DEFINE n == Len(queue)
<1>1. /\ Len(queue') = n + 1 /\ n \in Nat /\ queue'[n + 1] \in {Beat, End}
      /\ \A i \in 1..n : queue'[i] = queue[i] /\ queue[i] \in Item
  <2>1. queue \in Seq(Item) /\ Beat \in Item /\ End \in Item
    BY DEF Item, Beat
  <2>2. CASE PutEnd
    BY <2>1, <2>2, AppendItem DEF PutEnd
  <2>3. CASE Pulse
    BY <2>1, <2>3, AppendItem DEF Pulse
  <2>. QED  BY <2>2, <2>3
<1>2. /\ sent' = sent /\ seen' = seen /\ reader' = reader /\ pulse' = pulse
      /\ pump' = pump \/ (pump = "closing" /\ pump' = "done")
  BY DEF PutEnd, Pulse
<1>. HIDE DEF n
<1>3. ASSUME NEW last \in Int, Holds(last)  PROVE Holds(last)'
  <2>1. \A i \in 1..Len(queue') : queue'[i] > Beat => i \in 1..n /\ queue'[i] = queue[i]
    BY <1>1 DEF Beat, End
  <2>2. \A i, j \in 1..Len(queue') : i < j /\ queue'[i] > Beat /\ queue'[j] > Beat
           => queue'[i] < queue'[j]
    BY <1>3, <2>1 DEF Holds, n
  <2>3. \A i \in 1..Len(queue') : queue'[i] > Beat => queue'[i] \in (seen + 1)..last
    BY <1>3, <2>1 DEF Holds, n
  <2>4. \A k \in (seen + 1)..last : \E i \in 1..Len(queue') : queue'[i] = k
    <3>1. \A i \in 1..n : i \in 1..Len(queue') /\ queue'[i] = queue[i]
      BY <1>1
    <3>2. \A k \in (seen + 1)..last : \E i \in 1..n : queue[i] = k
      BY <1>3 DEF Holds, n
    <3>. QED  BY <3>1, <3>2
  <2>. QED  BY <1>2, <1>3, <2>2, <2>3, <2>4 DEF Holds
<1>4. Holds(sent) => Holds(sent)'
  BY <1>2, <1>3
<1>5. Holds(sent - 1) => Holds(sent - 1)'
  BY <1>2, <1>3
<1>6. ~(pump = "done" /\ reader = "gone" /\ ~pulse /\ queue = <<>>)
  BY DEF PutEnd, Pulse
<1>7. QueueFits'
  BY <1>2, <1>4, <1>5, <1>6 DEF QueueFits, Attended, Holds
<1>8. EndIsLast'
  <2>1. CASE PutEnd
    <3>1. \A i \in 1..n : queue[i] # End
      BY <2>1 DEF EndIsLast, PutEnd, n
    <3>. QED  BY <1>1, <2>1, <3>1 DEF EndIsLast, PutEnd
  <2>2. CASE Pulse
    <3>1. queue'[n + 1] = Beat /\ pump' = pump
      BY <2>2, AppendItem DEF Pulse, Item, Beat, n
    <3>2. \A i \in 1..n : queue[i] = End =>
             pump = "done" /\ \A j \in 1..n : i < j => queue[j] <= Beat
      BY DEF EndIsLast, n
    <3>. QED  BY <1>1, <3>1, <3>2 DEF EndIsLast, Beat, End
  <2>. QED  BY <2>1, <2>2
<1>9. NothingLeft'
  BY <1>1, <1>2 DEF NothingLeft, n, Beat, End
<1>. QED  BY <1>7, <1>8, <1>9

\* What comes out is a heartbeat, the next event, or the sentinel.
LEMMA GetInv == ASSUME StreamInv, StreamTypeOK', Get  PROVE StreamInv'
<1>. USE DEF StreamInv, StreamTypeOK
<1>. DEFINE n == Len(queue)
<1>1. /\ Len(queue') = n - 1 /\ n \in Nat \ {0} /\ Head(queue) = queue[1]
      /\ \A i \in 1..(n - 1) : queue'[i] = queue[i + 1]
      /\ \A i \in 1..n : queue[i] \in Item
  BY TailItems DEF Get, Item
<1>2. reader = "reading" /\ pump' = pump /\ sent' = sent /\ pulse' = pulse
  BY DEF Get
<1>3. PICK last \in {sent, sent - 1} :
        /\ Holds(last) /\ (last = sent <=> pump # "putting") /\ (pump = "putting" => sent > 0)
  BY <1>2 DEF QueueFits, Attended
<1>. HIDE DEF n
<1>4. last \in Int /\ seen \in Nat
  BY <1>3
<1>4a. \A i \in 1..Len(queue') : i + 1 \in 2..n /\ i + 1 \in 1..n /\ queue'[i] = queue[i + 1]
  BY <1>1
<1>4b. \A i \in 2..n : i - 1 \in 1..Len(queue') /\ queue'[i - 1] = queue[i]
  <2> SUFFICES ASSUME NEW i \in 2..n PROVE i - 1 \in 1..Len(queue') /\ queue'[i - 1] = queue[i]
    OBVIOUS
  <2>1. i - 1 \in 1..(n - 1) /\ (i - 1) + 1 = i
    BY <1>1
  <2>. QED  BY <1>1, <2>1
<1>4c. \A i, j \in 1..Len(queue') : i < j /\ queue'[i] > Beat /\ queue'[j] > Beat
           => queue'[i] < queue'[j]
  <2> SUFFICES ASSUME NEW i \in 1..Len(queue'), NEW j \in 1..Len(queue'), i < j,
                      queue'[i] > Beat, queue'[j] > Beat
               PROVE  queue'[i] < queue'[j]
    OBVIOUS
  <2>1. i + 1 \in 1..n /\ j + 1 \in 1..n /\ i + 1 < j + 1
    BY <1>1, <1>4a
  <2>. QED  BY <1>3, <1>4a, <2>1 DEF Holds, n
<1>4d. EndIsLast'
  <2> SUFFICES ASSUME NEW i \in 1..Len(queue'), queue'[i] = End
               PROVE  pump = "done" /\ \A j \in 1..Len(queue') : i < j => queue'[j] <= Beat
    BY <1>2 DEF EndIsLast
  <2>1. i + 1 \in 1..n /\ queue[i + 1] = End
    BY <1>4a
  <2>2. pump = "done" /\ \A j \in 1..n : i + 1 < j => queue[j] <= Beat
    BY <2>1 DEF EndIsLast, n
  <2>3. \A j \in 1..Len(queue') : i < j => i + 1 < j + 1
    BY <1>1
  <2>. QED  BY <1>4a, <2>2, <2>3
<1>5. CASE queue[1] = Beat
  <2>1. seen' = seen /\ reader' = reader
    BY <1>1, <1>2, <1>5 DEF Get, Beat, End
  <2>2. Holds(last)'
    <3>2. \A i \in 1..Len(queue') : queue'[i] > Beat => queue'[i] \in (seen + 1)..last
      BY <1>3, <1>4a DEF Holds, n
    <3>3. ASSUME NEW k \in (seen + 1)..last  PROVE \E i \in 1..Len(queue') : queue'[i] = k
      <4>1. PICK i \in 1..n : queue[i] = k
        BY <1>3 DEF Holds, n
      <4>2. i # 1
        BY <1>4, <1>5, <4>1 DEF Beat
      <4>3. i \in 2..n
        BY <1>1, <4>2
      <4>. QED  BY <1>4b, <4>1, <4>3
    <3>. QED  BY <1>3, <2>1, <1>4c, <3>2, <3>3 DEF Holds
  <2>3. QueueFits'
    BY <1>2, <1>3, <2>2 DEF QueueFits, Holds
  <2>4. NothingLeft'
    BY <1>2, <2>1 DEF NothingLeft
  <2>. QED  BY <1>4d, <2>3, <2>4
<1>6. CASE queue[1] > Beat
  <2>1. seen' = seen + 1 /\ reader' = reader
    BY <1>1, <1>2, <1>6 DEF Get, Beat, End
  <2>2. queue[1] = seen + 1
    <3>1. queue[1] \in (seen + 1)..last
      BY <1>1, <1>3, <1>6 DEF Holds, n
    <3>2. PICK i \in 1..n : queue[i] = seen + 1
      BY <1>3, <1>4, <3>1 DEF Holds, n
    <3>3. i # 1 => queue[1] < queue[i]
      BY <1>1, <1>3, <1>4, <1>6, <3>2 DEF Holds, n, Beat
    <3>. QED  BY <1>4, <3>1, <3>2, <3>3
  <2>3. Holds(last)'
    <3>2. ASSUME NEW i \in 1..Len(queue'), queue'[i] > Beat  PROVE queue'[i] \in (seen + 2)..last
      <4>1. i + 1 \in 1..n /\ queue[i + 1] > Beat /\ queue'[i] = queue[i + 1] /\ 1 \in 1..n
        BY <1>1, <3>2
      <4>2. queue[i + 1] \in (seen + 1)..last
        BY <1>3, <4>1 DEF Holds, n
      <4>3. queue[1] < queue[i + 1]
        BY <1>3, <1>6, <4>1 DEF Holds, n
      <4>. QED  BY <1>4, <2>2, <4>1, <4>2, <4>3
    <3>3. ASSUME NEW k \in (seen + 2)..last  PROVE \E i \in 1..Len(queue') : queue'[i] = k
      <4>1. PICK i \in 1..n : queue[i] = k
        BY <1>3, <1>4 DEF Holds, n
      <4>2. i # 1
        BY <1>4, <2>2, <4>1
      <4>3. i \in 2..n
        BY <1>1, <4>2
      <4>. QED  BY <1>4b, <4>1, <4>3
    <3>4. seen + 1 <= last
      BY <1>1, <1>3, <1>4, <1>6 DEF Holds, n
    <3>. QED  BY <1>4, <1>4c, <2>1, <3>2, <3>3, <3>4 DEF Holds
  <2>4. QueueFits'
    BY <1>2, <1>3, <2>3 DEF QueueFits, Holds
  <2>5. NothingLeft'
    BY <1>2, <2>1 DEF NothingLeft
  <2>. QED  BY <1>4d, <2>4, <2>5
<1>7. CASE queue[1] = End
  <2>1. seen' = seen /\ reader' = "ending"
    BY <1>1, <1>2, <1>7 DEF Get
  <2>2. pump = "done" /\ \A j \in 1..n : queue[j] <= Beat
    BY <1>1, <1>7 DEF EndIsLast, n, Beat, End
  <2>3. \A j \in 1..Len(queue') : queue'[j] <= Beat
    BY <1>4a, <2>2
  <2>4. seen = last /\ last = sent
    <3>1. \A k \in (seen + 1)..last : FALSE
      BY <1>3, <1>4, <2>2 DEF Holds, n, Beat
    <3>2. seen <= last
      BY <1>3 DEF Holds
    <3>3. ~(seen + 1 <= last)
      BY <1>4, <3>1
    <3>. QED  BY <1>3, <1>4, <2>2, <3>2, <3>3
  <2>5. Holds(sent)'
    <3>1. \A j \in 1..Len(queue') : ~(queue'[j] > Beat)
      BY <1>1, <1>4a, <2>3 DEF Beat, Item, End
    <3>2. sent' = seen' /\ seen' \in Nat
      BY <1>2, <1>4, <2>1, <2>4
    <3>. QED  BY <3>1, <3>2, NothingBetween DEF Holds
  <2>6. QueueFits'
    BY <1>2, <2>2, <2>5 DEF QueueFits
  <2>7. NothingLeft'
    BY <1>2, <2>2, <2>3 DEF NothingLeft
  <2>. QED  BY <1>4d, <2>6, <2>7
<1>. QED  BY <1>1, <1>5, <1>6, <1>7 DEF Item, Beat, End

\* Steps that leave the queue alone.
LEMMA QuietInv ==
    ASSUME StreamInv, StreamTypeOK',
           Produce \/ ProducerEnds \/ Close \/ Leave \/ Abandon \/ Drain \/ Drained \/ CancelPump
             \/ UNCHANGED streamVars
    PROVE  StreamInv'
<1>. USE DEF StreamInv, StreamTypeOK
<1>1. UNCHANGED <<queue, seen>>
  BY DEF Produce, ProducerEnds, Close, Leave, Abandon, Drain, Drained, CancelPump, PumpCanceled,
         streamVars
<1>2. ASSUME NEW last  PROVE Holds(last) <=> Holds(last)'
  BY <1>1 DEF Holds
<1>3. EndIsLast' /\ NothingLeft'
  BY <1>1 DEF EndIsLast, NothingLeft, Produce, ProducerEnds, Close, Leave, Abandon, Drain, Drained,
              CancelPump, PumpCanceled, streamVars
<1>4. QueueFits'
  <2>1. CASE Produce
    <3>1. Holds(sent) /\ sent' = sent + 1 /\ pump' = "putting"
      BY <2>1 DEF QueueFits, Produce
    <3>2. sent' - 1 = sent /\ sent' > 0
      BY <3>1
    <3>. QED  BY <1>1, <3>1, <3>2 DEF QueueFits, Holds
  <2>2. CASE ~Produce
    <3>1. sent' = sent
      BY <2>2 DEF ProducerEnds, Close, Leave, Abandon, Drain, Drained, CancelPump, PumpCanceled,
                  streamVars
    <3>3. CASE CancelPump
      BY <1>1, <3>1, <3>3 DEF QueueFits, Holds, Attended, CancelPump, PumpCanceled
    <3>4. CASE ~CancelPump
      BY <1>1, <2>2, <3>1, <3>4 DEF QueueFits, Holds, Attended, ProducerEnds, Close, Leave, Abandon,
                                Drain, Drained, streamVars
    <3>. QED  BY <3>3, <3>4
  <2>. QED  BY <2>1, <2>2
<1>. QED  BY <1>3, <1>4

LEMMA StreamInvStep == ASSUME StreamInv, StreamStep  PROVE StreamInv'
<1>1. StreamTypeOK'
  BY StreamTypeStep DEF StreamInv
<1>. QED  BY <1>1, PutInv, PutOtherInv, GetInv, QuietInv DEF StreamStep

(***************************************************************************)
(* The execution: its inductive invariant                                  *)
(***************************************************************************)

Asked == {"asking", "polling", "read", "decided"}

\* Where the coroutine is, the stage is one that it may be about.
PlaceFits ==
    /\ pc \in Asked => stage <= agents /\ stage \in Checkpoints
    /\ pc \in {"execute", "executed"} =>
          stage <= agents /\ (stage \in Checkpoints => opened[stage] # 0)
    /\ pc \in {"read", "decided"} => verdict \in 1..Len(decided)
    /\ pc = "executed" => stage \in ran
    /\ pc = "over" /\ error = "none" => stage > agents
    /\ pc = "told" => stage > agents

\* The stages behind have run, and none that does not exist.
RanFits == 1..(stage - 1) \subseteq ran /\ ran \subseteq 1..agents

\* The decision that opened a checkpoint is spent: it is neither in Redis nor in
\* the coroutine's hands.
Spent(d) == key # d /\ (pc \in {"read", "decided"} => verdict # d)

DecisionsFit ==
    /\ key <= Len(decided)
    /\ pc = "decided" /\ key # 0 => key # verdict
    /\ \A s \in 1..Stages : opened[s] # 0 => opened[s] <= Len(decided) /\ Spent(opened[s])

\* What the row says while the coroutine is on its way.
RowFits ==
    /\ pc = "asking" => row # "running"
    /\ \A i \in 1..Len(told) :
          /\ told[i] = "required" => row # "running"
          /\ told[i] = "error" => pc \in {"done", "dead"} /\ row \in {"failed", "cancelled"}
    /\ pc = "told" => told # <<>> /\ told[Len(told)] = "complete"
    /\ pc = "failing" => row \in {"failed", "cancelled"}
    /\ pc = "done" =>
          /\ told # <<>> /\ row \in Terminal
          /\ row = "completed" <=> told[Len(told)] = "complete"
    /\ row = "completed" => pc \in {"done", "raised", "dead"}

\* While the client is there, the producer has returned when the pump is closing.
ReturnFits == Attended /\ pump \in {"closing", "done"} => pc \in {"done", "raised"}

Inv ==
    /\ TypeOK /\ StreamInv
    /\ PlaceFits /\ RanFits /\ DecisionsFit /\ RowFits /\ ReturnFits
    /\ ReviewedFirst /\ CompletedRanAll

(***************************************************************************)
(* Types                                                                   *)
(***************************************************************************)

Event == {"required", "agent", "complete", "error"}

LEMMA TypeInit == Init => TypeOK
  BY StreamTypeInit, GateAssumption, EmptySeq DEF Init, TypeOK, StreamInit, Terminal

\* What a step that yields does to the history.
LEMMA YieldTypes ==
    ASSUME TypeOK, NEW e \in Event, Yield(e)
    PROVE  /\ told' \in Seq(Event) /\ Len(told') = sent' /\ sent' = sent + 1
           /\ Len(told) \in Nat /\ Len(told') = Len(told) + 1
           /\ told' # <<>> /\ told'[Len(told')] = e
           /\ \A i \in 1..Len(told) : told'[i] = told[i]
           /\ Produce /\ agents' = agents
<1>1. told \in Seq(Event) /\ Len(told) = sent /\ sent \in Nat
  BY DEF TypeOK, StreamTypeOK, Event
<1>. QED  BY <1>1 DEF Yield, Produce

LEMMA SilentTypes ==
    ASSUME TypeOK, Silent
    PROVE  StreamTypeOK' /\ UNCHANGED <<streamVars, agents, told>> /\ Len(told') = sent'
  BY DEF TypeOK, StreamTypeOK, Silent, streamVars

LEMMA WorkTypes == ASSUME TypeOK, PlaceFits, Work \/ Raise  PROVE TypeOK'
<1>. USE GateAssumption
<1>0. /\ agents \in 1..Stages /\ stage \in 1..(agents + 1) /\ stage \in Nat
      /\ Len(decided) \in Nat /\ Len(decided) <= MaxDecisions
  BY DEF TypeOK
<1>1. CASE Ask \/ Poll \/ Consume \/ Expire \/ Route \/ Refuse \/ Store \/ Raise
  <2>1. StreamTypeOK' /\ UNCHANGED <<streamVars, agents, told>> /\ Len(told') = sent'
    BY <1>1, SilentTypes DEF Ask, Poll, Consume, Expire, Route, Refuse, Store, Raise
  <2>2. UNCHANGED <<stage, opened, error, decided, ran>>
    BY <1>1 DEF Ask, Poll, Consume, Expire, Route, Refuse, Store, Raise
  <2>3. /\ verdict' \in {verdict, key} /\ key' \in {key, 0}
        /\ row' \in Terminal \cup {row, "hitl_waiting"}
    BY <1>1 DEF Ask, Poll, Consume, Expire, Route, Refuse, Store, Raise, Commit, Terminal
  <2>4. pc' \in {"asking", "read", "decided", "failing", "over", "execute", "done", "raised"}
    BY <1>1 DEF Ask, Poll, Consume, Expire, Route, Refuse, Store, Raise, Commit
  <2>. QED  BY <2>1, <2>2, <2>3, <2>4 DEF TypeOK
<1>2. CASE Resume
  <2>1. StreamTypeOK' /\ UNCHANGED <<streamVars, agents, told>> /\ Len(told') = sent'
    BY <1>2, SilentTypes DEF Resume
  <2>2. opened' \in [1..Stages -> 0..MaxDecisions]
    BY <1>2 DEF TypeOK, Resume
  <2>3. /\ pc' \in {"execute", "over"} /\ verdict' = 0 /\ error' \in {error, "rejected"}
        /\ UNCHANGED <<stage, row, key, decided, ran>>
    BY <1>2 DEF Resume
  <2>. QED  BY <2>1, <2>2, <2>3 DEF TypeOK
<1>3. CASE Execute
  <2>1. StreamTypeOK' /\ UNCHANGED <<streamVars, agents, told>> /\ Len(told') = sent'
    BY <1>3, SilentTypes DEF Execute
  <2>2. stage \in 1..Stages
    BY <1>0, <1>3 DEF PlaceFits, Execute
  <2>3. ran' \subseteq 1..Stages
    BY <1>3, <2>2 DEF TypeOK, Execute
  <2>. QED  BY <1>3, <2>1, <2>3 DEF TypeOK, Execute
<1>4. CASE TellAsked \/ TellAgent \/ TellError \/ TellComplete
  <2>1. /\ told' \in Seq(Event) /\ Len(told') = sent' /\ Produce /\ agents' = agents
    BY <1>4, YieldTypes DEF TellAsked, TellAgent, TellError, TellComplete, Event
  <2>2. StreamTypeOK'
    BY <2>1, StreamTypeStep DEF TypeOK, StreamStep
  <2>3. stage' \in 1..(agents + 1)
    BY <1>0, <1>4 DEF PlaceFits, TellAsked, TellAgent, TellError, TellComplete
  <2>4. UNCHANGED <<opened, verdict, error, row, key, decided, ran>>
    BY <1>4 DEF TellAsked, TellAgent, TellError, TellComplete
  <2>5. pc' \in {"polling", "route", "done", "told"}
    BY <1>4 DEF TellAsked, TellAgent, TellError, TellComplete
  <2>. QED  BY <2>1, <2>2, <2>3, <2>4, <2>5 DEF TypeOK, Event
<1>5. CASE Return
  <2>1. StreamTypeOK' /\ sent' = sent
    BY <1>5, StreamTypeStep DEF TypeOK, StreamStep, Return, ProducerEnds
  <2>. QED  BY <1>5, <2>1 DEF TypeOK, Return, gateVars
<1>. QED  BY <1>1, <1>2, <1>3, <1>4, <1>5 DEF Work

\* The steps of everybody else.
LEMMA WorldTypes ==
    ASSUME TypeOK, Stream \/ Cancel \/ Crash \/ Forget \/ (\E a \in BOOLEAN : Decide(a))
                     \/ UNCHANGED vars
    PROVE  TypeOK'
<1>1. CASE Stream
  <2>1. StreamTypeOK' /\ sent' = sent
    BY <1>1, StreamTypeStep DEF TypeOK, StreamStep, Stream, Reading, Leaving, Pumping, Pulse, Get, Close,
         Leave, Abandon, Drain, Drained, Put, PutEnd
  <2>. QED  BY <1>1, <2>1 DEF TypeOK, Stream, gateVars
<1>2. CASE Cancel
  <2>1. StreamTypeOK' /\ sent' = sent
    BY <1>2, StreamTypeStep DEF TypeOK, StreamStep, Cancel, CancelPump, PumpCanceled
  <2>. QED  BY <1>2, <2>1 DEF TypeOK, Cancel
<1>3. CASE Crash
  <2>1. StreamTypeOK'
    <3>1. <<>> \in Seq(Nat \cup {End}) /\ Len(<<>>) <= Capacity
      BY StreamAssumption, EmptySeq
    <3>. QED  BY <1>3, <3>1 DEF TypeOK, StreamTypeOK, Crash
  <2>. QED  BY <1>3, <2>1 DEF TypeOK, Crash
<1>4. CASE Forget
  BY <1>4, GateAssumption DEF TypeOK, StreamTypeOK, Forget, streamVars
<1>5. CASE \E a \in BOOLEAN : Decide(a)
  <2>1. PICK a \in BOOLEAN : Decide(a)
    BY <1>5
  <2>2. decided' \in Seq(Decision) /\ Len(decided') \in 0..MaxDecisions
    BY <2>1, GateAssumption DEF TypeOK, Decide, Decision
  <2>. QED  BY <2>1, <2>2 DEF TypeOK, StreamTypeOK, Decide, streamVars
<1>6. CASE UNCHANGED vars
  BY <1>6 DEF TypeOK, StreamTypeOK, vars, streamVars, gateVars
<1>. QED  BY <1>1, <1>2, <1>3, <1>4, <1>5, <1>6

LEMMA TypeStep == TypeOK /\ PlaceFits /\ [Next]_vars => TypeOK'
  BY WorkTypes, WorldTypes DEF Next

(***************************************************************************)
(* The invariant                                                           *)
(***************************************************************************)

LEMMA InvInit == Init => Inv
<1> SUFFICES ASSUME Init PROVE Inv
  OBVIOUS
<1>1. TypeOK /\ StreamInv
  BY TypeInit, StreamInvInit DEF Init
<1>2. PlaceFits /\ RanFits
  BY DEF Init, PlaceFits, RanFits, Asked
<1>3. DecisionsFit /\ ReviewedFirst
  BY EmptySeq DEF Init, DecisionsFit, ReviewedFirst
<1>4. RowFits /\ ReturnFits /\ CompletedRanAll
  BY DEF Init, StreamInit, RowFits, ReturnFits, CompletedRanAll
<1>. QED  BY <1>1, <1>2, <1>3, <1>4 DEF Inv

\* The stream's part of a step.
LEMMA StreamPart == ASSUME Inv, [Next]_vars  PROVE StreamInv'
<1>1. CASE Crash
  <2>1. StreamTypeOK'
    BY <1>1, WorldTypes DEF Inv, TypeOK
  <2>2. queue' = <<>> /\ Len(queue') = 0 /\ reader' = "gone" /\ pump' = "done" /\ ~pulse'
    BY <1>1, EmptySeq DEF Crash
  <2>3. seen' <= sent'
    BY <1>1 DEF Inv, StreamInv, StreamTypeOK, QueueFits, Holds, Crash
  <2>. QED  BY <2>1, <2>2, <2>3 DEF StreamInv, QueueFits, EndIsLast, NothingLeft
<1>2. CASE ~Crash
  <2>1. CASE Work \/ Raise
    <3>1. Produce \/ ProducerEnds \/ UNCHANGED streamVars
      BY <2>1 DEF Work, Raise, Silent, Yield, Ask, TellAsked, Poll, Consume, Expire, Resume, Route,
           Execute, TellAgent, Refuse, TellError, TellComplete, Store, Return
    <3>. QED  BY <3>1, StreamInvStep DEF Inv, StreamStep
  <2>2. CASE Stream \/ Cancel \/ Forget \/ (\E a \in BOOLEAN : Decide(a)) \/ UNCHANGED vars
    <3>1. StreamStep
      BY <2>2 DEF StreamStep, Stream, Reading, Leaving, Pumping, Cancel, Forget, Decide, vars
    <3>. QED  BY <3>1, StreamInvStep DEF Inv
  <2>. QED  BY <1>2, <2>1, <2>2 DEF Next
<1>. QED  BY <1>1, <1>2

\* A step of the coroutine while the pump runs it.
LEMMA WorkPulls == ASSUME Work \/ Raise  PROVE pump = "pulling"
  BY DEF Work, Raise, Silent, Yield, Produce, Ask, TellAsked, Poll, Consume, Expire, Resume, Route,
         Execute, TellAgent, Refuse, TellError, TellComplete, Store, Return, ProducerEnds

LEMMA PlacePart == ASSUME Inv, TypeOK', Work \/ Raise  PROVE PlaceFits'
<1>. USE DEF Inv, Asked, Silent, Yield
<1>1. CASE Ask \/ TellAsked \/ Poll \/ Consume
  BY <1>1 DEF TypeOK, PlaceFits, Ask, TellAsked, Poll, Consume, Commit, Reviewable, DecisionsFit
<1>2. CASE Resume
  <2>1. verdict \in 1..Len(decided) /\ stage <= agents /\ stage \in 1..Stages /\ verdict # 0
    BY <1>2, GateAssumption DEF TypeOK, PlaceFits, Resume
  <2>. QED  BY <1>2, <2>1 DEF TypeOK, PlaceFits, Resume
<1>3. CASE Route
  BY <1>3 DEF TypeOK, PlaceFits, Route, Reviewable
<1>4. CASE Execute
  BY <1>4 DEF TypeOK, PlaceFits, Execute
<1>5. CASE Expire \/ TellAgent \/ Refuse \/ TellError \/ Store \/ Raise
  BY <1>5 DEF PlaceFits, Expire, TellAgent, Refuse, TellError, Store, Raise, Commit
<1>6. CASE TellComplete \/ Return
  BY <1>6 DEF PlaceFits, TellComplete, Return, gateVars
<1>. QED  BY <1>1, <1>2, <1>3, <1>4, <1>5, <1>6 DEF Work

LEMMA RanPart ==
    ASSUME Inv, TypeOK', Work \/ Raise  PROVE RanFits' /\ CompletedRanAll'
<1>. USE DEF Inv, Silent, Yield
<1>0. agents \in Nat /\ stage \in 1..(agents + 1)
  BY GateAssumption DEF TypeOK
<1>1. CASE Execute
  <2>1. /\ ran' = ran \/ ran' = ran \cup {stage}
        /\ stage \in 1..agents /\ row' = row /\ stage' = stage /\ agents' = agents
    BY <1>0, <1>1 DEF PlaceFits, Execute
  <2>2. row # "completed"
    BY <1>1 DEF RowFits, Execute
  <2>. QED  BY <2>1, <2>2 DEF RanFits, CompletedRanAll
<1>2. CASE TellAgent
  <2>1. 1..stage \subseteq ran
    BY <1>0, <1>2 DEF PlaceFits, RanFits, TellAgent
  <2>2. stage' - 1 = stage
    BY <1>0, <1>2 DEF TellAgent
  <2>. QED  BY <1>0, <1>2, <2>1, <2>2 DEF RanFits, CompletedRanAll, TellAgent
<1>3. CASE Store
  <2>1. ran = 1..agents
    <3>1. stage - 1 = agents
      BY <1>0, <1>3 DEF PlaceFits, Store
    <3>. QED  BY <3>1 DEF RanFits
  <2>. QED  BY <1>3, <2>1 DEF RanFits, CompletedRanAll, Store
<1>4. CASE Return
  BY <1>4 DEF RanFits, CompletedRanAll, Return, gateVars
<1>5. CASE \/ Ask \/ TellAsked \/ Poll \/ Consume \/ Expire \/ Resume \/ Route \/ Refuse
           \/ TellError \/ TellComplete \/ Raise
  <2>1. UNCHANGED <<stage, agents, ran>> /\ (row' = "completed" => row = "completed")
    BY <1>5 DEF Ask, TellAsked, Poll, Consume, Expire, Resume, Route, Refuse, TellError, TellComplete,
                Raise, Commit
  <2>. QED  BY <2>1 DEF RanFits, CompletedRanAll
<1>. QED  BY <1>1, <1>2, <1>3, <1>4, <1>5 DEF Work

LEMMA DecisionNumbers ==
    ASSUME TypeOK
    PROVE  /\ Len(decided) \in Nat /\ key \in Nat /\ verdict \in Nat
           /\ \A s \in 1..Stages : opened[s] \in Nat
<1>1. decided \in Seq(Decision) /\ opened \in [1..Stages -> 0..MaxDecisions]
  BY DEF TypeOK
<1>2. key \in 0..MaxDecisions /\ verdict \in 0..MaxDecisions /\ 0..MaxDecisions \subseteq Nat
  BY GateAssumption DEF TypeOK
<1>3. Len(decided) \in Nat
  BY <1>1
<1>4. \A s \in 1..Stages : opened[s] \in Nat
  BY <1>1, <1>2
<1>. QED  BY <1>2, <1>3, <1>4

LEMMA DecisionPart ==
    ASSUME Inv, TypeOK', Work \/ Raise  PROVE DecisionsFit' /\ ReviewedFirst'
<1>0. /\ Len(decided) \in Nat /\ key \in Nat /\ verdict \in Nat
      /\ \A s \in 1..Stages : opened[s] \in Nat
  <2>1. TypeOK
    BY DEF Inv
  <2>. QED  BY <2>1, DecisionNumbers
<1>. USE DEF Inv
<1>1. CASE Poll
  BY <1>0, <1>1 DEF DecisionsFit, Spent, ReviewedFirst, Poll
<1>2. CASE Consume
  BY <1>0, <1>2 DEF DecisionsFit, Spent, ReviewedFirst, Consume
<1>3. CASE Resume
  <2>1. /\ pc = "decided" /\ verdict \in 1..Len(decided) /\ pc' \in {"execute", "over"}
        /\ key # 0 => key # verdict /\ stage \in 1..Stages
        /\ UNCHANGED <<key, decided, ran, stage>>
    BY <1>3, GateAssumption DEF TypeOK, PlaceFits, DecisionsFit, Resume, Asked
  <2>2. CASE decided[verdict].approved
    <3>1. \A s \in 1..Stages : opened'[s] = IF s = stage THEN verdict ELSE opened[s]
      BY <1>3, <2>2 DEF TypeOK, Resume
    <3>2. \A s \in 1..Stages : opened[s] # 0 => opened[s] # verdict
      BY <2>1 DEF DecisionsFit, Spent
    <3>3. DecisionsFit'
      BY <1>0, <2>1, <3>1 DEF DecisionsFit, Spent
    <3>4. ReviewedFirst'
      <4>1. \A s \in ran \cap Checkpoints : opened'[s] # 0
        <5>1. ran \subseteq 1..Stages /\ verdict # 0
          BY <1>0, <2>1 DEF TypeOK
        <5>. QED  BY <3>1, <5>1 DEF ReviewedFirst
      <4>2. \A s \in 1..Stages : opened'[s] # 0 => decided[opened'[s]].approved
        BY <2>2, <3>1 DEF ReviewedFirst
      <4>3. \A s, t \in 1..Stages : opened'[s] # 0 /\ opened'[s] = opened'[t] => s = t
        BY <3>1, <3>2 DEF ReviewedFirst
      <4>. QED  BY <2>1, <4>1, <4>2, <4>3 DEF ReviewedFirst
    <3>. QED  BY <3>3, <3>4
  <2>3. CASE ~decided[verdict].approved
    BY <1>0, <1>3, <2>1, <2>3 DEF DecisionsFit, Spent, ReviewedFirst, Resume
  <2>. QED  BY <2>2, <2>3
<1>4. CASE Execute
  BY <1>0, <1>4 DEF DecisionsFit, Spent, ReviewedFirst, PlaceFits, Execute
<1>5. CASE Return
  BY <1>5 DEF DecisionsFit, Spent, ReviewedFirst, Return, gateVars
<1>6. CASE \/ Ask \/ TellAsked \/ Expire \/ Route \/ TellAgent \/ Refuse
           \/ TellError \/ TellComplete \/ Store \/ Raise
  <2>1. UNCHANGED <<opened, verdict, key, decided, ran>> /\ pc' \notin {"read", "decided"}
    BY <1>6 DEF Ask, TellAsked, Expire, Route, TellAgent, Refuse, TellError, TellComplete, Store, Raise,
                Commit
  <2>. QED  BY <2>1 DEF DecisionsFit, Spent, ReviewedFirst
<1>. QED  BY <1>1, <1>2, <1>3, <1>4, <1>5, <1>6 DEF Work

LEMMA RowPart ==
    ASSUME Inv, TypeOK', Work \/ Raise  PROVE RowFits' /\ ReturnFits'
<1>. USE DEF Inv
<1>0. TypeOK
  OBVIOUS
<1>1. ReturnFits'
  <2>1. CASE Return
    BY <2>1 DEF ReturnFits, Return, gateVars
  <2>2. CASE ~Return
    <3>1. pump' \in {"pulling", "putting"}
      BY <2>2, WorkPulls DEF Work, Raise, Silent, Yield, Produce, Ask, TellAsked, Poll, Consume, Expire,
           Resume, Route, Execute, TellAgent, Refuse, TellError, TellComplete, Store, streamVars
    <3>. QED  BY <3>1 DEF ReturnFits
  <2>. QED  BY <2>1, <2>2
<1>2. CASE TellAsked \/ TellAgent \/ TellError \/ TellComplete
  <2>1. PICK e \in Event :
           /\ Yield(e)
           /\ e = "required" => row # "running"
           /\ e = "error" => pc' = "done"
           /\ pc' = "told" => e = "complete"
           /\ pc' = "done" => e = "error" /\ row \in {"failed", "cancelled"}
    BY <1>2 DEF RowFits, TellAsked, TellAgent, TellError, TellComplete, Event
  <2>2. /\ Len(told) \in Nat /\ Len(told') = Len(told) + 1
        /\ told' # <<>> /\ told'[Len(told')] = e
        /\ \A i \in 1..Len(told) : told'[i] = told[i]
    BY <1>0, <2>1, YieldTypes
  <2>3. row' = row /\ pc' \in {"polling", "route", "done", "told"} /\ row # "completed"
    BY <1>2 DEF RowFits, TellAsked, TellAgent, TellError, TellComplete
  <2>4. \A i \in 1..Len(told') : i \in 1..Len(told) \/ i = Len(told')
    BY <2>2
  <2>5. \A i \in 1..Len(told') :
           /\ told'[i] = "required" => row' # "running"
           /\ told'[i] = "error" => pc' \in {"done", "dead"} /\ row' \in {"failed", "cancelled"}
    BY <1>2, <2>1, <2>2, <2>3, <2>4 DEF RowFits, TellAsked, TellAgent, TellError, TellComplete
  <2>6. RowFits'
    BY <2>1, <2>2, <2>3, <2>5 DEF RowFits, Terminal
  <2>. QED  BY <1>1, <2>6
<1>3. CASE Ask \/ Expire \/ Refuse \/ Raise \/ Store
  <2>1. told' = told
    BY <1>3 DEF Silent, Ask, Expire, Refuse, Raise, Store
  <2>2. \A i \in 1..Len(told) : told[i] # "error"
    BY <1>3 DEF RowFits, Ask, Expire, Refuse, Raise, Store
  <2>3. row' # "running" \/ (row' = row /\ pc' = "raised")
    BY <1>3 DEF Commit, Ask, Expire, Refuse, Raise, Store
  <2>4. /\ pc' \in {"asking", "failing", "done", "raised"}
        /\ pc' = "asking" => row' = "hitl_waiting"
        /\ pc' = "failing" => row' \in {"failed", "cancelled"}
        /\ pc' = "done" => pc = "told" /\ row' = "completed"
        /\ row' = "completed" => pc' \in {"done", "raised"}
    BY <1>3 DEF RowFits, Commit, Ask, Expire, Refuse, Raise, Store
  <2>5. RowFits'
    BY <2>1, <2>2, <2>3, <2>4 DEF RowFits, Terminal
  <2>. QED  BY <1>1, <2>5
<1>4. CASE Poll \/ Consume \/ Resume \/ Route \/ Execute
  <2>1. told' = told /\ row' = row /\ pc' \in {"read", "decided", "execute", "over", "executed"}
    BY <1>4 DEF Silent, Poll, Consume, Resume, Route, Execute
  <2>2. row # "completed" /\ \A i \in 1..Len(told) : told[i] # "error"
    BY <1>4 DEF RowFits, Poll, Consume, Resume, Route, Execute
  <2>3. RowFits'
    BY <2>1, <2>2 DEF RowFits
  <2>. QED  BY <1>1, <2>3
<1>5. CASE Return
  <2>1. RowFits'
    BY <1>5 DEF RowFits, Return, gateVars
  <2>. QED  BY <1>1, <2>1
<1>. QED  BY <1>2, <1>3, <1>4, <1>5 DEF Work

\* The steps of everybody else.
LEMMA WorldPart ==
    ASSUME Inv, TypeOK', Stream \/ Cancel \/ Crash \/ Forget \/ (\E a \in BOOLEAN : Decide(a))
                         \/ UNCHANGED vars
    PROVE  /\ PlaceFits' /\ RanFits' /\ DecisionsFit' /\ RowFits' /\ ReturnFits'
           /\ ReviewedFirst' /\ CompletedRanAll'
<1>0. /\ Len(decided) \in Nat /\ key \in Nat /\ verdict \in Nat
      /\ \A s \in 1..Stages : opened[s] \in Nat
  <2>1. TypeOK
    BY DEF Inv
  <2>. QED  BY <2>1, DecisionNumbers
<1>. USE DEF Inv
<1>1. CASE Stream \/ UNCHANGED vars
  <2>1. UNCHANGED gateVars
    BY <1>1 DEF Stream, vars
  <2>2. PlaceFits' /\ RanFits' /\ DecisionsFit' /\ RowFits' /\ ReviewedFirst' /\ CompletedRanAll'
    BY <2>1 DEF gateVars, PlaceFits, RanFits, DecisionsFit, Spent, RowFits, ReviewedFirst,
                CompletedRanAll
  <2>3. ReturnFits'
    BY <1>1, <2>1 DEF ReturnFits, Attended, Stream, Reading, Leaving, Pumping, Pulse, Get, Close, Leave,
         Abandon, Drain, Drained, Put, PutEnd, gateVars, vars, streamVars
  <2>. QED  BY <2>2, <2>3
<1>2. CASE Cancel \/ Crash
  <2>1. /\ pc' \in {pc, "dead"} /\ reader' = "gone"
        /\ UNCHANGED <<agents, stage, opened, verdict, error, row, key, decided, ran, told>>
    BY <1>2 DEF Cancel, CancelPump, Crash
  <2>2. PlaceFits' /\ RanFits' /\ DecisionsFit' /\ RowFits' /\ ReviewedFirst' /\ CompletedRanAll'
    BY <2>1 DEF PlaceFits, Asked, RanFits, DecisionsFit, Spent, RowFits, ReviewedFirst, CompletedRanAll
  <2>. QED  BY <2>1, <2>2 DEF ReturnFits, Attended
<1>3. CASE Forget
  <2>1. /\ UNCHANGED streamVars /\ key' = 0
        /\ UNCHANGED <<agents, pc, stage, opened, verdict, error, row, decided, ran, told>>
    BY <1>3 DEF Forget
  <2>. QED  BY <1>0, <2>1 DEF streamVars, PlaceFits, RanFits, DecisionsFit, Spent, RowFits,
            ReviewedFirst, CompletedRanAll, ReturnFits, Attended
<1>4. CASE \E a \in BOOLEAN : Decide(a)
  <2>1. PICK a \in BOOLEAN : Decide(a)
    BY <1>4
  <2>2. /\ UNCHANGED streamVars
        /\ UNCHANGED <<agents, pc, stage, opened, verdict, error, row, ran, told>>
        /\ Len(decided') = Len(decided) + 1 /\ key' = Len(decided) + 1
        /\ \A i \in 1..Len(decided) : decided'[i] = decided[i]
    BY <2>1 DEF Decide, TypeOK
  <2>3. PlaceFits' /\ RanFits' /\ RowFits' /\ ReturnFits' /\ CompletedRanAll'
    BY <1>0, <2>2 DEF streamVars, PlaceFits, Asked, RanFits, RowFits, CompletedRanAll, ReturnFits,
                      Attended
  <2>4. DecisionsFit'
    BY <1>0, <2>2 DEF DecisionsFit, Spent, PlaceFits
  <2>5. ReviewedFirst'
    <3>1. \A s \in 1..Stages : opened[s] # 0 => opened[s] \in 1..Len(decided)
      BY <1>0 DEF DecisionsFit
    <3>. QED  BY <2>2, <3>1 DEF ReviewedFirst
  <2>. QED  BY <2>3, <2>4, <2>5
<1>. QED  BY <1>1, <1>2, <1>3, <1>4

LEMMA InvStep == Inv /\ [Next]_vars => Inv'
<1> SUFFICES ASSUME Inv, [Next]_vars PROVE Inv'
  OBVIOUS
<1>1. TypeOK' /\ StreamInv'
  BY TypeStep, StreamPart DEF Inv
<1>2. CASE Work \/ Raise
  BY <1>1, <1>2, PlacePart, RanPart, DecisionPart, RowPart DEF Inv
<1>3. CASE Stream \/ Cancel \/ Crash \/ Forget \/ (\E a \in BOOLEAN : Decide(a)) \/ UNCHANGED vars
  BY <1>1, <1>3, WorldPart DEF Inv
<1>. QED  BY <1>2, <1>3 DEF Next

\* Of a stream that closes nothing is left.
LEMMA ClosedLemma == ASSUME Inv  PROVE ClosedIsWhole
<1> SUFFICES ASSUME reader \in {"ending", "closed"}  PROVE seen = sent /\ pump = "done"
  BY DEF ClosedIsWhole
<1>1. pump = "done" /\ \A i \in 1..Len(queue) : queue[i] <= Beat
  BY DEF Inv, StreamInv, NothingLeft
<1>2. Holds(sent) /\ seen \in Nat /\ sent \in Nat
  BY <1>1 DEF Inv, StreamInv, StreamTypeOK, QueueFits, Attended
<1>3. \A n \in (seen + 1)..sent : FALSE
  BY <1>1, <1>2 DEF Holds, Beat
<1>4. ~(seen + 1 <= sent)
  BY <1>2, <1>3
<1>. QED  BY <1>1, <1>2, <1>4 DEF Holds

(***************************************************************************)
(* The theorems                                                            *)
(***************************************************************************)

\* The inductive invariant of the execution, its decisions and its stream.
THEOREM InvHolds == Spec => []Inv
<1>. QED  BY InvInit, InvStep, PTL DEF Spec

\* The variables keep their types (services/workflow_service.py, the checkpoint
\* path of execute_workflow).
THEOREM TypeCorrect == Spec => []TypeOK
<1>. QED  BY InvHolds, PTL DEF Inv

\* What the client gets from the queue of _merge_heartbeat_stream is the next event.
THEOREM InOrderHolds == Spec => []InOrder
<1>1. ASSUME Inv  PROVE InOrder
  <2> SUFFICES ASSUME queue # <<>>, Head(queue) \notin {Beat, End}
               PROVE  Head(queue) = seen + 1
    BY DEF InOrder
  <2>1. /\ Len(queue) \in Nat \ {0} /\ Head(queue) = queue[1] /\ seen \in Nat /\ sent \in Nat
        /\ \A i \in 1..Len(queue) : queue[i] \in Item
    BY <1>1, TailItems DEF Inv, StreamInv, StreamTypeOK, Item
  <2>2. queue[1] > Beat
    BY <2>1 DEF Item, Beat, End
  <2>3. PICK last \in {sent, sent - 1} : Holds(last)
    BY <1>1 DEF Inv, StreamInv, QueueFits
  <2>4. queue[1] \in (seen + 1)..last /\ last \in Int
    BY <2>1, <2>2, <2>3 DEF Holds
  <2>5. PICK i \in 1..Len(queue) : queue[i] = seen + 1
    BY <2>1, <2>3, <2>4 DEF Holds
  <2>6. i # 1 => queue[1] < queue[i]
    BY <2>1, <2>2, <2>3, <2>5 DEF Holds, Beat
  <2>. QED  BY <2>1, <2>4, <2>5, <2>6
<1>. QED  BY <1>1, InvHolds, PTL

\* A stream that closes has passed on all the events of the run
\* (routers/workflows.py).
THEOREM ClosedIsWholeHolds == Spec => []ClosedIsWhole
<1>. QED  BY ClosedLemma, InvHolds, PTL

\* A stage with a checkpoint runs after an approval of its own
\* (agents/langgraph/hitl_graph.py, services/workflow_service.py).
THEOREM ReviewedFirstHolds == Spec => []ReviewedFirst
<1>. QED  BY InvHolds, PTL DEF Inv

\* What the client was told is in the row: that approval is required, that there
\* was an error, and, when the stream has ended without a commit that raised, how
\* the run has ended (services/workflow_service.py).
THEOREM ToldIsStoredHolds == Spec => []ToldIsStored
<1>1. ASSUME Inv  PROVE ToldIsStored
  <2>1. Len(told) = sent /\ seen \in Nat /\ sent \in Nat /\ seen <= sent
    BY <1>1 DEF Inv, TypeOK, StreamTypeOK, StreamInv, QueueFits, Holds
  <2>2. ASSUME NEW i \in 1..seen
        PROVE  /\ told[i] = "required" => row # "running"
               /\ told[i] = "error" => row \in {"failed", "cancelled"}
    <3>1. i \in 1..Len(told)
      BY <2>1
    <3>. QED  BY <1>1, <3>1 DEF Inv, RowFits
  <2>3. ASSUME reader = "closed", pc = "done"
        PROVE  row \in Terminal /\ (row = "completed" <=> told[seen] = "complete")
    <3>1. seen = sent
      BY <1>1, <2>3, ClosedLemma DEF ClosedIsWhole
    <3>2. row \in Terminal /\ (row = "completed" <=> told[Len(told)] = "complete")
      BY <1>1, <2>3 DEF Inv, RowFits
    <3>3. Len(told) = seen
      BY <2>1, <3>1
    <3>. QED  BY <3>2, <3>3
  <2>. QED  BY <2>2, <2>3 DEF ToldIsStored
<1>. QED  BY <1>1, InvHolds, PTL

\* A completed execution ran all its stages (services/workflow_service.py).
THEOREM CompletedRanAllHolds == Spec => []CompletedRanAll
<1>. QED  BY InvHolds, PTL DEF Inv

(***************************************************************************)
(* Who waits is served                                                     *)
(***************************************************************************)

\* While the client reads, a pump that is done has left its sentinel in the queue.
Served ==
    reader = "reading" =>
        /\ pc # "dead"
        /\ pump = "done" => \E i \in 1..Len(queue) : queue[i] = End

\* What is put leaves the sentinel where it is, or is the sentinel.
LEMMA PutServes == ASSUME StreamTypeOK, Served, Put \/ PutEnd \/ Pulse, pc' = pc  PROVE Served'
<1>1. queue \in Seq(Item)
  BY DEF StreamTypeOK, Item
<1>2. CASE Put
  BY <1>2 DEF Put, Served
<1>3. CASE PutEnd
  <2>1. End \in Item /\ queue' = Append(queue, End) /\ reader' = reader
    BY <1>3 DEF PutEnd, Item
  <2>2. Len(queue') = Len(queue) + 1 /\ queue'[Len(queue) + 1] = End /\ Len(queue) \in Nat
    BY <1>1, <2>1, AppendItem
  <2>3. \E i \in 1..Len(queue') : queue'[i] = End
    BY <2>2
  <2>. QED  BY <2>1, <2>3 DEF Served
<1>4. CASE Pulse
  <2>1. Beat \in Item /\ queue' = Append(queue, Beat) /\ reader' = reader /\ pump' = pump
    BY <1>4 DEF Pulse, Item, Beat
  <2>2. /\ Len(queue') = Len(queue) + 1 /\ Len(queue) \in Nat
        /\ \A i \in 1..Len(queue) : queue'[i] = queue[i]
    BY <1>1, <2>1, AppendItem
  <2>3. (\E i \in 1..Len(queue) : queue[i] = End) => \E i \in 1..Len(queue') : queue'[i] = End
    BY <2>2
  <2>. QED  BY <2>1, <2>3 DEF Served
<1>. QED  BY <1>2, <1>3, <1>4

\* A reader that takes the sentinel reads no more; any other item is before it.
LEMMA GetServes == ASSUME StreamTypeOK, Served, Get, pc' = pc  PROVE Served'
<1> SUFFICES ASSUME reader' = "reading", pump' = "done"
             PROVE  \E i \in 1..Len(queue') : queue'[i] = End
  BY DEF Get, Served
<1>1. /\ queue \in Seq(Item) /\ queue # <<>> /\ queue' = Tail(queue) /\ Head(queue) # End
      /\ reader = "reading" /\ pump = "done"
  BY DEF Get, StreamTypeOK, Item
<1>2. /\ Len(queue') = Len(queue) - 1 /\ Len(queue) \in Nat /\ queue[1] # End
      /\ \A i \in 1..(Len(queue) - 1) : queue'[i] = queue[i + 1]
  BY <1>1, TailItems
<1>3. PICK i \in 1..Len(queue) : queue[i] = End
  BY <1>1 DEF Served
<1>4. i - 1 \in 1..Len(queue') /\ queue'[i - 1] = End
  BY <1>2, <1>3
<1>. QED  BY <1>4

LEMMA ServedStep == ASSUME Inv, Served, [Next]_vars  PROVE Served'
<1>0. StreamTypeOK
  BY DEF Inv, TypeOK
<1>1. CASE Work \/ Raise
  <2>1. pump = "pulling" /\ reader' = reader
    BY <1>1, WorkPulls DEF Work, Raise, Silent, Yield, Produce, ProducerEnds, streamVars, Ask,
       TellAsked, Poll, Consume, Expire, Resume, Route, Execute, TellAgent, Refuse, TellError,
       TellComplete, Store, Return
  <2>2. pump' # "done"
    BY <1>1, <2>1 DEF Work, Raise, Silent, Yield, Produce, ProducerEnds, streamVars, Ask, TellAsked,
       Poll, Consume, Expire, Resume, Route, Execute, TellAgent, Refuse, TellError, TellComplete,
       Store, Return
  <2>3. pc' # "dead"
    BY <1>1 DEF Work, Raise, Commit, Ask, TellAsked, Poll, Consume, Expire, Resume, Route, Execute,
       TellAgent, Refuse, TellError, TellComplete, Store, Return, gateVars
  <2>. QED  BY <2>1, <2>2, <2>3 DEF Served
<1>2. CASE Stream
  <2>1. pc' = pc
    BY <1>2 DEF Stream, gateVars
  <2>2. CASE Put \/ PutEnd \/ Pulse
    BY <1>0, <2>1, <2>2, PutServes
  <2>3. CASE Get
    BY <1>0, <2>1, <2>3, GetServes
  <2>4. CASE Close \/ Leaving
    BY <2>4 DEF Served, Close, Leaving, Leave, Abandon, Drain, Drained
  <2>. QED  BY <1>2, <2>2, <2>3, <2>4 DEF Stream, Reading, Pumping
<1>3. CASE Cancel \/ Crash
  BY <1>3 DEF Served, Cancel, CancelPump, Crash
<1>4. CASE Forget \/ (\E a \in BOOLEAN : Decide(a)) \/ UNCHANGED vars
  BY <1>4 DEF Served, Forget, Decide, vars, streamVars, gateVars
<1>. QED  BY <1>1, <1>2, <1>3, <1>4 DEF Next

\* A client that reads does not wait for ever: the sentinel is put whatever becomes
\* of the coroutine, and nobody takes it but the reader (routers/workflows.py,
\* _merge_heartbeat_stream).
THEOREM NeverStuckHolds == Spec => []NeverStuck
<1>1. Init => Served
  BY DEF Init, StreamInit, Served
<1>2. ASSUME Served  PROVE NeverStuck
  BY <1>2, EmptySeq DEF Served, NeverStuck
<1>. QED  BY <1>1, <1>2, ServedStep, InvHolds, PTL DEF Spec
=============================================================================
