---------------------------- MODULE EventStream ----------------------------
(***************************************************************************)
(* _merge_heartbeat_stream (routers/workflows.py): the events of a         *)
(* producer and heartbeats go through one bounded queue to a client that   *)
(* may leave.  The pump is the task that runs the producer: it asks it for *)
(* the next event only when the last one is in the queue.                  *)
(*                                                                         *)
(* An event is its number; what the numbers stand for is the producer's.   *)
(***************************************************************************)
EXTENDS Integers, Sequences

CONSTANT Capacity   \* of the queue, 512 in the code

ASSUME StreamAssumption == Capacity \in Nat \ {0}

VARIABLES
    sent,     \* how many events the producer has yielded
    pump,     \* the task task_p
    pulse,    \* the task task_h
    queue,
    reader,   \* the generator that the response iterates
    seen      \* how many events it has yielded to the client

streamVars == <<sent, pump, pulse, queue, reader, seen>>

Beat == 0     \* a heartbeat; events count from 1
End == -1     \* the sentinel

StreamTypeOK ==
    /\ sent \in Nat /\ seen \in Nat
    /\ pump \in {"pulling", "putting", "closing", "done"}
    /\ pulse \in BOOLEAN
    /\ queue \in Seq(Nat \cup {End}) /\ Len(queue) <= Capacity
    /\ reader \in {"reading", "ending", "closed", "left", "draining", "gone"}

StreamInit ==
    /\ sent = 0 /\ pump = "pulling" /\ pulse = TRUE /\ queue = <<>>
    /\ reader = "reading" /\ seen = 0

HasRoom == Len(queue) < Capacity

(***************************************************************************)
(* The pump                                                                *)
(***************************************************************************)

\* The producer yields.
Produce ==
    /\ pump = "pulling"
    /\ sent' = sent + 1 /\ pump' = "putting"
    /\ UNCHANGED <<pulse, queue, reader, seen>>

\* It returns, or it raises: the finally of the pump puts the sentinel.
ProducerEnds ==
    /\ pump = "pulling"
    /\ pump' = "closing"
    /\ UNCHANGED <<sent, pulse, queue, reader, seen>>

\* (Definitions with a suffix after the underscore, here and in HumanGate, are
\* broken variants of the definition that follows; nothing uses them.)
Put_anyway ==
    /\ pump = "putting"
    /\ queue' = IF HasRoom THEN Append(queue, sent) ELSE queue
    /\ pump' = "pulling"
    /\ UNCHANGED <<sent, pulse, reader, seen>>
Put ==
    /\ pump = "putting" /\ HasRoom
    /\ queue' = Append(queue, sent) /\ pump' = "pulling"
    /\ UNCHANGED <<sent, pulse, reader, seen>>

PutEnd_nowait ==
    /\ pump = "closing" /\ pump' = "done"
    /\ queue' = IF HasRoom THEN Append(queue, End) ELSE queue
    /\ UNCHANGED <<sent, pulse, reader, seen>>
PutEnd ==
    /\ pump = "closing" /\ HasRoom
    /\ queue' = Append(queue, End) /\ pump' = "done"
    /\ UNCHANGED <<sent, pulse, reader, seen>>

\* The pump is canceled: inside the producer or while it puts an event, the
\* finally is still to come; inside the finally, there is no sentinel.
PumpCanceled ==
    /\ pump # "done"
    /\ pump' = IF pump = "closing" THEN "done" ELSE "closing"
    /\ UNCHANGED <<sent, pulse, queue, seen>>

(***************************************************************************)
(* The heartbeat and the reader                                            *)
(***************************************************************************)

Pulse ==
    /\ pulse /\ HasRoom
    /\ queue' = Append(queue, Beat)
    /\ UNCHANGED <<sent, pump, pulse, reader, seen>>

\* Heartbeats are passed on to the client, and not counted.
Get ==
    /\ reader = "reading" /\ queue # <<>>
    /\ queue' = Tail(queue)
    /\ IF Head(queue) = End
       THEN reader' = "ending" /\ UNCHANGED seen
       ELSE seen' = (IF Head(queue) = Beat THEN seen ELSE seen + 1) /\ UNCHANGED reader
    /\ UNCHANGED <<sent, pump, pulse>>

\* The finally after the sentinel.  Its await of the pump raises what the producer
\* raised, and the response breaks off instead of ending: whether that is so, the
\* producer's module says.
Close ==
    /\ reader = "ending" /\ pump = "done"
    /\ reader' = "closed" /\ pulse' = FALSE
    /\ UNCHANGED <<sent, pump, queue, seen>>

\* The client goes away and the generator is canceled at its get.
Leave ==
    /\ reader = "reading"
    /\ reader' = "left" /\ pulse' = FALSE
    /\ UNCHANGED <<sent, pump, queue, seen>>

\* Cancellation is delivered once more, at the gather or at the wait for the
\* pump: the pump is abandoned, or it is canceled too.  Or it is not, and the
\* generator waits for a pump that nobody reads from.
Abandon == reader = "left" /\ reader' = "gone" /\ UNCHANGED <<sent, pump, pulse, queue, seen>>
Drain == reader = "left" /\ reader' = "draining" /\ UNCHANGED <<sent, pump, pulse, queue, seen>>
Drained ==
    /\ reader = "draining" /\ pump = "done"
    /\ reader' = "gone" /\ UNCHANGED <<sent, pump, pulse, queue, seen>>
CancelPump == reader = "left" /\ PumpCanceled /\ reader' = "gone"

Reading == Get \/ Close
Leaving == Leave \/ Abandon \/ Drain \/ Drained
Pumping == Put \/ PutEnd

(***************************************************************************)
(* Properties                                                              *)
(***************************************************************************)

\* Hazard: two tasks put on one queue, the last put is in a finally, and the
\* reader stops at the first sentinel.  An event that comes out is the next one
\* that went in.
InOrder == queue # <<>> /\ Head(queue) \notin {Beat, End} => Head(queue) = seen + 1

\* Hazard: a stream that closes early looks like a run that said all it had to
\* say.  When the stream closes, the client has got everything.
ClosedIsWhole == reader \in {"ending", "closed"} => seen = sent /\ pump = "done"
=============================================================================
