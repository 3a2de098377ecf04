---------------------------- MODULE SinkDispatch ---------------------------
(***************************************************************************)
(* DefaultEventSink (canal-sink/src/sink.rs): batches are filtered, put    *)
(* into the store and queued for a background worker, which dispatches     *)
(* each of them to every connector in turn; and the Kafka connector        *)
(* (canal-connector/src/kafka.rs), which sends a batch's messages          *)
(* concurrently and reports after the last.                                *)
(*                                                                         *)
(* sink() takes &self, so callers may overlap; they race for the lazily    *)
(* started worker.  A batch is known by its number, in the order in which  *)
(* the store took them, and its size; a message by its batch and its place *)
(* in it.  The store itself is EventStore's matter.                        *)
(***************************************************************************)
EXTENDS Integers, Sequences, FiniteSets, SequencesExt

CONSTANTS
    Callers,       \* tasks that call sink()
    Connectors,    \* how many connectors the sink has; they are 1 .. Connectors
    MaxInFlight,   \* permits of the semaphore in dispatch() (50)
    MaxSize,       \* bound: events in a batch, before and after the filter
    MaxBatches     \* bound: batches stored

ASSUME SinkAssumption ==
    /\ Connectors \in Nat /\ MaxInFlight \in Nat \ {0}
    /\ MaxSize \in Nat /\ MaxBatches \in Nat

VARIABLES
    alive,       \* the sink has not been dropped
    caller,      \* per caller: the batch it has stored and not yet queued, or 0
    stored,      \* batches in the order the store took them: caller and size
    dispatch_tx, \* the worker whose sender the sink keeps, or 0
    workers,     \* per worker ever spawned: its queue and what it is doing
    connected,   \* per connector: KafkaConnector.producer is Some
    topic,       \* per connector: messages the broker has confirmed, in order
    tried,       \* history per connector: batches whose dispatch has returned
    metrics

vars == <<alive, caller, stored, dispatch_tx, workers, connected, topic, tried, metrics>>

-----------------------------------------------------------------------------
Size(b) == stored[b].size

(* A worker between two requests; at batch b it is with connector `with`,  *)
(* has sent `sent` messages to it, and some are in flight.                 *)
Resting == [batch |-> 0, with |-> 0, sending |-> FALSE, sent |-> 0,
            flying |-> {}, failed |-> FALSE]

Facing(b, c) == [Resting EXCEPT !.batch = b, !.with = c]

Work(w) == workers[w].work

Busy(w) == alive /\ w \in DOMAIN workers /\ Work(w).batch # 0

SetWork(w, work) == workers' = [workers EXCEPT ![w].work = work]

-----------------------------------------------------------------------------
(* sink(), up to and including put_batch.  Nothing left by the filter: the *)
(* call returns at once.                                                   *)
Sink(t) ==
    /\ alive /\ caller[t] = 0
    /\ \E total \in 0 .. MaxSize : \E kept \in 0 .. total :
        /\ metrics' = [metrics EXCEPT !.parsed = @ + total, !.filtered = @ + total - kept]
        /\ metrics'.parsed <= MaxSize * MaxBatches
        /\ IF kept = 0
           THEN UNCHANGED <<stored, caller>>
           ELSE /\ Len(stored) < MaxBatches
                /\ stored' = Append(stored, [by |-> t, size |-> kept])
                /\ caller' = IF Connectors = 0 THEN caller
                             ELSE [caller EXCEPT ![t] = Len(stored')]
    /\ UNCHANGED <<alive, dispatch_tx, workers, connected, topic, tried>>

(* Fault: the sender is not kept, so every batch gets a worker of its own. *)
SpawnAlways(b) ==
    /\ workers' = Append(workers, [queue |-> <<b>>, work |-> Resting])
    /\ UNCHANGED dispatch_tx

(* ensure_worker, under the lock of dispatch_tx, and the send.             *)
SendToWorker(b) ==
    IF dispatch_tx # 0
    THEN /\ workers' = [workers EXCEPT ![dispatch_tx].queue = Append(@, b)]
         /\ UNCHANGED dispatch_tx
    ELSE /\ workers' = Append(workers, [queue |-> <<b>>, work |-> Resting])
         /\ dispatch_tx' = Len(workers')

Enqueue(t) ==
    /\ caller[t] # 0
    /\ SendToWorker(caller[t])
    /\ caller' = [caller EXCEPT ![t] = 0]
    /\ UNCHANGED <<alive, stored, connected, topic, tried, metrics>>

(* Drop: nobody is inside sink().  The worker is aborted where it waits,   *)
(* and what is queued is gone.                                             *)
Drop ==
    /\ alive
    /\ \A t \in Callers : caller[t] = 0
    /\ alive' = FALSE
    /\ dispatch_tx' = 0
    /\ workers' = [w \in DOMAIN workers |-> [queue |-> <<>>, work |-> Resting]]
    /\ UNCHANGED <<caller, stored, connected, topic, tried, metrics>>

-----------------------------------------------------------------------------
(* The worker.                                                             *)
Take(w) ==   \* rx.recv
    /\ alive /\ w \in DOMAIN workers
    /\ Work(w) = Resting /\ workers[w].queue # <<>>
    /\ workers' = [workers EXCEPT ![w] =
                     [queue |-> Tail(@.queue), work |-> Facing(Head(@.queue), 1)]]
    /\ UNCHANGED <<alive, caller, stored, dispatch_tx, connected, topic, tried, metrics>>

(* Fault: the first failure ends the request.                              *)
OnUnlessFailed(w, ok) ==
    IF ok /\ Work(w).with < Connectors THEN Facing(Work(w).batch, Work(w).with + 1)
    ELSE Resting

(* The next connector, however this one fared.                             *)
Onwards(w, ok) ==
    IF Work(w).with < Connectors THEN Facing(Work(w).batch, Work(w).with + 1)
    ELSE Resting

(* Fault: what was asked for is counted, also where it failed.             *)
CountAsked(w, ok) ==
    [metrics EXCEPT !.dispatched = @ + Size(Work(w).batch),
                    !.dispatch_errors = @ + (IF ok THEN 0 ELSE 1)]

Count(w, ok) ==
    IF ok THEN [metrics EXCEPT !.dispatched = @ + Size(Work(w).batch)]
    ELSE [metrics EXCEPT !.dispatch_errors = @ + 1]

Return(w, ok) ==   \* dispatch() returns
    /\ SetWork(w, Onwards(w, ok))
    /\ metrics' = Count(w, ok)
    /\ tried' = [tried EXCEPT ![Work(w).with] = Append(@, Work(w).batch)]

NotConnected(w) ==
    /\ Busy(w) /\ ~ Work(w).sending
    /\ ~ connected[Work(w).with]
    /\ Return(w, FALSE)
    /\ UNCHANGED <<alive, caller, stored, dispatch_tx, connected, topic>>

(* The producer is cloned; a close() from here on is not noticed.          *)
Begin(w) ==
    /\ Busy(w) /\ ~ Work(w).sending
    /\ connected[Work(w).with]
    /\ SetWork(w, [Work(w) EXCEPT !.sending = TRUE])
    /\ UNCHANGED <<alive, caller, stored, dispatch_tx, connected, topic, tried, metrics>>

(* Fault: one permit too many.                                             *)
HasPermitLate(w) == Cardinality(Work(w).flying) <= MaxInFlight

HasPermit(w) == Cardinality(Work(w).flying) < MaxInFlight   \* semaphore.acquire

Produce(w) ==
    /\ Busy(w) /\ Work(w).sending
    /\ Work(w).sent < Size(Work(w).batch)
    /\ HasPermit(w)
    /\ SetWork(w, [Work(w) EXCEPT !.sent = @ + 1, !.flying = @ \cup {Work(w).sent + 1}])
    /\ UNCHANGED <<alive, caller, stored, dispatch_tx, connected, topic, tried, metrics>>

(* The broker confirms a message.  Its answers come in any order: messages *)
(* go to several partitions, and some are retried.  Copies that never get  *)
(* an answer (acks=1, message.timeout.ms) may reach the topic as well, at  *)
(* any time; they are left out, and the properties are about confirmed     *)
(* messages.                                                               *)
Delivered(w) ==
    /\ Busy(w)
    /\ \E m \in Work(w).flying :
        /\ topic' = [topic EXCEPT ![Work(w).with] = Append(@, <<Work(w).batch, m>>)]
        /\ SetWork(w, [Work(w) EXCEPT !.flying = @ \ {m}])
    /\ UNCHANGED <<alive, caller, stored, dispatch_tx, connected, tried, metrics>>

Failed(w) ==
    /\ Busy(w)
    /\ \E m \in Work(w).flying :
        SetWork(w, [Work(w) EXCEPT !.flying = @ \ {m}, !.failed = TRUE])
    /\ UNCHANGED <<alive, caller, stored, dispatch_tx, connected, topic, tried, metrics>>

AllAnswered(w) == Work(w).sent = Size(Work(w).batch) /\ Work(w).flying = {}   \* join_all

Finish(w) ==
    /\ Busy(w) /\ Work(w).sending
    /\ AllAnswered(w)
    /\ Return(w, ~ Work(w).failed)
    /\ UNCHANGED <<alive, caller, stored, dispatch_tx, connected, topic>>

(* KafkaConnector.connect and close, called by whoever owns the connector. *)
Connect(c) ==
    /\ connected' = [connected EXCEPT ![c] = TRUE]
    /\ UNCHANGED <<alive, caller, stored, dispatch_tx, workers, topic, tried, metrics>>

Close(c) ==
    /\ connected' = [connected EXCEPT ![c] = FALSE]
    /\ UNCHANGED <<alive, caller, stored, dispatch_tx, workers, topic, tried, metrics>>
-----------------------------------------------------------------------------
Init ==
    /\ alive = TRUE
    /\ caller = [t \in Callers |-> 0]
    /\ stored = <<>>
    /\ dispatch_tx = 0
    /\ workers = <<>>
    /\ connected = [c \in 1 .. Connectors |-> FALSE]
    /\ topic = [c \in 1 .. Connectors |-> <<>>]
    /\ tried = [c \in 1 .. Connectors |-> <<>>]
    /\ metrics = [parsed |-> 0, filtered |-> 0, dispatched |-> 0, dispatch_errors |-> 0]

WorkerStep(w) ==
    \/ Take(w) \/ NotConnected(w) \/ Begin(w) \/ Produce(w)
    \/ Delivered(w) \/ Failed(w) \/ Finish(w)

Next ==
    \/ \E t \in Callers : Sink(t) \/ Enqueue(t)
    \/ Drop
    \/ \E w \in 1 .. MaxBatches : WorkerStep(w)
    \/ \E c \in 1 .. Connectors : Connect(c) \/ Close(c)

(* A call goes on once it has stored its batch, the worker's task is       *)
(* polled, and every send is answered within its timeout of 5 s.           *)
Fairness ==
    /\ \A t \in Callers : WF_vars(Enqueue(t))
    /\ \A w \in 1 .. MaxBatches : WF_vars(WorkerStep(w))

Spec == Init /\ [][Next]_vars /\ Fairness
-----------------------------------------------------------------------------
(* Properties.                                                             *)

SinkTypeOK ==
    /\ alive \in BOOLEAN
    /\ caller \in [Callers -> 0 .. MaxBatches]
    /\ dispatch_tx \in 0 .. Len(workers)
    /\ \A w \in DOMAIN workers :
        /\ workers[w].queue \in Seq(1 .. Len(stored))
        /\ Work(w).with \in 0 .. Connectors
        /\ Work(w).flying \subseteq 1 .. Work(w).sent
        /\ Cardinality(Work(w).flying) <= MaxInFlight
    /\ connected \in [1 .. Connectors -> BOOLEAN]
    /\ metrics \in [{"parsed", "filtered", "dispatched", "dispatch_errors"} -> Nat]

(* "a background FIFO worker that preserves batch ordering" (sink.rs:      *)
(* 44-46): at no connector is a message of an earlier batch of a caller    *)
(* confirmed after one of a later batch, whichever dispatches failed in    *)
(* between, and none is confirmed twice.  For the one feeder of run_server *)
(* this is the order of the store.                                         *)
BatchesInOrder ==
    \A c \in 1 .. Connectors : \A i, j \in 1 .. Len(topic[c]) :
        i < j => /\ topic[c][i] # topic[c][j]
                 /\ stored[topic[c][i][1]].by = stored[topic[c][j][1]].by
                    => topic[c][i][1] <= topic[c][j][1]

(* The metrics tell the truth (sink.rs:122-128, kafka.rs:282-303): the     *)
(* events counted as dispatched are those of the batches a connector has   *)
(* confirmed in full, and every dispatch that fell short is one error,     *)
(* whatever connections, partial failures and answers in between.          *)
Returned == {p \in (1 .. Connectors) \X (1 .. Len(stored)) : p[2] \in ToSet(tried[p[1]])}

Whole(p) == \A m \in 1 .. Size(p[2]) : <<p[2], m>> \in ToSet(topic[p[1]])

EventsOf(dispatches) == UNION {{p} \X (1 .. Size(p[2])) : p \in dispatches}

MetricsTellTheTruth ==
    /\ metrics.dispatched = Cardinality(EventsOf({p \in Returned : Whole(p)}))
    /\ metrics.dispatch_errors = Cardinality({p \in Returned : ~ Whole(p)})

(* A connector that fails holds nobody up: every batch that was stored is  *)
(* tried with every connector (sink.rs:121-129), unless the sink is        *)
(* dropped first (sink.rs:140-147).                                        *)
EveryBatchTried ==
    \A b \in 1 .. MaxBatches, c \in 1 .. Connectors :
        b <= Len(stored) ~> b \in ToSet(tried[c]) \/ ~ alive
=============================================================================
