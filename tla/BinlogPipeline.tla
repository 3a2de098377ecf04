-------------------------- MODULE BinlogPipeline ---------------------------
(***************************************************************************)
(* From the MySQL stream to the instance, and the end of the process:      *)
(*   - the replication thread (canal-binlog/src/connector.rs,              *)
(*     run_replication), blocking, that decodes binlog events and sends    *)
(*     their rows into a bounded channel;                                  *)
(*   - connect(), which spawns it and waits for its start signal;          *)
(*   - the feeder task (canal-cli/src/main.rs), which collects rows into   *)
(*     batches and feeds them to the instance;                             *)
(*   - run_server, which waits for serve() and then for the feeder, and    *)
(*     the runtime, whose end waits for the thread.                        *)
(* The MySQL server and mysql_cdc's decoder are the environment.           *)
(***************************************************************************)
EXTENDS Naturals, Sequences

CONSTANTS
    ChannelCapacity,   \* mpsc::channel(4096)
    BatchLimit,        \* rows that make the feeder flush (256)
    MaxEventRows,      \* bound: rows in one binlog event
    MaxRows,           \* bound: rows decoded in a behaviour
    MaxErrors          \* bound: error items of the stream

ASSUME PipelineAssumption ==
    /\ ChannelCapacity \in Nat \ {0} /\ BatchLimit \in Nat \ {0}
    /\ MaxEventRows \in Nat /\ MaxRows \in Nat /\ MaxErrors \in Nat

VARIABLES
    thread,      \* the replication thread: its state and the sends it still owes
    connector,   \* DefaultBinlogConnector: running, connected, cancelled, dropped
    channel,     \* what the mpsc channel holds
    feeder,      \* the feeder task: where it is, its batch
    main,        \* run_server: "serving", "waiting" for the feeder, "returned"
    shutdown,    \* the server's shutdown token
    instance,    \* CanalInstance.running
    hist         \* history: rows decoded, fed and refused; errors

vars == <<thread, connector, channel, feeder, main, shutdown, instance, hist>>

-----------------------------------------------------------------------------
Err == 0                      \* a CanalResult::Err in the channel; rows are 1, 2, ...

IsRow(x) == x # Err

Init ==
    /\ thread = [pc |-> "none", owes |-> <<>>, signalled |-> FALSE]
    /\ connector = [running |-> FALSE, connected |-> FALSE, cancelled |-> FALSE,
                    dropped |-> FALSE]
    /\ channel = <<>>
    /\ feeder = [pc |-> "new", batch |-> <<>>, ticked |-> FALSE]
    /\ main = "serving"
    /\ shutdown = FALSE
    /\ instance = TRUE           \* start_all ran before the feeder was spawned
    /\ hist = [decoded |-> 0, handed |-> <<>>, refused |-> {}, errors |-> 0]

(* The receiver lives in the feeder task.  A sender is held by the thread  *)
(* and another by the connector itself (connect clones self.sender), which *)
(* lives in the feeder task too.                                           *)
ReceiverAlive == feeder.pc # "ended"

SendersAlive == thread.pc \in {"starting", "pulling", "sending"} \/ ~ connector.dropped

-----------------------------------------------------------------------------
(* The feeder task ends: it drops the receiver and the connector, whose    *)
(* Drop cancels the thread's token.                                        *)
(* Fault: no Drop, the token is never cancelled.                           *)
EndFeederWithoutCancel ==
    /\ feeder' = [feeder EXCEPT !.pc = "ended", !.batch = <<>>]
    /\ connector' = [connector EXCEPT !.dropped = TRUE]

EndFeeder ==
    /\ feeder' = [feeder EXCEPT !.pc = "ended", !.batch = <<>>]
    /\ connector' = [connector EXCEPT !.cancelled = TRUE, !.dropped = TRUE]

(* DefaultBinlogConnector::new fails.                                      *)
NewFails ==
    /\ feeder.pc = "new"
    /\ EndFeeder
    /\ shutdown' = TRUE
    /\ UNCHANGED <<thread, channel, main, instance, hist>>

(* connect(), up to its wait for the start signal.                         *)
Connect ==
    /\ feeder.pc = "new"
    /\ feeder' = [feeder EXCEPT !.pc = "connecting"]
    /\ connector' = [connector EXCEPT !.running = TRUE]
    /\ thread' = [thread EXCEPT !.pc = "starting"]
    /\ UNCHANGED <<channel, main, shutdown, instance, hist>>

(* The signal came, or the thread died without one; both return Ok.        *)
Connected ==
    /\ feeder.pc = "connecting"
    /\ thread.signalled \/ thread.pc = "done"
    /\ feeder' = [feeder EXCEPT !.pc = "loop"]
    /\ connector' = IF thread.signalled
                    THEN [connector EXCEPT !.connected = TRUE]
                    ELSE [connector EXCEPT !.running = FALSE]
    /\ UNCHANGED <<thread, channel, main, shutdown, instance, hist>>

(* No signal in time: the token is cancelled, connect() fails and the      *)
(* feeder shuts the server down.                                           *)
ConnectTimeout ==
    /\ feeder.pc = "connecting"
    /\ ~ thread.signalled
    /\ feeder' = [feeder EXCEPT !.pc = "ended"]
    /\ connector' = [connector EXCEPT !.running = FALSE, !.cancelled = TRUE,
                                      !.dropped = TRUE]
    /\ shutdown' = TRUE
    /\ UNCHANGED <<thread, channel, main, instance, hist>>

-----------------------------------------------------------------------------
(* run_replication.  blocking_send waits for room while the receiver       *)
(* lives, and fails at once when it is gone.                               *)
(* Fault: a try_send that drops the row when the channel is full.          *)
PushOrDrop(x) ==
    IF ReceiverAlive /\ Len(channel) < ChannelCapacity
    THEN channel' = Append(channel, x)
    ELSE UNCHANGED channel

Push(x) ==
    \/ ReceiverAlive /\ Len(channel) < ChannelCapacity /\ channel' = Append(channel, x)
    \/ ~ ReceiverAlive /\ UNCHANGED channel

(* replicate() fails: the error is sent and the start is signalled anyway. *)
ReplicateFails ==
    /\ thread.pc = "starting"
    /\ Push(Err)
    /\ thread' = [thread EXCEPT !.pc = "done", !.signalled = ReceiverAlive]
    /\ UNCHANGED <<connector, feeder, main, shutdown, instance, hist>>

(* A panic before the guarded loop: the start signal is dropped.           *)
ThreadPanics ==
    /\ thread.pc = "starting"
    /\ thread' = [thread EXCEPT !.pc = "done"]
    /\ UNCHANGED <<connector, channel, feeder, main, shutdown, instance, hist>>

Replicates ==
    /\ thread.pc = "starting"
    /\ thread' = [thread EXCEPT !.pc = "pulling", !.signalled = TRUE]
    /\ UNCHANGED <<connector, channel, feeder, main, shutdown, instance, hist>>

(* An item arrives after the cancellation: the loop ends.  The token is    *)
(* looked at nowhere else.                                                 *)
Cancelled ==
    /\ thread.pc = "pulling"
    /\ connector.cancelled
    /\ thread' = [thread EXCEPT !.pc = "done"]
    /\ UNCHANGED <<connector, channel, feeder, main, shutdown, instance, hist>>

(* The next binlog event: n rows, each sent as an event or, when it cannot *)
(* be converted, as an error.  n = 0: table map, rotate, xid, heartbeat.   *)
Pull(n) ==
    /\ thread.pc = "pulling"
    /\ ~ connector.cancelled
    /\ hist.decoded + n <= MaxRows
    /\ \E items \in [1 .. n -> BOOLEAN] :
         LET bad == {i \in 1 .. n : ~ items[i]}
         IN  /\ bad # {} => hist.errors < MaxErrors
             /\ thread' = [thread EXCEPT
                  !.pc = IF n = 0 THEN "pulling" ELSE "sending",
                  !.owes = [i \in 1 .. n |-> IF items[i] THEN hist.decoded + i ELSE Err]]
             /\ hist' = [hist EXCEPT
                  !.decoded = @ + n,
                  !.refused = @ \cup {hist.decoded + i : i \in bad},
                  !.errors = IF bad = {} THEN @ ELSE @ + 1]
    /\ UNCHANGED <<connector, channel, feeder, main, shutdown, instance>>

(* A stream error is sent on like an unconvertible row; the loop goes on   *)
(* unless the channel is closed.                                           *)
StreamError ==
    /\ thread.pc = "pulling"
    /\ ~ connector.cancelled
    /\ hist.errors < MaxErrors
    /\ Push(Err)
    /\ thread' = [thread EXCEPT !.pc = IF ReceiverAlive THEN "pulling" ELSE "done"]
    /\ hist' = [hist EXCEPT !.errors = @ + 1]
    /\ UNCHANGED <<connector, feeder, main, shutdown, instance>>

(* The stream is exhausted, or the decoder panicked (an error is sent).    *)
StreamDone ==
    /\ thread.pc = "pulling"
    /\ thread' = [thread EXCEPT !.pc = "done"]
    /\ UNCHANGED <<connector, channel, feeder, main, shutdown, instance, hist>>

DecoderPanics ==
    /\ thread.pc = "pulling"
    /\ Push(Err)
    /\ thread' = [thread EXCEPT !.pc = "done"]
    /\ UNCHANGED <<connector, feeder, main, shutdown, instance, hist>>

SendRow ==
    /\ thread.pc = "sending"
    /\ Push(Head(thread.owes))
    /\ thread' = [thread EXCEPT
                    !.owes = Tail(@),
                    !.pc = IF Len(thread.owes) = 1 THEN "pulling" ELSE "sending"]
    /\ UNCHANGED <<connector, feeder, main, shutdown, instance, hist>>

-----------------------------------------------------------------------------
(* feed(): an instance that is not running refuses the batch, which is     *)
(* then gone.                                                              *)
Feed(batch) ==
    hist' = [hist EXCEPT
               !.handed = @ \o batch,
               !.refused = IF instance THEN @
                           ELSE @ \cup {batch[i] : i \in 1 .. Len(batch)}]

(* Fault: the batch is flushed one row too late.                           *)
FullLate(batch) == Len(batch) > BatchLimit

Full(batch) == Len(batch) >= BatchLimit

(* Some(Ok(event)): collected; at the limit the batch is fed at once.      *)
Collect(row) ==
    LET batch == Append(feeder.batch, row)
    IN  /\ IF Full(batch)
           THEN /\ Feed(batch)
                /\ feeder' = [feeder EXCEPT !.batch = <<>>]
           ELSE /\ feeder' = [feeder EXCEPT !.batch = batch]
                /\ UNCHANGED hist
        /\ UNCHANGED <<connector, shutdown>>

(* None: out of the loop, the rest is fed and the server is shut down.     *)
Finish ==
    /\ Feed(feeder.batch)
    /\ EndFeeder
    /\ shutdown' = TRUE

(* rx.recv().  An error is logged; None comes when the channel is empty    *)
(* and no sender is left.                                                  *)
Recv ==
    /\ feeder.pc = "loop"
    /\ CASE channel # <<>> /\ IsRow(Head(channel)) -> Collect(Head(channel))
         [] channel # <<>> /\ ~ IsRow(Head(channel)) ->
                UNCHANGED <<connector, feeder, shutdown, hist>>
         [] channel = <<>> /\ ~ SendersAlive -> Finish
         [] OTHER -> FALSE
    /\ channel' = IF channel = <<>> THEN <<>> ELSE Tail(channel)
    /\ UNCHANGED <<thread, main, instance>>

(* The 200 ms interval.                                                    *)
Tick ==
    /\ feeder.pc = "loop"
    /\ feeder.batch # <<>> \/ (main = "waiting" /\ ~ feeder.ticked)
    /\ Feed(feeder.batch)
    /\ feeder' = [feeder EXCEPT !.batch = <<>>, !.ticked = (main = "waiting")]
    /\ UNCHANGED <<thread, connector, channel, main, shutdown, instance>>

-----------------------------------------------------------------------------
Sigint ==
    /\ shutdown' = TRUE
    /\ UNCHANGED <<thread, connector, channel, feeder, main, instance, hist>>

ServeReturns ==
    /\ main = "serving"
    /\ shutdown
    /\ main' = "waiting"
    /\ UNCHANGED <<thread, connector, channel, feeder, shutdown, instance, hist>>

FeederJoined ==
    /\ main = "waiting"
    /\ feeder.pc = "ended"
    /\ main' = "returned"
    /\ UNCHANGED <<thread, connector, channel, feeder, shutdown, instance, hist>>

(* 5 s passed, so a feeder in its loop has ticked since: it is aborted and *)
(* what it had collected goes with it.                                     *)
AbortFeeder ==
    /\ main = "waiting"
    /\ feeder.pc # "ended"
    /\ feeder.pc = "loop" => feeder.ticked
    /\ main' = "returned"
    /\ EndFeeder
    /\ UNCHANGED <<thread, channel, shutdown, instance, hist>>

(* The admin API stops and starts the instance.                            *)
SetInstance(b) ==
    /\ instance # b
    /\ main # "returned"
    /\ instance' = b
    /\ UNCHANGED <<thread, connector, channel, feeder, main, shutdown, hist>>

(* The runtime is dropped: that waits for the blocking thread.             *)
Exited == main = "returned" /\ thread.pc \in {"none", "done"}

ThreadStep ==
    \/ ReplicateFails \/ ThreadPanics \/ Replicates \/ Cancelled \/ StreamError \/ StreamDone
    \/ DecoderPanics \/ SendRow
    \/ \E n \in 0 .. MaxEventRows : Pull(n)

FeederStep ==
    \/ NewFails \/ Connect \/ Connected \/ ConnectTimeout
    \/ Recv \/ Tick

Next ==
    \/ ThreadStep \/ FeederStep
    \/ Sigint \/ ServeReturns \/ FeederJoined \/ AbortFeeder
    \/ \E b \in BOOLEAN : SetInstance(b)

(* Tasks that can move do; both waits have timeouts; serve() returns       *)
(* (CanalServer's ShutdownCompletes); and the MySQL server sends at least  *)
(* its heartbeats, so a thread that waits for an item gets one.            *)
Fairness ==
    /\ WF_vars(ServeReturns) /\ WF_vars(FeederJoined) /\ WF_vars(AbortFeeder)
    /\ WF_vars(NewFails \/ Connect) /\ WF_vars(Connected \/ ConnectTimeout)
    /\ WF_vars(Recv) /\ WF_vars(Tick)
    /\ WF_vars(ReplicateFails \/ ThreadPanics \/ Replicates) /\ WF_vars(Cancelled) /\ WF_vars(SendRow)

Spec == Init /\ [][Next]_vars /\ Fairness
-----------------------------------------------------------------------------
(* Properties.                                                             *)

Item == Nat

TypeOK ==
    /\ thread \in [pc : {"none", "starting", "pulling", "sending", "done"},
                   owes : Seq(Item), signalled : BOOLEAN]
    /\ connector \in [running : BOOLEAN, connected : BOOLEAN,
                      cancelled : BOOLEAN, dropped : BOOLEAN]
    /\ channel \in Seq(Item) /\ Len(channel) <= ChannelCapacity
    /\ feeder \in [pc : {"new", "connecting", "loop", "ended"},
                   batch : Seq(Item), ticked : BOOLEAN]
    /\ Len(feeder.batch) < BatchLimit
    /\ main \in {"serving", "waiting", "returned"}
    /\ shutdown \in BOOLEAN /\ instance \in BOOLEAN

(* What is on its way, oldest first: fed, collected, queued, being sent.   *)
Flow(handed, batch, queued, owed) == handed \o batch \o queued \o owed

InFlight == Flow(hist.handed, feeder.batch, channel, thread.owes)

RowsInOrder(items) ==
    \A i, j \in 1 .. Len(items) :
        i < j /\ IsRow(items[i]) /\ IsRow(items[j]) => items[i] < items[j]

(* Between the thread's blocking_send and feed() no row is lost, doubled   *)
(* or overtaken while the feeder lives (connector.rs:385-472, main.rs:     *)
(* 167-196): the rows on their way are in stream order, and every row      *)
(* decoded is among them or was reported as unconvertible or refused by a  *)
(* stopped instance.                                                       *)
RowsKeptInOrder ==
    ReceiverAlive =>
        /\ RowsInOrder(InFlight)
        /\ \A n \in 1 .. hist.decoded :
              n \in hist.refused \/ \E i \in 1 .. Len(InFlight) : InFlight[i] = n

(* The process ends after SIGINT (main.rs:122-128, 209-221) whatever the   *)
(* pipeline was doing: serve() returns, the feeder is joined or aborted,   *)
(* and the thread, even when it is blocked on a full channel, sees the     *)
(* cancellation its connector's Drop sends.                                *)
ShutdownEndsProcess == shutdown ~> Exited

(* "Binlog stream ended, triggering shutdown" (main.rs:183): when the      *)
(* replication thread is done the feeder finds out and stops the server.   *)
StreamEndTriggersShutdown == thread.pc = "done" ~> shutdown
=============================================================================
