---------------------------- MODULE CanalClient ----------------------------
(***************************************************************************)
(* The subscriber's library (canal-client/src/lib.rs) against the server:  *)
(* connect, subscribe, the background poll loop Get -> Messages ->         *)
(* ClientAck, and the stream its consumer reads.  Each client has the      *)
(* connection of its own name; the two directions of its socket are FIFO   *)
(* queues of packets.  Either side may notice a broken connection first.   *)
(*                                                                         *)
(* The server only ever answers a Get with Messages or with an Ack, so the *)
(* loop's branch for other packets, which backs off, cannot be taken.  A   *)
(* client subscribes with the filter it authenticated with, so a Sub is    *)
(* never refused (and a refusal would not be noticed, lib.rs:113).  The    *)
(* end of serve() is CanalServer's: to a client it is a lost connection.   *)
(***************************************************************************)
EXTENDS CanalServer, Selection, SequencesExt

CONSTANTS
    IdOf,          \* CanalClient.client_id
    FilterOf,      \* CanalClient.filter
    FetchSize,     \* fetch_size of every Get (100)
    ChannelSize    \* mpsc::channel(1024) between poll loop and consumer

ASSUME ClientAssumption ==
    /\ IdOf \in [Readers -> ClientIds] /\ \A c \in Readers : IdOf[c] \in IdsOf[c]
    /\ FilterOf \in [Readers -> Filters]
    /\ FetchSize \in Nat /\ ChannelSize \in Nat \ {0}

VARIABLES
    client,     \* per client: the library's state and its background task
    wire,       \* per client: packets to the server, packets from it
    flow        \* history per client: the rows and the ends of the batches
                \* the server has read for it, and the rows its consumer was
                \* given, in order

clientVars == <<client, wire, flow>>

allVars == <<vars, clientVars>>

-----------------------------------------------------------------------------
(* pc: "new"; connect() awaiting its Ack; "connected" (stream is Some);    *)
(* subscribe() awaiting its Ack; and in the poll loop "get", "answer",     *)
(* "forward", "done".  admitted: the server has no auth_token, since the   *)
(* client's password is always empty.                                      *)
NewSubscriber(admitted) ==
    [pc |-> "new", admitted |-> admitted, batch |-> <<>>, batch_id |-> 0,
     channel |-> <<>>, stream |-> "none"]

At(c, pc) == client[c].pc = pc

Goto(c, pc) == client' = [client EXCEPT ![c].pc = pc]

Send(c, packet) == wire' = [wire EXCEPT ![c].up = Append(@, packet)]   \* send_packet

Incoming(c, type) == wire[c].down # <<>> /\ Head(wire[c].down).type = type

Read(c) == wire' = [wire EXCEPT ![c].down = Tail(@)]   \* read_packet

-----------------------------------------------------------------------------
(* connect(): TCP connection, ClientAuth, Ack.                             *)
Connect(c) ==
    /\ At(c, "new")
    /\ Accept(c)
    /\ Goto(c, "auth")
    /\ wire' = [wire EXCEPT ![c] = [up |-> <<[type |-> "Auth"]>>, down |-> <<>>]]
    /\ UNCHANGED flow

(* An error in the Ack fails connect(), which drops the socket.            *)
Connected(c) ==
    /\ At(c, "auth") /\ Incoming(c, "Ack")
    /\ Goto(c, IF Head(wire[c].down).ok THEN "connected" ELSE "new")
    /\ Read(c)
    /\ UNCHANGED <<vars, flow>>

(* subscribe(): Sub, Ack, and the poll loop is spawned.                    *)
Subscribe(c) ==
    /\ At(c, "connected")
    /\ Goto(c, "sub")
    /\ Send(c, [type |-> "Sub"])
    /\ UNCHANGED <<vars, flow>>

Subscribed(c) ==
    /\ At(c, "sub") /\ Incoming(c, "Ack")
    /\ client' = [client EXCEPT ![c].pc = "get", ![c].stream = "open"]
    /\ Read(c)
    /\ UNCHANGED <<vars, flow>>

-----------------------------------------------------------------------------
(* The poll loop.                                                          *)
SendGet(c) ==
    /\ At(c, "get")
    /\ Goto(c, "answer")
    /\ Send(c, [type |-> "Get"])
    /\ UNCHANGED <<vars, flow>>

TakeMessages(c) ==
    /\ At(c, "answer") /\ Incoming(c, "Messages")
    /\ client' = [client EXCEPT ![c].pc = "forward",
                                ![c].batch = Head(wire[c].down).rows,
                                ![c].batch_id = Head(wire[c].down).batch_id]
    /\ UNCHANGED <<vars, flow>>

(* Fault: the batch is acknowledged before it is handed over.              *)
AckMessages(c) ==
    /\ TakeMessages(c)
    /\ wire' = [wire EXCEPT ![c].down = Tail(@),
                            ![c].up = Append(@, [type |-> "ClientAck",
                                                 batch_id |-> Head(wire[c].down).batch_id])]

ReadMessages(c) ==
    /\ TakeMessages(c)
    /\ Read(c)

(* Any Ack counts as terminal, an error as well.                           *)
TerminalAck(c) ==
    /\ At(c, "answer") /\ Incoming(c, "Ack")
    /\ Goto(c, "done")
    /\ Read(c)
    /\ UNCHANGED <<vars, flow>>

(* Fault: a row that finds the channel full is dropped (try_send).         *)
TryEnqueue(c) ==
    client' = [client EXCEPT
        ![c].batch = Tail(@),
        ![c].channel = IF Len(@) < ChannelSize
                       THEN Append(@, Head(client[c].batch)) ELSE @]

(* Fault: an unbounded channel.                                            *)
EnqueueAlways(c) ==
    client' = [client EXCEPT ![c].batch = Tail(@),
                             ![c].channel = Append(@, Head(client[c].batch))]

(* tx.send: waits for room in the channel.                                 *)
Enqueue(c) ==
    /\ Len(client[c].channel) < ChannelSize
    /\ client' = [client EXCEPT ![c].batch = Tail(@),
                                ![c].channel = Append(@, Head(client[c].batch))]

(* One row of the batch; the send fails once the consumer is gone.         *)
Forward(c) ==
    /\ At(c, "forward")
    /\ client[c].batch # <<>>
    /\ \/ client[c].stream = "open" /\ Enqueue(c)
       \/ client[c].stream = "ended" /\ Goto(c, "done")
    /\ UNCHANGED <<vars, wire, flow>>

Forwarded(c) == At(c, "forward") /\ client[c].batch = <<>>

(* All rows are forwarded; also an empty batch is acknowledged.            *)
SendAck(c) ==
    /\ Forwarded(c)
    /\ Goto(c, "get")
    /\ Send(c, [type |-> "ClientAck", batch_id |-> client[c].batch_id])
    /\ UNCHANGED <<vars, flow>>

(* A send or a read fails: connect() or subscribe() returns the error, the *)
(* poll loop ends.                                                         *)
ConnectionLost(c) ==
    /\ client[c].pc \in {"auth", "sub", "get", "answer"} \/ Forwarded(c)
    /\ Goto(c, IF client[c].pc \in {"auth", "sub"} THEN "new" ELSE "done")
    /\ UNCHANGED <<vars, wire, flow>>

-----------------------------------------------------------------------------
(* CanalEventStream: next_event, its end, and drop, which aborts the task. *)
NextEvent(c) ==
    /\ client[c].stream = "open"
    /\ client[c].channel # <<>>
    /\ client' = [client EXCEPT ![c].channel = Tail(@)]
    /\ flow' = [flow EXCEPT ![c].received = Append(@, Head(client[c].channel))]
    /\ UNCHANGED <<vars, wire>>

NextNone(c) ==
    /\ client[c].stream = "open"
    /\ client[c].channel = <<>>
    /\ At(c, "done")
    /\ client' = [client EXCEPT ![c].stream = "ended"]
    /\ UNCHANGED <<vars, wire, flow>>

DropStream(c) ==
    /\ client[c].stream = "open"
    /\ client' = [client EXCEPT ![c].stream = "ended", ![c].channel = <<>>]
    /\ UNCHANGED <<vars, wire, flow>>

(* The abort takes effect when the task next yields.                       *)
Aborted(c) ==
    /\ client[c].stream = "ended"
    /\ ~ At(c, "done")
    /\ Goto(c, "done")
    /\ UNCHANGED <<vars, wire, flow>>

-----------------------------------------------------------------------------
(* The server's side of the connection: CanalServer's handlers, each for   *)
(* the packet it reads and with the packets it answers.                    *)
Asked(c, type) == wire[c].up # <<>> /\ Head(wire[c].up).type = type

Answer(c, packets) ==
    wire' = [wire EXCEPT ![c].up = Tail(@), ![c].down = @ \o packets]

AckOk == <<[type |-> "Ack", ok |-> TRUE]>>     \* send_ack_ok

AckErr == <<[type |-> "Ack", ok |-> FALSE]>>   \* send_ack_err

HandleAuth(c) ==
    /\ Asked(c, "Auth")
    /\ \/ client[c].admitted /\ Auth(c, IdOf[c], FilterOf[c], 0) /\ Answer(c, AckOk)
       \/ ~ client[c].admitted /\ AuthFailed(c) /\ Answer(c, AckErr)
    /\ UNCHANGED <<client, flow>>

HandleSub(c) ==
    /\ Asked(c, "Sub")
    /\ Sub(c, IdOf[c], FilterOf[c])
    /\ Answer(c, AckOk)
    /\ UNCHANGED <<client, flow>>

HandleGet(c) ==
    /\ Asked(c, "Get")
    /\ \/ Get(c, FetchSize) /\ Answer(c, <<>>)
       \/ GetLost(c) /\ Answer(c, AckErr)
    /\ UNCHANGED <<client, flow>>

HandleClientAck(c) ==
    /\ Asked(c, "ClientAck")
    /\ ClientAck(c, Head(wire[c].up).batch_id)
    /\ Answer(c, <<>>)
    /\ UNCHANGED <<client, flow>>

Messages(id, rows) == [type |-> "Messages", batch_id |-> id, rows |-> rows]

RowsToSend(c, events) ==   \* to_send
    LET kept == Kept(events, {e \in ToSet(events) : Passes(c, e)})
    IN  [i \in 1 .. Len(kept) |-> kept[i].row]

(* The rest of handle_get: the batch, or the empty batch of the timeout.   *)
AnswerGet(c) ==
    /\ \/ /\ Deliver(c)
          /\ LET events == reply'[c].events
             IN  /\ wire' = [wire EXCEPT ![c].down =
                       Append(@, Messages(reply'[c].batch_id, RowsToSend(c, events)))]
                 /\ flow' = [flow EXCEPT ![c].served = @ \cup Rows(events),
                                         ![c].ends = @ \cup {EndOf(events)}]
       \/ /\ GetTimeout(c)
          /\ wire' = [wire EXCEPT ![c].down = Append(@, Messages(0, <<>>))]
          /\ UNCHANGED <<serverVars, flow>>
       \/ /\ GetMiss(c) \/ GetWait(c) \/ GetWoken(c)
          /\ UNCHANGED <<serverVars, wire, flow>>
    /\ UNCHANGED client

(* handle_client ends: end of stream or idle timeout once everything sent  *)
(* has been read, or an error.  What it has sent may still be read.        *)
ServerEnds(c) ==
    /\ \/ wire[c].up = <<>> /\ Close(c)
       \/ ErrorExit(c)
    /\ wire' = [wire EXCEPT ![c].up = <<>>]
    /\ UNCHANGED <<client, flow>>

-----------------------------------------------------------------------------
ClientInit ==
    /\ Init
    /\ client \in [Readers -> {NewSubscriber(b) : b \in BOOLEAN}]
    /\ wire = [c \in Readers |-> [up |-> <<>>, down |-> <<>>]]
    /\ flow = [c \in Readers |-> [served |-> {}, ends |-> {}, received |-> <<>>]]

PollStep(c) ==
    \/ SendGet(c) \/ ReadMessages(c) \/ TerminalAck(c) \/ Forward(c) \/ SendAck(c)

ServerStep(c) ==
    \/ HandleAuth(c) \/ HandleSub(c) \/ HandleGet(c) \/ HandleClientAck(c)
    \/ AnswerGet(c)

ClientNext ==
    \/ (Feed \/ Serve) /\ UNCHANGED clientVars
    \/ \E c \in Readers :
          \/ Connect(c) \/ Connected(c) \/ Subscribe(c) \/ Subscribed(c)
          \/ PollStep(c) \/ ConnectionLost(c)
          \/ NextEvent(c) \/ NextNone(c) \/ DropStream(c) \/ Aborted(c)
          \/ ServerStep(c) \/ ServerEnds(c)

(* The peer is gone, and with it any hope for an answer.                   *)
PeerGone(c) ==
    /\ ~ conn[c].open
    /\ wire[c].down = <<>>
    /\ ConnectionLost(c)

(* Tasks that can move do, a closed connection is noticed, and the         *)
(* consumer keeps calling next_event.  Nobody has to connect, put or stay. *)
ClientFairness ==
    \A c \in Readers :
        /\ WF_allVars(PollStep(c)) /\ WF_allVars(PeerGone(c))
        /\ WF_allVars(NextEvent(c)) /\ WF_allVars(NextNone(c))
        /\ WF_allVars(ServerStep(c))

ClientSpec == ClientInit /\ [][ClientNext]_allVars /\ ClientFairness
-----------------------------------------------------------------------------
(* Properties.                                                             *)

ClientTypeOK ==
    \A c \in Readers :
        /\ client[c].pc \in {"new", "auth", "connected", "sub", "get", "answer",
                             "forward", "done"}
        /\ client[c].stream \in {"none", "open", "ended"}
        /\ client[c].batch \in Seq(Nat)
        /\ client[c].channel \in Seq(Nat) /\ Len(client[c].channel) <= ChannelSize
        /\ Len(wire[c].down) <= 1

(* Rows a client need not get: those of other tables, and rows it was not  *)
(* served that are evicted or were put at a position where one of its      *)
(* batches had ended.                                                      *)
Excused(c) ==
    {i \in 1 .. Len(log) :
        \/ log[i].table \notin FilterOf[c]
        \/ /\ i \notin flow[c].served
           /\ i <= Dropped \/ log[i].pos \in flow[c].ends}

Stream == INSTANCE EventStream WITH
    Subscribers <- Readers, MaxRows <- MaxLog, published <- Len(log),
    excused <- [c \in Readers |-> Excused(c)],
    received <- [c \in Readers |-> flow[c].received],
    status <- [c \in Readers |-> client[c].stream]

(* Server, wire and client together give every consumer the stream that    *)
(* EventStream promises (lib.rs:124-246, server.rs:389-540): in binlog     *)
(* order, each row once, no silent hole but the excused ones, and what is  *)
(* due arrives or the stream ends.                                         *)
StreamIsFaithful == Stream!Spec

(* ClientAck follows the hand-over of the whole batch (lib.rs:165-198):    *)
(* rows the server counts as acknowledged are in the consumer's hands or   *)
(* in its channel, none is left on the wire or in the poll loop.           *)
AckedWasForwarded ==
    \A c \in Readers :
        /\ conn[c].open /\ client[c].stream = "open"
        /\ conn[c].last_ack_pos # None
        => \A i \in flow[c].served :
              log[i].table \in FilterOf[c] /\ PosLeq(log[i].pos, conn[c].last_ack_pos)
              => i \in ToSet(flow[c].received) \cup ToSet(client[c].channel)

(* The poll loop takes any Ack for the end of the stream (lib.rs:202-205). *)
(* That is right only because the server answers a Get with an Ack in one  *)
(* case: a row after the client's cursor is gone and will never be sent.   *)
EndedOnlyByLoss ==
    [][\A c \in Readers :
         TerminalAck(c) => \E i \in 1 .. Dropped : i \notin flow[c].served]_allVars
=============================================================================
