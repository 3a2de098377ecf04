---------------------------- MODULE RowDelivery ----------------------------
(***************************************************************************)
(* The rows of BinlogRows on their way to a client, over a byte stream     *)
(* that is cut anywhere: the frames of the Canal protocol, the server's    *)
(* codec (canal-server/src/codec.rs) and the client library's send_packet, *)
(* read_packet and poll loop (canal-client/src/lib.rs).                    *)
(*                                                                         *)
(* Between the channel and the connection are batches, store, filter and   *)
(* cursor, the matter of BinlogPipeline, EventStore and CanalServer.  Here *)
(* they are a queue: a Get is answered with the next events.               *)
(*                                                                         *)
(* A byte is a cell that knows what it was written as.  Only its place in  *)
(* the stream decides what it is read as.                                  *)
(***************************************************************************)
EXTENDS BinlogRows, Selection, FiniteSets, SequencesExt

CONSTANTS
    HeaderBytes,     \* bytes of the length in front of a frame (4)
    MaxPacketSize,   \* largest body either side reads (8 MB)
    LargeText,       \* strings that make an entry large
    FetchSize,       \* events in a batch at most
    MaxGets          \* bound: Gets sent

ASSUME DeliveryAssumption ==
    /\ HeaderBytes \in Nat \ {0} /\ MaxPacketSize \in Nat \ {0}
    /\ FetchSize \in Nat \ {0} /\ MaxGets \in Nat

VARIABLES
    up,          \* bytes from client to server: in flight, received
    down,        \* bytes from server to client
    taken,       \* handle_client: how many of the events it has answered with
    client,      \* the poll loop: where it is, the length it has read, Gets sent
    consumed     \* events the consumer was given

deliveryVars == <<up, down, taken, client, consumed>>
vars == <<rowVars, deliveryVars>>

-----------------------------------------------------------------------------
(* Packets, and the frames they travel in.  A body has a byte of its own   *)
(* and one for each message, two for a large one.                          *)
KeepAlive == [type |-> "KeepAlive", messages |-> <<>>]
Get == [type |-> "Get", messages |-> <<>>]
ClientAck == [type |-> "ClientAck", messages |-> <<>>]
Messages(entries) == [type |-> "Messages", messages |-> entries]

Malformed == [type |-> "Malformed", messages |-> <<>>]

IsLarge(entry) == entry.store_value.sql \in LargeText

BodySize(p) ==
    IF p = KeepAlive THEN 0
    ELSE 1 + Len(p.messages) + Cardinality({i \in DOMAIN p.messages : IsLarge(p.messages[i])})

Body(p) == [i \in 1 .. BodySize(p) |-> [body |-> p, at |-> i]]

encode(p) == [i \in 1 .. HeaderBytes |-> [length |-> BodySize(p), at |-> i]] \o Body(p)

(* The number the first bytes make; bytes of anything else make a large    *)
(* one.                                                                    *)
IsHeader(bytes) ==
    \A i \in 1 .. HeaderBytes :
        /\ "length" \in DOMAIN bytes[i]
        /\ bytes[i] = [bytes[1] EXCEPT !.at = i]

LengthOf(bytes) == IF IsHeader(bytes) THEN bytes[1].length ELSE MaxPacketSize + 1

(* Packet::decode.                                                         *)
Parse(bytes) ==
    IF "body" \in DOMAIN bytes[1] /\ bytes = Body(bytes[1].body) THEN bytes[1].body
    ELSE Malformed

Drop(bytes, n) == SubSeq(bytes, n + 1, Len(bytes))

Write(pipe, p) == [pipe EXCEPT !.flight = @ \o encode(p)]

Consume(pipe, n) == [pipe EXCEPT !.got = Drop(@, n)]

-----------------------------------------------------------------------------
(* The network delivers any piece of what is in flight.                    *)
Cut(pipe, n) ==
    [flight |-> Drop(pipe.flight, n), got |-> pipe.got \o SubSeq(pipe.flight, 1, n)]

UpBytes ==
    /\ \E n \in 1 .. Len(up.flight) : up' = Cut(up, n)
    /\ UNCHANGED <<down, taken, client, consumed, rowVars>>

DownBytes ==
    /\ \E n \in 1 .. Len(down.flight) : down' = Cut(down, n)
    /\ UNCHANGED <<up, taken, client, consumed, rowVars>>

-----------------------------------------------------------------------------
(* codec.rs, decode: nothing until the header is there, then nothing until *)
(* the whole frame is; a frame that claims too much is an error.           *)
HasHeader(buf) == Len(buf) >= HeaderBytes

(* Fault: a frame is complete when one more byte has come.                 *)
WaitsForMore(buf) ==
    HasHeader(buf) /\ LengthOf(buf) <= MaxPacketSize /\ Len(buf) > HeaderBytes + LengthOf(buf)

HasFrame(buf) ==
    HasHeader(buf) /\ LengthOf(buf) <= MaxPacketSize /\ Len(buf) >= HeaderBytes + LengthOf(buf)

(* Fault: the limit is off by one.                                         *)
LimitTooHigh(buf) == HasHeader(buf) /\ LengthOf(buf) > MaxPacketSize + 1

TooLarge(buf) == HasHeader(buf) /\ LengthOf(buf) > MaxPacketSize

(* Fault: an empty frame takes a byte of the next one along.               *)
EmptyFrameTakesMore(buf) ==
    IF LengthOf(buf) = 0 THEN HeaderBytes + 1 ELSE HeaderBytes + LengthOf(buf)

FrameLength(buf) == HeaderBytes + LengthOf(buf)

Payload(buf) == Parse(SubSeq(buf, HeaderBytes + 1, HeaderBytes + LengthOf(buf)))

(* handle_client: an empty frame is skipped.                               *)
SkipEmptyFrame ==
    /\ HasFrame(up.got) /\ LengthOf(up.got) = 0
    /\ up' = Consume(up, FrameLength(up.got))
    /\ UNCHANGED <<down, taken, client, consumed, rowVars>>

NextPacket == Payload(up.got)

ReadsPacket ==
    HasFrame(up.got) /\ LengthOf(up.got) > 0

(* What the feeder's filtering of errors leaves for the store.             *)
Stored == Kept(sent, ToSet(sent) \ {Err})

(* get_batch: the next events the client was not answered with.            *)
NextBatch ==
    LET rest == Drop(Stored, taken)
    IN  SubSeq(rest, 1, IF Len(rest) < FetchSize THEN Len(rest) ELSE FetchSize)

(* handle_get: the next events, converted.  The empty answer after 5 s     *)
(* brings no event and is left to CanalServer.                             *)
AnswerGet ==
    /\ ReadsPacket /\ NextPacket = Get
    /\ \E batch \in {NextBatch} :
         /\ batch # <<>>
         /\ \A i \in 1 .. Len(batch) : Convertible(batch[i])
         /\ down' = Write(down, Messages([i \in 1 .. Len(batch) |->
                                             canal_event_to_entry(batch[i])]))
         /\ taken' = taken + Len(batch)
    /\ up' = Consume(up, FrameLength(up.got))
    /\ UNCHANGED <<client, consumed, rowVars>>

ReadAck ==
    /\ ReadsPacket /\ NextPacket = ClientAck
    /\ up' = Consume(up, FrameLength(up.got))
    /\ UNCHANGED <<down, taken, client, consumed, rowVars>>

(* The codec's error, a packet that does not decode, or an event that does *)
(* not convert: handle_client returns with an error, and the connection is *)
(* over.  OnlyOversizedRefused says that this client gives it no reason.   *)
ServerFails ==
    \/ TooLarge(up.got)
    \/ ReadsPacket /\ NextPacket = Malformed
    \/ /\ ReadsPacket /\ NextPacket = Get
       /\ \E i \in taken + 1 .. Len(Stored) : i <= taken + FetchSize /\ ~ Convertible(Stored[i])

-----------------------------------------------------------------------------
(* The poll loop.                                                          *)
SendGet ==
    /\ client.pc = "poll" /\ client.gets < MaxGets
    /\ up' = Write(up, Get)
    /\ client' = [client EXCEPT !.pc = "header", !.gets = @ + 1]
    /\ UNCHANGED <<down, taken, consumed, rowVars>>

(* A client of another make keeps the connection alive with empty frames.  *)
SendKeepAlive ==
    /\ client.pc = "poll" /\ ~ client.beaten
    /\ up' = Write(up, KeepAlive)
    /\ client' = [client EXCEPT !.beaten = TRUE]
    /\ UNCHANGED <<down, taken, consumed, rowVars>>

(* read_packet: two read_exact, the length in between.                     *)
ReadHeader ==
    /\ client.pc = "header" /\ HasHeader(down.got)
    /\ client' = IF LengthOf(down.got) = 0 \/ TooLarge(down.got)
                 THEN [client EXCEPT !.pc = "failed"]
                 ELSE [client EXCEPT !.pc = "body", !.need = LengthOf(down.got)]
    /\ down' = Consume(down, HeaderBytes)
    /\ UNCHANGED <<up, taken, consumed, rowVars>>

(* The body: its entries are converted and forwarded, and acknowledged.    *)
Entries(bytes) == Parse(bytes).messages

ReadBody ==
    /\ client.pc = "body" /\ Len(down.got) >= client.need
    /\ LET body == SubSeq(down.got, 1, client.need)
       IN  IF Parse(body) = Malformed
           THEN /\ client' = [client EXCEPT !.pc = "failed"]
                /\ UNCHANGED <<up, consumed>>
           ELSE /\ consumed' = consumed \o [i \in 1 .. Len(Entries(body)) |->
                                                entry_to_event(Entries(body)[i])]
                /\ client' = [client EXCEPT !.pc = "poll", !.need = 0]
                /\ up' = Write(up, ClientAck)
    /\ down' = Consume(down, client.need)
    /\ UNCHANGED <<taken, rowVars>>

-----------------------------------------------------------------------------
NoBytes == [flight |-> <<>>, got |-> <<>>]

Init ==
    /\ RowsInit
    /\ up = NoBytes /\ down = NoBytes
    /\ taken = 0
    /\ client = [pc |-> "poll", need |-> 0, gets |-> 0, beaten |-> FALSE]
    /\ consumed = <<>>

ServerStep == SkipEmptyFrame \/ AnswerGet \/ ReadAck

ClientStep == SendGet \/ ReadHeader \/ ReadBody

WireStep == UpBytes \/ DownBytes \/ ServerStep \/ ClientStep

Next ==
    \/ RowsNext /\ UNCHANGED deliveryVars
    \/ WireStep \/ SendKeepAlive

(* The network delivers and both ends are polled: while one of them can    *)
(* move, something does.  MySQL owes nothing.                              *)
Spec == Init /\ [][Next]_vars /\ WF_vars(WireStep)
-----------------------------------------------------------------------------
(* Properties.                                                             *)

DeliveryTypeOK ==
    /\ RowsTypeOK
    /\ taken \in 0 .. Len(Stored)
    /\ client.pc \in {"poll", "header", "body", "failed"}
    /\ client.need \in 0 .. MaxPacketSize
    /\ \A pipe \in {down.flight, down.got} : \A i \in 1 .. Len(pipe) :
         "body" \in DOMAIN pipe[i] =>
            \A m \in 1 .. Len(pipe[i].body.messages) : pipe[i].body.messages[m] \in Entry

(* The consumer reads what happened in MySQL, each row once and in order,  *)
(* whatever the network does to the bytes: the events of the truth that    *)
(* the thread could know of, one after the other (lib.rs:160-181).         *)
Known == Kept(truth, {t \in ToSet(truth) : ~ t.lost})

ConsumerReadsTheTruth ==
    /\ Len(consumed) <= Len(Known)
    /\ \A i \in 1 .. Len(consumed) : SaysWhatHappened(consumed[i], Known[i])

(* Frames stay frames (codec.rs:25-76, lib.rs:259-301): the server never   *)
(* takes a piece of one packet for another, and the client refuses only    *)
(* what is really larger than it reads.  That the server can write such a  *)
(* packet is the encoder's: it has no limit.                               *)
OnlyOversizedRefused ==
    /\ ~ ServerFails
    /\ client.pc = "failed" =>
          \E i \in 1 .. Len(Stored) :
             LET batch == SubSeq(Stored, i, taken)
             IN  BodySize(Messages([m \in 1 .. Len(batch) |-> canal_event_to_entry(batch[m])]))
                   > MaxPacketSize

(* What happened is read in the end, as long as nobody refuses a packet    *)
(* and the client has Gets left.                                           *)
EverythingIsRead ==
    \A n \in 1 .. MaxSent :
        n <= Len(Known) ~> \/ n <= Len(consumed)
                           \/ client.pc = "failed"
                           \/ client.pc = "poll" /\ client.gets = MaxGets
=============================================================================
