-------------------------- MODULE CanalClientProofs --------------------------
(***************************************************************************)
(* Proofs about CanalClient, for every set of clients, every filter, every *)
(* size of a channel, of a fetch and of the store.                         *)
(*                                                                         *)
(* As in CanalServerProofs, no two clients may present the same id, and    *)
(* the default start lies before every event.                              *)
(***************************************************************************)
EXTENDS CanalClient, CanalServerProofs, SelectionProofs

-----------------------------------------------------------------------------
(* Packets, and what a client and its connection hold.                     *)

SetupPcs == {"new", "auth", "connected", "sub"}

PollPcs == {"get", "answer", "forward", "done"}

UpPacket == [type : {"Auth", "Sub", "Get"}] \cup [type : {"ClientAck"}, batch_id : Nat]

DownPacket == [type : {"Ack"}, ok : BOOLEAN]
              \cup [type : {"Messages"}, batch_id : Nat, rows : Seq(Nat)]

Library == [pc : SetupPcs \cup PollPcs, admitted : BOOLEAN, batch : Seq(Nat),
            batch_id : Nat, channel : Seq(Nat), stream : {"none", "open", "ended"}]

Socket == [up : Seq(UpPacket), down : Seq(DownPacket)]

Flow == [served : SUBSET Nat, ends : SUBSET Position, received : Seq(Nat)]

NewFlow == [served |-> {}, ends |-> {}, received |-> <<>>]

-----------------------------------------------------------------------------
(* The conversation.  A client has at most one request under way: it is in *)
(* the wire, or the server is inside get_batch for it, or its answer is in *)
(* the wire.  Only a ClientAck, which has no answer, may go ahead of a Get.*)

Line(c, up, down) == wire[c].up = up /\ wire[c].down = down

Quiet(c) == call[c].pc = "idle" /\ Line(c, <<>>, <<>>)

AckSent(c) ==
    /\ call[c].pc = "idle"
    /\ \E id \in Nat : Line(c, <<[type |-> "ClientAck", batch_id |-> id]>>, <<>>)

AckAndGetSent(c) ==
    /\ call[c].pc = "idle"
    /\ \E id \in Nat :
          Line(c, <<[type |-> "ClientAck", batch_id |-> id], [type |-> "Get"]>>, <<>>)

RequestSent(c, type) == call[c].pc = "idle" /\ Line(c, <<[type |-> type]>>, <<>>)

InGet(c) == call[c].pc # "idle" /\ Line(c, <<>>, <<>>)

AckComes(c) ==
    /\ call[c].pc = "idle"
    /\ \E ok \in BOOLEAN : Line(c, <<>>, <<[type |-> "Ack", ok |-> ok]>>)

RowsCome(c) ==
    /\ call[c].pc = "idle"
    /\ \E id \in Nat, rows \in Seq(Nat) :
          Line(c, <<>>, <<[type |-> "Messages", batch_id |-> id, rows |-> rows]>>)

Setup(c) == Quiet(c) \/ RequestSent(c, "Auth") \/ RequestSent(c, "Sub") \/ AckComes(c)

Polling(c) ==
    \/ Quiet(c) \/ AckSent(c) \/ AckAndGetSent(c) \/ RequestSent(c, "Get")
    \/ InGet(c) \/ AckComes(c) \/ RowsCome(c)

(* Before the poll loop there is no stream; in it, what is under way goes  *)
(* with the place the loop is at.                                          *)
InSetup(c) ==
    /\ client[c].stream = "none"
    /\ client[c].channel = <<>>
    /\ client[c].batch = <<>>
    /\ flow[c] = NewFlow
    /\ Setup(c)
    /\ At(c, "connected") => Quiet(c)

InLoop(c) ==
    /\ client[c].stream \in {"open", "ended"}
    /\ Polling(c)
    /\ At(c, "get") => Quiet(c) \/ AckSent(c)
    /\ At(c, "forward") => Quiet(c)
    /\ client[c].batch # <<>> =>
          Quiet(c) /\ client[c].pc \in {"forward", "done"}

Conversation(c) ==
    /\ client[c].pc \in SetupPcs => InSetup(c)
    /\ client[c].pc \in PollPcs => InLoop(c)

-----------------------------------------------------------------------------
(* The server's view of the client.                                        *)

(* The session is the client's, with its filter; no timestamp is used and  *)
(* nothing is rolled back; the history of the client is that of its        *)
(* connection while there is one.                                          *)
SessionIsMine(c) ==
    /\ conn[c].authenticated =>
         /\ conn[c].client_id = IdOf[c]
         /\ sessions[IdOf[c]].pattern = FilterOf[c]
         /\ sessions[IdOf[c]].black_list = {}
    /\ ~ hist.trace[c].timed /\ ~ hist.trace[c].rolled
    /\ conn[c].open => /\ flow[c].served = hist.trace[c].served
                       /\ flow[c].ends = EndPositions(c)

(* A batch ends at a row it serves, everything served lies in a batch, and *)
(* everything up to the end of a batch is served, gone, or at the position *)
(* of an end.  It stays true when the connection is gone.                  *)
ServedUpToEnds(c) ==
    /\ flow[c].served \subseteq 1 .. Len(log)
    /\ \A p \in flow[c].ends : \E i \in flow[c].served : log[i].pos = p
    /\ \A i \in flow[c].served : \E p \in flow[c].ends : PosLeq(log[i].pos, p)
    /\ \A p \in flow[c].ends : \A i \in 1 .. Len(log) :
          PosLeq(log[i].pos, p) =>
             i \in flow[c].served \/ i <= Dropped \/ log[i].pos \in flow[c].ends

(* The cursor is the end of the last batch, and at or after the last ack.  *)
CursorIsLast(c) ==
    /\ conn[c].last_get_end_pos # None =>
         conn[c].current_pos = AtPosition(conn[c].last_get_end_pos)
    /\ conn[c].last_ack_pos # None =>
         \E p \in Position : /\ conn[c].current_pos = AtPosition(p)
                             /\ PosLeq(conn[c].last_ack_pos, p)

-----------------------------------------------------------------------------
(* The rows on their way.                                                  *)

Rising(s) == \A i, j \in 1 .. Len(s) : i < j => s[i] < s[j]

AllBelow(S, T) == \A x \in S, y \in T : x < y

(* The rows the poll loop has not handed over: those of its batch, or of   *)
(* the Messages it has not read.                                           *)
RowsInWire(c) ==
    IF Incoming(c, "Messages") THEN Head(wire[c].down).rows ELSE <<>>

Coming(c) == IF client[c].batch # <<>> THEN client[c].batch ELSE RowsInWire(c)

Got(c) == ToSet(flow[c].received)

InChannel(c) == ToSet(client[c].channel)

ToCome(c) == ToSet(Coming(c))

ServedToClient(c) == {i \in flow[c].served : log[i].table \in FilterOf[c]}

(* While the stream is not at its end, the consumer's rows, those in the   *)
(* channel and those to come are in this order all the rows of its tables  *)
(* that were served.                                                       *)
NothingLost(c) ==
    /\ Rising(flow[c].received) /\ Rising(client[c].channel) /\ Rising(Coming(c))
    /\ AllBelow(Got(c), InChannel(c)) /\ AllBelow(Got(c), ToCome(c))
    /\ AllBelow(InChannel(c), ToCome(c))
    /\ Got(c) \cup InChannel(c) \cup ToCome(c) = ServedToClient(c)

OnTheWay(c) ==
    /\ Got(c) \cup ToCome(c) \subseteq ServedToClient(c)
    /\ client[c].stream # "ended" => NothingLost(c)

(* What is to come was never acknowledged.                                 *)
AckedIsPast(c) ==
    conn[c].open /\ conn[c].last_ack_pos # None =>
        \A i \in ToCome(c) : PosLess(conn[c].last_ack_pos, log[i].pos)

(* An Ack in place of Messages tells of a row that is gone.                *)
AckMeansLoss(c) ==
    client[c].pc \in PollPcs /\ Incoming(c, "Ack") =>
        \E i \in 1 .. Dropped : i \notin flow[c].served

DeliveryInv(c) ==
    /\ SessionIsMine(c)
    /\ ServedUpToEnds(c)
    /\ CursorIsLast(c)
    /\ OnTheWay(c)
    /\ AckedIsPast(c)
    /\ AckMeansLoss(c)

ClientInv ==
    /\ ServerInv
    /\ client \in [Readers -> Library]
    /\ wire \in [Readers -> Socket]
    /\ flow \in [Readers -> Flow]
    /\ \A c \in Readers : /\ Len(client[c].channel) <= ChannelSize
                          /\ Conversation(c)
                          /\ DeliveryInv(c)

-----------------------------------------------------------------------------
(* Sequences of rows.                                                      *)

LEMMA RowsOf ==
    ASSUME NEW s \in Seq(Nat)
    PROVE  /\ Len(s) \in Nat
           /\ \A i \in 1 .. Len(s) : s[i] \in Nat /\ s[i] \in ToSet(s)
           /\ \A x \in ToSet(s) : x \in Nat /\ \E i \in 1 .. Len(s) : x = s[i]
  <1>1. Len(s) \in Nat /\ DOMAIN s = 1 .. Len(s)
    OBVIOUS
  <1>2. \A i \in 1 .. Len(s) : s[i] \in Nat
    BY ElementOfSeq
  <1>3. QED
    BY <1>1, <1>2 DEF ToSet

LEMMA NoRows == ToSet(<<>>) = {} /\ Rising(<<>>) /\ <<>> \in Seq(Nat)
  <1>1. Len(<<>>) = 0 /\ <<>> \in Seq(Nat)
    OBVIOUS
  <1>2. 1 .. 0 = {}
    OBVIOUS
  <1>3. ToSet(<<>>) = {}
    BY <1>1, <1>2, RowsOf
  <1>4. QED
    BY <1>1, <1>2, <1>3 DEF Rising

LEMMA FirstRow ==
    ASSUME NEW s \in Seq(Nat), s # <<>>
    PROVE  /\ Head(s) \in Nat /\ Tail(s) \in Seq(Nat) /\ Len(Tail(s)) <= Len(s)
           /\ ToSet(s) = {Head(s)} \cup ToSet(Tail(s))
           /\ Rising(s) => Rising(Tail(s)) /\ \A x \in ToSet(Tail(s)) : Head(s) < x
  <1> DEFINE t == Tail(s)
  <1>1. /\ Len(s) \in Nat /\ Len(s) >= 1 /\ Head(s) = s[1] /\ t \in Seq(Nat)
        /\ Len(t) = Len(s) - 1 /\ \A i \in 1 .. Len(s) - 1 : t[i] = s[i + 1]
    <2>1. Len(s) \in Nat /\ Len(s) # 0
      BY EmptySeq
    <2>2. QED
      BY <2>1, HeadTailProperties
  <1>2. /\ \A i \in 1 .. Len(t) : t[i] \in Nat /\ t[i] \in ToSet(t)
        /\ \A x \in ToSet(t) : x \in Nat /\ \E i \in 1 .. Len(t) : x = t[i]
        /\ \A i \in 1 .. Len(s) : s[i] \in Nat /\ s[i] \in ToSet(s)
        /\ \A x \in ToSet(s) : x \in Nat /\ \E i \in 1 .. Len(s) : x = s[i]
    BY <1>1, RowsOf
  <1> HIDE DEF t
  <1>3. ASSUME NEW x \in ToSet(s)
        PROVE  x = Head(s) \/ x \in ToSet(t)
    <2>1. PICK i \in 1 .. Len(s) : x = s[i]
      BY <1>2
    <2>2. CASE i = 1
      BY <1>1, <2>1, <2>2
    <2>3. CASE i # 1
      <3>1. i - 1 \in 1 .. Len(s) - 1 /\ (i - 1) + 1 = i /\ i - 1 \in 1 .. Len(t)
        BY <1>1, <2>3
      <3>2. t[i - 1] = x
        BY <1>1, <2>1, <3>1
      <3>3. QED
        BY <1>2, <3>1, <3>2
    <2>4. QED
      BY <2>2, <2>3
  <1>4. ASSUME NEW x \in ToSet(t)
        PROVE  x \in ToSet(s) /\ \E i \in 2 .. Len(s) : x = s[i]
    <2>1. PICK i \in 1 .. Len(t) : x = t[i]
      BY <1>2
    <2>2. i \in 1 .. Len(s) - 1 /\ i + 1 \in 1 .. Len(s) /\ i + 1 \in 2 .. Len(s)
      BY <1>1, <2>1
    <2>3. x = s[i + 1]
      BY <1>1, <2>1, <2>2
    <2>4. QED
      BY <1>2, <2>2, <2>3
  <1>5. Head(s) \in Nat /\ Head(s) \in ToSet(s)
    BY <1>1, <1>2
  <1>6. ASSUME Rising(s)
        PROVE  Rising(t) /\ \A x \in ToSet(t) : Head(s) < x
    <2>1. ASSUME NEW i \in 1 .. Len(t), NEW j \in 1 .. Len(t), i < j
          PROVE  t[i] < t[j]
      <3>1. /\ i \in 1 .. Len(s) - 1 /\ j \in 1 .. Len(s) - 1 /\ i + 1 < j + 1
            /\ i + 1 \in 1 .. Len(s) /\ j + 1 \in 1 .. Len(s)
        BY <1>1, <2>1
      <3>2. QED
        BY <1>1, <1>6, <3>1 DEF Rising
    <2>2. ASSUME NEW x \in ToSet(t)
          PROVE  Head(s) < x
      <3>1. PICK i \in 2 .. Len(s) : x = s[i]
        BY <1>4
      <3>2. 1 \in 1 .. Len(s) /\ i \in 1 .. Len(s) /\ 1 < i
        BY <1>1
      <3>3. QED
        BY <1>1, <1>6, <3>1, <3>2 DEF Rising
    <2>3. QED
      BY <2>1, <2>2 DEF Rising
  <1>7. ToSet(s) = {Head(s)} \cup ToSet(t)
    BY <1>3, <1>4, <1>5
  <1>8. Len(t) <= Len(s)
    BY <1>1
  <1>9. QED
    BY <1>1, <1>5, <1>6, <1>7, <1>8 DEF t

LEMMA LastRow ==
    ASSUME NEW s \in Seq(Nat), NEW x \in Nat
    PROVE  /\ Append(s, x) \in Seq(Nat) /\ Len(Append(s, x)) = Len(s) + 1
           /\ ToSet(Append(s, x)) = ToSet(s) \cup {x}
           /\ Rising(s) /\ (\A y \in ToSet(s) : y < x) => Rising(Append(s, x))
  <1> DEFINE t == Append(s, x)
  <1>1. /\ Len(s) \in Nat /\ t \in Seq(Nat) /\ Len(t) = Len(s) + 1
        /\ t[Len(s) + 1] = x /\ \A i \in 1 .. Len(s) : t[i] = s[i]
    BY AppendProperties
  <1>2. /\ \A i \in 1 .. Len(t) : t[i] \in Nat /\ t[i] \in ToSet(t)
        /\ \A y \in ToSet(t) : y \in Nat /\ \E i \in 1 .. Len(t) : y = t[i]
        /\ \A i \in 1 .. Len(s) : s[i] \in Nat /\ s[i] \in ToSet(s)
        /\ \A y \in ToSet(s) : y \in Nat /\ \E i \in 1 .. Len(s) : y = s[i]
    BY <1>1, RowsOf
  <1> HIDE DEF t
  <1>3. \A i \in 1 .. Len(t) : i \in 1 .. Len(s) \/ i = Len(s) + 1
    BY <1>1
  <1>4. Len(s) + 1 \in 1 .. Len(t) /\ \A i \in 1 .. Len(s) : i \in 1 .. Len(t)
    BY <1>1
  <1>5. ToSet(t) \subseteq ToSet(s) \cup {x}
    <2>1. ASSUME NEW y \in ToSet(t)
          PROVE  y \in ToSet(s) \cup {x}
      <3>1. PICK i \in 1 .. Len(t) : y = t[i]
        BY <1>2
      <3>2. QED
        BY <1>1, <1>2, <1>3, <3>1
    <2>2. QED
      BY <2>1
  <1>6. ToSet(s) \cup {x} \subseteq ToSet(t)
    <2>1. ASSUME NEW y \in ToSet(s)
          PROVE  y \in ToSet(t)
      <3>1. PICK i \in 1 .. Len(s) : y = s[i]
        BY <1>2
      <3>2. t[i] = y /\ i \in 1 .. Len(t)
        BY <1>1, <1>4, <3>1
      <3>3. QED
        BY <1>2, <3>2
    <2>2. x \in ToSet(t)
      BY <1>1, <1>2, <1>4
    <2>3. QED
      BY <2>1, <2>2
  <1>7. ASSUME Rising(s), \A y \in ToSet(s) : y < x
        PROVE  Rising(t)
    <2>1. SUFFICES ASSUME NEW i \in 1 .. Len(t), NEW j \in 1 .. Len(t), i < j
                   PROVE  t[i] < t[j]
      BY DEF Rising
    <2>2. i \in 1 .. Len(s)
      BY <1>1, <2>1
    <2>3. CASE j \in 1 .. Len(s)
      <3>1. s[i] < s[j]
        BY <1>7, <2>1, <2>2, <2>3 DEF Rising
      <3>2. QED
        BY <1>1, <2>2, <2>3, <3>1
    <2>4. CASE j = Len(s) + 1
      <3>1. s[i] < x
        BY <1>2, <1>7, <2>2
      <3>2. QED
        BY <1>1, <2>2, <2>4, <3>1
    <2>5. QED
      BY <1>3, <2>3, <2>4
  <1>8. QED
    BY <1>1, <1>5, <1>6, <1>7 DEF t

-----------------------------------------------------------------------------
(* Packets.                                                                *)

LEMMA OnePacket ==
    ASSUME NEW x
    PROVE  /\ <<x>> # <<>> /\ Len(<<x>>) = 1
           /\ Head(<<x>>) = x /\ Tail(<<x>>) = <<>>
           /\ Append(<<>>, x) = <<x>>
  OBVIOUS

LEMMA TwoPackets ==
    ASSUME NEW x, NEW y
    PROVE  /\ <<x, y>> # <<>>
           /\ Head(<<x, y>>) = x /\ Tail(<<x, y>>) = <<y>>
           /\ Append(<<x>>, y) = <<x, y>>
  <1>1. PICK t : t = Append(<<x>>, y)
    OBVIOUS
  <1>2. t \in Seq({x, y}) /\ Len(t) = 2 /\ t[1] = x /\ t[2] = y
    BY <1>1, AppendProperties
  <1>3. t = <<x, y>>
    BY <1>2
  <1>4. <<x, y>> # <<>> /\ Head(<<x, y>>) = x
    OBVIOUS
  <1>5. Tail(<<x, y>>) = <<y>>
    OBVIOUS
  <1>6. QED
    BY <1>1, <1>3, <1>4, <1>5

LEMMA NoPacket == Len(<<>>) = 0 /\ \A s : s = <<>> => ~ (s # <<>>)
  OBVIOUS

(* What comes down is alone in the wire.                                   *)
LEMMA DownAlone ==
    ASSUME NEW c, Setup(c) \/ Polling(c), wire[c].down # <<>>
    PROVE  AckComes(c) \/ (RowsCome(c) /\ Polling(c))
  BY DEF Setup, Polling, Quiet, AckSent, AckAndGetSent, RequestSent, InGet, Line

LEMMA AckCame ==
    ASSUME NEW c, Setup(c) \/ Polling(c), Incoming(c, "Ack")
    PROVE  /\ AckComes(c) /\ call[c].pc = "idle" /\ wire[c].up = <<>>
           /\ Tail(wire[c].down) = <<>>
  <1>1. wire[c].down # <<>> /\ Head(wire[c].down).type = "Ack"
    BY DEF Incoming
  <1>2. ~ RowsCome(c)
    <2>1. SUFFICES ASSUME NEW id \in Nat, NEW rows \in Seq(Nat),
                          wire[c].down = <<[type |-> "Messages", batch_id |-> id,
                                            rows |-> rows]>>
                   PROVE  FALSE
      BY DEF RowsCome, Line
    <2>2. Head(wire[c].down) = [type |-> "Messages", batch_id |-> id, rows |-> rows]
      BY <2>1, OnePacket
    <2>3. QED
      BY <1>1, <2>2
  <1>3. AckComes(c)
    BY <1>1, <1>2, DownAlone
  <1>4. QED
    BY <1>3, OnePacket DEF AckComes, Line

LEMMA RowsCame ==
    ASSUME NEW c, Setup(c) \/ Polling(c), Incoming(c, "Messages")
    PROVE  /\ RowsCome(c) /\ Polling(c) /\ call[c].pc = "idle" /\ wire[c].up = <<>>
           /\ Tail(wire[c].down) = <<>>
           /\ Head(wire[c].down).rows \in Seq(Nat) /\ Head(wire[c].down).batch_id \in Nat
           /\ RowsInWire(c) = Head(wire[c].down).rows
  <1>1. wire[c].down # <<>> /\ Head(wire[c].down).type = "Messages"
    BY DEF Incoming
  <1>2. ~ AckComes(c)
    <2>1. SUFFICES ASSUME NEW ok \in BOOLEAN,
                          wire[c].down = <<[type |-> "Ack", ok |-> ok]>>
                   PROVE  FALSE
      BY DEF AckComes, Line
    <2>2. Head(wire[c].down) = [type |-> "Ack", ok |-> ok]
      BY <2>1, OnePacket
    <2>3. QED
      BY <1>1, <2>2
  <1>3. RowsCome(c) /\ Polling(c)
    BY <1>1, <1>2, DownAlone
  <1>4. PICK id \in Nat, rows \in Seq(Nat) :
           Line(c, <<>>, <<[type |-> "Messages", batch_id |-> id, rows |-> rows]>>)
    BY <1>3 DEF RowsCome
  <1>5. /\ wire[c].up = <<>> /\ Tail(wire[c].down) = <<>>
        /\ Head(wire[c].down) = [type |-> "Messages", batch_id |-> id, rows |-> rows]
    BY <1>4, OnePacket DEF Line
  <1>6. Head(wire[c].down).rows = rows /\ Head(wire[c].down).batch_id = id
    BY <1>5
  <1>7. QED
    BY <1>3, <1>5, <1>6 DEF RowsCome, RowsInWire

-----------------------------------------------------------------------------
(* What a step leaves alone.                                               *)

LogMoves ==
    /\ LogExtends
    /\ Dropped \in Nat /\ Dropped' \in Nat /\ Dropped <= Dropped'

LEMMA ClientTyped ==
    ASSUME ClientInv, NEW c \in Readers
    PROVE  /\ ServerInv /\ ConnInv(c) /\ conn[c] \in ClientState
           /\ client \in [Readers -> Library] /\ client[c] \in Library
           /\ wire \in [Readers -> Socket] /\ wire[c] \in Socket
           /\ flow \in [Readers -> Flow] /\ flow[c] \in Flow
           /\ flow[c].received \in Seq(Nat) /\ client[c].channel \in Seq(Nat)
           /\ client[c].batch \in Seq(Nat) /\ Coming(c) \in Seq(Nat)
           /\ log \in Seq(Event) /\ Len(log) \in Nat
           /\ Dropped \in Nat /\ Dropped <= Len(log)
           /\ Conversation(c) /\ DeliveryInv(c)
  <1>1. /\ client \in [Readers -> Library] /\ wire \in [Readers -> Socket]
        /\ flow \in [Readers -> Flow] /\ ServerInv /\ Conversation(c) /\ DeliveryInv(c)
    BY DEF ClientInv
  <1>2. client[c] \in Library /\ wire[c] \in Socket /\ flow[c] \in Flow
    BY <1>1
  <1>3. /\ flow[c].received \in Seq(Nat) /\ client[c].channel \in Seq(Nat)
        /\ client[c].batch \in Seq(Nat) /\ client[c].pc \in SetupPcs \cup PollPcs
    BY <1>2 DEF Library, Flow
  <1>4. RowsInWire(c) \in Seq(Nat)
    <2>1. CASE Incoming(c, "Messages")
      <3>1. Setup(c) \/ Polling(c)
        BY <1>1, <1>3 DEF Conversation, InSetup, InLoop
      <3>2. QED
        BY <2>1, <3>1, RowsCame
    <2>2. CASE ~ Incoming(c, "Messages")
      BY <2>2, NoRows DEF RowsInWire
    <2>3. QED
      BY <2>1, <2>2
  <1>5. Coming(c) \in Seq(Nat)
    BY <1>3, <1>4 DEF Coming
  <1>6. /\ ConnInv(c) /\ conn[c] \in ClientState
        /\ log \in Seq(Event) /\ Len(log) \in Nat
    BY <1>1, Typed
  <1>7. Dropped \in Nat /\ Dropped <= Len(log)
    BY <1>1 DEF ServerInv, StoreInv, BufferInv, BufferIsNewestEvents, StoreTypeOK, Dropped
  <1>8. QED
    BY <1>1, <1>2, <1>3, <1>5, <1>6, <1>7

(* The rows and the order of the log.                                      *)
LEMMA LaterOrder ==
    ASSUME ServerInv', NEW i \in 1 .. Len(log'), NEW j \in 1 .. Len(log'), i <= j
    PROVE  /\ log'[i].pos \in Position /\ log'[j].pos \in Position
           /\ PosLeq(log'[i].pos, log'[j].pos)
  <1>1. log' \in Seq(Event) /\ InOrder(log')
    BY DEF ServerInv, StoreInv, BufferInv, StoreTypeOK, LogInv
  <1>2. QED
    BY <1>1, OrderOf

(* What was served stays served, whatever is put after it.                 *)
LEMMA BatchesStay ==
    ASSUME NEW c, ServerInv', LogMoves, ServedUpToEnds(c),
           flow'[c].served = flow[c].served, flow'[c].ends = flow[c].ends,
           flow[c].ends \subseteq Position
    PROVE  ServedUpToEnds(c)'
  <1> DEFINE served == flow[c].served
             ends == flow[c].ends
  <1>1. /\ Len(log) \in Nat /\ Len(log') \in Nat /\ Len(log) <= Len(log')
        /\ \A i \in 1 .. Len(log) : i \in 1 .. Len(log') /\ log'[i] = log[i]
        /\ Dropped \in Nat /\ Dropped' \in Nat /\ Dropped <= Dropped'
    BY DEF LogMoves, LogExtends
  <1>2. /\ served \subseteq 1 .. Len(log)
        /\ \A p \in ends : \E i \in served : log[i].pos = p
        /\ \A i \in served : \E p \in ends : PosLeq(log[i].pos, p)
        /\ \A p \in ends : \A i \in 1 .. Len(log) :
              PosLeq(log[i].pos, p) =>
                 i \in served \/ i <= Dropped \/ log[i].pos \in ends
    BY DEF ServedUpToEnds
  <1> HIDE DEF served, ends
  <1>3. served \subseteq 1 .. Len(log')
    BY <1>1, <1>2
  <1>4. \A p \in ends : \E i \in served : log'[i].pos = p
    BY <1>1, <1>2
  <1>5. \A i \in served : \E p \in ends : PosLeq(log'[i].pos, p)
    BY <1>1, <1>2
  <1>6. ASSUME NEW p \in ends, NEW i \in 1 .. Len(log'), PosLeq(log'[i].pos, p)
        PROVE  i \in served \/ i <= Dropped' \/ log'[i].pos \in ends
    <2>1. CASE i \in 1 .. Len(log)
      <3>1. i \in served \/ i <= Dropped \/ log[i].pos \in ends
        BY <1>1, <1>2, <1>6, <2>1
      <3>2. QED
        BY <1>1, <2>1, <3>1
    <2>2. CASE i \notin 1 .. Len(log)
      <3>1. PICK k \in served : log'[k].pos = p
        BY <1>4
      <3>2. k \in 1 .. Len(log') /\ k <= i
        BY <1>1, <1>2, <2>2
      <3>3. /\ log'[i].pos \in Position /\ log'[k].pos \in Position
            /\ PosLeq(log'[k].pos, log'[i].pos)
        BY <3>2, LaterOrder
      <3>4. log'[i].pos = p
        BY <1>6, <3>1, <3>3, LeqOrder
      <3>5. QED
        BY <3>4
    <2>3. QED
      BY <2>1, <2>2
  <1>7. QED
    BY <1>3, <1>4, <1>5, <1>6 DEF ServedUpToEnds, served, ends

(* The rows of a client's tables are the same ones later.                  *)
LEMMA ServedToClientStays ==
    ASSUME NEW c, LogExtends, ServedUpToEnds(c), flow'[c].served = flow[c].served
    PROVE  ServedToClient(c)' = ServedToClient(c)
  <1>1. \A i \in flow[c].served : log'[i] = log[i]
    BY DEF ServedUpToEnds, LogExtends
  <1>2. QED
    BY <1>1 DEF ServedToClient

LEMMA WayStays ==
    ASSUME NEW c, LogExtends, ServedUpToEnds(c), OnTheWay(c),
           flow'[c].served = flow[c].served, flow'[c].received = flow[c].received,
           client'[c].stream # "ended" =>
              client[c].stream # "ended" /\ client'[c].channel = client[c].channel,
           Coming(c)' = Coming(c)
    PROVE  OnTheWay(c)'
  <1>1. ServedToClient(c)' = ServedToClient(c)
    BY ServedToClientStays
  <1>2. Got(c)' = Got(c) /\ ToCome(c)' = ToCome(c)
    BY DEF Got, ToCome
  <1>3. CASE client'[c].stream = "ended"
    BY <1>1, <1>2, <1>3 DEF OnTheWay
  <1>4. CASE client'[c].stream # "ended"
    <2>1. InChannel(c)' = InChannel(c) /\ NothingLost(c)
      BY <1>4 DEF InChannel, OnTheWay
    <2>2. NothingLost(c)'
      BY <1>1, <1>2, <1>4, <2>1 DEF NothingLost
    <2>3. QED
      BY <1>1, <1>2, <2>2 DEF OnTheWay
  <1>5. QED
    BY <1>3, <1>4

LEMMA PastStays ==
    ASSUME NEW c, LogExtends, ServedUpToEnds(c), OnTheWay(c), AckedIsPast(c),
           conn'[c].open => conn[c].open,
           conn'[c].open => conn'[c].last_ack_pos = conn[c].last_ack_pos,
           ToCome(c)' \subseteq ToCome(c)
    PROVE  AckedIsPast(c)'
  <1>1. \A i \in ToCome(c) : log'[i] = log[i]
    BY DEF OnTheWay, ServedToClient, ServedUpToEnds, LogExtends
  <1>2. QED
    BY <1>1 DEF AckedIsPast

LEMMA LossStays ==
    ASSUME NEW c, LogMoves, AckMeansLoss(c),
           client'[c].pc \in PollPcs /\ Incoming(c, "Ack")' =>
              client[c].pc \in PollPcs /\ Incoming(c, "Ack"),
           flow'[c].served = flow[c].served
    PROVE  AckMeansLoss(c)'
  <1>1. SUFFICES ASSUME client'[c].pc \in PollPcs, Incoming(c, "Ack")'
                 PROVE  \E i \in 1 .. Dropped' : i \notin flow[c].served
    BY DEF AckMeansLoss
  <1>2. PICK i \in 1 .. Dropped : i \notin flow[c].served
    BY <1>1 DEF AckMeansLoss
  <1>3. i \in 1 .. Dropped'
    BY DEF LogMoves
  <1>4. QED
    BY <1>2, <1>3

(* A client the step is not about: only the log may have moved on.         *)
Elsewhere(d) ==
    /\ conn'[d] = conn[d] /\ hist'.trace[d] = hist.trace[d]
    /\ call'[d].pc = call[d].pc
    /\ conn[d].authenticated => sessions'[IdOf[d]] = sessions[IdOf[d]]

SameSide(d) == client'[d] = client[d] /\ wire'[d] = wire[d] /\ flow'[d] = flow[d]

LEMMA SameConversation ==
    ASSUME NEW d, Conversation(d), SameSide(d), call'[d].pc = call[d].pc
    PROVE  Conversation(d)'
  BY DEF Conversation, InSetup, InLoop, Setup, Polling, Quiet, AckSent, AckAndGetSent,
         RequestSent, InGet, AckComes, RowsCome, Line, At, SameSide

LEMMA SameDown ==
    ASSUME NEW d, client'[d].batch = client[d].batch, wire'[d].down = wire[d].down
    PROVE  /\ Coming(d)' = Coming(d) /\ ToCome(d)' = ToCome(d)
           /\ \A type : Incoming(d, type)' <=> Incoming(d, type)
  <1>1. \A type : Incoming(d, type)' <=> Incoming(d, type)
    BY DEF Incoming
  <1>2. RowsInWire(d)' = RowsInWire(d)
    BY <1>1 DEF RowsInWire
  <1>3. Coming(d)' = Coming(d)
    BY <1>2 DEF Coming
  <1>4. QED
    BY <1>1, <1>3 DEF ToCome

LEMMA AckRead ==
    ASSUME NEW d, client'[d].batch = client[d].batch, Incoming(d, "Ack"),
           wire'[d].down = <<>>
    PROVE  Coming(d)' = Coming(d) /\ \A type : ~ Incoming(d, type)'
  <1>1. \A type : ~ Incoming(d, type)'
    BY DEF Incoming
  <1>2. ~ Incoming(d, "Messages")
    BY DEF Incoming
  <1>3. RowsInWire(d) = <<>> /\ RowsInWire(d)' = <<>>
    BY <1>1, <1>2 DEF RowsInWire
  <1>4. QED
    BY <1>1, <1>3 DEF Coming

LEMMA SessionStays ==
    ASSUME NEW d, SessionIsMine(d), Elsewhere(d), flow'[d] = flow[d]
    PROVE  SessionIsMine(d)'
  <1>1. EndPositions(d)' = EndPositions(d)
    BY DEF EndPositions, Elsewhere
  <1>2. QED
    BY <1>1 DEF SessionIsMine, Elsewhere

LEMMA ElsewhereKeeps ==
    ASSUME ClientInv, ServerInv', LogMoves, NEW d \in Readers, Elsewhere(d), SameSide(d)
    PROVE  /\ Len(client'[d].channel) <= ChannelSize
           /\ Conversation(d)' /\ DeliveryInv(d)'
  <1>1. /\ Len(client[d].channel) <= ChannelSize /\ Conversation(d) /\ DeliveryInv(d)
        /\ flow[d].ends \subseteq Position
    BY ClientTyped DEF ClientInv, Flow
  <1>2. Conversation(d)'
    BY <1>1, SameConversation DEF Elsewhere
  <1>3. /\ Coming(d)' = Coming(d) /\ ToCome(d)' = ToCome(d)
        /\ Incoming(d, "Ack")' <=> Incoming(d, "Ack")
    BY SameDown DEF SameSide
  <1>4. SessionIsMine(d)'
    BY <1>1, SessionStays DEF DeliveryInv, SameSide
  <1>5. ServedUpToEnds(d)'
    BY <1>1, BatchesStay DEF DeliveryInv, SameSide
  <1>6. CursorIsLast(d)'
    BY <1>1 DEF DeliveryInv, CursorIsLast, Elsewhere
  <1>7. OnTheWay(d)'
    BY <1>1, <1>3, WayStays DEF DeliveryInv, SameSide, LogMoves
  <1>8. AckedIsPast(d)'
    BY <1>1, <1>3, PastStays DEF DeliveryInv, Elsewhere, LogMoves
  <1>9. AckMeansLoss(d)'
    BY <1>1, <1>3, LossStays DEF DeliveryInv, SameSide
  <1>10. QED
    BY <1>1, <1>2, <1>4, <1>5, <1>6, <1>7, <1>8, <1>9 DEF DeliveryInv, SameSide

(* The step of one client leaves it with state k, wire w and history f.    *)
SideIs(c, k, w, f) ==
    /\ client' = [client EXCEPT ![c] = k]
    /\ wire' = [wire EXCEPT ![c] = w]
    /\ flow' = [flow EXCEPT ![c] = f]

LEMMA SideEffect ==
    ASSUME ClientInv, NEW c \in Readers, NEW k \in Library, NEW w \in Socket, NEW f \in Flow,
           SideIs(c, k, w, f)
    PROVE  /\ client' \in [Readers -> Library] /\ wire' \in [Readers -> Socket]
           /\ flow' \in [Readers -> Flow]
           /\ client'[c] = k /\ wire'[c] = w /\ flow'[c] = f
           /\ \A d \in Readers : d # c => SameSide(d)
  BY DEF ClientInv, SideIs, SameSide

LEMMA StepOfOne ==
    ASSUME ClientInv, ServerInv', LogMoves, NEW c \in Readers,
           NEW k \in Library, NEW w \in Socket, NEW f \in Flow, SideIs(c, k, w, f),
           \A d \in Readers : d # c => Elsewhere(d),
           Len(k.channel) <= ChannelSize, Conversation(c)', DeliveryInv(c)'
    PROVE  ClientInv'
  <1>1. /\ client' \in [Readers -> Library] /\ wire' \in [Readers -> Socket]
        /\ flow' \in [Readers -> Flow] /\ client'[c] = k
        /\ \A d \in Readers : d # c => SameSide(d)
    BY SideEffect
  <1>2. ASSUME NEW d \in Readers
        PROVE  /\ Len(client'[d].channel) <= ChannelSize
               /\ Conversation(d)' /\ DeliveryInv(d)'
    <2>1. CASE d = c
      BY <1>1, <2>1
    <2>2. CASE d # c
      BY <1>1, <2>2, ElsewhereKeeps
    <2>3. QED
      BY <2>1, <2>2
  <1>3. QED
    BY <1>1, <1>2 DEF ClientInv

LEMMA LogStays ==
    ASSUME ServerInv, UNCHANGED <<buffer, log>>
    PROVE  LogMoves
  <1>1. log \in Seq(Event) /\ buffer \in Seq(Event) /\ Len(buffer) <= Len(log)
    BY DEF ServerInv, StoreInv, BufferInv, BufferIsNewestEvents, StoreTypeOK
  <1>2. Len(log) \in Nat /\ Dropped \in Nat /\ Dropped' = Dropped
    BY <1>1 DEF Dropped
  <1>3. QED
    BY <1>2 DEF LogMoves, LogExtends

(* A step of the library: the server does not notice.                      *)
LEMMA LibraryStep ==
    ASSUME ClientInv, NEW c \in Readers, UNCHANGED vars,
           NEW k \in Library, NEW w \in Socket, NEW f \in Flow, SideIs(c, k, w, f),
           f.served = flow[c].served, f.ends = flow[c].ends,
           Len(k.channel) <= ChannelSize, Conversation(c)',
           OnTheWay(c)', ToCome(c)' \subseteq ToCome(c), AckMeansLoss(c)'
    PROVE  ClientInv'
  <1>1. ServerInv /\ DeliveryInv(c) /\ flow[c].ends \subseteq Position
    BY ClientTyped DEF Flow
  <1>2. ServerInv'
    BY <1>1, ServerStutter
  <1>3. UNCHANGED <<buffer, log, call, conn, sessions, hist>>
    BY DEF vars, storeVars, serverVars
  <1>4. LogMoves
    BY <1>1, <1>3, LogStays
  <1>5. \A d \in Readers : Elsewhere(d)
    BY <1>3 DEF Elsewhere
  <1>6. flow'[c].served = flow[c].served /\ flow'[c].ends = flow[c].ends
    BY SideEffect
  <1>7. SessionIsMine(c)'
    <2>1. EndPositions(c)' = EndPositions(c)
      BY <1>3 DEF EndPositions
    <2>2. QED
      BY <1>1, <1>3, <1>6, <2>1 DEF DeliveryInv, SessionIsMine
  <1>8. ServedUpToEnds(c)'
    BY <1>1, <1>2, <1>4, <1>6, BatchesStay DEF DeliveryInv
  <1>9. CursorIsLast(c)'
    BY <1>1, <1>3 DEF DeliveryInv, CursorIsLast
  <1>10. AckedIsPast(c)'
    BY <1>1, <1>3, <1>4, PastStays DEF DeliveryInv, LogMoves
  <1>11. DeliveryInv(c)'
    BY <1>7, <1>8, <1>9, <1>10 DEF DeliveryInv
  <1>12. QED
    BY <1>2, <1>4, <1>5, <1>11, StepOfOne

-----------------------------------------------------------------------------
(* The library: connect(), subscribe() and the poll loop.                  *)

LEMMA SendEffect ==
    ASSUME ClientInv, NEW c \in Readers, NEW packet \in UpPacket, Send(c, packet)
    PROVE  \E w \in Socket : /\ wire' = [wire EXCEPT ![c] = w]
                             /\ w.up = Append(wire[c].up, packet)
                             /\ w.down = wire[c].down
  <1>1. wire \in [Readers -> Socket] /\ wire[c] \in Socket
    BY ClientTyped
  <1>2. PICK up : up = Append(wire[c].up, packet)
    OBVIOUS
  <1>3. up \in Seq(UpPacket)
    BY <1>1, <1>2 DEF Socket
  <1>4. PICK w : w = [wire[c] EXCEPT !.up = up]
    OBVIOUS
  <1>5. w \in Socket /\ w.up = up /\ w.down = wire[c].down
    BY <1>1, <1>3, <1>4 DEF Socket
  <1>6. wire' = [wire EXCEPT ![c] = w]
    BY <1>1, <1>2, <1>4 DEF Send
  <1>7. QED
    BY <1>2, <1>5, <1>6

LEMMA ReadEffect ==
    ASSUME ClientInv, NEW c \in Readers, wire[c].down # <<>>, Read(c)
    PROVE  \E w \in Socket : /\ wire' = [wire EXCEPT ![c] = w]
                             /\ w.up = wire[c].up
                             /\ w.down = Tail(wire[c].down)
  <1>1. wire \in [Readers -> Socket] /\ wire[c] \in Socket
    BY ClientTyped
  <1>2. PICK down : down = Tail(wire[c].down)
    OBVIOUS
  <1>3. down \in Seq(DownPacket)
    <2>1. wire[c].down \in Seq(DownPacket)
      BY <1>1 DEF Socket
    <2>2. QED
      BY <1>2, <2>1, HeadTailProperties
  <1>4. PICK w : w = [wire[c] EXCEPT !.down = down]
    OBVIOUS
  <1>5. w \in Socket /\ w.down = down /\ w.up = wire[c].up
    BY <1>1, <1>3, <1>4 DEF Socket
  <1>6. wire' = [wire EXCEPT ![c] = w]
    BY <1>1, <1>2, <1>4 DEF Read
  <1>7. QED
    BY <1>2, <1>5, <1>6

LEMMA GotoEffect ==
    ASSUME ClientInv, NEW c \in Readers, NEW pc \in SetupPcs \cup PollPcs, Goto(c, pc)
    PROVE  \E k \in Library :
              /\ client' = [client EXCEPT ![c] = k]
              /\ k.pc = pc /\ k.stream = client[c].stream /\ k.batch = client[c].batch
              /\ k.channel = client[c].channel
  <1>1. client \in [Readers -> Library] /\ client[c] \in Library
    BY ClientTyped
  <1>2. PICK k : k = [client[c] EXCEPT !.pc = pc]
    OBVIOUS
  <1>3. /\ k \in Library /\ k.pc = pc /\ k.stream = client[c].stream
        /\ k.batch = client[c].batch /\ k.channel = client[c].channel
    BY <1>1, <1>2 DEF Library
  <1>4. client' = [client EXCEPT ![c] = k]
    BY <1>1, <1>2 DEF Goto
  <1>5. QED
    BY <1>3, <1>4

(* The program counter moves, and at most an Ack is read or a packet sent. *)
LEMMA GotoStep ==
    ASSUME ClientInv, NEW c \in Readers, UNCHANGED vars, UNCHANGED flow,
           NEW pc \in SetupPcs \cup PollPcs, Goto(c, pc),
           NEW w \in Socket, wire' = [wire EXCEPT ![c] = w],
           w.down = wire[c].down \/ (Incoming(c, "Ack") /\ w.down = <<>>),
           pc \in PollPcs => client[c].pc \in PollPcs,
           /\ client'[c].pc = pc /\ client'[c].stream = client[c].stream
           /\ client'[c].batch = client[c].batch /\ client'[c].channel = client[c].channel
           /\ wire'[c] = w /\ flow'[c] = flow[c] /\ call'[c] = call[c]
           => Conversation(c)'
    PROVE  ClientInv'
  <1>1. PICK k \in Library :
              /\ client' = [client EXCEPT ![c] = k]
              /\ k.pc = pc /\ k.stream = client[c].stream /\ k.batch = client[c].batch
              /\ k.channel = client[c].channel
    BY GotoEffect
  <1>2. /\ flow \in [Readers -> Flow] /\ flow[c] \in Flow /\ DeliveryInv(c) /\ ServerInv
        /\ Len(client[c].channel) <= ChannelSize
    BY ClientTyped DEF ClientInv
  <1>3. flow' = [flow EXCEPT ![c] = flow[c]]
    BY <1>2
  <1>4. SideIs(c, k, w, flow[c])
    BY <1>1, <1>3 DEF SideIs
  <1>5. client'[c] = k /\ wire'[c] = w /\ flow'[c] = flow[c]
    BY <1>2, <1>4, SideEffect
  <1>6. call' = call /\ UNCHANGED <<buffer, log>>
    BY DEF vars, storeVars
  <1>7. Conversation(c)'
    BY <1>1, <1>5, <1>6
  <1>8. /\ Coming(c)' = Coming(c)
        /\ Incoming(c, "Ack")' => Incoming(c, "Ack")
    BY <1>1, <1>5, SameDown, AckRead
  <1>9. LogMoves
    BY <1>2, <1>6, LogStays
  <1>10. OnTheWay(c)'
    BY <1>1, <1>2, <1>5, <1>8, <1>9, WayStays DEF DeliveryInv, LogMoves
  <1>11. ToCome(c)' \subseteq ToCome(c)
    BY <1>8 DEF ToCome
  <1>12. AckMeansLoss(c)'
    BY <1>1, <1>2, <1>5, <1>8, <1>9, LossStays DEF DeliveryInv
  <1>13. QED
    BY <1>1, <1>2, <1>4, <1>7, <1>10, <1>11, <1>12, LibraryStep

LEMMA SameWireEffect ==
    ASSUME ClientInv, NEW c \in Readers, UNCHANGED wire
    PROVE  wire[c] \in Socket /\ wire' = [wire EXCEPT ![c] = wire[c]]
  BY ClientTyped

LEMMA SetupAndPoll ==
    /\ "new" \in SetupPcs /\ "auth" \in SetupPcs /\ "connected" \in SetupPcs
    /\ "sub" \in SetupPcs /\ "get" \in PollPcs /\ "answer" \in PollPcs
    /\ "forward" \in PollPcs /\ "done" \in PollPcs
    /\ SetupPcs \cap PollPcs = {}
  BY DEF SetupPcs, PollPcs

LEMMA ConnectedKeeps ==
    ASSUME ClientInv, NEW c \in Readers, Connected(c)
    PROVE  ClientInv'
  <1>1. /\ At(c, "auth") /\ Incoming(c, "Ack") /\ Read(c) /\ UNCHANGED vars /\ UNCHANGED flow
        /\ wire[c].down # <<>>
    BY DEF Connected, Incoming
  <1>2. PICK pc : /\ pc = IF Head(wire[c].down).ok THEN "connected" ELSE "new"
                  /\ Goto(c, pc)
    BY DEF Connected
  <1>3. pc \in SetupPcs /\ (pc = "connected" \/ pc = "new") /\ pc \notin PollPcs
    BY <1>2, SetupAndPoll
  <1>4. InSetup(c)
    BY <1>1, ClientTyped, SetupAndPoll DEF Conversation, At
  <1>5. PICK w \in Socket : /\ wire' = [wire EXCEPT ![c] = w]
                            /\ w.up = wire[c].up
                            /\ w.down = Tail(wire[c].down)
    BY <1>1, ReadEffect
  <1>6. w.up = <<>> /\ w.down = <<>> /\ call[c].pc = "idle"
    BY <1>1, <1>4, <1>5, AckCame DEF InSetup
  <1>7. ASSUME client'[c].pc = pc, client'[c].stream = client[c].stream,
               client'[c].batch = client[c].batch, client'[c].channel = client[c].channel,
               wire'[c] = w, flow'[c] = flow[c], call'[c] = call[c]
        PROVE  Conversation(c)'
    <2>1. Quiet(c)'
      BY <1>6, <1>7 DEF Quiet, Line
    <2>2. InSetup(c)'
      BY <1>4, <1>7, <2>1 DEF InSetup, Setup
    <2>3. QED
      BY <1>3, <1>7, <2>2 DEF Conversation
  <1>8. QED
    BY <1>1, <1>2, <1>3, <1>5, <1>6, <1>7, GotoStep

LEMMA SubscribeKeeps ==
    ASSUME ClientInv, NEW c \in Readers, Subscribe(c)
    PROVE  ClientInv'
  <1>1. /\ At(c, "connected") /\ Goto(c, "sub") /\ Send(c, [type |-> "Sub"])
        /\ UNCHANGED vars /\ UNCHANGED flow
    BY DEF Subscribe
  <1>2. InSetup(c) /\ Quiet(c)
    BY <1>1, ClientTyped, SetupAndPoll DEF Conversation, At, InSetup
  <1>3. [type |-> "Sub"] \in UpPacket
    BY DEF UpPacket
  <1>4. PICK w \in Socket : /\ wire' = [wire EXCEPT ![c] = w]
                            /\ w.up = Append(wire[c].up, [type |-> "Sub"])
                            /\ w.down = wire[c].down
    BY <1>1, <1>3, SendEffect
  <1>5. w.up = <<[type |-> "Sub"]>> /\ w.down = <<>> /\ call[c].pc = "idle"
    BY <1>2, <1>4, OnePacket DEF Quiet, Line
  <1>6. ASSUME client'[c].pc = "sub", client'[c].stream = client[c].stream,
               client'[c].batch = client[c].batch, client'[c].channel = client[c].channel,
               wire'[c] = w, flow'[c] = flow[c], call'[c] = call[c]
        PROVE  Conversation(c)'
    <2>1. RequestSent(c, "Sub")'
      BY <1>5, <1>6 DEF RequestSent, Line
    <2>2. InSetup(c)'
      BY <1>2, <1>6, <2>1 DEF InSetup, Setup, At
    <2>3. QED
      BY <1>6, <2>2, SetupAndPoll DEF Conversation
  <1>7. QED
    BY <1>1, <1>4, <1>6, GotoStep, SetupAndPoll

LEMMA SendGetKeeps ==
    ASSUME ClientInv, NEW c \in Readers, SendGet(c)
    PROVE  ClientInv'
  <1>1. /\ At(c, "get") /\ Goto(c, "answer") /\ Send(c, [type |-> "Get"])
        /\ UNCHANGED vars /\ UNCHANGED flow
    BY DEF SendGet
  <1>2. InLoop(c) /\ (Quiet(c) \/ AckSent(c)) /\ client[c].batch = <<>>
    BY <1>1, ClientTyped, SetupAndPoll DEF Conversation, At, InLoop
  <1>3. [type |-> "Get"] \in UpPacket
    BY DEF UpPacket
  <1>4. PICK w \in Socket : /\ wire' = [wire EXCEPT ![c] = w]
                            /\ w.up = Append(wire[c].up, [type |-> "Get"])
                            /\ w.down = wire[c].down
    BY <1>1, <1>3, SendEffect
  <1>5. call[c].pc = "idle"
    BY <1>2 DEF Quiet, AckSent
  <1>6. ASSUME client'[c].pc = "answer", client'[c].stream = client[c].stream,
               client'[c].batch = client[c].batch, client'[c].channel = client[c].channel,
               wire'[c] = w, flow'[c] = flow[c], call'[c] = call[c]
        PROVE  Conversation(c)'
    <2>1. CASE Quiet(c)
      <3>1. w.up = <<[type |-> "Get"]>> /\ w.down = <<>>
        BY <1>4, <2>1, OnePacket DEF Quiet, Line
      <3>2. RequestSent(c, "Get")'
        BY <1>5, <1>6, <3>1 DEF RequestSent, Line
      <3>3. QED
        BY <1>2, <1>6, <3>2, SetupAndPoll DEF InLoop, Polling, At, Conversation
    <2>2. CASE AckSent(c)
      <3>1. PICK id \in Nat : Line(c, <<[type |-> "ClientAck", batch_id |-> id]>>, <<>>)
        BY <2>2 DEF AckSent
      <3>2. /\ w.up = <<[type |-> "ClientAck", batch_id |-> id], [type |-> "Get"]>>
            /\ w.down = <<>>
        BY <1>4, <3>1, TwoPackets DEF Line
      <3>3. AckAndGetSent(c)'
        BY <1>5, <1>6, <3>2 DEF AckAndGetSent, Line
      <3>4. QED
        BY <1>2, <1>6, <3>3, SetupAndPoll DEF InLoop, Polling, At, Conversation
    <2>3. QED
      BY <1>2, <2>1, <2>2
  <1>7. client[c].pc \in PollPcs
    BY <1>1, SetupAndPoll DEF At
  <1>8. QED
    BY <1>1, <1>4, <1>6, <1>7, GotoStep, SetupAndPoll

LEMMA TerminalAckKeeps ==
    ASSUME ClientInv, NEW c \in Readers, TerminalAck(c)
    PROVE  ClientInv'
  <1>1. /\ At(c, "answer") /\ Incoming(c, "Ack") /\ Goto(c, "done") /\ Read(c)
        /\ UNCHANGED vars /\ UNCHANGED flow /\ wire[c].down # <<>>
    BY DEF TerminalAck, Incoming
  <1>2. InLoop(c)
    BY <1>1, ClientTyped, SetupAndPoll DEF Conversation, At
  <1>3. PICK w \in Socket : /\ wire' = [wire EXCEPT ![c] = w]
                            /\ w.up = wire[c].up
                            /\ w.down = Tail(wire[c].down)
    BY <1>1, ReadEffect
  <1>4. w.up = <<>> /\ w.down = <<>> /\ call[c].pc = "idle"
    BY <1>1, <1>2, <1>3, AckCame DEF InLoop
  <1>5. ASSUME client'[c].pc = "done", client'[c].stream = client[c].stream,
               client'[c].batch = client[c].batch, client'[c].channel = client[c].channel,
               wire'[c] = w, flow'[c] = flow[c], call'[c] = call[c]
        PROVE  Conversation(c)'
    <2>1. Quiet(c)'
      BY <1>4, <1>5 DEF Quiet, Line
    <2>2. QED
      BY <1>2, <1>5, <2>1, SetupAndPoll DEF InLoop, Polling, Conversation
  <1>6. client[c].pc \in PollPcs
    BY <1>1, SetupAndPoll DEF At
  <1>7. QED
    BY <1>1, <1>3, <1>4, <1>5, <1>6, GotoStep, SetupAndPoll

LEMMA SendAckKeeps ==
    ASSUME ClientInv, NEW c \in Readers, SendAck(c)
    PROVE  ClientInv'
  <1> DEFINE packet == [type |-> "ClientAck", batch_id |-> client[c].batch_id]
  <1>1. /\ At(c, "forward") /\ client[c].batch = <<>> /\ Goto(c, "get") /\ Send(c, packet)
        /\ UNCHANGED vars /\ UNCHANGED flow
    BY DEF SendAck, Forwarded
  <1>2. InLoop(c) /\ Quiet(c)
    BY <1>1, ClientTyped, SetupAndPoll DEF Conversation, At, InLoop
  <1>3. client[c].batch_id \in Nat /\ packet \in UpPacket
    BY ClientTyped DEF Library, UpPacket
  <1>4. PICK w \in Socket : /\ wire' = [wire EXCEPT ![c] = w]
                            /\ w.up = Append(wire[c].up, packet)
                            /\ w.down = wire[c].down
    BY <1>1, <1>3, SendEffect
  <1>5. w.up = <<packet>> /\ w.down = <<>> /\ call[c].pc = "idle"
    BY <1>2, <1>4, OnePacket DEF Quiet, Line
  <1>6. ASSUME client'[c].pc = "get", client'[c].stream = client[c].stream,
               client'[c].batch = client[c].batch, client'[c].channel = client[c].channel,
               wire'[c] = w, flow'[c] = flow[c], call'[c] = call[c]
        PROVE  Conversation(c)'
    <2>1. AckSent(c)'
      BY <1>3, <1>5, <1>6 DEF AckSent, Line
    <2>2. QED
      BY <1>1, <1>2, <1>6, <2>1, SetupAndPoll DEF InLoop, Polling, Conversation, At
  <1>7. client[c].pc \in PollPcs
    BY <1>1, SetupAndPoll DEF At
  <1> HIDE DEF packet
  <1>8. QED
    BY <1>1, <1>4, <1>6, <1>7, GotoStep, SetupAndPoll

(* The loop ends where it is: whatever is in the wire stays there.         *)
LEMMA LoopEnds ==
    ASSUME ClientInv, NEW c \in Readers, client[c].pc \in PollPcs, Goto(c, "done"),
           UNCHANGED <<vars, wire, flow>>
    PROVE  ClientInv'
  <1>1. InLoop(c)
    BY ClientTyped DEF Conversation
  <1>2. ASSUME client'[c].pc = "done", client'[c].stream = client[c].stream,
               client'[c].batch = client[c].batch, client'[c].channel = client[c].channel,
               wire'[c] = wire[c], flow'[c] = flow[c], call'[c] = call[c]
        PROVE  Conversation(c)'
    <2>1. Polling(c)' /\ (Quiet(c)' <=> Quiet(c))
      BY <1>1, <1>2 DEF InLoop, Polling, Quiet, AckSent, AckAndGetSent, RequestSent, InGet,
                        AckComes, RowsCome, Line
    <2>2. InLoop(c)'
      BY <1>1, <1>2, <2>1 DEF InLoop, At
    <2>3. QED
      BY <1>2, <2>2, SetupAndPoll DEF Conversation
  <1>3. UNCHANGED vars /\ UNCHANGED flow /\ UNCHANGED wire
    OBVIOUS
  <1>4. QED
    BY <1>2, <1>3, SameWireEffect, GotoStep, SetupAndPoll

LEMMA ConnectionLostKeeps ==
    ASSUME ClientInv, NEW c \in Readers, ConnectionLost(c)
    PROVE  ClientInv'
  <1>1. UNCHANGED vars /\ UNCHANGED flow /\ UNCHANGED wire
    BY DEF ConnectionLost
  <1>2. CASE client[c].pc \in {"auth", "sub"}
    <2>1. Goto(c, "new") /\ InSetup(c)
      BY <1>2, ClientTyped, SetupAndPoll DEF ConnectionLost, Conversation
    <2>2. ASSUME client'[c].pc = "new", client'[c].stream = client[c].stream,
                 client'[c].batch = client[c].batch, client'[c].channel = client[c].channel,
                 wire'[c] = wire[c], flow'[c] = flow[c], call'[c] = call[c]
          PROVE  Conversation(c)'
      <3>1. Setup(c)'
        BY <2>1, <2>2 DEF InSetup, Setup, Quiet, RequestSent, AckComes, Line
      <3>2. InSetup(c)'
        BY <2>1, <2>2, <3>1 DEF InSetup, At
      <3>3. QED
        BY <2>2, <3>2, SetupAndPoll DEF Conversation
    <2>3. QED
      BY <1>1, <2>1, <2>2, SameWireEffect, GotoStep, SetupAndPoll
  <1>3. CASE client[c].pc \notin {"auth", "sub"}
    <2>1. client[c].pc \in PollPcs /\ Goto(c, "done")
      BY <1>3 DEF ConnectionLost, Forwarded, At, PollPcs
    <2>2. QED
      BY <1>1, <2>1, LoopEnds
  <1>4. QED
    BY <1>2, <1>3

LEMMA AbortedKeeps ==
    ASSUME ClientInv, NEW c \in Readers, Aborted(c)
    PROVE  ClientInv'
  <1>1. /\ client[c].stream = "ended" /\ Goto(c, "done")
        /\ UNCHANGED <<vars, wire, flow>>
    BY DEF Aborted
  <1>2. client[c].pc \in SetupPcs \cup PollPcs /\ Conversation(c)
    BY ClientTyped DEF Library
  <1>3. client[c].pc \in PollPcs
    BY <1>1, <1>2 DEF Conversation, InSetup
  <1>4. QED
    BY <1>1, <1>3, LoopEnds

LEMMA SubscribedKeeps ==
    ASSUME ClientInv, NEW c \in Readers, Subscribed(c)
    PROVE  ClientInv'
  <1>1. /\ At(c, "sub") /\ Incoming(c, "Ack") /\ Read(c) /\ UNCHANGED vars /\ UNCHANGED flow
        /\ client' = [client EXCEPT ![c].pc = "get", ![c].stream = "open"]
        /\ wire[c].down # <<>>
    BY DEF Subscribed, Incoming
  <1>2. /\ InSetup(c) /\ DeliveryInv(c) /\ ServerInv /\ client[c] \in Library
        /\ client \in [Readers -> Library] /\ flow \in [Readers -> Flow] /\ flow[c] \in Flow
        /\ Len(client[c].channel) <= ChannelSize
    BY <1>1, ClientTyped, SetupAndPoll DEF Conversation, At, ClientInv
  <1>3. PICK k : k = [client[c] EXCEPT !.pc = "get", !.stream = "open"]
    OBVIOUS
  <1>4. /\ k \in Library /\ k.pc = "get" /\ k.stream = "open"
        /\ k.batch = client[c].batch /\ k.channel = client[c].channel
    BY <1>2, <1>3, SetupAndPoll DEF Library
  <1>5. PICK w \in Socket : /\ wire' = [wire EXCEPT ![c] = w]
                            /\ w.up = wire[c].up
                            /\ w.down = Tail(wire[c].down)
    BY <1>1, ReadEffect
  <1>6. w.up = <<>> /\ w.down = <<>> /\ call[c].pc = "idle"
    BY <1>1, <1>2, <1>5, AckCame DEF InSetup
  <1>7. SideIs(c, k, w, flow[c])
    BY <1>1, <1>2, <1>3, <1>5 DEF SideIs
  <1>8. client'[c] = k /\ wire'[c] = w /\ flow'[c] = flow[c]
    BY <1>2, <1>4, <1>7, SideEffect
  <1>9. call' = call /\ UNCHANGED <<buffer, log>>
    BY <1>1 DEF vars, storeVars
  <1>10. Conversation(c)'
    <2>1. Quiet(c)'
      BY <1>6, <1>8, <1>9 DEF Quiet, Line
    <2>2. InLoop(c)'
      BY <1>2, <1>4, <1>8, <2>1 DEF InLoop, InSetup, Polling
    <2>3. QED
      BY <1>4, <1>8, <2>2, SetupAndPoll DEF Conversation
  <1>11. Coming(c)' = Coming(c) /\ ~ Incoming(c, "Ack")'
    BY <1>1, <1>4, <1>6, <1>8, AckRead
  <1>12. LogMoves
    BY <1>2, <1>9, LogStays
  <1>13. OnTheWay(c)'
    <2>1. client[c].stream # "ended"
      BY <1>2 DEF InSetup
    <2>2. QED
      BY <1>2, <1>4, <1>8, <1>11, <1>12, <2>1, WayStays DEF DeliveryInv, LogMoves
  <1>14. ToCome(c)' \subseteq ToCome(c) /\ AckMeansLoss(c)'
    BY <1>11 DEF ToCome, AckMeansLoss
  <1>15. QED
    BY <1>1, <1>2, <1>4, <1>7, <1>10, <1>13, <1>14, LibraryStep

LEMMA ReadMessagesKeeps ==
    ASSUME ClientInv, NEW c \in Readers, ReadMessages(c)
    PROVE  ClientInv'
  <1> DEFINE m == Head(wire[c].down)
  <1>1. /\ At(c, "answer") /\ Incoming(c, "Messages") /\ Read(c)
        /\ UNCHANGED vars /\ UNCHANGED flow
        /\ client' = [client EXCEPT ![c].pc = "forward", ![c].batch = m.rows,
                                    ![c].batch_id = m.batch_id]
        /\ wire[c].down # <<>>
    BY DEF ReadMessages, TakeMessages, Incoming
  <1>2. /\ InLoop(c) /\ DeliveryInv(c) /\ ServerInv /\ client[c] \in Library
        /\ client \in [Readers -> Library] /\ flow \in [Readers -> Flow] /\ flow[c] \in Flow
        /\ Len(client[c].channel) <= ChannelSize
    BY <1>1, ClientTyped, SetupAndPoll DEF Conversation, At, ClientInv
  <1>3. /\ m.rows \in Seq(Nat) /\ m.batch_id \in Nat
        /\ RowsInWire(c) = m.rows
        /\ call[c].pc = "idle" /\ wire[c].up = <<>> /\ Tail(wire[c].down) = <<>>
    BY <1>1, <1>2, RowsCame DEF InLoop
  <1>4. PICK rows \in Seq(Nat), id \in Nat : rows = m.rows /\ id = m.batch_id
    BY <1>3
  <1> HIDE DEF m
  <1>5. PICK k : k = [client[c] EXCEPT !.pc = "forward", !.batch = rows, !.batch_id = id]
    OBVIOUS
  <1>6. /\ k \in Library /\ k.pc = "forward" /\ k.stream = client[c].stream
        /\ k.batch = rows /\ k.channel = client[c].channel
    BY <1>2, <1>5, SetupAndPoll DEF Library
  <1>7. PICK w \in Socket : /\ wire' = [wire EXCEPT ![c] = w]
                            /\ w.up = wire[c].up
                            /\ w.down = Tail(wire[c].down)
    BY <1>1, ReadEffect
  <1>8. w.up = <<>> /\ w.down = <<>>
    BY <1>3, <1>7
  <1>9. SideIs(c, k, w, flow[c])
    BY <1>1, <1>2, <1>4, <1>5, <1>7 DEF SideIs
  <1>10. client'[c] = k /\ wire'[c] = w /\ flow'[c] = flow[c]
    BY <1>2, <1>6, <1>9, SideEffect
  <1>11. call' = call /\ UNCHANGED <<buffer, log>>
    BY <1>1 DEF vars, storeVars
  <1>12. Conversation(c)'
    <2>1. Quiet(c)'
      BY <1>3, <1>8, <1>10, <1>11 DEF Quiet, Line
    <2>2. InLoop(c)'
      BY <1>2, <1>6, <1>10, <2>1 DEF InLoop, Polling, At
    <2>3. QED
      BY <1>6, <1>10, <2>2, SetupAndPoll DEF Conversation
  <1>13. client[c].batch = <<>>
    BY <1>1, <1>2 DEF InLoop, Quiet, Line
  <1>14. Coming(c) = rows
    BY <1>3, <1>4, <1>13 DEF Coming
  <1>15. \A type : ~ Incoming(c, type)'
    BY <1>8, <1>10 DEF Incoming
  <1>16. Coming(c)' = rows
    <2>1. RowsInWire(c)' = <<>>
      BY <1>15 DEF RowsInWire
    <2>2. QED
      BY <1>6, <1>10, <2>1 DEF Coming
  <1>17. LogMoves
    BY <1>2, <1>11, LogStays
  <1>18. OnTheWay(c)'
    BY <1>2, <1>6, <1>10, <1>14, <1>16, <1>17, WayStays DEF DeliveryInv, LogMoves
  <1>19. ToCome(c)' \subseteq ToCome(c) /\ AckMeansLoss(c)'
    BY <1>14, <1>15, <1>16 DEF ToCome, AckMeansLoss
  <1>20. QED
    BY <1>1, <1>2, <1>6, <1>9, <1>12, <1>18, <1>19, LibraryStep

(* tx.send: the first row to come becomes the last of the channel.         *)
LEMMA EnqueueKeeps ==
    ASSUME ClientInv, NEW c \in Readers, At(c, "forward"), client[c].batch # <<>>,
           client[c].stream = "open", Enqueue(c), UNCHANGED <<vars, wire, flow>>
    PROVE  ClientInv'
  <1>1. /\ InLoop(c) /\ DeliveryInv(c) /\ ServerInv /\ client[c] \in Library
        /\ client \in [Readers -> Library] /\ flow \in [Readers -> Flow] /\ flow[c] \in Flow
        /\ client[c].batch \in Seq(Nat) /\ client[c].channel \in Seq(Nat)
    BY ClientTyped, SetupAndPoll DEF Conversation, At
  <1>2. PICK batch, channel : /\ batch = Tail(client[c].batch)
                              /\ channel = Append(client[c].channel, Head(client[c].batch))
    OBVIOUS
  <1>3. PICK row : row = Head(client[c].batch)
    OBVIOUS
  <1>4. /\ row \in Nat /\ batch \in Seq(Nat)
        /\ ToSet(client[c].batch) = {row} \cup ToSet(batch)
        /\ Rising(client[c].batch) => Rising(batch) /\ \A x \in ToSet(batch) : row < x
    BY <1>1, <1>2, <1>3, FirstRow
  <1>5. /\ channel \in Seq(Nat) /\ Len(channel) = Len(client[c].channel) + 1
        /\ ToSet(channel) = InChannel(c) \cup {row}
        /\ Rising(client[c].channel) /\ (\A y \in InChannel(c) : y < row) => Rising(channel)
    BY <1>1, <1>2, <1>3, <1>4, LastRow DEF InChannel
  <1>6. Len(channel) <= ChannelSize
    <2>1. Len(client[c].channel) \in Nat /\ Len(client[c].channel) < ChannelSize
      BY <1>1 DEF Enqueue
    <2>2. QED
      BY <1>5, <2>1, ClientAssumption
  <1>7. PICK k : k = [client[c] EXCEPT !.batch = batch, !.channel = channel]
    OBVIOUS
  <1>8. /\ k \in Library /\ k.pc = client[c].pc /\ k.stream = client[c].stream
        /\ k.batch = batch /\ k.channel = channel
    BY <1>1, <1>4, <1>5, <1>7 DEF Library
  <1>9. SideIs(c, k, wire[c], flow[c])
    BY <1>1, <1>2, <1>7, SameWireEffect DEF SideIs, Enqueue
  <1>10. wire[c] \in Socket
    BY ClientTyped
  <1>11. client'[c] = k /\ wire'[c] = wire[c] /\ flow'[c] = flow[c]
    BY <1>1, <1>8, <1>9, <1>10, SideEffect
  <1>12. call' = call /\ UNCHANGED <<buffer, log>>
    BY DEF vars, storeVars
  <1>13. Quiet(c) /\ Quiet(c)'
    BY <1>1, <1>11, <1>12 DEF InLoop, Quiet, Line
  <1>14. Conversation(c)'
    <2>1. InLoop(c)'
      BY <1>1, <1>8, <1>11, <1>13 DEF InLoop, Polling, At
    <2>2. client'[c].pc \in PollPcs
      BY <1>8, <1>11, SetupAndPoll DEF At
    <2>3. QED
      BY <2>1, <2>2, SetupAndPoll DEF Conversation
  <1>15. \A type : ~ Incoming(c, type)'
    BY <1>13 DEF Incoming, Quiet, Line
  <1>16. Coming(c)' = batch
    <2>1. RowsInWire(c)' = <<>>
      BY <1>15 DEF RowsInWire
    <2>2. QED
      BY <1>8, <1>11, <2>1 DEF Coming
  <1>17. Coming(c) = client[c].batch
    BY DEF Coming
  <1>18. /\ ToCome(c)' = ToSet(batch) /\ ToCome(c) = {row} \cup ToSet(batch)
         /\ Got(c)' = Got(c) /\ InChannel(c)' = InChannel(c) \cup {row}
    BY <1>4, <1>5, <1>8, <1>11, <1>16, <1>17 DEF ToCome, Got, InChannel
  <1>19. ServedToClient(c)' = ServedToClient(c)
    BY <1>11 DEF ServedToClient, vars, storeVars
  <1>20. NothingLost(c)
    BY <1>1 DEF DeliveryInv, OnTheWay
  <1>21. NothingLost(c)'
    <2>1. Rising(flow'[c].received) /\ Rising(channel) /\ Rising(batch)
      BY <1>4, <1>5, <1>11, <1>17, <1>18, <1>20 DEF NothingLost, AllBelow
    <2>2. /\ AllBelow(Got(c), InChannel(c) \cup {row}) /\ AllBelow(Got(c), ToSet(batch))
          /\ AllBelow(InChannel(c) \cup {row}, ToSet(batch))
      BY <1>4, <1>17, <1>18, <1>20 DEF NothingLost, AllBelow
    <2>3. Got(c) \cup (InChannel(c) \cup {row}) \cup ToSet(batch) = ServedToClient(c)
      BY <1>18, <1>20 DEF NothingLost
    <2>4. QED
      BY <1>8, <1>11, <1>16, <1>18, <1>19, <2>1, <2>2, <2>3 DEF NothingLost
  <1>22. OnTheWay(c)'
    BY <1>1, <1>18, <1>19, <1>21 DEF DeliveryInv, OnTheWay
  <1>23. ToCome(c)' \subseteq ToCome(c) /\ AckMeansLoss(c)'
    BY <1>15, <1>18 DEF AckMeansLoss
  <1>24. QED
    BY <1>1, <1>6, <1>8, <1>9, <1>10, <1>14, <1>22, <1>23, LibraryStep

LEMMA ForwardKeeps ==
    ASSUME ClientInv, NEW c \in Readers, Forward(c)
    PROVE  ClientInv'
  <1>1. At(c, "forward") /\ client[c].batch # <<>> /\ UNCHANGED <<vars, wire, flow>>
    BY DEF Forward
  <1>2. CASE client[c].stream = "open" /\ Enqueue(c)
    BY <1>1, <1>2, EnqueueKeeps
  <1>3. CASE Goto(c, "done")
    BY <1>1, <1>3, LoopEnds, SetupAndPoll DEF At
  <1>4. QED
    BY <1>2, <1>3 DEF Forward

-----------------------------------------------------------------------------
(* The consumer.                                                           *)

LEMMA NextEventKeeps ==
    ASSUME ClientInv, NEW c \in Readers, NextEvent(c)
    PROVE  ClientInv'
  <1>1. /\ client[c].stream = "open" /\ client[c].channel # <<>>
        /\ UNCHANGED vars /\ UNCHANGED wire
        /\ client' = [client EXCEPT ![c].channel = Tail(client[c].channel)]
        /\ flow' = [flow EXCEPT ![c].received =
                      Append(flow[c].received, Head(client[c].channel))]
    BY ClientTyped DEF NextEvent, Flow, Library
  <1>2. /\ DeliveryInv(c) /\ ServerInv /\ client[c] \in Library
        /\ client \in [Readers -> Library] /\ flow \in [Readers -> Flow] /\ flow[c] \in Flow
        /\ client[c].channel \in Seq(Nat) /\ flow[c].received \in Seq(Nat)
        /\ Conversation(c) /\ wire[c] \in Socket
        /\ Len(client[c].channel) \in Nat /\ Len(client[c].channel) <= ChannelSize
    BY ClientTyped DEF ClientInv
  <1>3. PICK row, channel, received :
           /\ row = Head(client[c].channel) /\ channel = Tail(client[c].channel)
           /\ received = Append(flow[c].received, row)
    OBVIOUS
  <1>4. /\ row \in Nat /\ channel \in Seq(Nat) /\ Len(channel) <= Len(client[c].channel)
        /\ InChannel(c) = {row} \cup ToSet(channel)
        /\ Rising(client[c].channel) =>
              Rising(channel) /\ \A x \in ToSet(channel) : row < x
    BY <1>1, <1>2, <1>3, FirstRow DEF InChannel
  <1>5. /\ received \in Seq(Nat) /\ ToSet(received) = Got(c) \cup {row}
        /\ Rising(flow[c].received) /\ (\A y \in Got(c) : y < row) => Rising(received)
    BY <1>2, <1>3, <1>4, LastRow DEF Got
  <1>6. Len(channel) <= ChannelSize
    BY <1>2, <1>4, ClientAssumption
  <1>7. PICK k, f : /\ k = [client[c] EXCEPT !.channel = channel]
                    /\ f = [flow[c] EXCEPT !.received = received]
    OBVIOUS
  <1>8. /\ k \in Library /\ k.pc = client[c].pc /\ k.stream = client[c].stream
        /\ k.batch = client[c].batch /\ k.channel = channel
    BY <1>2, <1>4, <1>7 DEF Library
  <1>9. /\ f \in Flow /\ f.served = flow[c].served /\ f.ends = flow[c].ends
        /\ f.received = received
    BY <1>2, <1>5, <1>7 DEF Flow
  <1>10. SideIs(c, k, wire[c], f)
    BY <1>1, <1>2, <1>3, <1>7, SameWireEffect DEF SideIs
  <1>11. client'[c] = k /\ wire'[c] = wire[c] /\ flow'[c] = f
    BY <1>2, <1>8, <1>9, <1>10, SideEffect
  <1>12. UNCHANGED <<buffer, log, call>>
    BY <1>1 DEF vars, storeVars
  <1>13. InLoop(c) /\ client[c].pc \in PollPcs
    BY <1>1, <1>2 DEF Conversation, InSetup, Library
  <1>14. Conversation(c)'
    <2>1. Polling(c)' /\ (Quiet(c)' <=> Quiet(c)) /\ (AckSent(c)' <=> AckSent(c))
      BY <1>11, <1>12, <1>13 DEF InLoop, Polling, Quiet, AckSent, AckAndGetSent,
                                RequestSent, InGet, AckComes, RowsCome, Line
    <2>2. InLoop(c)'
      BY <1>8, <1>11, <1>13, <2>1 DEF InLoop, At
    <2>3. QED
      BY <1>8, <1>11, <1>13, <2>2, SetupAndPoll DEF Conversation
  <1>15. /\ Coming(c)' = Coming(c) /\ ToCome(c)' = ToCome(c)
         /\ \A type : Incoming(c, type)' <=> Incoming(c, type)
    BY <1>8, <1>11, SameDown
  <1>16. Got(c)' = Got(c) \cup {row} /\ InChannel(c)' = ToSet(channel)
    BY <1>5, <1>8, <1>9, <1>11 DEF Got, InChannel
  <1>17. ServedToClient(c)' = ServedToClient(c)
    BY <1>9, <1>11, <1>12 DEF ServedToClient
  <1>18. NothingLost(c) /\ Got(c) \cup ToCome(c) \subseteq ServedToClient(c)
    BY <1>1, <1>2 DEF DeliveryInv, OnTheWay
  <1>19. NothingLost(c)'
    <2>1. Rising(received) /\ Rising(channel)
      BY <1>4, <1>5, <1>18 DEF NothingLost, AllBelow
    <2>2. /\ AllBelow(Got(c) \cup {row}, ToSet(channel))
          /\ AllBelow(Got(c) \cup {row}, ToCome(c))
          /\ AllBelow(ToSet(channel), ToCome(c))
      BY <1>4, <1>18 DEF NothingLost, AllBelow
    <2>3. (Got(c) \cup {row}) \cup ToSet(channel) \cup ToCome(c) = ServedToClient(c)
      BY <1>4, <1>18 DEF NothingLost
    <2>4. Rising(Coming(c)')
      BY <1>15, <1>18 DEF NothingLost
    <2>5. QED
      BY <1>8, <1>9, <1>11, <1>15, <1>16, <1>17, <2>1, <2>2, <2>3, <2>4 DEF NothingLost
  <1>20. OnTheWay(c)'
    <2>1. row \in ServedToClient(c)
      BY <1>4, <1>18 DEF NothingLost
    <2>2. QED
      BY <1>15, <1>16, <1>17, <1>18, <1>19, <2>1 DEF OnTheWay
  <1>21. AckMeansLoss(c)'
    BY <1>2, <1>8, <1>9, <1>11, <1>12, <1>15, LogStays, LossStays DEF DeliveryInv
  <1>22. ToCome(c)' \subseteq ToCome(c)
    BY <1>15
  <1>23. QED
    BY <1>1, <1>2, <1>6, <1>8, <1>9, <1>10, <1>14, <1>20, <1>21, <1>22, LibraryStep

(* The end of the stream, of itself or because the consumer drops it.      *)
LEMMA StreamEnds ==
    ASSUME ClientInv, NEW c \in Readers, client[c].stream = "open",
           NEW channel \in Seq(Nat), Len(channel) <= ChannelSize,
           client' = [client EXCEPT ![c] =
                        [client[c] EXCEPT !.stream = "ended", !.channel = channel]],
           UNCHANGED <<vars, wire, flow>>
    PROVE  ClientInv'
  <1>1. /\ DeliveryInv(c) /\ ServerInv /\ client[c] \in Library
        /\ client \in [Readers -> Library] /\ flow \in [Readers -> Flow] /\ flow[c] \in Flow
        /\ Conversation(c) /\ wire[c] \in Socket
    BY ClientTyped
  <1>2. PICK k : k = [client[c] EXCEPT !.stream = "ended", !.channel = channel]
    OBVIOUS
  <1>3. /\ k \in Library /\ k.pc = client[c].pc /\ k.stream = "ended"
        /\ k.batch = client[c].batch /\ k.channel = channel
    BY <1>1, <1>2 DEF Library
  <1>4. SideIs(c, k, wire[c], flow[c])
    BY <1>1, <1>2, SameWireEffect DEF SideIs
  <1>5. client'[c] = k /\ wire'[c] = wire[c] /\ flow'[c] = flow[c]
    BY <1>1, <1>3, <1>4, SideEffect
  <1>6. UNCHANGED <<buffer, log, call>>
    BY DEF vars, storeVars
  <1>7. InLoop(c) /\ client[c].pc \in PollPcs
    BY <1>1 DEF Conversation, InSetup, Library
  <1>8. Conversation(c)'
    <2>1. Polling(c)' /\ (Quiet(c)' <=> Quiet(c)) /\ (AckSent(c)' <=> AckSent(c))
      BY <1>5, <1>6, <1>7 DEF InLoop, Polling, Quiet, AckSent, AckAndGetSent,
                              RequestSent, InGet, AckComes, RowsCome, Line
    <2>2. InLoop(c)'
      BY <1>3, <1>5, <1>7, <2>1 DEF InLoop, At
    <2>3. QED
      BY <1>3, <1>5, <1>7, <2>2, SetupAndPoll DEF Conversation
  <1>9. /\ Coming(c)' = Coming(c) /\ ToCome(c)' = ToCome(c)
        /\ \A type : Incoming(c, type)' <=> Incoming(c, type)
    BY <1>3, <1>5, SameDown
  <1>10. LogMoves
    BY <1>1, <1>6, LogStays
  <1>11. OnTheWay(c)'
    BY <1>1, <1>3, <1>5, <1>9, <1>10, WayStays DEF DeliveryInv, LogMoves
  <1>12. AckMeansLoss(c)'
    BY <1>1, <1>3, <1>5, <1>9, <1>10, LossStays DEF DeliveryInv
  <1>13. ToCome(c)' \subseteq ToCome(c) /\ UNCHANGED vars
    BY <1>9
  <1>14. QED
    BY <1>1, <1>3, <1>4, <1>8, <1>11, <1>12, <1>13, LibraryStep

LEMMA NextNoneKeeps ==
    ASSUME ClientInv, NEW c \in Readers, NextNone(c)
    PROVE  ClientInv'
  <1>1. /\ client \in [Readers -> Library] /\ client[c] \in Library
        /\ client[c].channel \in Seq(Nat) /\ Len(client[c].channel) <= ChannelSize
    BY ClientTyped DEF ClientInv
  <1>2. client' = [client EXCEPT ![c] =
                     [client[c] EXCEPT !.stream = "ended", !.channel = client[c].channel]]
    BY <1>1 DEF NextNone, Library
  <1>3. QED
    BY <1>1, <1>2, StreamEnds DEF NextNone

LEMMA DropStreamKeeps ==
    ASSUME ClientInv, NEW c \in Readers, DropStream(c)
    PROVE  ClientInv'
  <1>1. client \in [Readers -> Library] /\ client[c] \in Library
    BY ClientTyped
  <1>2. client' = [client EXCEPT ![c] =
                     [client[c] EXCEPT !.stream = "ended", !.channel = <<>>]]
    BY <1>1 DEF DropStream, Library
  <1>3. <<>> \in Seq(Nat) /\ Len(<<>>) <= ChannelSize
    BY NoPacket, NoRows, ClientAssumption
  <1>4. QED
    BY <1>2, <1>3, StreamEnds DEF DropStream

-----------------------------------------------------------------------------
(* Before the poll loop.                                                   *)

LEMMA NothingYet ==
    ASSUME NEW c, flow'[c] = NewFlow, client'[c].channel = <<>>, client'[c].batch = <<>>,
           ~ Incoming(c, "Messages")'
    PROVE  ToCome(c)' = {} /\ OnTheWay(c)' /\ AckedIsPast(c)' /\ ServedUpToEnds(c)'
  <1>1. Coming(c)' = <<>>
    BY DEF Coming, RowsInWire
  <1>2. flow'[c].received = <<>> /\ flow'[c].served = {} /\ flow'[c].ends = {}
    BY DEF NewFlow
  <1>3. ToCome(c)' = {} /\ Got(c)' = {} /\ InChannel(c)' = {} /\ ServedToClient(c)' = {}
    BY <1>1, <1>2, NoRows DEF ToCome, Got, InChannel, ServedToClient
  <1>4. NothingLost(c)'
    BY <1>1, <1>2, <1>3, NoRows DEF NothingLost, AllBelow
  <1>5. OnTheWay(c)' /\ AckedIsPast(c)'
    BY <1>3, <1>4 DEF OnTheWay, AckedIsPast
  <1>6. ServedUpToEnds(c)'
    BY <1>2 DEF ServedUpToEnds
  <1>7. QED
    BY <1>3, <1>5, <1>6

LEMMA ConnectKeeps ==
    ASSUME ClientInv, NEW c \in Readers, Connect(c)
    PROVE  ClientInv'
  <1> DEFINE w == [up |-> <<[type |-> "Auth"]>>, down |-> <<>>]
  <1>1. /\ At(c, "new") /\ Accept(c) /\ Goto(c, "auth") /\ UNCHANGED flow
        /\ wire' = [wire EXCEPT ![c] = w]
        /\ ~ conn[c].open /\ conn' = [conn EXCEPT ![c].open = TRUE]
        /\ UNCHANGED <<buffer, log, call, sessions, hist>>
    BY DEF Connect, Accept, storeVars
  <1>2. /\ InSetup(c) /\ DeliveryInv(c) /\ ServerInv /\ ConnInv(c)
        /\ client \in [Readers -> Library] /\ client[c] \in Library
        /\ flow \in [Readers -> Flow] /\ flow[c] \in Flow
        /\ conn \in [Readers -> ClientState] /\ conn[c] \in ClientState
        /\ Len(client[c].channel) <= ChannelSize
    BY <1>1, ClientTyped, SetupAndPoll DEF Conversation, At, ClientInv, ServerInv, ServerTypeOK
  <1>3. ServerInv'
    BY <1>1, <1>2, AcceptKeeps
  <1>4. PICK k \in Library :
              /\ client' = [client EXCEPT ![c] = k]
              /\ k.pc = "auth" /\ k.stream = client[c].stream /\ k.batch = client[c].batch
              /\ k.channel = client[c].channel
    BY <1>1, GotoEffect, SetupAndPoll
  <1>5. w \in Socket /\ w.up = <<[type |-> "Auth"]>> /\ w.down = <<>>
    <2>1. [type |-> "Auth"] \in UpPacket
      BY DEF UpPacket
    <2>2. <<[type |-> "Auth"]>> \in Seq(UpPacket) /\ <<>> \in Seq(DownPacket)
      BY <2>1
    <2>3. QED
      BY <2>2 DEF Socket
  <1> HIDE DEF w
  <1>6. SideIs(c, k, w, flow[c])
    BY <1>1, <1>2, <1>4 DEF SideIs
  <1>7. client'[c] = k /\ wire'[c] = w /\ flow'[c] = flow[c]
    BY <1>2, <1>5, <1>6, SideEffect
  <1>8. Conversation(c)'
    <2>1. RequestSent(c, "Auth")'
      BY <1>1, <1>2, <1>5, <1>7 DEF RequestSent, Line, InSetup, Setup, Quiet, AckComes
    <2>2. InSetup(c)'
      BY <1>2, <1>4, <1>7, <2>1 DEF InSetup, Setup, At
    <2>3. QED
      BY <1>4, <1>7, <2>2, SetupAndPoll DEF Conversation
  <1>9. \A type : ~ Incoming(c, type)'
    BY <1>5, <1>7 DEF Incoming
  <1>10. /\ OnTheWay(c)' /\ AckedIsPast(c)' /\ ServedUpToEnds(c)'
         /\ AckMeansLoss(c)'
    BY <1>2, <1>4, <1>7, <1>9, NothingYet DEF InSetup, AckMeansLoss
  <1>11. /\ \A d \in Readers : d # c => conn'[d] = conn[d]
         /\ conn'[c] = [conn[c] EXCEPT !.open = TRUE]
    BY <1>1, <1>2
  <1>12. conn[c].authenticated = FALSE /\ hist.trace[c] = NewTrace
    BY <1>1, <1>2 DEF ConnInv, Identified, ClientState
  <1>13. SessionIsMine(c)'
    <2>1. EndPositions(c)' = {} /\ hist'.trace[c].served = {}
      BY <1>1, <1>12 DEF EndPositions, NewTrace
    <2>2. flow'[c].served = {} /\ flow'[c].ends = {}
      BY <1>2, <1>7 DEF InSetup, NewFlow
    <2>3. ~ conn'[c].authenticated
      BY <1>2, <1>11, <1>12 DEF ClientState
    <2>4. QED
      BY <1>1, <1>2, <2>1, <2>2, <2>3 DEF DeliveryInv, SessionIsMine
  <1>14. CursorIsLast(c)'
    BY <1>2, <1>11 DEF ClientState, DeliveryInv, CursorIsLast
  <1>15. \A d \in Readers : d # c => Elsewhere(d)
    BY <1>1, <1>11 DEF Elsewhere
  <1>16. LogMoves
    BY <1>1, <1>2, LogStays
  <1>17. Len(k.channel) <= ChannelSize /\ DeliveryInv(c)'
    BY <1>2, <1>4, <1>10, <1>13, <1>14 DEF DeliveryInv
  <1>18. QED
    BY <1>2, <1>3, <1>5, <1>6, <1>8, <1>15, <1>16, <1>17, StepOfOne

-----------------------------------------------------------------------------
(* The server's side.                                                      *)

LEMMA Ids ==
    ASSUME IdsDisjoint, NEW c \in Readers
    PROVE  /\ IdOf[c] \in IdsOf[c] /\ IdOf[c] \in ClientIds /\ FilterOf[c] \in Filters
           /\ \A d \in Readers : d # c => IdOf[d] # IdOf[c]
  BY ClientAssumption DEF IdsDisjoint

(* The request that is read tells which conversation it is.                *)
LEMMA RequestRead ==
    ASSUME NEW c, NEW type, NEW other, RequestSent(c, other), Asked(c, type)
    PROVE  type = other
  <1>1. Head(wire[c].up) = [type |-> other]
    BY OnePacket DEF RequestSent, Line
  <1>2. QED
    BY <1>1 DEF Asked

LEMMA AckIsRead ==
    ASSUME NEW c, NEW type, AckSent(c) \/ AckAndGetSent(c), Asked(c, type)
    PROVE  type = "ClientAck"
  <1>1. PICK id \in Nat : wire[c].up = <<[type |-> "ClientAck", batch_id |-> id]>>
                          \/ wire[c].up = <<[type |-> "ClientAck", batch_id |-> id],
                                           [type |-> "Get"]>>
    BY DEF AckSent, AckAndGetSent, Line
  <1>2. Head(wire[c].up) = [type |-> "ClientAck", batch_id |-> id]
    BY <1>1, OnePacket, TwoPackets
  <1>3. QED
    BY <1>2 DEF Asked

LEMMA NothingAsked ==
    ASSUME NEW c, NEW type, Asked(c, type)
    PROVE  ~ Quiet(c) /\ ~ InGet(c) /\ ~ AckComes(c) /\ ~ RowsCome(c)
  BY DEF Asked, Quiet, InGet, AckComes, RowsCome, Line

LEMMA AskedInSetup ==
    ASSUME ClientInv, NEW c \in Readers, NEW type \in {"Auth", "Sub"}, Asked(c, type)
    PROVE  client[c].pc \in SetupPcs /\ InSetup(c) /\ RequestSent(c, type)
  <1>1. client[c].pc \in SetupPcs \cup PollPcs /\ Conversation(c)
    BY ClientTyped DEF Library
  <1>2. ~ Polling(c)
    BY NothingAsked, AckIsRead, RequestRead DEF Polling
  <1>3. client[c].pc \in SetupPcs /\ InSetup(c)
    BY <1>1, <1>2 DEF Conversation, InLoop
  <1>4. RequestSent(c, type)
    BY <1>3, NothingAsked, RequestRead DEF InSetup, Setup
  <1>5. QED
    BY <1>3, <1>4

LEMMA AskedInLoop ==
    ASSUME ClientInv, NEW c \in Readers, NEW type \in {"Get", "ClientAck"}, Asked(c, type)
    PROVE  /\ client[c].pc \in PollPcs /\ InLoop(c) /\ client[c].batch = <<>>
           /\ type = "Get" => RequestSent(c, "Get") /\ ~ At(c, "get") /\ ~ At(c, "forward")
           /\ type = "ClientAck" => AckSent(c) \/ AckAndGetSent(c)
  <1>1. client[c].pc \in SetupPcs \cup PollPcs /\ Conversation(c)
    BY ClientTyped DEF Library
  <1>2. ~ Setup(c)
    BY NothingAsked, RequestRead DEF Setup
  <1>3. client[c].pc \in PollPcs /\ InLoop(c)
    BY <1>1, <1>2 DEF Conversation, InSetup
  <1>4. /\ type = "Get" => RequestSent(c, "Get")
        /\ type = "ClientAck" => AckSent(c) \/ AckAndGetSent(c)
    BY <1>3, NothingAsked, AckIsRead, RequestRead DEF InLoop, Polling
  <1>5. client[c].batch = <<>> /\ ~ At(c, "forward")
    BY <1>3, NothingAsked DEF InLoop
  <1>6. type = "Get" => ~ At(c, "get")
    BY <1>3, NothingAsked, AckIsRead DEF InLoop
  <1>7. QED
    BY <1>3, <1>4, <1>5, <1>6

LEMMA AnswerEffect ==
    ASSUME ClientInv, NEW c \in Readers, wire[c].up # <<>>, wire[c].down = <<>>,
           NEW packets \in Seq(DownPacket), Answer(c, packets)
    PROVE  \E w \in Socket : /\ wire' = [wire EXCEPT ![c] = w]
                             /\ w.up = Tail(wire[c].up)
                             /\ w.down = packets
  <1>1. wire \in [Readers -> Socket] /\ wire[c] \in Socket
    BY ClientTyped
  <1>2. PICK up : up = Tail(wire[c].up)
    OBVIOUS
  <1>3. up \in Seq(UpPacket)
    <2>1. wire[c].up \in Seq(UpPacket)
      BY <1>1 DEF Socket
    <2>2. QED
      BY <1>2, <2>1, HeadTailProperties
  <1>4. wire[c].down \o packets = packets
    <2>1. <<>> \o packets = packets
      BY ConcatEmptySeq
    <2>2. QED
      BY <2>1
  <1>5. PICK w : w = [wire[c] EXCEPT !.up = up, !.down = packets]
    OBVIOUS
  <1>6. w \in Socket /\ w.up = up /\ w.down = packets
    BY <1>1, <1>3, <1>5 DEF Socket
  <1>7. wire' = [wire EXCEPT ![c] = w]
    BY <1>1, <1>2, <1>4, <1>5 DEF Answer
  <1>8. QED
    BY <1>2, <1>6, <1>7

LEMMA AckPackets ==
    ASSUME NEW ok \in BOOLEAN
    PROVE  <<[type |-> "Ack", ok |-> ok]>> \in Seq(DownPacket)
  <1>1. [type |-> "Ack", ok |-> ok] \in DownPacket
    BY DEF DownPacket
  <1>2. QED
    BY <1>1

LEMMA ServerStepOfOne ==
    ASSUME ClientInv, ServerInv', LogMoves, NEW c \in Readers, UNCHANGED client,
           NEW w \in Socket, wire' = [wire EXCEPT ![c] = w],
           NEW f \in Flow, flow' = [flow EXCEPT ![c] = f],
           \A d \in Readers : d # c => Elsewhere(d),
           Conversation(c)', DeliveryInv(c)'
    PROVE  ClientInv'
  <1>1. /\ client \in [Readers -> Library] /\ client[c] \in Library
        /\ Len(client[c].channel) <= ChannelSize
    BY ClientTyped DEF ClientInv
  <1>2. SideIs(c, client[c], w, f)
    BY <1>1 DEF SideIs
  <1>3. QED
    BY <1>1, <1>2, StepOfOne

(* The answer to a ClientAuth or a Sub.                                    *)
LEMMA SetupReply ==
    ASSUME ClientInv, ServerInv', NEW c \in Readers, NEW type \in {"Auth", "Sub"},
           Asked(c, type), NEW ok \in BOOLEAN, Answer(c, <<[type |-> "Ack", ok |-> ok]>>),
           UNCHANGED <<client, flow>>, UNCHANGED <<buffer, log, call>>,
           \A d \in Readers : d # c => Elsewhere(d),
           SessionIsMine(c)', CursorIsLast(c)'
    PROVE  ClientInv'
  <1>1. client[c].pc \in SetupPcs /\ InSetup(c) /\ RequestSent(c, type)
    BY AskedInSetup
  <1>2. wire[c].up = <<[type |-> type]>> /\ wire[c].down = <<>> /\ call[c].pc = "idle"
    BY <1>1 DEF RequestSent, Line
  <1>3. PICK w \in Socket : /\ wire' = [wire EXCEPT ![c] = w]
                            /\ w.up = Tail(wire[c].up)
                            /\ w.down = <<[type |-> "Ack", ok |-> ok]>>
    BY <1>2, OnePacket, AckPackets, AnswerEffect
  <1>4. /\ wire \in [Readers -> Socket] /\ flow \in [Readers -> Flow] /\ flow[c] \in Flow
        /\ ServerInv
    BY ClientTyped
  <1>5. wire'[c] = w /\ flow' = [flow EXCEPT ![c] = flow[c]] /\ w.up = <<>>
    BY <1>2, <1>3, <1>4, OnePacket
  <1>6. Conversation(c)'
    <2>1. AckComes(c)'
      BY <1>2, <1>3, <1>5 DEF AckComes, Line
    <2>2. ~ At(c, "connected")
      BY <1>1, NothingAsked DEF InSetup
    <2>3. InSetup(c)'
      BY <1>1, <2>1, <2>2 DEF InSetup, Setup, At
    <2>4. QED
      BY <1>1, <2>3, SetupAndPoll DEF Conversation
  <1>7. ~ Incoming(c, "Messages")'
    <2>1. Head(wire'[c].down) = [type |-> "Ack", ok |-> ok]
      BY <1>3, <1>5, OnePacket
    <2>2. QED
      BY <2>1 DEF Incoming
  <1>8. OnTheWay(c)' /\ AckedIsPast(c)' /\ ServedUpToEnds(c)' /\ AckMeansLoss(c)'
    BY <1>1, <1>7, NothingYet, SetupAndPoll DEF InSetup, AckMeansLoss
  <1>9. LogMoves
    BY <1>4, LogStays
  <1>10. DeliveryInv(c)'
    BY <1>8 DEF DeliveryInv
  <1>11. QED
    BY <1>3, <1>4, <1>5, <1>6, <1>9, <1>10, ServerStepOfOne

LEMMA OthersElsewhere ==
    ASSUME IdsDisjoint, NEW c \in Readers,
           \A d \in Readers : d # c => /\ conn'[d] = conn[d]
                                       /\ hist'.trace[d] = hist.trace[d]
                                       /\ call'[d].pc = call[d].pc,
           \A cid \in ClientIds : cid \notin IdsOf[c] => sessions'[cid] = sessions[cid]
    PROVE  \A d \in Readers : d # c => Elsewhere(d)
  <1>1. \A d \in Readers : d # c => IdOf[d] \in ClientIds /\ IdOf[d] \notin IdsOf[c]
    BY ClientAssumption DEF IdsDisjoint
  <1>2. QED
    BY <1>1 DEF Elsewhere

(* What a new session of the client is like.                               *)
LEMMA RegisterMine ==
    ASSUME ServerInv, NEW cid \in ClientIds, NEW filter \in Filters,
           Register(cid, filter, {})
    PROVE  /\ sessions'[cid].pattern = filter /\ sessions'[cid].black_list = {}
           /\ \A other \in ClientIds : other # cid => sessions'[other] = sessions[other]
  <1>1. sessions \in [ClientIds -> Session \cup {None}]
    BY DEF ServerInv, ServerTypeOK
  <1>2. sessions' = [sessions EXCEPT ![cid] = NewSession(filter, {})]
    BY DEF Register
  <1>3. sessions'[cid] = NewSession(filter, {})
    BY <1>1, <1>2
  <1>4. QED
    BY <1>1, <1>2, <1>3 DEF NewSession

LEMMA AuthOfClient ==
    ASSUME IdsDisjoint, ClientInv, NEW c \in Readers, Asked(c, "Auth"),
           Auth(c, IdOf[c], FilterOf[c], 0), Answer(c, AckOk), UNCHANGED <<client, flow>>
    PROVE  ClientInv'
  <1>1. /\ Ready(c) /\ ~ conn[c].authenticated
        /\ Register(IdOf[c], FilterOf[c], {})
        /\ FilterSet(c, IdOf[c], FilterOf[c], 0)
        /\ UNCHANGED <<storeVars, phase, buffer, log, call>>
        /\ conn' = [conn EXCEPT ![c].authenticated = TRUE, ![c].client_id = IdOf[c],
                                ![c].current_pos = IF 0 > 0 THEN AtTimestamp(0) ELSE @]
    BY DEF Auth, storeVars
  <1>2. /\ ServerInv /\ DeliveryInv(c) /\ ConnInv(c)
        /\ conn \in [Readers -> ClientState] /\ conn[c] \in ClientState
    BY ClientTyped DEF ServerInv, ServerTypeOK
  <1>3. /\ IdOf[c] \in IdsOf[c] /\ IdOf[c] \in ClientIds /\ FilterOf[c] \in Filters
    BY Ids
  <1>4. ServerInv'
    BY <1>2, <1>3, AuthKeeps
  <1>5. FilterIsSet(c, IdOf[c], FilterOf[c], 0)
    <2>1. \A d \in Readers : d # c /\ conn[d].authenticated => conn[d].client_id # IdOf[c]
      BY <1>2, <1>3, OthersHaveOtherIds
    <2>2. QED
      BY <1>1, <1>2, <1>3, <2>1, FilterEffect
  <1>6. /\ sessions'[IdOf[c]].pattern = FilterOf[c] /\ sessions'[IdOf[c]].black_list = {}
        /\ \A other \in ClientIds : other # IdOf[c] => sessions'[other] = sessions[other]
    BY <1>1, <1>2, <1>3, RegisterMine
  <1>7. \A d \in Readers : d # c => Elsewhere(d)
    <2>1. \A d \in Readers : d # c => /\ conn'[d] = conn[d]
                                      /\ hist'.trace[d] = hist.trace[d]
                                      /\ call'[d].pc = call[d].pc
      BY <1>1, <1>2, <1>5 DEF FilterIsSet
    <2>2. \A cid \in ClientIds : cid \notin IdsOf[c] => sessions'[cid] = sessions[cid]
      BY <1>3, <1>6
    <2>3. QED
      BY <2>1, <2>2, OthersElsewhere
  <1>8. /\ conn'[c].client_id = IdOf[c] /\ conn'[c].open = conn[c].open
        /\ conn'[c].current_pos = conn[c].current_pos
        /\ conn'[c].last_ack_pos = conn[c].last_ack_pos
        /\ conn'[c].last_get_end_pos = conn[c].last_get_end_pos
    <2>1. ~ (0 > 0)
      OBVIOUS
    <2>2. conn' = [conn EXCEPT ![c].authenticated = TRUE, ![c].client_id = IdOf[c],
                               ![c].current_pos = conn[c].current_pos]
      BY <1>1, <1>2, <2>1
    <2>3. PICK p : p = conn[c].current_pos
      OBVIOUS
    <2>4. conn' = [conn EXCEPT ![c] = [conn[c] EXCEPT !.authenticated = TRUE,
                                                      !.client_id = IdOf[c],
                                                      !.current_pos = p]]
      BY <1>2, <2>2, <2>3
    <2>5. conn'[c] = [conn[c] EXCEPT !.authenticated = TRUE, !.client_id = IdOf[c],
                                     !.current_pos = p]
      BY <1>2, <2>4
    <2>6. QED
      BY <1>2, <2>3, <2>5 DEF ClientState
  <1>9. SessionIsMine(c)'
    <2>1. EndPositions(c)' = EndPositions(c)
      BY <1>5 DEF EndPositions, FilterIsSet
    <2>2. ~ hist'.trace[c].timed /\ ~ hist'.trace[c].rolled
          /\ hist'.trace[c].served = hist.trace[c].served
      BY <1>2, <1>5 DEF FilterIsSet, DeliveryInv, SessionIsMine
    <2>3. QED
      BY <1>2, <1>6, <1>8, <2>1, <2>2 DEF DeliveryInv, SessionIsMine
  <1>10. CursorIsLast(c)'
    BY <1>2, <1>8 DEF DeliveryInv, CursorIsLast
  <1>11. QED
    BY <1>1, <1>4, <1>7, <1>9, <1>10, SetupReply DEF AckOk

LEMMA RefusedClient ==
    ASSUME IdsDisjoint, ClientInv, NEW c \in Readers, Asked(c, "Auth"),
           AuthFailed(c), Answer(c, AckErr), UNCHANGED <<client, flow>>
    PROVE  ClientInv'
  <1>1. /\ Ready(c) /\ ~ conn[c].authenticated
        /\ UNCHANGED <<storeVars, sessions, phase, buffer, log, call>>
    BY DEF AuthFailed, storeVars
  <1>2. /\ ServerInv /\ DeliveryInv(c) /\ ConnInv(c)
        /\ conn \in [Readers -> ClientState] /\ conn[c] \in ClientState
        /\ hist.trace \in [Readers -> Trace] /\ hist \in History
    BY ClientTyped, Typed DEF ServerInv, ServerTypeOK
  <1>3. ServerInv'
    BY <1>2, AuthFailedKeeps
  <1>4. /\ \A d \in Readers : d # c => conn'[d] = conn[d] /\ hist'.trace[d] = hist.trace[d]
        /\ SessionIsMine(c)' /\ CursorIsLast(c)'
    <2>1. CASE Forget(c)
      <3>1. conn' = [conn EXCEPT ![c] = NewClient]
            /\ hist'.trace = [hist.trace EXCEPT ![c] = NewTrace]
        BY <1>2, <2>1 DEF Forget, History
      <3>2. conn'[c] = NewClient /\ hist'.trace[c] = NewTrace
        BY <1>2, <3>1
      <3>3. SessionIsMine(c)' /\ CursorIsLast(c)'
        BY <3>2 DEF SessionIsMine, CursorIsLast, NewClient, NewTrace
      <3>4. QED
        BY <1>2, <3>1, <3>3
    <2>2. CASE ~ Forget(c)
      <3>1. conn' = [conn EXCEPT ![c].auth_error_count = @ + 1] /\ UNCHANGED hist
        BY <2>2 DEF AuthFailed
      <3>2. PICK n : n = conn[c].auth_error_count + 1
        OBVIOUS
      <3>3. conn' = [conn EXCEPT ![c] = [conn[c] EXCEPT !.auth_error_count = n]]
        BY <1>2, <3>1, <3>2
      <3>4. conn'[c] = [conn[c] EXCEPT !.auth_error_count = n]
        BY <1>2, <3>3
      <3>5. /\ conn'[c].open = conn[c].open /\ ~ conn'[c].authenticated
            /\ conn'[c].current_pos = conn[c].current_pos
            /\ conn'[c].last_ack_pos = conn[c].last_ack_pos
            /\ conn'[c].last_get_end_pos = conn[c].last_get_end_pos
        BY <1>1, <1>2, <3>4 DEF ClientState
      <3>6. EndPositions(c)' = EndPositions(c)
        BY <3>1 DEF EndPositions
      <3>7. SessionIsMine(c)' /\ CursorIsLast(c)'
        BY <1>2, <3>1, <3>5, <3>6 DEF DeliveryInv, SessionIsMine, CursorIsLast
      <3>8. QED
        BY <1>2, <3>1, <3>3, <3>7
    <2>3. QED
      BY <2>1, <2>2
  <1>5. \A d \in Readers : d # c => Elsewhere(d)
    BY <1>1, <1>4, OthersElsewhere
  <1>6. QED
    BY <1>1, <1>3, <1>4, <1>5, SetupReply DEF AckErr

LEMMA HandleAuthKeeps ==
    ASSUME IdsDisjoint, ClientInv, NEW c \in Readers, HandleAuth(c)
    PROVE  ClientInv'
  BY AuthOfClient, RefusedClient DEF HandleAuth

LEMMA HandledFields ==
    ASSUME NEW c, conn[c] \in ClientState
    PROVE  /\ Handled(c).open = conn[c].open
           /\ Handled(c).authenticated = conn[c].authenticated
           /\ Handled(c).client_id = conn[c].client_id
           /\ Handled(c).current_pos = conn[c].current_pos
           /\ Handled(c).last_ack_pos = conn[c].last_ack_pos
           /\ Handled(c).last_get_end_pos = conn[c].last_get_end_pos
  BY DEF Handled, ClientState

LEMMA HandleSubKeeps ==
    ASSUME IdsDisjoint, ClientInv, NEW c \in Readers, HandleSub(c)
    PROVE  ClientInv'
  <1>1. /\ Asked(c, "Sub") /\ Sub(c, IdOf[c], FilterOf[c]) /\ Answer(c, AckOk)
        /\ UNCHANGED <<client, flow>>
        /\ Authenticated(c) /\ conn[c].authenticated
        /\ FilterSet(c, IdOf[c], FilterOf[c], 0)
        /\ UNCHANGED <<storeVars, phase, buffer, log, call>>
        /\ conn' = [conn EXCEPT ![c] = [Handled(c) EXCEPT !.client_id = IdOf[c]]]
    BY DEF HandleSub, Sub, Authenticated, storeVars
  <1>2. /\ ServerInv /\ DeliveryInv(c) /\ ConnInv(c)
        /\ conn \in [Readers -> ClientState] /\ conn[c] \in ClientState
    BY ClientTyped DEF ServerInv, ServerTypeOK
  <1>3. /\ IdOf[c] \in IdsOf[c] /\ IdOf[c] \in ClientIds /\ FilterOf[c] \in Filters
    BY Ids
  <1>4. ServerInv'
    BY <1>1, <1>2, <1>3, SubKeeps
  <1>5. FilterIsSet(c, IdOf[c], FilterOf[c], 0)
    <2>1. \A d \in Readers : d # c /\ conn[d].authenticated => conn[d].client_id # IdOf[c]
      BY <1>2, <1>3, OthersHaveOtherIds
    <2>2. QED
      BY <1>1, <1>2, <1>3, <2>1, FilterEffect
  <1>6. Register(IdOf[c], FilterOf[c], {})
    <2>1. sessions[IdOf[c]] # None /\ sessions[IdOf[c]].black_list = {}
      BY <1>1, <1>2 DEF ConnInv, HasSession, DeliveryInv, SessionIsMine
    <2>2. QED
      BY <1>1, <2>1 DEF Sub
  <1>7. /\ sessions'[IdOf[c]].pattern = FilterOf[c] /\ sessions'[IdOf[c]].black_list = {}
        /\ \A other \in ClientIds : other # IdOf[c] => sessions'[other] = sessions[other]
    BY <1>2, <1>3, <1>6, RegisterMine
  <1>8. \A d \in Readers : d # c => Elsewhere(d)
    <2>1. \A d \in Readers : d # c => /\ conn'[d] = conn[d]
                                      /\ hist'.trace[d] = hist.trace[d]
                                      /\ call'[d].pc = call[d].pc
      BY <1>1, <1>2, <1>5 DEF FilterIsSet
    <2>2. \A cid \in ClientIds : cid \notin IdsOf[c] => sessions'[cid] = sessions[cid]
      BY <1>3, <1>7
    <2>3. QED
      BY <2>1, <2>2, OthersElsewhere
  <1>9. /\ conn'[c].client_id = IdOf[c] /\ conn'[c].open = conn[c].open
        /\ conn'[c].current_pos = conn[c].current_pos
        /\ conn'[c].last_ack_pos = conn[c].last_ack_pos
        /\ conn'[c].last_get_end_pos = conn[c].last_get_end_pos
    <2>1. PICK h : h = Handled(c)
      OBVIOUS
    <2>2. h \in ClientState
      BY <1>2, <2>1, HandledType
    <2>3. conn'[c] = [h EXCEPT !.client_id = IdOf[c]]
      BY <1>1, <1>2, <2>1
    <2>4. QED
      BY <1>2, <2>1, <2>2, <2>3, HandledFields DEF ClientState
  <1>10. SessionIsMine(c)'
    <2>1. EndPositions(c)' = EndPositions(c)
      BY <1>5 DEF EndPositions, FilterIsSet
    <2>2. ~ hist'.trace[c].timed /\ ~ hist'.trace[c].rolled
          /\ hist'.trace[c].served = hist.trace[c].served
      BY <1>2, <1>5 DEF FilterIsSet, DeliveryInv, SessionIsMine
    <2>3. QED
      BY <1>1, <1>2, <1>7, <1>9, <2>1, <2>2 DEF DeliveryInv, SessionIsMine
  <1>11. CursorIsLast(c)'
    BY <1>2, <1>9 DEF DeliveryInv, CursorIsLast
  <1>12. QED
    BY <1>1, <1>4, <1>8, <1>10, <1>11, SetupReply DEF AckOk

-----------------------------------------------------------------------------
(* The server's side of the poll loop.                                     *)

(* A step of the server that serves nothing.                               *)
LEMMA NothingServed ==
    ASSUME ClientInv, ServerInv', NEW c \in Readers, UNCHANGED <<client, flow>>,
           UNCHANGED <<buffer, log>>,
           NEW w \in Socket, wire' = [wire EXCEPT ![c] = w],
           \A d \in Readers : d # c => Elsewhere(d),
           SessionIsMine(c)', CursorIsLast(c)', Conversation(c)',
           Coming(c)' = Coming(c), AckedIsPast(c)', AckMeansLoss(c)'
    PROVE  ClientInv'
  <1>1. /\ flow \in [Readers -> Flow] /\ flow[c] \in Flow /\ ServerInv /\ DeliveryInv(c)
        /\ flow[c].ends \subseteq Position
    BY ClientTyped DEF Flow
  <1>2. LogMoves
    BY <1>1, LogStays
  <1>3. UNCHANGED client /\ flow' = [flow EXCEPT ![c] = flow[c]]
    BY <1>1
  <1>4. OnTheWay(c)'
    BY <1>1, <1>2, WayStays DEF DeliveryInv, LogMoves
  <1>5. ServedUpToEnds(c)'
    BY <1>1, <1>2, BatchesStay DEF DeliveryInv
  <1>6. DeliveryInv(c)'
    BY <1>4, <1>5 DEF DeliveryInv
  <1>7. QED
    BY <1>1, <1>2, <1>3, <1>6, ServerStepOfOne

(* The parts about the connection, when its handler leaves them alone.     *)
LEMMA SessionAsBefore ==
    ASSUME ClientInv, NEW c \in Readers, UNCHANGED <<client, flow>>,
           UNCHANGED <<buffer, log>>,
           conn'[c].authenticated = conn[c].authenticated,
           conn'[c].client_id = conn[c].client_id, conn'[c].open = conn[c].open,
           conn'[c].current_pos = conn[c].current_pos,
           conn'[c].last_get_end_pos = conn[c].last_get_end_pos,
           conn[c].authenticated =>
              /\ sessions'[IdOf[c]].pattern = sessions[IdOf[c]].pattern
              /\ sessions'[IdOf[c]].black_list = sessions[IdOf[c]].black_list,
           hist'.trace[c].timed = hist.trace[c].timed,
           hist'.trace[c].rolled = hist.trace[c].rolled,
           hist'.trace[c].served = hist.trace[c].served,
           hist'.trace[c].ends = hist.trace[c].ends
    PROVE  /\ SessionIsMine(c)'
           /\ conn'[c].last_ack_pos = conn[c].last_ack_pos => CursorIsLast(c)'
           /\ /\ conn'[c].last_ack_pos = conn[c].last_ack_pos
              /\ ToCome(c)' \subseteq ToCome(c)
              => AckedIsPast(c)'
  <1>1. DeliveryInv(c) /\ ServerInv
    BY ClientTyped
  <1>2. EndPositions(c)' = EndPositions(c)
    BY DEF EndPositions
  <1>3. SessionIsMine(c)'
    BY <1>1, <1>2 DEF DeliveryInv, SessionIsMine
  <1>4. conn'[c].last_ack_pos = conn[c].last_ack_pos => CursorIsLast(c)'
    BY <1>1 DEF DeliveryInv, CursorIsLast
  <1>5. LogExtends
    BY <1>1, LogStays DEF LogMoves
  <1>6. QED
    BY <1>1, <1>3, <1>4, <1>5, PastStays DEF DeliveryInv

LEMMA GetOfClient ==
    ASSUME IdsDisjoint, ClientInv, NEW c \in Readers, Asked(c, "Get"), Get(c, FetchSize),
           Answer(c, <<>>), UNCHANGED <<client, flow>>
    PROVE  ClientInv'
  <1>1. /\ Authenticated(c)
        /\ UNCHANGED <<sessions, buffer, log>>
        /\ call' = [call EXCEPT ![c] = [pc |-> "check", cursor |-> StartCursor(c),
                                        size |-> BatchSize(FetchSize), woken |-> FALSE]]
        /\ conn' = [conn EXCEPT ![c] = Handled(c)]
        /\ hist' = [hist EXCEPT !.trace[c].own = HasOwnCursor(c)]
    BY DEF Get, GetBatch
  <1>2. /\ ServerInv /\ DeliveryInv(c) /\ call \in [Readers -> CallState]
        /\ conn \in [Readers -> ClientState] /\ conn[c] \in ClientState
        /\ hist.trace \in [Readers -> Trace] /\ hist.trace[c] \in Trace /\ hist \in History
        /\ wire \in [Readers -> Socket]
    BY ClientTyped, Typed DEF ServerInv, ServerTypeOK
  <1>3. ServerInv'
    BY <1>2, GetKeeps, ClientAssumption
  <1>4. call'[c].pc = "check" /\ \A d \in Readers : d # c => call'[d] = call[d]
    BY <1>1, <1>2
  <1>5. /\ conn'[c] = Handled(c)
        /\ \A d \in Readers : d # c => conn'[d] = conn[d]
    BY <1>1, <1>2
  <1>6. PICK own : own = HasOwnCursor(c)
    OBVIOUS
  <1>7. hist'.trace = [hist.trace EXCEPT ![c] = [hist.trace[c] EXCEPT !.own = own]]
    BY <1>1, <1>2, <1>6 DEF History
  <1>8. /\ hist'.trace[c].timed = hist.trace[c].timed
        /\ hist'.trace[c].rolled = hist.trace[c].rolled
        /\ hist'.trace[c].served = hist.trace[c].served
        /\ hist'.trace[c].ends = hist.trace[c].ends
        /\ \A d \in Readers : d # c => hist'.trace[d] = hist.trace[d]
    BY <1>2, <1>7 DEF Trace
  <1>9. /\ client[c].pc \in PollPcs /\ InLoop(c) /\ client[c].batch = <<>>
        /\ RequestSent(c, "Get") /\ ~ At(c, "get") /\ ~ At(c, "forward")
    BY <1>1, AskedInLoop
  <1>10. <<>> \in Seq(DownPacket)
    OBVIOUS
  <1>11. PICK w \in Socket : /\ wire' = [wire EXCEPT ![c] = w]
                             /\ w.up = Tail(wire[c].up)
                             /\ w.down = <<>>
    BY <1>9, <1>10, OnePacket, AnswerEffect DEF RequestSent, Line
  <1>12. wire'[c] = w /\ w.up = <<>> /\ wire'[c].down = wire[c].down
    BY <1>2, <1>9, <1>11, OnePacket DEF RequestSent, Line
  <1>13. Conversation(c)'
    <2>1. InGet(c)'
      BY <1>4, <1>11, <1>12 DEF InGet, Line
    <2>2. InLoop(c)'
      BY <1>9, <2>1 DEF InLoop, Polling, At
    <2>3. QED
      BY <1>9, <2>2, SetupAndPoll DEF Conversation
  <1>14. /\ Coming(c)' = Coming(c) /\ ToCome(c)' = ToCome(c)
         /\ Incoming(c, "Ack")' <=> Incoming(c, "Ack")
    BY <1>12, SameDown
  <1>15. AckMeansLoss(c)'
    BY <1>1, <1>2, <1>14, LogStays, LossStays DEF DeliveryInv
  <1>16. SessionIsMine(c)' /\ CursorIsLast(c)' /\ AckedIsPast(c)'
    BY <1>1, <1>2, <1>5, <1>8, <1>14, HandledFields, SessionAsBefore
  <1>17. \A d \in Readers : d # c => Elsewhere(d)
    BY <1>1, <1>4, <1>5, <1>8, OthersElsewhere
  <1>18. QED
    BY <1>1, <1>3, <1>11, <1>13, <1>14, <1>15, <1>16, <1>17, NothingServed

(* The reason of the refusal: the last row that is gone was never served.  *)
LEMMA LostBelowWatermark ==
    ASSUME ClientInv, NEW c \in Readers, conn[c].authenticated, BelowWatermark(c)
    PROVE  \E i \in 1 .. Dropped : i \notin flow[c].served
  <1>1. /\ ServerInv /\ DeliveryInv(c) /\ ConnInv(c) /\ conn[c] \in ClientState
        /\ Dropped \in Nat /\ Dropped <= Len(log) /\ Len(log) \in Nat
    BY ClientTyped
  <1>2. Dropped # 0 /\ evicted_watermark = log[Dropped].pos
    BY <1>1 DEF BelowWatermark, ServerInv, StoreInv, WatermarkIsLastDropped
  <1>3. Dropped \in 1 .. Dropped /\ Dropped \in 1 .. Len(log)
    BY <1>1, <1>2
  <1>4. log[Dropped].pos \in Position
    BY <1>1, <1>3, LogOrder DEF ServerInv
  <1>5. SUFFICES ASSUME Dropped \in flow[c].served
                 PROVE  FALSE
    BY <1>3
  <1>6. Dropped \in hist.trace[c].served /\ ~ hist.trace[c].rolled
    BY <1>1, <1>5 DEF ConnInv, Identified, DeliveryInv, SessionIsMine
  <1>7. /\ conn[c].current_pos # None /\ conn[c].current_pos.timestamp = 0
        /\ PosLeq(log[Dropped].pos, conn[c].current_pos.pos)
    BY <1>1, <1>6 DEF ConnInv, CursorIsAhead
  <1>8. StartCursor(c) = conn[c].current_pos
    BY <1>1, <1>7, StartCursorIs
  <1>9. conn[c].current_pos \in Cursor /\ conn[c].current_pos.pos \in Position
    BY <1>1, <1>7, PositionCursor DEF ClientState
  <1>10. PosLess(conn[c].current_pos.pos, log[Dropped].pos)
    BY <1>2, <1>8 DEF BelowWatermark
  <1>11. QED
    BY <1>4, <1>7, <1>9, <1>10, LeqOrder

LEMMA GetLostOfClient ==
    ASSUME IdsDisjoint, ClientInv, NEW c \in Readers, Asked(c, "Get"), GetLost(c),
           Answer(c, AckErr), UNCHANGED <<client, flow>>
    PROVE  ClientInv'
  <1>1. /\ Authenticated(c) /\ Refused(c) /\ BelowWatermark(c) /\ conn[c].authenticated
        /\ UNCHANGED <<sessions, hist, buffer, log, call>>
        /\ conn' = [conn EXCEPT ![c] = Handled(c)]
    BY DEF GetLost, Refused, Authenticated, storeVars
  <1>2. /\ ServerInv /\ DeliveryInv(c)
        /\ conn \in [Readers -> ClientState] /\ conn[c] \in ClientState
        /\ wire \in [Readers -> Socket]
    BY ClientTyped DEF ServerInv, ServerTypeOK
  <1>3. ServerInv'
    BY <1>1, <1>2, RefusedKeeps
  <1>4. /\ conn'[c] = Handled(c)
        /\ \A d \in Readers : d # c => conn'[d] = conn[d]
    BY <1>1, <1>2
  <1>5. /\ client[c].pc \in PollPcs /\ InLoop(c) /\ client[c].batch = <<>>
        /\ RequestSent(c, "Get") /\ ~ At(c, "get") /\ ~ At(c, "forward")
    BY <1>1, AskedInLoop
  <1>6. PICK w \in Socket : /\ wire' = [wire EXCEPT ![c] = w]
                            /\ w.up = Tail(wire[c].up)
                            /\ w.down = <<[type |-> "Ack", ok |-> FALSE]>>
    <2>1. <<[type |-> "Ack", ok |-> FALSE]>> \in Seq(DownPacket)
      BY AckPackets
    <2>2. QED
      BY <1>5, <2>1, OnePacket, AnswerEffect DEF RequestSent, Line, AckErr
  <1>7. /\ wire'[c] = w /\ w.up = <<>> /\ wire[c].down = <<>>
        /\ wire'[c].down = <<[type |-> "Ack", ok |-> FALSE]>>
    BY <1>2, <1>5, <1>6, OnePacket DEF RequestSent, Line
  <1>8. Conversation(c)'
    <2>1. call'[c].pc = "idle"
      BY <1>1, <1>5 DEF RequestSent
    <2>2. AckComes(c)'
      BY <1>7, <2>1 DEF AckComes, Line
    <2>3. InLoop(c)'
      BY <1>5, <2>2 DEF InLoop, Polling, At
    <2>4. QED
      BY <1>5, <2>3, SetupAndPoll DEF Conversation
  <1>9. Coming(c)' = Coming(c) /\ ToCome(c)' = ToCome(c)
    <2>1. ~ Incoming(c, "Messages")
      BY <1>7, NoPacket DEF Incoming
    <2>2. ~ Incoming(c, "Messages")'
      <3>1. Head(wire'[c].down) = [type |-> "Ack", ok |-> FALSE]
        BY <1>7, OnePacket
      <3>2. QED
        BY <3>1 DEF Incoming
    <2>3. QED
      BY <2>1, <2>2 DEF Coming, RowsInWire, ToCome
  <1>10. AckMeansLoss(c)'
    <2>1. \E i \in 1 .. Dropped : i \notin flow[c].served
      BY <1>1, LostBelowWatermark
    <2>2. Dropped' = Dropped
      BY <1>1 DEF Dropped
    <2>3. QED
      BY <2>1, <2>2 DEF AckMeansLoss
  <1>11. SessionIsMine(c)' /\ CursorIsLast(c)' /\ AckedIsPast(c)'
    BY <1>1, <1>2, <1>4, <1>9, HandledFields, SessionAsBefore
  <1>12. \A d \in Readers : d # c => Elsewhere(d)
    BY <1>1, <1>4, OthersElsewhere
  <1>13. QED
    BY <1>1, <1>3, <1>6, <1>8, <1>9, <1>10, <1>11, <1>12, NothingServed

LEMMA HandleGetKeeps ==
    ASSUME IdsDisjoint, ClientInv, NEW c \in Readers, HandleGet(c)
    PROVE  ClientInv'
  BY GetOfClient, GetLostOfClient DEF HandleGet

(* What is in the wire when a ClientAck is read.                           *)
LEMMA AckRequest ==
    ASSUME NEW c, AckSent(c) \/ AckAndGetSent(c)
    PROVE  /\ Head(wire[c].up).batch_id \in Nat
           /\ wire[c].up # <<>> /\ wire[c].down = <<>> /\ call[c].pc = "idle"
           /\ AckSent(c) => Tail(wire[c].up) = <<>>
           /\ AckAndGetSent(c) => Tail(wire[c].up) = <<[type |-> "Get"]>>
  <1>1. ASSUME AckSent(c)
        PROVE  /\ Head(wire[c].up).batch_id \in Nat
               /\ wire[c].up # <<>> /\ wire[c].down = <<>> /\ call[c].pc = "idle"
               /\ Tail(wire[c].up) = <<>>
    <2>1. PICK id \in Nat : Line(c, <<[type |-> "ClientAck", batch_id |-> id]>>, <<>>)
      BY <1>1 DEF AckSent
    <2>2. /\ Head(wire[c].up) = [type |-> "ClientAck", batch_id |-> id]
          /\ Tail(wire[c].up) = <<>> /\ wire[c].up # <<>> /\ wire[c].down = <<>>
      BY <2>1, OnePacket DEF Line
    <2>3. QED
      BY <1>1, <2>2 DEF AckSent
  <1>2. ASSUME AckAndGetSent(c)
        PROVE  /\ Head(wire[c].up).batch_id \in Nat
               /\ wire[c].up # <<>> /\ wire[c].down = <<>> /\ call[c].pc = "idle"
               /\ Tail(wire[c].up) = <<[type |-> "Get"]>>
    <2>1. PICK id \in Nat : Line(c, <<[type |-> "ClientAck", batch_id |-> id],
                                      [type |-> "Get"]>>, <<>>)
      BY <1>2 DEF AckAndGetSent
    <2>2. /\ Head(wire[c].up) = [type |-> "ClientAck", batch_id |-> id]
          /\ Tail(wire[c].up) = <<[type |-> "Get"]>>
          /\ wire[c].up # <<>> /\ wire[c].down = <<>>
      BY <2>1, TwoPackets DEF Line
    <2>3. QED
      BY <1>2, <2>2 DEF AckAndGetSent
  <1>3. QED
    BY <1>1, <1>2

(* An ack changes the ack position of a session, and nothing else of it.   *)
LEMMA AckSession ==
    ASSUME ServerInv, NEW cid \in ClientIds, NEW end,
           \/ sessions' = sessions
           \/ /\ sessions[cid] # None
              /\ sessions' = [sessions EXCEPT ![cid].last_ack_position = end]
    PROVE  /\ sessions'[cid].pattern = sessions[cid].pattern
           /\ sessions'[cid].black_list = sessions[cid].black_list
           /\ \A other \in ClientIds : other # cid => sessions'[other] = sessions[other]
  <1>1. CASE sessions' = sessions
    BY <1>1
  <1>2. CASE sessions[cid] # None
             /\ sessions' = [sessions EXCEPT ![cid].last_ack_position = end]
    <2>1. sessions \in [ClientIds -> Session \cup {None}] /\ sessions[cid] \in Session
      BY <1>2 DEF ServerInv, ServerTypeOK
    <2>2. PICK s : s = [sessions[cid] EXCEPT !.last_ack_position = end]
      OBVIOUS
    <2>3. sessions' = [sessions EXCEPT ![cid] = s]
      BY <1>2, <2>1, <2>2
    <2>4. s.pattern = sessions[cid].pattern /\ s.black_list = sessions[cid].black_list
      BY <2>1, <2>2 DEF Session
    <2>5. QED
      BY <2>1, <2>3, <2>4
  <1>3. QED
    BY <1>1, <1>2

LEMMA HandleClientAckKeeps ==
    ASSUME IdsDisjoint, ClientInv, NEW c \in Readers, HandleClientAck(c)
    PROVE  ClientInv'
  <1>1. PICK id : id = Head(wire[c].up).batch_id
    OBVIOUS
  <1>2. /\ Asked(c, "ClientAck") /\ ClientAck(c, id) /\ Answer(c, <<>>)
        /\ UNCHANGED <<client, flow>>
    BY <1>1 DEF HandleClientAck
  <1>3. /\ client[c].pc \in PollPcs /\ InLoop(c) /\ client[c].batch = <<>>
        /\ AckSent(c) \/ AckAndGetSent(c)
    BY <1>2, AskedInLoop
  <1>4. /\ id \in Nat /\ wire[c].up # <<>> /\ wire[c].down = <<>> /\ call[c].pc = "idle"
        /\ AckSent(c) => Tail(wire[c].up) = <<>>
        /\ AckAndGetSent(c) => Tail(wire[c].up) = <<[type |-> "Get"]>>
    BY <1>1, <1>3, AckRequest
  <1>5. /\ ServerInv /\ DeliveryInv(c) /\ ConnInv(c)
        /\ conn \in [Readers -> ClientState] /\ conn[c] \in ClientState
        /\ hist.trace \in [Readers -> Trace] /\ hist.trace[c] \in Trace /\ hist \in History
        /\ wire \in [Readers -> Socket]
    BY ClientTyped, Typed DEF ServerInv, ServerTypeOK
  <1>6. ServerInv'
    BY <1>2, <1>4, <1>5, AckKeeps
  <1>7. PICK end, ack, cid : /\ end = conn[c].last_get_end_pos
                             /\ ack = IF AckMatches(c, id) THEN end ELSE conn[c].last_ack_pos
                             /\ cid = conn[c].client_id
    OBVIOUS
  <1>8. conn[c].authenticated /\ cid = IdOf[c] /\ cid \in ClientIds /\ cid \in IdsOf[c]
    BY <1>2, <1>5, <1>7, ClientAssumption
       DEF ClientAck, Authenticated, DeliveryInv, SessionIsMine
  <1>9. UNCHANGED <<buffer, log, call>>
    BY <1>2 DEF ClientAck, storeVars
  <1>10. /\ sessions'[cid].pattern = sessions[cid].pattern
         /\ sessions'[cid].black_list = sessions[cid].black_list
         /\ \A other \in ClientIds : other # cid => sessions'[other] = sessions[other]
    <2>1. \/ sessions' = sessions
          \/ /\ sessions[cid] # None
             /\ sessions' = [sessions EXCEPT ![cid].last_ack_position = end]
      BY <1>2, <1>7 DEF ClientAck
    <2>2. QED
      BY <1>5, <1>8, <2>1, AckSession
  <1>11. /\ \A d \in Readers : d # c => conn'[d] = conn[d]
         /\ conn'[c].authenticated = conn[c].authenticated
         /\ conn'[c].client_id = conn[c].client_id /\ conn'[c].open = conn[c].open
         /\ conn'[c].current_pos = conn[c].current_pos
         /\ conn'[c].last_get_end_pos = conn[c].last_get_end_pos
         /\ conn'[c].last_ack_pos = ack
    <2>1. PICK h : h = Handled(c)
      OBVIOUS
    <2>2. h \in ClientState
      BY <1>5, <2>1, HandledType
    <2>3. /\ h.authenticated = conn[c].authenticated /\ h.client_id = conn[c].client_id
          /\ h.open = conn[c].open /\ h.current_pos = conn[c].current_pos
          /\ h.last_get_end_pos = conn[c].last_get_end_pos
          /\ h.last_ack_pos = conn[c].last_ack_pos
      BY <1>5, <2>1, HandledFields
    <2>4. conn' = [conn EXCEPT ![c] = [h EXCEPT !.last_ack_pos = ack]]
      BY <1>2, <1>7, <2>1, <2>2, <2>3 DEF ClientAck
    <2>5. conn'[c] = [h EXCEPT !.last_ack_pos = ack]
      BY <1>5, <2>4
    <2>6. \A d \in Readers : d # c => conn'[d] = conn[d]
      BY <1>5, <2>4
    <2>7. QED
      BY <2>2, <2>3, <2>5, <2>6 DEF ClientState
  <1>12. /\ hist'.trace[c].timed = hist.trace[c].timed
         /\ hist'.trace[c].rolled = hist.trace[c].rolled
         /\ hist'.trace[c].served = hist.trace[c].served
         /\ hist'.trace[c].ends = hist.trace[c].ends
         /\ \A d \in Readers : d # c => hist'.trace[d] = hist.trace[d]
    <2>1. PICK named : named = {p[2] : p \in {q \in hist.trace[c].ends : q[1] = id}}
      OBVIOUS
    <2>2. PICK confirmed : confirmed = hist.trace[c].confirmed \cup named
      OBVIOUS
    <2>3. hist'.trace = [hist.trace EXCEPT ![c] =
                           [hist.trace[c] EXCEPT !.confirmed = confirmed]]
      BY <1>2, <1>5, <2>1, <2>2 DEF ClientAck, History
    <2>4. QED
      BY <1>5, <2>3 DEF Trace
  <1>13. PICK w \in Socket : /\ wire' = [wire EXCEPT ![c] = w]
                             /\ w.up = Tail(wire[c].up)
                             /\ w.down = <<>>
    <2>1. <<>> \in Seq(DownPacket)
      OBVIOUS
    <2>2. QED
      BY <1>2, <1>4, <2>1, AnswerEffect
  <1>14. wire'[c] = w /\ wire'[c].down = wire[c].down
    BY <1>4, <1>5, <1>13
  <1>15. Conversation(c)'
    <2>1. AckSent(c) => Quiet(c)'
      BY <1>4, <1>9, <1>13, <1>14 DEF Quiet, Line
    <2>2. AckAndGetSent(c) => RequestSent(c, "Get")'
      BY <1>4, <1>9, <1>13, <1>14 DEF RequestSent, Line
    <2>3. ~ At(c, "forward") /\ (At(c, "get") => AckSent(c))
      BY <1>2, <1>3, NothingAsked DEF InLoop
    <2>4. InLoop(c)'
      BY <1>2, <1>3, <2>1, <2>2, <2>3 DEF InLoop, Polling, At
    <2>5. QED
      BY <1>2, <1>3, <2>4, SetupAndPoll DEF Conversation
  <1>16. /\ Coming(c)' = Coming(c) /\ ToCome(c)' = ToCome(c)
         /\ Incoming(c, "Ack")' <=> Incoming(c, "Ack")
    BY <1>2, <1>14, SameDown
  <1>17. AckMeansLoss(c)'
    BY <1>2, <1>5, <1>9, <1>16, LogStays, LossStays DEF DeliveryInv
  <1>18. SessionIsMine(c)'
    BY <1>2, <1>8, <1>9, <1>10, <1>11, <1>12, SessionAsBefore
  <1>19. CursorIsLast(c)'
    <2>1. CursorIsLast(c)
      BY <1>5 DEF DeliveryInv
    <2>2. CASE AckMatches(c, id)
      <3>1. end # None /\ ack = end /\ conn[c].current_pos = AtPosition(end)
        BY <1>7, <2>1, <2>2 DEF AckMatches, CursorIsLast
      <3>2. end \in Position
        BY <1>5, <1>7, <3>1 DEF ClientState, OptPos
      <3>3. PosLeq(end, end)
        BY <3>2, LeqOrder
      <3>4. QED
        BY <1>7, <1>11, <3>1, <3>2, <3>3 DEF CursorIsLast
    <2>3. CASE ~ AckMatches(c, id)
      BY <1>7, <1>11, <2>1, <2>3 DEF CursorIsLast
    <2>4. QED
      BY <2>2, <2>3
  <1>20. AckedIsPast(c)'
    <2>1. RowsInWire(c) = <<>>
      BY <1>4 DEF RowsInWire, Incoming
    <2>2. ToCome(c) = {}
      BY <1>3, <2>1, NoRows DEF ToCome, Coming
    <2>3. QED
      BY <1>16, <2>2 DEF AckedIsPast
  <1>21. \A d \in Readers : d # c => Elsewhere(d)
    <2>1. \A other \in ClientIds : other \notin IdsOf[c] => sessions'[other] = sessions[other]
      BY <1>8, <1>10
    <2>2. QED
      BY <1>9, <1>11, <1>12, <2>1, OthersElsewhere
  <1>22. QED
    BY <1>2, <1>6, <1>9, <1>13, <1>15, <1>16, <1>17, <1>18, <1>19, <1>20, <1>21,
       NothingServed

(* A task of the server that ends.                                         *)
LEMMA TaskEnds ==
    ASSUME NEW c, ServerEnds(c)
    PROVE  /\ Ready(c) /\ Forget(c) /\ UNCHANGED <<storeVars, phase>>
           /\ UNCHANGED sessions \/ Unregister(c)
           /\ wire' = [wire EXCEPT ![c].up = <<>>] /\ UNCHANGED <<client, flow>>
  BY DEF ServerEnds, Close, ErrorExit

LEMMA ServerEndsKeeps ==
    ASSUME IdsDisjoint, ClientInv, NEW c \in Readers, ServerEnds(c)
    PROVE  ClientInv'
  <1>1. /\ Ready(c) /\ Forget(c) /\ UNCHANGED <<storeVars, phase>>
        /\ UNCHANGED sessions \/ Unregister(c)
        /\ wire' = [wire EXCEPT ![c].up = <<>>] /\ UNCHANGED <<client, flow>>
    BY TaskEnds
  <1>2. /\ ServerInv /\ DeliveryInv(c) /\ ConnInv(c) /\ Conversation(c)
        /\ conn \in [Readers -> ClientState]
        /\ hist.trace \in [Readers -> Trace] /\ hist \in History
        /\ wire \in [Readers -> Socket] /\ wire[c] \in Socket
        /\ client[c].pc \in SetupPcs \cup PollPcs
        /\ sessions \in [ClientIds -> Session \cup {None}]
    BY ClientTyped, Typed DEF ServerInv, ServerTypeOK, Library
  <1>3. ServerInv'
    BY <1>1, <1>2, ForgetKeeps
  <1>4. UNCHANGED <<buffer, log, call>> /\ call[c].pc = "idle"
    BY <1>1 DEF storeVars, Ready
  <1>5. /\ conn'[c] = NewClient /\ hist'.trace[c] = NewTrace
        /\ \A d \in Readers : d # c => conn'[d] = conn[d] /\ hist'.trace[d] = hist.trace[d]
    BY <1>1, <1>2 DEF Forget, History
  <1>6. PICK w : w = [wire[c] EXCEPT !.up = <<>>]
    OBVIOUS
  <1>7. w \in Socket /\ w.up = <<>> /\ w.down = wire[c].down
    <2>1. <<>> \in Seq(UpPacket)
      OBVIOUS
    <2>2. QED
      BY <1>2, <1>6, <2>1 DEF Socket
  <1>8. wire' = [wire EXCEPT ![c] = w] /\ wire'[c] = w
    BY <1>1, <1>2, <1>6
  <1>9. ASSUME Setup(c)
        PROVE  Setup(c)' /\ (Quiet(c) => Quiet(c)')
    BY <1>4, <1>7, <1>8, <1>9 DEF Setup, Quiet, RequestSent, AckComes, Line
  <1>10. ASSUME Polling(c)
         PROVE  Polling(c)' /\ (Quiet(c) \/ AckSent(c) => Quiet(c)')
    <2>1. /\ Quiet(c) \/ AckSent(c) \/ AckAndGetSent(c) \/ RequestSent(c, "Get") => Quiet(c)'
          /\ AckComes(c) => AckComes(c)'
          /\ RowsCome(c) => RowsCome(c)'
          /\ ~ InGet(c)
      BY <1>4, <1>7, <1>8 DEF Quiet, AckSent, AckAndGetSent, RequestSent, AckComes,
                              RowsCome, InGet, Line
    <2>2. QED
      BY <1>10, <2>1 DEF Polling
  <1>11. Conversation(c)'
    <2>1. client[c].pc \in SetupPcs => InSetup(c)'
      BY <1>1, <1>2, <1>9 DEF Conversation, InSetup, At
    <2>2. client[c].pc \in PollPcs => InLoop(c)'
      BY <1>1, <1>2, <1>10 DEF Conversation, InLoop, At
    <2>3. QED
      BY <1>1, <2>1, <2>2 DEF Conversation
  <1>12. /\ Coming(c)' = Coming(c)
         /\ Incoming(c, "Ack")' <=> Incoming(c, "Ack")
    BY <1>1, <1>7, <1>8, SameDown
  <1>13. AckMeansLoss(c)'
    BY <1>1, <1>2, <1>4, <1>12, LogStays, LossStays DEF DeliveryInv
  <1>14. SessionIsMine(c)' /\ CursorIsLast(c)' /\ AckedIsPast(c)'
    BY <1>5 DEF SessionIsMine, CursorIsLast, AckedIsPast, NewClient, NewTrace
  <1>15. \A cid \in ClientIds : cid \notin IdsOf[c] => sessions'[cid] = sessions[cid]
    <2>1. CASE UNCHANGED sessions
      BY <2>1
    <2>2. CASE Unregister(c)
      <3>1. conn[c].client_id # None => conn[c].client_id \in IdsOf[c]
        BY <1>2 DEF ConnInv, Identified
      <3>2. QED
        BY <1>2, <2>2, <3>1, IdsOfAssumption DEF Unregister
    <2>3. QED
      BY <1>1, <2>1, <2>2
  <1>16. \A d \in Readers : d # c => Elsewhere(d)
    BY <1>4, <1>5, <1>15, OthersElsewhere
  <1>17. QED
    BY <1>1, <1>3, <1>4, <1>7, <1>8, <1>11, <1>12, <1>13, <1>14, <1>16, NothingServed

-----------------------------------------------------------------------------
(* The rows of a batch: to_send keeps their order, and those of the tables *)
(* the client asked for.                                                   *)

RowNumbers(events) == [i \in 1 .. Len(events) |-> events[i].row]

Climbing(events) ==
    \A i, j \in 1 .. Len(events) : i < j => events[i].row < events[j].row

RowsIn(events, wanted) ==
    {events[i].row : i \in {j \in 1 .. Len(events) : events[j] \in wanted}}

LEMMA RowNumbersAppend ==
    ASSUME NEW s \in Seq(Event), NEW x \in Event
    PROVE  /\ RowNumbers(s) \in Seq(Nat) /\ x.row \in Nat
           /\ RowNumbers(Append(s, x)) = Append(RowNumbers(s), x.row)
  <1>1. x.row \in Nat /\ \A i \in 1 .. Len(s) : s[i].row \in Nat
    <2>1. \A i \in 1 .. Len(s) : s[i] \in Event
      BY ElementOfSeq
    <2>2. QED
      BY <2>1 DEF Event
  <1>2. PICK t, m : t = Append(s, x) /\ m = Len(s)
    OBVIOUS
  <1>3. /\ m \in Nat /\ Len(t) = m + 1 /\ t[m + 1] = x
        /\ \A n \in 1 .. m : t[n] = s[n]
    BY <1>2, AppendProperties
  <1>4. PICK r : r = RowNumbers(s)
    OBVIOUS
  <1>5. /\ r \in [1 .. m -> Nat] /\ r \in Seq(Nat) /\ Len(r) = m
        /\ \A n \in 1 .. m : r[n] = s[n].row
    BY <1>1, <1>2, <1>3, <1>4 DEF RowNumbers
  <1>6. PICK u : u = Append(r, x.row)
    OBVIOUS
  <1>7. /\ u \in [1 .. m + 1 -> Nat] /\ u[m + 1] = x.row
        /\ \A n \in 1 .. m : u[n] = r[n]
    <2>1. /\ u \in Seq(Nat) /\ Len(u) = m + 1 /\ u[m + 1] = x.row
          /\ \A n \in 1 .. m : u[n] = r[n]
      BY <1>1, <1>3, <1>5, <1>6, AppendProperties
    <2>2. QED
      BY <2>1
  <1>8. RowNumbers(t) = [n \in 1 .. m + 1 |-> t[n].row]
    BY <1>3 DEF RowNumbers
  <1>9. \A n \in 1 .. m + 1 : t[n].row = u[n]
    <2>1. \A n \in 1 .. m + 1 : n \in 1 .. m \/ n = m + 1
      BY <1>3
    <2>2. QED
      BY <1>3, <1>5, <1>7, <2>1
  <1>10. RowNumbers(t) = u
    BY <1>7, <1>8, <1>9
  <1>11. QED
    BY <1>1, <1>2, <1>4, <1>5, <1>6, <1>10

LEMMA RowsInAppend ==
    ASSUME NEW s \in Seq(Event), NEW x \in Event, NEW wanted
    PROVE  /\ RowsIn(Append(s, x), wanted) =
                RowsIn(s, wanted) \cup (IF x \in wanted THEN {x.row} ELSE {})
           /\ Climbing(Append(s, x)) =>
                Climbing(s) /\ \A y \in RowsIn(s, wanted) : y < x.row
  <1>1. PICK t, m : t = Append(s, x) /\ m = Len(s)
    OBVIOUS
  <1>2. /\ m \in Nat /\ Len(t) = m + 1 /\ t[m + 1] = x
        /\ \A n \in 1 .. m : t[n] = s[n]
    BY <1>1, AppendProperties
  <1>3. \A n \in 1 .. m + 1 : n \in 1 .. m \/ n = m + 1
    BY <1>2
  <1>4. m + 1 \in 1 .. m + 1 /\ \A n \in 1 .. m : n \in 1 .. m + 1 /\ n < m + 1
    BY <1>2
  <1>5. RowsIn(t, wanted) = {t[i].row : i \in {j \in 1 .. m + 1 : t[j] \in wanted}}
        /\ RowsIn(s, wanted) = {s[i].row : i \in {j \in 1 .. m : s[j] \in wanted}}
    BY <1>1, <1>2 DEF RowsIn
  <1>6. RowsIn(t, wanted) = RowsIn(s, wanted) \cup (IF x \in wanted THEN {x.row} ELSE {})
    <2>1. ASSUME NEW y \in RowsIn(t, wanted)
          PROVE  y \in RowsIn(s, wanted) \/ (x \in wanted /\ y = x.row)
      <3>1. PICK i \in 1 .. m + 1 : t[i] \in wanted /\ y = t[i].row
        BY <1>5
      <3>2. QED
        BY <1>2, <1>3, <1>5, <3>1
    <2>2. ASSUME NEW y \in RowsIn(s, wanted)
          PROVE  y \in RowsIn(t, wanted)
      <3>1. PICK i \in 1 .. m : s[i] \in wanted /\ y = s[i].row
        BY <1>5
      <3>2. QED
        BY <1>2, <1>4, <1>5, <3>1
    <2>3. x \in wanted => x.row \in RowsIn(t, wanted)
      BY <1>2, <1>4, <1>5
    <2>4. QED
      BY <2>1, <2>2, <2>3
  <1>7. ASSUME Climbing(t)
        PROVE  Climbing(s) /\ \A y \in RowsIn(s, wanted) : y < x.row
    <2>1. \A i, j \in 1 .. m + 1 : i < j => t[i].row < t[j].row
      BY <1>2, <1>7 DEF Climbing
    <2>2. \A i, j \in 1 .. m : i < j => s[i].row < s[j].row
      BY <1>2, <1>4, <2>1
    <2>3. \A i \in 1 .. m : s[i].row < x.row
      BY <1>2, <1>4, <2>1
    <2>4. QED
      BY <1>1, <1>5, <2>2, <2>3 DEF Climbing
  <1>8. QED
    BY <1>1, <1>6, <1>7

LEMMA RowsOfKept ==
    ASSUME NEW wanted, NEW events \in Seq(Event), Climbing(events)
    PROVE  /\ RowNumbers(Kept(events, wanted)) \in Seq(Nat)
           /\ Rising(RowNumbers(Kept(events, wanted)))
           /\ ToSet(RowNumbers(Kept(events, wanted))) = RowsIn(events, wanted)
  <1> DEFINE R(t) == RowNumbers(Kept(t, wanted))
             T == {t \in Seq(Event) :
                     /\ Kept(t, wanted) \in Seq(Event)
                     /\ R(t) \in Seq(Nat)
                     /\ ToSet(R(t)) = RowsIn(t, wanted)
                     /\ Climbing(t) => Rising(R(t))}
  <1>1. <<>> \in T
    <2>1. Kept(<<>>, wanted) = <<>> /\ <<>> \in Seq(Event) /\ Len(<<>>) = 0 /\ 1 .. 0 = {}
      BY KeptEmpty
    <2>2. RowNumbers(<<>>) = <<>>
      BY <2>1 DEF RowNumbers
    <2>3. RowsIn(<<>>, wanted) = {}
      BY <2>1 DEF RowsIn
    <2>4. QED
      BY <2>1, <2>2, <2>3, NoRows
  <1>2. ASSUME NEW t \in Seq(Event), NEW x \in Event, t \in T
        PROVE  Append(t, x) \in T
    <2>1. PICK k, u, r : k = Kept(t, wanted) /\ u = Append(t, x) /\ r = R(t)
      OBVIOUS
    <2>2. /\ k \in Seq(Event) /\ r \in Seq(Nat) /\ ToSet(r) = RowsIn(t, wanted)
          /\ Climbing(t) => Rising(r)
          /\ r = RowNumbers(k)
      BY <1>2, <2>1
    <2>3. Kept(u, wanted) = IF x \in wanted THEN Append(k, x) ELSE k
      BY <2>1, KeptAppend
    <2>4. /\ RowsIn(u, wanted) =
               RowsIn(t, wanted) \cup (IF x \in wanted THEN {x.row} ELSE {})
          /\ Climbing(u) => Climbing(t) /\ \A y \in RowsIn(t, wanted) : y < x.row
      BY <2>1, RowsInAppend
    <2>5. u \in Seq(Event)
      BY <2>1
    <2>6. CASE x \in wanted
      <3>1. x.row \in Nat /\ R(u) = Append(r, x.row)
        BY <2>2, <2>3, <2>6, RowNumbersAppend
      <3>2. /\ Append(r, x.row) \in Seq(Nat)
            /\ ToSet(Append(r, x.row)) = ToSet(r) \cup {x.row}
            /\ Rising(r) /\ (\A y \in ToSet(r) : y < x.row) => Rising(Append(r, x.row))
        BY <2>2, <3>1, LastRow
      <3>3. Append(k, x) \in Seq(Event)
        BY <2>2, AppendProperties
      <3>4. R(u) \in Seq(Nat) /\ ToSet(R(u)) = RowsIn(u, wanted)
        BY <2>2, <2>4, <2>6, <3>1, <3>2
      <3>5. Climbing(u) => Rising(R(u))
        BY <2>2, <2>4, <3>1, <3>2
      <3>6. Kept(u, wanted) \in Seq(Event)
        BY <2>3, <2>6, <3>3
      <3> HIDE DEF R
      <3>7. QED
        BY <2>1, <2>5, <3>4, <3>5, <3>6
    <2>7. CASE x \notin wanted
      <3>1. Kept(u, wanted) = k /\ R(u) = r
        BY <2>2, <2>3, <2>7
      <3>2. ToSet(r) = RowsIn(u, wanted)
        BY <2>2, <2>4, <2>7
      <3>3. Climbing(u) => Rising(r)
        BY <2>2, <2>4
      <3> HIDE DEF R
      <3>4. QED
        BY <2>1, <2>2, <2>5, <3>1, <3>2, <3>3
    <2>8. QED
      BY <2>6, <2>7
  <1> HIDE DEF T
  <1>3. Seq(Event) \subseteq T
    BY <1>1, <1>2, SeqInduction
  <1>4. QED
    BY <1>3 DEF T

(* The places lo to hi of the log are served to the client.                *)
LEMMA RowsToSendAre ==
    ASSUME ClientInv, ServerInv', NEW c \in Readers, conn[c].authenticated,
           NEW lo \in 1 .. Len(log), NEW hi \in 1 .. Len(log), IsServed(c, lo, hi)
    PROVE  LET rows == RowsToSend(c, reply'[c].events)
           IN  /\ rows \in Seq(Nat) /\ Rising(rows)
               /\ ToSet(rows) = {i \in lo .. hi : log[i].table \in FilterOf[c]}
  <1>1. /\ ServerInv /\ DeliveryInv(c) /\ ConnInv(c) /\ StoreInv
        /\ Len(log) \in Nat /\ log \in Seq(Event)
    BY ClientTyped DEF ServerInv
  <1>2. PICK events : events = reply'[c].events
    OBVIOUS
  <1>3. events \in Seq(Event)
    <2>1. reply' \in [Readers -> Reply]
      BY DEF ServerInv, StoreInv, BufferInv, StoreTypeOK
    <2>2. QED
      BY <1>2, <2>1 DEF Reply
  <1>4. /\ Len(events) = hi - lo + 1 /\ hi \in lo .. Len(log)
        /\ \A i \in 1 .. hi - lo + 1 : events[i] = log[lo + i - 1]
    BY <1>2 DEF IsServed
  <1>5. ASSUME NEW i \in 1 .. Len(events)
        PROVE  /\ lo + i - 1 \in lo .. hi /\ events[i].row = lo + i - 1
               /\ events[i] = log[lo + i - 1]
    <2>1. lo + i - 1 \in 1 .. Len(log) /\ lo + i - 1 \in lo .. hi
      BY <1>1, <1>4
    <2>2. log[lo + i - 1].row = lo + i - 1
      BY <1>1, <2>1 DEF StoreInv, BufferInv, LogInv, RowsAreIndices
    <2>3. QED
      BY <1>4, <2>1, <2>2
  <1>6. Climbing(events)
    <2>1. SUFFICES ASSUME NEW i \in 1 .. Len(events), NEW j \in 1 .. Len(events), i < j
                   PROVE  events[i].row < events[j].row
      BY DEF Climbing
    <2>2. lo + i - 1 < lo + j - 1
      BY <2>1
    <2>3. QED
      BY <1>5, <2>1, <2>2
  <1>7. PICK wanted : wanted = {e \in ToSet(events) : Passes(c, e)}
    OBVIOUS
  <1>8. RowsToSend(c, events) = RowNumbers(Kept(events, wanted))
    BY <1>7 DEF RowsToSend, RowNumbers
  <1>9. ASSUME NEW e
        PROVE  Passes(c, e) <=> e.table \in FilterOf[c]
    <2>1. /\ conn[c].client_id = IdOf[c] /\ sessions[IdOf[c]].pattern = FilterOf[c]
          /\ sessions[IdOf[c]].black_list = {} /\ sessions[IdOf[c]] # None
      BY <1>1 DEF DeliveryInv, SessionIsMine, ConnInv, HasSession
    <2>2. QED
      BY <2>1 DEF Passes
  <1>10. \A i \in 1 .. Len(events) : events[i] \in wanted <=> log[lo + i - 1].table \in FilterOf[c]
    <2>1. \A i \in 1 .. Len(events) : events[i] \in ToSet(events)
      <3>1. DOMAIN events = 1 .. Len(events)
        BY <1>3
      <3>2. QED
        BY <3>1 DEF ToSet
    <2>2. QED
      BY <1>5, <1>7, <1>9, <2>1
  <1>11. RowsIn(events, wanted) = {i \in lo .. hi : log[i].table \in FilterOf[c]}
    <2>1. ASSUME NEW x \in RowsIn(events, wanted)
          PROVE  x \in lo .. hi /\ log[x].table \in FilterOf[c]
      <3>1. PICK i \in 1 .. Len(events) : events[i] \in wanted /\ x = events[i].row
        BY DEF RowsIn
      <3>2. QED
        BY <1>5, <1>10, <3>1
    <2>2. ASSUME NEW x \in lo .. hi, log[x].table \in FilterOf[c]
          PROVE  x \in RowsIn(events, wanted)
      <3>1. PICK i : i = x - lo + 1
        OBVIOUS
      <3>2. i \in 1 .. Len(events) /\ lo + i - 1 = x
        BY <1>1, <1>4, <3>1
      <3>3. events[i] \in wanted /\ events[i].row = x
        BY <1>5, <1>10, <2>2, <3>2
      <3>4. QED
        BY <3>2, <3>3 DEF RowsIn
    <2>3. QED
      BY <2>1, <2>2
  <1>12. QED
    BY <1>2, <1>3, <1>6, <1>8, <1>11, RowsOfKept

-----------------------------------------------------------------------------
(* The answer to a Get.                                                    *)

LEMMA InsideGet ==
    ASSUME ClientInv, NEW c \in Readers, call[c].pc # "idle"
    PROVE  /\ client[c].pc \in PollPcs /\ InLoop(c) /\ ~ At(c, "get") /\ ~ At(c, "forward")
           /\ wire[c].up = <<>> /\ wire[c].down = <<>> /\ client[c].batch = <<>>
           /\ Coming(c) = <<>> /\ ToCome(c) = {}
           /\ conn[c].authenticated /\ conn[c].open
  <1>1. /\ client[c].pc \in SetupPcs \cup PollPcs /\ Conversation(c) /\ ConnInv(c)
    BY ClientTyped DEF Library
  <1>2. /\ ~ Quiet(c) /\ ~ AckSent(c) /\ ~ AckAndGetSent(c) /\ ~ RequestSent(c, "Get")
        /\ ~ RequestSent(c, "Auth") /\ ~ RequestSent(c, "Sub")
        /\ ~ AckComes(c) /\ ~ RowsCome(c)
    BY DEF Quiet, AckSent, AckAndGetSent, RequestSent, AckComes, RowsCome
  <1>3. client[c].pc \in PollPcs /\ InLoop(c)
    BY <1>1, <1>2 DEF Conversation, InSetup, Setup
  <1>4. /\ InGet(c) /\ client[c].batch = <<>> /\ ~ At(c, "get") /\ ~ At(c, "forward")
    BY <1>2, <1>3 DEF InLoop, Polling
  <1>5. wire[c].up = <<>> /\ wire[c].down = <<>>
    BY <1>4 DEF InGet, Line
  <1>6. Coming(c) = <<>>
    BY <1>4, <1>5 DEF Coming, RowsInWire, Incoming
  <1>7. ToCome(c) = {}
    BY <1>6, NoRows DEF ToCome
  <1>8. QED
    BY <1>1, <1>3, <1>4, <1>5, <1>6, <1>7 DEF ConnInv, Identified

(* The search misses, waits, or starts again.                              *)
LEMMA StillWaiting ==
    ASSUME ClientInv, NEW c \in Readers, GetMiss(c) \/ GetWait(c) \/ GetWoken(c),
           UNCHANGED <<serverVars, client, wire, flow>>
    PROVE  ClientInv'
  <1>1. /\ UNCHANGED <<conn, sessions, phase, hist, buffer, log>>
        /\ call[c].pc # "idle"
        /\ \E pc \in {"missed", "wait", "check"}, woken \in BOOLEAN :
              call' = [call EXCEPT ![c].pc = pc, ![c].woken = woken]
    <2>1. call \in [Readers -> CallState] /\ call[c] \in CallState
      BY ClientTyped, Typed
    <2>2. PICK old \in BOOLEAN : old = call[c].woken
      BY <2>1 DEF CallState
    <2>3. CASE GetMiss(c)
      <3>1. call' = [call EXCEPT ![c].pc = "missed", ![c].woken = old]
        BY <2>1, <2>2, <2>3 DEF GetMiss, CallState
      <3>2. QED
        BY <2>2, <2>3, <3>1 DEF GetMiss, serverVars
    <2>4. CASE GetWait(c)
      <3>1. call' = [call EXCEPT ![c].pc = "wait", ![c].woken = old]
        BY <2>1, <2>2, <2>4 DEF GetWait, CallState
      <3>2. QED
        BY <2>2, <2>4, <3>1 DEF GetWait, serverVars
    <2>5. CASE GetWoken(c)
      BY <2>5 DEF GetWoken, serverVars
    <2>6. QED
      BY <2>3, <2>4, <2>5
  <1>2. /\ ServerInv /\ DeliveryInv(c) /\ wire[c] \in Socket /\ call \in [Readers -> CallState]
        /\ wire' = [wire EXCEPT ![c] = wire[c]]
    BY ClientTyped, Typed, SameWireEffect
  <1>3. ServerInv'
    BY <1>2, WaitKeeps
  <1>4. call'[c].pc # "idle" /\ \A d \in Readers : d # c => call'[d] = call[d]
    <2>1. PICK pc \in {"missed", "wait", "check"}, woken \in BOOLEAN :
             call' = [call EXCEPT ![c].pc = pc, ![c].woken = woken]
      BY <1>1
    <2>2. PICK k : k = [call[c] EXCEPT !.pc = pc, !.woken = woken]
      OBVIOUS
    <2>3. call' = [call EXCEPT ![c] = k]
      BY <1>2, <2>1, <2>2
    <2>4. k.pc = pc
      BY <1>2, <2>2 DEF CallState
    <2>5. QED
      BY <1>2, <2>1, <2>3, <2>4
  <1>5. /\ client[c].pc \in PollPcs /\ InLoop(c) /\ ~ At(c, "get") /\ ~ At(c, "forward")
        /\ wire[c].up = <<>> /\ wire[c].down = <<>> /\ client[c].batch = <<>>
    BY <1>1, InsideGet
  <1>6. Conversation(c)'
    <2>1. InGet(c)'
      BY <1>4, <1>5 DEF InGet, Line
    <2>2. InLoop(c)'
      BY <1>5, <2>1 DEF InLoop, Polling, At
    <2>3. QED
      BY <1>5, <2>2, SetupAndPoll DEF Conversation
  <1>7. /\ Coming(c)' = Coming(c) /\ ToCome(c)' = ToCome(c)
        /\ Incoming(c, "Ack")' <=> Incoming(c, "Ack")
    BY SameDown
  <1>8. AckMeansLoss(c)'
    BY <1>1, <1>2, <1>7, LogStays, LossStays DEF DeliveryInv
  <1>9. SessionIsMine(c)' /\ CursorIsLast(c)' /\ AckedIsPast(c)'
    BY <1>1, <1>7, SessionAsBefore
  <1>10. \A d \in Readers : d # c => Elsewhere(d)
    BY <1>1, <1>4 DEF Elsewhere
  <1>11. QED
    BY <1>1, <1>2, <1>3, <1>6, <1>7, <1>8, <1>9, <1>10, NothingServed

LEMMA MessagesEffect ==
    ASSUME ClientInv, NEW c \in Readers, call[c].pc # "idle",
           NEW id \in Nat, NEW rows \in Seq(Nat), UNCHANGED client,
           wire' = [wire EXCEPT ![c].down = Append(@, Messages(id, rows))]
    PROVE  \E w \in Socket :
              /\ wire' = [wire EXCEPT ![c] = w] /\ wire'[c] = w /\ w.up = <<>>
              /\ w.down = <<[type |-> "Messages", batch_id |-> id, rows |-> rows]>>
              /\ Coming(c)' = rows /\ ~ Incoming(c, "Ack")'
  <1> DEFINE m == [type |-> "Messages", batch_id |-> id, rows |-> rows]
  <1>1. /\ wire \in [Readers -> Socket] /\ wire[c] \in Socket
        /\ wire[c].up = <<>> /\ wire[c].down = <<>> /\ client[c].batch = <<>>
    BY ClientTyped, InsideGet
  <1>2. m \in DownPacket /\ m.type = "Messages" /\ m.rows = rows /\ m = Messages(id, rows)
    BY DEF DownPacket, Messages
  <1> HIDE DEF m
  <1>3. /\ <<m>> \in Seq(DownPacket) /\ Append(wire[c].down, m) = <<m>>
        /\ Head(<<m>>) = m /\ <<m>> # <<>>
    BY <1>1, <1>2, OnePacket
  <1>4. PICK down : down = <<m>>
    OBVIOUS
  <1>5. PICK w : w = [wire[c] EXCEPT !.down = down]
    OBVIOUS
  <1>6. w \in Socket /\ w.up = <<>> /\ w.down = down
    BY <1>1, <1>3, <1>4, <1>5 DEF Socket
  <1>7. wire' = [wire EXCEPT ![c] = w] /\ wire'[c] = w
    BY <1>1, <1>2, <1>3, <1>4, <1>5
  <1>8. Incoming(c, "Messages")' /\ ~ Incoming(c, "Ack")'
    BY <1>2, <1>3, <1>4, <1>6, <1>7 DEF Incoming
  <1>9. Coming(c)' = rows
    BY <1>1, <1>2, <1>3, <1>4, <1>6, <1>7, <1>8 DEF Coming, RowsInWire
  <1>10. QED
    BY <1>4, <1>6, <1>7, <1>8, <1>9 DEF m

LEMMA RowsComeNow ==
    ASSUME ClientInv, NEW c \in Readers, call[c].pc # "idle", call'[c].pc = "idle",
           UNCHANGED client, wire'[c].up = <<>>,
           NEW id \in Nat, NEW rows \in Seq(Nat),
           wire'[c].down = <<[type |-> "Messages", batch_id |-> id, rows |-> rows]>>
    PROVE  Conversation(c)'
  <1>1. /\ client[c].pc \in PollPcs /\ InLoop(c) /\ ~ At(c, "get") /\ ~ At(c, "forward")
        /\ client[c].batch = <<>>
    BY InsideGet
  <1>2. RowsCome(c)'
    BY DEF RowsCome, Line
  <1>3. InLoop(c)'
    BY <1>1, <1>2 DEF InLoop, Polling, At
  <1>4. QED
    BY <1>1, <1>3, SetupAndPoll DEF Conversation

(* The empty batch of the timeout.                                         *)
LEMMA TimeoutOfClient ==
    ASSUME ClientInv, NEW c \in Readers, GetTimeout(c),
           wire' = [wire EXCEPT ![c].down = Append(@, Messages(0, <<>>))],
           UNCHANGED <<serverVars, client, flow>>
    PROVE  ClientInv'
  <1>1. /\ UNCHANGED <<conn, sessions, phase, hist, buffer, log>>
        /\ call[c].pc # "idle" /\ call' = [call EXCEPT ![c] = Idle]
    BY DEF GetTimeout, GetReturn, serverVars
  <1>2. /\ ServerInv /\ DeliveryInv(c) /\ call \in [Readers -> CallState]
    BY ClientTyped, Typed
  <1>3. ServerInv'
    BY <1>2, WaitKeeps
  <1>4. call'[c].pc = "idle" /\ \A d \in Readers : d # c => call'[d] = call[d]
    BY <1>1, <1>2 DEF Idle
  <1>5. PICK none \in Seq(Nat) : none = <<>>
    BY NoRows
  <1>6. wire' = [wire EXCEPT ![c].down = Append(@, Messages(0, none))]
    BY <1>5
  <1>7. PICK w \in Socket :
              /\ wire' = [wire EXCEPT ![c] = w] /\ wire'[c] = w /\ w.up = <<>>
              /\ w.down = <<[type |-> "Messages", batch_id |-> 0, rows |-> none]>>
              /\ Coming(c)' = none /\ ~ Incoming(c, "Ack")'
    BY <1>1, <1>6, MessagesEffect
  <1>8. Conversation(c)'
    BY <1>1, <1>4, <1>7, RowsComeNow
  <1>9. Coming(c)' = Coming(c)
    BY <1>1, <1>5, <1>7, InsideGet
  <1>10. ToCome(c)' = ToCome(c)
    BY <1>9 DEF ToCome
  <1>11. AckMeansLoss(c)'
    BY <1>7 DEF AckMeansLoss
  <1>12. SessionIsMine(c)' /\ CursorIsLast(c)' /\ AckedIsPast(c)'
    BY <1>1, <1>10, SessionAsBefore
  <1>13. \A d \in Readers : d # c => Elsewhere(d)
    BY <1>1, <1>4 DEF Elsewhere
  <1>14. QED
    BY <1>1, <1>3, <1>7, <1>8, <1>9, <1>11, <1>12, <1>13, NothingServed

(* What handle_get's delivery of the places lo to hi changes.              *)
LEMMA DeliveryChanges ==
    ASSUME ServerInv, NEW c \in Readers, Deliver(c),
           NEW lo \in 1 .. Len(log), NEW hi \in 1 .. Len(log), IsServed(c, lo, hi)
    PROVE  /\ UNCHANGED <<sessions, buffer, log>>
           /\ call[c].pc # "idle" /\ call'[c].pc = "idle"
           /\ \A d \in Readers : d # c => /\ conn'[d] = conn[d] /\ call'[d] = call[d]
                                          /\ hist'.trace[d] = hist.trace[d]
           /\ conn'[c].authenticated = conn[c].authenticated
           /\ conn'[c].open = conn[c].open /\ conn'[c].client_id = conn[c].client_id
           /\ conn'[c].last_ack_pos = conn[c].last_ack_pos
           /\ conn'[c].current_pos = AtPosition(log[hi].pos)
           /\ conn'[c].last_get_end_pos = log[hi].pos
           /\ hist'.trace[c].timed = hist.trace[c].timed
           /\ hist'.trace[c].rolled = hist.trace[c].rolled
           /\ hist'.trace[c].served = hist.trace[c].served \cup (lo .. hi)
           /\ EndPositions(c)' = EndPositions(c) \cup {log[hi].pos}
  <1>1. PICK end, id, cursor : /\ end = log[hi].pos /\ id = reply'[c].batch_id
                               /\ cursor = AtPosition(end)
    OBVIOUS
  <1>2. EndOf(reply'[c].events) = end /\ Rows(reply'[c].events) = lo .. hi
    BY <1>1 DEF IsServed
  <1>3. /\ conn \in [Readers -> ClientState] /\ conn[c] \in ClientState
        /\ hist.trace \in [Readers -> Trace] /\ hist.trace[c] \in Trace /\ hist \in History
        /\ call \in [Readers -> CallState]
    BY Typed DEF ServerInv
  <1>4. /\ UNCHANGED <<sessions, buffer, log>> /\ call[c].pc # "idle"
        /\ call' = [call EXCEPT ![c] = Idle]
    BY DEF Deliver, GetServe, GetReturn
  <1>5. call'[c].pc = "idle" /\ \A d \in Readers : d # c => call'[d] = call[d]
    BY <1>3, <1>4 DEF Idle
  <1>6. conn' = [conn EXCEPT ![c] = [conn[c] EXCEPT !.current_pos = cursor,
                                                    !.last_get_batch_id = id,
                                                    !.last_get_end_pos = end]]
    BY <1>1, <1>2, <1>3 DEF Deliver, NextCursor
  <1>7. PICK k : k = [conn[c] EXCEPT !.current_pos = cursor, !.last_get_batch_id = id,
                                     !.last_get_end_pos = end]
    OBVIOUS
  <1>8. /\ k.authenticated = conn[c].authenticated /\ k.open = conn[c].open
        /\ k.client_id = conn[c].client_id /\ k.last_ack_pos = conn[c].last_ack_pos
        /\ k.current_pos = cursor /\ k.last_get_end_pos = end
    BY <1>3, <1>7 DEF ClientState
  <1>9. conn'[c] = k /\ \A d \in Readers : d # c => conn'[d] = conn[d]
    BY <1>3, <1>6, <1>7
  <1>10. PICK rows, sent, served, ends :
            /\ rows = lo .. hi
            /\ sent = hist.trace[c].sent \cup RowsSent(c, reply'[c].events)
            /\ served = hist.trace[c].served \cup rows
            /\ ends = hist.trace[c].ends \cup {<<id, end>>}
    OBVIOUS
  <1>11. hist' = [hist EXCEPT !.trace[c].served = served, !.trace[c].sent = sent,
                              !.trace[c].ends = ends]
    BY <1>1, <1>2, <1>3, <1>10 DEF Deliver, History, Trace
  <1>12. PICK t : t = [hist.trace[c] EXCEPT !.served = served, !.sent = sent, !.ends = ends]
    OBVIOUS
  <1>13. /\ t.served = served /\ t.ends = ends
         /\ t.timed = hist.trace[c].timed /\ t.rolled = hist.trace[c].rolled
    BY <1>3, <1>12 DEF Trace
  <1>14. hist'.trace = [hist.trace EXCEPT ![c] = t]
    BY <1>3, <1>11, <1>12 DEF History
  <1>15. hist'.trace[c] = t /\ \A d \in Readers : d # c => hist'.trace[d] = hist.trace[d]
    BY <1>3, <1>14
  <1>16. EndPositions(c)' = EndPositions(c) \cup {end}
    <2>1. EndPositions(c)' = {q[2] : q \in hist.trace[c].ends \cup {<<id, end>>}}
      BY <1>10, <1>13, <1>15 DEF EndPositions
    <2>2. <<id, end>>[2] = end
      OBVIOUS
    <2>3. {q[2] : q \in hist.trace[c].ends \cup {<<id, end>>}}
          = {q[2] : q \in hist.trace[c].ends} \cup {<<id, end>>[2]}
      OBVIOUS
    <2>4. QED
      BY <2>1, <2>2, <2>3 DEF EndPositions
  <1>17. QED
    BY <1>1, <1>4, <1>5, <1>8, <1>9, <1>10, <1>13, <1>15, <1>16

(* What is served now lies after all that was served and acknowledged.     *)
LEMMA ServedNowIsLater ==
    ASSUME ClientInv, NEW c \in Readers, call[c].pc # "idle",
           NEW lo \in 1 .. Len(log), NEW hi \in 1 .. Len(log), IsServed(c, lo, hi),
           NEW i \in lo .. hi
    PROVE  /\ \A j \in flow[c].served : j < i /\ log[j].pos # log[i].pos
           /\ conn[c].last_ack_pos # None => PosLess(conn[c].last_ack_pos, log[i].pos)
  <1>1. /\ ServerInv /\ StoreInv /\ DeliveryInv(c) /\ ConnInv(c) /\ conn[c] \in ClientState
        /\ conn[c].open /\ Len(log) \in Nat /\ i \in 1 .. Len(log)
        /\ log[i].pos \in Position
    BY ClientTyped, InsideGet, LogOrder DEF ServerInv
  <1>2. ASSUME NEW p \in Position, conn[c].current_pos # None,
               conn[c].current_pos.timestamp = 0, conn[c].current_pos.pos = p
        PROVE  PosLess(p, log[i].pos)
    <2>1. call[c].cursor = conn[c].current_pos
      BY <1>1, <1>2 DEF ConnInv, CursorIsAhead
    <2>2. QED
      BY <1>1, <1>2, <2>1, DeliveryAfterCursor
  <1>3. ASSUME NEW j \in flow[c].served
        PROVE  j < i /\ log[j].pos # log[i].pos
    <2>1. j \in hist.trace[c].served /\ ~ hist.trace[c].rolled
      BY <1>1 DEF DeliveryInv, SessionIsMine
    <2>2. /\ conn[c].current_pos # None /\ conn[c].current_pos.timestamp = 0
          /\ j \in 1 .. Len(log) /\ PosLeq(log[j].pos, conn[c].current_pos.pos)
      BY <1>1, <2>1 DEF ConnInv, CursorIsAhead
    <2>3. PICK p \in Position : p = conn[c].current_pos.pos
      BY <1>1, <2>2, PositionCursor DEF ClientState
    <2>4. PosLess(p, log[i].pos)
      BY <1>2, <2>2, <2>3
    <2>5. log[j].pos \in Position /\ (i <= j => PosLeq(log[i].pos, log[j].pos))
      BY <1>1, <2>2, LogOrder
    <2>6. ~ (i <= j)
      BY <1>1, <2>2, <2>3, <2>4, <2>5, LeqOrder
    <2>7. log[j].pos # log[i].pos
      BY <1>1, <2>2, <2>3, <2>4, LeqOrder
    <2>8. QED
      BY <1>1, <2>2, <2>6, <2>7
  <1>4. ASSUME conn[c].last_ack_pos # None
        PROVE  PosLess(conn[c].last_ack_pos, log[i].pos)
    <2>1. conn[c].last_ack_pos \in Position
      BY <1>1, <1>4 DEF ClientState, OptPos
    <2>2. PICK p \in Position : /\ conn[c].current_pos = AtPosition(p)
                                /\ PosLeq(conn[c].last_ack_pos, p)
      BY <1>1, <1>4 DEF DeliveryInv, CursorIsLast
    <2>3. AtPosition(p) # None /\ AtPosition(p).timestamp = 0 /\ AtPosition(p).pos = p
      BY CursorType, NoneAssumption DEF AtPosition
    <2>4. PosLess(p, log[i].pos)
      BY <1>2, <2>2, <2>3
    <2>5. CASE conn[c].last_ack_pos = p
      BY <2>4, <2>5
    <2>6. CASE PosLess(conn[c].last_ack_pos, p)
      <3>1. PosLeq(p, log[i].pos)
        BY <2>4 DEF PosLeq
      <3>2. QED
        BY <1>1, <2>1, <2>6, <3>1, LeqOrder
    <2>7. QED
      BY <2>2, <2>5, <2>6 DEF PosLeq
  <1>5. QED
    BY <1>3, <1>4

(* The rows of the batch are the last of the stream.                       *)
LEMMA BatchOnTheWay ==
    ASSUME ClientInv, NEW c \in Readers, call[c].pc # "idle", UNCHANGED <<client, log>>,
           NEW lo \in 1 .. Len(log), NEW hi \in 1 .. Len(log), IsServed(c, lo, hi),
           NEW rows \in Seq(Nat), Rising(rows), Coming(c)' = rows,
           ToSet(rows) = {i \in lo .. hi : log[i].table \in FilterOf[c]},
           flow'[c].received = flow[c].received,
           flow'[c].served = flow[c].served \cup (lo .. hi)
    PROVE  OnTheWay(c)' /\ ToCome(c)' \subseteq lo .. hi
  <1>1. DeliveryInv(c) /\ ToCome(c) = {}
    BY ClientTyped, InsideGet
  <1>2. Got(c)' = Got(c) /\ InChannel(c)' = InChannel(c) /\ ToCome(c)' = ToSet(rows)
    BY DEF Got, InChannel, ToCome
  <1>3. ServedToClient(c)' = ServedToClient(c) \cup ToSet(rows)
    BY DEF ServedToClient
  <1>4. \A x \in ServedToClient(c), y \in ToSet(rows) : x < y
    BY ServedNowIsLater DEF ServedToClient
  <1>5. Got(c)' \cup ToCome(c)' \subseteq ServedToClient(c)'
    BY <1>1, <1>2, <1>3 DEF DeliveryInv, OnTheWay
  <1>6. ASSUME client[c].stream # "ended"
        PROVE  NothingLost(c)'
    <2>1. NothingLost(c)
      BY <1>1, <1>6 DEF DeliveryInv, OnTheWay
    <2>2. Got(c) \cup InChannel(c) = ServedToClient(c)
      BY <1>1, <2>1 DEF NothingLost
    <2>3. AllBelow(Got(c), ToSet(rows)) /\ AllBelow(InChannel(c), ToSet(rows))
      BY <1>4, <2>2 DEF AllBelow
    <2>4. Got(c) \cup InChannel(c) \cup ToSet(rows) = ServedToClient(c)'
      BY <1>3, <2>2
    <2>5. Rising(flow'[c].received) /\ Rising(client'[c].channel) /\ Rising(Coming(c)')
      BY <2>1 DEF NothingLost
    <2>6. AllBelow(Got(c), InChannel(c))
      BY <2>1 DEF NothingLost
    <2>7. QED
      BY <1>2, <2>3, <2>4, <2>5, <2>6 DEF NothingLost
  <1>7. QED
    BY <1>2, <1>5, <1>6 DEF OnTheWay

LEMMA BatchOfClient ==
    ASSUME IdsDisjoint, StartIsFirst, ClientInv, NEW c \in Readers, Deliver(c),
           UNCHANGED client,
           LET events == reply'[c].events
           IN  /\ wire' = [wire EXCEPT ![c].down =
                     Append(@, Messages(reply'[c].batch_id, RowsToSend(c, events)))]
               /\ flow' = [flow EXCEPT ![c].served = @ \cup Rows(events),
                                       ![c].ends = @ \cup {EndOf(events)}]
    PROVE  ClientInv'
  <1>1. /\ ServerInv /\ StoreInv /\ DeliveryInv(c) /\ ConnInv(c) /\ conn[c] \in ClientState
        /\ flow \in [Readers -> Flow] /\ flow[c] \in Flow
        /\ Len(log) \in Nat /\ Dropped \in Nat
    BY ClientTyped DEF ServerInv
  <1>2. ServerInv'
    BY <1>1, DeliverKeeps
  <1>3. PICK lo \in 1 .. Len(log), hi \in 1 .. Len(log) : IsServed(c, lo, hi)
    BY <1>1, ServedPlaces DEF Deliver
  <1>4. PICK end, id, rows, events :
           /\ end = log[hi].pos /\ id = reply'[c].batch_id /\ events = reply'[c].events
           /\ rows = RowsToSend(c, events)
    OBVIOUS
  <1>5. /\ EndOf(events) = end /\ Rows(events) = lo .. hi /\ id = batch_id_seq
        /\ end \in Position /\ id \in Nat
    BY <1>1, <1>3, <1>4, LogOrder DEF IsServed, StoreInv, BufferInv, StoreTypeOK
  <1>6. /\ UNCHANGED <<sessions, buffer, log>>
        /\ call[c].pc # "idle" /\ call'[c].pc = "idle"
        /\ \A d \in Readers : d # c => /\ conn'[d] = conn[d] /\ call'[d] = call[d]
                                       /\ hist'.trace[d] = hist.trace[d]
        /\ conn'[c].authenticated = conn[c].authenticated
        /\ conn'[c].open = conn[c].open /\ conn'[c].client_id = conn[c].client_id
        /\ conn'[c].last_ack_pos = conn[c].last_ack_pos
        /\ conn'[c].current_pos = AtPosition(end)
        /\ conn'[c].last_get_end_pos = end
        /\ hist'.trace[c].timed = hist.trace[c].timed
        /\ hist'.trace[c].rolled = hist.trace[c].rolled
        /\ hist'.trace[c].served = hist.trace[c].served \cup (lo .. hi)
        /\ EndPositions(c)' = EndPositions(c) \cup {end}
    BY <1>1, <1>3, <1>4, DeliveryChanges
  <1>7. conn[c].authenticated /\ conn[c].open
    BY <1>6, InsideGet
  <1>8. /\ rows \in Seq(Nat) /\ Rising(rows)
        /\ ToSet(rows) = {i \in lo .. hi : log[i].table \in FilterOf[c]}
    BY <1>2, <1>3, <1>4, <1>7, RowsToSendAre
  <1>9. PICK w \in Socket :
              /\ wire' = [wire EXCEPT ![c] = w] /\ wire'[c] = w /\ w.up = <<>>
              /\ w.down = <<[type |-> "Messages", batch_id |-> id, rows |-> rows]>>
              /\ Coming(c)' = rows /\ ~ Incoming(c, "Ack")'
    <2>1. wire' = [wire EXCEPT ![c].down = Append(@, Messages(id, rows))]
      BY <1>4
    <2>2. call[c].pc # "idle" /\ id \in Nat /\ rows \in Seq(Nat)
      BY <1>5, <1>6, <1>8
    <2>3. QED
      BY <2>1, <2>2, MessagesEffect
  <1>10. PICK served, ends : /\ served = flow[c].served \cup (lo .. hi)
                             /\ ends = flow[c].ends \cup {end}
    OBVIOUS
  <1>11. PICK f : f = [flow[c] EXCEPT !.served = served, !.ends = ends]
    OBVIOUS
  <1>12. /\ f \in Flow /\ f.served = served /\ f.ends = ends
         /\ f.received = flow[c].received
    <2>1. lo .. hi \in SUBSET Nat
      BY <1>1
    <2>2. served \in SUBSET Nat /\ ends \in SUBSET Position
      BY <1>1, <1>5, <1>10, <2>1 DEF Flow
    <2>3. QED
      BY <1>1, <1>11, <2>2 DEF Flow
  <1>13. flow' = [flow EXCEPT ![c] = f] /\ flow'[c] = f
    <2>1. flow' = [flow EXCEPT ![c].served = flow[c].served \cup Rows(events),
                               ![c].ends = flow[c].ends \cup {EndOf(events)}]
      BY <1>1, <1>4 DEF Flow
    <2>2. flow' = [flow EXCEPT ![c].served = served, ![c].ends = ends]
      BY <1>5, <1>10, <2>1
    <2>3. QED
      BY <1>1, <1>11, <2>2
  <1>14. Conversation(c)'
    BY <1>5, <1>6, <1>8, <1>9, RowsComeNow
  <1>15. OnTheWay(c)' /\ ToCome(c)' \subseteq lo .. hi
    BY <1>3, <1>6, <1>8, <1>9, <1>10, <1>12, <1>13, BatchOnTheWay
  <1>16. SessionIsMine(c)'
    <2>1. SessionIsMine(c)
      BY <1>1 DEF DeliveryInv
    <2>2. flow'[c].served = hist'.trace[c].served /\ flow'[c].ends = EndPositions(c)'
      <3>1. flow[c].served = hist.trace[c].served /\ flow[c].ends = EndPositions(c)
        BY <1>7, <2>1 DEF SessionIsMine
      <3>2. flow'[c].served = flow[c].served \cup (lo .. hi)
            /\ flow'[c].ends = flow[c].ends \cup {end}
        BY <1>10, <1>12, <1>13
      <3>3. hist'.trace[c].served = hist.trace[c].served \cup (lo .. hi)
            /\ EndPositions(c)' = EndPositions(c) \cup {end}
        BY <1>6
      <3>4. QED
        BY <3>1, <3>2, <3>3
    <2>3. ~ hist'.trace[c].timed /\ ~ hist'.trace[c].rolled
      BY <1>6, <2>1 DEF SessionIsMine
    <2>4. /\ sessions' = sessions /\ conn'[c].client_id = conn[c].client_id
          /\ conn'[c].authenticated = conn[c].authenticated
      BY <1>6
    <2>5. conn'[c].authenticated =>
             /\ conn'[c].client_id = IdOf[c]
             /\ sessions'[IdOf[c]].pattern = FilterOf[c]
             /\ sessions'[IdOf[c]].black_list = {}
      BY <2>1, <2>4 DEF SessionIsMine
    <2>6. QED
      BY <2>2, <2>3, <2>5 DEF SessionIsMine
  <1>17. ServedUpToEnds(c)'
    <2>1. ServedUpToEnds(c)
      BY <1>1 DEF DeliveryInv
    <2>2. lo .. hi \subseteq 1 .. Len(log) /\ hi \in lo .. hi
      BY <1>1, <1>3 DEF IsServed
    <2>3. served \subseteq 1 .. Len(log)
      BY <1>10, <2>1, <2>2 DEF ServedUpToEnds
    <2>4. \A p \in ends : \E i \in served : log[i].pos = p
      BY <1>4, <1>10, <2>1, <2>2 DEF ServedUpToEnds
    <2>5. ASSUME NEW i \in served
          PROVE  \E p \in ends : PosLeq(log[i].pos, p)
      <3>1. CASE i \in lo .. hi
        <4>1. i \in 1 .. Len(log) /\ i <= hi
          BY <1>1, <2>2, <3>1
        <4>2. PosLeq(log[i].pos, end)
          BY <1>1, <1>4, <4>1, LogOrder
        <4>3. QED
          BY <1>10, <4>2
      <3>2. CASE i \in flow[c].served
        BY <1>10, <2>1, <3>2 DEF ServedUpToEnds
      <3>3. QED
        BY <1>10, <2>5, <3>1, <3>2
    <2>6. ASSUME NEW p \in ends, NEW i \in 1 .. Len(log), PosLeq(log[i].pos, p)
          PROVE  i \in served \/ i <= Dropped \/ log[i].pos \in ends
      <3>1. CASE i <= Dropped
        BY <3>1
      <3>2. CASE ~ (i <= Dropped)
        <4>1. i \in Dropped + 1 .. Len(log)
          BY <1>1, <3>2
        <4>2. EndsCover(c)' /\ Dropped' = Dropped
          BY <1>2, <1>6 DEF ServerInv, ConnInv, Dropped
        <4>3. ~ hist'.trace[c].timed /\ EndPositions(c)' = ends
              /\ hist'.trace[c].served = served
          BY <1>1, <1>6, <1>7, <1>10 DEF DeliveryInv, SessionIsMine
        <4>4. Covered(c, i)'
          BY <1>6, <2>6, <4>1, <4>2, <4>3 DEF EndsCover
        <4>5. QED
          BY <1>6, <4>3, <4>4 DEF Covered
      <3>3. QED
        BY <3>1, <3>2
    <2>7. Dropped' = Dropped
      BY <1>6 DEF Dropped
    <2>8. QED
      BY <1>6, <1>12, <1>13, <2>3, <2>4, <2>5, <2>6, <2>7 DEF ServedUpToEnds
  <1>18. CursorIsLast(c)'
    <2>1. ASSUME conn[c].last_ack_pos # None
          PROVE  PosLeq(conn[c].last_ack_pos, end)
      <3>1. hi \in lo .. hi
        BY <1>3 DEF IsServed
      <3>2. QED
        BY <1>3, <1>4, <1>6, <2>1, <3>1, ServedNowIsLater DEF PosLeq
    <2>2. QED
      BY <1>5, <1>6, <2>1 DEF CursorIsLast
  <1>19. AckedIsPast(c)'
    BY <1>3, <1>6, <1>15, ServedNowIsLater DEF AckedIsPast
  <1>20. AckMeansLoss(c)'
    BY <1>9 DEF AckMeansLoss
  <1>21. \A d \in Readers : d # c => Elsewhere(d)
    BY <1>6 DEF Elsewhere
  <1>22. LogMoves
    BY <1>1, <1>6, LogStays
  <1>23. DeliveryInv(c)'
    BY <1>15, <1>16, <1>17, <1>18, <1>19, <1>20 DEF DeliveryInv
  <1>24. QED
    BY <1>2, <1>9, <1>12, <1>13, <1>14, <1>21, <1>22, <1>23, ServerStepOfOne

LEMMA AnswerGetKeeps ==
    ASSUME IdsDisjoint, StartIsFirst, ClientInv, NEW c \in Readers, AnswerGet(c)
    PROVE  ClientInv'
  BY BatchOfClient, TimeoutOfClient, StillWaiting DEF AnswerGet

-----------------------------------------------------------------------------
(* The invariant of the specification.                                     *)

LEMMA AllElsewhere ==
    ASSUME ClientInv, ServerInv', LogMoves, UNCHANGED clientVars,
           \A d \in Readers : Elsewhere(d)
    PROVE  ClientInv'
  <1>1. UNCHANGED <<client, wire, flow>>
    BY DEF clientVars
  <1>2. \A d \in Readers : SameSide(d)
    BY <1>1 DEF SameSide
  <1>3. \A d \in Readers : /\ Len(client'[d].channel) <= ChannelSize
                           /\ Conversation(d)' /\ DeliveryInv(d)'
    BY <1>2, ElsewhereKeeps
  <1>4. QED
    BY <1>1, <1>3 DEF ClientInv

(* The sink appends.                                                       *)
LEMMA FeedKeepsClients ==
    ASSUME ClientInv, Feed, UNCHANGED clientVars
    PROVE  ClientInv'
  <1>1. ServerInv /\ Put /\ UNCHANGED <<conn, sessions, phase, hist>>
    BY DEF Feed, serverVars, ClientInv
  <1>2. ServerInv'
    BY <1>1, FeedKeeps
  <1>3. LogMoves /\ \A d \in Readers : call'[d].pc = call[d].pc
    BY <1>1, PutPositions DEF LogMoves
  <1>4. \A d \in Readers : Elsewhere(d)
    BY <1>1, <1>3 DEF Elsewhere
  <1>5. QED
    BY <1>2, <1>3, <1>4, AllElsewhere

LEMMA ServeKeepsClients ==
    ASSUME ClientInv, Serve, UNCHANGED clientVars
    PROVE  ClientInv'
  <1>1. ServerInv /\ UNCHANGED <<conn, sessions, hist, buffer, log, call>>
    BY DEF Serve, SetRunning, ClientInv
  <1>2. ServerInv' /\ LogMoves
    BY <1>1, PhaseKeeps, LogStays
  <1>3. \A d \in Readers : Elsewhere(d)
    BY <1>1 DEF Elsewhere
  <1>4. QED
    BY <1>2, <1>3, AllElsewhere

LEMMA ClientStutter ==
    ASSUME ClientInv, UNCHANGED allVars
    PROVE  ClientInv'
  <1>1. ServerInv /\ UNCHANGED vars /\ UNCHANGED clientVars
        /\ UNCHANGED <<conn, sessions, hist, buffer, log, call>>
    BY DEF allVars, vars, serverVars, storeVars, ClientInv
  <1>2. ServerInv' /\ LogMoves
    BY <1>1, ServerStutter, LogStays
  <1>3. \A d \in Readers : Elsewhere(d)
    BY <1>1 DEF Elsewhere
  <1>4. QED
    BY <1>1, <1>2, <1>3, AllElsewhere

LEMMA ClientStarts == ASSUME ClientInit PROVE ClientInv
  <1>1. /\ Init /\ client \in [Readers -> {NewSubscriber(b) : b \in BOOLEAN}]
        /\ wire = [c \in Readers |-> [up |-> <<>>, down |-> <<>>]]
        /\ flow = [c \in Readers |-> [served |-> {}, ends |-> {}, received |-> <<>>]]
        /\ conn = [c \in Readers |-> NewClient]
        /\ hist.trace = [c \in Readers |-> NewTrace]
        /\ call = [c \in Readers |-> Idle]
    BY DEF ClientInit, Init, StoreInit
  <1>2. ServerInv
    BY <1>1, ServerInit
  <1>3. ASSUME NEW c \in Readers
        PROVE  /\ client[c] \in Library /\ wire[c] \in Socket /\ flow[c] \in Flow
               /\ Len(client[c].channel) <= ChannelSize
               /\ Conversation(c) /\ DeliveryInv(c)
    <2>1. PICK b \in BOOLEAN : client[c] = NewSubscriber(b)
      BY <1>1
    <2>2. /\ client[c].pc = "new" /\ client[c].stream = "none"
          /\ client[c].batch = <<>> /\ client[c].channel = <<>>
      BY <2>1 DEF NewSubscriber
    <2>3. wire[c].up = <<>> /\ wire[c].down = <<>> /\ flow[c] = NewFlow
          /\ wire[c] = [up |-> <<>>, down |-> <<>>]
      BY <1>1 DEF NewFlow
    <2>4. <<>> \in Seq(Nat) /\ <<>> \in Seq(UpPacket) /\ <<>> \in Seq(DownPacket)
          /\ Len(<<>>) = 0
      OBVIOUS
    <2>5. client[c] \in Library
      BY <2>1, <2>4, SetupAndPoll DEF NewSubscriber, Library
    <2>6. wire[c] \in Socket /\ flow[c] \in Flow
      BY <2>3, <2>4 DEF Socket, Flow, NewFlow
    <2>7. Len(client[c].channel) <= ChannelSize
      BY <2>2, <2>4, ClientAssumption
    <2>8. Conversation(c)
      <3>1. Quiet(c)
        BY <1>1, <2>3 DEF Quiet, Line, Idle
      <3>2. InSetup(c)
        BY <2>2, <2>3, <3>1 DEF InSetup, Setup
      <3>3. QED
        BY <2>2, <3>2, SetupAndPoll DEF Conversation
    <2>9. /\ conn[c] = NewClient /\ hist.trace[c] = NewTrace
          /\ flow[c].served = {} /\ flow[c].ends = {} /\ flow[c].received = <<>>
      BY <1>1, <2>3 DEF NewFlow
    <2>10. SessionIsMine(c) /\ CursorIsLast(c) /\ AckedIsPast(c) /\ AckMeansLoss(c)
      BY <2>2, <2>9, SetupAndPoll DEF SessionIsMine, CursorIsLast, AckedIsPast, AckMeansLoss,
                                      NewClient, NewTrace
    <2>11. ServedUpToEnds(c)
      BY <2>9 DEF ServedUpToEnds
    <2>12. OnTheWay(c)
      <3>1. Coming(c) = <<>>
        BY <2>2, <2>3 DEF Coming, RowsInWire, Incoming
      <3>2. ToCome(c) = {} /\ Got(c) = {} /\ InChannel(c) = {} /\ ServedToClient(c) = {}
        BY <2>2, <2>9, <3>1, NoRows DEF ToCome, Got, InChannel, ServedToClient
      <3>3. NothingLost(c)
        BY <2>2, <2>9, <3>1, <3>2, NoRows DEF NothingLost, AllBelow
      <3>4. QED
        BY <3>2, <3>3 DEF OnTheWay
    <2>13. QED
      BY <2>5, <2>6, <2>7, <2>8, <2>10, <2>11, <2>12 DEF DeliveryInv
  <1>4. /\ client \in [Readers -> Library] /\ wire \in [Readers -> Socket]
        /\ flow \in [Readers -> Flow]
    BY <1>1, <1>3
  <1>5. QED
    BY <1>2, <1>3, <1>4 DEF ClientInv

LEMMA ClientStep ==
    ASSUME IdsDisjoint, StartIsFirst, ClientInv, [ClientNext]_allVars
    PROVE  ClientInv'
  <1>1. CASE UNCHANGED allVars
    BY <1>1, ClientStutter
  <1>2. CASE (Feed \/ Serve) /\ UNCHANGED clientVars
    BY <1>2, FeedKeepsClients, ServeKeepsClients
  <1>3. ASSUME NEW c \in Readers, Connect(c) \/ Connected(c) \/ Subscribe(c) \/ Subscribed(c)
        PROVE  ClientInv'
    BY <1>3, ConnectKeeps, ConnectedKeeps, SubscribeKeeps, SubscribedKeeps
  <1>4. ASSUME NEW c \in Readers, PollStep(c)
        PROVE  ClientInv'
    BY <1>4, SendGetKeeps, ReadMessagesKeeps, TerminalAckKeeps, ForwardKeeps, SendAckKeeps
       DEF PollStep
  <1>5. ASSUME NEW c \in Readers,
               ConnectionLost(c) \/ NextEvent(c) \/ NextNone(c) \/ DropStream(c) \/ Aborted(c)
        PROVE  ClientInv'
    BY <1>5, ConnectionLostKeeps, NextEventKeeps, NextNoneKeeps, DropStreamKeeps, AbortedKeeps
  <1>6. ASSUME NEW c \in Readers, ServerStep(c) \/ ServerEnds(c)
        PROVE  ClientInv'
    BY <1>6, HandleAuthKeeps, HandleSubKeeps, HandleGetKeeps, HandleClientAckKeeps,
       AnswerGetKeeps, ServerEndsKeeps DEF ServerStep
  <1>7. QED
    BY <1>1, <1>2, <1>3, <1>4, <1>5, <1>6 DEF ClientNext

(* The session, the conversation on the wire and what is on its way of     *)
(* every client (lib.rs:52-246, server.rs:389-540), under both fairness    *)
(* and none.                                                               *)
THEOREM ClientInvariant ==
    ASSUME IdsDisjoint, StartIsFirst
    PROVE  ClientSpec => []ClientInv
  <1>1. ClientInit => ClientInv
    BY ClientStarts
  <1>2. ClientInv /\ [ClientNext]_allVars => ClientInv'
    BY ClientStep
  <1>3. QED
    BY <1>1, <1>2, PTL DEF ClientSpec

(* At most one packet is on its way to a client: the conversation is that  *)
(* of one request at a time (lib.rs:127-205).                              *)
THEOREM ClientTypeCorrect ==
    ASSUME IdsDisjoint, StartIsFirst
    PROVE  ClientSpec => []ClientTypeOK
  <1>1. ASSUME ClientInv, NEW c \in Readers
        PROVE  Len(wire[c].down) <= 1
    <2>1. Setup(c) \/ Polling(c)
      BY <1>1, ClientTyped DEF Library, Conversation, InSetup, InLoop
    <2>2. CASE wire[c].down = <<>>
      BY <2>2, NoPacket
    <2>3. CASE wire[c].down # <<>>
      <3>1. \E x : wire[c].down = <<x>>
        BY <2>1, <2>3, DownAlone DEF AckComes, RowsCome, Line
      <3>2. QED
        BY <3>1, OnePacket
    <2>4. QED
      BY <2>2, <2>3
  <1>2. ASSUME ClientInv, NEW c \in Readers
        PROVE  /\ client[c].pc \in {"new", "auth", "connected", "sub", "get", "answer",
                                    "forward", "done"}
               /\ client[c].stream \in {"none", "open", "ended"}
               /\ client[c].batch \in Seq(Nat)
               /\ client[c].channel \in Seq(Nat) /\ Len(client[c].channel) <= ChannelSize
    <2>1. client[c] \in Library /\ Len(client[c].channel) <= ChannelSize
      BY <1>2, ClientTyped DEF ClientInv
    <2>2. QED
      BY <2>1 DEF Library, SetupPcs, PollPcs
  <1>3. ClientInv => ClientTypeOK
    BY <1>1, <1>2 DEF ClientTypeOK
  <1>4. QED
    BY <1>3, ClientInvariant, PTL

-----------------------------------------------------------------------------
(* The properties of the stream.                                           *)

(* ClientAck follows the hand-over of the whole batch (lib.rs:165-198): a  *)
(* row the server counts as acknowledged is with the consumer or in its    *)
(* channel, for what is still to come lies after the acknowledgement.      *)
THEOREM AckedIsForwarded ==
    ASSUME IdsDisjoint, StartIsFirst
    PROVE  ClientSpec => []AckedWasForwarded
  <1>1. ASSUME ClientInv, NEW c \in Readers, conn[c].open, client[c].stream = "open",
               conn[c].last_ack_pos # None, NEW i \in flow[c].served,
               log[i].table \in FilterOf[c], PosLeq(log[i].pos, conn[c].last_ack_pos)
        PROVE  i \in Got(c) \cup InChannel(c)
    <2>1. ServerInv /\ StoreInv /\ DeliveryInv(c) /\ conn[c] \in ClientState
      BY <1>1, ClientTyped DEF ServerInv
    <2>2. i \in Got(c) \cup InChannel(c) \cup ToCome(c)
      <3>1. NothingLost(c)
        BY <1>1, <2>1 DEF DeliveryInv, OnTheWay
      <3>2. i \in ServedToClient(c)
        BY <1>1 DEF ServedToClient
      <3>3. QED
        BY <3>1, <3>2 DEF NothingLost
    <2>3. i \notin ToCome(c)
      <3>1. i \in 1 .. Len(log)
        BY <2>1 DEF DeliveryInv, ServedUpToEnds
      <3>2. log[i].pos \in Position /\ conn[c].last_ack_pos \in Position
        BY <1>1, <2>1, <3>1, LogOrder DEF ClientState, OptPos
      <3>3. ~ PosLess(conn[c].last_ack_pos, log[i].pos)
        BY <1>1, <3>2, LeqOrder
      <3>4. QED
        BY <1>1, <2>1, <3>3 DEF DeliveryInv, AckedIsPast
    <2>4. QED
      BY <2>2, <2>3
  <1>2. ClientInv => AckedWasForwarded
    BY <1>1 DEF AckedWasForwarded, Got, InChannel
  <1>3. QED
    BY <1>2, ClientInvariant, PTL

(* The poll loop may take an Ack for the end of the stream                 *)
(* (lib.rs:202-205): the server sends one in place of Messages only when a *)
(* row is gone that the client was never sent.                             *)
THEOREM EndMeansLoss ==
    ASSUME IdsDisjoint, StartIsFirst
    PROVE  ClientSpec => EndedOnlyByLoss
  <1>1. ASSUME ClientInv, NEW c \in Readers, TerminalAck(c)
        PROVE  \E i \in 1 .. Dropped : i \notin flow[c].served
    <2>1. DeliveryInv(c)
      BY <1>1, ClientTyped
    <2>2. client[c].pc \in PollPcs /\ Incoming(c, "Ack")
      BY <1>1 DEF TerminalAck, At, PollPcs
    <2>3. QED
      BY <2>1, <2>2 DEF DeliveryInv, AckMeansLoss
  <1>2. ClientInv =>
          \A c \in Readers : TerminalAck(c) => \E i \in 1 .. Dropped : i \notin flow[c].served
    BY <1>1
  <1>3. QED
    BY <1>2, ClientInvariant, PTL DEF EndedOnlyByLoss, ClientSpec

-----------------------------------------------------------------------------
(* The stream that EventStream promises, but for its progress.             *)

StreamSafety == Stream!Init /\ [][Stream!Next]_(Stream!vars)

Excuses == [c \in Readers |-> Excused(c)]

Streams == [c \in Readers |-> flow[c].received]

Statuses == [c \in Readers |-> client[c].stream]

(* The consumer never got a row it is excused from.                        *)
NoneExcused == \A c \in Readers : Excused(c) \cap Got(c) = {}

LEMMA ServedNotExcused ==
    ASSUME NEW c \in Readers, NEW i \in ServedToClient(c)
    PROVE  i \notin Excused(c)
  BY DEF ServedToClient, Excused

LEMMA GotIsNotExcused == ASSUME ClientInv PROVE NoneExcused
  <1>1. ASSUME NEW c \in Readers, NEW i \in Got(c)
        PROVE  i \notin Excused(c)
    <2>1. i \in ServedToClient(c)
      BY <1>1, ClientTyped DEF DeliveryInv, OnTheWay
    <2>2. QED
      BY <2>1, ServedNotExcused
  <1>2. QED
    BY <1>1 DEF NoneExcused

(* A step that leaves the log, the buffer, what was served and what was    *)
(* received alone.                                                         *)
LEMMA StreamStutters ==
    ASSUME UNCHANGED <<log, buffer, flow>>,
           \A c \in Readers : client'[c].stream = client[c].stream
    PROVE  UNCHANGED Stream!vars
  <1>1. Len(log)' = Len(log) /\ Streams' = Streams /\ Statuses' = Statuses
    BY DEF Streams, Statuses
  <1>2. \A c \in Readers : Excused(c)' = Excused(c)
    BY DEF Excused, Dropped
  <1>3. Excuses' = Excuses
    BY <1>2 DEF Excuses
  <1>4. QED
    BY <1>1, <1>3 DEF Stream!vars, Excuses, Streams, Statuses

(* The start and the end of a stream.                                      *)
LEMMA StatusMoves ==
    ASSUME ClientInv, NEW c \in Readers, UNCHANGED <<log, buffer, flow>>,
           NEW status, client'[c].stream = status,
           \A d \in Readers : d # c => client'[d].stream = client[d].stream,
           \/ client[c].stream = "none" /\ status = "open"
           \/ client[c].stream = "open" /\ status = "ended"
    PROVE  Stream!Next
  <1>1. Len(log)' = Len(log) /\ Streams' = Streams
    BY DEF Streams
  <1>2. \A d \in Readers : Excused(d)' = Excused(d)
    BY DEF Excused, Dropped
  <1>3. Excuses' = Excuses
    BY <1>2 DEF Excuses
  <1>4. Statuses' = [Statuses EXCEPT ![c] = status]
    BY DEF Statuses
  <1>5. Statuses[c] = client[c].stream
    BY DEF Statuses
  <1>6. Stream!Start(c) \/ Stream!End(c)
    BY <1>1, <1>3, <1>4, <1>5 DEF Stream!Start, Stream!End, Excuses, Streams, Statuses
  <1>7. QED
    BY <1>6 DEF Stream!Next

(* The log moves on, or a batch is served.                                 *)
LEMMA LogMovesOn ==
    ASSUME NoneExcused', UNCHANGED client, Len(log) \in Nat, Len(log') \in Nat,
           Len(log) <= Len(log'),
           \A c \in Readers : /\ flow'[c].received = flow[c].received
                              /\ Excused(c) \subseteq Excused(c)'
    PROVE  Stream!Next
  <1>1. Streams' = Streams /\ Statuses' = Statuses
    BY DEF Streams, Statuses
  <1>2. \A c \in Readers : Excuses[c] = Excused(c) /\ Excuses'[c] = Excused(c)'
    BY DEF Excuses
  <1>3. \A c \in Readers : Excused(c)' \cap ToSet(flow[c].received) = {}
    BY DEF NoneExcused, Got
  <1>4. \A c \in Readers : Streams[c] = flow[c].received
    BY DEF Streams
  <1>5. \A c \in Readers : Stream!ToSet(Streams[c]) = ToSet(flow[c].received)
    BY <1>4 DEF ToSet, Stream!ToSet
  <1>6. Stream!Publish
    BY <1>1, <1>2, <1>3, <1>5 DEF Stream!Publish, Excuses, Streams, Statuses
  <1>7. QED
    BY <1>6 DEF Stream!Next

LEMMA FeedPublishes ==
    ASSUME ClientInv, NoneExcused', Feed, UNCHANGED clientVars
    PROVE  Stream!Next
  <1>1. ServerInv /\ Put /\ UNCHANGED client /\ UNCHANGED flow
    BY DEF Feed, clientVars, ClientInv
  <1>2. LogExtends /\ Dropped \in Nat /\ Dropped' \in Nat /\ Dropped <= Dropped'
    BY <1>1, PutPositions
  <1>3. ASSUME NEW c \in Readers, NEW i \in Excused(c)
        PROVE  i \in Excused(c)'
    <2>1. /\ i \in 1 .. Len(log)
          /\ \/ log[i].table \notin FilterOf[c]
             \/ i \notin flow[c].served /\ (i <= Dropped \/ log[i].pos \in flow[c].ends)
      BY <1>3 DEF Excused
    <2>2. i \in 1 .. Len(log') /\ log'[i] = log[i] /\ (i <= Dropped => i <= Dropped')
      BY <1>2, <2>1 DEF LogExtends
    <2>3. QED
      BY <1>1, <2>1, <2>2 DEF Excused
  <1>4. \A c \in Readers : flow'[c].received = flow[c].received
    BY <1>1
  <1>5. QED
    BY <1>1, <1>2, <1>3, <1>4, LogMovesOn DEF LogExtends

(* A batch may be served past rows that are gone, or that lie where an     *)
(* earlier batch had ended, but it has none of them.                       *)
LEMMA DeliveryPublishes ==
    ASSUME ClientInv, NoneExcused', NEW c \in Readers, Deliver(c), UNCHANGED client,
           LET events == reply'[c].events
           IN  flow' = [flow EXCEPT ![c].served = @ \cup Rows(events),
                                    ![c].ends = @ \cup {EndOf(events)}]
    PROVE  Stream!Next
  <1>1. /\ ServerInv /\ StoreInv /\ DeliveryInv(c)
        /\ flow \in [Readers -> Flow] /\ flow[c] \in Flow
        /\ Len(log) \in Nat /\ Dropped \in Nat
    BY ClientTyped DEF ServerInv
  <1>2. PICK lo \in 1 .. Len(log), hi \in 1 .. Len(log) : IsServed(c, lo, hi)
    BY <1>1, ServedPlaces DEF Deliver
  <1>3. UNCHANGED <<buffer, log>> /\ call[c].pc # "idle"
    BY <1>1, <1>2, DeliveryChanges
  <1>4. PICK served, ends : /\ served = flow[c].served \cup (lo .. hi)
                            /\ ends = flow[c].ends \cup {log[hi].pos}
    OBVIOUS
  <1>5. flow' = [flow EXCEPT ![c].served = served, ![c].ends = ends]
    BY <1>1, <1>2, <1>4 DEF Flow, IsServed
  <1>6. /\ flow'[c].served = served /\ flow'[c].ends = ends
        /\ flow'[c].received = flow[c].received
        /\ \A d \in Readers : d # c => flow'[d] = flow[d]
    BY <1>1, <1>5 DEF Flow
  <1>7. ASSUME NEW i \in Excused(c)
        PROVE  i \in Excused(c)'
    <2>1. /\ i \in 1 .. Len(log)
          /\ \/ log[i].table \notin FilterOf[c]
             \/ i \notin flow[c].served /\ (i <= Dropped \/ log[i].pos \in flow[c].ends)
      BY DEF Excused
    <2>2. ASSUME i \notin flow[c].served, i <= Dropped \/ log[i].pos \in flow[c].ends
          PROVE  i \notin served /\ (i <= Dropped \/ log[i].pos \in ends)
      <3>1. CASE i <= Dropped
        <4>1. i \notin lo .. hi
          BY <1>1, <1>2, <2>1, <3>1 DEF IsServed
        <4>2. QED
          BY <1>4, <2>2, <3>1, <4>1
      <3>2. CASE log[i].pos \in flow[c].ends
        <4>1. PICK j \in flow[c].served : log[j].pos = log[i].pos
          BY <1>1, <3>2 DEF DeliveryInv, ServedUpToEnds
        <4>2. i \notin lo .. hi
          BY <1>2, <1>3, <4>1, ServedNowIsLater
        <4>3. QED
          BY <1>4, <2>2, <3>2, <4>2
      <3>3. QED
        BY <2>2, <3>1, <3>2
    <2>3. Dropped' = Dropped /\ log' = log
      BY <1>3 DEF Dropped
    <2>4. QED
      BY <1>6, <2>1, <2>2, <2>3 DEF Excused
  <1>8. ASSUME NEW d \in Readers, d # c
        PROVE  Excused(d)' = Excused(d)
    BY <1>3, <1>6, <1>8 DEF Excused, Dropped
  <1>9. ASSUME NEW d \in Readers
        PROVE  flow'[d].received = flow[d].received /\ Excused(d) \subseteq Excused(d)'
    BY <1>6, <1>7, <1>8
  <1>10. Len(log') = Len(log)
    BY <1>3
  <1>11. QED
    BY <1>1, <1>9, <1>10, LogMovesOn

(* The head of the channel is the first row that is due.                   *)
LEMMA HeadIsDue ==
    ASSUME ClientInv, NEW c \in Readers, client[c].stream = "open",
           client[c].channel # <<>>
    PROVE  /\ Head(client[c].channel) \in (1 .. Len(log)) \ (Excused(c) \cup Got(c))
           /\ \A x \in (1 .. Len(log)) \ (Excused(c) \cup Got(c)) :
                 Head(client[c].channel) <= x
  <1>1. /\ ServerInv /\ StoreInv /\ ServedUpToEnds(c) /\ NothingLost(c)
        /\ client[c].channel \in Seq(Nat) /\ Len(log) \in Nat
        /\ flow[c] \in Flow
    BY ClientTyped DEF ServerInv, DeliveryInv, OnTheWay
  <1>2. PICK h : h = Head(client[c].channel)
    OBVIOUS
  <1>3. /\ h \in Nat /\ h \in InChannel(c)
        /\ \A x \in InChannel(c) : x = h \/ h < x
    BY <1>1, <1>2, FirstRow DEF InChannel, NothingLost
  <1>4. /\ Got(c) \cup InChannel(c) \cup ToCome(c) = ServedToClient(c)
        /\ \A x \in Got(c), y \in InChannel(c) : x < y
        /\ \A x \in InChannel(c), y \in ToCome(c) : x < y
    BY <1>1 DEF NothingLost, AllBelow
  <1>5. h \in ServedToClient(c)
    BY <1>3, <1>4
  <1>6. h \in flow[c].served /\ h \in 1 .. Len(log)
    BY <1>1, <1>5 DEF ServedToClient, ServedUpToEnds
  <1>7. h \notin Excused(c)
    BY <1>5, ServedNotExcused
  <1>8. h \notin Got(c)
    <2>1. h \in Got(c) => h < h
      BY <1>3, <1>4
    <2>2. QED
      BY <1>3, <2>1
  <1>9. ASSUME NEW x \in 1 .. Len(log), x \notin Excused(c), x \notin Got(c), x < h
        PROVE  FALSE
    <2>1. /\ log[x].table \in FilterOf[c]
          /\ x \in flow[c].served \/ ~ (x <= Dropped \/ log[x].pos \in flow[c].ends)
      BY <1>9 DEF Excused
    <2>2. CASE x \in flow[c].served
      <3>1. x \in InChannel(c) \cup ToCome(c)
        BY <1>4, <1>9, <2>1, <2>2 DEF ServedToClient
      <3>2. h <= x
        BY <1>1, <1>3, <1>4, <1>9, <3>1
      <3>3. QED
        BY <1>3, <1>9, <3>2
    <2>3. CASE x \notin flow[c].served
      <3>1. PICK p \in flow[c].ends : PosLeq(log[h].pos, p)
        BY <1>1, <1>6 DEF ServedUpToEnds
      <3>2. /\ log[x].pos \in Position /\ log[h].pos \in Position /\ p \in Position
            /\ PosLeq(log[x].pos, log[h].pos)
        BY <1>1, <1>6, <1>9, <3>1, LogOrder DEF Flow
      <3>3. PosLeq(log[x].pos, p)
        BY <3>1, <3>2, LeqOrder
      <3>4. x \in flow[c].served \/ x <= Dropped \/ log[x].pos \in flow[c].ends
        BY <1>1, <3>1, <3>3 DEF ServedUpToEnds
      <3>5. QED
        BY <2>1, <2>3, <3>4
    <2>4. QED
      BY <2>2, <2>3
  <1>10. ASSUME NEW x \in (1 .. Len(log)) \ (Excused(c) \cup Got(c))
         PROVE  h <= x
    <2>1. x \in 1 .. Len(log) /\ x \in Nat /\ ~ (x < h)
      BY <1>1, <1>9, <1>10
    <2>2. QED
      BY <1>3, <2>1
  <1>11. QED
    BY <1>2, <1>6, <1>7, <1>8, <1>10

LEMMA NextEventReceives ==
    ASSUME ClientInv, NEW c \in Readers, NextEvent(c)
    PROVE  Stream!Next
  <1>1. /\ client \in [Readers -> Library] /\ client[c] \in Library
        /\ flow \in [Readers -> Flow] /\ flow[c] \in Flow
        /\ Len(log) \in Nat /\ log \in Seq(Event)
    BY ClientTyped
  <1>2. /\ client[c].stream = "open" /\ client[c].channel # <<>>
        /\ UNCHANGED <<log, buffer>>
    BY DEF NextEvent, vars, storeVars
  <1>3. PICK h, received, channel :
           /\ h = Head(client[c].channel) /\ received = Append(flow[c].received, h)
           /\ channel = Tail(client[c].channel)
    OBVIOUS
  <1>4. /\ client' = [client EXCEPT ![c].channel = channel]
        /\ flow' = [flow EXCEPT ![c].received = received]
    BY <1>1, <1>3 DEF NextEvent, Library, Flow
  <1>5. \A d \in Readers : client'[d].stream = client[d].stream
    BY <1>1, <1>4 DEF Library
  <1>6. /\ flow'[c].received = received
        /\ \A d \in Readers : d # c => flow'[d].received = flow[d].received
        /\ \A d \in Readers : flow'[d].served = flow[d].served /\ flow'[d].ends = flow[d].ends
    BY <1>1, <1>4 DEF Flow
  <1>7. Len(log)' = Len(log) /\ Statuses' = Statuses
    BY <1>2, <1>5 DEF Statuses
  <1>8. \A d \in Readers : Excused(d)' = Excused(d)
    BY <1>2, <1>6 DEF Excused, Dropped
  <1>9. Excuses' = Excuses
    BY <1>8 DEF Excuses
  <1>10. Streams' = [Streams EXCEPT ![c] = received]
    BY <1>6 DEF Streams
  <1>11. Streams[c] = flow[c].received /\ Statuses[c] = "open" /\ Excuses[c] = Excused(c)
    BY <1>2 DEF Streams, Statuses, Excuses
  <1>12. PICK D : D = (1 .. Len(log)) \ (Excused(c) \cup Got(c))
    OBVIOUS
  <1>13. h \in D /\ \A x \in D : h <= x
    BY <1>2, <1>3, <1>12, HeadIsDue
  <1>14. Stream!Due(c) = D
    BY <1>11, <1>12 DEF Stream!Due, Excuses, Streams, Got, ToSet, Stream!ToSet
  <1>15. Stream!Min(D) = h
    <2>1. \A x \in D : x \in Nat
      BY <1>1, <1>12
    <2>2. \A x \in D : (\A y \in D : x <= y) => x = h
      BY <1>13, <2>1
    <2>3. QED
      BY <1>13, <2>2 DEF Stream!Min
  <1>16. Stream!Receive(c)
    BY <1>3, <1>7, <1>9, <1>10, <1>11, <1>13, <1>14, <1>15
       DEF Stream!Receive, Excuses, Streams, Statuses
  <1>17. QED
    BY <1>16 DEF Stream!Next

(* The steps of the poll loop and the handlers that only move requests.    *)
LEMMA PollStutters ==
    ASSUME ClientInv, NEW c \in Readers,
           \/ Connect(c) \/ Connected(c) \/ Subscribe(c) \/ PollStep(c)
           \/ ConnectionLost(c) \/ Aborted(c)
    PROVE  UNCHANGED Stream!vars
  <1>1. client \in [Readers -> Library] /\ client[c] \in Library
    BY ClientTyped
  <1>2. UNCHANGED <<log, buffer, flow>>
    BY DEF Connect, Accept, Connected, Subscribe, PollStep, SendGet, ReadMessages,
           TakeMessages, TerminalAck, Forward, SendAck, ConnectionLost, Aborted,
           vars, storeVars
  <1>3. ASSUME NEW pc, Goto(c, pc), NEW d \in Readers
        PROVE  client'[d].stream = client[d].stream
    BY <1>1, <1>3 DEF Goto, Library
  <1>4. ASSUME TakeMessages(c), NEW d \in Readers
        PROVE  client'[d].stream = client[d].stream
    BY <1>1, <1>4 DEF TakeMessages, Library
  <1>5. ASSUME Enqueue(c), NEW d \in Readers
        PROVE  client'[d].stream = client[d].stream
    BY <1>1, <1>5 DEF Enqueue, Library
  <1>6. \/ \E pc : Goto(c, pc)
        \/ TakeMessages(c)
        \/ Enqueue(c)
    BY DEF Connect, Connected, Subscribe, PollStep, SendGet, ReadMessages, TerminalAck,
           Forward, SendAck, ConnectionLost, Aborted
  <1>7. \A d \in Readers : client'[d].stream = client[d].stream
    BY <1>3, <1>4, <1>5, <1>6
  <1>8. QED
    BY <1>2, <1>7, StreamStutters

LEMMA HandlersStutter ==
    ASSUME NEW c \in Readers,
           \/ HandleAuth(c) \/ HandleSub(c) \/ HandleGet(c) \/ HandleClientAck(c)
           \/ ServerEnds(c)
    PROVE  UNCHANGED Stream!vars
  <1>1. UNCHANGED <<client, flow>>
    BY DEF HandleAuth, HandleSub, HandleGet, HandleClientAck, ServerEnds
  <1>2. CASE HandleAuth(c) \/ HandleSub(c)
    BY <1>1, <1>2, StreamStutters
       DEF HandleAuth, HandleSub, Auth, AuthFailed, Sub, storeVars
  <1>3. CASE HandleGet(c)
    BY <1>1, <1>3, StreamStutters DEF HandleGet, Get, GetBatch, GetLost, Refused, storeVars
  <1>4. CASE HandleClientAck(c)
    BY <1>1, <1>4, StreamStutters DEF HandleClientAck, ClientAck, storeVars
  <1>5. CASE ServerEnds(c)
    BY <1>1, <1>5, StreamStutters DEF ServerEnds, Close, ErrorExit, storeVars
  <1>6. QED
    BY <1>2, <1>3, <1>4, <1>5

LEMMA AnswerPublishes ==
    ASSUME ClientInv, NoneExcused', NEW c \in Readers, AnswerGet(c)
    PROVE  [Stream!Next]_(Stream!vars)
  <1>1. UNCHANGED client
    BY DEF AnswerGet
  <1>2. CASE Deliver(c) /\ LET events == reply'[c].events
                           IN  flow' = [flow EXCEPT ![c].served = @ \cup Rows(events),
                                                    ![c].ends = @ \cup {EndOf(events)}]
    BY <1>1, <1>2, DeliveryPublishes
  <1>3. CASE /\ UNCHANGED flow
             /\ GetMiss(c) \/ GetWait(c) \/ GetWoken(c) \/ GetTimeout(c)
    <2>1. UNCHANGED <<log, buffer, flow>>
      BY <1>3 DEF GetMiss, GetWait, GetWoken, GetTimeout
    <2>2. QED
      BY <1>1, <2>1, StreamStutters
  <1>4. QED
    BY <1>2, <1>3 DEF AnswerGet

LEMMA StreamStep ==
    ASSUME ClientInv, NoneExcused', [ClientNext]_allVars
    PROVE  [Stream!Next]_(Stream!vars)
  <1>1. CASE UNCHANGED allVars
    BY <1>1, StreamStutters DEF allVars, vars, storeVars, clientVars
  <1>2. CASE Feed /\ UNCHANGED clientVars
    BY <1>2, FeedPublishes
  <1>3. CASE Serve /\ UNCHANGED clientVars
    BY <1>3, StreamStutters DEF Serve, SetRunning, clientVars
  <1>4. ASSUME NEW c \in Readers,
               \/ Connect(c) \/ Connected(c) \/ Subscribe(c) \/ PollStep(c)
               \/ ConnectionLost(c) \/ Aborted(c)
        PROVE  UNCHANGED Stream!vars
    BY <1>4, PollStutters
  <1>5. ASSUME NEW c \in Readers, Subscribed(c) \/ NextNone(c) \/ DropStream(c)
        PROVE  Stream!Next
    <2>1. /\ client \in [Readers -> Library] /\ client[c] \in Library
          /\ UNCHANGED <<log, buffer, flow>>
      BY <1>5, ClientTyped DEF Subscribed, NextNone, DropStream, vars, storeVars
    <2>2. CASE Subscribed(c)
      <3>1. client[c].stream = "none"
        BY <2>2, ClientTyped DEF Subscribed, At, Conversation, InSetup, SetupPcs
      <3>2. /\ client'[c].stream = "open"
            /\ \A d \in Readers : d # c => client'[d].stream = client[d].stream
        BY <2>1, <2>2 DEF Subscribed, Library
      <3>3. QED
        BY <2>1, <3>1, <3>2, StatusMoves
    <2>3. CASE NextNone(c) \/ DropStream(c)
      <3>1. /\ client[c].stream = "open" /\ client'[c].stream = "ended"
            /\ \A d \in Readers : d # c => client'[d].stream = client[d].stream
        BY <2>1, <2>3 DEF NextNone, DropStream, Library
      <3>2. QED
        BY <2>1, <3>1, StatusMoves
    <2>4. QED
      BY <1>5, <2>2, <2>3
  <1>6. ASSUME NEW c \in Readers, NextEvent(c)
        PROVE  Stream!Next
    BY <1>6, NextEventReceives
  <1>7. ASSUME NEW c \in Readers, ServerStep(c) \/ ServerEnds(c)
        PROVE  [Stream!Next]_(Stream!vars)
    BY <1>7, HandlersStutter, AnswerPublishes DEF ServerStep
  <1>8. QED
    BY <1>1, <1>2, <1>3, <1>4, <1>5, <1>6, <1>7 DEF ClientNext

(* Server, wire and client give every consumer the stream that EventStream *)
(* promises, but for its progress (lib.rs:124-246, server.rs:389-540): the *)
(* rows in binlog order, each once, each the next that is due, so that no  *)
(* row is passed over but an excused one.                                  *)
THEOREM StreamIsSafe ==
    ASSUME IdsDisjoint, StartIsFirst
    PROVE  ClientSpec => StreamSafety
  <1>1. ClientInit => Stream!Init
    <2>1. SUFFICES ASSUME ClientInit PROVE Stream!Init
      OBVIOUS
    <2>2. /\ log = <<>> /\ \A c \in Readers : /\ flow[c].received = <<>>
                                              /\ client[c].stream = "none"
      BY <2>1 DEF ClientInit, Init, StoreInit, NewSubscriber
    <2>3. Len(log) = 0 /\ 1 .. 0 = {}
      BY <2>2
    <2>4. \A c \in Readers : Excused(c) = {}
      BY <2>3 DEF Excused
    <2>5. QED
      BY <2>2, <2>3, <2>4 DEF Stream!Init
  <1>2. ClientInv => NoneExcused
    BY GotIsNotExcused
  <1>3. ClientInv /\ NoneExcused' /\ [ClientNext]_allVars => [Stream!Next]_(Stream!vars)
    BY StreamStep
  <1>4. QED
    BY <1>1, <1>2, <1>3, ClientInvariant, PTL DEF ClientSpec, StreamSafety
=============================================================================
