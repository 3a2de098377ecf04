------------------------- MODULE SinkDispatchProofs -------------------------
(***************************************************************************)
(* Proofs about SinkDispatch, for every number of callers, connectors,     *)
(* permits and batches: types, that no connector is given the batches of a *)
(* caller out of order or a message twice, and that the metrics count what *)
(* was confirmed.                                                          *)
(***************************************************************************)
EXTENDS SinkDispatch, SequenceTheorems, FiniteSetTheorems, TLAPS

-----------------------------------------------------------------------------
(* Types.                                                                  *)

Batch == [by : Callers, size : Nat]

WorkState == [batch : Nat, with : Nat, sending : BOOLEAN, sent : Nat,
              flying : SUBSET Nat, failed : BOOLEAN]

Worker == [queue : Seq(Nat), work : WorkState]

Message == Nat \X Nat   \* a batch and the message's place in it

Metrics == [parsed : Nat, filtered : Nat, dispatched : Nat, dispatch_errors : Nat]

(* What the only worker has before it, and what it is at.                  *)
QueueOf(ws) == IF ws = <<>> THEN <<>> ELSE ws[1].queue

WorkOf(ws) == IF ws = <<>> THEN Resting ELSE ws[1].work

-----------------------------------------------------------------------------
(* The inductive invariant: the batches of a caller pass from the caller   *)
(* to the queue, to the worker and to a connector's topic in one line.     *)

(* Of one caller, the batch a was stored before the batch b.               *)
Precedes(st, a, b) == st[a].by = st[b].by => a < b

QueueOK(st, q) ==
    /\ \A i \in 1 .. Len(q) : q[i] \in 1 .. Len(st)
    /\ \A i, j \in 1 .. Len(q) : i < j => Precedes(st, q[i], q[j])

WorkOK(st, q, k) ==
    /\ k.with <= Connectors
    /\ k.flying \subseteq 1 .. k.sent
    /\ IsFiniteSet(k.flying) /\ Cardinality(k.flying) <= MaxInFlight
    /\ k.batch # 0 => /\ k.batch \in 1 .. Len(st)
                      /\ k.with \in 1 .. Connectors
                      /\ \A i \in 1 .. Len(q) : Precedes(st, k.batch, q[i])

(* A message of connector c: it belongs to a batch that is done with, or   *)
(* the worker is at its batch and has had the answer to it.                *)
MessageOK(st, q, k, c, m) ==
    /\ m[1] \in 1 .. Len(st)
    /\ \A i \in 1 .. Len(q) : Precedes(st, m[1], q[i])
    /\ k.batch # 0 => \/ Precedes(st, m[1], k.batch)
                      \/ m[1] = k.batch /\ c < k.with
                      \/ m[1] = k.batch /\ c = k.with /\ m[2] \in (1 .. k.sent) \ k.flying

TopicOK(st, q, k, tp) ==
    \A c \in 1 .. Connectors : \A i \in 1 .. Len(tp[c]) : MessageOK(st, q, k, c, tp[c][i])

(* A batch that its caller has yet to queue comes after all of the         *)
(* caller's batches that are further on.                                   *)
CallersOK(st, cl, q, k, tp) ==
    \A t \in Callers :
        cl[t] # 0 => /\ cl[t] \in 1 .. Len(st) /\ st[cl[t]].by = t
                     /\ \A i \in 1 .. Len(q) : Precedes(st, q[i], cl[t])
                     /\ k.batch # 0 => Precedes(st, k.batch, cl[t])
                     /\ \A c \in 1 .. Connectors : \A i \in 1 .. Len(tp[c]) :
                          Precedes(st, tp[c][i][1], cl[t])

Line(st, cl, q, k, tp) ==
    /\ QueueOK(st, q)
    /\ WorkOK(st, q, k)
    /\ TopicOK(st, q, k, tp)
    /\ CallersOK(st, cl, q, k, tp)

(* BatchesInOrder, of one topic.                                           *)
OrderedTopic(st, s) ==
    \A i, j \in 1 .. Len(s) :
        i < j => /\ s[i] # s[j]
                 /\ st[s[i][1]].by = st[s[j][1]].by => s[i][1] <= s[j][1]

Ordered(st, tp) == \A c \in 1 .. Connectors : OrderedTopic(st, tp[c])

SinkInv ==
    /\ alive \in BOOLEAN
    /\ caller \in [Callers -> Nat]
    /\ stored \in Seq(Batch) /\ Len(stored) <= MaxBatches
    /\ workers \in Seq(Worker) /\ Len(workers) <= 1
    /\ dispatch_tx = IF alive THEN Len(workers) ELSE 0
    /\ ~ alive => \A t \in Callers : caller[t] = 0
    /\ workers # <<>> \/ (\E t \in Callers : caller[t] # 0) => Connectors # 0
    /\ connected \in [1 .. Connectors -> BOOLEAN]
    /\ topic \in [1 .. Connectors -> Seq(Message)]
    /\ metrics \in Metrics
    /\ Line(stored, caller, QueueOf(workers), WorkOf(workers), topic)
    /\ Ordered(stored, topic)

-----------------------------------------------------------------------------
(* The line, step by step.                                                 *)

(* What Sink does, from the batches st and the callers cl to st2 and cl2,  *)
(* when caller t stores a batch; without a connector it does not queue it. *)
Stores(st, cl, t, st2, cl2) ==
    /\ st2 \in Seq(Batch) /\ Len(st2) = Len(st) + 1
    /\ \A i \in 1 .. Len(st) : st2[i] = st[i]
    /\ st2[Len(st2)].by = t
    /\ cl2 \in [Callers -> Nat]
    /\ \A u \in Callers : u # t => cl2[u] = cl[u]
    /\ cl2[t] = cl[t] \/ cl2[t] = Len(st2)

(* put_batch: a new batch is the last of the line.                         *)
LEMMA LineStores ==
    ASSUME NEW st \in Seq(Batch), NEW cl \in [Callers -> Nat], NEW q \in Seq(Nat),
           NEW k \in WorkState, NEW tp \in [1 .. Connectors -> Seq(Message)],
           Line(st, cl, q, k, tp),
           NEW t \in Callers, NEW st2, NEW cl2, Stores(st, cl, t, st2, cl2)
    PROVE  /\ Line(st2, cl2, q, k, tp)
           /\ Ordered(st, tp) => Ordered(st2, tp)
  <1>0. /\ st2 \in Seq(Batch) /\ Len(st2) = Len(st) + 1
        /\ \A i \in 1 .. Len(st) : st2[i] = st[i]
        /\ st2[Len(st2)].by = t /\ cl2 \in [Callers -> Nat]
        /\ \A u \in Callers : u # t => cl2[u] = cl[u]
        /\ cl2[t] = cl[t] \/ cl2[t] = Len(st2)
    BY DEF Stores
  <1>1. Len(st) \in Nat /\ Len(st2) \in Nat /\ Len(st2) = Len(st) + 1
    BY <1>0
  <1>2. \A i \in 1 .. Len(st) : i \in 1 .. Len(st2) /\ i < Len(st2)
    BY <1>1
  <1>3. \A a, b \in 1 .. Len(st) : Precedes(st, a, b) => Precedes(st2, a, b)
    BY <1>0 DEF Precedes
  <1>4. \A a \in 1 .. Len(st) : Precedes(st2, a, Len(st2))
    BY <1>2 DEF Precedes
  <1>5. \A i \in 1 .. Len(q) : q[i] \in 1 .. Len(st)
    BY DEF Line, QueueOK
  <1>6. k.batch # 0 => k.batch \in 1 .. Len(st)
    BY DEF Line, WorkOK
  <1>7. \A c \in 1 .. Connectors : \A i \in 1 .. Len(tp[c]) : tp[c][i][1] \in 1 .. Len(st)
    BY DEF Line, TopicOK, MessageOK
  <1>8. QueueOK(st2, q)
    BY <1>2, <1>3, <1>5 DEF Line, QueueOK
  <1>9. WorkOK(st2, q, k)
    BY <1>2, <1>3, <1>5, <1>6 DEF Line, WorkOK
  <1>10. ASSUME NEW c \in 1 .. Connectors, NEW i \in 1 .. Len(tp[c])
         PROVE  MessageOK(st2, q, k, c, tp[c][i])
    <2>1. MessageOK(st, q, k, c, tp[c][i])
      BY DEF Line, TopicOK
    <2>2. tp[c][i][1] \in 1 .. Len(st2)
      BY <1>2, <1>7
    <2>3. \A j \in 1 .. Len(q) : Precedes(st2, tp[c][i][1], q[j])
      BY <1>3, <1>5, <1>7, <2>1 DEF MessageOK
    <2>4. k.batch # 0 /\ Precedes(st, tp[c][i][1], k.batch)
          => Precedes(st2, tp[c][i][1], k.batch)
      BY <1>3, <1>6, <1>7
    <2>5. QED
      BY <2>1, <2>2, <2>3, <2>4 DEF MessageOK
  <1>11. TopicOK(st2, q, k, tp)
    BY <1>10 DEF TopicOK
  <1>12. ASSUME NEW u \in Callers, cl2[u] # 0
         PROVE  /\ cl2[u] \in 1 .. Len(st2) /\ st2[cl2[u]].by = u
                /\ \A a \in 1 .. Len(st) :
                     (cl[u] # 0 => Precedes(st, a, cl[u])) => Precedes(st2, a, cl2[u])
    <2>1. CASE cl2[u] = cl[u]
      BY <1>0, <1>2, <1>3, <1>12, <2>1 DEF Line, CallersOK
    <2>2. CASE u = t /\ cl2[u] = Len(st2)
      BY <1>0, <1>1, <1>4, <2>2
    <2>3. QED
      BY <1>0, <2>1, <2>2
  <1>13. CallersOK(st2, cl2, q, k, tp)
    <2>1. SUFFICES ASSUME NEW u \in Callers, cl2[u] # 0
                   PROVE  /\ \A i \in 1 .. Len(q) : Precedes(st2, q[i], cl2[u])
                          /\ k.batch # 0 => Precedes(st2, k.batch, cl2[u])
                          /\ \A c \in 1 .. Connectors : \A i \in 1 .. Len(tp[c]) :
                               Precedes(st2, tp[c][i][1], cl2[u])
      BY <1>12 DEF CallersOK
    <2>2. \A a \in 1 .. Len(st) :
             (cl[u] # 0 => Precedes(st, a, cl[u])) => Precedes(st2, a, cl2[u])
      BY <1>12, <2>1
    <2>3. \A i \in 1 .. Len(q) : Precedes(st2, q[i], cl2[u])
      BY <1>5, <2>2 DEF Line, CallersOK
    <2>4. k.batch # 0 => Precedes(st2, k.batch, cl2[u])
      BY <1>6, <2>2 DEF Line, CallersOK
    <2>5. \A c \in 1 .. Connectors : \A i \in 1 .. Len(tp[c]) :
             Precedes(st2, tp[c][i][1], cl2[u])
      BY <1>7, <2>2 DEF Line, CallersOK
    <2>6. QED
      BY <2>3, <2>4, <2>5
  <1>14. \A c \in 1 .. Connectors : OrderedTopic(st, tp[c]) => OrderedTopic(st2, tp[c])
    BY <1>0, <1>7 DEF OrderedTopic
  <1>15. QED
    BY <1>8, <1>9, <1>11, <1>13, <1>14 DEF Line, Ordered

(* ensure_worker and the send: the caller's batch goes to the queue's end. *)
LEMMA LineQueues ==
    ASSUME NEW st \in Seq(Batch), NEW cl \in [Callers -> Nat], NEW q \in Seq(Nat),
           NEW k \in WorkState, NEW tp \in [1 .. Connectors -> Seq(Message)],
           Line(st, cl, q, k, tp),
           NEW t \in Callers, cl[t] # 0,
           NEW q2 \in Seq(Nat), q2 = Append(q, cl[t]),
           NEW cl2 \in [Callers -> Nat], cl2 = [cl EXCEPT ![t] = 0]
    PROVE  Line(st, cl2, q2, k, tp)
  <1> DEFINE b == cl[t]
  <1>1. /\ Len(q) \in Nat /\ Len(q2) = Len(q) + 1
        /\ \A i \in 1 .. Len(q) : q2[i] = q[i]
        /\ q2[Len(q) + 1] = b
    BY AppendProperties
  <1>2. /\ b \in 1 .. Len(st) /\ st[b].by = t
        /\ \A i \in 1 .. Len(q) : Precedes(st, q[i], b)
        /\ k.batch # 0 => Precedes(st, k.batch, b)
        /\ \A c \in 1 .. Connectors : \A i \in 1 .. Len(tp[c]) : Precedes(st, tp[c][i][1], b)
    BY DEF Line, CallersOK
  <1> HIDE DEF b
  <1>3. \A i \in 1 .. Len(q2) : i \in 1 .. Len(q) \/ i = Len(q) + 1
    BY <1>1
  <1>4. QueueOK(st, q2)
    <2>1. \A i \in 1 .. Len(q2) : q2[i] \in 1 .. Len(st)
      BY <1>1, <1>2, <1>3 DEF Line, QueueOK
    <2>2. ASSUME NEW i \in 1 .. Len(q2), NEW j \in 1 .. Len(q2), i < j
          PROVE  Precedes(st, q2[i], q2[j])
      <3>1. i \in 1 .. Len(q)
        BY <1>1, <2>2
      <3>2. CASE j \in 1 .. Len(q)
        BY <1>1, <2>2, <3>1, <3>2 DEF Line, QueueOK
      <3>3. CASE j = Len(q) + 1
        BY <1>1, <1>2, <3>1, <3>3
      <3>4. QED
        BY <1>3, <3>2, <3>3
    <2>3. QED
      BY <2>1, <2>2 DEF QueueOK
  <1>5. WorkOK(st, q2, k)
    <2>1. k.batch # 0 => \A i \in 1 .. Len(q2) : Precedes(st, k.batch, q2[i])
      BY <1>1, <1>2, <1>3 DEF Line, WorkOK
    <2>2. QED
      BY <2>1 DEF Line, WorkOK
  <1>6. ASSUME NEW c \in 1 .. Connectors, NEW i \in 1 .. Len(tp[c])
        PROVE  MessageOK(st, q2, k, c, tp[c][i])
    <2>1. MessageOK(st, q, k, c, tp[c][i])
      BY DEF Line, TopicOK
    <2>2. \A j \in 1 .. Len(q2) : Precedes(st, tp[c][i][1], q2[j])
      BY <1>1, <1>2, <1>3, <2>1 DEF MessageOK
    <2>3. QED
      BY <2>1, <2>2 DEF MessageOK
  <1>7. CallersOK(st, cl2, q2, k, tp)
    <2>1. SUFFICES ASSUME NEW u \in Callers, cl2[u] # 0
                   PROVE  /\ cl2[u] \in 1 .. Len(st) /\ st[cl2[u]].by = u
                          /\ \A i \in 1 .. Len(q2) : Precedes(st, q2[i], cl2[u])
                          /\ k.batch # 0 => Precedes(st, k.batch, cl2[u])
                          /\ \A c \in 1 .. Connectors : \A i \in 1 .. Len(tp[c]) :
                               Precedes(st, tp[c][i][1], cl2[u])
      BY DEF CallersOK
    <2>2. u # t /\ cl2[u] = cl[u]
      BY <2>1
    <2>3. /\ cl2[u] \in 1 .. Len(st) /\ st[cl2[u]].by = u
          /\ \A i \in 1 .. Len(q) : Precedes(st, q[i], cl2[u])
          /\ k.batch # 0 => Precedes(st, k.batch, cl2[u])
          /\ \A c \in 1 .. Connectors : \A i \in 1 .. Len(tp[c]) :
               Precedes(st, tp[c][i][1], cl2[u])
      BY <2>1, <2>2 DEF Line, CallersOK
    <2>4. Precedes(st, b, cl2[u])
      BY <1>2, <2>2, <2>3 DEF Precedes
    <2>5. QED
      BY <1>1, <1>3, <2>3, <2>4
  <1>8. QED
    BY <1>4, <1>5, <1>6, <1>7 DEF Line, TopicOK

(* The worker starts at a connector with nothing sent.                     *)
LEMMA FacingFacts ==
    ASSUME NEW b \in Nat, NEW c \in Nat
    PROVE  /\ Facing(b, c) \in WorkState
           /\ Facing(b, c).batch = b /\ Facing(b, c).with = c
           /\ Facing(b, c).sent = 0 /\ Facing(b, c).flying = {}
  BY DEF Facing, Resting, WorkState

(* What Take does to a worker that rests, from the queue q to the queue q2 *)
(* and the work k2.                                                        *)
Takes(q, k, q2, k2) ==
    k.batch = 0 /\ q # <<>> /\ k2 = Facing(Head(q), 1) /\ q2 = Tail(q)

(* recv: the first batch of the queue is the worker's.                     *)
LEMMA LineTakes ==
    ASSUME NEW st \in Seq(Batch), NEW cl \in [Callers -> Nat], NEW q \in Seq(Nat),
           NEW k \in WorkState, NEW tp \in [1 .. Connectors -> Seq(Message)],
           Line(st, cl, q, k, tp), Connectors # 0,
           NEW q2, NEW k2, Takes(q, k, q2, k2)
    PROVE  /\ k2 \in WorkState /\ q2 \in Seq(Nat)
           /\ Line(st, cl, q2, k2, tp)
  <1>b. PICK b : b = Head(q)
    OBVIOUS
  <1>0. k.batch = 0 /\ q # <<>> /\ k2 = Facing(Head(q), 1) /\ q2 = Tail(q)
    BY DEF Takes
  <1>1. /\ Len(q) \in Nat \ {0} /\ b = q[1] /\ q2 \in Seq(Nat) /\ Len(q2) = Len(q) - 1
        /\ \A i \in 1 .. Len(q2) : q2[i] = q[i + 1]
    <2>1. Len(q) \in Nat /\ Len(q) # 0
      BY <1>0, EmptySeq
    <2>2. Head(q) = q[1] /\ Tail(q) \in Seq(Nat) /\ Len(Tail(q)) = Len(q) - 1
          /\ \A i \in 1 .. Len(Tail(q)) : Tail(q)[i] = q[i + 1]
      BY <1>0, HeadTailProperties
    <2>3. QED
      BY <1>0, <1>b, <2>1, <2>2
  <1>2. 1 \in 1 .. Len(q) /\ b \in 1 .. Len(st) /\ Len(st) \in Nat
    BY <1>1 DEF Line, QueueOK
  <1>3. k2 \in WorkState /\ k2.batch = b /\ k2.with = 1 /\ k2.flying = {}
    <2>1. b \in Nat /\ 1 \in Nat
      BY <1>2
    <2>2. /\ Facing(b, 1) \in WorkState
          /\ Facing(b, 1).batch = b /\ Facing(b, 1).with = 1 /\ Facing(b, 1).flying = {}
      BY <2>1, FacingFacts
    <2>3. k2 = Facing(b, 1)
      BY <1>0, <1>b
    <2>4. QED
      BY <2>2, <2>3
  <1>5. \A i \in 1 .. Len(q2) : i + 1 \in 1 .. Len(q) /\ 1 < i + 1
    BY <1>1
  <1>6. \A i \in 1 .. Len(q2) : q2[i] \in 1 .. Len(st) /\ Precedes(st, b, q2[i])
    BY <1>1, <1>2, <1>5 DEF Line, QueueOK
  <1>7. QueueOK(st, q2)
    <2>1. ASSUME NEW i \in 1 .. Len(q2), NEW j \in 1 .. Len(q2), i < j
          PROVE  Precedes(st, q2[i], q2[j])
      <3>1. i + 1 \in 1 .. Len(q) /\ j + 1 \in 1 .. Len(q) /\ i + 1 < j + 1
        BY <1>5, <2>1
      <3>2. QED
        BY <1>1, <3>1 DEF Line, QueueOK
    <2>2. QED
      BY <1>6, <2>1 DEF QueueOK
  <1>8. WorkOK(st, q2, k2)
    <2>1. IsFiniteSet({}) /\ Cardinality({}) <= MaxInFlight
      BY FS_EmptySet, SinkAssumption
    <2>2. 1 \in 1 .. Connectors /\ 1 <= Connectors
      BY SinkAssumption
    <2>3. QED
      BY <1>2, <1>3, <1>6, <2>1, <2>2 DEF WorkOK
  <1>9. TopicOK(st, q2, k2, tp)
    <2>1. SUFFICES ASSUME NEW c \in 1 .. Connectors, NEW i \in 1 .. Len(tp[c])
                   PROVE  MessageOK(st, q2, k2, c, tp[c][i])
      BY DEF TopicOK
    <2>2. MessageOK(st, q, k, c, tp[c][i])
      BY DEF Line, TopicOK
    <2>3. Precedes(st, tp[c][i][1], b)
      BY <1>1, <1>2, <2>2 DEF MessageOK
    <2>4. \A j \in 1 .. Len(q2) : Precedes(st, tp[c][i][1], q2[j])
      BY <1>1, <1>5, <2>2 DEF MessageOK
    <2>5. QED
      BY <1>3, <2>2, <2>3, <2>4 DEF MessageOK
  <1>10. CallersOK(st, cl, q2, k2, tp)
    <2>1. ASSUME NEW u \in Callers, cl[u] # 0
          PROVE  /\ \A i \in 1 .. Len(q2) : Precedes(st, q2[i], cl[u])
                 /\ Precedes(st, b, cl[u])
      BY <1>1, <1>2, <1>5, <2>1 DEF Line, CallersOK
    <2>2. QED
      BY <1>3, <2>1 DEF Line, CallersOK
  <1>11. QED
    BY <1>1, <1>3, <1>7, <1>8, <1>9, <1>10 DEF Line

(* The worker goes on with its batch: it begins, produces or hears of a    *)
(* failure at the connector it is with, or goes on to the next one.        *)
LEMMA LineGoesOn ==
    ASSUME NEW st \in Seq(Batch), NEW cl \in [Callers -> Nat], NEW q \in Seq(Nat),
           NEW k \in WorkState, NEW tp \in [1 .. Connectors -> Seq(Message)],
           Line(st, cl, q, k, tp), k.batch # 0,
           NEW k2 \in WorkState, k2.batch = k.batch,
           \/ /\ k2.with = k.with
              /\ (1 .. k.sent) \ k.flying \subseteq (1 .. k2.sent) \ k2.flying
           \/ k2.with = k.with + 1 /\ k2.with <= Connectors,
           k2.flying \subseteq 1 .. k2.sent,
           IsFiniteSet(k2.flying), Cardinality(k2.flying) <= MaxInFlight
    PROVE  Line(st, cl, q, k2, tp)
  <1>1. k.with \in 1 .. Connectors /\ Connectors \in Nat
    BY SinkAssumption DEF Line, WorkOK
  <1>2. k2.with \in 1 .. Connectors /\ k2.with <= Connectors
    BY <1>1
  <1>3. WorkOK(st, q, k2)
    BY <1>2 DEF Line, WorkOK
  <1>4. ASSUME NEW c \in 1 .. Connectors, NEW i \in 1 .. Len(tp[c])
        PROVE  MessageOK(st, q, k2, c, tp[c][i])
    <2>1. MessageOK(st, q, k, c, tp[c][i])
      BY DEF Line, TopicOK
    <2>2. c < k.with => c < k2.with
      BY <1>1
    <2>3. c = k.with => c = k2.with \/ c < k2.with
      BY <1>1
    <2>4. QED
      BY <1>1, <2>1, <2>2, <2>3 DEF MessageOK
  <1>5. QED
    BY <1>3, <1>4 DEF Line, TopicOK, CallersOK

(* The worker is done with its batch, or was aborted.                      *)
LEMMA LineRests ==
    ASSUME NEW st \in Seq(Batch), NEW cl \in [Callers -> Nat], NEW q \in Seq(Nat),
           NEW k \in WorkState, NEW tp \in [1 .. Connectors -> Seq(Message)],
           Line(st, cl, q, k, tp)
    PROVE  /\ Resting \in WorkState /\ Line(st, cl, q, Resting, tp)
           /\ Line(st, cl, <<>>, Resting, tp)
  <1>1. /\ Resting.batch = 0 /\ Resting.with = 0 /\ Resting.sent = 0 /\ Resting.flying = {}
        /\ Resting \in WorkState
    BY DEF Resting, WorkState
  <1>2. IsFiniteSet({}) /\ Cardinality({}) <= MaxInFlight /\ 0 <= Connectors
    BY FS_EmptySet, SinkAssumption
  <1>3. WorkOK(st, q, Resting) /\ WorkOK(st, <<>>, Resting)
    BY <1>1, <1>2 DEF WorkOK
  <1>4. TopicOK(st, q, Resting, tp) /\ TopicOK(st, <<>>, Resting, tp)
    BY <1>1 DEF Line, TopicOK, MessageOK
  <1>5. CallersOK(st, cl, q, Resting, tp) /\ CallersOK(st, cl, <<>>, Resting, tp)
    BY <1>1 DEF Line, CallersOK
  <1>6. QueueOK(st, <<>>)
    BY DEF QueueOK
  <1>7. QED
    BY <1>1, <1>3, <1>4, <1>5, <1>6 DEF Line

(* A topic stays in order when its new last message is none of the old     *)
(* ones and of no batch before theirs.                                     *)
Follows(st, s, msg) ==
    \A i \in 1 .. Len(s) :
        /\ s[i] # msg
        /\ st[s[i][1]].by = st[msg[1]].by => s[i][1] <= msg[1]

LEMMA TopicGrows ==
    ASSUME NEW st, NEW s \in Seq(Message), OrderedTopic(st, s), NEW msg \in Message,
           Follows(st, s, msg)
    PROVE  OrderedTopic(st, Append(s, msg))
  <1> DEFINE n == Len(s)
             t == Append(s, msg)
  <1>1. /\ n \in Nat /\ Len(t) = n + 1 /\ t[n + 1] = msg
        /\ \A i \in 1 .. n : t[i] = s[i]
    BY AppendProperties
  <1> HIDE DEF t
  <1>2. SUFFICES ASSUME NEW i \in 1 .. Len(t), NEW j \in 1 .. Len(t), i < j
                 PROVE  /\ t[i] # t[j]
                        /\ st[t[i][1]].by = st[t[j][1]].by => t[i][1] <= t[j][1]
    BY DEF OrderedTopic, t
  <1>3. i \in 1 .. n /\ t[i] = s[i]
    <2> HIDE DEF n
    <2>1. QED
      BY <1>1, <1>2
  <1>4. CASE j \in 1 .. n
    <2>1. t[j] = s[j]
      BY <1>1, <1>4
    <2>2. QED
      BY <1>2, <1>3, <1>4, <2>1 DEF OrderedTopic
  <1>5. CASE j = n + 1
    BY <1>1, <1>3, <1>5 DEF Follows
  <1>6. j \in 1 .. n \/ j = n + 1
    <2> HIDE DEF n
    <2>1. QED
      BY <1>1, <1>2
  <1>7. QED
    BY <1>4, <1>5, <1>6

(* What Delivered does, from work k and topics tp to work k2 and topics    *)
(* tp2, on the answer to the message in place m.                           *)
Answered(k, tp, m, msg, k2, tp2) ==
    /\ k.batch # 0 /\ m \in k.flying
    /\ k2 \in WorkState /\ k2.batch = k.batch /\ k2.with = k.with /\ k2.sent = k.sent
    /\ k2.flying = k.flying \ {m}
    /\ msg \in Message /\ msg[1] = k.batch /\ msg[2] = m
    /\ tp2 \in [1 .. Connectors -> Seq(Message)]
    /\ tp2[k.with] = Append(tp[k.with], msg)
    /\ \A c \in 1 .. Connectors : c # k.with => tp2[c] = tp[c]

(* The broker confirms a message that is in flight: it is the topic's      *)
(* last, and of the line's first batch.                                    *)
LEMMA LineConfirms ==
    ASSUME NEW st \in Seq(Batch), NEW cl \in [Callers -> Nat], NEW q \in Seq(Nat),
           NEW k \in WorkState, NEW tp \in [1 .. Connectors -> Seq(Message)],
           Line(st, cl, q, k, tp),
           NEW m, NEW msg, NEW k2, NEW tp2, Answered(k, tp, m, msg, k2, tp2),
           Ordered(st, tp)
    PROVE  /\ Line(st, cl, q, k2, tp2)
           /\ Ordered(st, tp2)
  <1> DEFINE w == k.with
             b == k.batch
             s == tp[w]
             n == Len(s)
  <1>0. /\ k.batch # 0 /\ m \in k.flying
        /\ k2 \in WorkState /\ k2.batch = k.batch /\ k2.with = k.with /\ k2.sent = k.sent
        /\ k2.flying = k.flying \ {m}
        /\ msg \in Message /\ msg[1] = k.batch /\ msg[2] = m
        /\ tp2 \in [1 .. Connectors -> Seq(Message)]
        /\ tp2[k.with] = Append(tp[k.with], msg)
        /\ \A c \in 1 .. Connectors : c # k.with => tp2[c] = tp[c]
    BY DEF Answered
  <1>1. /\ w \in 1 .. Connectors /\ b \in 1 .. Len(st) /\ m \in 1 .. k.sent
        /\ \A i \in 1 .. Len(q) : Precedes(st, b, q[i])
        /\ IsFiniteSet(k.flying) /\ Cardinality(k.flying) <= MaxInFlight
    BY <1>0 DEF Line, WorkOK
  <1>2. /\ s \in Seq(Message) /\ n \in Nat /\ msg \in Message /\ msg[1] = b /\ msg[2] = m
    BY <1>0, <1>1
  <1>3. /\ tp2[w] = Append(s, msg)
        /\ \A c \in 1 .. Connectors : c # w => tp2[c] = tp[c]
    BY <1>0
  <1>4. /\ Len(tp2[w]) = n + 1 /\ tp2[w][n + 1] = msg
        /\ \A i \in 1 .. n : tp2[w][i] = s[i]
    <2>1. /\ Len(Append(s, msg)) = n + 1 /\ Append(s, msg)[n + 1] = msg
          /\ \A i \in 1 .. n : Append(s, msg)[i] = s[i]
      BY <1>2, AppendProperties
    <2>2. QED
      BY <1>3, <2>1
  <1>5. /\ k2.flying \subseteq 1 .. k2.sent
        /\ IsFiniteSet(k2.flying) /\ Cardinality(k2.flying) <= MaxInFlight
    <2>1. /\ IsFiniteSet(k.flying \ {m})
          /\ Cardinality(k.flying \ {m}) = Cardinality(k.flying) - 1
      <3>1. PICK S : S = k.flying
        OBVIOUS
      <3>2. /\ IsFiniteSet(S \ {m})
            /\ Cardinality(S \ {m}) = IF m \in S THEN Cardinality(S) - 1 ELSE Cardinality(S)
        BY <1>1, <3>1, FS_RemoveElement
      <3>3. QED
        BY <1>0, <3>1, <3>2
    <2>2. Cardinality(k.flying) \in Nat
      BY <1>1, FS_CardinalityType
    <2>3. k.flying \subseteq 1 .. k.sent
      BY DEF Line, WorkOK
    <2>4. PICK n1, n2 : n1 = Cardinality(k.flying) /\ n2 = Cardinality(k.flying \ {m})
      OBVIOUS
    <2>5. n1 \in Nat /\ n2 = n1 - 1 /\ n1 <= MaxInFlight
      BY <1>1, <2>1, <2>2, <2>4
    <2>6. n2 <= MaxInFlight
      BY <2>5, SinkAssumption
    <2>7. IsFiniteSet(k2.flying) /\ Cardinality(k2.flying) = n2
      BY <1>0, <2>1, <2>4
    <2>8. k2.flying \subseteq 1 .. k2.sent
      BY <1>0, <2>3
    <2>9. QED
      BY <2>6, <2>7, <2>8
  <1>6. Line(st, cl, q, k2, tp)
    <2>1. (1 .. k.sent) \ k.flying \subseteq (1 .. k2.sent) \ k2.flying
      BY <1>0
    <2>2. QED
      BY <1>0, <1>5, <2>1, LineGoesOn
  <1>7. MessageOK(st, q, k2, w, msg)
    <2>1. m \in (1 .. k2.sent) \ k2.flying
      BY <1>0, <1>1
    <2>2. QED
      BY <1>0, <1>1, <1>2, <2>1 DEF MessageOK
  <1> HIDE DEF n
  <1>8. \A i \in 1 .. n + 1 : i \in 1 .. n \/ i = n + 1
    BY <1>2
  <1>9. \A c \in 1 .. Connectors : \A i \in 1 .. Len(tp2[c]) :
           \/ i \in 1 .. Len(tp[c]) /\ tp2[c][i] = tp[c][i]
           \/ c = w /\ tp2[c][i] = msg
    BY <1>0, <1>3, <1>4, <1>8 DEF n
  <1>10. TopicOK(st, q, k2, tp2)
    BY <1>6, <1>7, <1>9 DEF Line, TopicOK
  <1>11. CallersOK(st, cl, q, k2, tp2)
    <2>1. SUFFICES ASSUME NEW t \in Callers, cl[t] # 0
                   PROVE  \A c \in 1 .. Connectors : \A i \in 1 .. Len(tp2[c]) :
                             Precedes(st, tp2[c][i][1], cl[t])
      BY <1>6 DEF Line, CallersOK
    <2>2. /\ Precedes(st, b, cl[t])
          /\ \A c \in 1 .. Connectors : \A i \in 1 .. Len(tp[c]) :
               Precedes(st, tp[c][i][1], cl[t])
      BY <1>0, <2>1 DEF Line, CallersOK
    <2>3. QED
      BY <1>2, <1>9, <2>2
  <1>12. OrderedTopic(st, tp2[w])
    <2>1. ASSUME NEW i \in 1 .. n
          PROVE  /\ s[i] # msg
                 /\ st[s[i][1]].by = st[msg[1]].by => s[i][1] <= msg[1]
      <3>1. MessageOK(st, q, k, w, s[i]) /\ s[i] \in Message
        BY <1>1, <1>2, ElementOfSeq DEF Line, TopicOK, n
      <3>2. PICK old \in Message : old = s[i]
        BY <3>1
      <3>3. Precedes(st, old[1], b) \/ (old[1] = b /\ old[2] \notin k.flying)
        <4>1. w \in Nat /\ ~ w < w
          BY <1>1
        <4>2. QED
          BY <1>0, <3>1, <3>2, <4>1 DEF MessageOK
      <3>4. old[1] \in Nat /\ b \in Nat
        BY <1>1 DEF Message
      <3>5. CASE old[1] = b /\ old[2] \notin k.flying
        <4>1. old[2] # msg[2] /\ old[1] <= msg[1]
          BY <1>0, <1>2, <3>4, <3>5
        <4>2. QED
          BY <3>2, <4>1
      <3>6. CASE Precedes(st, old[1], b)
        <4>1. st[old[1]].by = st[b].by => old[1] < b
          BY <3>6 DEF Precedes
        <4>2. old[1] # b
          BY <3>4, <4>1
        <4>3. old # msg
          BY <1>2, <4>2
        <4>4. QED
          BY <1>2, <3>2, <3>4, <4>1, <4>3
      <3>7. QED
        BY <3>3, <3>5, <3>6
    <2>2. OrderedTopic(st, s)
      BY <1>1 DEF Ordered
    <2>3. PICK u \in Seq(Message) : u = s
      BY <1>2
    <2>4. Follows(st, u, msg)
      BY <2>1, <2>3 DEF Follows, n
    <2>5. OrderedTopic(st, Append(u, msg))
      BY <1>2, <2>2, <2>3, <2>4, TopicGrows
    <2>6. QED
      BY <1>3, <2>3, <2>5
  <1>13. Ordered(st, tp2)
    BY <1>3, <1>12 DEF Ordered
  <1>14. QED
    BY <1>6, <1>10, <1>11, <1>13 DEF Line

-----------------------------------------------------------------------------
(* The actions.                                                            *)

(* ensure_worker starts one worker at most, so its queue and its work are  *)
(* all there is.                                                           *)
LEMMA OneWorker ==
    ASSUME NEW ws \in Seq(Worker), Len(ws) <= 1, NEW w \in DOMAIN ws
    PROVE  /\ w = 1 /\ Len(ws) = 1 /\ ws # <<>> /\ ws[w] \in Worker
           /\ QueueOf(ws) = ws[w].queue /\ WorkOf(ws) = ws[w].work
  <1>1. Len(ws) \in Nat /\ DOMAIN ws = 1 .. Len(ws)
    OBVIOUS
  <1>2. w = 1 /\ Len(ws) = 1 /\ 1 \in 1 .. Len(ws)
    BY <1>1
  <1>3. ws[1] \in Worker
    BY <1>2, ElementOfSeq
  <1>4. ws # <<>>
    BY <1>2
  <1>5. QED
    BY <1>2, <1>3, <1>4 DEF QueueOf, WorkOf

(* What the only worker is changed to is all there is then.                *)
LEMMA WorkerChanges ==
    ASSUME workers \in Seq(Worker), Len(workers) <= 1, NEW w \in DOMAIN workers,
           NEW v \in Worker, workers' = [workers EXCEPT ![w] = v]
    PROVE  /\ workers' \in Seq(Worker) /\ Len(workers') = 1 /\ Len(workers) = 1
           /\ QueueOf(workers') = v.queue /\ WorkOf(workers') = v.work
  <1>1. w = 1 /\ Len(workers) = 1
    BY OneWorker
  <1>2. workers \in [1 .. 1 -> Worker]
    <2>1. workers \in [1 .. Len(workers) -> Worker]
      BY LenProperties
    <2>2. QED
      BY <1>1, <2>1
  <1>3. PICK ws2 \in [1 .. 1 -> Worker] : ws2 = workers' /\ ws2[1] = v
    <2>1. [workers EXCEPT ![w] = v] \in [1 .. 1 -> Worker]
      BY <1>1, <1>2
    <2>2. [workers EXCEPT ![w] = v][1] = v
      BY <1>1, <1>2
    <2>3. QED
      BY <2>1, <2>2
  <1>4. ws2 \in Seq(Worker) /\ Len(ws2) = 1
    OBVIOUS
  <1>5. QueueOf(ws2) = v.queue /\ WorkOf(ws2) = v.work
    <2>1. 1 \in DOMAIN ws2
      BY <1>4
    <2>2. QED
      BY <1>3, <1>4, <2>1, OneWorker
  <1>6. QED
    BY <1>1, <1>3, <1>4, <1>5

(* The parts of the invariant, typed.                                      *)
LEMMA SinkParts ==
    ASSUME SinkInv
    PROVE  /\ QueueOf(workers) \in Seq(Nat) /\ WorkOf(workers) \in WorkState
           /\ stored \in Seq(Batch) /\ Len(stored) \in Nat
           /\ caller \in [Callers -> Nat]
           /\ topic \in [1 .. Connectors -> Seq(Message)]
           /\ workers \in Seq(Worker) /\ Len(workers) \in Nat /\ Len(workers) <= 1
           /\ Line(stored, caller, QueueOf(workers), WorkOf(workers), topic)
           /\ Ordered(stored, topic)
  <1>1. /\ stored \in Seq(Batch) /\ caller \in [Callers -> Nat]
        /\ topic \in [1 .. Connectors -> Seq(Message)]
        /\ workers \in Seq(Worker) /\ Len(workers) <= 1
        /\ Line(stored, caller, QueueOf(workers), WorkOf(workers), topic)
        /\ Ordered(stored, topic)
    BY DEF SinkInv
  <1>2. QueueOf(workers) \in Seq(Nat) /\ WorkOf(workers) \in WorkState
    <2>1. CASE workers = <<>>
      <3>1. Resting \in WorkState
        BY DEF Resting, WorkState
      <3>2. <<>> \in Seq(Nat)
        OBVIOUS
      <3>3. QED
        BY <2>1, <3>1, <3>2 DEF QueueOf, WorkOf
    <2>2. CASE workers # <<>>
      <3>1. workers[1] \in Worker
        BY <1>1, <2>2, EmptySeq, ElementOfSeq
      <3>2. QED
        BY <2>2, <3>1 DEF QueueOf, WorkOf, Worker
    <2>3. QED
      BY <2>1, <2>2
  <1>3. QED
    BY <1>1, <1>2

(* A step of the worker, or of an owner of a connector, that leaves the    *)
(* line in order.                                                          *)
LEMMA WorkerAssembles ==
    ASSUME SinkInv, UNCHANGED <<alive, caller, stored, dispatch_tx>>,
           connected' \in [1 .. Connectors -> BOOLEAN],
           workers' \in Seq(Worker), Len(workers') = Len(workers),
           topic' \in [1 .. Connectors -> Seq(Message)], metrics' \in Metrics,
           Line(stored, caller, QueueOf(workers'), WorkOf(workers'), topic'),
           Ordered(stored, topic')
    PROVE  SinkInv'
  <1>1. workers' # <<>> => workers # <<>>
    <2>1. workers \in Seq(Worker)
      BY DEF SinkInv
    <2>2. QED
      BY <2>1, EmptySeq
  <1>2. QED
    BY <1>1 DEF SinkInv, QueueOf, WorkOf

(* The worker changes what it is at, and only that.                        *)
LEMMA WorkSteps ==
    ASSUME SinkInv, NEW w \in DOMAIN workers, NEW k2 \in WorkState, SetWork(w, k2)
    PROVE  /\ Work(w) = WorkOf(workers)
           /\ workers' \in Seq(Worker) /\ Len(workers') = Len(workers)
           /\ QueueOf(workers') = QueueOf(workers) /\ WorkOf(workers') = k2
  <1>1. workers \in Seq(Worker) /\ Len(workers) <= 1
    BY DEF SinkInv
  <1>2. workers[w] \in Worker
    BY <1>1, ElementOfSeq
  <1>3. PICK v \in Worker : v = [queue |-> workers[w].queue, work |-> k2]
    BY <1>2 DEF Worker
  <1>4. workers' = [workers EXCEPT ![w] = v]
    <2>1. [workers[w] EXCEPT !.work = k2] = v
      BY <1>2, <1>3 DEF Worker
    <2>2. workers' = [workers EXCEPT ![w] = [workers[w] EXCEPT !.work = k2]]
      BY DEF SetWork
    <2>3. QED
      BY <2>1, <2>2
  <1>5. Len(workers) = 1 /\ Work(w) = WorkOf(workers) /\ QueueOf(workers) = workers[w].queue
    BY <1>1, OneWorker DEF Work
  <1>6. /\ workers' \in Seq(Worker) /\ Len(workers') = 1
        /\ QueueOf(workers') = v.queue /\ WorkOf(workers') = v.work
    BY <1>1, <1>4, WorkerChanges
  <1>7. v.queue = workers[w].queue /\ v.work = k2
    BY <1>3
  <1>8. QED
    BY <1>5, <1>6, <1>7

(* The worker at a batch, typed.                                           *)
LEMMA BusyParts ==
    ASSUME SinkInv, NEW w, Busy(w)
    PROVE  /\ alive /\ w \in DOMAIN workers /\ Work(w) = WorkOf(workers)
           /\ Work(w) \in WorkState /\ Work(w).batch # 0
           /\ Work(w).batch \in 1 .. Len(stored) /\ Work(w).with \in 1 .. Connectors
           /\ Work(w).flying \subseteq 1 .. Work(w).sent
           /\ IsFiniteSet(Work(w).flying) /\ Cardinality(Work(w).flying) <= MaxInFlight
           /\ Size(Work(w).batch) \in Nat
  <1>1. alive /\ w \in DOMAIN workers /\ Work(w).batch # 0
    BY DEF Busy
  <1>2. Work(w) = WorkOf(workers)
    BY <1>1, OneWorker DEF SinkInv, Work
  <1>3. WorkOf(workers) \in WorkState /\ WorkOK(stored, QueueOf(workers), WorkOf(workers))
    BY SinkParts DEF Line
  <1>4. /\ Work(w).batch \in 1 .. Len(stored) /\ Work(w).with \in 1 .. Connectors
        /\ Work(w).flying \subseteq 1 .. Work(w).sent
        /\ IsFiniteSet(Work(w).flying) /\ Cardinality(Work(w).flying) <= MaxInFlight
    BY <1>1, <1>2, <1>3 DEF WorkOK
  <1>5. stored[Work(w).batch] \in Batch
    BY <1>4, ElementOfSeq DEF SinkInv
  <1>6. QED
    BY <1>1, <1>2, <1>3, <1>4, <1>5 DEF Size, Batch

(* A step of the worker that keeps its batch and the topics.               *)
LEMMA GoesOnKeeps ==
    ASSUME SinkInv, NEW w, Busy(w), NEW k2 \in WorkState, SetWork(w, k2),
           UNCHANGED <<alive, caller, stored, dispatch_tx, connected, topic>>,
           metrics' \in Metrics,
           k2.batch = Work(w).batch,
           \/ /\ k2.with = Work(w).with
              /\ (1 .. Work(w).sent) \ Work(w).flying \subseteq (1 .. k2.sent) \ k2.flying
           \/ k2.with = Work(w).with + 1 /\ k2.with <= Connectors,
           k2.flying \subseteq 1 .. k2.sent,
           IsFiniteSet(k2.flying), Cardinality(k2.flying) <= MaxInFlight
    PROVE  SinkInv'
  <1>1. w \in DOMAIN workers /\ Work(w) = WorkOf(workers) /\ Work(w).batch # 0
    BY BusyParts
  <1>2. /\ workers' \in Seq(Worker) /\ Len(workers') = Len(workers)
        /\ QueueOf(workers') = QueueOf(workers) /\ WorkOf(workers') = k2
    BY <1>1, WorkSteps
  <1>3. Line(stored, caller, QueueOf(workers), k2, topic)
    BY <1>1, SinkParts, LineGoesOn
  <1>4. Line(stored, caller, QueueOf(workers'), WorkOf(workers'), topic')
    BY <1>2, <1>3
  <1>5. /\ connected' \in [1 .. Connectors -> BOOLEAN]
        /\ topic' \in [1 .. Connectors -> Seq(Message)]
        /\ Ordered(stored, topic')
    BY DEF SinkInv
  <1>6. QED
    BY <1>2, <1>4, <1>5, WorkerAssembles

(* The counters stay counters.                                             *)
LEMMA CountType ==
    ASSUME SinkInv, NEW w, Busy(w), NEW ok \in BOOLEAN
    PROVE  Count(w, ok) \in Metrics
  <1>1. Size(Work(w).batch) \in Nat /\ metrics \in Metrics
    BY BusyParts DEF SinkInv
  <1>2. PICK n \in Nat : n = Size(Work(w).batch)
    BY <1>1
  <1>3. [metrics EXCEPT !.dispatched = @ + n] \in Metrics
    BY <1>1 DEF Metrics
  <1>4. [metrics EXCEPT !.dispatch_errors = @ + 1] \in Metrics
    BY <1>1 DEF Metrics
  <1>5. CASE ok
    BY <1>2, <1>3, <1>5 DEF Count
  <1>6. CASE ~ ok
    BY <1>4, <1>6 DEF Count
  <1>7. QED
    BY <1>5, <1>6

(* A dispatch returns: the worker faces the next connector, or rests.      *)
LEMMA ReturnKeeps ==
    ASSUME SinkInv, NEW w, Busy(w), NEW ok \in BOOLEAN, Return(w, ok),
           UNCHANGED <<alive, caller, stored, dispatch_tx, connected, topic>>
    PROVE  SinkInv'
  <1>1. /\ Work(w) \in WorkState /\ w \in DOMAIN workers /\ Work(w) = WorkOf(workers)
        /\ Work(w).with \in 1 .. Connectors /\ Work(w).batch \in Nat
    BY BusyParts DEF WorkState
  <1>2. metrics' \in Metrics
    BY CountType DEF Return
  <1>3. CASE Work(w).with < Connectors
    <2>1. PICK k2 : k2 = Facing(Work(w).batch, Work(w).with + 1)
      OBVIOUS
    <2>2. SetWork(w, k2)
      BY <1>3, <2>1 DEF Return, Onwards
    <2>3. Work(w).with + 1 \in Nat
      BY <1>1
    <2>4. /\ k2 \in WorkState /\ k2.batch = Work(w).batch /\ k2.with = Work(w).with + 1
          /\ k2.sent = 0 /\ k2.flying = {}
      BY <1>1, <2>1, <2>3, FacingFacts
    <2>5. Work(w).with + 1 <= Connectors
      BY <1>1, <1>3, SinkAssumption
    <2>6. IsFiniteSet({}) /\ Cardinality({}) <= MaxInFlight
      BY FS_EmptySet, SinkAssumption
    <2>7. QED
      BY <1>2, <2>2, <2>4, <2>5, <2>6, GoesOnKeeps
  <1>4. CASE ~ Work(w).with < Connectors
    <2>1. SetWork(w, Resting)
      BY <1>4 DEF Return, Onwards
    <2>2. /\ Resting \in WorkState
          /\ Line(stored, caller, QueueOf(workers), Resting, topic)
      BY SinkParts, LineRests
    <2>3. /\ workers' \in Seq(Worker) /\ Len(workers') = Len(workers)
          /\ QueueOf(workers') = QueueOf(workers) /\ WorkOf(workers') = Resting
      BY <1>1, <2>1, <2>2, WorkSteps
    <2>4. Line(stored, caller, QueueOf(workers'), WorkOf(workers'), topic')
      BY <2>2, <2>3
    <2>5. /\ connected' \in [1 .. Connectors -> BOOLEAN]
          /\ topic' \in [1 .. Connectors -> Seq(Message)]
          /\ Ordered(stored, topic')
      BY DEF SinkInv
    <2>6. QED
      BY <1>2, <2>3, <2>4, <2>5, WorkerAssembles
  <1>5. QED
    BY <1>3, <1>4

(* The worker's own steps, but for recv.                                   *)
LEMMA WorkerKeeps ==
    ASSUME SinkInv, NEW w,
           NotConnected(w) \/ Begin(w) \/ Produce(w) \/ Delivered(w) \/ Failed(w) \/ Finish(w)
    PROVE  SinkInv'
  <1>1. Busy(w) /\ metrics \in Metrics
    BY DEF NotConnected, Begin, Produce, Delivered, Failed, Finish, SinkInv
  <1>2. /\ w \in DOMAIN workers /\ Work(w) = WorkOf(workers)
        /\ Work(w) \in WorkState /\ Work(w).batch # 0
        /\ Work(w).batch \in 1 .. Len(stored) /\ Work(w).with \in 1 .. Connectors
        /\ Work(w).flying \subseteq 1 .. Work(w).sent
        /\ IsFiniteSet(Work(w).flying) /\ Cardinality(Work(w).flying) <= MaxInFlight
    BY <1>1, BusyParts
  <1>3. PICK k \in WorkState : k = Work(w)
    BY <1>2
  <1>4. k.sent \in Nat /\ Cardinality(k.flying) \in Nat
    BY <1>2, <1>3, FS_CardinalityType DEF WorkState
  <1>5. CASE NotConnected(w)
    BY <1>1, <1>5, ReturnKeeps DEF NotConnected
  <1>6. CASE Finish(w)
    <2>1. PICK ok \in BOOLEAN : ok = ~ Work(w).failed
      OBVIOUS
    <2>2. Return(w, ok)
      BY <1>6, <2>1 DEF Finish
    <2>3. QED
      BY <1>1, <1>6, <2>2, ReturnKeeps DEF Finish
  <1>7. CASE Begin(w)
    <2>1. PICK k2 : k2 = [k EXCEPT !.sending = TRUE]
      OBVIOUS
    <2>2. k2 \in WorkState /\ k2.batch = k.batch /\ k2.with = k.with
          /\ k2.sent = k.sent /\ k2.flying = k.flying
      BY <2>1 DEF WorkState
    <2>3. SetWork(w, k2)
      BY <1>3, <1>7, <2>1 DEF Begin
    <2>4. QED
      BY <1>1, <1>2, <1>3, <1>7, <2>2, <2>3, GoesOnKeeps DEF Begin
  <1>8. CASE Produce(w)
    <2>a. PICK n \in Nat : n = k.sent + 1
      BY <1>4
    <2>b. PICK S : S = k.flying
      OBVIOUS
    <2>c. IsFiniteSet(S) /\ S \in SUBSET Nat /\ S \cup {n} \in SUBSET Nat
      BY <1>2, <1>3, <2>b DEF WorkState
    <2>1. PICK k2 : k2 = [k EXCEPT !.sent = n, !.flying = S \cup {n}]
      OBVIOUS
    <2>2. k2 \in WorkState /\ k2.batch = k.batch /\ k2.with = k.with
          /\ k2.sent = n /\ k2.flying = S \cup {n}
      BY <2>c, <2>1 DEF WorkState
    <2>3. SetWork(w, k2)
      BY <1>3, <1>8, <2>a, <2>b, <2>1 DEF Produce
    <2>4. /\ IsFiniteSet(k2.flying)
          /\ Cardinality(k2.flying) <= Cardinality(k.flying) + 1
      <3>1. /\ IsFiniteSet(S \cup {n})
            /\ Cardinality(S \cup {n}) = IF n \in S THEN Cardinality(S) ELSE Cardinality(S) + 1
        BY <2>c, FS_AddElement
      <3>2. QED
        BY <1>4, <2>b, <2>2, <3>1
    <2>5. Cardinality(k.flying) < MaxInFlight
      BY <1>3, <1>8 DEF Produce, HasPermit
    <2>6. Cardinality(k2.flying) <= MaxInFlight
      BY <1>4, <2>4, <2>5, SinkAssumption, FS_CardinalityType
    <2>7. /\ k2.flying \subseteq 1 .. k2.sent
          /\ (1 .. k.sent) \ k.flying \subseteq (1 .. k2.sent) \ k2.flying
      BY <1>2, <1>3, <1>4, <2>a, <2>b, <2>2
    <2>8. QED
      BY <1>1, <1>2, <1>3, <1>8, <2>2, <2>3, <2>4, <2>6, <2>7, GoesOnKeeps DEF Produce
  <1>9. CASE Failed(w)
    <2>1. PICK m \in k.flying :
             SetWork(w, [k EXCEPT !.flying = @ \ {m}, !.failed = TRUE])
      BY <1>3, <1>9 DEF Failed
    <2>2. PICK k2 : k2 = [k EXCEPT !.flying = @ \ {m}, !.failed = TRUE]
      OBVIOUS
    <2>3. k2 \in WorkState /\ k2.batch = k.batch /\ k2.with = k.with
          /\ k2.sent = k.sent /\ k2.flying = k.flying \ {m}
      BY <2>2 DEF WorkState
    <2>4. SetWork(w, k2)
      BY <2>1, <2>2
    <2>5. IsFiniteSet(k2.flying) /\ Cardinality(k2.flying) = Cardinality(k.flying) - 1
      BY <1>2, <1>3, <2>3, FS_RemoveElement
    <2>6. Cardinality(k2.flying) <= MaxInFlight
      BY <1>2, <1>3, <1>4, <2>5, SinkAssumption
    <2>7. QED
      BY <1>1, <1>2, <1>3, <1>9, <2>3, <2>4, <2>5, <2>6, GoesOnKeeps DEF Failed
  <1>10. CASE Delivered(w)
    <2>1. PICK m \in k.flying :
             /\ topic' = [topic EXCEPT ![k.with] = Append(topic[k.with], <<k.batch, m>>)]
             /\ SetWork(w, [k EXCEPT !.flying = @ \ {m}])
      BY <1>3, <1>10 DEF Delivered
    <2>2. PICK k2 : k2 = [k EXCEPT !.flying = @ \ {m}]
      OBVIOUS
    <2>3. k2 \in WorkState /\ k2.batch = k.batch /\ k2.with = k.with
          /\ k2.sent = k.sent /\ k2.flying = k.flying \ {m}
      BY <2>2 DEF WorkState
    <2>4. SetWork(w, k2)
      BY <2>1, <2>2
    <2>5. /\ workers' \in Seq(Worker) /\ Len(workers') = Len(workers)
          /\ QueueOf(workers') = QueueOf(workers) /\ WorkOf(workers') = k2
      BY <1>2, <2>3, <2>4, WorkSteps
    <2>6. topic \in [1 .. Connectors -> Seq(Message)] /\ k.with \in 1 .. Connectors
      BY <1>2, <1>3 DEF SinkInv
    <2>7. PICK msg \in Message : msg = <<k.batch, m>> /\ msg[1] = k.batch /\ msg[2] = m
      <3>1. k.batch \in Nat /\ m \in Nat
        BY <2>1 DEF WorkState
      <3>2. <<k.batch, m>> \in Nat \X Nat
        BY <3>1
      <3>3. QED
        BY <3>2 DEF Message
    <2>8. Append(topic[k.with], msg) \in Seq(Message)
      BY <2>6, AppendProperties
    <2>9. PICK tp2 \in [1 .. Connectors -> Seq(Message)] :
             /\ tp2 = topic'
             /\ tp2[k.with] = Append(topic[k.with], msg)
             /\ \A c \in 1 .. Connectors : c # k.with => tp2[c] = topic[c]
      BY <2>1, <2>6, <2>7, <2>8
    <2>10. /\ Line(stored, caller, QueueOf(workers), k2, tp2)
           /\ Ordered(stored, tp2)
      <3>1. Line(stored, caller, QueueOf(workers), k, topic) /\ k.batch # 0
        BY <1>2, <1>3, SinkParts
      <3>2. PICK q \in Seq(Nat) : q = QueueOf(workers)
        BY SinkParts
      <3>3. /\ stored \in Seq(Batch) /\ caller \in [Callers -> Nat]
            /\ Ordered(stored, topic)
        BY SinkParts
      <3>4. PICK tp \in [1 .. Connectors -> Seq(Message)] : tp = topic
        BY <2>6
      <3>5. /\ Line(stored, caller, q, k2, tp2)
            /\ Ordered(stored, tp2)
        <4>1. Answered(k, tp, m, msg, k2, tp2)
          BY <2>1, <2>3, <2>7, <2>9, <3>1, <3>4 DEF Answered
        <4>2. Line(stored, caller, q, k, tp)
          BY <3>1, <3>2, <3>4
        <4>3. Ordered(stored, tp)
          BY <3>3, <3>4
        <4>4. QED
          BY <3>3, <4>1, <4>2, <4>3, LineConfirms
      <3>6. QED
        BY <3>2, <3>5
    <2>11. Line(stored, caller, QueueOf(workers'), WorkOf(workers'), topic')
      BY <2>5, <2>9, <2>10
    <2>12. /\ UNCHANGED <<alive, caller, stored, dispatch_tx, connected, metrics>>
           /\ connected \in [1 .. Connectors -> BOOLEAN]
      BY <1>10 DEF Delivered, SinkInv
    <2>13. QED
      BY <1>1, <2>5, <2>9, <2>10, <2>11, <2>12, WorkerAssembles
  <1>11. QED
    BY <1>5, <1>6, <1>7, <1>8, <1>9, <1>10

(* rx.recv.                                                                *)
LEMMA TakeEffect ==
    ASSUME SinkInv, NEW w, Take(w)
    PROVE  /\ QueueOf(workers) \in Seq(Nat) /\ QueueOf(workers) # <<>>
           /\ WorkOf(workers) = Resting /\ Connectors # 0
           /\ workers' \in Seq(Worker) /\ Len(workers') = Len(workers)
           /\ QueueOf(workers') = Tail(QueueOf(workers))
           /\ WorkOf(workers') = Facing(Head(QueueOf(workers)), 1)
  <1>1. w \in DOMAIN workers /\ Work(w) = Resting /\ workers[w].queue # <<>>
    BY DEF Take
  <1>2. /\ workers \in Seq(Worker) /\ Len(workers) <= 1
        /\ Len(workers) = 1 /\ workers # <<>>
        /\ QueueOf(workers) = workers[w].queue /\ WorkOf(workers) = Resting
    <2>1. workers \in Seq(Worker) /\ Len(workers) <= 1
      BY DEF SinkInv
    <2>2. QED
      BY <1>1, <2>1, OneWorker DEF Work
  <1>3. PICK q \in Seq(Nat) : q = QueueOf(workers) /\ q # <<>>
    BY <1>1, <1>2, SinkParts
  <1>4. PICK k2, q2 : k2 = Facing(Head(q), 1) /\ q2 = Tail(q)
    OBVIOUS
  <1>5. k2 \in WorkState /\ q2 \in Seq(Nat)
    <2>1. Head(q) \in Nat /\ Tail(q) \in Seq(Nat)
      BY <1>3, HeadTailProperties
    <2>2. QED
      BY <1>4, <2>1, FacingFacts
  <1>6. PICK v \in Worker : v = [queue |-> q2, work |-> k2]
    BY <1>5 DEF Worker
  <1>7. workers' = [workers EXCEPT ![w] = v]
    <2>1. v = [queue |-> Tail(workers[w].queue), work |-> Facing(Head(workers[w].queue), 1)]
      BY <1>2, <1>3, <1>4, <1>6
    <2>2. workers' = [workers EXCEPT ![w] = [queue |-> Tail(workers[w].queue),
                                             work |-> Facing(Head(workers[w].queue), 1)]]
      BY DEF Take
    <2>3. QED
      BY <2>1, <2>2
  <1>8. /\ workers' \in Seq(Worker) /\ Len(workers') = 1
        /\ QueueOf(workers') = v.queue /\ WorkOf(workers') = v.work
    BY <1>1, <1>2, <1>7, WorkerChanges
  <1>9. v.queue = q2 /\ v.work = k2
    BY <1>6
  <1>10. Connectors # 0
    BY <1>2 DEF SinkInv
  <1>11. QED
    BY <1>2, <1>3, <1>4, <1>8, <1>9, <1>10

LEMMA TakeKeeps ==
    ASSUME SinkInv, NEW w, Take(w)
    PROVE  SinkInv'
  <1>q. PICK q \in Seq(Nat), k \in WorkState :
           /\ q = QueueOf(workers) /\ q # <<>>
           /\ k = WorkOf(workers) /\ k.batch = 0
    BY TakeEffect, SinkParts DEF Resting
  <1>t. PICK k2, q2 : k2 = Facing(Head(q), 1) /\ q2 = Tail(q)
    OBVIOUS
  <1>1. /\ q = QueueOf(workers) /\ q # <<>>
        /\ k = WorkOf(workers) /\ k.batch = 0
        /\ k2 = Facing(Head(q), 1) /\ q2 = Tail(q)
    BY <1>q, <1>t
  <1>2. /\ Connectors # 0
        /\ workers' \in Seq(Worker) /\ Len(workers') = Len(workers)
        /\ QueueOf(workers') = q2 /\ WorkOf(workers') = k2
    BY <1>1, TakeEffect
  <1>3. Line(stored, caller, q2, k2, topic)
    <2>1. Line(stored, caller, q, k, topic)
      BY <1>1, SinkParts
    <2>2. Takes(q, k, q2, k2)
      BY <1>1 DEF Takes
    <2>3. /\ stored \in Seq(Batch) /\ caller \in [Callers -> Nat]
          /\ topic \in [1 .. Connectors -> Seq(Message)]
      BY SinkParts
    <2>4. QED
      BY <1>2, <2>1, <2>2, <2>3, LineTakes
  <1>4. Line(stored, caller, QueueOf(workers'), WorkOf(workers'), topic')
    BY <1>2, <1>3 DEF Take
  <1>5. /\ connected' \in [1 .. Connectors -> BOOLEAN] /\ metrics' \in Metrics
        /\ topic' \in [1 .. Connectors -> Seq(Message)] /\ Ordered(stored, topic')
        /\ UNCHANGED <<alive, caller, stored, dispatch_tx>>
    BY DEF SinkInv, Take
  <1>6. QED
    BY <1>2, <1>4, <1>5, WorkerAssembles

(* sink(), up to and including put_batch.                                  *)
LEMMA StoreKeeps ==
    ASSUME SinkInv, NEW t \in Callers, Sink(t)
    PROVE  SinkInv'
  <1>1. PICK total \in 0 .. MaxSize : \E kept \in 0 .. total :
           /\ metrics' = [metrics EXCEPT !.parsed = @ + total, !.filtered = @ + total - kept]
           /\ IF kept = 0
              THEN UNCHANGED <<stored, caller>>
              ELSE /\ Len(stored) < MaxBatches
                   /\ stored' = Append(stored, [by |-> t, size |-> kept])
                   /\ caller' = IF Connectors = 0 THEN caller
                                ELSE [caller EXCEPT ![t] = Len(stored')]
    BY DEF Sink
  <1>2. PICK kept \in 0 .. total :
           /\ metrics' = [metrics EXCEPT !.parsed = @ + total, !.filtered = @ + total - kept]
           /\ IF kept = 0
              THEN UNCHANGED <<stored, caller>>
              ELSE /\ Len(stored) < MaxBatches
                   /\ stored' = Append(stored, [by |-> t, size |-> kept])
                   /\ caller' = IF Connectors = 0 THEN caller
                                ELSE [caller EXCEPT ![t] = Len(stored')]
    BY <1>1
  <1>3. total \in Nat /\ kept \in Nat /\ kept <= total
    BY SinkAssumption
  <1>4. metrics' \in Metrics
    <2>1. metrics \in Metrics
      BY DEF SinkInv
    <2>2. metrics.parsed + total \in Nat /\ metrics.filtered + total - kept \in Nat
      BY <1>3, <2>1 DEF Metrics
    <2>3. PICK p \in Nat, f \in Nat :
             p = metrics.parsed + total /\ f = metrics.filtered + total - kept
      BY <2>2
    <2>4. [metrics EXCEPT !.parsed = p, !.filtered = f] \in Metrics
      BY <2>1 DEF Metrics
    <2>5. QED
      BY <1>2, <2>3, <2>4
  <1>5. /\ alive /\ UNCHANGED <<alive, dispatch_tx, workers, connected, topic>>
        /\ caller[t] = 0
    BY DEF Sink
  <1>6. CASE kept = 0
    BY <1>2, <1>4, <1>5, <1>6 DEF SinkInv
  <1>7. CASE kept # 0
    <2>1. /\ stored \in Seq(Batch) /\ Len(stored) \in Nat /\ Len(stored) < MaxBatches
          /\ caller \in [Callers -> Nat]
      BY <1>2, <1>7 DEF SinkInv
    <2>2. PICK b \in Batch : b = [by |-> t, size |-> kept] /\ b.by = t
      <3>1. [by |-> t, size |-> kept] \in Batch
        BY <1>3 DEF Batch
      <3>2. QED
        BY <3>1
    <2>3. PICK st2 : st2 = Append(stored, b)
      OBVIOUS
    <2>4. /\ stored' = st2 /\ st2 \in Seq(Batch) /\ Len(st2) = Len(stored) + 1
          /\ \A i \in 1 .. Len(stored) : st2[i] = stored[i]
          /\ st2[Len(stored) + 1] = b
      BY <1>2, <1>7, <2>1, <2>2, <2>3, AppendProperties
    <2>5. PICK cl2 \in [Callers -> Nat] :
             /\ cl2 = caller'
             /\ \A u \in Callers : u # t => cl2[u] = caller[u]
             /\ cl2[t] = caller[t] \/ cl2[t] = Len(st2)
             /\ Connectors = 0 => cl2 = caller
      <3>1. CASE Connectors = 0
        BY <1>2, <1>7, <2>1, <3>1
      <3>2. CASE Connectors # 0
        <4>1. caller' = [caller EXCEPT ![t] = Len(st2)] /\ Len(st2) \in Nat
          BY <1>2, <1>7, <2>1, <2>4, <3>2
        <4>2. QED
          BY <2>1, <3>2, <4>1
      <3>3. QED
        BY <3>1, <3>2
    <2>6. PICK q \in Seq(Nat), k \in WorkState :
             q = QueueOf(workers) /\ k = WorkOf(workers)
      BY SinkParts
    <2>7. Line(stored, caller, q, k, topic) /\ Ordered(stored, topic)
          /\ topic \in [1 .. Connectors -> Seq(Message)]
      BY <2>6, SinkParts
    <2>8. Line(st2, cl2, q, k, topic) /\ Ordered(st2, topic)
      <3>1. st2[Len(st2)].by = t
        BY <2>2, <2>4
      <3>2. Stores(stored, caller, t, st2, cl2)
        BY <2>4, <2>5, <3>1 DEF Stores
      <3>3. QED
        BY <2>1, <2>6, <2>7, <3>2, LineStores
    <2>9. QueueOf(workers') = q /\ WorkOf(workers') = k
      BY <1>5, <2>6
    <2>10. Len(stored') <= MaxBatches
      BY <2>1, <2>4, SinkAssumption
    <2>11. workers' # <<>> \/ (\E u \in Callers : caller'[u] # 0) => Connectors # 0
      BY <1>5, <2>5 DEF SinkInv
    <2>12. QED
      BY <1>4, <1>5, <2>4, <2>5, <2>8, <2>9, <2>10, <2>11 DEF SinkInv
  <1>8. QED
    BY <1>6, <1>7

(* ensure_worker and the send: the batch is at the end of the queue of the *)
(* only worker, which is started for it when there is none.                *)
LEMMA SendQueues ==
    ASSUME SinkInv, NEW b \in Nat, alive, SendToWorker(b)
    PROVE  /\ workers' \in Seq(Worker) /\ Len(workers') = 1 /\ dispatch_tx' = 1
           /\ QueueOf(workers') = Append(QueueOf(workers), b)
           /\ WorkOf(workers') = WorkOf(workers)
  <1>1. /\ workers \in Seq(Worker) /\ Len(workers) \in Nat /\ Len(workers) <= 1
        /\ dispatch_tx = Len(workers)
    BY DEF SinkInv
  <1>2. CASE dispatch_tx # 0
    <2>1. dispatch_tx = 1 /\ Len(workers) = 1 /\ 1 \in DOMAIN workers
      BY <1>1, <1>2
    <2>2. /\ workers[1] \in Worker /\ workers # <<>>
          /\ QueueOf(workers) = workers[1].queue /\ WorkOf(workers) = workers[1].work
      BY <1>1, <2>1, OneWorker
    <2>3. PICK q2 : q2 = Append(workers[1].queue, b)
      OBVIOUS
    <2>4. q2 \in Seq(Nat) /\ workers[1].work \in WorkState
      BY <2>2, <2>3, AppendProperties DEF Worker
    <2>5. PICK v \in Worker : v = [queue |-> q2, work |-> workers[1].work]
      <3>1. [queue |-> q2, work |-> workers[1].work] \in Worker
        BY <2>4 DEF Worker
      <3>2. QED
        BY <3>1
    <2>6. workers' = [workers EXCEPT ![1] = v]
      <3>1. [workers[1] EXCEPT !.queue = q2] = v
        BY <2>2, <2>5 DEF Worker
      <3>2. workers' = [workers EXCEPT ![1] = [workers[1] EXCEPT !.queue = q2]]
        BY <1>2, <2>1, <2>3 DEF SendToWorker
      <3>3. QED
        BY <3>1, <3>2
    <2>7. /\ workers' \in Seq(Worker) /\ Len(workers') = 1
          /\ QueueOf(workers') = v.queue /\ WorkOf(workers') = v.work
      BY <1>1, <2>1, <2>6, WorkerChanges
    <2>8. v.queue = q2 /\ v.work = workers[1].work
      BY <2>5
    <2>9. dispatch_tx' = 1
      BY <1>2, <2>1 DEF SendToWorker
    <2>10. QED
      BY <2>2, <2>3, <2>7, <2>8, <2>9
  <1>3. CASE dispatch_tx = 0
    <2>1. workers = <<>>
      BY <1>1, <1>3, EmptySeq
    <2>2. QueueOf(workers) = <<>> /\ WorkOf(workers) = Resting
      BY <2>1 DEF QueueOf, WorkOf
    <2>3. PICK v \in Worker : v = [queue |-> <<b>>, work |-> Resting]
      <3>1. Resting \in WorkState
        BY DEF Resting, WorkState
      <3>2. [queue |-> <<b>>, work |-> Resting] \in Worker
        BY <3>1 DEF Worker
      <3>3. QED
        BY <3>2
    <2>4. workers' = Append(workers, v) /\ dispatch_tx' = Len(workers')
      <3>1. /\ workers' = Append(workers, [queue |-> <<b>>, work |-> Resting])
            /\ dispatch_tx' = Len(workers')
        BY <1>3 DEF SendToWorker
      <3>2. QED
        BY <2>3, <3>1
    <2>5. /\ workers' \in Seq(Worker) /\ Len(workers') = 1 /\ workers'[1] = v
      <3>1. /\ Append(workers, v) \in Seq(Worker)
            /\ Len(Append(workers, v)) = Len(workers) + 1
            /\ Append(workers, v)[Len(workers) + 1] = v
        BY <1>1, AppendProperties
      <3>2. Len(workers) = 0
        BY <1>1, <1>3
      <3>3. QED
        BY <2>4, <3>1, <3>2
    <2>6. QueueOf(workers') = v.queue /\ WorkOf(workers') = v.work
      <3>1. PICK ws \in Seq(Worker) : ws = workers' /\ Len(ws) = 1 /\ ws[1] = v
        BY <2>5
      <3>2. DOMAIN ws = 1 .. Len(ws)
        OBVIOUS
      <3>3. QueueOf(ws) = ws[1].queue /\ WorkOf(ws) = ws[1].work
        <4>1. 1 \in DOMAIN ws /\ Len(ws) <= 1
          BY <3>1, <3>2
        <4>2. QED
          BY <4>1, OneWorker
      <3>4. QED
        BY <3>1, <3>3
    <2>7. v.queue = <<b>> /\ v.work = Resting /\ Append(<<>>, b) = <<b>>
      BY <2>3
    <2>8. QED
      BY <2>2, <2>4, <2>5, <2>6, <2>7
  <1>4. QED
    BY <1>2, <1>3

LEMMA EnqueueKeeps ==
    ASSUME SinkInv, NEW t \in Callers, Enqueue(t)
    PROVE  SinkInv'
  <1>1. caller[t] # 0 /\ caller \in [Callers -> Nat] /\ caller[t] \in Nat
    BY DEF Enqueue, SinkInv
  <1>2. alive /\ Connectors # 0
    BY <1>1 DEF SinkInv
  <1>3. PICK q \in Seq(Nat), k \in WorkState :
           q = QueueOf(workers) /\ k = WorkOf(workers)
    BY SinkParts
  <1>4. PICK b \in Nat : b = caller[t]
    BY <1>1
  <1>5. /\ workers' \in Seq(Worker) /\ Len(workers') = 1 /\ dispatch_tx' = 1
        /\ QueueOf(workers') = Append(q, b) /\ WorkOf(workers') = k
    <2>1. SendToWorker(b)
      BY <1>4 DEF Enqueue
    <2>2. QED
      BY <1>2, <1>3, <2>1, SendQueues
  <1>6. PICK q2 \in Seq(Nat) : q2 = Append(q, b)
    BY <1>3, <1>4, AppendProperties
  <1>7. PICK cl2 \in [Callers -> Nat] :
           /\ cl2 = caller' /\ cl2 = [caller EXCEPT ![t] = 0]
    BY <1>1 DEF Enqueue
  <1>8. /\ stored \in Seq(Batch) /\ topic \in [1 .. Connectors -> Seq(Message)]
        /\ Line(stored, caller, q, k, topic)
    BY <1>3, SinkParts
  <1>9. Line(stored, cl2, q2, k, topic)
    <2>1. PICK cl \in [Callers -> Nat] : cl = caller
      BY <1>1
    <2>2. /\ Line(stored, cl, q, k, topic) /\ cl[t] # 0 /\ q2 = Append(q, cl[t])
          /\ cl2 = [cl EXCEPT ![t] = 0]
      BY <1>1, <1>4, <1>6, <1>7, <1>8, <2>1
    <2>3. QED
      BY <1>3, <1>8, <2>2, LineQueues
  <1>10. UNCHANGED <<alive, stored, connected, topic, metrics>>
    BY DEF Enqueue
  <1>11. Line(stored', caller', QueueOf(workers'), WorkOf(workers'), topic')
    BY <1>5, <1>6, <1>7, <1>9, <1>10
  <1>12. QED
    BY <1>2, <1>5, <1>7, <1>10, <1>11 DEF SinkInv

(* The sink is dropped while nobody is inside sink().                      *)
LEMMA DropEffect ==
    ASSUME SinkInv, Drop
    PROVE  /\ workers' \in Seq(Worker) /\ Len(workers') = Len(workers)
           /\ QueueOf(workers') = <<>> /\ WorkOf(workers') = Resting
  <1>1. PICK v \in Worker : v = [queue |-> <<>>, work |-> Resting]
    <2>1. Resting \in WorkState
      BY DEF Resting, WorkState
    <2>2. [queue |-> <<>>, work |-> Resting] \in Worker
      BY <2>1 DEF Worker
    <2>3. QED
      BY <2>2
  <1>2. v.queue = <<>> /\ v.work = Resting
    BY <1>1
  <1>3. /\ workers \in Seq(Worker) /\ Len(workers) \in Nat /\ Len(workers) <= 1
        /\ DOMAIN workers = 1 .. Len(workers)
    BY DEF SinkInv
  <1>4. PICK ws2 : ws2 = [i \in 1 .. Len(workers) |-> v] /\ ws2 = workers'
    BY <1>1, <1>3 DEF Drop
  <1>5. ws2 \in Seq(Worker) /\ Len(ws2) = Len(workers)
    BY <1>3, <1>4
  <1>6. QueueOf(ws2) = <<>> /\ WorkOf(ws2) = Resting
    <2>1. CASE ws2 = <<>>
      BY <2>1 DEF QueueOf, WorkOf
    <2>2. CASE ws2 # <<>>
      <3>1. 1 \in 1 .. Len(workers)
        BY <1>3, <1>5, <2>2, EmptySeq
      <3>2. ws2[1] = v
        BY <1>4, <3>1
      <3>3. QED
        BY <1>2, <2>2, <3>2 DEF QueueOf, WorkOf
    <2>3. QED
      BY <2>1, <2>2
  <1>7. QED
    BY <1>4, <1>5, <1>6

LEMMA DropKeeps ==
    ASSUME SinkInv, Drop
    PROVE  SinkInv'
  <1>1. /\ workers' \in Seq(Worker) /\ Len(workers') = Len(workers)
        /\ QueueOf(workers') = <<>> /\ WorkOf(workers') = Resting
    BY DropEffect
  <1>2. workers \in Seq(Worker) /\ Len(workers) <= 1
    BY DEF SinkInv
  <1>3. Line(stored, caller, <<>>, Resting, topic)
    BY SinkParts, LineRests
  <1>4. /\ alive' = FALSE /\ dispatch_tx' = 0 /\ \A t \in Callers : caller[t] = 0
        /\ UNCHANGED <<caller, stored, connected, topic, metrics>>
    BY DEF Drop
  <1>5. Line(stored', caller', QueueOf(workers'), WorkOf(workers'), topic')
    BY <1>1, <1>3, <1>4
  <1>6. workers' # <<>> => workers # <<>>
    BY <1>1, <1>2, EmptySeq
  <1>7. QED
    BY <1>1, <1>2, <1>4, <1>5, <1>6 DEF SinkInv

(* An owner connects a connector or closes it.                             *)
LEMMA OwnerKeeps ==
    ASSUME SinkInv, NEW c \in 1 .. Connectors, Connect(c) \/ Close(c)
    PROVE  SinkInv'
  <1>1. connected' \in [1 .. Connectors -> BOOLEAN]
    BY DEF SinkInv, Connect, Close
  <1>2. UNCHANGED <<alive, caller, stored, dispatch_tx, workers, topic, metrics>>
    BY DEF Connect, Close
  <1>3. QED
    BY <1>1, <1>2 DEF SinkInv, QueueOf, WorkOf

LEMMA InitEstablishes == Init => SinkInv
  <1> SUFFICES ASSUME Init PROVE SinkInv
    OBVIOUS
  <1>1. /\ alive = TRUE /\ caller = [t \in Callers |-> 0] /\ stored = <<>>
        /\ dispatch_tx = 0 /\ workers = <<>>
        /\ connected = [c \in 1 .. Connectors |-> FALSE]
        /\ topic = [c \in 1 .. Connectors |-> <<>>]
        /\ metrics = [parsed |-> 0, filtered |-> 0, dispatched |-> 0, dispatch_errors |-> 0]
    BY DEF Init
  <1>2. QueueOf(workers) = <<>> /\ WorkOf(workers) = Resting
    BY <1>1 DEF QueueOf, WorkOf
  <1>3. /\ Resting.batch = 0 /\ Resting.with = 0 /\ Resting.flying = {}
    BY DEF Resting
  <1>4. IsFiniteSet({}) /\ Cardinality({}) <= MaxInFlight /\ 0 <= Connectors
    BY FS_EmptySet, SinkAssumption
  <1>5. WorkOK(stored, <<>>, Resting) /\ QueueOK(stored, <<>>)
    BY <1>3, <1>4 DEF WorkOK, QueueOK
  <1>6. \A c \in 1 .. Connectors : topic[c] = <<>> /\ Len(topic[c]) = 0
    BY <1>1
  <1>7. TopicOK(stored, <<>>, Resting, topic) /\ Ordered(stored, topic)
    BY <1>6 DEF TopicOK, Ordered, OrderedTopic
  <1>8. CallersOK(stored, caller, <<>>, Resting, topic)
    BY <1>1 DEF CallersOK
  <1>9. Line(stored, caller, QueueOf(workers), WorkOf(workers), topic)
    BY <1>2, <1>5, <1>7, <1>8 DEF Line
  <1>10. /\ stored \in Seq(Batch) /\ Len(stored) <= MaxBatches
         /\ workers \in Seq(Worker) /\ Len(workers) = 0
         /\ topic \in [1 .. Connectors -> Seq(Message)]
         /\ metrics \in Metrics
    BY <1>1, SinkAssumption DEF Metrics
  <1>11. QED
    BY <1>1, <1>7, <1>9, <1>10 DEF SinkInv

(* Every step keeps the invariant.                                         *)
LEMMA StepPreserves == SinkInv /\ [Next]_vars => SinkInv'
  <1> SUFFICES ASSUME SinkInv, [Next]_vars PROVE SinkInv'
    OBVIOUS
  <1>1. ASSUME NEW t \in Callers, Sink(t) PROVE SinkInv'
    BY <1>1, StoreKeeps
  <1>2. ASSUME NEW t \in Callers, Enqueue(t) PROVE SinkInv'
    BY <1>2, EnqueueKeeps
  <1>3. CASE Drop
    BY <1>3, DropKeeps
  <1>4. ASSUME NEW w \in 1 .. MaxBatches, WorkerStep(w) PROVE SinkInv'
    BY <1>4, TakeKeeps, WorkerKeeps DEF WorkerStep
  <1>5. ASSUME NEW c \in 1 .. Connectors, Connect(c) \/ Close(c) PROVE SinkInv'
    BY <1>5, OwnerKeeps
  <1>6. CASE UNCHANGED vars
    BY <1>6 DEF vars, SinkInv, QueueOf, WorkOf
  <1>7. QED
    BY <1>1, <1>2, <1>3, <1>4, <1>5, <1>6 DEF Next

-----------------------------------------------------------------------------
(* The sink is in order in every behaviour: the batches of a caller are in *)
(* one line from the caller to the topics, whatever overlaps, fails or is  *)
(* dropped (sink.rs:44-46, 64-90).                                         *)
THEOREM SinkInvariant == Spec => []SinkInv
  BY InitEstablishes, StepPreserves, PTL DEF Spec

(* SinkTypeOK: the batches queued are stored ones, no more messages are in *)
(* flight than the semaphore has permits (kafka.rs:262-267), and the       *)
(* sender kept is a spawned worker's.                                      *)
THEOREM SinkTypeCorrect == Spec => []SinkTypeOK
  <1>1. SinkInv => SinkTypeOK
    <2> SUFFICES ASSUME SinkInv PROVE SinkTypeOK
      OBVIOUS
    <2>1. /\ stored \in Seq(Batch) /\ Len(stored) \in Nat /\ Len(stored) <= MaxBatches
          /\ workers \in Seq(Worker) /\ Len(workers) \in Nat /\ Len(workers) <= 1
          /\ caller \in [Callers -> Nat]
          /\ Line(stored, caller, QueueOf(workers), WorkOf(workers), topic)
      BY SinkParts DEF SinkInv
    <2>2. caller \in [Callers -> 0 .. MaxBatches]
      <3>1. \A t \in Callers : caller[t] # 0 => caller[t] \in 1 .. Len(stored)
        BY <2>1 DEF Line, CallersOK
      <3>2. \A t \in Callers : caller[t] \in 0 .. MaxBatches
        BY <2>1, <3>1, SinkAssumption
      <3>3. QED
        BY <2>1, <3>2
    <2>3. dispatch_tx \in 0 .. Len(workers)
      BY <2>1 DEF SinkInv
    <2>4. ASSUME NEW w \in DOMAIN workers
          PROVE  /\ workers[w].queue \in Seq(1 .. Len(stored))
                 /\ Work(w).with \in 0 .. Connectors
                 /\ Work(w).flying \subseteq 1 .. Work(w).sent
                 /\ Cardinality(Work(w).flying) <= MaxInFlight
      <3>1. /\ workers[w] \in Worker
            /\ QueueOf(workers) = workers[w].queue /\ WorkOf(workers) = Work(w)
        BY <2>1, OneWorker DEF Work
      <3>2. PICK q \in Seq(Nat), k \in WorkState :
               q = workers[w].queue /\ k = Work(w)
        BY <3>1 DEF Worker, Work
      <3>3. QueueOK(stored, q) /\ WorkOK(stored, q, k)
        BY <2>1, <3>1, <3>2 DEF Line
      <3>4. q \in Seq(1 .. Len(stored))
        BY <3>3 DEF QueueOK
      <3>5. k.with \in 0 .. Connectors
        BY <3>3, SinkAssumption DEF WorkOK, WorkState
      <3>6. QED
        BY <3>2, <3>3, <3>4, <3>5 DEF WorkOK
    <2>5. /\ alive \in BOOLEAN /\ connected \in [1 .. Connectors -> BOOLEAN]
          /\ metrics \in [{"parsed", "filtered", "dispatched", "dispatch_errors"} -> Nat]
      BY DEF SinkInv, Metrics
    <2>6. QED
      BY <2>2, <2>3, <2>4, <2>5 DEF SinkTypeOK
  <1>2. QED
    BY <1>1, SinkInvariant, PTL

(* BatchesInOrder: at no connector is a message of an earlier batch of a   *)
(* caller confirmed after one of a later batch, or a message confirmed     *)
(* twice (sink.rs:44-46), for any number of callers, connectors and        *)
(* permits, whichever sends fail.                                          *)
THEOREM BatchesInOrderCorrect == Spec => []BatchesInOrder
  <1>1. SinkInv => BatchesInOrder
    BY DEF SinkInv, Ordered, OrderedTopic, BatchesInOrder
  <1>2. QED
    BY <1>1, SinkInvariant, PTL

-----------------------------------------------------------------------------
(* The metrics.  MetricsTellTheTruth says nothing of a dispatch that is    *)
(* under way, nor why none is counted twice.                               *)

(* A batch that was tried with connector c is past every caller and the    *)
(* queue, and the worker, if still at it, is past the connector.           *)
TriedOK(st, cl, q, k, tr) ==
    \A c \in 1 .. Connectors : \A b \in ToSet(tr[c]) :
        /\ b \in 1 .. Len(st)
        /\ \A i \in 1 .. Len(q) : q[i] # b
        /\ \A t \in Callers : cl[t] # b
        /\ k.batch = b => c < k.with

(* The messages of the worker's batch that were answered and are not in    *)
(* the topic.                                                              *)
Missing(tp, k) ==
    {m \in (1 .. k.sent) \ k.flying : <<k.batch, m>> \notin ToSet(tp[k.with])}

(* The dispatch the worker is at: nothing is sent before the producer is   *)
(* cloned, and it has failed if a message is missing.                      *)
DispatchOK(st, tp, k) ==
    k.batch # 0 => /\ k.sent <= st[k.batch].size
                   /\ ~ k.sending => k.sent = 0
                   /\ k.failed <=> Missing(tp, k) # {}

Counted == {p \in Returned : Whole(p)}

Short == {p \in Returned : ~ Whole(p)}

CountsOK ==
    /\ IsFiniteSet(Short) /\ IsFiniteSet(EventsOf(Counted))
    /\ metrics.dispatched = Cardinality(EventsOf(Counted))
    /\ metrics.dispatch_errors = Cardinality(Short)

MetricsInv ==
    /\ tried \in [1 .. Connectors -> Seq(Nat)]
    /\ \A b \in 1 .. Len(stored) : stored[b].size # 0
    /\ TriedOK(stored, caller, QueueOf(workers), WorkOf(workers), tried)
    /\ DispatchOK(stored, topic, WorkOf(workers))
    /\ CountsOK

LEMMA ToSetAppend ==
    ASSUME NEW S, NEW s \in Seq(S), NEW x \in S
    PROVE  /\ ToSet(Append(s, x)) = ToSet(s) \cup {x}
           /\ \A y \in ToSet(s) : y \in S /\ \E i \in 1 .. Len(s) : s[i] = y
  <1>1. PICK t, n : t = Append(s, x) /\ n = Len(s)
    OBVIOUS
  <1>2. /\ n \in Nat /\ Len(t) = n + 1 /\ t[n + 1] = x
        /\ \A i \in 1 .. n : t[i] = s[i]
        /\ DOMAIN s = 1 .. n /\ DOMAIN t = 1 .. n + 1
    <2>1. t \in Seq(S) /\ Len(t) = n + 1 /\ t[n + 1] = x /\ \A i \in 1 .. n : t[i] = s[i]
      BY <1>1, AppendProperties
    <2>2. QED
      BY <1>1, <2>1
  <1>3. \A i \in 1 .. n + 1 : i \in 1 .. n \/ i = n + 1
    BY <1>2
  <1>4. n + 1 \in 1 .. n + 1 /\ \A i \in 1 .. n : i \in 1 .. n + 1
    BY <1>2
  <1>5. \A i \in 1 .. n : s[i] \in S
    BY <1>1, ElementOfSeq
  <1>6. ToSet(t) = ToSet(s) \cup {x}
    BY <1>2, <1>3, <1>4 DEF ToSet
  <1>7. QED
    BY <1>1, <1>2, <1>5, <1>6 DEF ToSet

(* A dispatch that is counted adds its events.                             *)
LEMMA EventsGrow ==
    ASSUME NEW S, IsFiniteSet(EventsOf(S)), NEW p, p \notin S, Size(p[2]) \in Nat
    PROVE  /\ IsFiniteSet(EventsOf(S \cup {p}))
           /\ Cardinality(EventsOf(S \cup {p})) = Cardinality(EventsOf(S)) + Size(p[2])
  <1>1. PICK n \in Nat : n = Size(p[2])
    OBVIOUS
  <1>2. PICK T : T = {p} \X (1 .. n)
    OBVIOUS
  <1>3. IsFiniteSet(T) /\ Cardinality(T) = n
    <2>1. IsFiniteSet(1 .. n) /\ Cardinality(1 .. n) = n
      BY FS_Interval
    <2>2. IsFiniteSet({p}) /\ Cardinality({p}) = 1
      BY FS_Singleton
    <2>3. IsFiniteSet(T) /\ Cardinality(T) = 1 * n
      BY <1>2, <2>1, <2>2, FS_Product
    <2>4. QED
      BY <2>3
  <1>4. EventsOf(S \cup {p}) = EventsOf(S) \cup T
    BY <1>1, <1>2 DEF EventsOf
  <1>5. PICK E, e : E = EventsOf(S) /\ e = Cardinality(E)
    OBVIOUS
  <1>6. E \cap T = {} /\ IsFiniteSet(E) /\ e \in Nat
    BY <1>2, <1>5, FS_CardinalityType DEF EventsOf
  <1>7. IsFiniteSet(E \cup T) /\ Cardinality(E \cup T) = e + n
    <2>1. /\ IsFiniteSet(E \cup T)
          /\ Cardinality(E \cup T) = Cardinality(E) + Cardinality(T) - Cardinality(E \cap T)
      BY <1>3, <1>6, FS_Union
    <2>2. Cardinality(E \cap T) = 0
      BY <1>6, FS_EmptySet
    <2>3. Cardinality(E \cup T) = e + n - 0
      BY <1>3, <1>5, <2>1, <2>2
    <2>4. QED
      BY <1>6, <2>1, <2>3
  <1>8. QED
    BY <1>1, <1>4, <1>5, <1>7

(* What has returned, while no dispatch returns.                           *)
LEMMA ReturnedStays ==
    ASSUME SinkInv, MetricsInv, tried' = tried, Len(stored') \in Nat,
           Len(stored) <= Len(stored'),
           \A b \in 1 .. Len(stored) : stored'[b] = stored[b]
    PROVE  /\ Returned' = Returned
           /\ \A p \in Returned : p[2] \in 1 .. Len(stored) /\ Size(p[2])' = Size(p[2])
  <1>1. \A c \in 1 .. Connectors : \A b \in ToSet(tried[c]) : b \in 1 .. Len(stored)
    BY DEF MetricsInv, TriedOK
  <1>2. Len(stored) \in Nat
    BY DEF SinkInv
  <1>3. Returned' \subseteq Returned
    BY <1>1 DEF Returned
  <1>4. Returned \subseteq Returned'
    BY <1>2 DEF Returned
  <1>5. \A p \in Returned : p[2] \in 1 .. Len(stored)
    BY DEF Returned
  <1>6. QED
    BY <1>3, <1>4, <1>5 DEF Size

LEMMA CountsStay ==
    ASSUME SinkInv, MetricsInv, tried' = tried, Len(stored') \in Nat,
           Len(stored) <= Len(stored'),
           \A b \in 1 .. Len(stored) : stored'[b] = stored[b],
           \A p \in Returned : Whole(p)' <=> Whole(p),
           metrics'.dispatched = metrics.dispatched,
           metrics'.dispatch_errors = metrics.dispatch_errors
    PROVE  CountsOK'
  <1>1. /\ Returned' = Returned
        /\ \A p \in Returned : Size(p[2])' = Size(p[2])
    BY ReturnedStays
  <1>2. Counted' = Counted /\ Short' = Short
    BY <1>1 DEF Counted, Short
  <1>3. \A p \in Counted : Size(p[2])' = Size(p[2])
    BY <1>1 DEF Counted
  <1>4. EventsOf(Counted)' = EventsOf(Counted)
    BY <1>2, <1>3 DEF EventsOf
  <1>5. QED
    BY <1>2, <1>4 DEF CountsOK, MetricsInv

(* A step that leaves the topics and what has returned alone.              *)
LEMMA MetricsStay ==
    ASSUME SinkInv, MetricsInv, UNCHANGED <<stored, topic, tried, metrics>>,
           TriedOK(stored, caller', QueueOf(workers'), WorkOf(workers'), tried),
           DispatchOK(stored, topic, WorkOf(workers'))
    PROVE  MetricsInv'
  <1>1. Len(stored) \in Nat
    BY DEF SinkInv
  <1>2. \A p : Whole(p)' <=> Whole(p)
    BY DEF Whole, Size
  <1>3. CountsOK'
    BY <1>1, <1>2, CountsStay
  <1>4. QED
    BY <1>3 DEF MetricsInv, QueueOf, WorkOf

-----------------------------------------------------------------------------
(* The metrics, step by step.                                              *)

LEMMA SinkCounts ==
    ASSUME SinkInv, MetricsInv, NEW t \in Callers, Sink(t)
    PROVE  MetricsInv'
  <1>0. PICK total \in 0 .. MaxSize : \E kept \in 0 .. total :
           /\ metrics' = [metrics EXCEPT !.parsed = @ + total, !.filtered = @ + total - kept]
           /\ IF kept = 0
              THEN UNCHANGED <<stored, caller>>
              ELSE /\ Len(stored) < MaxBatches
                   /\ stored' = Append(stored, [by |-> t, size |-> kept])
                   /\ caller' = IF Connectors = 0 THEN caller
                                ELSE [caller EXCEPT ![t] = Len(stored')]
    BY DEF Sink
  <1>1. PICK kept \in 0 .. total :
           /\ metrics' = [metrics EXCEPT !.parsed = @ + total, !.filtered = @ + total - kept]
           /\ IF kept = 0
              THEN UNCHANGED <<stored, caller>>
              ELSE /\ Len(stored) < MaxBatches
                   /\ stored' = Append(stored, [by |-> t, size |-> kept])
                   /\ caller' = IF Connectors = 0 THEN caller
                                ELSE [caller EXCEPT ![t] = Len(stored')]
    BY <1>0
  <1>2. /\ stored \in Seq(Batch) /\ Len(stored) \in Nat /\ metrics \in Metrics
        /\ caller \in [Callers -> Nat] /\ WorkOf(workers) \in WorkState
        /\ WorkOK(stored, QueueOf(workers), WorkOf(workers))
    BY SinkParts DEF SinkInv, Line
  <1>3. /\ metrics'.dispatched = metrics.dispatched
        /\ metrics'.dispatch_errors = metrics.dispatch_errors
    <2>1. PICK p, f : p = metrics.parsed + total /\ f = metrics.filtered + total - kept
      OBVIOUS
    <2>2. metrics' = [metrics EXCEPT !.parsed = p, !.filtered = f]
      BY <1>1, <2>1
    <2>3. QED
      BY <1>2, <2>2 DEF Metrics
  <1>4. UNCHANGED <<workers, topic, tried>>
    BY DEF Sink
  <1>5. CASE kept = 0
    <2>1. UNCHANGED <<stored, caller>>
      BY <1>1, <1>5
    <2>2. \A p : Whole(p)' <=> Whole(p)
      BY <1>4, <2>1 DEF Whole, Size
    <2>3. CountsOK'
      BY <1>2, <1>3, <1>4, <2>1, <2>2, CountsStay
    <2>4. QED
      BY <1>4, <2>1, <2>3 DEF MetricsInv, QueueOf, WorkOf
  <1>6. CASE kept # 0
    <2>1. PICK b \in Batch : b = [by |-> t, size |-> kept] /\ b.size # 0
      <3>1. [by |-> t, size |-> kept] \in Batch
        BY SinkAssumption DEF Batch
      <3>2. QED
        BY <1>6, <3>1
    <2>2. PICK st2 : st2 = Append(stored, b)
      OBVIOUS
    <2>3. /\ stored' = st2 /\ st2 \in Seq(Batch) /\ Len(st2) = Len(stored) + 1
          /\ \A i \in 1 .. Len(stored) : st2[i] = stored[i]
          /\ st2[Len(stored) + 1] = b
      BY <1>1, <1>2, <1>6, <2>1, <2>2, AppendProperties
    <2>4. \A i \in 1 .. Len(st2) : i \in 1 .. Len(stored) \/ i = Len(stored) + 1
      BY <1>2, <2>3
    <2>5. \A i \in 1 .. Len(st2) : st2[i].size # 0
      BY <2>1, <2>3, <2>4 DEF MetricsInv
    <2>6. \A u \in Callers : caller'[u] = caller[u] \/ caller'[u] = Len(stored) + 1
      BY <1>1, <1>2, <1>6, <2>3
    <2>7. TriedOK(st2, caller', QueueOf(workers), WorkOf(workers), tried)
      <3>1. TriedOK(stored, caller, QueueOf(workers), WorkOf(workers), tried)
        BY DEF MetricsInv
      <3>2. \A i \in 1 .. Len(stored) : i \in 1 .. Len(st2) /\ i # Len(stored) + 1
        BY <1>2, <2>3
      <3>3. QED
        BY <2>6, <3>1, <3>2 DEF TriedOK
    <2>8. DispatchOK(st2, topic, WorkOf(workers))
      BY <1>2, <2>3 DEF MetricsInv, DispatchOK, WorkOK
    <2>9. CountsOK'
      <3>1. \A p \in Returned : p[2] \in 1 .. Len(stored)
        BY DEF Returned
      <3>2. \A p \in Returned : Whole(p)' <=> Whole(p)
        BY <1>4, <2>3, <3>1 DEF Whole, Size
      <3>3. Len(stored') \in Nat /\ Len(stored) <= Len(stored')
        BY <1>2, <2>3
      <3>4. QED
        BY <1>3, <1>4, <2>3, <3>2, <3>3, CountsStay
    <2>10. QueueOf(workers') = QueueOf(workers) /\ WorkOf(workers') = WorkOf(workers)
      BY <1>4
    <2>11. QED
      BY <1>4, <2>3, <2>5, <2>7, <2>8, <2>9, <2>10 DEF MetricsInv
  <1>7. QED
    BY <1>5, <1>6

LEMMA EnqueueCounts ==
    ASSUME SinkInv, MetricsInv, NEW t \in Callers, Enqueue(t)
    PROVE  MetricsInv'
  <1>1. /\ caller[t] # 0 /\ caller' = [caller EXCEPT ![t] = 0]
        /\ UNCHANGED <<stored, topic, tried, metrics>> /\ SendToWorker(caller[t])
    BY DEF Enqueue
  <1>2. caller \in [Callers -> Nat] /\ alive
    BY <1>1 DEF SinkInv
  <1>3. PICK b \in Nat, q \in Seq(Nat) : b = caller[t] /\ q = QueueOf(workers)
    BY <1>2, SinkParts
  <1>4. QueueOf(workers') = Append(q, b) /\ WorkOf(workers') = WorkOf(workers)
    BY <1>1, <1>2, <1>3, SendQueues
  <1>5. PICK q2 : q2 = Append(q, b)
    OBVIOUS
  <1>6. \A i \in 1 .. Len(q2) : q2[i] = b \/ \E j \in 1 .. Len(q) : q2[i] = q[j]
    <2>1. /\ Len(q) \in Nat /\ Len(q2) = Len(q) + 1 /\ q2[Len(q) + 1] = b
          /\ \A i \in 1 .. Len(q) : q2[i] = q[i]
      BY <1>5, AppendProperties
    <2>2. \A i \in 1 .. Len(q2) : i \in 1 .. Len(q) \/ i = Len(q) + 1
      BY <2>1
    <2>3. QED
      BY <2>1, <2>2
  <1>7. TriedOK(stored, caller', q2, WorkOf(workers), tried)
    <2>1. TriedOK(stored, caller, q, WorkOf(workers), tried)
      BY <1>3 DEF MetricsInv
    <2>2. \A c \in 1 .. Connectors : \A x \in ToSet(tried[c]) :
             x \in 1 .. Len(stored) /\ x # 0 /\ x # b
      BY <1>3, <2>1 DEF TriedOK
    <2>3. \A u \in Callers : caller'[u] = caller[u] \/ caller'[u] = 0
      BY <1>1, <1>2
    <2>4. ASSUME NEW c \in 1 .. Connectors, NEW x \in ToSet(tried[c])
          PROVE  /\ x \in 1 .. Len(stored)
                 /\ \A i \in 1 .. Len(q2) : q2[i] # x
                 /\ \A u \in Callers : caller'[u] # x
                 /\ WorkOf(workers).batch = x => c < WorkOf(workers).with
      <3>1. /\ x \in 1 .. Len(stored)
            /\ \A i \in 1 .. Len(q) : q[i] # x
            /\ \A u \in Callers : caller[u] # x
            /\ WorkOf(workers).batch = x => c < WorkOf(workers).with
        BY <2>1 DEF TriedOK
      <3>2. x # 0 /\ x # b
        BY <2>2
      <3>3. \A i \in 1 .. Len(q2) : q2[i] # x
        BY <1>6, <3>1, <3>2
      <3>4. \A u \in Callers : caller'[u] # x
        BY <2>3, <3>1, <3>2
      <3>5. QED
        BY <3>1, <3>3, <3>4
    <2>5. QED
      BY <2>4 DEF TriedOK
  <1>8. DispatchOK(stored, topic, WorkOf(workers'))
    BY <1>4 DEF MetricsInv
  <1>9. TriedOK(stored, caller', QueueOf(workers'), WorkOf(workers'), tried)
    BY <1>4, <1>5, <1>7
  <1>10. QED
    BY <1>1, <1>8, <1>9, MetricsStay

LEMMA DropCounts ==
    ASSUME SinkInv, MetricsInv, Drop
    PROVE  MetricsInv'
  <1>1. /\ QueueOf(workers') = <<>> /\ WorkOf(workers') = Resting
        /\ UNCHANGED <<caller, stored, topic, tried, metrics>>
    BY DropEffect DEF Drop
  <1>2. Resting.batch = 0 /\ Len(<<>>) = 0 /\ 1 .. 0 = {}
    BY DEF Resting
  <1>3. DispatchOK(stored, topic, Resting)
    BY <1>2 DEF DispatchOK
  <1>4. TriedOK(stored, caller, <<>>, Resting, tried)
    <2>1. \A c \in 1 .. Connectors : \A b \in ToSet(tried[c]) :
             b \in 1 .. Len(stored) /\ b # 0 /\ \A t \in Callers : caller[t] # b
      BY DEF MetricsInv, TriedOK
    <2>2. QED
      BY <1>2, <2>1 DEF TriedOK
  <1>5. QED
    BY <1>1, <1>3, <1>4, MetricsStay

LEMMA TakeCounts ==
    ASSUME SinkInv, MetricsInv, NEW w, Take(w)
    PROVE  MetricsInv'
  <1>1. PICK q \in Seq(Nat) : q = QueueOf(workers) /\ q # <<>>
    BY TakeEffect
  <1>2. PICK b, q2, k2 : b = Head(q) /\ q2 = Tail(q) /\ k2 = Facing(b, 1)
    OBVIOUS
  <1>3. /\ QueueOf(workers') = q2 /\ WorkOf(workers') = k2
        /\ UNCHANGED <<caller, stored, topic, tried, metrics>>
    BY <1>1, <1>2, TakeEffect DEF Take
  <1>4. /\ Len(q) \in Nat /\ Len(q) >= 1 /\ b = q[1] /\ Len(q2) = Len(q) - 1
        /\ \A i \in 1 .. Len(q2) : q2[i] = q[i + 1] /\ i + 1 \in 1 .. Len(q)
    BY <1>1, <1>2, HeadTailProperties, EmptySeq
  <1>5. b \in 1 .. Len(stored) /\ b \in Nat
    BY <1>1, <1>4, SinkParts DEF Line, QueueOK
  <1>6. k2.batch = b /\ k2.sent = 0 /\ k2.flying = {} /\ ~ k2.failed
    BY <1>2, <1>5, FacingFacts DEF Facing, Resting
  <1>7. DispatchOK(stored, topic, k2)
    <2>1. stored[b].size \in Nat
      <3>1. stored \in Seq(Batch)
        BY SinkParts
      <3>2. stored[b] \in Batch
        BY <1>5, <3>1, ElementOfSeq
      <3>3. QED
        BY <3>2 DEF Batch
    <2>2. Missing(topic, k2) = {}
      BY <1>6 DEF Missing
    <2>3. QED
      BY <1>6, <2>1, <2>2 DEF DispatchOK
  <1>8. TriedOK(stored, caller, q2, k2, tried)
    <2>1. TriedOK(stored, caller, q, WorkOf(workers), tried)
      BY <1>1 DEF MetricsInv
    <2>2. 1 \in 1 .. Len(q)
      BY <1>4
    <2>3. ASSUME NEW c \in 1 .. Connectors, NEW x \in ToSet(tried[c])
          PROVE  /\ x \in 1 .. Len(stored)
                 /\ \A i \in 1 .. Len(q2) : q2[i] # x
                 /\ \A t \in Callers : caller[t] # x
                 /\ k2.batch = x => c < k2.with
      <3>1. /\ x \in 1 .. Len(stored) /\ \A t \in Callers : caller[t] # x
            /\ \A i \in 1 .. Len(q) : q[i] # x
        BY <2>1 DEF TriedOK
      <3>2. k2.batch # x
        BY <1>4, <1>6, <2>2, <3>1
      <3>3. QED
        BY <1>4, <3>1, <3>2
    <2>4. QED
      BY <2>3 DEF TriedOK
  <1>9. QED
    BY <1>3, <1>7, <1>8, MetricsStay

(* A step of the worker within a dispatch, before an answer is good.       *)
LEMMA SendsCounts ==
    ASSUME SinkInv, MetricsInv, NEW w, Busy(w), NEW k2 \in WorkState, SetWork(w, k2),
           UNCHANGED <<caller, stored, topic, tried, metrics>>,
           k2.batch = Work(w).batch, k2.with = Work(w).with,
           DispatchOK(stored, topic, k2)
    PROVE  MetricsInv'
  <1>1. w \in DOMAIN workers /\ Work(w) = WorkOf(workers)
    BY BusyParts
  <1>2. QueueOf(workers') = QueueOf(workers) /\ WorkOf(workers') = k2
    BY <1>1, WorkSteps
  <1>3. TriedOK(stored, caller, QueueOf(workers), WorkOf(workers), tried)
    BY DEF MetricsInv
  <1>4. TriedOK(stored, caller, QueueOf(workers), k2, tried)
    BY <1>1, <1>3 DEF TriedOK
  <1>5. TriedOK(stored, caller', QueueOf(workers'), WorkOf(workers'), tried)
    BY <1>2, <1>4
  <1>6. DispatchOK(stored, topic, WorkOf(workers'))
    BY <1>2
  <1>7. QED
    BY <1>5, <1>6, MetricsStay

(* The dispatch under way, opened.                                         *)
LEMMA DispatchParts ==
    ASSUME SinkInv, MetricsInv, NEW w, Busy(w)
    PROVE  \E k \in WorkState :
              /\ k = Work(w) /\ k = WorkOf(workers)
              /\ k.batch \in 1 .. Len(stored) /\ k.with \in 1 .. Connectors
              /\ k.batch \in Nat /\ k.batch # 0
              /\ k.sent \in Nat /\ k.flying \subseteq 1 .. k.sent
              /\ stored[k.batch].size \in Nat /\ stored[k.batch].size # 0
              /\ k.sent <= stored[k.batch].size
              /\ ~ k.sending => k.sent = 0
              /\ k.failed <=> Missing(topic, k) # {}
  <1>1. /\ Work(w) = WorkOf(workers) /\ Work(w) \in WorkState /\ Work(w).batch # 0
        /\ Work(w).batch \in 1 .. Len(stored) /\ Work(w).with \in 1 .. Connectors
        /\ Work(w).flying \subseteq 1 .. Work(w).sent
        /\ stored[Work(w).batch].size \in Nat
    BY BusyParts DEF Size
  <1>2. PICK k \in WorkState : k = Work(w)
    BY <1>1
  <1>3. DispatchOK(stored, topic, k) /\ stored[k.batch].size # 0
    BY <1>1, <1>2 DEF MetricsInv
  <1>4. k.batch \in Nat /\ k.sent \in Nat
    BY DEF WorkState
  <1>5. QED
    BY <1>1, <1>2, <1>3, <1>4 DEF DispatchOK

LEMMA BeginCounts ==
    ASSUME SinkInv, MetricsInv, NEW w, Begin(w)
    PROVE  MetricsInv'
  <1>1. Busy(w) /\ UNCHANGED <<caller, stored, topic, tried, metrics>>
    BY DEF Begin
  <1>2. PICK k \in WorkState :
           /\ k = Work(w) /\ k.sent <= stored[k.batch].size
           /\ k.failed <=> Missing(topic, k) # {}
    BY <1>1, DispatchParts
  <1>3. PICK k2 : k2 = [k EXCEPT !.sending = TRUE]
    OBVIOUS
  <1>4. /\ k2 \in WorkState /\ k2.batch = k.batch /\ k2.with = k.with /\ k2.sending
        /\ k2.sent = k.sent /\ k2.flying = k.flying /\ k2.failed = k.failed
    BY <1>3 DEF WorkState
  <1>5. SetWork(w, k2)
    BY <1>2, <1>3 DEF Begin
  <1>6. Missing(topic, k2) = Missing(topic, k)
    BY <1>4 DEF Missing
  <1>7. DispatchOK(stored, topic, k2)
    BY <1>2, <1>4, <1>6 DEF DispatchOK
  <1>8. QED
    BY <1>1, <1>2, <1>4, <1>5, <1>7, SendsCounts

LEMMA ProduceCounts ==
    ASSUME SinkInv, MetricsInv, NEW w, Produce(w)
    PROVE  MetricsInv'
  <1>1. Busy(w) /\ UNCHANGED <<caller, stored, topic, tried, metrics>>
    BY DEF Produce
  <1>2. PICK k \in WorkState :
           /\ k = Work(w) /\ k.sent \in Nat /\ k.flying \subseteq 1 .. k.sent
           /\ stored[k.batch].size \in Nat
           /\ k.failed <=> Missing(topic, k) # {}
    BY <1>1, DispatchParts
  <1>3. PICK n \in Nat, S \in SUBSET Nat : n = k.sent + 1 /\ S = k.flying
    BY <1>2 DEF WorkState
  <1>4. PICK k2 : k2 = [k EXCEPT !.sent = n, !.flying = S \cup {n}]
    OBVIOUS
  <1>5. /\ k2 \in WorkState /\ k2.batch = k.batch /\ k2.with = k.with
        /\ k2.sent = n /\ k2.flying = S \cup {n} /\ k2.failed = k.failed
        /\ k2.sending = k.sending
    BY <1>3, <1>4 DEF WorkState
  <1>6. SetWork(w, k2) /\ k.sending /\ k.sent < stored[k.batch].size
    BY <1>2, <1>3, <1>4 DEF Produce, Size
  <1>7. n <= stored[k.batch].size
    BY <1>2, <1>3, <1>6
  <1>8. (1 .. n) \ (S \cup {n}) = (1 .. k.sent) \ S
    BY <1>2, <1>3
  <1>9. Missing(topic, k2) = Missing(topic, k)
    BY <1>3, <1>5, <1>8 DEF Missing
  <1>10. DispatchOK(stored, topic, k2)
    BY <1>2, <1>5, <1>6, <1>7, <1>9 DEF DispatchOK
  <1>11. QED
    BY <1>1, <1>2, <1>5, <1>6, <1>10, SendsCounts

(* A message of the worker's batch is in the topic if it was answered.     *)
LEMMA FlyingIsNotConfirmed ==
    ASSUME SinkInv, NEW k \in WorkState, k = WorkOf(workers), k.batch # 0,
           k.with \in 1 .. Connectors, NEW m, m \notin (1 .. k.sent) \ k.flying
    PROVE  <<k.batch, m>> \notin ToSet(topic[k.with])
  <1>1. SUFFICES ASSUME <<k.batch, m>> \in ToSet(topic[k.with])
                 PROVE  FALSE
    OBVIOUS
  <1>2. topic[k.with] \in Seq(Message)
    BY SinkParts
  <1>3. PICK msg : msg = <<k.batch, m>>
    OBVIOUS
  <1>4. /\ msg \in Message
        /\ \E i \in 1 .. Len(topic[k.with]) : topic[k.with][i] = msg
    <2>1. PICK s \in Seq(Message) : s = topic[k.with]
      BY <1>2
    <2>2. \A y \in ToSet(s) : y \in Message /\ \E i \in 1 .. Len(s) : s[i] = y
      <3>1. PICK x \in Message : TRUE
        <4>1. <<0, 0>> \in Message
          BY DEF Message
        <4>2. QED
          BY <4>1
      <3>2. QED
        BY <3>1, ToSetAppend
    <2>3. QED
      BY <1>1, <1>3, <2>1, <2>2
  <1>m. msg[1] = k.batch /\ msg[2] = m
    BY <1>3
  <1>5. MessageOK(stored, QueueOf(workers), k, k.with, msg)
    BY <1>2, <1>4, SinkParts DEF Line, TopicOK
  <1>6. k.batch \in Nat /\ k.with \in Nat
    BY DEF WorkState
  <1>7. ~ Precedes(stored, k.batch, k.batch) /\ ~ k.with < k.with
    BY <1>6 DEF Precedes
  <1>8. QED
    BY <1>m, <1>5, <1>7 DEF MessageOK

LEMMA FailedCounts ==
    ASSUME SinkInv, MetricsInv, NEW w, Failed(w)
    PROVE  MetricsInv'
  <1>1. Busy(w) /\ UNCHANGED <<caller, stored, topic, tried, metrics>>
    BY DEF Failed
  <1>2. PICK k \in WorkState :
           /\ k = Work(w) /\ k = WorkOf(workers) /\ k.batch # 0
           /\ k.with \in 1 .. Connectors
           /\ k.sent \in Nat /\ k.flying \subseteq 1 .. k.sent
           /\ k.sent <= stored[k.batch].size
           /\ ~ k.sending => k.sent = 0
    BY <1>1, DispatchParts
  <1>3. PICK m \in k.flying : SetWork(w, [k EXCEPT !.flying = @ \ {m}, !.failed = TRUE])
    BY <1>2 DEF Failed
  <1>4. PICK k2 : k2 = [k EXCEPT !.flying = @ \ {m}, !.failed = TRUE]
    OBVIOUS
  <1>5. /\ k2 \in WorkState /\ k2.batch = k.batch /\ k2.with = k.with
        /\ k2.sent = k.sent /\ k2.flying = k.flying \ {m}
        /\ k2.sending = k.sending /\ k2.failed
    BY <1>4 DEF WorkState
  <1>6. <<k.batch, m>> \notin ToSet(topic[k.with])
    BY <1>2, FlyingIsNotConfirmed
  <1>7. m \in Missing(topic, k2)
    BY <1>2, <1>5, <1>6 DEF Missing
  <1>8. DispatchOK(stored, topic, k2)
    BY <1>2, <1>5, <1>7 DEF DispatchOK
  <1>9. QED
    BY <1>1, <1>2, <1>3, <1>4, <1>5, <1>8, SendsCounts

(* The dispatch under way has not returned before.                         *)
LEMMA NotYetReturned ==
    ASSUME SinkInv, MetricsInv, NEW k \in WorkState, k = WorkOf(workers),
           k.with \in 1 .. Connectors
    PROVE  k.batch \notin ToSet(tried[k.with])
  <1>1. TriedOK(stored, caller, QueueOf(workers), k, tried)
    BY DEF MetricsInv
  <1>2. k.with \in Nat
    BY DEF WorkState
  <1>3. ~ k.with < k.with
    BY <1>2
  <1>4. QED
    BY <1>1, <1>3 DEF TriedOK

(* The broker confirms a message: one of the worker's batch, so no         *)
(* dispatch that has returned becomes whole by it.                         *)
LEMMA DeliveredCounts ==
    ASSUME SinkInv, MetricsInv, NEW w, Delivered(w)
    PROVE  MetricsInv'
  <1>1. Busy(w) /\ UNCHANGED <<caller, stored, tried, metrics>>
    BY DEF Delivered
  <1>2. PICK k \in WorkState :
           /\ k = Work(w) /\ k = WorkOf(workers) /\ k.batch # 0 /\ k.batch \in Nat
           /\ k.with \in 1 .. Connectors
           /\ k.sent \in Nat /\ k.flying \subseteq 1 .. k.sent
           /\ k.sent <= stored[k.batch].size
           /\ ~ k.sending => k.sent = 0
           /\ k.failed <=> Missing(topic, k) # {}
    BY <1>1, DispatchParts
  <1>3. PICK m \in k.flying :
           /\ topic' = [topic EXCEPT ![k.with] = Append(topic[k.with], <<k.batch, m>>)]
           /\ SetWork(w, [k EXCEPT !.flying = @ \ {m}])
    BY <1>2 DEF Delivered
  <1>4. PICK k2 : k2 = [k EXCEPT !.flying = @ \ {m}]
    OBVIOUS
  <1>5. /\ k2 \in WorkState /\ k2.batch = k.batch /\ k2.with = k.with
        /\ k2.sent = k.sent /\ k2.flying = k.flying \ {m}
        /\ k2.sending = k.sending /\ k2.failed = k.failed
    BY <1>4 DEF WorkState
  <1>6. PICK msg \in Message : msg = <<k.batch, m>>
    <2>1. k.batch \in Nat /\ m \in Nat
      BY <1>2
    <2>2. <<k.batch, m>> \in Message
      BY <2>1 DEF Message
    <2>3. QED
      BY <2>2
  <1>7. topic \in [1 .. Connectors -> Seq(Message)] /\ topic[k.with] \in Seq(Message)
    BY <1>2, SinkParts
  <1>8. PICK s : s = Append(topic[k.with], msg)
    OBVIOUS
  <1>9. /\ topic'[k.with] = s
        /\ \A c \in 1 .. Connectors : c # k.with => topic'[c] = topic[c]
    BY <1>2, <1>3, <1>6, <1>7, <1>8
  <1>10. ToSet(s) = ToSet(topic[k.with]) \cup {msg}
    BY <1>7, <1>8, ToSetAppend
  <1>11. Missing(topic', k2) = Missing(topic, k)
    <2>1. (1 .. k2.sent) \ k2.flying = ((1 .. k.sent) \ k.flying) \cup {m}
      BY <1>2, <1>5
    <2>2. \A i : i # m => <<k.batch, i>> # msg
      BY <1>6
    <2>3. QED
      BY <1>5, <1>6, <1>9, <1>10, <2>1, <2>2 DEF Missing
  <1>12. DispatchOK(stored, topic', k2)
    BY <1>2, <1>5, <1>11 DEF DispatchOK
  <1>13. QueueOf(workers') = QueueOf(workers) /\ WorkOf(workers') = k2
    <2>1. SetWork(w, k2) /\ w \in DOMAIN workers
      BY <1>1, <1>3, <1>4, BusyParts
    <2>2. QED
      BY <1>5, <2>1, WorkSteps
  <1>14. TriedOK(stored, caller, QueueOf(workers), k2, tried)
    <2>1. TriedOK(stored, caller, QueueOf(workers), k, tried)
      BY <1>2 DEF MetricsInv
    <2>2. QED
      BY <1>5, <2>1 DEF TriedOK
  <1>15. ASSUME NEW p \in Returned
         PROVE  Whole(p)' <=> Whole(p)
    <2>1. p[1] \in 1 .. Connectors /\ p[2] \in ToSet(tried[p[1]])
      BY DEF Returned
    <2>2. CASE p[1] = k.with
      <3>1. p[2] # k.batch
        BY <1>2, <2>1, <2>2, NotYetReturned
      <3>2. \A i : <<p[2], i>> # msg
        BY <1>6, <3>1
      <3>3. QED
        BY <1>1, <1>9, <1>10, <2>2, <3>2 DEF Whole, Size
    <2>3. CASE p[1] # k.with
      BY <1>1, <1>9, <2>1, <2>3 DEF Whole, Size
    <2>4. QED
      BY <2>2, <2>3
  <1>16. CountsOK'
    <2>1. Len(stored') \in Nat /\ Len(stored) <= Len(stored')
      BY <1>1, SinkParts
    <2>2. QED
      BY <1>1, <1>15, <2>1, CountsStay
  <1>17. /\ TriedOK(stored', caller', QueueOf(workers'), WorkOf(workers'), tried')
         /\ DispatchOK(stored', topic', WorkOf(workers'))
    BY <1>1, <1>12, <1>13, <1>14
  <1>18. /\ tried' \in [1 .. Connectors -> Seq(Nat)]
         /\ \A b \in 1 .. Len(stored') : stored'[b].size # 0
    BY <1>1 DEF MetricsInv
  <1>19. QED
    BY <1>16, <1>17, <1>18 DEF MetricsInv

(* A dispatch returns for the first time, and is counted by what it came   *)
(* to.                                                                     *)
LEMMA ReturnedCounts ==
    ASSUME SinkInv, MetricsInv, NEW w, Busy(w), NEW ok \in BOOLEAN, Return(w, ok),
           UNCHANGED <<stored, topic>>,
           ok <=> Whole(<<Work(w).with, Work(w).batch>>)
    PROVE  CountsOK'
  <1>1. PICK k \in WorkState :
           /\ k = Work(w) /\ k = WorkOf(workers) /\ k.batch \in Nat
           /\ k.batch \in 1 .. Len(stored) /\ k.with \in 1 .. Connectors
           /\ stored[k.batch].size \in Nat
    BY DispatchParts
  <1>2. PICK p : p = <<k.with, k.batch>>
    OBVIOUS
  <1>3. p[1] = k.with /\ p[2] = k.batch
    BY <1>2
  <1>4. p \notin Returned
    BY <1>1, <1>3, NotYetReturned DEF Returned
  <1>5. Returned' = Returned \cup {p}
    <2>1. tried \in [1 .. Connectors -> Seq(Nat)] /\ tried[k.with] \in Seq(Nat)
      BY <1>1 DEF MetricsInv
    <2>2. PICK s : s = Append(tried[k.with], k.batch)
      OBVIOUS
    <2>3. tried' = [tried EXCEPT ![k.with] = s]
      BY <1>1, <2>2 DEF Return
    <2>4. ToSet(s) = ToSet(tried[k.with]) \cup {k.batch}
      <3>1. PICK r \in Seq(Nat), b \in Nat : r = tried[k.with] /\ b = k.batch
        BY <1>1, <2>1
      <3>2. ToSet(Append(r, b)) = ToSet(r) \cup {b}
        BY ToSetAppend
      <3>3. QED
        BY <2>2, <3>1, <3>2
    <2>5. \A c \in 1 .. Connectors :
             ToSet(tried'[c]) = IF c = k.with THEN ToSet(tried[c]) \cup {k.batch}
                                ELSE ToSet(tried[c])
      BY <2>1, <2>3, <2>4
    <2>6. PICK P : P = (1 .. Connectors) \X (1 .. Len(stored))
      OBVIOUS
    <2>7. p \in P /\ \A r \in P : r[1] \in 1 .. Connectors /\ r = <<r[1], r[2]>>
      BY <1>1, <1>2, <2>6
    <2>8. \A r \in P : r[1] = k.with /\ r[2] = k.batch <=> r = p
      BY <1>2, <1>3, <2>7
    <2>9. /\ Returned = {r \in P : r[2] \in ToSet(tried[r[1]])}
          /\ Returned' = {r \in P : r[2] \in ToSet(tried'[r[1]])}
      BY <2>6 DEF Returned
    <2>10. \A r \in P : r[2] \in ToSet(tried'[r[1]]) <=> r[2] \in ToSet(tried[r[1]]) \/ r = p
      BY <2>5, <2>7, <2>8
    <2>11. QED
      BY <2>7, <2>9, <2>10
  <1>6. \A r : Whole(r)' <=> Whole(r)
    BY DEF Whole, Size
  <1>7. \A S : EventsOf(S)' = EventsOf(S)
    BY DEF EventsOf, Size
  <1>8. /\ IsFiniteSet(Short) /\ IsFiniteSet(EventsOf(Counted))
        /\ metrics.dispatched = Cardinality(EventsOf(Counted))
        /\ metrics.dispatch_errors = Cardinality(Short)
    BY DEF MetricsInv, CountsOK
  <1>9. /\ metrics \in Metrics /\ metrics' = Count(w, ok)
        /\ Size(p[2]) = stored[k.batch].size /\ Size(Work(w).batch) = Size(p[2])
    BY <1>1, <1>3 DEF SinkInv, Return, Size
  <1>10. CASE ok
    <2>1. Whole(p)
      BY <1>1, <1>2, <1>10
    <2>2. Counted' = Counted \cup {p} /\ Short' = Short
      BY <1>5, <1>6, <2>1 DEF Counted, Short
    <2>3. p \notin Counted /\ Size(p[2]) \in Nat
      BY <1>1, <1>4, <1>9 DEF Counted
    <2>4. /\ IsFiniteSet(EventsOf(Counted \cup {p}))
          /\ Cardinality(EventsOf(Counted \cup {p}))
             = Cardinality(EventsOf(Counted)) + Size(p[2])
      BY <1>8, <2>3, EventsGrow
    <2>5. PICK n : n = metrics.dispatched + Size(p[2])
      OBVIOUS
    <2>6. metrics' = [metrics EXCEPT !.dispatched = n]
      BY <1>9, <1>10, <2>5 DEF Count
    <2>7. metrics'.dispatched = n /\ metrics'.dispatch_errors = metrics.dispatch_errors
      BY <1>9, <2>6 DEF Metrics
    <2>8. EventsOf(Counted)' = EventsOf(Counted \cup {p})
      BY <2>2 DEF EventsOf, Size
    <2>9. QED
      BY <1>8, <2>2, <2>4, <2>5, <2>7, <2>8 DEF CountsOK
  <1>11. CASE ~ ok
    <2>1. ~ Whole(p)
      BY <1>1, <1>2, <1>11
    <2>2. Counted' = Counted /\ Short' = Short \cup {p}
      BY <1>5, <1>6, <2>1 DEF Counted, Short
    <2>3. p \notin Short
      BY <1>4 DEF Short
    <2>4. IsFiniteSet(Short \cup {p}) /\ Cardinality(Short \cup {p}) = Cardinality(Short) + 1
      BY <1>8, <2>3, FS_AddElement
    <2>5. PICK n : n = metrics.dispatch_errors + 1
      OBVIOUS
    <2>6. metrics' = [metrics EXCEPT !.dispatch_errors = n]
      BY <1>9, <1>11, <2>5 DEF Count
    <2>7. metrics'.dispatch_errors = n /\ metrics'.dispatched = metrics.dispatched
      BY <1>9, <2>6 DEF Metrics
    <2>8. EventsOf(Counted)' = EventsOf(Counted)
      BY <2>2 DEF EventsOf, Size
    <2>9. QED
      BY <1>8, <2>2, <2>4, <2>5, <2>7, <2>8 DEF CountsOK
  <1>12. QED
    BY <1>10, <1>11

LEMMA ReturnCounts ==
    ASSUME SinkInv, MetricsInv, NEW w, Busy(w), NEW ok \in BOOLEAN, Return(w, ok),
           UNCHANGED <<caller, stored, topic>>,
           ok <=> Whole(<<Work(w).with, Work(w).batch>>)
    PROVE  MetricsInv'
  <1>1. PICK k \in WorkState :
           /\ k = Work(w) /\ k = WorkOf(workers) /\ k.batch \in Nat /\ k.batch # 0
           /\ k.batch \in 1 .. Len(stored) /\ k.with \in 1 .. Connectors
           /\ stored[k.batch].size \in Nat
    BY DispatchParts
  <1>2. PICK k2 : k2 = Onwards(w, ok)
    OBVIOUS
  <1>3. /\ k2 \in WorkState /\ k2.sent = 0 /\ k2.flying = {} /\ ~ k2.failed
        /\ k2.batch # 0 => k2.batch = k.batch /\ k2.with = k.with + 1
    <2>1. CASE k.with < Connectors
      <3>1. k2 = Facing(k.batch, k.with + 1)
        BY <1>1, <1>2, <2>1 DEF Onwards
      <3>2. k.with + 1 \in Nat
        BY <1>1
      <3>3. ~ k2.failed
        BY <3>1 DEF Facing, Resting
      <3>4. QED
        BY <1>1, <3>1, <3>2, <3>3, FacingFacts
    <2>2. CASE ~ k.with < Connectors
      <3>1. k2 = Resting
        BY <1>1, <1>2, <2>2 DEF Onwards
      <3>2. QED
        BY <3>1 DEF Resting, WorkState
    <2>3. QED
      BY <2>1, <2>2
  <1>4. QueueOf(workers') = QueueOf(workers) /\ WorkOf(workers') = k2
    <2>1. SetWork(w, k2) /\ w \in DOMAIN workers
      BY <1>2, BusyParts DEF Return
    <2>2. QED
      BY <1>3, <2>1, WorkSteps
  <1>5. PICK s : s = Append(tried[k.with], k.batch)
    OBVIOUS
  <1>6. tried \in [1 .. Connectors -> Seq(Nat)] /\ tried[k.with] \in Seq(Nat)
    BY <1>1 DEF MetricsInv
  <1>7. s \in Seq(Nat) /\ ToSet(s) = ToSet(tried[k.with]) \cup {k.batch}
    <2>1. s \in Seq(Nat)
      BY <1>1, <1>5, <1>6, AppendProperties
    <2>2. ToSet(s) = ToSet(tried[k.with]) \cup {k.batch}
      <3>1. PICK r \in Seq(Nat), b \in Nat : r = tried[k.with] /\ b = k.batch
        BY <1>1, <1>6
      <3>2. ToSet(Append(r, b)) = ToSet(r) \cup {b}
        BY ToSetAppend
      <3>3. QED
        BY <1>5, <3>1, <3>2
    <2>3. QED
      BY <2>1, <2>2
  <1>8. /\ tried' \in [1 .. Connectors -> Seq(Nat)]
        /\ tried'[k.with] = s
        /\ \A c \in 1 .. Connectors : c # k.with => tried'[c] = tried[c]
    <2>1. tried' = [tried EXCEPT ![k.with] = s]
      BY <1>1, <1>5 DEF Return
    <2>2. QED
      BY <1>1, <1>6, <1>7, <2>1
  <1>9. PICK q \in Seq(Nat) : q = QueueOf(workers)
    BY SinkParts
  <1>10. /\ \A i \in 1 .. Len(q) : q[i] # k.batch
         /\ \A t \in Callers : caller[t] # k.batch
    <2>1. ~ Precedes(stored, k.batch, k.batch)
      BY <1>1 DEF Precedes
    <2>2. Line(stored, caller, q, k, topic)
      BY <1>1, <1>9, SinkParts
    <2>3. \A i \in 1 .. Len(q) : Precedes(stored, k.batch, q[i])
      BY <1>1, <2>2 DEF Line, WorkOK
    <2>4. \A t \in Callers : caller[t] # 0 => Precedes(stored, k.batch, caller[t])
      BY <1>1, <2>2 DEF Line, CallersOK
    <2>5. QED
      BY <1>1, <2>1, <2>3, <2>4
  <1>11. TriedOK(stored, caller, q, k2, tried')
    <2>1. TriedOK(stored, caller, q, k, tried)
      BY <1>1, <1>9 DEF MetricsInv
    <2>2. SUFFICES ASSUME NEW c \in 1 .. Connectors, NEW b \in ToSet(tried'[c])
                   PROVE  /\ b \in 1 .. Len(stored)
                          /\ \A i \in 1 .. Len(q) : q[i] # b
                          /\ \A t \in Callers : caller[t] # b
                          /\ k2.batch = b => c < k2.with
      BY DEF TriedOK
    <2>3. b \in ToSet(tried[c]) \/ (c = k.with /\ b = k.batch)
      <3>1. CASE c = k.with
        BY <1>7, <1>8, <3>1
      <3>2. CASE c # k.with
        BY <1>8, <3>2
      <3>3. QED
        BY <3>1, <3>2
    <2>4. CASE b \in ToSet(tried[c])
      <3>1. /\ b \in 1 .. Len(stored)
            /\ \A i \in 1 .. Len(q) : q[i] # b
            /\ \A t \in Callers : caller[t] # b
            /\ k.batch = b => c < k.with
        BY <2>1, <2>4 DEF TriedOK
      <3>2. b # 0
        BY <3>1
      <3>3. k2.batch = b => c < k2.with
        BY <1>1, <1>3, <3>1, <3>2
      <3>4. QED
        BY <3>1, <3>3
    <2>5. CASE c = k.with /\ b = k.batch
      <3>1. k2.batch = b => c < k2.with
        BY <1>1, <1>3, <2>5
      <3>2. QED
        BY <1>1, <1>10, <2>5, <3>1
    <2>6. QED
      BY <2>3, <2>4, <2>5
  <1>12. DispatchOK(stored, topic, k2)
    <2>1. Missing(topic, k2) = {}
      BY <1>3 DEF Missing
    <2>2. QED
      BY <1>1, <1>3, <2>1 DEF DispatchOK
  <1>13. CountsOK'
    BY ReturnedCounts
  <1>14. QED
    BY <1>4, <1>8, <1>9, <1>11, <1>12, <1>13 DEF MetricsInv

(* The connector was not connected: nothing of the batch is in its topic.  *)
LEMMA NotConnectedCounts ==
    ASSUME SinkInv, MetricsInv, NEW w, NotConnected(w)
    PROVE  MetricsInv'
  <1>1. /\ Busy(w) /\ ~ Work(w).sending /\ Return(w, FALSE)
        /\ UNCHANGED <<caller, stored, topic>>
    BY DEF NotConnected
  <1>2. PICK k \in WorkState :
           /\ k = Work(w) /\ k = WorkOf(workers) /\ k.batch # 0
           /\ k.with \in 1 .. Connectors
           /\ stored[k.batch].size \in Nat /\ stored[k.batch].size # 0
           /\ ~ k.sending => k.sent = 0
    BY <1>1, DispatchParts
  <1>3. 1 \notin (1 .. k.sent) \ k.flying
    BY <1>1, <1>2
  <1>4. <<k.batch, 1>> \notin ToSet(topic[k.with])
    BY <1>2, <1>3, FlyingIsNotConfirmed
  <1>a. PICK p : p = <<k.with, k.batch>>
    OBVIOUS
  <1>5. p = <<k.with, k.batch>> /\ p[1] = k.with /\ p[2] = k.batch
    BY <1>a
  <1>6. 1 \in 1 .. Size(p[2])
    BY <1>2, <1>5 DEF Size
  <1>7. ~ Whole(p)
    BY <1>4, <1>5, <1>6 DEF Whole
  <1>8. QED
    BY <1>1, <1>2, <1>5, <1>7, ReturnCounts

(* All answers are in: the dispatch is Ok exactly if every message of the  *)
(* batch is in the topic.                                                  *)
LEMMA FinishCounts ==
    ASSUME SinkInv, MetricsInv, NEW w, Finish(w)
    PROVE  MetricsInv'
  <1>1. /\ Busy(w) /\ AllAnswered(w) /\ Return(w, ~ Work(w).failed)
        /\ UNCHANGED <<caller, stored, topic>>
    BY DEF Finish
  <1>2. PICK k \in WorkState :
           /\ k = Work(w) /\ k.with \in 1 .. Connectors
           /\ k.failed <=> Missing(topic, k) # {}
    BY <1>1, DispatchParts
  <1>3. k.sent = Size(k.batch) /\ k.flying = {}
    BY <1>1, <1>2 DEF AllAnswered
  <1>a. PICK p : p = <<k.with, k.batch>>
    OBVIOUS
  <1>4. p = <<k.with, k.batch>> /\ p[1] = k.with /\ p[2] = k.batch
    BY <1>a
  <1>5. Whole(p) <=> Missing(topic, k) = {}
    BY <1>3, <1>4 DEF Whole, Missing
  <1>6. PICK ok \in BOOLEAN : ok = ~ Work(w).failed
    OBVIOUS
  <1>7. ok <=> Whole(p)
    BY <1>2, <1>5, <1>6
  <1>8. QED
    BY <1>1, <1>2, <1>4, <1>6, <1>7, ReturnCounts

LEMMA MetricsStart == Init => MetricsInv
  <1> SUFFICES ASSUME Init PROVE MetricsInv
    OBVIOUS
  <1>1. /\ stored = <<>> /\ workers = <<>>
        /\ tried = [c \in 1 .. Connectors |-> <<>>]
        /\ metrics.dispatched = 0 /\ metrics.dispatch_errors = 0
    BY DEF Init
  <1>2. WorkOf(workers) = Resting /\ Resting.batch = 0
    BY <1>1 DEF WorkOf, Resting
  <1>3. \A c \in 1 .. Connectors : tried[c] = <<>>
    BY <1>1
  <1>4. ToSet(<<>>) = {}
    BY DEF ToSet
  <1>5. \A c \in 1 .. Connectors : ToSet(tried[c]) = {}
    BY <1>3, <1>4
  <1>6. tried \in [1 .. Connectors -> Seq(Nat)] /\ 1 .. Len(stored) = {}
    BY <1>1
  <1>7. Returned = {}
    BY <1>6 DEF Returned
  <1>8. Counted = {} /\ Short = {} /\ EventsOf({}) = {}
    BY <1>7 DEF Counted, Short, EventsOf
  <1>9. CountsOK
    BY <1>1, <1>8, FS_EmptySet DEF CountsOK
  <1>10. QED
    BY <1>2, <1>5, <1>6, <1>9 DEF MetricsInv, TriedOK, DispatchOK

LEMMA MetricsStep == SinkInv /\ MetricsInv /\ [Next]_vars => MetricsInv'
  <1> SUFFICES ASSUME SinkInv, MetricsInv, [Next]_vars PROVE MetricsInv'
    OBVIOUS
  <1>1. ASSUME NEW t \in Callers, Sink(t) PROVE MetricsInv'
    BY <1>1, SinkCounts
  <1>2. ASSUME NEW t \in Callers, Enqueue(t) PROVE MetricsInv'
    BY <1>2, EnqueueCounts
  <1>3. CASE Drop
    BY <1>3, DropCounts
  <1>4. ASSUME NEW w \in 1 .. MaxBatches, WorkerStep(w) PROVE MetricsInv'
    <2>1. CASE Take(w) \/ NotConnected(w) \/ Begin(w)
      BY <2>1, TakeCounts, NotConnectedCounts, BeginCounts
    <2>2. CASE Produce(w) \/ Delivered(w)
      BY <2>2, ProduceCounts, DeliveredCounts
    <2>3. CASE Failed(w) \/ Finish(w)
      BY <2>3, FailedCounts, FinishCounts
    <2>4. QED
      BY <1>4, <2>1, <2>2, <2>3 DEF WorkerStep
  <1>5. ASSUME UNCHANGED <<caller, stored, workers, topic, tried, metrics>>
        PROVE  MetricsInv'
    <2>1. /\ TriedOK(stored, caller', QueueOf(workers'), WorkOf(workers'), tried)
          /\ DispatchOK(stored, topic, WorkOf(workers'))
      BY <1>5 DEF MetricsInv
    <2>2. QED
      BY <1>5, <2>1, MetricsStay
  <1>6. ASSUME NEW c \in 1 .. Connectors, Connect(c) \/ Close(c) PROVE MetricsInv'
    BY <1>5, <1>6 DEF Connect, Close
  <1>7. CASE UNCHANGED vars
    BY <1>5, <1>7 DEF vars
  <1>8. QED
    BY <1>1, <1>2, <1>3, <1>4, <1>6, <1>7 DEF Next

(* MetricsTellTheTruth: the events counted as dispatched are those of the  *)
(* batches a connector has confirmed in full, and every dispatch that fell *)
(* short is one error (sink.rs:122-128, kafka.rs:282-303), for any number  *)
(* of callers, connectors, permits and batches.                            *)
THEOREM MetricsCorrect == Spec => []MetricsTellTheTruth
  <1>1. MetricsInv => MetricsTellTheTruth
    BY DEF MetricsInv, CountsOK, MetricsTellTheTruth, Counted, Short
  <1>2. QED
    BY <1>1, InitEstablishes, StepPreserves, MetricsStart, MetricsStep, PTL DEF Spec
=============================================================================
