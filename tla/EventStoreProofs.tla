-------------------------- MODULE EventStoreProofs --------------------------
(***************************************************************************)
(* Proofs about EventStore, for every capacity, every set of readers and   *)
(* every set of positions and times.                                       *)
(***************************************************************************)
EXTENDS EventStore, SequenceTheorems, TLAPS

-----------------------------------------------------------------------------
(* The order of positions.                                                 *)

(* Ord::cmp on LogPosition is a total order.                               *)
LEMMA PosOrder ==
    ASSUME NEW p \in Position, NEW q \in Position, NEW r \in Position
    PROVE  /\ PosLess(p, q) \/ p = q \/ PosLess(q, p)
           /\ ~ PosLess(p, p)
           /\ PosLess(p, q) => ~ PosLess(q, p)
           /\ PosLess(p, q) /\ PosLess(q, r) => PosLess(p, r)
  BY DEF Position, PosLess

(* What put_batch computes for a batch of n events: it drains only when    *)
(* there is too little room, truncates only after draining everything, and *)
(* ends within the capacity with at least one event of the batch.          *)
LEMMA Cuts ==
    ASSUME Len(buffer) \in Nat, Len(buffer) <= Capacity, NEW n \in Nat \ {0}
    PROVE  /\ DrainCount(n) \in 0 .. Len(buffer)
           /\ SkipCount(n) \in 0 .. n - 1
           /\ SkipCount(n) > 0 => DrainCount(n) = Len(buffer)
           /\ Len(buffer) - DrainCount(n) + n - SkipCount(n) <= Capacity
  <1> DEFINE m == Len(buffer)
  <1>1. m \in Nat /\ m <= Capacity /\ Capacity \in Nat \ {0} /\ n \in Nat \ {0}
    BY CapacityAssumption
  <1>2. DrainCount(n) = IF m + n > Capacity
                        THEN IF m + n - Capacity <= m THEN m + n - Capacity ELSE m
                        ELSE 0
    BY DEF DrainCount, Least
  <1>3. SkipCount(n) = IF n > Capacity THEN n - Capacity ELSE 0
    BY DEF SkipCount
  <1> HIDE DEF m
  <1>4. /\ DrainCount(n) \in 0 .. m
        /\ SkipCount(n) \in 0 .. n - 1
        /\ SkipCount(n) > 0 => DrainCount(n) = m
        /\ m - DrainCount(n) + n - SkipCount(n) <= Capacity
    BY <1>1, <1>2, <1>3
  <1>5. QED
    BY <1>4 DEF m

(* The batch the environment feeds is a sequence of events.                *)
LEMMA NumberedType ==
    ASSUME NEW n \in 1 .. MaxBatch, NEW headers \in [1 .. n -> Header],
           log \in Seq(Event)
    PROVE  /\ Numbered(headers) \in Seq(Event)
           /\ Len(Numbered(headers)) = n
           /\ \A i \in 1 .. n : /\ Numbered(headers)[i] \in Event
                                /\ Numbered(headers)[i].pos = headers[i].pos
                                /\ Numbered(headers)[i].row = Len(log) + i
  <1>1. n \in Nat /\ 1 .. Len(headers) = 1 .. n /\ Len(headers) = n /\ headers \in Seq(Header)
    BY BoundsAssumption
  <1>2. Len(log) \in Nat
    OBVIOUS
  <1>3. \A i \in 1 .. n : Len(log) + i \in Nat
    BY <1>1, <1>2
  <1>4. \A i \in 1 .. n : headers[i].pos \in Position /\ headers[i].time \in Nat
                          /\ headers[i].table \in Tables
    BY <1>1, EventsAssumption DEF Header
  <1>5. \A i \in 1 .. n :
           [pos |-> headers[i].pos, time |-> headers[i].time,
            table |-> headers[i].table, row |-> Len(log) + i] \in Event
    BY <1>3, <1>4 DEF Event
  <1>6. Numbered(headers) \in [1 .. n -> Event]
    BY <1>1, <1>5 DEF Numbered
  <1>7. Numbered(headers) \in Seq(Event) /\ Len(Numbered(headers)) = n
    BY <1>1, <1>6
  <1>8. QED
    BY <1>1, <1>6, <1>7 DEF Numbered

(* Sequences, element by element: a slice.                                 *)
LEMMA Slice ==
    ASSUME NEW S, NEW s \in Seq(S), NEW m \in 1 .. Len(s) + 1, NEW n \in m - 1 .. Len(s)
    PROVE  /\ SubSeq(s, m, n) \in Seq(S)
           /\ Len(SubSeq(s, m, n)) = n - m + 1
           /\ \A i \in 1 .. n - m + 1 : SubSeq(s, m, n)[i] = s[m + i - 1]
  <1>1. Len(s) \in Nat /\ m \in Int /\ n \in Int
    BY LenProperties
  <1>2. \A i \in m .. n : s[i] \in S
    BY <1>1, ElementOfSeq
  <1>3. /\ SubSeq(s, m, n) \in Seq(S)
        /\ Len(SubSeq(s, m, n)) = IF m <= n THEN n - m + 1 ELSE 0
        /\ \A i \in 1 .. n - m + 1 : SubSeq(s, m, n)[i] = s[m + i - 1]
    BY <1>1, <1>2, SubSeqProperties
  <1>4. QED
    BY <1>1, <1>3

(* A sequence without its first events (VecDeque::drain(..d)).             *)
LEMMA DropFront ==
    ASSUME NEW S, NEW s \in Seq(S), NEW d \in 0 .. Len(s)
    PROVE  /\ SubSeq(s, d + 1, Len(s)) \in Seq(S)
           /\ Len(SubSeq(s, d + 1, Len(s))) = Len(s) - d
           /\ \A i \in 1 .. Len(s) - d : SubSeq(s, d + 1, Len(s))[i] = s[d + i]
  <1>1. Len(s) \in Nat
    BY LenProperties
  <1>2. d + 1 \in 1 .. Len(s) + 1 /\ Len(s) \in (d + 1) - 1 .. Len(s)
    BY <1>1
  <1>3. /\ SubSeq(s, d + 1, Len(s)) \in Seq(S)
        /\ Len(SubSeq(s, d + 1, Len(s))) = Len(s) - (d + 1) + 1
        /\ \A i \in 1 .. Len(s) - (d + 1) + 1 :
              SubSeq(s, d + 1, Len(s))[i] = s[(d + 1) + i - 1]
    BY <1>2, Slice
  <1>4. Len(s) - (d + 1) + 1 = Len(s) - d
    BY <1>1
  <1>5. \A i \in 1 .. Len(s) - d : (d + 1) + i - 1 = d + i
    BY <1>1
  <1>6. QED
    BY <1>3, <1>4, <1>5, Zenon

(* Two sequences, one after the other (VecDeque::extend).                  *)
LEMMA Joined ==
    ASSUME NEW S, NEW s \in Seq(S), NEW t \in Seq(S)
    PROVE  /\ s \o t \in Seq(S)
           /\ Len(s \o t) = Len(s) + Len(t)
           /\ \A i \in 1 .. Len(s) : (s \o t)[i] = s[i]
           /\ \A i \in 1 .. Len(t) : (s \o t)[Len(s) + i] = t[i]
  <1>1. Len(s) \in Nat /\ Len(t) \in Nat
    BY LenProperties
  <1>2. /\ s \o t \in Seq(S) /\ Len(s \o t) = Len(s) + Len(t)
        /\ \A i \in 1 .. Len(s) + Len(t) :
              (s \o t)[i] = IF i <= Len(s) THEN s[i] ELSE t[i - Len(s)]
    BY ConcatProperties
  <1>3. \A i \in 1 .. Len(s) : (s \o t)[i] = s[i]
    BY <1>1, <1>2
  <1>4. ASSUME NEW i \in 1 .. Len(t)
        PROVE  (s \o t)[Len(s) + i] = t[i]
    <2>1. Len(s) + i \in 1 .. Len(s) + Len(t) /\ ~ (Len(s) + i <= Len(s))
          /\ (Len(s) + i) - Len(s) = i
      BY <1>1
    <2>2. QED
      BY <1>2, <2>1
  <1>5. QED
    BY <1>2, <1>3, <1>4

-----------------------------------------------------------------------------
(* One put.                                                                *)

(* put_batch, element by element: what the buffer and the log are after it. *)
LEMMA PutShape ==
    ASSUME buffer \in Seq(Event), log \in Seq(Event), Len(buffer) <= Capacity,
           NEW events \in Seq(Event), PutBatch(events),
           NEW d, d = DrainCount(Len(events)), NEW k, k = SkipCount(Len(events))
    PROVE  /\ Len(events) \in Nat \ {0} /\ d \in 0 .. Len(buffer)
           /\ k \in 0 .. Len(events) - 1
           /\ k > 0 => d = Len(buffer)
           /\ buffer' \in Seq(Event) /\ log' \in Seq(Event)
           /\ Len(buffer') = Len(buffer) - d + Len(events) - k
           /\ Len(buffer') <= Capacity
           /\ \A i \in 1 .. Len(buffer) - d : buffer'[i] = buffer[d + i]
           /\ \A i \in 1 .. Len(events) - k : buffer'[Len(buffer) - d + i] = events[k + i]
           /\ Len(log') = Len(log) + Len(events)
           /\ \A i \in 1 .. Len(log) : log'[i] = log[i]
           /\ \A i \in 1 .. Len(events) : log'[Len(log) + i] = events[i]
  <1> DEFINE kept == SubSeq(buffer, d + 1, Len(buffer))
             tail == SubSeq(events, k + 1, Len(events))
  <1>1. Len(buffer) \in Nat /\ Len(log) \in Nat /\ Len(events) \in Nat \ {0}
    BY DEF PutBatch
  <1>2. /\ d \in 0 .. Len(buffer) /\ k \in 0 .. Len(events) - 1
        /\ k > 0 => d = Len(buffer)
        /\ Len(buffer) - d + Len(events) - k <= Capacity
    BY <1>1, Cuts
  <1>3. buffer' = kept \o tail /\ log' = log \o events
    BY DEF PutBatch
  <1>4. /\ kept \in Seq(Event) /\ Len(kept) = Len(buffer) - d
        /\ \A i \in 1 .. Len(buffer) - d : kept[i] = buffer[d + i]
    BY <1>2, DropFront
  <1>5. /\ tail \in Seq(Event) /\ Len(tail) = Len(events) - k
        /\ \A i \in 1 .. Len(events) - k : tail[i] = events[k + i]
    <2>1. k \in 0 .. Len(events)
      BY <1>1, <1>2
    <2>2. QED
      BY <2>1, DropFront
  <1> HIDE DEF kept, tail
  <1>6. /\ buffer' \in Seq(Event)
        /\ Len(buffer') = Len(kept) + Len(tail)
        /\ \A i \in 1 .. Len(kept) : buffer'[i] = kept[i]
        /\ \A i \in 1 .. Len(tail) : buffer'[Len(kept) + i] = tail[i]
    <2>1. kept \in Seq(Event) /\ tail \in Seq(Event)
      BY <1>4, <1>5
    <2>2. /\ kept \o tail \in Seq(Event)
          /\ Len(kept \o tail) = Len(kept) + Len(tail)
          /\ \A i \in 1 .. Len(kept) : (kept \o tail)[i] = kept[i]
          /\ \A i \in 1 .. Len(tail) : (kept \o tail)[Len(kept) + i] = tail[i]
      BY <2>1, Joined
    <2>3. buffer' = kept \o tail
      BY <1>3
    <2>4. QED
      BY <2>2, <2>3
  <1>7. /\ log' \in Seq(Event) /\ Len(log') = Len(log) + Len(events)
        /\ \A i \in 1 .. Len(log) : log'[i] = log[i]
        /\ \A i \in 1 .. Len(events) : log'[Len(log) + i] = events[i]
    <2>1. /\ log \o events \in Seq(Event)
          /\ Len(log \o events) = Len(log) + Len(events)
          /\ \A i \in 1 .. Len(log) : (log \o events)[i] = log[i]
          /\ \A i \in 1 .. Len(events) : (log \o events)[Len(log) + i] = events[i]
      BY Joined
    <2>2. log' = log \o events
      BY <1>3
    <2>3. QED
      BY <2>1, <2>2
  <1>8. Len(buffer') = (Len(buffer) - d) + (Len(events) - k)
    BY <1>4, <1>5, <1>6
  <1>9. \A i \in 1 .. Len(buffer) - d : buffer'[i] = buffer[d + i]
    BY <1>4, <1>6, Zenon
  <1>10. \A i \in 1 .. Len(events) - k : buffer'[Len(buffer) - d + i] = events[k + i]
    BY <1>4, <1>5, <1>6, Zenon
  <1>11. /\ Len(buffer') = Len(buffer) - d + Len(events) - k
         /\ Len(buffer') <= Capacity
    BY <1>1, <1>2, <1>8
  <1>12. QED
    BY <1>1, <1>2, <1>6, <1>7, <1>9, <1>10, <1>11, Zenon

-----------------------------------------------------------------------------
(* The inductive invariant.  The order of the log is what makes the last   *)
(* dropped position the highest one; the row numbers tie the events of an  *)
(* answer to their places in the log.                                      *)
RowsAreIndices == \A i \in 1 .. Len(log) : log[i].row = i

LogInv == InOrder(log) /\ RowsAreIndices

(* The part of the invariant that only puts can disturb.                   *)
BufferInv ==
    /\ StoreTypeOK
    /\ BufferIsNewestEvents
    /\ LogInv

(* A put keeps the buffer the newest part of the log.                      *)
LEMMA PutKeepsNewest ==
    ASSUME StoreTypeOK, BufferIsNewestEvents,
           NEW events \in Seq(Event), PutBatch(events)
    PROVE  /\ BufferIsNewestEvents'
           /\ Dropped' = Dropped + DrainCount(Len(events)) + SkipCount(Len(events))
  <1> DEFINE d == DrainCount(Len(events))
             k == SkipCount(Len(events))
             n == Len(events)
             b == Len(buffer)
             l == Len(log)
  <1>1. /\ buffer \in Seq(Event) /\ log \in Seq(Event)
        /\ b \in Nat /\ l \in Nat /\ b <= Capacity /\ b <= l
        /\ \A i \in 1 .. b : buffer[i] = log[l - b + i]
    BY DEF StoreTypeOK, BufferIsNewestEvents, Dropped
  <1>2. /\ n \in Nat \ {0} /\ d \in 0 .. b /\ k \in 0 .. n - 1
        /\ k > 0 => d = b
        /\ buffer' \in Seq(Event) /\ log' \in Seq(Event)
        /\ Len(buffer') = b - d + n - k
        /\ Len(buffer') <= Capacity
        /\ \A i \in 1 .. b - d : buffer'[i] = buffer[d + i]
        /\ \A i \in 1 .. n - k : buffer'[b - d + i] = events[k + i]
        /\ Len(log') = l + n
        /\ \A i \in 1 .. l : log'[i] = log[i]
        /\ \A i \in 1 .. n : log'[l + i] = events[i]
    BY <1>1, PutShape
  <1> HIDE DEF d, k, n, b, l
  <1>a. /\ b \in Nat /\ l \in Nat /\ b <= l
        /\ n \in Nat \ {0} /\ d \in 0 .. b /\ k \in 0 .. n - 1 /\ (k > 0 => d = b)
        /\ Len(buffer') = b - d + n - k /\ Len(log') = l + n
    BY <1>1, <1>2
  <1>3. Len(log') - Len(buffer') = (l - b) + d + k
    BY <1>a
  <1>4. ASSUME NEW i \in 1 .. Len(buffer')
        PROVE  buffer'[i] = log'[(l - b) + d + k + i]
    <2>1. CASE i \in 1 .. b - d
      <3>1. k = 0 /\ d + i \in 1 .. b /\ (l - b) + (d + i) \in 1 .. l
        BY <1>a, <2>1
      <3>2. buffer'[i] = log[(l - b) + (d + i)]
        BY <1>1, <1>2, <2>1, <3>1
      <3>3. (l - b) + d + k + i = (l - b) + (d + i)
        BY <1>a, <3>1
      <3>4. QED
        BY <1>2, <3>1, <3>2, <3>3
    <2>2. CASE i \notin 1 .. b - d
      <3> DEFINE j == i - (b - d)
      <3>1. /\ j \in 1 .. n - k /\ i = b - d + j
            /\ k + j \in 1 .. n
            /\ (l - b) + d + k + i = l + (k + j)
        BY <1>a, <2>2
      <3> HIDE DEF j
      <3>2. buffer'[i] = events[k + j]
        BY <1>2, <3>1
      <3>3. log'[l + (k + j)] = events[k + j]
        BY <1>2, <3>1
      <3>4. QED
        BY <3>1, <3>2, <3>3
    <2>3. QED
      BY <2>1, <2>2
  <1>5. Len(buffer') > 0 /\ Len(buffer') <= Len(log')
    BY <1>a
  <1>6. buffer' # <<>>
    BY <1>2, <1>5, EmptySeq
  <1>7. \A i \in 1 .. Len(buffer') : buffer'[i] = log'[(Len(log') - Len(buffer')) + i]
    BY <1>3, <1>4
  <1>8. QED
    BY <1>2, <1>3, <1>5, <1>6, <1>7 DEF BufferIsNewestEvents, Dropped, d, k, n, b, l

(* The log stays in binlog order, its rows numbered by their places.       *)
LEMMA PutKeepsLog ==
    ASSUME log \in Seq(Event), LogInv,
           NEW n \in 1 .. MaxBatch, NEW headers \in [1 .. n -> Header],
           InOrder(log \o headers), log' = log \o Numbered(headers)
    PROVE  LogInv'
  <1> DEFINE l == Len(log)
             both == log \o headers
             events == Numbered(headers)
  <1>1. /\ n \in Nat /\ l \in Nat /\ headers \in Seq(Header) /\ Len(headers) = n
    BY BoundsAssumption
  <1>2. /\ events \in Seq(Event) /\ Len(events) = n
        /\ \A i \in 1 .. n : events[i].pos = headers[i].pos /\ events[i].row = l + i
    BY NumberedType
  <1>3. /\ Len(both) = l + n
        /\ \A i \in 1 .. l : both[i] = log[i]
        /\ \A i \in 1 .. n : both[l + i] = headers[i]
    <2>1. log \in Seq(Event \cup Header) /\ headers \in Seq(Event \cup Header)
      BY <1>1
    <2>2. /\ Len(log \o headers) = Len(log) + Len(headers)
          /\ \A i \in 1 .. Len(log) : (log \o headers)[i] = log[i]
          /\ \A i \in 1 .. Len(headers) : (log \o headers)[Len(log) + i] = headers[i]
      BY <2>1, Joined
    <2>3. QED
      BY <1>1, <2>2
  <1>4. /\ Len(log') = l + n
        /\ \A i \in 1 .. l : log'[i] = log[i]
        /\ \A i \in 1 .. n : log'[l + i] = events[i]
    <2>2. log' = log \o events
      OBVIOUS
    <2> HIDE DEF events, both
    <2>0. log \in Seq(Event) /\ events \in Seq(Event)
      BY <1>2
    <2>1. /\ Len(log \o events) = Len(log) + Len(events)
          /\ \A i \in 1 .. Len(log) : (log \o events)[i] = log[i]
          /\ \A i \in 1 .. Len(events) : (log \o events)[Len(log) + i] = events[i]
      BY <2>0, Joined
    <2>3. QED
      BY <1>2, <2>1, <2>2
  <1>5. InOrder(both)
    OBVIOUS
  <1> HIDE DEF l, both, events
  <1>6. \A i \in 1 .. l + n : log'[i].pos = both[i].pos
    <2>1. SUFFICES ASSUME NEW i \in 1 .. l + n
                   PROVE  log'[i].pos = both[i].pos
      OBVIOUS
    <2>2. CASE i <= l
      BY <1>1, <1>3, <1>4, <2>2
    <2>3. CASE ~ (i <= l)
      <3>1. PICK j \in 1 .. n : i = l + j
        <4>1. i - l \in 1 .. n /\ i = l + (i - l)
          BY <1>1, <2>3
        <4>2. QED
          BY <4>1
      <3>2. QED
        BY <1>2, <1>3, <1>4, <3>1
    <2>4. QED
      BY <2>2, <2>3
  <1>7. InOrder(log)'
    BY <1>3, <1>4, <1>5, <1>6 DEF InOrder
  <1>8. RowsAreIndices'
    <2>1. SUFFICES ASSUME NEW i \in 1 .. l + n
                   PROVE  log'[i].row = i
      BY <1>4 DEF RowsAreIndices
    <2>2. CASE i <= l
      BY <1>1, <1>4, <2>2 DEF LogInv, RowsAreIndices, l
    <2>3. CASE ~ (i <= l)
      <3>1. PICK j \in 1 .. n : i = l + j
        <4>1. i - l \in 1 .. n /\ i = l + (i - l)
          BY <1>1, <2>3
        <4>2. QED
          BY <4>1
      <3>2. QED
        BY <1>2, <1>4, <3>1
    <2>4. QED
      BY <2>2, <2>3
  <1>9. QED
    BY <1>7, <1>8 DEF LogInv

(* A put moves the watermark to the last event it drops.                   *)
LEMMA PutKeepsWatermark ==
    ASSUME StoreTypeOK, BufferIsNewestEvents, InOrder(log)', WatermarkIsLastDropped,
           NEW events \in Seq(Event), PutBatch(events)
    PROVE  WatermarkIsLastDropped'
  <1> DEFINE d == DrainCount(Len(events))
             k == SkipCount(Len(events))
             n == Len(events)
             b == Len(buffer)
             l == Len(log)
             D == Dropped
  <1>1. /\ buffer \in Seq(Event) /\ log \in Seq(Event)
        /\ b \in Nat /\ l \in Nat /\ b <= Capacity /\ b <= l /\ D = l - b
        /\ \A i \in 1 .. b : buffer[i] = log[D + i]
    BY DEF StoreTypeOK, BufferIsNewestEvents, Dropped
  <1>2. /\ n \in Nat \ {0} /\ d \in 0 .. b /\ k \in 0 .. n - 1
        /\ k > 0 => d = b
        /\ log' \in Seq(Event)
        /\ Len(log') = l + n
        /\ \A i \in 1 .. l : log'[i] = log[i]
        /\ \A i \in 1 .. n : log'[l + i] = events[i]
    BY <1>1, PutShape
  <1>3. Dropped' = D + d + k
    BY PutKeepsNewest
  <1>4. evicted_watermark' = RaisedWatermark(Evicted(events))
    BY DEF PutBatch
  <1>5. evicted_watermark = IF D = 0 THEN None ELSE log[D].pos
    BY DEF WatermarkIsLastDropped
  <1>6. /\ Evicted(events) = LET old == IF d > 0 THEN buffer[d].pos ELSE None
                             IN  IF k > 0 /\ (old = None \/ PosLess(old, events[k].pos))
                                 THEN events[k].pos ELSE old
    BY DEF Evicted
  <1> HIDE DEF d, k, n, b, l, D
  <1>7. \A i \in 1 .. l + n : log'[i].pos \in Position
    <2>1. \A i \in 1 .. l + n : log'[i] \in Event
      BY <1>2, ElementOfSeq
    <2>2. QED
      BY <2>1 DEF Event
  <1>8. \A i, j \in 1 .. l + n : i < j => PosLeq(log'[i].pos, log'[j].pos)
    BY <1>2 DEF InOrder
  <1>9. d > 0 => D + d \in 1 .. l /\ buffer[d].pos = log'[D + d].pos
    BY <1>1, <1>2
  <1>10. k > 0 => D + d + k \in 1 .. l + n /\ events[k].pos = log'[D + d + k].pos
    <2>1. SUFFICES ASSUME k > 0
                   PROVE  D + d + k \in 1 .. l + n /\ events[k].pos = log'[D + d + k].pos
      OBVIOUS
    <2>2. D + d + k = l + k /\ k \in 1 .. n
      BY <1>1, <1>2, <2>1
    <2>3. QED
      BY <1>1, <1>2, <2>2
  <1>11. Evicted(events) = IF d + k = 0 THEN None ELSE log'[D + d + k].pos
    <2>1. CASE k = 0
      BY <1>1, <1>2, <1>6, <1>9, <2>1
    <2>2. CASE k > 0 /\ d = 0
      BY <1>2, <1>6, <1>10, <2>2
    <2>3. CASE k > 0 /\ d > 0
      <3>1. PosLeq(buffer[d].pos, events[k].pos)
        BY <1>1, <1>2, <1>8, <1>9, <1>10, <2>3
      <3>2. Evicted(events) = events[k].pos
        BY <1>6, <2>3, <3>1 DEF PosLeq
      <3>3. QED
        BY <1>2, <1>10, <2>3, <3>2
    <2>4. QED
      BY <1>2, <2>1, <2>2, <2>3
  <1>12. CASE d + k = 0
    <2>1. Evicted(events) = None /\ D + d + k = D
      BY <1>1, <1>2, <1>11, <1>12
    <2>2. evicted_watermark' = evicted_watermark
      BY <1>4, <2>1 DEF RaisedWatermark
    <2>3. D > 0 => D \in 1 .. l /\ log'[D] = log[D]
      BY <1>1, <1>2
    <2>4. evicted_watermark' = IF D = 0 THEN None ELSE log'[D].pos
      BY <1>1, <1>5, <2>2, <2>3
    <2>5. QED
      BY <1>3, <2>1, <2>4 DEF WatermarkIsLastDropped
  <1>13. CASE d + k # 0
    <2> DEFINE last == D + d + k
    <2>1. last \in 1 .. l + n /\ last # 0 /\ D < last
      BY <1>1, <1>2, <1>9, <1>10, <1>13
    <2>2. Evicted(events) = log'[last].pos
      BY <1>11, <1>13
    <2> HIDE DEF last
    <2>3. log'[last].pos \in Position /\ log'[last].pos # None
      BY <1>7, <2>1, NoneAssumption
    <2>4. CASE D = 0
      BY <1>3, <1>4, <1>5, <2>1, <2>2, <2>3, <2>4
         DEF RaisedWatermark, WatermarkIsLastDropped, last
    <2>5. CASE D # 0
      <3>1. D \in 1 .. l /\ D \in 1 .. l + n
        BY <1>1, <1>2, <2>5
      <3>2. evicted_watermark = log'[D].pos /\ evicted_watermark \in Position
        BY <1>2, <1>5, <1>7, <2>5, <3>1
      <3>3. PosLeq(evicted_watermark, log'[last].pos)
        BY <1>8, <2>1, <3>1, <3>2
      <3>4. evicted_watermark' = log'[last].pos
        BY <1>4, <2>2, <2>3, <3>2, <3>3, NoneAssumption DEF RaisedWatermark, PosLeq
      <3>5. QED
        BY <1>3, <2>1, <3>4 DEF WatermarkIsLastDropped, last
    <2>6. QED
      BY <2>4, <2>5
  <1>14. QED
    BY <1>12, <1>13

(* first_position and latest_position follow the buffer.                   *)
LEMMA PutKeepsEnds ==
    ASSUME StoreTypeOK, BufferIsNewestEvents,
           NEW events \in Seq(Event), PutBatch(events)
    PROVE  /\ first_position' = buffer'[1].pos
           /\ latest_position' = EndOf(buffer)'
           /\ {first_position', latest_position'} \subseteq Position
  <1> DEFINE d == DrainCount(Len(events))
             k == SkipCount(Len(events))
             n == Len(events)
             b == Len(buffer)
             kept == SubSeq(buffer, d + 1, b)
             tail == SubSeq(events, k + 1, n)
  <1>1. buffer \in Seq(Event) /\ log \in Seq(Event) /\ b \in Nat /\ b <= Capacity
    BY DEF StoreTypeOK, BufferIsNewestEvents
  <1>2. /\ n \in Nat \ {0} /\ d \in 0 .. b /\ k \in 0 .. n - 1
        /\ buffer' \in Seq(Event)
        /\ Len(buffer') = b - d + n - k
        /\ \A i \in 1 .. b - d : buffer'[i] = buffer[d + i]
        /\ \A i \in 1 .. n - k : buffer'[b - d + i] = events[k + i]
    BY <1>1, PutShape
  <1>3. /\ kept \in Seq(Event) /\ Len(kept) = b - d
        /\ \A i \in 1 .. b - d : kept[i] = buffer[d + i]
    BY <1>1, <1>2, DropFront
  <1>4. /\ tail \in Seq(Event) /\ Len(tail) = n - k
        /\ \A i \in 1 .. n - k : tail[i] = events[k + i]
    <2>1. k \in 0 .. n
      BY <1>2
    <2>2. QED
      BY <2>1, DropFront
  <1>5. first_position' = NewFirst(kept, tail) /\ latest_position' = EndOf(tail)
    BY DEF PutBatch
  <1> HIDE DEF d, k, n, b, kept, tail
  <1>6. first_position' = buffer'[1].pos
    <2>1. CASE kept = <<>>
      <3>1. b - d = 0 /\ 1 \in 1 .. n - k /\ b - d + 1 = 1
        BY <1>1, <1>2, <1>3, <2>1
      <3>2. buffer'[1] = tail[1]
        BY <1>2, <1>4, <3>1
      <3>3. QED
        BY <1>5, <2>1, <3>2 DEF NewFirst
    <2>2. CASE kept # <<>>
      <3>1. 1 \in 1 .. b - d
        BY <1>1, <1>2, <1>3, <2>2, EmptySeq
      <3>2. buffer'[1] = kept[1]
        <4>1. buffer'[1] = buffer[d + 1]
          BY <1>2, <3>1
        <4>2. kept[1] = buffer[d + 1]
          BY <1>3, <3>1
        <4>3. QED
          BY <4>1, <4>2
      <3>3. QED
        BY <1>5, <2>2, <3>2 DEF NewFirst
    <2>3. QED
      BY <2>1, <2>2
  <1>7. latest_position' = buffer'[Len(buffer')].pos
    <2>1. n - k \in 1 .. n - k /\ Len(buffer') = b - d + (n - k)
      BY <1>1, <1>2
    <2>2. buffer'[Len(buffer')] = tail[Len(tail)]
      BY <1>2, <1>4, <2>1
    <2>3. QED
      BY <1>5, <2>2 DEF EndOf
  <1>8. 1 \in 1 .. Len(buffer') /\ Len(buffer') \in 1 .. Len(buffer')
    BY <1>1, <1>2
  <1>9. buffer'[1].pos \in Position /\ buffer'[Len(buffer')].pos \in Position
    <2>1. buffer'[1] \in Event /\ buffer'[Len(buffer')] \in Event
      BY <1>2, <1>8, ElementOfSeq
    <2>2. QED
      BY <2>1 DEF Event
  <1>10. QED
    BY <1>6, <1>7, <1>9 DEF EndOf

(* The invariant of everything but the answers.                            *)
StoreInv ==
    /\ BufferInv
    /\ WatermarkIsLastDropped
    /\ EndsDescribeBuffer

(* put_batch keeps all of it.                                              *)
LEMMA PutPreserves == ASSUME StoreInv, Put PROVE StoreInv'
  <1>1. PICK n \in 1 .. MaxBatch : \E headers \in [1 .. n -> Header] :
           InOrder(log \o headers) /\ PutBatch(Numbered(headers))
    BY DEF Put
  <1>2. PICK headers \in [1 .. n -> Header] :
           InOrder(log \o headers) /\ PutBatch(Numbered(headers))
    BY <1>1
  <1> DEFINE events == Numbered(headers)
  <1>3. StoreTypeOK /\ BufferIsNewestEvents /\ LogInv /\ WatermarkIsLastDropped
    BY DEF StoreInv, BufferInv
  <1>4. events \in Seq(Event)
    BY <1>3, NumberedType DEF StoreTypeOK
  <1>5. PutBatch(events)
    BY <1>2
  <1>6. LogInv'
    <2>1. log' = log \o Numbered(headers)
      BY <1>2 DEF PutBatch
    <2>2. QED
      BY <1>2, <1>3, <2>1, PutKeepsLog DEF StoreTypeOK
  <1> HIDE DEF events
  <1>7. BufferIsNewestEvents'
    BY <1>3, <1>4, <1>5, PutKeepsNewest
  <1>8. WatermarkIsLastDropped'
    BY <1>3, <1>4, <1>5, <1>6, PutKeepsWatermark DEF LogInv
  <1>9. /\ first_position' = buffer'[1].pos
        /\ latest_position' = EndOf(buffer)'
        /\ {first_position', latest_position'} \subseteq Position
    BY <1>3, <1>4, <1>5, PutKeepsEnds
  <1>10. EndsDescribeBuffer'
    BY <1>9 DEF EndsDescribeBuffer
  <1>11. StoreTypeOK'
    <2>1. buffer' \in Seq(Event) /\ log' \in Seq(Event)
      <3>1. buffer \in Seq(Event) /\ log \in Seq(Event) /\ Len(buffer) <= Capacity
        BY <1>3 DEF StoreTypeOK, BufferIsNewestEvents
      <3>2. QED
        BY <1>4, <1>5, <3>1, PutShape
    <2>2. batch_id_seq' \in Nat
      BY <1>3, <1>5 DEF PutBatch, TakeId, StoreTypeOK
    <2>3. evicted_watermark' \in Position \cup {None}
      <3>1. Len(buffer') \in Nat /\ Len(buffer') <= Len(log')
        BY <1>7, <2>1 DEF BufferIsNewestEvents
      <3>2. Dropped' # 0 => Dropped' \in 1 .. Len(log')
        BY <2>1, <3>1 DEF Dropped
      <3>3. Dropped' # 0 => log'[Dropped'] \in Event
        BY <2>1, <3>2, ElementOfSeq
      <3>4. QED
        BY <1>8, <3>3 DEF WatermarkIsLastDropped, Event
    <2>4. running' \in BOOLEAN /\ reply' \in [Readers -> Reply]
      BY <1>3, <1>5 DEF PutBatch, StoreTypeOK
    <2>5. call' \in [Readers -> CallState]
      <3>1. call' = [r \in Readers |-> [call[r] EXCEPT !.woken = call[r].pc # "idle"]]
        BY <1>5 DEF PutBatch, NotifyWaiters
      <3>2. \A r \in Readers : call[r] \in CallState
        BY <1>3 DEF StoreTypeOK
      <3>3. \A r \in Readers : [call[r] EXCEPT !.woken = call[r].pc # "idle"] \in CallState
        BY <3>2 DEF CallState
      <3>4. QED
        BY <3>1, <3>3
    <2>6. QED
      BY <1>9, <2>1, <2>2, <2>3, <2>4, <2>5 DEF StoreTypeOK
  <1>12. QED
    BY <1>6, <1>7, <1>8, <1>10, <1>11 DEF StoreInv, BufferInv

(* The calls and the readers' steps change nothing the buffer's facts      *)
(* speak of.                                                               *)
LEMMA FrameKeeps ==
    ASSUME StoreInv, StoreTypeOK',
           UNCHANGED <<buffer, latest_position, first_position,
                       evicted_watermark, log>>
    PROVE  StoreInv'
  <1>1. BufferIsNewestEvents' /\ LogInv'
    BY DEF StoreInv, BufferInv, BufferIsNewestEvents, LogInv, Dropped,
           RowsAreIndices, InOrder
  <1>2. WatermarkIsLastDropped' /\ EndsDescribeBuffer'
    BY DEF StoreInv, WatermarkIsLastDropped, EndsDescribeBuffer, Dropped, EndOf
  <1>3. QED
    BY <1>1, <1>2 DEF StoreInv, BufferInv

(* A cursor from a position or from a timestamp is well formed.            *)
LEMMA CursorType ==
    /\ \A p \in Position : AtPosition(p) \in Cursor
    /\ \A ts \in Nat \ {0} : AtTimestamp(ts) \in Cursor
  BY DEF AtPosition, AtTimestamp, Cursor, PosCursor, TimeCursor

(* What a reader holds between calls, and what a timed-out call returns.   *)
LEMMA IdleType == Idle \in CallState /\ NoReply \in Reply
  <1>1. AtTimestamp(1) \in Cursor
    BY CursorType
  <1>2. Idle \in CallState
    BY <1>1 DEF Idle, CallState
  <1>3. <<>> \in Seq(Event)
    OBVIOUS
  <1>4. QED
    BY <1>1, <1>2, <1>3 DEF NoReply, Reply

(* A call begins.                                                          *)
LEMMA CallPreserves ==
    ASSUME StoreInv, NEW r \in Readers, CallAny(r)
    PROVE  StoreInv'
  <1>1. PICK cursor \in Cursor, size \in Nat : GetBatch(r, cursor, size)
    <2>1. PICK size \in Sizes :
             \/ \E p \in Positions : GetBatch(r, AtPosition(p), size)
             \/ \E ts \in Times \ {0} : GetBatch(r, AtTimestamp(ts), size)
      BY DEF CallAny
    <2>2. size \in Nat
      BY SizesAssumption
    <2>3. QED
      BY <2>1, <2>2, CursorType, EventsAssumption
  <1>2. [pc |-> "check", cursor |-> cursor, size |-> size, woken |-> FALSE] \in CallState
    BY DEF CallState
  <1>3. StoreTypeOK
    BY DEF StoreInv, BufferInv
  <1>4. call' \in [Readers -> CallState]
    BY <1>1, <1>2, <1>3 DEF GetBatch, StoreTypeOK
  <1>5. StoreTypeOK'
    BY <1>1, <1>3, <1>4 DEF GetBatch, StoreTypeOK
  <1>6. QED
    BY <1>1, <1>5, FrameKeeps DEF GetBatch

(* Where get_batch cuts: the slice it serves lies inside the buffer and is *)
(* not empty.                                                              *)
LEMMA ServedRange ==
    ASSUME Len(buffer) \in Nat, NEW size \in Nat,
           NEW s \in 1 .. Len(buffer), NEW e \in 1 .. Len(buffer),
           IsEnd(e, s, size)
    PROVE  s <= BaseEnd(s, size) /\ BaseEnd(s, size) <= e
  <1> DEFINE b == Len(buffer)
  <1>1. BaseEnd(s, size) = LET w == s + (IF size = 0 THEN 1 ELSE size) - 1
                           IN  IF w <= b THEN w ELSE b
    BY DEF BaseEnd, Least
  <1>2. b \in Nat /\ s \in 1 .. b
    OBVIOUS
  <1> HIDE DEF b
  <1>3. s <= BaseEnd(s, size)
    BY <1>1, <1>2
  <1>4. QED
    BY <1>3 DEF IsEnd

(* A reader's step.                                                        *)
LEMMA ReaderPreserves ==
    ASSUME StoreInv, NEW r \in Readers, ReaderStep(r)
    PROVE  StoreInv'
  <1>1. StoreTypeOK /\ call[r] \in CallState /\ Len(buffer) \in Nat
    BY DEF StoreInv, BufferInv, StoreTypeOK
  <1>2. CASE GetServe(r)
    <2>1. PICK s \in 1 .. Len(buffer), e \in 1 .. Len(buffer) :
             /\ IsEnd(e, s, call[r].size)
             /\ GetReturn(r, [batch_id |-> batch_id_seq, events |-> SubSeq(buffer, s, e),
                              cursor |-> call[r].cursor, seen |-> Len(log),
                              watermark |-> evicted_watermark])
      BY <1>2 DEF GetServe
    <2>2. call[r].size \in Nat /\ call[r].cursor \in Cursor
      BY <1>1 DEF CallState
    <2>3. s <= e
      <3>1. s <= BaseEnd(s, call[r].size) /\ BaseEnd(s, call[r].size) <= e
        BY <1>1, <2>1, <2>2, ServedRange
      <3>2. BaseEnd(s, call[r].size) \in Int
        BY <1>1, <2>2 DEF BaseEnd, Least
      <3>3. QED
        BY <3>1, <3>2
    <2>4. SubSeq(buffer, s, e) \in Seq(Event)
      BY <1>1, <2>3, Slice DEF StoreTypeOK
    <2>5. [batch_id |-> batch_id_seq, events |-> SubSeq(buffer, s, e),
           cursor |-> call[r].cursor, seen |-> Len(log),
           watermark |-> evicted_watermark] \in Reply
      BY <1>1, <2>2, <2>4 DEF Reply, StoreTypeOK
    <2>6. call' \in [Readers -> CallState] /\ reply' \in [Readers -> Reply]
      BY <1>1, <2>1, <2>5, IdleType DEF GetReturn, StoreTypeOK
    <2>7. StoreTypeOK'
      BY <1>1, <1>2, <2>6 DEF GetServe, TakeId, StoreTypeOK
    <2>8. QED
      BY <1>2, <2>7, FrameKeeps DEF GetServe
  <1>3. CASE GetMiss(r) \/ GetWait(r) \/ GetWoken(r)
    <2>1. call' \in [Readers -> CallState]
      <3>1. \E state \in CallState : call' = [call EXCEPT ![r] = state]
        <4>1. CASE GetMiss(r) \/ GetWait(r)
          <5>1. /\ [call[r] EXCEPT !.pc = "missed"] \in CallState
                /\ [call[r] EXCEPT !.pc = "wait"] \in CallState
            BY <1>1 DEF CallState
          <5>2. QED
            BY <4>1, <5>1 DEF GetMiss, GetWait
        <4>2. CASE GetWoken(r)
          <5>1. [call[r] EXCEPT !.pc = "check", !.woken = FALSE] \in CallState
            BY <1>1 DEF CallState
          <5>2. call' = [call EXCEPT ![r] = [call[r] EXCEPT !.pc = "check", !.woken = FALSE]]
            BY <1>1, <4>2 DEF GetWoken, StoreTypeOK
          <5>3. QED
            BY <5>1, <5>2
        <4>3. QED
          BY <1>3, <4>1, <4>2
      <3>2. QED
        BY <1>1, <3>1 DEF StoreTypeOK
    <2>2. StoreTypeOK'
      BY <1>1, <1>3, <2>1 DEF GetMiss, GetWait, GetWoken, StoreTypeOK
    <2>3. QED
      BY <1>3, <2>2, FrameKeeps DEF GetMiss, GetWait, GetWoken
  <1>4. CASE GetTimeout(r)
    <2>1. StoreTypeOK'
      BY <1>1, <1>4, IdleType DEF GetTimeout, GetReturn, StoreTypeOK
    <2>2. QED
      BY <1>4, <2>1, FrameKeeps DEF GetTimeout
  <1>5. QED
    BY <1>2, <1>3, <1>4 DEF ReaderStep

(* Nothing has been put, nobody has called.                                *)
LEMMA InitEstablishes == ASSUME StoreInit PROVE StoreInv
  <1>1. buffer \in Seq(Event) /\ log \in Seq(Event) /\ Len(buffer) = 0 /\ Len(log) = 0
    BY DEF StoreInit
  <1>2. StoreTypeOK
    BY <1>1, IdleType DEF StoreInit, StoreTypeOK
  <1>3. BufferIsNewestEvents /\ LogInv /\ WatermarkIsLastDropped /\ EndsDescribeBuffer
    BY <1>1, CapacityAssumption
       DEF StoreInit, BufferIsNewestEvents, LogInv, InOrder, RowsAreIndices,
           WatermarkIsLastDropped, EndsDescribeBuffer, Dropped
  <1>4. QED
    BY <1>2, <1>3 DEF StoreInv, BufferInv

(* Every step of the store and of its readers.                             *)
LEMMA StepPreserves == ASSUME StoreInv, [StoreNext]_storeVars PROVE StoreInv'
  <1>1. CASE Put
    BY <1>1, PutPreserves
  <1>2. ASSUME NEW b \in BOOLEAN, SetRunning(b)
        PROVE  StoreInv'
    <2>1. StoreTypeOK'
      BY <1>2 DEF SetRunning, StoreInv, BufferInv, StoreTypeOK
    <2>2. QED
      BY <1>2, <2>1, FrameKeeps DEF SetRunning
  <1>3. ASSUME NEW r \in Readers, CallAny(r) \/ ReaderStep(r)
        PROVE  StoreInv'
    BY <1>3, CallPreserves, ReaderPreserves
  <1>4. CASE UNCHANGED storeVars
    <2>1. StoreTypeOK'
      BY <1>4 DEF storeVars, StoreInv, BufferInv, StoreTypeOK
    <2>2. QED
      BY <1>4, <2>1, FrameKeeps DEF storeVars
  <1>5. QED
    BY <1>1, <1>2, <1>3, <1>4 DEF StoreNext

-----------------------------------------------------------------------------
(* StoreInv holds in every reachable state of the store.                   *)
THEOREM StoreInvariant == StoreSpec => []StoreInv
  <1>1. StoreInit => StoreInv
    BY InitEstablishes
  <1>2. StoreInv /\ [StoreNext]_storeVars => StoreInv'
    BY StepPreserves
  <1>3. QED
    BY <1>1, <1>2, PTL DEF StoreSpec

(* The store's variables keep their types: in particular every answer is a *)
(* sequence of events and the batch-id counter never leaves the naturals.  *)
THEOREM TypeCorrect == StoreSpec => []StoreTypeOK
  <1>1. StoreInv => StoreTypeOK
    BY DEF StoreInv, BufferInv
  <1>2. QED
    BY <1>1, StoreInvariant, PTL

(* put_batch's eviction: for every capacity and every mix of drains and    *)
(* oversized batches, the buffer is the newest part of what was put.       *)
THEOREM BufferCorrect == StoreSpec => []BufferIsNewestEvents
  <1>1. StoreInv => BufferIsNewestEvents
    BY DEF StoreInv, BufferInv
  <1>2. QED
    BY <1>1, StoreInvariant, PTL

(* evicted_watermark is exactly the last dropped position, so handle_get's *)
(* comparison with it detects every loss and reports no other.             *)
THEOREM WatermarkCorrect == StoreSpec => []WatermarkIsLastDropped
  <1>1. StoreInv => WatermarkIsLastDropped
    BY DEF StoreInv
  <1>2. QED
    BY <1>1, StoreInvariant, PTL

(* first_position and latest_position describe the buffer.                 *)
THEOREM EndsCorrect == StoreSpec => []EndsDescribeBuffer
  <1>1. StoreInv => EndsDescribeBuffer
    BY DEF StoreInv
  <1>2. QED
    BY <1>1, StoreInvariant, PTL

-----------------------------------------------------------------------------
(* Wakeups.                                                                *)

(* A step that leaves the buffer alone keeps the wakeups of the readers    *)
(* whose call it leaves alone.                                             *)
LEMMA WakeupFrame ==
    ASSUME NoLostWakeup, UNCHANGED buffer, NEW r \in Readers, call'[r] = call[r]
    PROVE  call'[r].pc \in {"missed", "wait"} /\ ~ call'[r].woken
           => NothingWanted(call[r].cursor)'
  BY DEF NoLostWakeup, NothingWanted

(* Creating the Notified future before the search is what makes every step *)
(* keep NoLostWakeup: a put completes it in whichever state it finds the   *)
(* reader.                                                                 *)
LEMMA StepKeepsWakeup ==
    ASSUME StoreTypeOK, NoLostWakeup, [StoreNext]_storeVars
    PROVE  NoLostWakeup'
  <1>1. \A r \in Readers : call[r] \in CallState
    BY DEF StoreTypeOK
  <1>2. SUFFICES ASSUME NEW r \in Readers,
                        call'[r].pc \in {"missed", "wait"}, ~ call'[r].woken
                 PROVE  NothingWanted(call[r].cursor)'
    BY DEF NoLostWakeup
  <1>3. CASE Put
    <2>1. NotifyWaiters
      BY <1>3 DEF Put, PutBatch
    <2>2. call'[r] = [call[r] EXCEPT !.woken = call[r].pc # "idle"]
      BY <2>1 DEF NotifyWaiters
    <2>3. QED
      BY <1>1, <1>2, <2>2 DEF CallState
  <1>4. CASE \E b \in BOOLEAN : SetRunning(b)
    BY <1>2, <1>4, WakeupFrame DEF SetRunning
  <1>5. ASSUME NEW q \in Readers, CallAny(q) \/ ReaderStep(q)
        PROVE  NothingWanted(call[r].cursor)'
    <2>1. UNCHANGED buffer
      BY <1>5 DEF CallAny, GetBatch, ReaderStep, GetServe, GetMiss, GetWait,
                  GetWoken, GetTimeout
    <2>2. CASE q # r
      <3>1. call'[r] = call[r]
        BY <1>5, <2>2 DEF CallAny, GetBatch, ReaderStep, GetServe, GetMiss, GetWait,
                          GetWoken, GetTimeout, GetReturn, StoreTypeOK
      <3>2. QED
        BY <1>2, <2>1, <3>1, WakeupFrame
    <2>3. CASE q = r
      <3>1. CASE CallAny(r)
        <4>1. call'[r].pc = "check"
          BY <3>1 DEF CallAny, GetBatch, StoreTypeOK
        <4>2. QED
          BY <1>2, <4>1
      <3>2. CASE GetServe(r) \/ GetTimeout(r)
        <4>1. call'[r].pc = "idle"
          BY <3>2 DEF GetServe, GetTimeout, GetReturn, Idle, StoreTypeOK
        <4>2. QED
          BY <1>2, <4>1
      <3>3. CASE GetMiss(r)
        <4>1. call'[r].cursor = call[r].cursor /\ NothingWanted(call[r].cursor)
          BY <1>1, <3>3 DEF GetMiss, CallState, StoreTypeOK
        <4>2. QED
          BY <2>1, <4>1 DEF NothingWanted
      <3>4. CASE GetWait(r)
        <4>1. /\ call'[r].cursor = call[r].cursor /\ call'[r].woken = call[r].woken
              /\ call[r].pc = "missed"
          BY <1>1, <3>4 DEF GetWait, CallState, StoreTypeOK
        <4>2. NothingWanted(call[r].cursor)
          BY <1>2, <4>1 DEF NoLostWakeup
        <4>3. QED
          BY <2>1, <4>1, <4>2 DEF NothingWanted
      <3>5. CASE GetWoken(r)
        <4>1. call'[r].pc = "check"
          BY <1>1, <3>5 DEF GetWoken, CallState, StoreTypeOK
        <4>2. QED
          BY <1>2, <4>1
      <3>6. QED
        BY <1>5, <2>3, <3>1, <3>2, <3>3, <3>4, <3>5 DEF ReaderStep
    <2>4. QED
      BY <2>2, <2>3
  <1>6. CASE UNCHANGED storeVars
    BY <1>2, <1>6, WakeupFrame DEF storeVars
  <1>7. QED
    BY <1>3, <1>4, <1>5, <1>6 DEF StoreNext

(* No reader sleeps over an event that is there for it.                    *)
THEOREM WakeupCorrect == StoreSpec => []NoLostWakeup
  <1>1. StoreInit => NoLostWakeup
    BY DEF StoreInit, NoLostWakeup, Idle
  <1>2. StoreInv => StoreTypeOK
    BY DEF StoreInv, BufferInv
  <1>3. StoreTypeOK /\ NoLostWakeup /\ [StoreNext]_storeVars => NoLostWakeup'
    BY StepKeepsWakeup
  <1>4. QED
    BY <1>1, <1>2, <1>3, StoreInvariant, PTL DEF StoreSpec

-----------------------------------------------------------------------------
(* What a reader is served.                                                *)

(* The events put so far after a cursor, up to an end position.            *)
Between(cursor, seen, end) ==
    {i \in 1 .. seen : PosLess(cursor.pos, log[i].pos) /\ PosLeq(log[i].pos, end)}

(* get_batch's slice, as places in the log.                                *)
LEMMA SliceRows ==
    ASSUME BufferInv, NEW s \in 1 .. Len(buffer), NEW e \in s .. Len(buffer)
    PROVE  /\ Rows(SubSeq(buffer, s, e)) = Dropped + s .. Dropped + e
           /\ EndOf(SubSeq(buffer, s, e)) = log[Dropped + e].pos
  <1> DEFINE slice == SubSeq(buffer, s, e)
             D == Dropped
             l == Len(log)
             b == Len(buffer)
  <1>1. /\ b \in Nat /\ l \in Nat /\ D = l - b /\ b <= l /\ D \in Nat
        /\ \A i \in 1 .. b : buffer[i] = log[D + i]
        /\ \A i \in 1 .. l : log[i].row = i
    BY DEF BufferInv, BufferIsNewestEvents, StoreTypeOK, Dropped, LogInv, RowsAreIndices
  <1>2. /\ Len(slice) = e - s + 1
        /\ \A i \in 1 .. e - s + 1 : slice[i] = buffer[s + i - 1]
    <2>1. buffer \in Seq(Event) /\ s \in 1 .. Len(buffer) + 1 /\ e \in s - 1 .. Len(buffer)
      BY <1>1 DEF BufferInv, StoreTypeOK
    <2>2. QED
      BY <2>1, Slice
  <1>3. s \in 1 .. b /\ e \in s .. b
    OBVIOUS
  <1> HIDE DEF slice, D, l, b
  <1>4. \A i \in 1 .. e - s + 1 :
           /\ s + i - 1 \in 1 .. b /\ D + (s + i - 1) \in 1 .. l
           /\ slice[i] = log[D + (s + i - 1)]
    BY <1>1, <1>2, <1>3
  <1>5. \A i \in 1 .. e - s + 1 : slice[i].row = D + (s + i - 1)
    BY <1>1, <1>4
  <1>6. Rows(slice) = D + s .. D + e
    <2>1. ASSUME NEW i \in 1 .. e - s + 1
          PROVE  slice[i].row \in D + s .. D + e
      BY <1>1, <1>3, <1>5
    <2>2. ASSUME NEW j \in D + s .. D + e
          PROVE  \E i \in 1 .. e - s + 1 : slice[i].row = j
      <3>1. j - D - s + 1 \in 1 .. e - s + 1 /\ D + (s + (j - D - s + 1) - 1) = j
        BY <1>1, <1>3
      <3>2. slice[j - D - s + 1].row = j
        BY <1>5, <3>1
      <3>3. QED
        BY <3>1, <3>2
    <2>3. Rows(slice) = {slice[i].row : i \in 1 .. e - s + 1}
      BY <1>2 DEF Rows
    <2>4. QED
      BY <2>1, <2>2, <2>3
  <1>7. EndOf(slice) = log[D + e].pos
    <2>1. e - s + 1 \in 1 .. e - s + 1 /\ D + (s + (e - s + 1) - 1) = D + e
      BY <1>1, <1>3
    <2>2. QED
      BY <1>2, <1>4, <2>1 DEF EndOf
  <1>8. QED
    BY <1>6, <1>7 DEF slice, D

(* At the moment it is served, a batch read from a position no lower than  *)
(* the watermark has everything between the cursor and its end.            *)
LEMMA ServeIsComplete ==
    ASSUME StoreInv, NEW cursor \in PosCursor,
           NEW s \in 1 .. Len(buffer), NEW e \in s .. Len(buffer),
           IsStart(s, cursor),
           e < Len(buffer) => buffer[e + 1].pos # buffer[e].pos,
           evicted_watermark = None \/ PosLeq(evicted_watermark, cursor.pos)
    PROVE  Dropped + s .. Dropped + e = Between(cursor, Len(log), log[Dropped + e].pos)
  <1> DEFINE D == Dropped
             l == Len(log)
             b == Len(buffer)
             c == cursor.pos
             P(i) == log[i].pos
  <1>1. /\ b \in Nat /\ l \in Nat /\ D = l - b /\ b <= l /\ D \in Nat
        /\ \A i \in 1 .. b : buffer[i].pos = P(D + i)
    BY DEF StoreInv, BufferInv, BufferIsNewestEvents, StoreTypeOK, Dropped
  <1>2. \A i \in 1 .. l : P(i) \in Position
    <2>1. \A i \in 1 .. l : log[i] \in Event
      BY ElementOfSeq DEF StoreInv, BufferInv, StoreTypeOK
    <2>2. QED
      BY <2>1 DEF Event
  <1>3. \A i, j \in 1 .. l : i < j => PosLeq(P(i), P(j))
    BY DEF StoreInv, BufferInv, LogInv, InOrder
  <1>4. c \in Position /\ cursor.timestamp = 0
    BY DEF PosCursor
  <1>5. /\ PosLess(c, buffer[s].pos)
        /\ \A i \in 1 .. s - 1 : ~ PosLess(c, buffer[i].pos)
    BY <1>4 DEF IsStart, Wanted
  <1>6. D # 0 => P(D) = c \/ PosLess(P(D), c)
    BY NoneAssumption, <1>1, <1>2 DEF StoreInv, WatermarkIsLastDropped, PosLeq
  <1>7. s \in 1 .. b /\ e \in s .. b /\ (e < b => buffer[e + 1].pos # buffer[e].pos)
    OBVIOUS
  <1> HIDE DEF D, l, b, c, P
  <1>8. D + s \in 1 .. l /\ D + e \in 1 .. l
    BY <1>1, <1>7
  <1>9. \A i \in 1 .. l : ~ (PosLess(c, P(i)) /\ i < D + s)
    <2>1. SUFFICES ASSUME NEW i \in 1 .. l, PosLess(c, P(i)), i < D + s
                   PROVE  FALSE
      OBVIOUS
    <2>2. CASE i <= D
      <3>1. D # 0 /\ D \in 1 .. l /\ (i < D \/ i = D)
        BY <1>1, <2>1, <2>2
      <3>2. P(i) = P(D) \/ PosLess(P(i), P(D))
        BY <1>3, <3>1 DEF PosLeq
      <3>3. P(D) \in Position /\ P(i) \in Position /\ (P(D) = c \/ PosLess(P(D), c))
        BY <1>2, <1>6, <3>1
      <3>4. QED
        BY <1>4, <2>1, <3>2, <3>3, PosOrder
    <2>3. CASE i > D
      <3>1. i - D \in 1 .. s - 1 /\ i - D \in 1 .. b /\ D + (i - D) = i
        BY <1>1, <1>7, <2>1, <2>3
      <3>2. QED
        BY <1>1, <1>5, <2>1, <3>1
    <2>4. QED
      BY <1>1, <2>2, <2>3
  <1>10. \A i \in 1 .. l : ~ (PosLeq(P(i), P(D + e)) /\ i > D + e)
    <2>1. SUFFICES ASSUME NEW i \in 1 .. l, PosLeq(P(i), P(D + e)), i > D + e
                   PROVE  FALSE
      OBVIOUS
    <2>2. e + 1 \in 1 .. b /\ e \in 1 .. b /\ e < b /\ D + (e + 1) \in 1 .. l
          /\ D + (e + 1) = D + e + 1 /\ (D + e + 1 < i \/ D + e + 1 = i)
      BY <1>1, <1>7, <2>1
    <2>3. P(D + (e + 1)) # P(D + e)
      BY <1>1, <1>7, <2>2
    <2>4. PosLess(P(D + e), P(D + (e + 1)))
      <3>1. D + e < D + (e + 1)
        BY <1>1, <1>7
      <3>2. QED
        BY <1>3, <1>8, <2>2, <2>3, <3>1 DEF PosLeq
    <2>5. P(D + (e + 1)) = P(i) \/ PosLess(P(D + (e + 1)), P(i))
      BY <1>3, <2>2 DEF PosLeq
    <2>6. {P(i), P(D + e), P(D + (e + 1))} \subseteq Position
      BY <1>2, <1>8, <2>2
    <2>7. PosLess(P(D + e), P(i))
      BY <2>4, <2>5, <2>6, PosOrder
    <2>8. QED
      BY <2>1, <2>6, <2>7, PosOrder DEF PosLeq
  <1>11. ASSUME NEW i \in D + s .. D + e
         PROVE  i \in 1 .. l /\ PosLess(c, P(i)) /\ PosLeq(P(i), P(D + e))
    <2>1. i \in 1 .. l /\ (D + s < i \/ D + s = i) /\ (i < D + e \/ i = D + e)
      BY <1>1, <1>7
    <2>2. PosLess(c, P(D + s))
      BY <1>1, <1>5, <1>7
    <2>3. P(D + s) = P(i) \/ PosLess(P(D + s), P(i))
      BY <1>3, <1>8, <2>1 DEF PosLeq
    <2>4. P(i) \in Position /\ P(D + s) \in Position
      BY <1>2, <1>8, <2>1
    <2>5. PosLess(c, P(i))
      BY <1>4, <2>2, <2>3, <2>4, PosOrder
    <2>6. PosLeq(P(i), P(D + e))
      BY <1>3, <1>8, <2>1 DEF PosLeq
    <2>7. QED
      BY <2>1, <2>5, <2>6
  <1>12. ASSUME NEW i \in 1 .. l, PosLess(c, P(i)), PosLeq(P(i), P(D + e))
         PROVE  i \in D + s .. D + e
    <2>1. ~ (i < D + s) /\ ~ (i > D + e)
      BY <1>9, <1>10, <1>12
    <2>2. QED
      BY <1>1, <1>7, <2>1
  <1>13. D + s .. D + e = {i \in 1 .. l : PosLess(c, P(i)) /\ PosLeq(P(i), P(D + e))}
    BY <1>11, <1>12
  <1>14. QED
    BY <1>13 DEF Between, D, l, c, P

(* ServedBatchIsComplete, of one answer; an answer never counts events     *)
(* that have not been put yet, which is what makes the property stable.    *)
AnswerComplete(answer) ==
    /\ answer.seen <= Len(log)
    /\ answer.events # <<>> /\ answer.cursor.timestamp = 0 /\ AboveWatermark(answer)
       => Rows(answer.events) = Between(answer.cursor, answer.seen, EndOf(answer.events))

AnswersComplete == \A r \in Readers : AnswerComplete(reply[r])

(* The log only grows, and what it holds stays.                            *)
LEMMA LogGrows ==
    ASSUME StoreInv, [StoreNext]_storeVars
    PROVE  /\ Len(log) \in Nat /\ Len(log') \in Nat /\ Len(log) <= Len(log')
           /\ \A i \in 1 .. Len(log) : log'[i] = log[i]
  <1>1. log \in Seq(Event)
    BY DEF StoreInv, BufferInv, StoreTypeOK
  <1>2. CASE UNCHANGED log
    BY <1>1, <1>2
  <1>3. CASE Put
    <2>1. PICK n \in 1 .. MaxBatch : \E headers \in [1 .. n -> Header] :
             PutBatch(Numbered(headers))
      BY <1>3 DEF Put
    <2>2. PICK headers \in [1 .. n -> Header] : PutBatch(Numbered(headers))
      BY <2>1
    <2>3. Numbered(headers) \in Seq(Event)
      BY <1>1, NumberedType
    <2>4. log' = log \o Numbered(headers)
      BY <2>2 DEF PutBatch
    <2> HIDE DEF Numbered
    <2>5. /\ Len(log \o Numbered(headers)) = Len(log) + Len(Numbered(headers))
          /\ \A i \in 1 .. Len(log) : (log \o Numbered(headers))[i] = log[i]
      BY <1>1, <2>3, Joined
    <2>6. Len(Numbered(headers)) \in Nat /\ Len(log) \in Nat
      BY <1>1, <2>3
    <2>7. QED
      BY <2>4, <2>5, <2>6
  <1>4. UNCHANGED log \/ Put
    BY DEF StoreNext, storeVars, SetRunning, CallAny, GetBatch, ReaderStep, GetServe,
           GetMiss, GetWait, GetWoken, GetTimeout
  <1>5. QED
    BY <1>2, <1>3, <1>4

(* An answer once complete stays complete: later puts are not counted.     *)
LEMMA AnswerStays ==
    ASSUME StoreInv, [StoreNext]_storeVars, NEW answer \in Reply, AnswerComplete(answer)
    PROVE  AnswerComplete(answer)'
  <1>1. /\ Len(log) \in Nat /\ Len(log') \in Nat /\ Len(log) <= Len(log')
        /\ \A i \in 1 .. Len(log) : log'[i] = log[i]
    BY LogGrows
  <1>2. answer.seen \in Nat /\ answer.seen <= Len(log)
    BY DEF AnswerComplete, Reply
  <1>3. answer.seen <= Len(log') /\ \A i \in 1 .. answer.seen : log'[i] = log[i]
    BY <1>1, <1>2
  <1>4. Between(answer.cursor, answer.seen, EndOf(answer.events))'
        = Between(answer.cursor, answer.seen, EndOf(answer.events))
    BY <1>3 DEF Between
  <1>5. QED
    BY <1>3, <1>4 DEF AnswerComplete

(* get_batch's answer is complete at the moment it is returned.            *)
LEMMA ServedAnswerComplete ==
    ASSUME StoreInv, NEW r \in Readers, GetServe(r)
    PROVE  AnswerComplete(reply'[r])
  <1>1. PICK s \in 1 .. Len(buffer), e \in 1 .. Len(buffer) :
           /\ IsStart(s, call[r].cursor)
           /\ IsEnd(e, s, call[r].size)
           /\ GetReturn(r, [batch_id |-> batch_id_seq, events |-> SubSeq(buffer, s, e),
                            cursor |-> call[r].cursor, seen |-> Len(log),
                            watermark |-> evicted_watermark])
    BY DEF GetServe
  <1>2. /\ call[r].cursor \in Cursor /\ call[r].size \in Nat
        /\ Len(buffer) \in Nat /\ Len(log) \in Nat
    BY DEF StoreInv, BufferInv, StoreTypeOK, CallState
  <1>3. e \in s .. Len(buffer)
    <2>1. s <= BaseEnd(s, call[r].size) /\ BaseEnd(s, call[r].size) <= e
      BY <1>1, <1>2, ServedRange
    <2>2. BaseEnd(s, call[r].size) \in Int
      BY <1>2 DEF BaseEnd, Least
    <2>3. QED
      BY <1>2, <2>1, <2>2
  <1>4. /\ reply'[r].events = SubSeq(buffer, s, e)
        /\ reply'[r].cursor = call[r].cursor
        /\ reply'[r].seen = Len(log)
        /\ reply'[r].watermark = evicted_watermark
    BY <1>1 DEF GetReturn, StoreInv, BufferInv, StoreTypeOK
  <1>5. ASSUME reply'[r].cursor.timestamp = 0, AboveWatermark(reply'[r])
        PROVE  Rows(reply'[r].events)
               = Between(reply'[r].cursor, reply'[r].seen, EndOf(reply'[r].events))
    <2>1. call[r].cursor \in PosCursor
      BY <1>2, <1>4, <1>5 DEF Cursor, TimeCursor
    <2>2. evicted_watermark = None \/ PosLeq(evicted_watermark, call[r].cursor.pos)
      BY <1>4, <1>5 DEF AboveWatermark
    <2>3. e < Len(buffer) => buffer[e + 1].pos # buffer[e].pos
      BY <1>1 DEF IsEnd
    <2>4. Dropped + s .. Dropped + e
          = Between(call[r].cursor, Len(log), log[Dropped + e].pos)
      BY <1>1, <1>3, <2>1, <2>2, <2>3, ServeIsComplete
    <2>5. /\ Rows(SubSeq(buffer, s, e)) = Dropped + s .. Dropped + e
          /\ EndOf(SubSeq(buffer, s, e)) = log[Dropped + e].pos
      BY <1>3, SliceRows DEF StoreInv
    <2>6. QED
      BY <1>4, <2>4, <2>5, Zenon
  <1>6. QED
    BY <1>2, <1>4, <1>5 DEF AnswerComplete

(* An answer changes only when its reader's call returns.                  *)
LEMMA ReplySteps ==
    ASSUME StoreInv, [StoreNext]_storeVars, NEW r \in Readers
    PROVE  reply'[r] = reply[r] \/ GetServe(r) \/ GetTimeout(r)
  <1>1. reply \in [Readers -> Reply]
    BY DEF StoreInv, BufferInv, StoreTypeOK
  <1>2. CASE UNCHANGED reply
    BY <1>2
  <1>3. ASSUME NEW q \in Readers, GetServe(q) \/ GetTimeout(q)
        PROVE  reply'[r] = reply[r] \/ GetServe(r) \/ GetTimeout(r)
    BY <1>1, <1>3 DEF GetServe, GetTimeout, GetReturn
  <1>4. QED
    BY <1>2, <1>3 DEF StoreNext, storeVars, Put, PutBatch, SetRunning, CallAny,
                      GetBatch, ReaderStep, GetMiss, GetWait, GetWoken

(* Every step keeps every answer complete.                                 *)
LEMMA StepKeepsAnswers ==
    ASSUME StoreInv, StoreInv', AnswersComplete, [StoreNext]_storeVars
    PROVE  AnswersComplete'
  <1>1. SUFFICES ASSUME NEW r \in Readers
                 PROVE  AnswerComplete(reply[r])'
    BY DEF AnswersComplete
  <1>2. reply[r] \in Reply /\ reply \in [Readers -> Reply]
    BY DEF StoreInv, BufferInv, StoreTypeOK
  <1>3. CASE reply'[r] = reply[r]
    <2>1. AnswerComplete(reply[r])
      BY DEF AnswersComplete
    <2>2. PICK a \in Reply : a = reply[r]
      BY <1>2
    <2>3. AnswerComplete(a)'
      BY <2>1, <2>2, AnswerStays
    <2>4. QED
      BY <1>3, <2>2, <2>3 DEF AnswerComplete, AboveWatermark, Rows, Between, EndOf
  <1>4. CASE GetServe(r)
    <2>1. AnswerComplete(reply'[r])
      BY <1>4, ServedAnswerComplete
    <2>2. log' = log
      BY <1>4 DEF GetServe
    <2>3. QED
      BY <2>1, <2>2 DEF AnswerComplete, AboveWatermark, Rows, Between, EndOf
  <1>5. CASE GetTimeout(r)
    <2>1. reply'[r] = NoReply
      BY <1>2, <1>5 DEF GetTimeout, GetReturn
    <2>2. Len(log') \in Nat
      BY DEF StoreInv, BufferInv, StoreTypeOK
    <2>3. reply'[r].seen = 0 /\ reply'[r].events = <<>>
      BY <2>1 DEF NoReply
    <2>4. QED
      BY <2>2, <2>3 DEF AnswerComplete
  <1>6. QED
    BY <1>3, <1>4, <1>5, ReplySteps

(* A batch read from a cursor no lower than the watermark misses nothing   *)
(* and repeats nothing, whatever is put, evicted or truncated around it.   *)
THEOREM ServedBatchCorrect == StoreSpec => []ServedBatchIsComplete
  <1>1. StoreInit => AnswersComplete
    BY DEF StoreInit, AnswersComplete, AnswerComplete, NoReply
  <1>2. StoreInv /\ StoreInv' /\ AnswersComplete /\ [StoreNext]_storeVars => AnswersComplete'
    BY StepKeepsAnswers
  <1>3. AnswersComplete => ServedBatchIsComplete
    BY DEF AnswersComplete, AnswerComplete, ServedBatchIsComplete, Between
  <1>4. QED
    BY <1>1, <1>2, <1>3, StoreInvariant, PTL DEF StoreSpec

-----------------------------------------------------------------------------
(* What a reader is served from a timestamp.                               *)

(* TimestampBatchHasNoHole, of one answer whose first event has row first. *)
FromTimestamp(answer, first) ==
    /\ \A i \in 1 .. Len(answer.events) : answer.events[i] = log[first + i - 1]
    /\ log[first].time >= answer.cursor.timestamp
    /\ \A i \in 1 .. first - 1 :
        \/ log[i].time < answer.cursor.timestamp
        \/ answer.watermark # None /\ PosLeq(log[i].pos, answer.watermark)

(* It speaks of events put before the answer, so later puts do not disturb *)
(* it.                                                                     *)
AnswerHasNoHole(answer) ==
    answer.events # <<>> /\ answer.cursor.timestamp # 0
    => /\ answer.events[1].row \in 1 .. Len(log)
       /\ answer.events[1].row + Len(answer.events) - 1 <= Len(log)
       /\ FromTimestamp(answer, answer.events[1].row)

AnswersHaveNoHole == \A r \in Readers : AnswerHasNoHole(reply[r])

(* get_batch's search by time, at the moment it finds its start: whatever  *)
(* lies before it is too early, or evicted and at or below the watermark.  *)
LEMMA ServeHasNoHole ==
    ASSUME StoreInv, NEW cursor, cursor.timestamp \in Nat \ {0},
           NEW s \in 1 .. Len(buffer), NEW e \in s .. Len(buffer),
           IsStart(s, cursor)
    PROVE  /\ Dropped + s \in 1 .. Len(log) /\ Dropped + e <= Len(log)
           /\ Len(SubSeq(buffer, s, e)) = e - s + 1
           /\ SubSeq(buffer, s, e)[1].row = Dropped + s
           /\ \A i \in 1 .. e - s + 1 :
                SubSeq(buffer, s, e)[i] = log[(Dropped + s) + i - 1]
           /\ log[Dropped + s].time >= cursor.timestamp
           /\ \A i \in 1 .. (Dropped + s) - 1 :
                \/ log[i].time < cursor.timestamp
                \/ evicted_watermark # None /\ PosLeq(log[i].pos, evicted_watermark)
  <1> DEFINE slice == SubSeq(buffer, s, e)
             D == Dropped
             l == Len(log)
             b == Len(buffer)
             ts == cursor.timestamp
  <1>1. /\ b \in Nat /\ l \in Nat /\ D = l - b /\ b <= l /\ D \in Nat
        /\ \A i \in 1 .. b : buffer[i] = log[D + i]
        /\ \A i \in 1 .. l : log[i].row = i
    BY DEF StoreInv, BufferInv, BufferIsNewestEvents, StoreTypeOK, Dropped, LogInv,
           RowsAreIndices
  <1>2. /\ Len(slice) = e - s + 1
        /\ \A i \in 1 .. e - s + 1 : slice[i] = buffer[s + i - 1]
    <2>1. buffer \in Seq(Event) /\ s \in 1 .. Len(buffer) + 1 /\ e \in s - 1 .. Len(buffer)
      BY <1>1 DEF StoreInv, BufferInv, StoreTypeOK
    <2>2. QED
      BY <2>1, Slice
  <1>3. \A i \in 1 .. l : log[i].pos \in Position /\ log[i].time \in Nat
    <2>1. \A i \in 1 .. l : log[i] \in Event
      BY ElementOfSeq DEF StoreInv, BufferInv, StoreTypeOK
    <2>2. QED
      BY <2>1 DEF Event
  <1>4. \A i, j \in 1 .. l : i < j => PosLeq(log[i].pos, log[j].pos)
    BY DEF StoreInv, BufferInv, LogInv, InOrder
  <1>5. /\ buffer[s].time >= ts
        /\ \A i \in 1 .. s - 1 : ~ buffer[i].time >= ts
    BY DEF IsStart, Wanted
  <1>6. D # 0 => evicted_watermark = log[D].pos
    BY DEF StoreInv, WatermarkIsLastDropped
  <1>7. s \in 1 .. b /\ e \in s .. b /\ ts \in Nat
    OBVIOUS
  <1> HIDE DEF slice, D, l, b, ts
  <1>8. D + s \in 1 .. l /\ D + e <= l
    BY <1>1, <1>7
  <1>9. \A i \in 1 .. e - s + 1 :
           /\ s + i - 1 \in 1 .. b /\ D + (s + i - 1) = (D + s) + i - 1
           /\ slice[i] = log[(D + s) + i - 1]
    <2>1. SUFFICES ASSUME NEW i \in 1 .. e - s + 1
                   PROVE  /\ s + i - 1 \in 1 .. b /\ D + (s + i - 1) = (D + s) + i - 1
                          /\ slice[i] = log[(D + s) + i - 1]
      OBVIOUS
    <2>2. s + i - 1 \in 1 .. b /\ D + (s + i - 1) = (D + s) + i - 1
      BY <1>1, <1>7
    <2>3. slice[i] = buffer[s + i - 1] /\ buffer[s + i - 1] = log[D + (s + i - 1)]
      BY <1>1, <1>2, <2>2
    <2>4. QED
      BY <2>2, <2>3
  <1>10. slice[1].row = D + s
    <2>1. 1 \in 1 .. e - s + 1 /\ (D + s) + 1 - 1 = D + s
      BY <1>1, <1>7
    <2>2. slice[1] = log[D + s]
      BY <1>9, <2>1
    <2>3. QED
      BY <1>1, <1>8, <2>2
  <1>11. log[D + s].time >= ts
    BY <1>1, <1>5, <1>7
  <1>12. ASSUME NEW i \in 1 .. (D + s) - 1
         PROVE  \/ log[i].time < ts
                \/ evicted_watermark # None /\ PosLeq(log[i].pos, evicted_watermark)
    <2>1. CASE i <= D
      <3>1. D # 0 /\ D \in 1 .. l /\ i \in 1 .. l /\ (i < D \/ i = D)
        BY <1>1, <2>1
      <3>2. evicted_watermark = log[D].pos /\ evicted_watermark # None
        BY <1>3, <1>6, <3>1, NoneAssumption
      <3>3. PosLeq(log[i].pos, log[D].pos)
        BY <1>4, <3>1 DEF PosLeq
      <3>4. QED
        BY <3>2, <3>3
    <2>2. CASE ~ i <= D
      <3>1. i - D \in 1 .. s - 1 /\ i - D \in 1 .. b /\ D + (i - D) = i /\ i \in 1 .. l
        BY <1>1, <1>7, <2>2
      <3>2. ~ log[i].time >= ts
        BY <1>1, <1>5, <3>1
      <3>3. log[i].time \in Nat
        BY <1>3, <3>1
      <3>4. QED
        BY <1>7, <3>2, <3>3
    <2>3. QED
      BY <2>1, <2>2
  <1>13. QED
    BY <1>2, <1>8, <1>9, <1>10, <1>11, <1>12 DEF slice, D, l, ts

(* get_batch's answer, read by timestamp, at the moment it is returned.    *)
LEMMA ServedAnswerHasNoHole ==
    ASSUME StoreInv, NEW r \in Readers, GetServe(r)
    PROVE  AnswerHasNoHole(reply'[r])
  <1>1. PICK s \in 1 .. Len(buffer), e \in 1 .. Len(buffer) :
           /\ IsStart(s, call[r].cursor)
           /\ IsEnd(e, s, call[r].size)
           /\ GetReturn(r, [batch_id |-> batch_id_seq, events |-> SubSeq(buffer, s, e),
                            cursor |-> call[r].cursor, seen |-> Len(log),
                            watermark |-> evicted_watermark])
    BY DEF GetServe
  <1>2. /\ call[r].cursor \in Cursor /\ call[r].size \in Nat
        /\ Len(buffer) \in Nat /\ Len(log) \in Nat
    BY DEF StoreInv, BufferInv, StoreTypeOK, CallState
  <1>3. e \in s .. Len(buffer)
    <2>1. s <= BaseEnd(s, call[r].size) /\ BaseEnd(s, call[r].size) <= e
      BY <1>1, <1>2, ServedRange
    <2>2. BaseEnd(s, call[r].size) \in Int
      BY <1>2 DEF BaseEnd, Least
    <2>3. QED
      BY <1>2, <2>1, <2>2
  <1>4. PICK slice : slice = SubSeq(buffer, s, e)
    OBVIOUS
  <1>5. /\ reply'[r].events = slice
        /\ reply'[r].cursor = call[r].cursor
        /\ reply'[r].watermark = evicted_watermark
    BY <1>1, <1>4 DEF GetReturn, StoreInv, BufferInv, StoreTypeOK
  <1>6. SUFFICES ASSUME reply'[r].cursor.timestamp # 0
                 PROVE  AnswerHasNoHole(reply'[r])
    BY DEF AnswerHasNoHole
  <1>7. call[r].cursor.timestamp \in Nat \ {0}
    BY <1>2, <1>5, <1>6 DEF Cursor, PosCursor, TimeCursor
  <1>8. PICK first : first = Dropped + s
    OBVIOUS
  <1>9. /\ first \in 1 .. Len(log) /\ Dropped + e <= Len(log)
        /\ Len(slice) = e - s + 1
        /\ slice[1].row = first
        /\ \A i \in 1 .. e - s + 1 : slice[i] = log[first + i - 1]
        /\ log[first].time >= call[r].cursor.timestamp
        /\ \A i \in 1 .. first - 1 :
             \/ log[i].time < call[r].cursor.timestamp
             \/ evicted_watermark # None /\ PosLeq(log[i].pos, evicted_watermark)
    BY <1>1, <1>3, <1>4, <1>7, <1>8, ServeHasNoHole
  <1>10. first + Len(slice) - 1 <= Len(log)
    <2>1. Dropped \in Int
      BY <1>2 DEF Dropped
    <2>2. QED
      BY <1>2, <1>3, <1>8, <1>9, <2>1
  <1>11. FromTimestamp(reply'[r], first)
    BY <1>5, <1>9 DEF FromTimestamp
  <1>12. QED
    BY <1>5, <1>9, <1>10, <1>11 DEF AnswerHasNoHole

(* An answer without a hole stays so while the log grows.                  *)
LEMMA NoHoleStays ==
    ASSUME StoreInv, [StoreNext]_storeVars, NEW answer \in Reply, AnswerHasNoHole(answer)
    PROVE  AnswerHasNoHole(answer)'
  <1> DEFINE first == answer.events[1].row
             n == Len(answer.events)
  <1>1. /\ Len(log) \in Nat /\ Len(log') \in Nat /\ Len(log) <= Len(log')
        /\ \A i \in 1 .. Len(log) : log'[i] = log[i]
    BY LogGrows
  <1>2. SUFFICES ASSUME answer.events # <<>>, answer.cursor.timestamp # 0
                 PROVE  AnswerHasNoHole(answer)'
    BY DEF AnswerHasNoHole
  <1>3. /\ first \in 1 .. Len(log) /\ first + n - 1 <= Len(log)
        /\ FromTimestamp(answer, first)
    BY <1>2 DEF AnswerHasNoHole
  <1>4. n \in Nat
    BY DEF Reply
  <1>5. first \in 1 .. Len(log') /\ first + n - 1 <= Len(log')
    <2> HIDE DEF first, n
    <2>1. QED
      BY <1>1, <1>3, <1>4
  <1>6. FromTimestamp(answer, first)'
    <2>1. \A i \in 1 .. n : answer.events[i] = log'[first + i - 1]
      <3>1. \A i \in 1 .. n : answer.events[i] = log[first + i - 1]
        BY <1>3 DEF FromTimestamp
      <3> HIDE DEF first, n
      <3>2. \A i \in 1 .. n : first + i - 1 \in 1 .. Len(log)
        BY <1>1, <1>3, <1>4
      <3>3. QED
        BY <1>1, <3>1, <3>2
    <2>2. log'[first].time >= answer.cursor.timestamp
      BY <1>1, <1>3 DEF FromTimestamp
    <2>3. \A i \in 1 .. first - 1 :
             \/ log'[i].time < answer.cursor.timestamp
             \/ answer.watermark # None /\ PosLeq(log'[i].pos, answer.watermark)
      <3>1. \A i \in 1 .. first - 1 :
               \/ log[i].time < answer.cursor.timestamp
               \/ answer.watermark # None /\ PosLeq(log[i].pos, answer.watermark)
        BY <1>3 DEF FromTimestamp
      <3> HIDE DEF first
      <3>2. \A i \in 1 .. first - 1 : i \in 1 .. Len(log)
        BY <1>1, <1>3
      <3>3. QED
        BY <1>1, <3>1, <3>2
    <2>4. QED
      BY <2>1, <2>2, <2>3 DEF FromTimestamp
  <1>7. QED
    BY <1>5, <1>6 DEF AnswerHasNoHole

(* Every step keeps every answer without a hole.                           *)
LEMMA StepKeepsNoHole ==
    ASSUME StoreInv, AnswersHaveNoHole, [StoreNext]_storeVars
    PROVE  AnswersHaveNoHole'
  <1>1. SUFFICES ASSUME NEW r \in Readers
                 PROVE  AnswerHasNoHole(reply[r])'
    BY DEF AnswersHaveNoHole
  <1>2. reply[r] \in Reply
    BY DEF StoreInv, BufferInv, StoreTypeOK
  <1>3. CASE reply'[r] = reply[r]
    <2>1. AnswerHasNoHole(reply[r])
      BY DEF AnswersHaveNoHole
    <2>2. PICK a \in Reply : a = reply[r]
      BY <1>2
    <2>3. AnswerHasNoHole(a)'
      BY <2>1, <2>2, NoHoleStays
    <2>4. QED
      BY <1>3, <2>2, <2>3 DEF AnswerHasNoHole, FromTimestamp
  <1>4. CASE GetServe(r)
    <2>1. AnswerHasNoHole(reply'[r])
      BY <1>4, ServedAnswerHasNoHole
    <2>2. log' = log
      BY <1>4 DEF GetServe
    <2>3. QED
      BY <2>1, <2>2 DEF AnswerHasNoHole, FromTimestamp
  <1>5. CASE GetTimeout(r)
    <2>1. reply'[r].events = <<>>
      BY <1>2, <1>5 DEF GetTimeout, GetReturn, NoReply, StoreInv, BufferInv, StoreTypeOK
    <2>2. QED
      BY <2>1 DEF AnswerHasNoHole
  <1>6. QED
    BY <1>3, <1>4, <1>5, ReplySteps

(* A batch read by timestamp starts at the first event still held that is  *)
(* late enough, and is a stretch of the log without a hole; only events    *)
(* the watermark accounts for may be missing before it.                    *)
THEOREM TimestampBatchCorrect == StoreSpec => []TimestampBatchHasNoHole
  <1>1. StoreInit => AnswersHaveNoHole
    BY DEF StoreInit, AnswersHaveNoHole, AnswerHasNoHole, NoReply
  <1>2. StoreInv /\ AnswersHaveNoHole /\ [StoreNext]_storeVars => AnswersHaveNoHole'
    BY StepKeepsNoHole
  <1>3. AnswersHaveNoHole => TimestampBatchHasNoHole
    BY DEF AnswersHaveNoHole, AnswerHasNoHole, FromTimestamp, TimestampBatchHasNoHole
  <1>4. QED
    BY <1>1, <1>2, <1>3, StoreInvariant, PTL DEF StoreSpec

-----------------------------------------------------------------------------
(* Batch ids.                                                              *)

(* Puts and gets draw from one counter, so the first put takes id 0.       *)
IdInv ==
    /\ log # <<>> => batch_id_seq > 0
    /\ ServedIdIsNotEmptyId

(* fetch_add in put_batch and in get_batch.                                *)
LEMMA StepKeepsIds ==
    ASSUME StoreInv, IdInv, [StoreNext]_storeVars
    PROVE  IdInv'
  <1>1. /\ batch_id_seq \in Nat /\ buffer \in Seq(Event) /\ log \in Seq(Event)
        /\ reply \in [Readers -> Reply] /\ Len(buffer) <= Len(log)
    BY DEF StoreInv, BufferInv, StoreTypeOK, BufferIsNewestEvents
  <1>2. log' # <<>> => batch_id_seq' > 0
    <2>1. CASE Put
      BY <1>1, <2>1 DEF Put, PutBatch, TakeId
    <2>2. CASE UNCHANGED log
      <3>1. batch_id_seq' \in {batch_id_seq, batch_id_seq + 1}
        BY DEF StoreNext, storeVars, Put, PutBatch, TakeId, SetRunning, CallAny, GetBatch,
               ReaderStep, GetServe, GetMiss, GetWait, GetWoken, GetTimeout
      <3>2. QED
        BY <1>1, <2>2, <3>1 DEF IdInv
    <2>3. UNCHANGED log \/ Put
      BY DEF StoreNext, storeVars, SetRunning, CallAny, GetBatch, ReaderStep, GetServe,
             GetMiss, GetWait, GetWoken, GetTimeout
    <2>4. QED
      BY <2>1, <2>2, <2>3
  <1>3. ASSUME NEW r \in Readers, reply'[r].events # <<>>
        PROVE  reply'[r].batch_id > 0
    <2>1. CASE reply'[r] = reply[r]
      BY <1>3, <2>1 DEF IdInv, ServedIdIsNotEmptyId
    <2>2. CASE GetServe(r)
      <3>1. reply'[r].batch_id = batch_id_seq
        BY <1>1, <2>2 DEF GetServe, GetReturn
      <3>2. Len(buffer) > 0
        BY <1>1, <2>2 DEF GetServe
      <3>3. log # <<>>
        BY <1>1, <3>2
      <3>4. QED
        BY <3>1, <3>3 DEF IdInv
    <2>3. CASE GetTimeout(r)
      BY <1>1, <1>3, <2>3 DEF GetTimeout, GetReturn, NoReply
    <2>4. QED
      BY <2>1, <2>2, <2>3, ReplySteps
  <1>4. QED
    BY <1>2, <1>3 DEF IdInv, ServedIdIsNotEmptyId

(* A batch that carries events never has the id of the empty answer.       *)
THEOREM ServedIdCorrect == StoreSpec => []ServedIdIsNotEmptyId
  <1>1. StoreInit => IdInv
    BY DEF StoreInit, IdInv, ServedIdIsNotEmptyId, NoReply
  <1>2. StoreInv /\ IdInv /\ [StoreNext]_storeVars => IdInv'
    BY StepKeepsIds
  <1>3. IdInv => ServedIdIsNotEmptyId
    BY DEF IdInv
  <1>4. QED
    BY <1>1, <1>2, <1>3, StoreInvariant, PTL DEF StoreSpec
=============================================================================
