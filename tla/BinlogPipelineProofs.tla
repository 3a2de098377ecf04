------------------------ MODULE BinlogPipelineProofs ------------------------
(***************************************************************************)
(* Proofs about BinlogPipeline, for every size of the channel and of the   *)
(* batches and every length of the stream: types, and that no row is lost, *)
(* doubled or overtaken between the replication thread and the instance.   *)
(***************************************************************************)
EXTENDS BinlogPipeline, SequenceTheorems, TLAPS

-----------------------------------------------------------------------------
(* Sequences of rows and errors.                                           *)

(* s is what d decoded rows, the refused ones apart, may look like.        *)
Sound(s, d, refused) ==
    /\ RowsInOrder(s)
    /\ \A i \in 1 .. Len(s) : s[i] <= d
    /\ \A n \in 1 .. d : n \in refused \/ \E i \in 1 .. Len(s) : s[i] = n

(* \o under a name of its own, which the provers match as it stands.       *)
Cat(s, t) == s \o t

LEMMA CatFacts ==
    ASSUME NEW s \in Seq(Item), NEW t \in Seq(Item), NEW u \in Seq(Item)
    PROVE  /\ Cat(s, t) \in Seq(Item)
           /\ Cat(Cat(s, t), u) = Cat(s, Cat(t, u))
           /\ Cat(s, <<>>) = s
  <1>1. s \o t \in Seq(Item) /\ s \o <<>> = s
    BY ConcatProperties, ConcatEmptySeq
  <1>2. (s \o t) \o u = s \o (t \o u)
    BY <1>1, ConcatAssociative
  <1>3. QED
    BY <1>1, <1>2 DEF Cat

LEMMA FlowIsCat ==
    ASSUME NEW h \in Seq(Item), NEW b \in Seq(Item), NEW c \in Seq(Item), NEW o \in Seq(Item)
    PROVE  /\ Flow(h, b, c, o) \in Seq(Item)
           /\ Flow(h, b, c, o) = Cat(Cat(Cat(h, b), c), o)
           /\ Flow(h, b, c, o) = Cat(Cat(h, b), Cat(c, o))
  <1>1. Flow(h, b, c, o) = Cat(Cat(Cat(h, b), c), o)
    BY DEF Flow, Cat
  <1>2. Cat(h, b) \in Seq(Item)
    BY CatFacts
  <1>3. Cat(Cat(h, b), c) \in Seq(Item)
    BY <1>2, CatFacts
  <1>4. /\ Cat(Cat(Cat(h, b), c), o) \in Seq(Item)
        /\ Cat(Cat(Cat(h, b), c), o) = Cat(Cat(h, b), Cat(c, o))
    BY <1>2, <1>3, CatFacts
  <1>5. QED
    BY <1>1, <1>4

(* The first item of a queue goes to the end of the one before it.         *)
LEMMA HeadMoves ==
    ASSUME NEW s \in Seq(Item), NEW t \in Seq(Item), t # <<>>
    PROVE  /\ Head(t) \in Item /\ Tail(t) \in Seq(Item)
           /\ Append(s, Head(t)) \in Seq(Item)
           /\ Cat(Append(s, Head(t)), Tail(t)) = Cat(s, t)
           /\ t = Cat(<<Head(t)>>, Tail(t))
  <1>1. Head(t) \in Item /\ Tail(t) \in Seq(Item) /\ Head(t) = t[1]
    BY HeadTailProperties
  <1>2. Append(s, Head(t)) \in Seq(Item) /\ Append(s, Head(t)) = s \o <<Head(t)>>
    BY <1>1, AppendProperties, AppendIsConcat
  <1>3. 1 \in 1 .. Len(t) /\ Len(t) \in 1 .. Len(t)
    <2>1. Len(t) \in Nat \ {0}
      BY EmptySeq
    <2>2. QED
      BY <2>1
  <1>4. <<t[1]>> \o SubSeq(t, 2, Len(t)) = SubSeq(t, 1, Len(t))
    <2>1. <<t[1]>> \o SubSeq(t, 1 + 1, Len(t)) = SubSeq(t, 1, Len(t))
      BY <1>3, SubSeqRecursiveFirst
    <2>2. QED
      BY <2>1
  <1>5. SubSeq(t, 1, Len(t)) = t /\ Tail(t) = SubSeq(t, 2, Len(t))
    BY SubSeqFull, TailIsSubSeq
  <1>6. t = Cat(<<Head(t)>>, Tail(t))
    BY <1>1, <1>4, <1>5 DEF Cat
  <1>7. PICK one, rest : one = <<Head(t)>> /\ rest = Tail(t)
    OBVIOUS
  <1>8. one \in Seq(Item) /\ rest \in Seq(Item)
    BY <1>1, <1>7
  <1>9. Cat(Cat(s, one), rest) = Cat(s, Cat(one, rest))
    BY <1>8, CatFacts
  <1>10. Append(s, Head(t)) = Cat(s, one)
    BY <1>2, <1>7 DEF Cat
  <1>11. QED
    BY <1>1, <1>2, <1>6, <1>7, <1>9, <1>10

(* Sending, collecting and feeding a row leave what is on its way as it is. *)
LEMMA FlowMoves ==
    ASSUME NEW h \in Seq(Item), NEW b \in Seq(Item), NEW c \in Seq(Item), NEW o \in Seq(Item)
    PROVE  /\ o # <<>> => Flow(h, b, Append(c, Head(o)), Tail(o)) = Flow(h, b, c, o)
           /\ c # <<>> => Flow(h, Append(b, Head(c)), Tail(c), o) = Flow(h, b, c, o)
           /\ Flow(h \o b, <<>>, c, o) = Flow(h, b, c, o)
  <1>1. ASSUME o # <<>>
        PROVE  Flow(h, b, Append(c, Head(o)), Tail(o)) = Flow(h, b, c, o)
    <2>1. PICK c2, o2 : c2 = Append(c, Head(o)) /\ o2 = Tail(o)
      OBVIOUS
    <2>2. c2 \in Seq(Item) /\ o2 \in Seq(Item) /\ Cat(c2, o2) = Cat(c, o)
      BY <1>1, <2>1, HeadMoves
    <2>3. Flow(h, b, c2, o2) = Flow(h, b, c, o)
      BY <2>2, FlowIsCat
    <2>4. QED
      BY <2>1, <2>3
  <1>2. ASSUME c # <<>>
        PROVE  Flow(h, Append(b, Head(c)), Tail(c), o) = Flow(h, b, c, o)
    <2>1. PICK b2, c2 : b2 = Append(b, Head(c)) /\ c2 = Tail(c)
      OBVIOUS
    <2>2. b2 \in Seq(Item) /\ c2 \in Seq(Item) /\ Cat(b2, c2) = Cat(b, c)
      BY <1>2, <2>1, HeadMoves
    <2>3. Cat(Cat(h, b2), c2) = Cat(Cat(h, b), c)
      BY <2>2, CatFacts
    <2>4. Flow(h, b2, c2, o) = Flow(h, b, c, o)
      BY <2>2, <2>3, FlowIsCat
    <2>5. QED
      BY <2>1, <2>4
  <1>3. Flow(h \o b, <<>>, c, o) = Flow(h, b, c, o)
    <2>1. Cat(h, b) \in Seq(Item) /\ Cat(Cat(h, b), <<>>) = Cat(h, b)
      <3>1. Cat(h, b) \in Seq(Item)
        BY CatFacts
      <3>2. QED
        BY <3>1, CatFacts
    <2>2. (h \o b) \o <<>> = h \o b
      BY <2>1 DEF Cat
    <2>3. QED
      BY <2>2 DEF Flow
  <1>4. QED
    BY <1>1, <1>2, <1>3

(* An error received takes nothing with it.                                *)
LEMMA SoundWithoutErr ==
    ASSUME NEW p \in Seq(Nat), NEW q \in Seq(Nat), NEW d \in Nat, NEW refused,
           Sound(p \o (<<Err>> \o q), d, refused)
    PROVE  Sound(p \o q, d, refused)
  <1> DEFINE s == p \o (<<Err>> \o q)
             t == p \o q
             m == Len(p)
             old(i) == IF i <= m THEN i ELSE i + 1
             new(i) == IF i <= m THEN i ELSE i - 1
  <1>1. /\ <<Err>> \in Seq(Nat) /\ Len(<<Err>>) = 1
        /\ m \in Nat /\ Len(q) \in Nat
    BY DEF Err
  <1>2. /\ <<Err>> \o q \in Seq(Nat) /\ Len(<<Err>> \o q) = 1 + Len(q)
        /\ \A i \in 1 .. 1 + Len(q) : (<<Err>> \o q)[i] = IF i = 1 THEN Err ELSE q[i - 1]
    <2>1. \A i \in 1 .. 1 + Len(q) :
             (<<Err>> \o q)[i] = IF i <= 1 THEN <<Err>>[i] ELSE q[i - 1]
      BY <1>1, ConcatProperties
    <2>2. <<Err>> \o q \in Seq(Nat) /\ Len(<<Err>> \o q) = 1 + Len(q)
      BY <1>1, ConcatProperties
    <2>3. QED
      BY <1>1, <2>1, <2>2
  <1>3. /\ s \in Seq(Nat) /\ Len(s) = m + 1 + Len(q)
        /\ \A i \in 1 .. m + 1 + Len(q) :
              s[i] = IF i <= m THEN p[i] ELSE (<<Err>> \o q)[i - m]
    <2>1. PICK e \in Seq(Nat) : e = <<Err>> \o q
      BY <1>2
    <2>2. /\ p \o e \in Seq(Nat) /\ Len(p \o e) = m + Len(e)
          /\ \A i \in 1 .. m + Len(e) : (p \o e)[i] = IF i <= m THEN p[i] ELSE e[i - m]
      BY ConcatProperties
    <2>3. m + Len(e) = m + 1 + Len(q)
      BY <1>1, <1>2, <2>1
    <2>4. QED
      BY <2>1, <2>2, <2>3
  <1>4. /\ t \in Seq(Nat) /\ Len(t) = m + Len(q)
        /\ \A i \in 1 .. m + Len(q) : t[i] = IF i <= m THEN p[i] ELSE q[i - m]
    BY ConcatProperties
  <1>5. s[m + 1] = Err
    <2>1. m + 1 \in 1 .. m + 1 + Len(q) /\ (m + 1) - m = 1 /\ 1 \in 1 .. 1 + Len(q)
          /\ ~ m + 1 <= m
      BY <1>1
    <2>2. QED
      BY <1>2, <1>3, <2>1
  <1> HIDE DEF s, t, m
  <1>6. ASSUME NEW i \in 1 .. Len(t)
        PROVE  old(i) \in 1 .. Len(s) /\ t[i] = s[old(i)]
    <2>1. CASE i <= m
      <3>1. i \in 1 .. m + 1 + Len(q) /\ i \in 1 .. m + Len(q)
        BY <1>1, <1>4, <2>1
      <3>2. QED
        BY <1>3, <1>4, <2>1, <3>1
    <2>2. CASE ~ i <= m
      <3>1. /\ i + 1 \in 1 .. m + 1 + Len(q) /\ ~ i + 1 <= m
            /\ (i + 1) - m \in 1 .. 1 + Len(q) /\ (i + 1) - m # 1
            /\ ((i + 1) - m) - 1 = i - m /\ i \in 1 .. m + Len(q)
        BY <1>1, <1>4, <2>2
      <3>2. QED
        BY <1>2, <1>3, <1>4, <2>2, <3>1
    <2>3. QED
      BY <2>1, <2>2
  <1>7. ASSUME NEW i \in 1 .. Len(s), s[i] # Err
        PROVE  \E j \in 1 .. Len(t) : t[j] = s[i]
    <2>1. i # m + 1
      BY <1>5, <1>7
    <2>2. new(i) \in 1 .. Len(t) /\ old(new(i)) = i
      BY <1>1, <1>3, <1>4, <2>1
    <2>3. QED
      BY <1>6, <2>2
  <1>8. Sound(s, d, refused)
    BY DEF s
  <1>9. RowsInOrder(t)
    <2>1. SUFFICES ASSUME NEW i \in 1 .. Len(t), NEW j \in 1 .. Len(t), i < j,
                          IsRow(t[i]), IsRow(t[j])
                   PROVE  t[i] < t[j]
      BY DEF RowsInOrder
    <2>2. old(i) < old(j)
      <3>1. i \in Nat /\ j \in Nat /\ i < j
        BY <1>1, <1>4, <2>1
      <3>2. QED
        BY <1>1, <3>1
    <2>3. /\ old(i) \in 1 .. Len(s) /\ t[i] = s[old(i)]
          /\ old(j) \in 1 .. Len(s) /\ t[j] = s[old(j)]
      BY <1>6
    <2> HIDE DEF old
    <2>4. QED
      BY <1>8, <2>1, <2>2, <2>3 DEF Sound, RowsInOrder
  <1>10. \A i \in 1 .. Len(t) : t[i] <= d
    <2> HIDE DEF old
    <2>1. QED
      BY <1>6, <1>8 DEF Sound
  <1>11. ASSUME NEW n \in 1 .. d, n \notin refused
         PROVE  \E i \in 1 .. Len(t) : t[i] = n
    <2>1. PICK i \in 1 .. Len(s) : s[i] = n
      BY <1>8, <1>11 DEF Sound
    <2>2. s[i] # Err
      BY <2>1 DEF Err
    <2>3. QED
      BY <1>7, <2>1, <2>2
  <1>12. QED
    BY <1>9, <1>10, <1>11 DEF Sound, t

(* New items at the end: errors, and rows of which the ones before are     *)
(* decoded already.                                                        *)
LEMMA SoundWithMore ==
    ASSUME NEW s \in Seq(Nat), NEW new \in Seq(Nat), NEW d \in Nat, NEW n \in Nat,
           NEW refused, NEW bad,
           Sound(s, d, refused),
           \A i \in 1 .. Len(new) : i <= n /\ new[i] \in {Err, d + i},
           \A k \in 1 .. n : d + k \in bad \/ (k <= Len(new) /\ new[k] = d + k)
    PROVE  Sound(s \o new, d + n, refused \cup bad)
  <1> DEFINE t == s \o new
             m == Len(s)
  <1>1. /\ t \in Seq(Nat) /\ Len(t) = m + Len(new) /\ m \in Nat /\ Len(new) \in Nat
        /\ \A i \in 1 .. m + Len(new) : t[i] = IF i <= m THEN s[i] ELSE new[i - m]
    BY ConcatProperties
  <1>2. \A i \in 1 .. m : s[i] \in Nat /\ s[i] <= d
    BY ElementOfSeq DEF Sound
  <1> HIDE DEF t, m
  <1>3. ASSUME NEW i \in 1 .. m
        PROVE  i \in 1 .. Len(t) /\ t[i] = s[i]
    BY <1>1
  <1>4. ASSUME NEW i \in 1 .. Len(t), ~ i <= m
        PROVE  /\ i - m \in 1 .. Len(new) /\ t[i] = new[i - m]
               /\ i - m <= n /\ t[i] \in {Err, d + (i - m)}
    <2>1. i - m \in 1 .. Len(new) /\ i \in 1 .. m + Len(new)
      BY <1>1, <1>4
    <2>2. QED
      BY <1>1, <1>4, <2>1
  <1>5. RowsInOrder(t)
    <2>1. SUFFICES ASSUME NEW i \in 1 .. Len(t), NEW j \in 1 .. Len(t), i < j,
                          t[i] # Err, t[j] # Err
                   PROVE  t[i] < t[j]
      BY DEF RowsInOrder, IsRow
    <2>2. CASE j <= m
      <3>1. i \in 1 .. m /\ j \in 1 .. m
        BY <1>1, <2>1, <2>2
      <3>2. t[i] = s[i] /\ t[j] = s[j]
        BY <1>3, <3>1
      <3>3. QED
        BY <2>1, <3>1, <3>2 DEF Sound, RowsInOrder, IsRow, m
    <2>3. CASE i <= m /\ ~ j <= m
      <3>1. i \in 1 .. m /\ j - m \in Nat /\ j - m >= 1 /\ t[j] = d + (j - m)
        BY <1>1, <1>4, <2>1, <2>3
      <3>2. t[i] \in Nat /\ t[i] <= d
        BY <1>2, <1>3, <3>1
      <3>3. QED
        BY <3>1, <3>2
    <2>4. CASE ~ i <= m /\ ~ j <= m
      <3>1. t[i] = d + (i - m) /\ t[j] = d + (j - m)
        BY <1>4, <2>1, <2>4
      <3>2. QED
        BY <1>1, <2>1, <3>1
    <2>5. QED
      BY <1>1, <2>1, <2>2, <2>3, <2>4
  <1>6. ASSUME NEW i \in 1 .. Len(t)
        PROVE  t[i] <= d + n
    <2>1. CASE i <= m
      <3>1. i \in 1 .. m
        BY <1>1, <2>1
      <3>2. t[i] \in Nat /\ t[i] <= d
        BY <1>2, <1>3, <3>1
      <3>3. QED
        BY <3>2
    <2>2. CASE ~ i <= m
      <3>1. i - m \in Nat /\ i - m <= n /\ t[i] \in {0, d + (i - m)}
        BY <1>1, <1>4, <2>2 DEF Err
      <3>2. QED
        BY <3>1
    <2>3. QED
      BY <2>1, <2>2
  <1>7. ASSUME NEW k \in 1 .. d + n, k \notin refused \cup bad
        PROVE  \E i \in 1 .. Len(t) : t[i] = k
    <2>1. CASE k <= d
      <3>1. k \in 1 .. d
        BY <2>1
      <3>2. PICK i \in 1 .. m : s[i] = k
        BY <1>7, <3>1 DEF Sound, m
      <3>3. QED
        BY <1>3, <3>2
    <2>2. CASE k > d
      <3>1. k - d \in 1 .. n /\ d + (k - d) = k
        BY <2>2
      <3>2. k - d <= Len(new) /\ new[k - d] = k
        BY <1>7, <3>1
      <3>3. m + (k - d) \in 1 .. Len(t) /\ ~ m + (k - d) <= m /\ (m + (k - d)) - m = k - d
        BY <1>1, <3>1, <3>2
      <3>4. QED
        BY <1>4, <3>2, <3>3
    <2>3. QED
      BY <2>1, <2>2
  <1>8. QED
    BY <1>5, <1>6, <1>7 DEF Sound, t

(* An error at the end is no row.                                          *)
LEMMA SoundWithErr ==
    ASSUME NEW s \in Seq(Nat), NEW e, e = <<Err>>, NEW d \in Nat, NEW refused,
           Sound(s, d, refused)
    PROVE  Sound(s \o e, d, refused)
  <1> DEFINE t == s \o e
             m == Len(s)
  <1>1. e \in Seq(Nat) /\ Len(e) = 1 /\ e[1] = Err /\ m \in Nat
    BY DEF Err
  <1>2. /\ Len(t) = m + 1
        /\ \A i \in 1 .. m + 1 : t[i] = IF i <= m THEN s[i] ELSE e[i - m]
    BY <1>1, ConcatProperties
  <1>3. t[m + 1] = Err
    <2>1. m + 1 \in 1 .. m + 1 /\ ~ m + 1 <= m /\ (m + 1) - m = 1
      BY <1>1
    <2>2. QED
      BY <1>1, <1>2, <2>1
  <1> HIDE DEF t
  <1>4. ASSUME NEW i \in 1 .. m + 1
        PROVE  IF i = m + 1 THEN t[i] = Err ELSE i \in 1 .. m /\ t[i] = s[i]
    BY <1>1, <1>2, <1>3
  <1>5. \A i \in 1 .. m : i \in 1 .. m + 1 /\ i # m + 1
    BY <1>1
  <1>6. RowsInOrder(t)
    BY <1>2, <1>4 DEF RowsInOrder, IsRow, Sound
  <1>7. \A i \in 1 .. Len(t) : t[i] <= d
    BY <1>2, <1>4 DEF Sound, Err
  <1>8. \A n \in 1 .. d : n \in refused \/ \E i \in 1 .. Len(t) : t[i] = n
    <2>1. SUFFICES ASSUME NEW n \in 1 .. d, n \notin refused
                   PROVE  \E i \in 1 .. Len(t) : t[i] = n
      OBVIOUS
    <2>2. PICK i \in 1 .. m : s[i] = n
      BY <2>1 DEF Sound
    <2>3. QED
      BY <1>2, <1>4, <1>5, <2>2
  <1>9. QED
    BY <1>6, <1>7, <1>8 DEF Sound, t

-----------------------------------------------------------------------------
(* The inductive invariant.                                                *)

History == [decoded : Nat, handed : Seq(Nat), refused : SUBSET Nat, errors : Nat]

(* connect() spawns the thread, and it owes rows exactly while it sends.   *)
PipelineInv ==
    /\ TypeOK
    /\ hist \in History
    /\ feeder.pc = "new" => thread.pc = "none"
    /\ thread.pc = "sending" <=> thread.owes # <<>>
    /\ ReceiverAlive => Sound(InFlight, hist.decoded, hist.refused)

LEMMA PipelineInit == Init => PipelineInv
  <1> SUFFICES ASSUME Init PROVE PipelineInv
    OBVIOUS
  <1>1. /\ <<>> \in Seq(Nat) /\ Len(<<>>) = 0
        /\ thread.pc = "none" /\ thread.owes = <<>> /\ channel = <<>>
        /\ feeder.batch = <<>>
    BY DEF Init
  <1>2. TypeOK
    <2>1. 0 < BatchLimit /\ 0 <= ChannelCapacity
      BY PipelineAssumption
    <2>2. /\ thread \in [pc : {"none", "starting", "pulling", "sending", "done"},
                        owes : Seq(Item), signalled : BOOLEAN]
          /\ feeder \in [pc : {"new", "connecting", "loop", "ended"},
                        batch : Seq(Item), ticked : BOOLEAN]
      BY DEF Init
    <2>3. QED
      BY <1>1, <2>1, <2>2 DEF Init, TypeOK
  <1>3. hist = [decoded |-> 0, handed |-> <<>>, refused |-> {}, errors |-> 0]
    BY DEF Init
  <1>4. InFlight = <<>>
    <2>1. <<>> \o <<>> = <<>>
      BY <1>1, ConcatEmptySeq
    <2>2. QED
      BY <1>1, <1>3, <2>1 DEF InFlight, Flow
  <1>5. Sound(<<>>, 0, {})
    BY <1>1 DEF Sound, RowsInOrder
  <1>6. hist \in History
    BY <1>1, <1>3 DEF History
  <1>7. QED
    BY <1>1, <1>2, <1>3, <1>4, <1>5, <1>6 DEF PipelineInv

(* The parts, typed, for the steps below.                                  *)
LEMMA Parts ==
    ASSUME PipelineInv
    PROVE  /\ thread.owes \in Seq(Nat) /\ channel \in Seq(Nat) /\ feeder.batch \in Seq(Nat)
           /\ hist.handed \in Seq(Nat) /\ hist.decoded \in Nat /\ hist.refused \in SUBSET Nat
           /\ hist.errors \in Nat
           /\ hist = [decoded |-> hist.decoded, handed |-> hist.handed,
                      refused |-> hist.refused, errors |-> hist.errors]
           /\ InFlight \in Seq(Nat)
  <1>1. /\ thread.owes \in Seq(Nat) /\ channel \in Seq(Nat) /\ feeder.batch \in Seq(Nat)
    BY DEF PipelineInv, TypeOK, Item
  <1>2. /\ hist.handed \in Seq(Nat) /\ hist.decoded \in Nat /\ hist.refused \in SUBSET Nat
        /\ hist.errors \in Nat
        /\ hist = [decoded |-> hist.decoded, handed |-> hist.handed,
                   refused |-> hist.refused, errors |-> hist.errors]
    BY DEF PipelineInv, History
  <1>3. InFlight \in Seq(Nat)
    BY <1>1, <1>2, FlowIsCat DEF InFlight, Item
  <1>4. QED
    BY <1>1, <1>2, <1>3

(* Steps that move no row: only states of the tasks change.                *)
LEMMA StillKeeps ==
    ASSUME PipelineInv, UNCHANGED <<channel, hist>>, TypeOK',
           thread'.owes = thread.owes,
           thread'.pc = thread.pc \/ (thread.pc # "sending" /\ thread'.pc # "sending"),
           feeder'.pc # "ended" => feeder.pc # "ended" /\ feeder'.batch = feeder.batch,
           feeder'.pc = "new" => feeder.pc = "new" /\ thread' = thread
    PROVE  PipelineInv'
  BY DEF PipelineInv, ReceiverAlive, InFlight

LEMMA TasksKeep ==
    ASSUME PipelineInv,
           \/ NewFails \/ Connect \/ Connected \/ ConnectTimeout
           \/ ThreadPanics \/ Replicates \/ Cancelled \/ StreamDone
           \/ Sigint \/ ServeReturns \/ FeederJoined \/ AbortFeeder
           \/ (\E b \in BOOLEAN : SetInstance(b))
           \/ UNCHANGED vars
    PROVE  PipelineInv'
  <1>1. TypeOK /\ <<>> \in Seq(Item) /\ Len(<<>>) < BatchLimit
    BY PipelineAssumption DEF PipelineInv
  <1>2. CASE NewFails \/ AbortFeeder
    <2>1. TypeOK'
      BY <1>1, <1>2 DEF NewFails, AbortFeeder, EndFeeder, TypeOK
    <2>2. QED
      BY <1>1, <1>2, <2>1, StillKeeps DEF NewFails, AbortFeeder, EndFeeder, TypeOK
  <1>3. CASE Connect \/ Connected \/ ConnectTimeout
    <2>1. TypeOK'
      <3>1. CASE Connect
        BY <1>1, <3>1 DEF Connect, TypeOK
      <3>2. CASE Connected
        BY <1>1, <3>2 DEF Connected, TypeOK
      <3>3. CASE ConnectTimeout
        BY <1>1, <3>3 DEF ConnectTimeout, TypeOK
      <3>4. QED
        BY <1>3, <3>1, <3>2, <3>3
    <2>2. /\ UNCHANGED <<channel, hist>> /\ thread'.owes = thread.owes
          /\ thread'.pc = thread.pc \/ (thread.pc # "sending" /\ thread'.pc # "sending")
      BY <1>1, <1>3 DEF Connect, Connected, ConnectTimeout, TypeOK, PipelineInv
    <2>3. feeder'.pc # "ended" => feeder.pc # "ended" /\ feeder'.batch = feeder.batch
      BY <1>1, <1>3 DEF Connect, Connected, ConnectTimeout, TypeOK
    <2>4. feeder'.pc # "new"
      BY <1>1, <1>3 DEF Connect, Connected, ConnectTimeout, TypeOK
    <2>5. QED
      BY <2>1, <2>2, <2>3, <2>4, StillKeeps
  <1>4. CASE ThreadPanics \/ Replicates \/ Cancelled \/ StreamDone
    <2>1. TypeOK'
      BY <1>1, <1>4 DEF ThreadPanics, Replicates, Cancelled, StreamDone, TypeOK
    <2>2. QED
      <3>1. /\ UNCHANGED <<channel, hist, feeder>> /\ thread'.owes = thread.owes
            /\ thread.pc # "sending" /\ thread'.pc # "sending" /\ feeder.pc # "new"
        BY <1>1, <1>4 DEF ThreadPanics, Replicates, Cancelled, StreamDone, TypeOK, PipelineInv
      <3>2. QED
        BY <2>1, <3>1, StillKeeps
  <1>5. CASE \/ Sigint \/ ServeReturns \/ FeederJoined \/ (\E b \in BOOLEAN : SetInstance(b))
             \/ UNCHANGED vars
    <2>1. TypeOK'
      BY <1>1, <1>5 DEF Sigint, ServeReturns, FeederJoined, SetInstance, vars, TypeOK
    <2>2. QED
      BY <1>1, <1>5, <2>1, StillKeeps
         DEF Sigint, ServeReturns, FeederJoined, SetInstance, vars, TypeOK
  <1>6. QED
    BY <1>2, <1>3, <1>4, <1>5

(* blocking_send of an error, with nothing else to send.                   *)
LEMMA ErrKeeps ==
    ASSUME PipelineInv, ReplicateFails \/ StreamError \/ DecoderPanics
    PROVE  PipelineInv'
  <1>1. /\ TypeOK /\ Push(Err) /\ feeder' = feeder /\ thread'.owes = thread.owes
        /\ thread.pc # "sending" /\ thread'.pc # "sending" /\ thread.owes = <<>>
        /\ hist'.handed = hist.handed /\ hist'.decoded = hist.decoded
        /\ hist'.refused = hist.refused /\ hist' \in History
    <2>1. TypeOK /\ Push(Err) /\ feeder' = feeder
      BY DEF PipelineInv, ReplicateFails, StreamError, DecoderPanics
    <2>2. thread.pc # "sending" /\ thread.owes = <<>>
      BY DEF PipelineInv, ReplicateFails, StreamError, DecoderPanics
    <2>3. thread'.owes = thread.owes /\ thread'.pc # "sending"
      BY <2>1 DEF TypeOK, ReplicateFails, StreamError, DecoderPanics
    <2>4. hist' = hist \/ hist' = [hist EXCEPT !.errors = hist.errors + 1]
      BY DEF PipelineInv, History, ReplicateFails, StreamError, DecoderPanics
    <2>5. QED
      BY <2>1, <2>2, <2>3, <2>4, Parts DEF PipelineInv, History
  <1>2. /\ channel' \in Seq(Nat) /\ Len(channel') <= ChannelCapacity
        /\ ReceiverAlive => channel' = channel \o <<Err>>
    <2>1. CASE ReceiverAlive /\ Len(channel) < ChannelCapacity /\ channel' = Append(channel, Err)
      <3>1. PICK c \in Seq(Nat), e \in Nat : c = channel /\ e = Err
        BY Parts DEF Err
      <3>2. /\ Append(c, e) \in Seq(Nat) /\ Len(Append(c, e)) = Len(c) + 1
            /\ Append(c, e) = c \o <<e>> /\ Len(c) \in Nat
        BY AppendProperties, AppendIsConcat
      <3>3. QED
        BY <2>1, <3>1, <3>2, PipelineAssumption
    <2>2. CASE ~ ReceiverAlive /\ channel' = channel
      BY <1>1, <2>2 DEF TypeOK, Item
    <2>3. QED
      BY <1>1, <2>1, <2>2 DEF Push
  <1>3. TypeOK'
    <2>1. thread' \in [pc : {"none", "starting", "pulling", "sending", "done"},
                       owes : Seq(Item), signalled : BOOLEAN]
      BY <1>1 DEF ReplicateFails, StreamError, DecoderPanics, TypeOK, ReceiverAlive
    <2>2. UNCHANGED <<connector, feeder, main, shutdown, instance>>
      BY DEF ReplicateFails, StreamError, DecoderPanics
    <2>3. QED
      BY <1>1, <1>2, <2>1, <2>2 DEF TypeOK, Item
  <1>4. ASSUME ReceiverAlive
        PROVE  Sound(InFlight, hist.decoded, hist.refused)'
    <2>1. PICK h, b, c, e, d, r :
             /\ h = hist.handed /\ b = feeder.batch /\ c = channel /\ e = <<Err>>
             /\ d = hist.decoded /\ r = hist.refused
      OBVIOUS
    <2>2. /\ h \in Seq(Item) /\ b \in Seq(Item) /\ c \in Seq(Item) /\ e \in Seq(Item)
          /\ <<>> \in Seq(Item) /\ d \in Nat
          /\ Sound(Flow(h, b, c, <<>>), d, r)
      <3>1. InFlight = Flow(h, b, c, <<>>) /\ Sound(InFlight, d, r)
        BY <1>1, <1>4, <2>1 DEF InFlight, PipelineInv
      <3>2. QED
        BY <2>1, <3>1, Parts DEF Item, Err
    <2>3. PICK s : s = Flow(h, b, c, <<>>)
      OBVIOUS
    <2>4. Flow(h, b, c \o e, <<>>) = s \o e
      <3>1. PICK hb, ce : hb = Cat(h, b) /\ ce = Cat(c, e)
        OBVIOUS
      <3>2. hb \in Seq(Item) /\ ce \in Seq(Item)
        BY <2>2, <3>1, CatFacts
      <3>3. Flow(h, b, ce, <<>>) = Cat(Cat(hb, ce), <<>>) /\ s = Cat(Cat(hb, c), <<>>)
        BY <2>3, <3>1 DEF Flow, Cat
      <3>4. Cat(hb, ce) \in Seq(Item) /\ Cat(hb, c) \in Seq(Item)
        BY <2>2, <3>2, CatFacts
      <3>5. Flow(h, b, ce, <<>>) = Cat(hb, ce) /\ s = Cat(hb, c)
        BY <2>2, <3>3, <3>4, CatFacts
      <3>6. Cat(hb, ce) = Cat(s, e)
        BY <2>2, <3>1, <3>2, <3>5, CatFacts
      <3>7. QED
        BY <3>1, <3>5, <3>6 DEF Cat
    <2>6. Sound(s \o e, d, r)
      <3>1. Sound(s, d, r)
        BY <2>2, <2>3
      <3>2. QED
        BY <2>1, <2>2, <2>3, <3>1, FlowIsCat, SoundWithErr DEF Item
    <2>7. QED
      BY <1>1, <1>2, <1>4, <2>1, <2>4, <2>6 DEF InFlight
  <1>5. QED
    <2>1. feeder.pc # "new"
      BY DEF PipelineInv, ReplicateFails, StreamError, DecoderPanics
    <2>2. QED
      BY <1>1, <1>3, <1>4, <2>1 DEF PipelineInv, ReceiverAlive

(* blocking_send of a row: it moves into the channel.                      *)
LEMMA SendKeeps == ASSUME PipelineInv, SendRow PROVE PipelineInv'
  <1> DEFINE c == channel
             o == thread.owes
  <1>1. /\ TypeOK /\ thread.pc = "sending" /\ o # <<>> /\ Push(Head(o))
        /\ c \in Seq(Item) /\ o \in Seq(Item)
        /\ UNCHANGED <<connector, feeder, main, shutdown, instance, hist>>
        /\ feeder.pc # "new" /\ InFlight \in Seq(Nat)
    BY Parts DEF PipelineInv, SendRow, Item
  <1>2. /\ Head(o) \in Item /\ Tail(o) \in Seq(Item) /\ Append(c, Head(o)) \in Seq(Item)
        /\ Len(Tail(o)) = Len(o) - 1 /\ Len(o) \in Nat \ {0}
        /\ Len(Append(c, Head(o))) = Len(c) + 1 /\ Len(c) \in Nat
    BY <1>1, HeadTailProperties, AppendProperties, EmptySeq
  <1>3. /\ thread'.owes = Tail(o)
        /\ thread'.pc = IF Len(o) = 1 THEN "pulling" ELSE "sending"
        /\ thread' \in [pc : {"none", "starting", "pulling", "sending", "done"},
                        owes : Seq(Item), signalled : BOOLEAN]
    BY <1>1, <1>2 DEF SendRow, TypeOK
  <1>4. thread'.pc = "sending" <=> thread'.owes # <<>>
    <2>1. Len(Tail(o)) = 0 <=> Tail(o) = <<>>
      BY <1>2, EmptySeq
    <2>2. QED
      BY <1>2, <1>3, <2>1
  <1>5. /\ channel' \in Seq(Item) /\ Len(channel') <= ChannelCapacity
        /\ ReceiverAlive => channel' = Append(c, Head(o))
    <2>1. CASE ReceiverAlive /\ Len(c) < ChannelCapacity /\ channel' = Append(c, Head(o))
      BY <1>2, <2>1, PipelineAssumption
    <2>2. CASE ~ ReceiverAlive /\ channel' = c
      BY <1>1, <2>2 DEF TypeOK
    <2>3. QED
      BY <1>1, <2>1, <2>2 DEF Push
  <1>6. TypeOK'
    BY <1>1, <1>3, <1>5 DEF TypeOK
  <1>7. ReceiverAlive => InFlight' = InFlight
    <2>1. SUFFICES ASSUME ReceiverAlive
                   PROVE  Flow(hist.handed, feeder.batch, Append(c, Head(o)), Tail(o)) = InFlight
      BY <1>1, <1>3, <1>5 DEF InFlight
    <2>2. PICK h \in Seq(Item), b \in Seq(Item) : h = hist.handed /\ b = feeder.batch
      BY Parts DEF Item
    <2>3. Flow(h, b, Append(c, Head(o)), Tail(o)) = Flow(h, b, c, o)
      BY <1>1, FlowMoves
    <2>4. QED
      BY <2>2, <2>3 DEF InFlight
  <1>8. QED
    BY <1>1, <1>4, <1>6, <1>7 DEF PipelineInv, ReceiverAlive

(* The next binlog event: its rows are owed, the ones that cannot be       *)
(* converted as errors.                                                    *)
LEMMA PullKeeps == ASSUME PipelineInv, NEW n \in Nat, Pull(n) PROVE PipelineInv'
  <1> DEFINE d == hist.decoded
  <1>1. /\ TypeOK /\ thread.pc = "pulling" /\ thread.owes = <<>>
        /\ UNCHANGED <<connector, channel, feeder, main, shutdown, instance>>
        /\ feeder.pc # "new" /\ d \in Nat
    BY Parts DEF PipelineInv, Pull
  <1>2. PICK items \in [1 .. n -> BOOLEAN] :
           LET bad == {i \in 1 .. n : ~ items[i]}
           IN  /\ thread' = [thread EXCEPT
                    !.pc = IF n = 0 THEN "pulling" ELSE "sending",
                    !.owes = [i \in 1 .. n |-> IF items[i] THEN d + i ELSE Err]]
               /\ hist' = [hist EXCEPT
                    !.decoded = d + n,
                    !.refused = hist.refused \cup {d + i : i \in bad},
                    !.errors = IF bad = {} THEN hist.errors ELSE hist.errors + 1]
    BY <1>1 DEF Pull
  <1> DEFINE new == [i \in 1 .. n |-> IF items[i] THEN d + i ELSE Err]
             bad == {d + i : i \in {j \in 1 .. n : ~ items[j]}}
  <1>3. /\ new \in Seq(Nat) /\ Len(new) = n
        /\ \A i \in 1 .. n : new[i] = IF items[i] THEN d + i ELSE Err
    BY <1>1 DEF Err
  <1>4. /\ hist' \in History /\ hist'.handed = hist.handed
        /\ hist'.decoded = d + n /\ hist'.refused = hist.refused \cup bad
    <2>1. PICK e \in Nat, m \in Nat, r \in SUBSET Nat :
             /\ m = d + n /\ r = hist.refused \cup bad
             /\ hist' = [hist EXCEPT !.decoded = m, !.refused = r, !.errors = e]
      <3>1. /\ d + n \in Nat /\ hist.refused \cup bad \in SUBSET Nat
            /\ hist.errors \in Nat /\ hist.errors + 1 \in Nat
        BY <1>1, Parts
      <3>2. QED
        BY <1>2, <3>1
    <2>2. QED
      BY <2>1 DEF PipelineInv, History
  <1>5. PICK owed \in Seq(Nat) : owed = new
    BY <1>3
  <1>6. /\ thread'.owes = owed /\ (thread'.pc = "sending" <=> n # 0)
        /\ thread' \in [pc : {"none", "starting", "pulling", "sending", "done"},
                        owes : Seq(Item), signalled : BOOLEAN]
    BY <1>1, <1>2, <1>5 DEF TypeOK, Item
  <1>7. TypeOK'
    BY <1>1, <1>6 DEF TypeOK
  <1>8. thread'.pc = "sending" <=> thread'.owes # <<>>
    BY <1>3, <1>5, <1>6, EmptySeq
  <1>9. ASSUME ReceiverAlive
        PROVE  Sound(InFlight, hist.decoded, hist.refused)'
    <2>1. PICK h, b, c, s, r : /\ h = hist.handed /\ b = feeder.batch /\ c = channel
                               /\ s = InFlight /\ r = hist.refused
      OBVIOUS
    <2>2. /\ h \in Seq(Item) /\ b \in Seq(Item) /\ c \in Seq(Item) /\ s \in Seq(Item)
          /\ <<>> \in Seq(Item) /\ owed \in Seq(Item)
          /\ s = Flow(h, b, c, <<>>) /\ Sound(s, d, r)
      <3>1. InFlight = Flow(h, b, c, <<>>) /\ Sound(InFlight, d, r)
        BY <1>1, <1>9, <2>1 DEF InFlight, PipelineInv
      <3>2. QED
        BY <1>5, <2>1, <3>1, Parts DEF Item
    <2>3. Flow(h, b, c, owed) = s \o owed
      <3>1. PICK f : f = Cat(Cat(h, b), c)
        OBVIOUS
      <3>2. f \in Seq(Item)
        <4>1. Cat(h, b) \in Seq(Item)
          BY <2>2, CatFacts
        <4>2. QED
          BY <2>2, <3>1, <4>1, CatFacts
      <3>3. s = Cat(f, <<>>) /\ Flow(h, b, c, owed) = Cat(f, owed)
        BY <2>2, <3>1 DEF Flow, Cat
      <3>4. Cat(f, <<>>) = f
        BY <2>2, <3>2, CatFacts
      <3>5. QED
        BY <3>3, <3>4 DEF Cat
    <2>4. Sound(s \o owed, d + n, r \cup bad)
      <3>1. /\ \A i \in 1 .. Len(owed) : i <= n /\ owed[i] \in {Err, d + i}
            /\ \A k \in 1 .. n : d + k \in bad \/ (k <= Len(owed) /\ owed[k] = d + k)
        BY <1>3, <1>5
      <3> HIDE DEF bad
      <3>2. PICK m : m = bad
        OBVIOUS
      <3>3. QED
        BY <1>1, <2>2, <3>1, <3>2, SoundWithMore DEF Item
    <2>5. QED
      BY <1>1, <1>4, <1>6, <2>1, <2>3, <2>4 DEF InFlight
  <1>10. QED
    BY <1>1, <1>4, <1>7, <1>8, <1>9 DEF PipelineInv, ReceiverAlive

(* feed(): the batch is handed over, and reported when it is refused.      *)
LEMMA FeedEffect ==
    ASSUME PipelineInv, NEW batch \in Seq(Item), Feed(batch)
    PROVE  /\ hist' \in History
           /\ hist'.handed = hist.handed \o batch
           /\ hist'.decoded = hist.decoded
           /\ hist.refused \subseteq hist'.refused
  <1>1. hist.handed \in Seq(Item) /\ hist.refused \in SUBSET Nat
    BY Parts DEF Item
  <1>2. hist.handed \o batch \in Seq(Nat)
    BY <1>1, ConcatProperties DEF Item
  <1>3. {batch[i] : i \in 1 .. Len(batch)} \subseteq Nat
    BY ElementOfSeq DEF Item
  <1>4. PICK handed \in Seq(Nat), more \in SUBSET Nat :
           /\ handed = hist.handed \o batch
           /\ more = {batch[i] : i \in 1 .. Len(batch)}
    BY <1>2, <1>3
  <1>5. PICK refused \in SUBSET Nat :
           refused = IF instance THEN hist.refused ELSE hist.refused \cup more
    BY <1>1
  <1>6. hist' = [hist EXCEPT !.handed = handed, !.refused = refused]
    BY <1>4, <1>5 DEF Feed
  <1>7. QED
    BY <1>4, <1>5, <1>6 DEF PipelineInv, History

LEMMA SoundWithMoreRefused ==
    ASSUME NEW s, NEW d, NEW r, NEW r2, r \subseteq r2, Sound(s, d, r)
    PROVE  Sound(s, d, r2)
  BY DEF Sound

(* Steps that hand over or collect, and keep what is on its way.           *)
LEMMA HandKeeps ==
    ASSUME PipelineInv, TypeOK', hist' \in History, thread' = thread,
           feeder.pc = "loop", feeder'.pc = "loop",
           InFlight' = InFlight, hist'.decoded = hist.decoded,
           hist.refused \subseteq hist'.refused
    PROVE  PipelineInv'
  <1>1. Sound(InFlight, hist.decoded, hist.refused)
    BY DEF PipelineInv, ReceiverAlive
  <1>2. PICK s, d, r, r2 : /\ s = InFlight /\ d = hist.decoded
                           /\ r = hist.refused /\ r2 = hist'.refused
    OBVIOUS
  <1>3. Sound(s, d, r2)
    BY <1>1, <1>2, SoundWithMoreRefused
  <1>4. QED
    BY <1>2, <1>3 DEF PipelineInv

LEMMA TickKeeps == ASSUME PipelineInv, Tick PROVE PipelineInv'
  <1>1. /\ TypeOK /\ feeder.pc = "loop" /\ Feed(feeder.batch)
        /\ UNCHANGED <<thread, connector, channel, main, shutdown, instance>>
        /\ feeder' = [feeder EXCEPT !.batch = <<>>, !.ticked = (main = "waiting")]
    BY DEF PipelineInv, Tick
  <1>2. PICK h, b, c, o : /\ h = hist.handed /\ b = feeder.batch /\ c = channel
                          /\ o = thread.owes
    OBVIOUS
  <1>3. h \in Seq(Item) /\ b \in Seq(Item) /\ c \in Seq(Item) /\ o \in Seq(Item)
    BY <1>2, Parts DEF Item
  <1>4. /\ hist' \in History /\ hist'.handed = h \o b
        /\ hist'.decoded = hist.decoded /\ hist.refused \subseteq hist'.refused
    BY <1>1, <1>2, <1>3, FeedEffect
  <1>5. <<>> \in Seq(Item) /\ Len(<<>>) < BatchLimit
    BY PipelineAssumption
  <1>6. /\ feeder' \in [pc : {"new", "connecting", "loop", "ended"},
                        batch : Seq(Item), ticked : BOOLEAN]
        /\ feeder'.batch = <<>> /\ feeder'.pc = "loop"
    BY <1>1, <1>5 DEF TypeOK
  <1>7. TypeOK'
    BY <1>1, <1>5, <1>6 DEF TypeOK
  <1>8. Flow(h \o b, <<>>, c, o) = Flow(h, b, c, o)
    BY <1>3, FlowMoves
  <1>9. InFlight' = InFlight
    BY <1>1, <1>2, <1>4, <1>6, <1>8 DEF InFlight
  <1>10. QED
    BY <1>1, <1>4, <1>6, <1>7, <1>9, HandKeeps

(* An event received is collected, and the batch fed when it is full.      *)
LEMMA CollectKeeps ==
    ASSUME PipelineInv, feeder.pc = "loop", channel # <<>>, Collect(Head(channel)),
           channel' = Tail(channel), UNCHANGED <<thread, main, instance>>
    PROVE  PipelineInv'
  <1>1. PICK h, b, c, o : /\ h = hist.handed /\ b = feeder.batch /\ c = channel
                          /\ o = thread.owes
    OBVIOUS
  <1>2. h \in Seq(Item) /\ b \in Seq(Item) /\ c \in Seq(Item) /\ o \in Seq(Item)
    BY <1>1, Parts DEF Item
  <1>3. PICK b2, c2 : b2 = Append(b, Head(c)) /\ c2 = Tail(c)
    OBVIOUS
  <1>4. b2 \in Seq(Item) /\ c2 \in Seq(Item) /\ channel' = c2 /\ Len(c2) = Len(c) - 1
    BY <1>1, <1>2, <1>3, HeadMoves, HeadTailProperties
  <1>5. Flow(h, b2, c2, o) = Flow(h, b, c, o)
    BY <1>1, <1>2, <1>3, FlowMoves
  <1>6. /\ UNCHANGED <<connector, shutdown>>
        /\ IF Len(b2) >= BatchLimit
           THEN Feed(b2) /\ feeder' = [feeder EXCEPT !.batch = <<>>]
           ELSE feeder' = [feeder EXCEPT !.batch = b2] /\ hist' = hist
    BY <1>1, <1>3 DEF Collect, Full
  <1>7. /\ TypeOK /\ Len(c) \in Nat /\ Len(b2) \in Nat /\ Len(c) <= ChannelCapacity
        /\ <<>> \in Seq(Item) /\ Len(<<>>) < BatchLimit
    BY <1>1, <1>2, <1>4, PipelineAssumption DEF PipelineInv, TypeOK
  <1>8. Len(channel') <= ChannelCapacity
    BY <1>4, <1>7, PipelineAssumption
  <1>9. CASE Len(b2) >= BatchLimit
    <2>1. /\ hist' \in History /\ hist'.handed = h \o b2
          /\ hist'.decoded = hist.decoded /\ hist.refused \subseteq hist'.refused
      BY <1>1, <1>4, <1>6, <1>9, FeedEffect
    <2>2. /\ feeder' \in [pc : {"new", "connecting", "loop", "ended"},
                          batch : Seq(Item), ticked : BOOLEAN]
          /\ feeder'.batch = <<>> /\ feeder'.pc = "loop"
      BY <1>6, <1>7, <1>9 DEF TypeOK
    <2>3. TypeOK'
      BY <1>4, <1>6, <1>7, <1>8, <2>2 DEF TypeOK
    <2>4. Flow(h \o b2, <<>>, c2, o) = Flow(h, b2, c2, o)
      BY <1>2, <1>4, FlowMoves
    <2>5. InFlight' = InFlight
      BY <1>1, <1>4, <1>5, <2>1, <2>2, <2>4 DEF InFlight
    <2>6. QED
      BY <2>1, <2>2, <2>3, <2>5, HandKeeps
  <1>10. CASE ~ Len(b2) >= BatchLimit
    <2>1. /\ feeder' \in [pc : {"new", "connecting", "loop", "ended"},
                          batch : Seq(Item), ticked : BOOLEAN]
          /\ feeder'.batch = b2 /\ feeder'.pc = "loop" /\ hist' = hist
      BY <1>4, <1>6, <1>7, <1>10 DEF TypeOK
    <2>2. Len(b2) < BatchLimit
      BY <1>7, <1>10, PipelineAssumption
    <2>3. TypeOK'
      BY <1>4, <1>6, <1>7, <1>8, <2>1, <2>2 DEF TypeOK
    <2>4. InFlight' = InFlight
      BY <1>1, <1>4, <1>5, <2>1 DEF InFlight
    <2>5. QED
      BY <2>1, <2>3, <2>4, HandKeeps DEF PipelineInv
  <1>11. QED
    BY <1>9, <1>10

(* An error received is logged, and gone.                                  *)
LEMMA LogKeeps ==
    ASSUME PipelineInv, feeder.pc = "loop", channel # <<>>, Head(channel) = Err,
           channel' = Tail(channel),
           UNCHANGED <<thread, main, instance, connector, feeder, shutdown, hist>>
    PROVE  PipelineInv'
  <1>1. PICK h, b, c, o, d, r : /\ h = hist.handed /\ b = feeder.batch /\ c = channel
                                /\ o = thread.owes /\ d = hist.decoded /\ r = hist.refused
    OBVIOUS
  <1>2. /\ h \in Seq(Item) /\ b \in Seq(Item) /\ c \in Seq(Item) /\ o \in Seq(Item)
        /\ d \in Nat /\ Sound(Flow(h, b, c, o), d, r) /\ <<>> \in Seq(Item)
    <2>1. Sound(Flow(h, b, c, o), d, r)
      BY <1>1 DEF PipelineInv, ReceiverAlive, InFlight
    <2>2. QED
      BY <1>1, <2>1, Parts DEF Item
  <1>3. PICK c2, e : c2 = Tail(c) /\ e = <<Err>>
    OBVIOUS
  <1>4. /\ c2 \in Seq(Item) /\ e \in Seq(Item) /\ c = Cat(e, c2)
        /\ Len(c2) = Len(c) - 1 /\ channel' = c2
    BY <1>1, <1>2, <1>3, HeadMoves, HeadTailProperties DEF Err, Item
  <1>5. PICK p, q, eq : p = Cat(h, b) /\ q = Cat(c2, o) /\ eq = Cat(e, q)
    OBVIOUS
  <1>6. p \in Seq(Item) /\ q \in Seq(Item)
    BY <1>2, <1>4, <1>5, CatFacts
  <1>7. Cat(c, o) = eq
    BY <1>2, <1>4, <1>5, CatFacts
  <1>8. Flow(h, b, c, o) = Cat(p, eq) /\ Flow(h, b, c2, o) = Cat(p, q)
    BY <1>2, <1>4, <1>5, <1>7, FlowIsCat
  <1>9. Sound(p \o (<<Err>> \o q), d, r)
    BY <1>2, <1>3, <1>5, <1>8 DEF Cat
  <1>10. Sound(p \o q, d, r)
    BY <1>2, <1>6, <1>9, SoundWithoutErr DEF Item
  <1>11. Sound(InFlight, hist.decoded, hist.refused)'
    BY <1>1, <1>4, <1>8, <1>10 DEF InFlight, Cat
  <1>12. TypeOK'
    <2>1. Len(c) \in Nat /\ Len(c) <= ChannelCapacity /\ TypeOK
      BY <1>1, <1>2 DEF PipelineInv, TypeOK
    <2>2. Len(channel') <= ChannelCapacity
      BY <1>4, <2>1, PipelineAssumption
    <2>3. QED
      BY <1>4, <2>1, <2>2 DEF TypeOK
  <1>13. QED
    BY <1>11, <1>12 DEF PipelineInv

LEMMA RecvKeeps == ASSUME PipelineInv, Recv PROVE PipelineInv'
  <1>1. feeder.pc = "loop" /\ UNCHANGED <<thread, main, instance>>
    BY DEF Recv
  <1>2. CASE channel # <<>> /\ IsRow(Head(channel))
    BY <1>1, <1>2, CollectKeeps DEF Recv
  <1>3. CASE channel # <<>> /\ ~ IsRow(Head(channel))
    BY <1>1, <1>3, LogKeeps DEF Recv, IsRow
  <1>4. CASE channel = <<>>
    <2>1. Finish /\ channel' = channel
      BY <1>4 DEF Recv
    <2>2. /\ feeder' = [feeder EXCEPT !.pc = "ended", !.batch = <<>>]
          /\ connector' = [connector EXCEPT !.cancelled = TRUE, !.dropped = TRUE]
          /\ shutdown' = TRUE /\ Feed(feeder.batch)
      BY <2>1 DEF Finish, EndFeeder
    <2>3. hist' \in History
      BY <2>2, FeedEffect, Parts DEF Item
    <2>4. TypeOK /\ <<>> \in Seq(Item) /\ Len(<<>>) < BatchLimit
      BY PipelineAssumption DEF PipelineInv
    <2>5. TypeOK' /\ feeder'.pc = "ended"
      BY <1>1, <2>1, <2>2, <2>4 DEF TypeOK
    <2>6. QED
      BY <1>1, <2>3, <2>5 DEF PipelineInv, ReceiverAlive
  <1>5. QED
    BY <1>2, <1>3, <1>4

-----------------------------------------------------------------------------
LEMMA PipelineNext == ASSUME PipelineInv, [Next]_vars PROVE PipelineInv'
  <1>1. CASE \E n \in 0 .. MaxEventRows : Pull(n)
    BY <1>1, PullKeeps, PipelineAssumption
  <1>2. CASE SendRow
    BY <1>2, SendKeeps
  <1>3. CASE ReplicateFails \/ StreamError \/ DecoderPanics
    BY <1>3, ErrKeeps
  <1>4. CASE Recv \/ Tick
    BY <1>4, RecvKeeps, TickKeeps
  <1>5. CASE \/ NewFails \/ Connect \/ Connected \/ ConnectTimeout
             \/ ThreadPanics \/ Replicates \/ Cancelled \/ StreamDone
             \/ Sigint \/ ServeReturns \/ FeederJoined \/ AbortFeeder
             \/ (\E b \in BOOLEAN : SetInstance(b))
             \/ UNCHANGED vars
    BY <1>5, TasksKeep
  <1>6. QED
    BY <1>1, <1>2, <1>3, <1>4, <1>5 DEF Next, ThreadStep, FeederStep

(* PipelineInv holds in every reachable state of the pipeline.             *)
THEOREM PipelineInvariant == Spec => []PipelineInv
  <1>1. Init => PipelineInv
    BY PipelineInit
  <1>2. PipelineInv /\ [Next]_vars => PipelineInv'
    BY PipelineNext
  <1>3. QED
    BY <1>1, <1>2, PTL DEF Spec

(* The channel stays within its capacity and the batch below its limit     *)
(* (connector.rs's mpsc::channel, main.rs's flush at 256).                 *)
THEOREM PipelineTypeCorrect == Spec => []TypeOK
  <1>1. PipelineInv => TypeOK
    BY DEF PipelineInv
  <1>2. QED
    BY <1>1, PipelineInvariant, PTL

(* blocking_send, recv and feed() hand every row on, once and in order, as *)
(* long as the feeder lives.                                               *)
THEOREM RowsKeptCorrect == Spec => []RowsKeptInOrder
  <1>1. PipelineInv => RowsKeptInOrder
    BY DEF PipelineInv, RowsKeptInOrder, Sound
  <1>2. QED
    BY <1>1, PipelineInvariant, PTL
=============================================================================
