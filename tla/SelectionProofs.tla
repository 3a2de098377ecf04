--------------------------- MODULE SelectionProofs ---------------------------
(***************************************************************************)
(* What Kept returns, for every sequence: the facts that the proofs about  *)
(* filters need.  Induction is over a set of numbers, from the least       *)
(* element of its complement.                                              *)
(***************************************************************************)
EXTENDS Selection, Integers, SequenceTheorems, WellFoundedInduction, TLAPS

(* Every set of numbers that is not empty has a least element.             *)
LEMMA LeastNumber ==
    ASSUME NEW T, T \subseteq Nat, T # {}
    PROVE  \E x \in T : \A y \in T : x <= y
  <1>1. PICK R : R = OpToRel(<, Nat) /\ IsWellFoundedOn(R, Nat)
    BY NatLessThanWellFounded
  <1>2. PICK x \in T : \A y \in T : ~ (<<y, x>> \in R)
    BY <1>1, WFMin
  <1>3. \A y \in T : y < x => <<y, x>> \in R
    BY <1>1, Zenon DEF OpToRel
  <1>4. x \in Nat /\ \A y \in T : y \in Nat /\ ~ (y < x)
    BY <1>2, <1>3
  <1>5. QED
    BY <1>4

(* A set that has 0, and with a number its successor, has them all.        *)
LEMMA SetInduction ==
    ASSUME NEW T, 0 \in T, \A n \in Nat : n \in T => n + 1 \in T
    PROVE  \A n \in Nat : n \in T
  <1> SUFFICES ASSUME NEW k \in Nat, k \notin T
               PROVE  FALSE
    OBVIOUS
  <1>1. PICK M : M = {n \in Nat : n \notin T}
    OBVIOUS
  <1>2. M \subseteq Nat /\ M # {}
    BY <1>1
  <1>3. PICK x \in M : \A y \in M : x <= y
    BY <1>2, LeastNumber
  <1>4. x \in Nat /\ x # 0
    BY <1>1
  <1>5. x - 1 \in Nat /\ (x - 1) + 1 = x /\ ~ (x <= x - 1)
    BY <1>4
  <1>6. x - 1 \in T
    BY <1>1, <1>3, <1>5
  <1>7. x \in T
    BY <1>5, <1>6
  <1>8. QED
    BY <1>1, <1>7

-----------------------------------------------------------------------------
(* The prefixes of s, filtered.  IsUpto says that f has those of length up *)
(* to m.                                                                   *)
StepOf(s, S, n, before) == IF s[n] \in S THEN Append(before, s[n]) ELSE before

IsUpto(f, s, S, m) ==
    /\ DOMAIN f = 0 .. m
    /\ f[0] = <<>>
    /\ \A n \in 1 .. m : f[n] = StepOf(s, S, n, f[n - 1])

LEMMA UptoExists ==
    ASSUME NEW s, NEW S, NEW m \in Nat
    PROVE  \E f : IsUpto(f, s, S, m)
  <1> DEFINE T == {n \in Nat : \E f : IsUpto(f, s, S, n)}
  <1>1. 0 \in T
    <2>1. PICK f : f = [n \in 0 .. 0 |-> <<>>]
      OBVIOUS
    <2>2. DOMAIN f = 0 .. 0 /\ f[0] = <<>> /\ 1 .. 0 = {}
      BY <2>1
    <2>3. IsUpto(f, s, S, 0)
      BY <2>2 DEF IsUpto
    <2>4. QED
      BY <2>3
  <1>2. ASSUME NEW n \in Nat, n \in T
        PROVE  n + 1 \in T
    <2>1. PICK f : IsUpto(f, s, S, n)
      BY <1>2
    <2>2. PICK v : v = StepOf(s, S, n + 1, f[n])
      OBVIOUS
    <2>3. PICK g : g = [k \in 0 .. n + 1 |-> IF k = n + 1 THEN v ELSE f[k]]
      OBVIOUS
    <2>4. DOMAIN g = 0 .. n + 1 /\ g[n + 1] = v /\ \A k \in 0 .. n : g[k] = f[k]
      BY <2>3
    <2>5. 0 \in 0 .. n /\ n \in 0 .. n /\ (n + 1) - 1 = n
      OBVIOUS
    <2>6. \A k \in 1 .. n + 1 : k = n + 1 \/ (k \in 1 .. n /\ k \in 0 .. n /\ k - 1 \in 0 .. n)
      OBVIOUS
    <2>7. ASSUME NEW k \in 1 .. n + 1
          PROVE  g[k] = StepOf(s, S, k, g[k - 1])
      <3>1. CASE k = n + 1
        BY <2>2, <2>4, <2>5, <3>1
      <3>2. CASE k # n + 1
        <4>1. k \in 1 .. n /\ k \in 0 .. n /\ k - 1 \in 0 .. n
          BY <2>6, <3>2
        <4>2. f[k] = StepOf(s, S, k, f[k - 1])
          BY <2>1, <4>1 DEF IsUpto
        <4>3. QED
          BY <2>4, <4>1, <4>2
      <3>3. QED
        BY <3>1, <3>2
    <2>8. IsUpto(g, s, S, n + 1)
      BY <2>1, <2>4, <2>5, <2>7 DEF IsUpto
    <2>9. QED
      BY <2>8
  <1> HIDE DEF T
  <1>3. m \in T
    BY <1>1, <1>2, SetInduction
  <1>4. QED
    BY <1>3 DEF T

(* Two such functions agree where both are about the same elements.        *)
LEMMA UptoAgrees ==
    ASSUME NEW s, NEW t, NEW S, NEW m \in Nat, NEW k \in Nat, m <= k,
           NEW f, IsUpto(f, s, S, m), NEW g, IsUpto(g, t, S, k),
           \A n \in 1 .. m : s[n] = t[n]
    PROVE  f[m] = g[m]
  <1> DEFINE T == {n \in Nat : n <= m => f[n] = g[n]}
  <1>1. 0 \in T
    BY DEF IsUpto
  <1>2. ASSUME NEW n \in Nat, n \in T
        PROVE  n + 1 \in T
    <2>1. SUFFICES ASSUME n + 1 <= m
                   PROVE  f[n + 1] = g[n + 1]
      OBVIOUS
    <2>2. f[n] = g[n]
      BY <1>2, <2>1
    <2>3. n + 1 \in 1 .. m /\ n + 1 \in 1 .. k /\ (n + 1) - 1 = n
      BY <2>1
    <2>4. /\ f[n + 1] = StepOf(s, S, n + 1, f[n])
          /\ g[n + 1] = StepOf(t, S, n + 1, g[n])
          /\ s[n + 1] = t[n + 1]
      BY <2>3 DEF IsUpto
    <2>5. QED
      BY <2>2, <2>4 DEF StepOf
  <1> HIDE DEF T
  <1>3. m \in T
    BY <1>1, <1>2, SetInduction
  <1>4. QED
    BY <1>3 DEF T

LEMMA KeptIsUpto ==
    ASSUME NEW s, NEW S, Len(s) \in Nat
    PROVE  \E f : IsUpto(f, s, S, Len(s)) /\ Kept(s, S) = f[Len(s)]
  <1>1. PICK m : m = Len(s) /\ m \in Nat
    OBVIOUS
  <1>2. PICK g : IsUpto(g, s, S, m)
    BY <1>1, UptoExists
  <1> DEFINE Unfolds(f) ==
        f = [n \in 0 .. m |->
               IF n = 0 THEN <<>>
               ELSE IF s[n] \in S THEN Append(f[n - 1], s[n]) ELSE f[n - 1]]
  <1>3. PICK h : h = [n \in 0 .. m |-> g[n]]
    OBVIOUS
  <1>4. DOMAIN h = 0 .. m /\ \A n \in 0 .. m : h[n] = g[n]
    BY <1>3
  <1>5. \A n \in 0 .. m : n # 0 => n \in 1 .. m /\ n - 1 \in 0 .. m
    BY <1>1
  <1>6. \A n \in 0 .. m :
          h[n] = IF n = 0 THEN <<>>
                 ELSE IF s[n] \in S THEN Append(h[n - 1], s[n]) ELSE h[n - 1]
    BY <1>2, <1>4, <1>5 DEF IsUpto, StepOf
  <1>7. Unfolds(h)
    <2>1. PICK e : e = [n \in 0 .. m |->
                          IF n = 0 THEN <<>>
                          ELSE IF s[n] \in S THEN Append(h[n - 1], s[n]) ELSE h[n - 1]]
      OBVIOUS
    <2>2. \A n \in 0 .. m : e[n] = h[n]
      BY <1>6, <2>1
    <2>3. e = [n \in 0 .. m |-> e[n]] /\ h = [n \in 0 .. m |-> h[n]]
      BY <1>3, <2>1
    <2>4. e = h
      BY <2>2, <2>3
    <2>5. QED
      BY <2>1, <2>4
  <1>8. PICK f : Unfolds(f) /\ Kept(s, S) = f[m]
    BY <1>1, <1>7 DEF Kept
  <1>9. DOMAIN f = 0 .. m /\ f[0] = <<>>
    BY <1>1, <1>8
  <1>10. ASSUME NEW n \in 1 .. m
         PROVE  f[n] = StepOf(s, S, n, f[n - 1])
    <2>1. n \in 0 .. m /\ n # 0
      OBVIOUS
    <2>2. QED
      BY <1>8, <2>1 DEF StepOf
  <1>11. QED
    BY <1>1, <1>8, <1>9, <1>10 DEF IsUpto

-----------------------------------------------------------------------------
(* The two equations from which everything else about Kept follows.        *)
LEMMA KeptEmpty == ASSUME NEW S PROVE Kept(<<>>, S) = <<>>
  <1>1. Len(<<>>) = 0
    OBVIOUS
  <1>2. PICK f : IsUpto(f, <<>>, S, 0) /\ Kept(<<>>, S) = f[0]
    BY <1>1, KeptIsUpto
  <1>3. QED
    BY <1>2 DEF IsUpto

LEMMA KeptAppend ==
    ASSUME NEW A, NEW s \in Seq(A), NEW x \in A, NEW S
    PROVE  Kept(Append(s, x), S) = IF x \in S THEN Append(Kept(s, S), x) ELSE Kept(s, S)
  <1>1. PICK t, m : t = Append(s, x) /\ m = Len(s)
    OBVIOUS
  <1>2. /\ m \in Nat /\ Len(t) = m + 1 /\ t[m + 1] = x
        /\ \A n \in 1 .. m : s[n] = t[n]
    BY <1>1
  <1>3. PICK f : IsUpto(f, s, S, m) /\ Kept(s, S) = f[m]
    BY <1>1, <1>2, KeptIsUpto
  <1>4. Len(t) \in Nat
    BY <1>2
  <1>5. PICK g : IsUpto(g, t, S, m + 1) /\ Kept(t, S) = g[m + 1]
    BY <1>2, <1>4, KeptIsUpto
  <1>6. m + 1 \in Nat /\ m <= m + 1 /\ m + 1 \in 1 .. m + 1 /\ (m + 1) - 1 = m
    BY <1>2
  <1>7. f[m] = g[m]
    BY <1>2, <1>3, <1>5, <1>6, UptoAgrees
  <1>8. g[m + 1] = StepOf(t, S, m + 1, g[m])
    BY <1>5, <1>6 DEF IsUpto
  <1>9. QED
    BY <1>1, <1>2, <1>3, <1>5, <1>7, <1>8 DEF StepOf

-----------------------------------------------------------------------------
(* Induction over sequences, from the empty one by appending.              *)
LEMMA SeqInduction ==
    ASSUME NEW A, NEW T, <<>> \in T,
           \A s \in Seq(A), x \in A : s \in T => Append(s, x) \in T
    PROVE  Seq(A) \subseteq T
  <1> DEFINE N == {n \in Nat : \A s \in Seq(A) : Len(s) = n => s \in T}
  <1>1. 0 \in N
    <2>1. \A s \in Seq(A) : Len(s) = 0 => s = <<>>
      BY EmptySeq
    <2>2. QED
      BY <2>1
  <1>2. ASSUME NEW n \in Nat, n \in N
        PROVE  n + 1 \in N
    <2>1. SUFFICES ASSUME NEW s \in Seq(A), Len(s) = n + 1
                   PROVE  s \in T
      OBVIOUS
    <2>2. PICK t \in Seq(A), x \in A : s = Append(t, x)
      <3>1. s # <<>>
        BY <2>1
      <3>2. QED
        BY <3>1, SequenceEmptyOrAppend
    <2>3. Len(t) = n
      BY <2>1, <2>2
    <2>4. t \in T
      BY <1>2, <2>3
    <2>5. QED
      BY <2>2, <2>4
  <1> HIDE DEF N
  <1>3. \A n \in Nat : n \in N
    BY <1>1, <1>2, SetInduction
  <1>4. ASSUME NEW s \in Seq(A)
        PROVE  s \in T
    <2>1. Len(s) \in N
      BY <1>3
    <2>2. QED
      BY <2>1 DEF N
  <1>5. QED
    BY <1>4

-----------------------------------------------------------------------------
(* What is kept is of s, and wanted.                                       *)
LEMMA KeptType ==
    ASSUME NEW A, NEW S, NEW s \in Seq(A)
    PROVE  Kept(s, S) \in Seq(A \cap S)
  <1> DEFINE T == {t \in Seq(A) : Kept(t, S) \in Seq(A \cap S)}
  <1>1. <<>> \in T
    <2>1. PICK k : k = Kept(<<>>, S) /\ k = <<>>
      BY KeptEmpty
    <2>2. \A B : <<>> \in Seq(B)
      OBVIOUS
    <2>3. k \in Seq(A \cap S) /\ <<>> \in Seq(A)
      BY <2>1, <2>2
    <2>4. QED
      BY <2>1, <2>3
  <1>2. ASSUME NEW t \in Seq(A), NEW x \in A, t \in T
        PROVE  Append(t, x) \in T
    <2>1. Kept(t, S) \in Seq(A \cap S)
      BY <1>2
    <2>2. PICK k : k = Kept(t, S)
      OBVIOUS
    <2>3. Kept(Append(t, x), S) = IF x \in S THEN Append(k, x) ELSE k
      BY <2>2, KeptAppend
    <2>4. x \in S => Append(k, x) \in Seq(A \cap S)
      BY <2>1, <2>2
    <2>5. Append(t, x) \in Seq(A)
      OBVIOUS
    <2>6. QED
      BY <2>1, <2>2, <2>3, <2>4, <2>5
  <1> HIDE DEF T
  <1>3. Seq(A) \subseteq T
    BY <1>1, <1>2, SeqInduction
  <1>4. QED
    BY <1>3 DEF T

(* Appending to the second of two sequences put end to end.                *)
LEMMA ConcatAppend ==
    ASSUME NEW A, NEW s \in Seq(A), NEW t \in Seq(A), NEW x \in A
    PROVE  s \o Append(t, x) = Append(s \o t, x)
  <1>1. Append(t, x) = t \o <<x>> /\ <<x>> \in Seq(A)
    OBVIOUS
  <1>2. s \o t \in Seq(A)
    OBVIOUS
  <1>3. Append(s \o t, x) = (s \o t) \o <<x>>
    BY <1>2
  <1>4. QED
    BY <1>1, <1>3, ConcatAssociative

(* What is kept of two sequences, one behind the other.                    *)
LEMMA KeptConcat ==
    ASSUME NEW A, NEW S, NEW s \in Seq(A), NEW t \in Seq(A)
    PROVE  Kept(s \o t, S) = Kept(s, S) \o Kept(t, S)
  <1> DEFINE T == {u \in Seq(A) : Kept(s \o u, S) = Kept(s, S) \o Kept(u, S)}
  <1>1. PICK B, k : B = A \cap S /\ k = Kept(s, S) /\ k \in Seq(B)
    BY KeptType
  <1>2. <<>> \in T
    <2>1. s \o <<>> = s /\ k \o <<>> = k
      BY <1>1
    <2>2. QED
      BY <1>1, <2>1, KeptEmpty
  <1>3. ASSUME NEW u \in Seq(A), NEW x \in A, u \in T
        PROVE  Append(u, x) \in T
    <2>1. PICK su, ku : su = s \o u /\ ku = Kept(u, S)
      OBVIOUS
    <2>2. su \in Seq(A) /\ ku \in Seq(B) /\ Kept(su, S) = k \o ku
      BY <1>1, <1>3, <2>1, KeptType
    <2>3. PICK ux : ux = Append(u, x) /\ ux \in Seq(A)
      BY AppendProperties
    <2>4. s \o ux = Append(su, x)
      <3>1. s \o Append(u, x) = Append(s \o u, x)
        BY ConcatAppend
      <3>2. QED
        BY <2>1, <2>3, <3>1
    <2>5. Kept(s \o ux, S) = IF x \in S THEN Append(Kept(su, S), x) ELSE Kept(su, S)
      <3>1. Kept(Append(su, x), S)
              = IF x \in S THEN Append(Kept(su, S), x) ELSE Kept(su, S)
        <4>1. su \in Seq(A)
          BY <2>2
        <4>2. QED
          BY <4>1, KeptAppend
      <3>2. QED
        BY <2>4, <3>1
    <2>6. Kept(ux, S) = IF x \in S THEN Append(ku, x) ELSE ku
      <3>1. Kept(Append(u, x), S)
              = IF x \in S THEN Append(Kept(u, S), x) ELSE Kept(u, S)
        BY KeptAppend
      <3>2. QED
        BY <2>1, <2>3, <3>1
    <2>7. x \in S => k \o Append(ku, x) = Append(k \o ku, x)
      <3>1. ASSUME x \in S PROVE x \in B
        BY <1>1, <3>1
      <3>2. x \in B => k \o Append(ku, x) = Append(k \o ku, x)
        BY <1>1, <2>2, ConcatAppend
      <3>3. QED
        BY <3>1, <3>2
    <2>8. Kept(s \o ux, S) = k \o Kept(ux, S)
      BY <2>2, <2>5, <2>6, <2>7
    <2>9. QED
      BY <1>1, <2>3, <2>8
  <1> HIDE DEF T
  <1>4. Seq(A) \subseteq T
    BY <1>2, <1>3, SeqInduction
  <1>5. QED
    BY <1>4 DEF T

-----------------------------------------------------------------------------
(* Only what is wanted of A matters.                                       *)
LEMMA KeptSame ==
    ASSUME NEW A, NEW S, NEW R, \A x \in A : x \in S <=> x \in R,
           NEW s \in Seq(A)
    PROVE  Kept(s, S) = Kept(s, R)
  <1> DEFINE T == {t \in Seq(A) : Kept(t, S) = Kept(t, R)}
  <1>1. <<>> \in T
    <2>1. <<>> \in Seq(A) /\ Kept(<<>>, S) = <<>> /\ Kept(<<>>, R) = <<>>
      BY KeptEmpty
    <2>2. QED
      BY <2>1
  <1>2. ASSUME NEW t \in Seq(A), NEW x \in A, t \in T
        PROVE  Append(t, x) \in T
    <2>1. Kept(t, S) = Kept(t, R)
      BY <1>2
    <2>2. Kept(Append(t, x), S) = IF x \in S THEN Append(Kept(t, S), x) ELSE Kept(t, S)
      BY KeptAppend
    <2>3. Kept(Append(t, x), R) = IF x \in R THEN Append(Kept(t, R), x) ELSE Kept(t, R)
      BY KeptAppend
    <2>4. Kept(Append(t, x), S) = Kept(Append(t, x), R)
      BY <2>1, <2>2, <2>3
    <2>5. Append(t, x) \in Seq(A)
      OBVIOUS
    <2>6. QED
      BY <2>4, <2>5
  <1> HIDE DEF T
  <1>3. Seq(A) \subseteq T
    BY <1>1, <1>2, SeqInduction
  <1>4. QED
    BY <1>3 DEF T

(* Two sequences that go together, element by element.                     *)
Paired(s, t, P) == Len(s) = Len(t) /\ \A i \in 1 .. Len(t) : <<s[i], t[i]>> \in P

LEMMA PairedAppend ==
    ASSUME NEW A, NEW B, NEW P, NEW s \in Seq(A), NEW x \in A, NEW t \in Seq(B), NEW y \in B
    PROVE  Paired(Append(s, x), Append(t, y), P) <=> Paired(s, t, P) /\ <<x, y>> \in P
  <1>1. PICK u, v : u = Append(s, x) /\ v = Append(t, y)
    OBVIOUS
  <1>2. PICK m, n : m = Len(s) /\ n = Len(t)
    OBVIOUS
  <1>3. /\ m \in Nat /\ Len(u) = m + 1 /\ u[m + 1] = x
        /\ \A i \in 1 .. m : u[i] = s[i]
    BY <1>1, <1>2
  <1>4. /\ n \in Nat /\ Len(v) = n + 1 /\ v[n + 1] = y
        /\ \A i \in 1 .. n : v[i] = t[i]
    BY <1>1, <1>2
  <1>5. ASSUME m = n
        PROVE  (\A i \in 1 .. n + 1 : <<u[i], v[i]>> \in P)
                 <=> (\A i \in 1 .. n : <<s[i], t[i]>> \in P) /\ <<x, y>> \in P
    <2>1. \A i \in 1 .. n + 1 : i = n + 1 \/ i \in 1 .. n
      BY <1>4
    <2>2. n + 1 \in 1 .. n + 1 /\ \A i \in 1 .. n : i \in 1 .. n + 1
      BY <1>4
    <2>3. QED
      BY <1>3, <1>4, <1>5, <2>1, <2>2
  <1>6. m + 1 = n + 1 <=> m = n
    BY <1>3, <1>4
  <1>7. QED
    BY <1>1, <1>2, <1>3, <1>4, <1>5, <1>6 DEF Paired

(* When of each pair both are wanted or neither, what is kept goes         *)
(* together, too.                                                          *)
LEMMA KeptPairs ==
    ASSUME NEW A, NEW B, NEW P, NEW S, NEW R,
           \A x \in A, y \in B : <<x, y>> \in P => (x \in S <=> y \in R),
           NEW s \in Seq(A), NEW t \in Seq(B), Paired(s, t, P)
    PROVE  Paired(Kept(s, S), Kept(t, R), P)
  <1> DEFINE T == {v \in Seq(B) : \A u \in Seq(A) :
                     Paired(u, v, P) => Paired(Kept(u, S), Kept(v, R), P)}
  <1>1. <<>> \in T
    <2>1. ASSUME NEW u \in Seq(A), Paired(u, <<>>, P)
          PROVE  Paired(Kept(u, S), Kept(<<>>, R), P)
      <3>1. u = <<>>
        BY <2>1, EmptySeq DEF Paired
      <3>2. Kept(u, S) = <<>> /\ Kept(<<>>, R) = <<>>
        BY <3>1, KeptEmpty
      <3>3. Paired(<<>>, <<>>, P)
        BY DEF Paired
      <3>4. QED
        BY <3>2, <3>3
    <2>2. QED
      BY <2>1
  <1>2. ASSUME NEW v \in Seq(B), NEW y \in B, v \in T
        PROVE  Append(v, y) \in T
    <2>1. ASSUME NEW w \in Seq(A), Paired(w, Append(v, y), P)
          PROVE  Paired(Kept(w, S), Kept(Append(v, y), R), P)
      <3>1. w # <<>>
        BY <2>1 DEF Paired
      <3>2. PICK u \in Seq(A), x \in A : w = Append(u, x)
        BY <3>1, SequenceEmptyOrAppend
      <3>3. Paired(u, v, P) /\ <<x, y>> \in P
        BY <2>1, <3>2, PairedAppend
      <3>4. PICK ku, kv : ku = Kept(u, S) /\ kv = Kept(v, R)
        OBVIOUS
      <3>5. Paired(ku, kv, P) /\ ku \in Seq(A \cap S) /\ kv \in Seq(B \cap R)
        BY <1>2, <3>3, <3>4, KeptType
      <3>6. Kept(w, S) = IF x \in S THEN Append(ku, x) ELSE ku
        <4>1. Kept(Append(u, x), S) = IF x \in S THEN Append(Kept(u, S), x) ELSE Kept(u, S)
          BY KeptAppend
        <4>2. QED
          BY <3>2, <3>4, <4>1
      <3>7. Kept(Append(v, y), R) = IF y \in R THEN Append(kv, y) ELSE kv
        <4>1. Kept(Append(v, y), R) = IF y \in R THEN Append(Kept(v, R), y) ELSE Kept(v, R)
          BY KeptAppend
        <4>2. QED
          BY <3>4, <4>1
      <3>8. CASE x \in S
        <4>1. y \in R /\ x \in A \cap S /\ y \in B \cap R
          BY <3>3, <3>8
        <4>2. Paired(Append(ku, x), Append(kv, y), P)
          BY <3>3, <3>5, <4>1, PairedAppend
        <4>3. QED
          BY <3>6, <3>7, <3>8, <4>1, <4>2
      <3>9. CASE x \notin S
        <4>1. y \notin R
          BY <3>3, <3>9
        <4>2. QED
          BY <3>5, <3>6, <3>7, <3>9, <4>1
      <3>10. QED
        BY <3>8, <3>9
    <2>2. Append(v, y) \in Seq(B)
      OBVIOUS
    <2>3. QED
      BY <2>1, <2>2
  <1> HIDE DEF T
  <1>3. Seq(B) \subseteq T
    BY <1>1, <1>2, SeqInduction
  <1>4. t \in T
    BY <1>3
  <1>5. QED
    BY <1>4 DEF T
=============================================================================
