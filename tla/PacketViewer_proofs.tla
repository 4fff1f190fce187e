------------------------- MODULE PacketViewer_proofs -------------------------
(***************************************************************************)
(* Proofs about the packet window and the filter form below it, for any    *)
(* packets, addresses, texts and numbers.  What the form's two properties  *)
(* say need each other's help: the filter is exclusive because the form    *)
(* is, and the form because of what its boxes do to one another.  What the *)
(* window says of its packet needs that the list in view is a list at all  *)
(* and only grows, and that no button is enabled before there is a packet. *)
(***************************************************************************)
EXTENDS PacketViewer, SequenceTheorems, FiniteSetTheorems, WellFoundedInduction, TLAPS

-----------------------------------------------------------------------------
(***************************************************************************)
(* The loop that filters, and the loop that follows a stream               *)
(***************************************************************************)
\* Induction is by the least number that something does not hold of.
LEMMA LeastNumber ==
  ASSUME NEW S \in SUBSET Nat, S # {}
  PROVE  \E n \in S : \A m \in S : n <= m
<1> DEFINE R == OpToRel(<, Nat)
<1>1. IsWellFoundedOn(R, Nat)
  BY NatLessThanWellFounded
<1>2. \A x, y \in Nat : <<y, x>> \in R <=> y < x
  BY DEF OpToRel
<1> HIDE DEF R
<1>3. \E x \in S : \A y \in S : ~(<<y, x>> \in R)
  BY <1>1, WFMin
<1>4. PICK x \in S : \A y \in S : ~(<<y, x>> \in R)
  BY <1>3
<1>5. \A y \in S : ~(y < x)
  BY <1>2, <1>4
<1> QED
  BY <1>5

LEMMA Induction ==
  ASSUME NEW N \in Nat, NEW S, 0 \in S, \A n \in 0..N : n \in S /\ n + 1 \in 0..N => n + 1 \in S
  PROVE  0..N \subseteq S
<1> DEFINE T == (0..N) \ S
<1>1. SUFFICES ASSUME T # {} PROVE FALSE
  OBVIOUS
<1>2. T \in SUBSET Nat
  OBVIOUS
<1>3. PICK n \in T : \A m \in T : n <= m
  BY <1>1, <1>2, LeastNumber
<1>4. n \in 0..N /\ n # 0
  OBVIOUS
<1>5. n - 1 \in 0..N /\ n - 1 \notin T /\ (n - 1) + 1 = n
  BY <1>3, <1>4
<1> QED
  BY <1>5

\* What the loop of Kept has made of the list s after each of N rounds.
IsLoop(g, s, K, N) ==
  g = [n \in 0..N |-> IF n = 0 THEN <<>>
                      ELSE IF s[n] \in K THEN Append(g[n - 1], s[n]) ELSE g[n - 1]]

LEMMA LoopExists ==
  ASSUME NEW s, NEW K, NEW N \in Nat
  PROVE  \E g : IsLoop(g, s, K, N)
<1> DEFINE S == {n \in 0..N : \E g : IsLoop(g, s, K, n)}
<1>1. 0 \in S
  <2> DEFINE g == [n \in 0..0 |-> <<>>]
  <2>1. IsLoop(g, s, K, 0)
    BY DEF IsLoop
  <2> QED
    BY <2>1
<1>2. ASSUME NEW n \in 0..N, n \in S, n + 1 \in 0..N
      PROVE  n + 1 \in S
  <2>1. PICK g : IsLoop(g, s, K, n)
    BY <1>2
  <2> DEFINE h == [k \in 0..(n + 1) |->
                     IF k = n + 1 THEN IF s[k] \in K THEN Append(g[n], s[k]) ELSE g[n] ELSE g[k]]
  <2>2. h = [k \in 0..(n + 1) |-> IF k = 0 THEN <<>>
                      ELSE IF s[k] \in K THEN Append(h[k - 1], s[k]) ELSE h[k - 1]]
    <3>1. ASSUME NEW k \in 0..(n + 1)
          PROVE  h[k] = IF k = 0 THEN <<>>
                      ELSE IF s[k] \in K THEN Append(h[k - 1], s[k]) ELSE h[k - 1]
      <4>1. CASE k = n + 1
        <5>1. n \in 0..(n + 1) /\ k - 1 = n /\ n # n + 1 /\ k # 0
          BY <4>1
        <5>2. h[n] = g[n]
          BY <5>1
        <5> QED
          BY <4>1, <5>1, <5>2
      <4>2. CASE k = 0
        <5>1. 0 \in 0..n /\ k # n + 1
          BY <4>2
        <5>2. h[k] = g[k]
          BY <5>1
        <5>3. g[0] = <<>>
          BY <2>1, <5>1 DEF IsLoop
        <5> QED
          BY <4>2, <5>2, <5>3
      <4>3. CASE k # 0 /\ k # n + 1
        <5>1. k \in 0..n /\ k - 1 \in 0..(n + 1) /\ k - 1 # n + 1
          BY <4>3
        <5>2. h[k] = g[k] /\ h[k - 1] = g[k - 1]
          BY <4>3, <5>1
        <5>3. g[k] = IF s[k] \in K THEN Append(g[k - 1], s[k]) ELSE g[k - 1]
          BY <2>1, <4>3, <5>1 DEF IsLoop
        <5> QED
          BY <4>3, <5>2, <5>3
      <4> QED
        BY <4>1, <4>2, <4>3
    <3> QED
      BY <3>1
  <2>3. IsLoop(h, s, K, n + 1)
    BY <2>2 DEF IsLoop
  <2> HIDE DEF h
  <2> QED
    BY <1>2, <2>3
<1> HIDE DEF S
<1>3. 0..N \subseteq S
  BY <1>1, <1>2, Induction
<1> QED
  BY <1>3 DEF S

LEMMA KeptLoop ==
  ASSUME NEW s, NEW K, Len(s) \in Nat
  PROVE  \E g : IsLoop(g, s, K, Len(s)) /\ Kept(s, K) = g[Len(s)]
<1> DEFINE g == CHOOSE f : IsLoop(f, s, K, Len(s))
<1>1. IsLoop(g, s, K, Len(s))
  BY LoopExists
<1>2. Kept(s, K) = g[Len(s)]
  BY DEF Kept, IsLoop
<1> QED
  BY <1>1, <1>2

LEMMA LoopRound ==
  ASSUME NEW S, NEW s \in Seq(S), NEW K, NEW g, IsLoop(g, s, K, Len(s))
  PROVE  /\ g[0] = <<>>
         /\ \A n \in 0..Len(s) : n + 1 \in 0..Len(s) =>
              /\ n + 1 \in 1..Len(s)
              /\ g[n + 1] = IF s[n + 1] \in K THEN Append(g[n], s[n + 1]) ELSE g[n]
<1>1. Len(s) \in Nat
  BY LenProperties
<1>2. ASSUME NEW n \in 0..Len(s), n + 1 \in 0..Len(s)
      PROVE  n + 1 \in 1..Len(s) /\ n + 1 # 0 /\ (n + 1) - 1 = n
  BY <1>1, <1>2
<1>3. ASSUME NEW n \in 0..Len(s), n + 1 \in 0..Len(s)
      PROVE  g[n + 1] = IF s[n + 1] \in K THEN Append(g[n], s[n + 1]) ELSE g[n]
  BY <1>2, <1>3 DEF IsLoop
<1> QED
  BY <1>1, <1>2, <1>3 DEF IsLoop

\* What is kept of a list is a list, and has each element that is kept as often as
\* the list has it.
LEMMA KeptType ==
  ASSUME NEW S, NEW s \in Seq(S), NEW K
  PROVE  Kept(s, K) \in Seq(S)
<1>1. Len(s) \in Nat
  BY LenProperties
<1>2. PICK g : IsLoop(g, s, K, Len(s)) /\ Kept(s, K) = g[Len(s)]
  BY <1>1, KeptLoop
<1>0. /\ g[0] = <<>>
      /\ \A n \in 0..Len(s) : n + 1 \in 0..Len(s) =>
           /\ n + 1 \in 1..Len(s)
           /\ g[n + 1] = IF s[n + 1] \in K THEN Append(g[n], s[n + 1]) ELSE g[n]
  BY <1>2, LoopRound
<1> DEFINE T == {n \in 0..Len(s) : g[n] \in Seq(S)}
<1>3. 0 \in T
  <2>1. g[0] \in Seq(S)
    BY <1>0, EmptySeq
  <2> QED
    BY <1>1, <2>1
<1>4. ASSUME NEW n \in 0..Len(s), n \in T, n + 1 \in 0..Len(s) PROVE n + 1 \in T
  <2>1. n + 1 \in 1..Len(s) /\ g[n + 1] = IF s[n + 1] \in K THEN Append(g[n], s[n + 1]) ELSE g[n]
    BY <1>0, <1>4
  <2>2. s[n + 1] \in S
    BY <2>1, ElementOfSeq
  <2>3. g[n] \in Seq(S)
    BY <1>4
  <2>4. Append(g[n], s[n + 1]) \in Seq(S)
    BY <2>2, <2>3, AppendProperties
  <2> QED
    BY <1>4, <2>1, <2>3, <2>4
<1> HIDE DEF T
<1>5. 0..Len(s) \subseteq T
  BY <1>1, <1>3, <1>4, Induction
<1> QED
  BY <1>1, <1>2, <1>5 DEF T

\* Where e is among the first n elements.
At(s, e, n) == {m \in 1..n : s[m] = e}

LEMMA OneMore ==
  ASSUME NEW s, NEW n \in Nat, NEW e
  PROVE  /\ Cardinality(At(s, e, n)) \in Nat
         /\ Cardinality(At(s, e, n + 1)) =
              Cardinality(At(s, e, n)) + (IF s[n + 1] = e THEN 1 ELSE 0)
<1> DEFINE A == At(s, e, n)
           B == At(s, e, n + 1)
<1>1. IsFiniteSet(A)
  <2>1. IsFiniteSet(1..n)
    BY FS_Interval
  <2> QED
    BY <2>1, FS_Subset DEF At
<1>2. n + 1 \notin A
  BY DEF At
<1>3. B = IF s[n + 1] = e THEN A \cup {n + 1} ELSE A
  <2>1. \A m : m \in 1..(n + 1) <=> m \in 1..n \/ m = n + 1
    OBVIOUS
  <2> QED
    BY <2>1 DEF At
<1> HIDE DEF A, B
<1>4. Cardinality(A) \in Nat /\ Cardinality(A \cup {n + 1}) = Cardinality(A) + 1
  BY <1>1, <1>2, FS_AddElement, FS_CardinalityType
<1>5. Cardinality(B) = Cardinality(A) + (IF s[n + 1] = e THEN 1 ELSE 0)
  BY <1>3, <1>4
<1> QED
  BY <1>4, <1>5 DEF A, B

LEMMA OccurrencesAppend ==
  ASSUME NEW S, NEW s \in Seq(S), NEW x \in S, NEW e
  PROVE  /\ Occurrences(s, e) \in Nat
         /\ Occurrences(Append(s, x), e) = Occurrences(s, e) + (IF x = e THEN 1 ELSE 0)
<1> DEFINE t == Append(s, x)
<1>1. Len(s) \in Nat
  BY LenProperties
<1>2. t \in Seq(S) /\ Len(t) = Len(s) + 1 /\ t[Len(s) + 1] = x /\ \A m \in 1..Len(s) : t[m] = s[m]
  BY <1>1, AppendProperties
<1>3. DOMAIN s = 1..Len(s) /\ DOMAIN t = 1..(Len(s) + 1)
  BY <1>2, LenProperties
<1> HIDE DEF t
<1>4. At(t, e, Len(s)) = At(s, e, Len(s))
  BY <1>2 DEF At
<1>5. Occurrences(s, e) = Cardinality(At(s, e, Len(s)))
  BY <1>3 DEF Occurrences, At
<1>6. Occurrences(t, e) = Cardinality(At(t, e, Len(s) + 1))
  BY <1>3 DEF Occurrences, At
<1>7. /\ Cardinality(At(t, e, Len(s))) \in Nat
      /\ Cardinality(At(t, e, Len(s) + 1)) =
           Cardinality(At(t, e, Len(s))) + (IF t[Len(s) + 1] = e THEN 1 ELSE 0)
  BY <1>1, OneMore
<1> QED
  BY <1>2, <1>4, <1>5, <1>6, <1>7 DEF t

LEMMA KeptOccurrences ==
  ASSUME NEW S, NEW s \in Seq(S), NEW K, NEW e \in K
  PROVE  Occurrences(Kept(s, K), e) = Occurrences(s, e)
<1>1. Len(s) \in Nat
  BY LenProperties
<1>2. PICK g : IsLoop(g, s, K, Len(s)) /\ Kept(s, K) = g[Len(s)]
  BY <1>1, KeptLoop
<1>0. /\ g[0] = <<>>
      /\ \A n \in 0..Len(s) : n + 1 \in 0..Len(s) =>
           /\ n + 1 \in 1..Len(s)
           /\ g[n + 1] = IF s[n + 1] \in K THEN Append(g[n], s[n + 1]) ELSE g[n]
  BY <1>2, LoopRound
<1> DEFINE T == {n \in 0..Len(s) : /\ g[n] \in Seq(S)
                                  /\ Occurrences(g[n], e) = Cardinality(At(s, e, n))}
<1>3. 0 \in T
  <2>1. g[0] = <<>>
    BY <1>0
  <2>2. DOMAIN g[0] = {} /\ 1..0 = {} /\ g[0] \in Seq(S)
    BY <2>1
  <2>3. {m \in DOMAIN g[0] : g[0][m] = e} = At(s, e, 0)
    BY <2>2 DEF At
  <2>4. Occurrences(g[0], e) = Cardinality(At(s, e, 0))
    BY <2>3 DEF Occurrences
  <2> QED
    BY <1>1, <2>2, <2>4
<1>4. ASSUME NEW n \in 0..Len(s), n \in T, n + 1 \in 0..Len(s) PROVE n + 1 \in T
  <2>1. n + 1 \in 1..Len(s) /\ g[n + 1] = IF s[n + 1] \in K THEN Append(g[n], s[n + 1]) ELSE g[n]
    BY <1>0, <1>4
  <2>2. s[n + 1] \in S
    BY <2>1, ElementOfSeq
  <2>3. g[n] \in Seq(S) /\ Occurrences(g[n], e) = Cardinality(At(s, e, n))
    BY <1>4
  <2>4. g[n + 1] \in Seq(S)
    <3>1. Append(g[n], s[n + 1]) \in Seq(S)
      BY <2>2, <2>3, AppendProperties
    <3> QED
      BY <2>1, <2>3, <3>1
  <2>5. Cardinality(At(s, e, n + 1))
          = Cardinality(At(s, e, n)) + (IF s[n + 1] = e THEN 1 ELSE 0)
    BY <1>1, <1>4, OneMore
  <2>6. /\ Occurrences(g[n], e) \in Nat
        /\ Occurrences(Append(g[n], s[n + 1]), e)
             = Occurrences(g[n], e) + (IF s[n + 1] = e THEN 1 ELSE 0)
    BY <2>2, <2>3, OccurrencesAppend
  <2>7. Occurrences(g[n + 1], e) = Cardinality(At(s, e, n + 1))
    <3>1. CASE s[n + 1] \in K
      BY <2>1, <2>3, <2>5, <2>6, <3>1
    <3>2. CASE s[n + 1] \notin K
      BY <2>1, <2>3, <2>5, <2>6, <3>2
    <3> QED
      BY <3>1, <3>2
  <2> QED
    BY <1>4, <2>4, <2>7
<1> HIDE DEF T
<1>5. 0..Len(s) \subseteq T
  BY <1>1, <1>3, <1>4, Induction
<1>6. Occurrences(g[Len(s)], e) = Cardinality(At(s, e, Len(s)))
  BY <1>1, <1>5 DEF T
<1>7. DOMAIN s = 1..Len(s)
  BY LenProperties
<1> QED
  BY <1>2, <1>6, <1>7 DEF Occurrences, At

-----------------------------------------------------------------------------
(***************************************************************************)
(* The text of a stream                                                    *)
(***************************************************************************)
\* What the loop of Text has made of the list s after each of N rounds.
IsTextLoop(g, s, N) ==
  g = [n \in 0..N |-> IF n = 0 THEN <<>> ELSE g[n - 1] \o Appended(s[n])]

LEMMA TextLoopExists ==
  ASSUME NEW s, NEW N \in Nat
  PROVE  \E g : IsTextLoop(g, s, N)
<1> DEFINE S == {n \in 0..N : \E g : IsTextLoop(g, s, n)}
<1>1. 0 \in S
  <2> DEFINE g == [n \in 0..0 |-> <<>>]
  <2>1. IsTextLoop(g, s, 0)
    BY DEF IsTextLoop
  <2> QED
    BY <2>1
<1>2. ASSUME NEW n \in 0..N, n \in S, n + 1 \in 0..N
      PROVE  n + 1 \in S
  <2>1. PICK g : IsTextLoop(g, s, n)
    BY <1>2
  <2> DEFINE h == [k \in 0..(n + 1) |-> IF k = n + 1 THEN g[n] \o Appended(s[k]) ELSE g[k]]
  <2>2. h = [k \in 0..(n + 1) |-> IF k = 0 THEN <<>> ELSE h[k - 1] \o Appended(s[k])]
    <3>1. ASSUME NEW k \in 0..(n + 1)
          PROVE  h[k] = IF k = 0 THEN <<>> ELSE h[k - 1] \o Appended(s[k])
      <4>1. CASE k = n + 1
        <5>1. n \in 0..(n + 1) /\ k - 1 = n /\ n # n + 1 /\ k # 0
          BY <4>1
        <5>2. h[n] = g[n]
          BY <5>1
        <5> QED
          BY <4>1, <5>1, <5>2
      <4>2. CASE k = 0
        <5>1. 0 \in 0..n /\ k # n + 1
          BY <4>2
        <5>2. h[k] = g[k]
          BY <5>1
        <5>3. g[0] = <<>>
          BY <2>1, <5>1 DEF IsTextLoop
        <5> QED
          BY <4>2, <5>2, <5>3
      <4>3. CASE k # 0 /\ k # n + 1
        <5>1. k \in 0..n /\ k - 1 \in 0..(n + 1) /\ k - 1 # n + 1
          BY <4>3
        <5>2. h[k] = g[k] /\ h[k - 1] = g[k - 1]
          BY <4>3, <5>1
        <5>3. g[k] = g[k - 1] \o Appended(s[k])
          BY <2>1, <4>3, <5>1 DEF IsTextLoop
        <5> QED
          BY <4>3, <5>2, <5>3
      <4> QED
        BY <4>1, <4>2, <4>3
    <3> QED
      BY <3>1
  <2>3. IsTextLoop(h, s, n + 1)
    BY <2>2 DEF IsTextLoop
  <2> HIDE DEF h
  <2> QED
    BY <1>2, <2>3
<1> HIDE DEF S
<1>3. 0..N \subseteq S
  BY <1>1, <1>2, Induction
<1> QED
  BY <1>3 DEF S

LEMMA TextLoop ==
  ASSUME NEW s, Len(s) \in Nat
  PROVE  \E g : IsTextLoop(g, s, Len(s)) /\ Text(s) = g[Len(s)]
<1> DEFINE g == CHOOSE f : IsTextLoop(f, s, Len(s))
<1>1. IsTextLoop(g, s, Len(s))
  BY TextLoopExists
<1>2. Text(s) = g[Len(s)]
  BY DEF Text, IsTextLoop
<1> QED
  BY <1>1, <1>2

LEMMA OccurrencesConcat ==
  ASSUME NEW S, NEW a \in Seq(S), NEW b \in Seq(S), NEW e
  PROVE  /\ Occurrences(a, e) \in Nat /\ Occurrences(b, e) \in Nat
         /\ Occurrences(a \o b, e) = Occurrences(a, e) + Occurrences(b, e)
<1> DEFINE c == a \o b
           m == Len(a)
           T == {n \in 0..Len(b) : Cardinality(At(c, e, m + n))
                                     = Cardinality(At(a, e, m)) + Cardinality(At(b, e, n))}
<1>1. m \in Nat /\ Len(b) \in Nat
  BY LenProperties
<1>2. /\ DOMAIN a = 1..m /\ DOMAIN b = 1..Len(b) /\ DOMAIN c = 1..(m + Len(b))
      /\ \A k \in 1..m : c[k] = a[k]
      /\ \A k \in 1..Len(b) : c[m + k] = b[k]
  <2>1. c \in Seq(S) /\ Len(c) = m + Len(b)
    BY ConcatProperties
  <2>2. \A k \in 1..m : k \in 1..Len(c) /\ k <= m
    BY <1>1, <2>1
  <2>3. \A k \in 1..Len(b) : m + k \in 1..Len(c) /\ ~(m + k <= m) /\ (m + k) - m = k
    BY <1>1, <2>1
  <2>4. \A k \in 1..Len(c) : c[k] = IF k <= m THEN a[k] ELSE b[k - m]
    BY ConcatProperties
  <2> QED
    BY <2>1, <2>2, <2>3, <2>4, LenProperties
<1> HIDE DEF c, m
<1>3. 0 \in T
  <2>1. At(c, e, m + 0) = At(a, e, m) /\ At(b, e, 0) = {}
    BY <1>1, <1>2 DEF At
  <2>2. Cardinality(At(a, e, m)) \in Nat /\ Cardinality(At(b, e, 0)) = 0
    BY <1>1, <2>1, OneMore, FS_EmptySet
  <2> QED
    BY <1>1, <2>1, <2>2
<1>4. ASSUME NEW n \in 0..Len(b), n \in T, n + 1 \in 0..Len(b) PROVE n + 1 \in T
  <2>1. n \in Nat /\ m + n \in Nat /\ n + 1 \in 1..Len(b) /\ m + (n + 1) = (m + n) + 1
    BY <1>1, <1>4
  <2>2. c[(m + n) + 1] = b[n + 1]
    BY <1>2, <2>1
  <2>3. /\ Cardinality(At(c, e, (m + n) + 1))
             = Cardinality(At(c, e, m + n)) + (IF b[n + 1] = e THEN 1 ELSE 0)
        /\ Cardinality(At(b, e, n + 1)) = Cardinality(At(b, e, n)) + (IF b[n + 1] = e THEN 1 ELSE 0)
        /\ Cardinality(At(b, e, n)) \in Nat /\ Cardinality(At(c, e, m + n)) \in Nat
    BY <2>1, <2>2, OneMore, SMTT(40)
  <2>4. Cardinality(At(a, e, m)) \in Nat
    BY <1>1, OneMore
  <2>5. Cardinality(At(c, e, m + n)) = Cardinality(At(a, e, m)) + Cardinality(At(b, e, n))
    BY <1>4
  <2> QED
    BY <1>4, <2>1, <2>3, <2>4, <2>5
<1> HIDE DEF T
<1>5. 0..Len(b) \subseteq T
  BY <1>1, <1>3, <1>4, Induction
<1>6. Cardinality(At(c, e, m + Len(b))) = Cardinality(At(a, e, m)) + Cardinality(At(b, e, Len(b)))
  BY <1>1, <1>5, SMTT(40) DEF T
<1>7. /\ Occurrences(a, e) = Cardinality(At(a, e, m))
      /\ Occurrences(b, e) = Cardinality(At(b, e, Len(b)))
      /\ Occurrences(c, e) = Cardinality(At(c, e, m + Len(b)))
  BY <1>2 DEF Occurrences, At
<1>8. Cardinality(At(a, e, m)) \in Nat /\ Cardinality(At(b, e, Len(b))) \in Nat
  BY <1>1, OneMore
<1> QED
  BY <1>6, <1>7, <1>8 DEF c

\* The text of one packet: its characters but the last, each once.
LEMMA AppendedOccurrences ==
  ASSUME NEW q \in Packet
  PROVE  /\ Appended(q) \in Seq(Packet \X Nat)
         /\ \A p \in Packet : \A j \in 1..(Len(Data[p]) - 1) : IsText(Data[p][j]) =>
              Occurrences(Appended(q), <<p, j>>) = IF q = p THEN 1 ELSE 0
<1> DEFINE places == [j \in DOMAIN Data[q] |-> <<q, j>>]
           K == {<<q, j>> : j \in {k \in 1..(Len(Data[q]) - 1) : IsText(Data[q][k])}}
           S == {<<q, k>> : k \in Nat}
<1>1. Len(Data[q]) \in Nat /\ DOMAIN Data[q] = 1..Len(Data[q])
  BY ViewerAssumption, LenProperties
<1>2. places \in Seq(S) /\ Len(places) = Len(Data[q]) /\ DOMAIN places = 1..Len(Data[q])
  <2>1. \A j \in 1..Len(Data[q]) : <<q, j>> \in S
    OBVIOUS
  <2> QED
    BY <1>1, <2>1, SeqDef, LenProperties
<1>3. Appended(q) = Kept(places, K)
  BY DEF Appended
<1>4. Kept(places, K) \in Seq(S) /\ Kept(places, K) \in Seq(Packet \X Nat)
  <2>1. S \subseteq Packet \X Nat
    OBVIOUS
  <2>2. places \in Seq(Packet \X Nat)
    BY <1>1, <1>2, <2>1, SeqDef
  <2> HIDE DEF places, K, S
  <2> QED
    BY <1>2, <2>2, KeptType
<1>5. ASSUME NEW p \in Packet, NEW j \in 1..(Len(Data[p]) - 1), IsText(Data[p][j])
      PROVE  Occurrences(Appended(q), <<p, j>>) = IF q = p THEN 1 ELSE 0
  <2>1. CASE q = p
    <3>1. <<p, j>> \in K
      BY <1>5, <2>1
    <3>2. Occurrences(Kept(places, K), <<p, j>>) = Occurrences(places, <<p, j>>)
      <4> HIDE DEF places, K, S
      <4> QED
        BY <1>2, <3>1, KeptOccurrences
    <3>3. j \in 1..Len(Data[q])
      BY <1>1, <2>1
    <3>4. {k \in DOMAIN places : places[k] = <<p, j>>} = {j}
      BY <1>1, <2>1, <3>3
    <3>5. Occurrences(places, <<p, j>>) = 1
      BY <3>4, FS_Singleton DEF Occurrences
    <3> QED
      BY <1>3, <2>1, <3>2, <3>5
  <2>2. CASE q # p
    <3>1. \A k \in DOMAIN Appended(q) : Appended(q)[k] \in S
      <4> HIDE DEF places, K, S
      <4> QED
        BY <1>3, <1>4, LenProperties, ElementOfSeq
    <3>2. {k \in DOMAIN Appended(q) : Appended(q)[k] = <<p, j>>} = {}
      BY <2>2, <3>1
    <3> QED
      BY <2>2, <3>2, FS_EmptySet DEF Occurrences
  <2> QED
    BY <2>1, <2>2
<1> QED
  BY <1>3, <1>4, <1>5

LEMMA TextRound ==
  ASSUME NEW s \in Seq(Packet), NEW g, IsTextLoop(g, s, Len(s))
  PROVE  /\ g[0] = <<>>
         /\ \A n \in 0..Len(s) : n + 1 \in 0..Len(s) =>
              n + 1 \in 1..Len(s) /\ g[n + 1] = g[n] \o Appended(s[n + 1])
<1>1. Len(s) \in Nat
  BY LenProperties
<1>2. ASSUME NEW n \in 0..Len(s), n + 1 \in 0..Len(s)
      PROVE  n + 1 \in 1..Len(s) /\ n + 1 # 0 /\ (n + 1) - 1 = n
  BY <1>1, <1>2
<1>3. ASSUME NEW n \in 0..Len(s), n + 1 \in 0..Len(s)
      PROVE  g[n + 1] = g[n] \o Appended(s[n + 1])
  BY <1>2, <1>3 DEF IsTextLoop
<1> QED
  BY <1>1, <1>2, <1>3 DEF IsTextLoop

\* The text of a list has each character of a packet, but its last octet, as often as
\* the list has the packet.
LEMMA TextOccurrences ==
  ASSUME NEW s \in Seq(Packet)
  PROVE  /\ Text(s) \in Seq(Packet \X Nat)
         /\ \A p \in Packet : \A j \in 1..(Len(Data[p]) - 1) : IsText(Data[p][j]) =>
              Occurrences(Text(s), <<p, j>>) = Occurrences(s, p)
<1>1. Len(s) \in Nat /\ DOMAIN s = 1..Len(s)
  BY LenProperties
<1>2. PICK g : IsTextLoop(g, s, Len(s)) /\ Text(s) = g[Len(s)]
  BY <1>1, TextLoop
<1>3. /\ g[0] = <<>>
      /\ \A n \in 0..Len(s) : n + 1 \in 0..Len(s) =>
           n + 1 \in 1..Len(s) /\ g[n + 1] = g[n] \o Appended(s[n + 1])
  BY <1>2, TextRound
<1> DEFINE whole == {n \in 0..Len(s) :
                       \A p \in Packet : \A j \in 1..(Len(Data[p]) - 1) : IsText(Data[p][j]) =>
                         Occurrences(g[n], <<p, j>>) = Cardinality(At(s, p, n))}
           T == {n \in whole : g[n] \in Seq(Packet \X Nat)}
<1>4. 0 \in T
  <2>1. g[0] \in Seq(Packet \X Nat)
    BY <1>3, EmptySeq
  <2>2. ASSUME NEW p \in Packet, NEW j PROVE Occurrences(g[0], <<p, j>>) = Cardinality(At(s, p, 0))
    <3>1. DOMAIN g[0] = {} /\ 1..0 = {}
      BY <1>3
    <3>2. {k \in DOMAIN g[0] : g[0][k] = <<p, j>>} = {}
      BY <3>1
    <3>3. At(s, p, 0) = {}
      BY <3>1 DEF At
    <3> QED
      BY <3>2, <3>3 DEF Occurrences
  <2>3. 0 \in whole
    BY <1>1, <2>2
  <2> HIDE DEF whole
  <2> QED
    BY <2>1, <2>3
<1>5. ASSUME NEW n \in 0..Len(s), n \in T, n + 1 \in 0..Len(s) PROVE n + 1 \in T
  <2> DEFINE last == Appended(s[n + 1])
  <2>1. g[n] \in Seq(Packet \X Nat) /\ n \in whole
    BY <1>5
  <2> HIDE DEF whole, T
  <2>2. n \in Nat /\ n + 1 \in 1..Len(s) /\ s[n + 1] \in Packet /\ g[n + 1] = g[n] \o last
    <3>1. n \in Nat /\ n + 1 \in 1..Len(s)
      BY <1>1, <1>3, <1>5
    <3>2. s[n + 1] \in Packet
      BY <3>1, ElementOfSeq
    <3> QED
      BY <1>3, <1>5, <3>1, <3>2
  <2>3. last \in Seq(Packet \X Nat)
    BY <2>2, AppendedOccurrences
  <2>4. g[n + 1] \in Seq(Packet \X Nat)
    BY <2>2, <2>1, <2>3, ConcatProperties
  <2>5. ASSUME NEW p \in Packet, NEW j \in 1..(Len(Data[p]) - 1), IsText(Data[p][j])
        PROVE  Occurrences(g[n + 1], <<p, j>>) = Cardinality(At(s, p, n + 1))
    <3>1. Occurrences(last, <<p, j>>) = IF s[n + 1] = p THEN 1 ELSE 0
      BY <2>2, <2>5, AppendedOccurrences
    <3>2. Occurrences(g[n], <<p, j>>) = Cardinality(At(s, p, n))
      BY <2>1, <2>5 DEF whole
    <3>3. Occurrences(g[n] \o last, <<p, j>>) = Occurrences(g[n], <<p, j>>) + Occurrences(last, <<p, j>>)
      BY <2>1, <2>3, OccurrencesConcat
    <3>4. Cardinality(At(s, p, n + 1)) = Cardinality(At(s, p, n)) + (IF s[n + 1] = p THEN 1 ELSE 0)
      BY <2>2, OneMore
    <3> QED
      BY <2>2, <3>1, <3>2, <3>3, <3>4
  <2>6. n + 1 \in whole
    BY <1>5, <2>5 DEF whole
  <2> QED
    BY <2>4, <2>6 DEF T
<1> HIDE DEF T
<1>6. 0..Len(s) \subseteq T
  BY <1>1, <1>4, <1>5, Induction
<1>7. g[Len(s)] \in Seq(Packet \X Nat) /\ Len(s) \in whole
  BY <1>1, <1>6 DEF T
<1>8. \A p \in Packet : Occurrences(s, p) = Cardinality(At(s, p, Len(s)))
  BY <1>1 DEF Occurrences, At
<1> QED
  BY <1>2, <1>7, <1>8

-----------------------------------------------------------------------------
(***************************************************************************)
(* The form and the filter                                                 *)
(***************************************************************************)
FormTypeOK ==
  /\ boxes \subseteq Protocols /\ ends \subseteq Ends
  /\ ipText \in IPText \cup {Empty} /\ portText \in PortText \cup {Empty}
  /\ filter \in Filter /\ filterApplied \in BOOLEAN

PanelInv == FormTypeOK /\ FilterExclusive /\ ClearedIsClear

LEMMA NoFilterType ==
  NoFilter \in Filter /\ NoFilter.protocols = {} /\ NoFilter.ends = {}
<1>1. {} \subseteq Protocols /\ {} \subseteq Ends /\ -1 \in Int
  OBVIOUS
<1>2. NoAddress \in Address \cup {NoAddress}
  OBVIOUS
<1> QED
  BY <1>1, <1>2, Zenon DEF NoFilter, Filter

LEMMA InitPanel == PanelInit => PanelInv
BY NoFilterType
DEF PanelInit, PanelInv, FormTypeOK, FilterExclusive, ClearedIsClear

\* Where the form is emptied and the filter forgotten the invariant is back.
LEMMA ForgetPanel == ASSUME ForgetFilters, ClearForm PROVE PanelInv'
BY NoFilterType
DEF ForgetFilters, ClearForm, PanelInv, FormTypeOK, FilterExclusive, ClearedIsClear

\* setIPAddressFilter and setSourcePort make filters of filters, and hand on the
\* ends that the form has.
LEMMA WithIPType ==
  ASSUME PanelInv
  PROVE  /\ WithIP(filter) \in Filter
         /\ WithIP(filter).protocols = filter.protocols
         /\ WithIP(filter).ends \in {filter.ends, ends}
         /\ ipText \notin Address => WithIP(filter) = filter
BY DEF PanelInv, FormTypeOK, WithIP, Filter

LEMMA WithPortType ==
  ASSUME PanelInv, portText # BadText, NEW f \in Filter
  PROVE  /\ WithPort(f) \in Filter
         /\ WithPort(f).ends \in {f.ends, ends}
BY PanelAssumption DEF PanelInv, FormTypeOK, WithPort, Filter

LEMMA NextPanel == ASSUME PanelInv, [PanelNext]_panelVars PROVE PanelInv'
<1> USE DEF PanelInv, FormTypeOK, FilterExclusive, ClearedIsClear
<1>1. ASSUME NEW q \in Protocols, SelectProtocol(q) PROVE PanelInv'
  BY <1>1 DEF SelectProtocol, filterVars
<1>2. ASSUME NEW e \in Ends, SelectEnd(e) PROVE PanelInv'
  BY <1>2 DEF SelectEnd, filterVars
<1>3. CASE TypeText
  BY <1>3 DEF TypeText, filterVars
<1>4. CASE ApplyFilters
  <2>1. UNCHANGED formVars
    BY <1>4 DEF ApplyFilters
  <2>2. CASE ApplyNothing
    BY <2>1, <2>2 DEF ApplyNothing, filterVars, formVars
  <2>3. CASE ApplyBadPort
    BY <2>1, <2>3, WithIPType DEF ApplyBadPort, formVars
  <2>4. CASE InstallFilters
    <3> DEFINE f == WithPort(WithIP(filter))
    <3>1. f \in Filter /\ f.ends \in {filter.ends, ends}
      BY <2>4, WithIPType, WithPortType DEF InstallFilters
    <3> HIDE DEF f
    <3>2. /\ filter' \in Filter /\ filter'.protocols = boxes
          /\ filter'.ends = f.ends /\ filterApplied' = TRUE
      BY <2>4, <3>1 DEF InstallFilters, Filter, f
    <3> QED
      BY <2>1, <3>1, <3>2 DEF formVars
  <2> QED
    BY <1>4, <2>2, <2>3, <2>4 DEF ApplyFilters
<1>5. CASE ClearFilters
  BY <1>5, ForgetPanel DEF ClearFilters
<1>6. CASE StartCapture
  BY <1>6 DEF StartCapture, formVars, filterVars
<1>7. CASE StopCapture
  BY <1>7 DEF StopCapture, formVars, filterVars
<1>8. CASE ClearCapture
  BY <1>8, ForgetPanel DEF ClearCapture
<1>9. CASE OpenCapture
  BY <1>9, ForgetPanel DEF OpenCapture
<1>10. ASSUME NEW p \in Packet, AddPacket(p) PROVE PanelInv'
  BY <1>10 DEF AddPacket, formVars, filterVars
<1>11. CASE UNCHANGED panelVars
  BY <1>11 DEF panelVars, formVars, filterVars
<1> QED
  BY <1>1, <1>2, <1>3, <1>4, <1>5, <1>6, <1>7, <1>8, <1>9, <1>10, <1>11
  DEF PanelNext

-----------------------------------------------------------------------------
(***************************************************************************)
(* The lists, and the session as the form sees it                          *)
(***************************************************************************)
SessionTypeOK ==
  /\ disabled \subseteq Controls /\ capture \in Seq(Packet)
  /\ filtered \in Seq(Packet) \cup {NoList}
  /\ reader \in {"none", "on", "stopped", "done"} /\ clicks \in 0..MaxClicks

LEMMA PanelTypes == PanelTypeOK <=> FormTypeOK /\ SessionTypeOK
BY DEF PanelTypeOK, FormTypeOK, SessionTypeOK

LEMMA InitSession == PanelInit => SessionTypeOK
<1> SUFFICES ASSUME PanelInit PROVE SessionTypeOK
  OBVIOUS
<1>1. FilterFields \subseteq Controls /\ <<>> \in Seq(Packet) /\ 0 \in 0..MaxClicks
  BY PanelAssumption, EmptySeq DEF Controls
<1> QED
  BY <1>1 DEF PanelInit, SessionTypeOK

LEMMA ClickType == ASSUME SessionTypeOK, Click PROVE clicks' \in 0..MaxClicks
BY PanelAssumption DEF SessionTypeOK, Click

LEMMA FilteredType ==
  ASSUME NEW f, NEW s \in Seq(Packet) PROVE FilteredPackets(f, s) \in Seq(Packet)
BY KeptType DEF FilteredPackets

LEMMA NextSession ==
  ASSUME SessionTypeOK, [PanelNext]_panelVars PROVE SessionTypeOK'
<1>1. /\ disabled \subseteq Controls /\ capture \in Seq(Packet)
      /\ filtered \in Seq(Packet) \cup {NoList}
      /\ reader \in {"none", "on", "stopped", "done"} /\ clicks \in 0..MaxClicks
  BY DEF SessionTypeOK
<1>2. /\ FilterFields \subseteq Controls /\ Controls \subseteq Controls
      /\ disabled \ {"ends"} \subseteq Controls /\ disabled \cup {"ends"} \subseteq Controls
      /\ disabled \ FilterFields \subseteq Controls /\ disabled \cup FilterFields \subseteq Controls
      /\ {} \subseteq Controls
  BY <1>1 DEF Controls, FilterFields
<1>3. <<>> \in Seq(Packet)
  BY EmptySeq
<1>4. ASSUME NEW q \in Protocols, SelectProtocol(q) PROVE SessionTypeOK'
  <2>1. disabled' \subseteq Controls
    BY <1>2, <1>4 DEF SelectProtocol, PortFieldAfter
  <2>2. UNCHANGED <<filtered, capture, reader>>
    BY <1>4 DEF SelectProtocol, filterVars
  <2>3. clicks' \in 0..MaxClicks
    BY <1>4, ClickType DEF SelectProtocol
  <2> QED
    BY <1>1, <2>1, <2>2, <2>3 DEF SessionTypeOK
<1>5. ASSUME NEW e \in Ends, SelectEnd(e) PROVE SessionTypeOK'
  <2>1. UNCHANGED <<disabled, filtered, capture, reader>>
    BY <1>5 DEF SelectEnd, filterVars
  <2>2. clicks' \in 0..MaxClicks
    BY <1>5, ClickType DEF SelectEnd
  <2> QED
    BY <1>1, <2>1, <2>2 DEF SessionTypeOK
<1>6. CASE TypeText
  <2>1. UNCHANGED <<disabled, filtered, capture, reader>>
    BY <1>6 DEF TypeText, filterVars
  <2>2. clicks' \in 0..MaxClicks
    BY <1>6, ClickType DEF TypeText
  <2> QED
    BY <1>1, <2>1, <2>2 DEF SessionTypeOK
<1>7. CASE ApplyFilters
  <2>1. UNCHANGED <<disabled, capture, reader>>
    BY <1>7 DEF ApplyFilters
  <2>2. clicks' \in 0..MaxClicks
    BY <1>7, ClickType DEF ApplyFilters
  <2>3. filtered' \in Seq(Packet) \cup {NoList}
    <3>1. FilteredPackets(filter', capture) \in Seq(Packet)
      BY <1>1, FilteredType
    <3> QED
      BY <1>1, <1>7, <3>1 DEF ApplyFilters, ApplyNothing, ApplyBadPort, InstallFilters, filterVars
  <2> QED
    BY <1>1, <2>1, <2>2, <2>3 DEF SessionTypeOK
<1>8. CASE ClearFilters
  <2>1. UNCHANGED <<filtered, capture, reader>> /\ disabled' \subseteq Controls
    BY <1>1, <1>2, <1>8 DEF ClearFilters, ForgetFilters
  <2>2. clicks' \in 0..MaxClicks
    BY <1>8, ClickType DEF ClearFilters
  <2> QED
    BY <1>1, <2>1, <2>2 DEF SessionTypeOK
<1>9. CASE StartCapture
  <2>1. UNCHANGED filtered /\ capture' = <<>> /\ disabled' = Controls /\ reader' \in {"on", reader}
    BY <1>9 DEF StartCapture, filterVars
  <2>2. clicks' \in 0..MaxClicks
    BY <1>9, ClickType DEF StartCapture
  <2> QED
    BY <1>1, <1>2, <1>3, <2>1, <2>2 DEF SessionTypeOK
<1>10. CASE StopCapture
  <2>1. UNCHANGED <<filtered, capture>> /\ disabled' = {} /\ reader' \in {"stopped", reader}
    BY <1>10 DEF StopCapture, filterVars
  <2>2. clicks' \in 0..MaxClicks
    BY <1>10, ClickType DEF StopCapture
  <2> QED
    BY <1>1, <1>2, <2>1, <2>2 DEF SessionTypeOK
<1>11. CASE ClearCapture
  <2>1. UNCHANGED <<filtered, reader>> /\ capture' = <<>> /\ disabled' = FilterFields
    BY <1>11 DEF ClearCapture, ForgetFilters
  <2>2. clicks' \in 0..MaxClicks
    BY <1>11, ClickType DEF ClearCapture
  <2> QED
    BY <1>1, <1>2, <1>3, <2>1, <2>2 DEF SessionTypeOK
<1>12. CASE OpenCapture
  <2>1. UNCHANGED <<filtered, reader, clicks>>
    BY <1>12 DEF OpenCapture, ForgetFilters
  <2>2. capture' \in Seq(Packet) /\ disabled' \subseteq Controls
    BY <1>2, <1>3, <1>12, PanelAssumption DEF OpenCapture
  <2> QED
    BY <1>1, <2>1, <2>2 DEF SessionTypeOK
<1>13. ASSUME NEW p \in Packet, AddPacket(p) PROVE SessionTypeOK'
  <2>1. UNCHANGED <<disabled, filtered, clicks>> /\ reader' \in {"on", "done"}
    BY <1>13 DEF AddPacket, filterVars
  <2>2. capture' = Append(capture, p)
    BY <1>13 DEF AddPacket
  <2>3. capture' \in Seq(Packet)
    BY <1>1, <2>2, AppendProperties
  <2> QED
    BY <1>1, <2>1, <2>3 DEF SessionTypeOK
<1>14. CASE UNCHANGED panelVars
  BY <1>1, <1>14 DEF panelVars, filterVars, SessionTypeOK
<1> QED
  BY <1>4, <1>5, <1>6, <1>7, <1>8, <1>9, <1>10, <1>11, <1>12, <1>13, <1>14 DEF PanelNext

-----------------------------------------------------------------------------
(***************************************************************************)
(* The window                                                              *)
(***************************************************************************)
ViewTypeOK ==
  /\ packetNum \in Int /\ currentPacket \in Packet \cup {Nothing}
  /\ shown \in [num : Int \cup {Nothing}, info : Packet \cup {Nothing},
                payload : Packet \cup {Nothing}]
  /\ buttons \subseteq Buttons /\ stream \in Seq(Packet \X Nat) /\ steady \in BOOLEAN

\* There is a packet wherever a button is enabled, and a list wherever the view of
\* it is steady.
ButtonsInv == buttons # {} => currentPacket \in Packet

ViewInv == ViewTypeOK /\ ButtonsInv /\ FollowIsIP /\ SteadyView /\ (steady => List # NoList)

ViewerInv == PanelInv /\ SessionTypeOK /\ ViewInv

LEMMA InitViewer == Init => ViewerInv
<1> SUFFICES ASSUME Init PROVE ViewerInv
  OBVIOUS
<1>1. PanelInv /\ SessionTypeOK
  BY InitPanel, InitSession DEF Init
<1>2. /\ packetNum = 0 /\ currentPacket = Nothing /\ buttons = {} /\ stream = <<>> /\ steady = FALSE
      /\ shown = [num |-> Nothing, info |-> Nothing, payload |-> Nothing]
  BY DEF Init, ViewerInit
<1>3. stream \in Seq(Packet \X Nat)
  BY <1>2, EmptySeq
<1>4. ViewTypeOK
  <2>1. shown \in [num : Int \cup {Nothing}, info : Packet \cup {Nothing},
                  payload : Packet \cup {Nothing}]
    BY <1>2
  <2>2. steady \in BOOLEAN /\ buttons \subseteq Buttons
    BY <1>2
  <2>3. packetNum \in Int /\ currentPacket \in Packet \cup {Nothing}
    BY <1>2
  <2> QED
    BY <1>3, <2>1, <2>2, <2>3 DEF ViewTypeOK
<1> QED
  BY <1>1, <1>2, <1>4 DEF ViewerInv, ViewInv, ButtonsInv, FollowIsIP, SteadyView

LEMMA ListType == ASSUME SessionTypeOK, List # NoList PROVE List \in Seq(Packet)
BY DEF SessionTypeOK, List

LEMMA InListPacket ==
  ASSUME SessionTypeOK, List # NoList, NEW n \in Int, InList(n)
  PROVE  List[n + 1] \in Packet
<1>1. List \in Seq(Packet)
  BY ListType
<1>2. Len(List) \in Nat
  BY <1>1, LenProperties
<1>3. n + 1 \in 1..Len(List)
  BY <1>2 DEF InList
<1> QED
  BY <1>1, <1>3, ElementOfSeq

\* What showing a packet does: the number is its number, the text is its text or,
\* where it cannot be formatted, none.
LEMMA ShowCurrentStep ==
  ASSUME ViewTypeOK, NEW others \in SUBSET Buttons, ShowCurrent(others),
         packetNum' \in Int, currentPacket' \in Packet, FollowIsIP,
         "follow" \in others => others = buttons \/ others = Buttons
  PROVE  /\ shown' \in [num : Int \cup {Nothing}, info : Packet \cup {Nothing},
                        payload : Packet \cup {Nothing}]
         /\ buttons' \subseteq Buttons
         /\ "follow" \in buttons' => Class[currentPacket'] # "ARP"
         /\ shown'.num = packetNum' /\ shown'.info \in {currentPacket', Nothing}
         /\ Formattable(currentPacket') => shown'.payload = currentPacket'
<1>1. CASE Formattable(currentPacket')
  <2>1. shown' = [num |-> packetNum', info |-> currentPacket', payload |-> currentPacket']
    BY <1>1 DEF ShowCurrent
  <2>2. buttons' = FollowWhen(others)
    BY <1>1 DEF ShowCurrent
  <2>3. buttons' \subseteq Buttons
    BY <2>2 DEF FollowWhen, Buttons
  <2>4. "follow" \in buttons' => HasPorts(currentPacket')
    BY <2>2 DEF FollowWhen
  <2>5. HasPorts(currentPacket') => Class[currentPacket'] # "ARP"
    BY DEF HasPorts
  <2> QED
    BY <2>1, <2>3, <2>4, <2>5
<1>2. CASE ~Formattable(currentPacket')
  <2>1. shown' = [shown EXCEPT !.num = packetNum', !.info = Nothing] /\ buttons' = buttons
    BY <1>2 DEF ShowCurrent
  <2>2. shown \in [num : Int \cup {Nothing}, info : Packet \cup {Nothing},
                   payload : Packet \cup {Nothing}]
    BY DEF ViewTypeOK
  <2>3. shown' = [[shown EXCEPT !.num = packetNum'] EXCEPT !.info = Nothing]
    BY <2>1
  <2>4. [shown EXCEPT !.num = packetNum'] \in [num : Int \cup {Nothing}, info : Packet \cup {Nothing},
                                              payload : Packet \cup {Nothing}]
        /\ [shown EXCEPT !.num = packetNum'].num = packetNum'
    BY <2>2
  <2>5. /\ shown' \in [num : Int \cup {Nothing}, info : Packet \cup {Nothing},
                       payload : Packet \cup {Nothing}]
        /\ shown'.num = packetNum' /\ shown'.info = Nothing
    BY <2>3, <2>4
  <2>6. Class[currentPacket'] # "ARP"
    BY <1>2 DEF Formattable
  <2> QED
    BY <1>2, <2>1, <2>5, <2>6 DEF ViewTypeOK
<1> QED
  BY <1>1, <1>2

LEMMA FollowWhenStep ==
  ASSUME ViewTypeOK, ButtonsInv, UNCHANGED currentPacket, buttons' = FollowWhen(buttons)
  PROVE  /\ buttons' \subseteq Buttons /\ ButtonsInv' /\ FollowIsIP'
<1>1. CASE currentPacket # Nothing /\ HasPorts(currentPacket)
  <2>1. currentPacket' \in Packet /\ Class[currentPacket'] # "ARP" /\ currentPacket' # Nothing
    BY <1>1 DEF ViewTypeOK, HasPorts
  <2>2. buttons' \subseteq Buttons
    BY DEF FollowWhen, ViewTypeOK, Buttons
  <2> QED
    BY <2>1, <2>2 DEF ButtonsInv, FollowIsIP
<1>2. CASE ~(currentPacket # Nothing /\ HasPorts(currentPacket))
  <2>1. buttons' = buttons \ {"follow"}
    BY <1>2 DEF FollowWhen
  <2> QED
    BY <2>1 DEF ButtonsInv, FollowIsIP, ViewTypeOK
<1> QED
  BY <1>1, <1>2

LEMMA ViewPacketStep ==
  ASSUME ViewInv, SessionTypeOK, NEW n \in Int, ViewPacket(n), UNCHANGED <<filterVars, capture>>
  PROVE  ViewInv'
<1>1. List' = List
  BY DEF List, filterVars
<1>2. ViewTypeOK /\ ButtonsInv /\ FollowIsIP
  BY DEF ViewInv
<1>3. packetNum' = n /\ stream' = stream
  BY DEF ViewPacket
<1>4. CASE List # NoList /\ InList(n)
  <2>1. currentPacket' = List[n + 1] /\ steady' = TRUE
    BY <1>4 DEF ViewPacket
  <2>2. ShowCurrent(Buttons)
    BY <1>4 DEF ViewPacket
  <2>3. currentPacket' \in Packet /\ currentPacket' # Nothing
    BY <1>4, <2>1, InListPacket, ViewerAssumption
  <2>4. /\ shown' \in [num : Int \cup {Nothing}, info : Packet \cup {Nothing},
                       payload : Packet \cup {Nothing}]
        /\ buttons' \subseteq Buttons
        /\ "follow" \in buttons' => Class[currentPacket'] # "ARP"
        /\ shown'.num = packetNum' /\ shown'.info \in {currentPacket', Nothing}
        /\ Formattable(currentPacket') => shown'.payload = currentPacket'
    BY <1>2, <1>3, <2>2, <2>3, ShowCurrentStep
  <2>5. ViewTypeOK'
    BY <1>2, <1>3, <2>1, <2>3, <2>4 DEF ViewTypeOK
  <2>6. ButtonsInv' /\ FollowIsIP'
    BY <2>3, <2>4 DEF ButtonsInv, FollowIsIP
  <2>7. SteadyView'
    BY <1>1, <1>3, <1>4, <2>1, <2>4 DEF SteadyView, InList
  <2> QED
    BY <1>1, <1>4, <2>5, <2>6, <2>7 DEF ViewInv
<1>5. CASE ~(List # NoList /\ InList(n))
  <2>1. /\ UNCHANGED <<currentPacket, shown>> /\ steady' = FALSE
        /\ buttons' = buttons \/ buttons' = FollowWhen(buttons)
    BY <1>5 DEF ViewPacket
  <2>2. buttons' \subseteq Buttons /\ ButtonsInv' /\ FollowIsIP'
    <3>1. CASE buttons' = buttons
      BY <1>2, <2>1, <3>1 DEF ViewTypeOK, ButtonsInv, FollowIsIP
    <3>2. CASE buttons' = FollowWhen(buttons)
      BY <1>2, <2>1, <3>2, FollowWhenStep
    <3> QED
      BY <2>1, <3>1, <3>2
  <2>3. ViewTypeOK'
    BY <1>2, <1>3, <2>1, <2>2 DEF ViewTypeOK
  <2> QED
    BY <2>1, <2>2, <2>3 DEF ViewInv, SteadyView
<1> QED
  BY <1>4, <1>5

LEMMA ViewNothingStep ==
  ASSUME ViewInv, ViewNothing, UNCHANGED <<filterVars, capture>> PROVE ViewInv'
<1>1. List' = List
  BY DEF List, filterVars
<1>2. /\ UNCHANGED <<packetNum, currentPacket, shown, stream, steady>>
      /\ buttons' = FollowWhen(buttons)
  BY DEF ViewNothing
<1>3. buttons' \subseteq Buttons /\ ButtonsInv' /\ FollowIsIP'
  BY <1>2, FollowWhenStep DEF ViewInv
<1>4. ViewTypeOK'
  BY <1>2, <1>3 DEF ViewInv, ViewTypeOK
<1>5. SteadyView' /\ (steady' => List' # NoList)
  BY <1>1, <1>2 DEF ViewInv, SteadyView, InList
<1> QED
  BY <1>3, <1>4, <1>5 DEF ViewInv

\* Next and Previous, once they have chosen a number: the packet that has it is
\* shown, or the old one again.
LEMMA MoveStep ==
  ASSUME ViewInv, SessionTypeOK, UNCHANGED <<filterVars, capture>>, buttons # {},
         stream' = <<>>, steady' = steady, packetNum' \in Int, ShowCurrent(buttons),
         \/ currentPacket' = currentPacket
         \/ List # NoList /\ InList(packetNum') /\ currentPacket' = List[packetNum' + 1],
         steady => InList(packetNum') /\ currentPacket' = List[packetNum' + 1]
  PROVE  ViewInv'
<1>1. List' = List
  BY DEF List, filterVars
<1>2. ViewTypeOK /\ ButtonsInv /\ FollowIsIP /\ (steady => List # NoList)
  BY DEF ViewInv
<1>3. currentPacket' \in Packet /\ currentPacket' # Nothing
  BY <1>2, InListPacket, ViewerAssumption DEF ButtonsInv
<1>4. buttons \in SUBSET Buttons
  BY <1>2 DEF ViewTypeOK
<1>5. /\ shown' \in [num : Int \cup {Nothing}, info : Packet \cup {Nothing},
                     payload : Packet \cup {Nothing}]
      /\ buttons' \subseteq Buttons
      /\ "follow" \in buttons' => Class[currentPacket'] # "ARP"
      /\ shown'.num = packetNum' /\ shown'.info \in {currentPacket', Nothing}
      /\ Formattable(currentPacket') => shown'.payload = currentPacket'
  BY <1>2, <1>3, <1>4, ShowCurrentStep
<1>6. stream' \in Seq(Packet \X Nat)
  BY EmptySeq
<1>7. ViewTypeOK'
  BY <1>2, <1>3, <1>5, <1>6 DEF ViewTypeOK
<1>8. ButtonsInv' /\ FollowIsIP'
  BY <1>3, <1>5 DEF ButtonsInv, FollowIsIP
<1>9. SteadyView' /\ (steady' => List' # NoList)
  BY <1>1, <1>2, <1>5 DEF SteadyView, InList
<1> QED
  BY <1>7, <1>8, <1>9 DEF ViewInv

\* Where nothing is shown that was not.
LEMMA StayStep ==
  ASSUME ViewInv, UNCHANGED <<filterVars, capture>>, stream' \in Seq(Packet \X Nat),
         UNCHANGED <<currentPacket, shown, buttons, steady>>, packetNum' \in Int,
         steady => packetNum' = packetNum
  PROVE  ViewInv'
<1>1. List' = List
  BY DEF List, filterVars
<1>2. ViewTypeOK'
  BY DEF ViewInv, ViewTypeOK
<1>3. ButtonsInv' /\ FollowIsIP'
  BY DEF ViewInv, ButtonsInv, FollowIsIP
<1>4. SteadyView' /\ (steady' => List' # NoList)
  BY <1>1 DEF ViewInv, SteadyView, InList
<1> QED
  BY <1>2, <1>3, <1>4 DEF ViewInv

LEMMA NextPacketStep ==
  ASSUME ViewInv, SessionTypeOK, NextPacket, UNCHANGED <<filterVars, capture>> PROVE ViewInv'
<1>1. stream' = <<>> /\ steady' = steady /\ buttons # {}
  BY DEF NextPacket
<1>2. packetNum \in Int /\ (steady => List # NoList)
  BY DEF ViewInv, ViewTypeOK
<1>3. <<>> \in Seq(Packet)
  BY EmptySeq
<1>4. CASE List = NoList
  <2>1. UNCHANGED <<packetNum, currentPacket, shown, buttons>>
    BY <1>4 DEF NextPacket
  <2> QED
    BY <1>1, <1>2, <1>3, <2>1, StayStep
<1>5. CASE List # NoList
  <2>1. Len(List) \in Nat
    BY <1>5, ListType, LenProperties
  <2>2. packetNum' = NextNumber
    BY <1>5 DEF NextPacket
  <2>3. packetNum' \in Int /\ (InList(packetNum) => InList(packetNum'))
    BY <1>2, <2>1, <2>2 DEF NextNumber, InList
  <2>4. CASE InList(packetNum')
    <3>1. currentPacket' = List[packetNum' + 1]
      BY <1>5, <2>4 DEF NextPacket
    <3>2. ShowCurrent(buttons)
      BY <1>5, <2>4 DEF NextPacket
    <3> QED
      BY <1>1, <1>5, <2>3, <2>4, <3>1, <3>2, MoveStep
  <2>5. CASE ~InList(packetNum')
    <3>1. UNCHANGED <<currentPacket, shown, buttons>>
      BY <1>5, <2>5 DEF NextPacket
    <3>2. ~steady
      BY <2>3, <2>5 DEF ViewInv, SteadyView
    <3> QED
      BY <1>1, <1>3, <2>3, <3>1, <3>2, StayStep
  <2> QED
    BY <2>4, <2>5
<1> QED
  BY <1>4, <1>5

LEMMA PreviousPacketStep ==
  ASSUME ViewInv, SessionTypeOK, PreviousPacket, UNCHANGED <<filterVars, capture>> PROVE ViewInv'
<1>1. stream' = <<>> /\ steady' = steady /\ buttons # {}
  BY DEF PreviousPacket
<1>2. packetNum \in Int /\ (steady => List # NoList)
  BY DEF ViewInv, ViewTypeOK
<1>3. steady => InList(packetNum) /\ currentPacket = List[packetNum + 1]
  BY DEF ViewInv, SteadyView
<1>4. CASE packetNum - 1 >= 0
  <2>1. /\ packetNum' = packetNum - 1
        /\ currentPacket' = IF List # NoList /\ InList(packetNum')
                            THEN List[packetNum' + 1] ELSE currentPacket
    BY <1>4 DEF PreviousPacket
  <2>2. packetNum' \in Int
    BY <1>2, <2>1
  <2>3. CASE List = NoList
    <3>1. UNCHANGED <<shown, buttons>>
      BY <1>4, <2>3 DEF PreviousPacket
    <3>2. currentPacket' = currentPacket /\ ~steady
      BY <1>2, <2>1, <2>3
    <3>3. <<>> \in Seq(Packet)
      BY EmptySeq
    <3> QED
      BY <1>1, <2>2, <3>1, <3>2, <3>3, StayStep
  <2>4. CASE List # NoList
    <3>1. ShowCurrent(buttons)
      BY <1>4, <2>4 DEF PreviousPacket
    <3>2. Len(List) \in Nat
      BY <2>4, ListType, LenProperties
    <3>3. steady => InList(packetNum')
      BY <1>2, <1>3, <1>4, <2>1, <3>2 DEF InList
    <3> QED
      <4>1. \/ currentPacket' = currentPacket
            \/ List # NoList /\ InList(packetNum') /\ currentPacket' = List[packetNum' + 1]
        BY <2>1
      <4>2. steady => InList(packetNum') /\ currentPacket' = List[packetNum' + 1]
        BY <2>1, <2>4, <3>3
      <4> QED
        BY <1>1, <2>2, <3>1, <4>1, <4>2, MoveStep
  <2> QED
    BY <2>3, <2>4
<1>5. CASE ~(packetNum - 1 >= 0)
  <2>1. UNCHANGED <<packetNum, currentPacket>>
    BY <1>5 DEF PreviousPacket
  <2>2. ShowCurrent(buttons)
    BY <1>5 DEF PreviousPacket
  <2> QED
    <3>1. packetNum' \in Int /\ currentPacket' = currentPacket
      BY <1>2, <2>1
    <3>2. steady => InList(packetNum') /\ currentPacket' = List[packetNum' + 1]
      BY <1>3, <2>1
    <3> QED
      BY <1>1, <2>2, <3>1, <3>2, MoveStep
<1> QED
  BY <1>4, <1>5

LEMMA FollowStreamStep ==
  ASSUME ViewInv, SessionTypeOK, FollowStream, UNCHANGED <<filterVars, capture>> PROVE ViewInv'
<1>1. /\ UNCHANGED <<packetNum, currentPacket, shown, buttons, steady>>
      /\ stream' = IF List = NoList THEN <<>>
                   ELSE Text(Kept(List, {p \in Packet : InStream(currentPacket, p)}))
  BY DEF FollowStream
<1>2. <<>> \in Seq(Packet \X Nat)
  BY EmptySeq
<1>3. List # NoList =>
        Text(Kept(List, {p \in Packet : InStream(currentPacket, p)})) \in Seq(Packet \X Nat)
  BY ListType, KeptType, TextOccurrences
<1>4. stream' \in Seq(Packet \X Nat)
  BY <1>1, <1>2, <1>3
<1>5. packetNum' \in Int /\ packetNum' = packetNum
  BY <1>1 DEF ViewInv, ViewTypeOK
<1> QED
  BY <1>1, <1>4, <1>5, StayStep

\* Behind the back of the window: as long as the list only grows, the packet with
\* the number is the one it was.
LEMMA PanelStep ==
  ASSUME ViewInv, SessionTypeOK, SessionTypeOK', steady' = (steady /\ ListGrows),
         UNCHANGED <<packetNum, currentPacket, shown, buttons, stream>>
  PROVE  ViewInv'
<1>1. ViewTypeOK'
  BY DEF ViewInv, ViewTypeOK
<1>2. ButtonsInv' /\ FollowIsIP'
  BY DEF ViewInv, ButtonsInv, FollowIsIP
<1>3. ASSUME steady'
      PROVE  List' # NoList /\ InList(packetNum)' /\ List'[packetNum + 1] = List[packetNum + 1]
  <2>1. steady /\ ListGrows
    BY <1>3
  <2>2. List # NoList /\ List' # NoList /\ Len(List) <= Len(List')
        /\ SubSeq(List', 1, Len(List)) = List
    BY <2>1 DEF ListGrows
  <2>3. List \in Seq(Packet) /\ Len(List) \in Nat
    BY <2>2, ListType, LenProperties
  <2>4. List' \in Seq(Packet)
    BY <2>2 DEF SessionTypeOK, List
  <2>5. Len(List') \in Nat
    BY <2>4, LenProperties
  <2>6. packetNum \in Int /\ packetNum >= 0 /\ packetNum < Len(List)
    BY <2>1 DEF ViewInv, ViewTypeOK, SteadyView, InList
  <2>7. \A k \in 1..Len(List) : k \in 1..Len(List')
    BY <2>2, <2>3, <2>5
  <2>8. \A k \in 1..Len(List) : List'[k] \in Packet
    BY <2>4, <2>7, ElementOfSeq
  <2>9. 1 \in Int /\ Len(List) \in Int
    BY <2>3
  <2>10. \A k \in 1..(Len(List) - 1 + 1) : SubSeq(List', 1, Len(List))[k] = List'[1 + k - 1]
    BY <2>8, <2>9, SubSeqProperties
  <2>11. packetNum + 1 \in 1..(Len(List) - 1 + 1) /\ 1 + (packetNum + 1) - 1 = packetNum + 1
    BY <2>3, <2>6
  <2>12. List'[packetNum + 1] = List[packetNum + 1]
    BY <2>2, <2>10, <2>11
  <2>13. InList(packetNum)'
    BY <2>2, <2>3, <2>5, <2>6 DEF InList
  <2> QED
    BY <2>2, <2>12, <2>13
<1>4. SteadyView' /\ (steady' => List' # NoList)
  <2>1. ASSUME steady' PROVE steady
    BY <2>1
  <2> QED
    BY <1>3, <2>1 DEF ViewInv, SteadyView
<1> QED
  BY <1>1, <1>2, <1>4 DEF ViewInv

LEMMA NextViewer == ASSUME ViewerInv, [Next]_allVars PROVE ViewerInv'
<1>1. PanelInv /\ SessionTypeOK /\ ViewInv
  BY DEF ViewerInv
<1>2. CASE /\ PanelNext
           /\ steady' = (steady /\ ListGrows)
           /\ UNCHANGED <<packetNum, currentPacket, shown, buttons, stream>>
  <2>1. PanelInv' /\ SessionTypeOK'
    BY <1>1, <1>2, NextPanel, NextSession
  <2> QED
    BY <1>1, <1>2, <2>1, PanelStep DEF ViewerInv
<1>3. CASE /\ \/ \E n \in Number : ViewPacket(n)
              \/ ViewNothing \/ NextPacket \/ PreviousPacket \/ FollowStream
           /\ UNCHANGED <<formVars, disabled, filterVars, capture, reader>>
  <2>1. PanelInv'
    BY <1>1, <1>3 DEF PanelInv, FormTypeOK, FilterExclusive, ClearedIsClear, formVars, filterVars
  <2>2. Click
    BY <1>3 DEF ViewPacket, ViewNothing, NextPacket, PreviousPacket, FollowStream
  <2>3. SessionTypeOK'
    <3>1. clicks' \in 0..MaxClicks
      BY <1>1, <2>2, ClickType
    <3> QED
      BY <1>1, <1>3, <3>1 DEF SessionTypeOK, filterVars
  <2>4. ViewInv'
    <3>1. UNCHANGED <<filterVars, capture>>
      BY <1>3
    <3>2. CASE \E n \in Number : ViewPacket(n)
      <4>1. PICK n \in Number : ViewPacket(n)
        BY <3>2
      <4>2. n \in Int
        BY ViewerAssumption
      <4> QED
        BY <1>1, <3>1, <4>1, <4>2, ViewPacketStep
    <3> QED
      BY <1>1, <1>3, <3>1, <3>2, ViewNothingStep, NextPacketStep, PreviousPacketStep,
         FollowStreamStep
  <2> QED
    BY <2>1, <2>3, <2>4 DEF ViewerInv
<1>4. CASE UNCHANGED allVars
  <2>1. UNCHANGED panelVars /\ UNCHANGED viewerVars
    BY <1>4 DEF allVars
  <2>2. PanelInv' /\ SessionTypeOK'
    BY <1>1, <2>1, NextPanel, NextSession
  <2>3. UNCHANGED <<packetNum, currentPacket, shown, buttons, stream, steady>>
    BY <2>1 DEF viewerVars
  <2>4. UNCHANGED <<filterVars, capture>>
    BY <2>1 DEF panelVars
  <2>5. packetNum' \in Int /\ stream' \in Seq(Packet \X Nat)
    BY <1>1, <2>3 DEF ViewInv, ViewTypeOK
  <2>6. ViewInv'
    BY <1>1, <2>3, <2>4, <2>5, StayStep
  <2> QED
    BY <2>2, <2>6 DEF ViewerInv
<1> QED
  BY <1>2, <1>3, <1>4 DEF Next

-----------------------------------------------------------------------------
(***************************************************************************)
(* What the form and the window promise                                    *)
(***************************************************************************)
THEOREM ViewerInvariant == Spec => []ViewerInv
<1> QED
  BY InitViewer, NextViewer, PTL DEF Spec

\* The types of the form, the filter, the lists and the window.
THEOREM ViewerTypes == Spec => []TypeOK
<1>1. ViewerInv => TypeOK
  BY PanelTypes DEF ViewerInv, PanelInv, ViewInv, ViewTypeOK, TypeOK
<1> QED
  BY <1>1, ViewerInvariant, PTL

\* For any packets, addresses and texts the filter never asks for two protocols
\* or for both ends (the check boxes' handlers, setProtocolFilters).
THEOREM FilterExclusiveHolds == Spec => []FilterExclusive
<1>1. ViewerInv => FilterExclusive
  BY DEF ViewerInv, PanelInv
<1> QED
  BY <1>1, ViewerInvariant, PTL

\* For any packets, addresses and texts nothing of a cleared filter is left
\* (clearFilters).
THEOREM ClearedIsClearHolds == Spec => []ClearedIsClear
<1>1. ViewerInv => ClearedIsClear
  BY DEF ViewerInv, PanelInv
<1> QED
  BY <1>1, ViewerInvariant, PTL

\* For any list that grows and any numbers typed, the window shows the packet that
\* it says it shows (handleViewPacket, handleNextPacket, handlePreviousPacket).
THEOREM SteadyViewHolds == Spec => []SteadyView
<1>1. ViewerInv => SteadyView
  BY DEF ViewerInv, ViewInv
<1> QED
  BY <1>1, ViewerInvariant, PTL

\* Whatever was shown before, Follow Stream is never enabled on an ARP packet
\* (disableIfARP).
THEOREM FollowIsIPHolds == Spec => []FollowIsIP
<1>1. ViewerInv => FollowIsIP
  BY DEF ViewerInv, ViewInv
<1> QED
  BY <1>1, ViewerInvariant, PTL

\* The filter that Apply makes of the form where no other was left over.
LEMMA AppliedFilter ==
  ASSUME PanelInv, InstallFilters, filter = NoFilter
  PROVE  /\ filter'.protocols = boxes
         /\ filter'.ip = IF ipText \in Address THEN ipText ELSE NoAddress
         /\ filter'.port = IF portText = Empty THEN -1 ELSE portText
         /\ filter'.ends = IF ipText \in Address \/ portText # Empty THEN ends ELSE {}
         /\ portText # Empty => portText \in Int
<1> DEFINE f == WithIP(filter)
           g == WithPort(f)
<1>1. f \in Filter /\ g \in Filter
  BY WithIPType, WithPortType DEF InstallFilters
<1>2. /\ f.ip = IF ipText \in Address THEN ipText ELSE NoAddress
      /\ f.port = -1 /\ f.ends = IF ipText \in Address THEN ends ELSE {}
  BY DEF WithIP, NoFilter
<1>3. /\ g.ip = f.ip /\ g.port = IF portText = Empty THEN -1 ELSE portText
      /\ g.ends = IF portText = Empty THEN f.ends ELSE ends
  BY <1>1, <1>2 DEF WithPort, Filter
<1> HIDE DEF f, g
<1>4. filter' = [g EXCEPT !.protocols = boxes]
  BY DEF InstallFilters, f, g
<1>5. /\ filter'.protocols = boxes /\ filter'.ip = g.ip /\ filter'.port = g.port
      /\ filter'.ends = g.ends
  BY <1>1, <1>4 DEF Filter
<1>6. portText # Empty => portText \in Int
  BY PanelAssumption DEF PanelInv, FormTypeOK, InstallFilters
<1> QED
  BY <1>2, <1>3, <1>5, <1>6

LEMMA ProtocolWanted ==
  ASSUME NEW f, NEW p \in Packet, f.protocols \subseteq Protocols
  PROVE  LET kin == [q \in Protocols |-> IF q = "ICMP" THEN {"ICMP", "IGMP", "ICMPv6"} ELSE {q}]
         IN  FilterProtocolCheck(f, p) <=>
               \E q \in f.protocols : IF Class[p] = "ARP" THEN q = "ARP" ELSE Protocol[p] \in kin[q]
<1> DEFINE kin == [q \in Protocols |-> IF q = "ICMP" THEN {"ICMP", "IGMP", "ICMPv6"} ELSE {q}]
<1>1. /\ kin["TCP"] = {"TCP"} /\ kin["UDP"] = {"UDP"} /\ kin["ARP"] = {"ARP"}
      /\ kin["ICMP"] = {"ICMP", "IGMP", "ICMPv6"}
  BY DEF Protocols
<1>2. \A q \in f.protocols : q \in {"TCP", "UDP", "ICMP", "ARP"}
  BY DEF Protocols
<1>3. Protocol[p] # "ARP"
  <2>1. Protocol \in [Packet -> IPProtocols]
    BY FilterAssumption
  <2> QED
    BY <2>1 DEF IPProtocols
<1> SUFFICES FilterProtocolCheck(f, p) <=>
               \E q \in f.protocols : IF Class[p] = "ARP" THEN q = "ARP" ELSE Protocol[p] \in kin[q]
  OBVIOUS
<1> HIDE DEF kin
<1>4. CASE Class[p] = "ARP"
  BY <1>2, <1>4 DEF FilterProtocolCheck
<1>5. CASE Class[p] # "ARP"
  <2>1. ASSUME NEW q \in f.protocols, Protocol[p] \in kin[q] PROVE FilterProtocolCheck(f, p)
    BY <1>1, <1>2, <1>3, <1>5, <2>1 DEF FilterProtocolCheck
  <2>2. ASSUME FilterProtocolCheck(f, p) PROVE \E q \in f.protocols : Protocol[p] \in kin[q]
    BY <1>1, <1>5, <2>2 DEF FilterProtocolCheck
  <2>3. FilterProtocolCheck(f, p) <=> \E q \in f.protocols : Protocol[p] \in kin[q]
    <3>1. FilterProtocolCheck(f, p) \in BOOLEAN
      BY DEF FilterProtocolCheck
    <3> QED
      BY <2>1, <2>2, <3>1
  <2> QED
    BY <1>5, <2>3
<1> QED
  BY <1>4, <1>5

\* The check of the ends, for one end that is chosen, or for both.
LEMMA EndsWanted ==
  ASSUME NEW f, NEW p \in Packet, f.ends \subseteq Ends, \A d, e \in f.ends : d = e,
         HasPorts(p)
  PROVE  LET chosen == IF f.ends = {} THEN Ends ELSE f.ends
             at == [e \in Ends |-> IF e = "source" THEN <<SrcIP[p], SrcPort[p]>>
                                   ELSE <<DstIP[p], DstPort[p]>>]
         IN  FilterIPCheck(f, p) <=>
               /\ f.ip # NoAddress => \E e \in chosen : at[e][1] = f.ip
               /\ f.port > 0 => \E e \in chosen : at[e][2] = f.port
<1> DEFINE chosen == IF f.ends = {} THEN Ends ELSE f.ends
           at == [e \in Ends |-> IF e = "source" THEN <<SrcIP[p], SrcPort[p]>>
                                 ELSE <<DstIP[p], DstPort[p]>>]
<1>1. /\ at["source"] = <<SrcIP[p], SrcPort[p]>> /\ at["destination"] = <<DstIP[p], DstPort[p]>>
      /\ Ends = {"source", "destination"}
  BY DEF Ends
<1>2. /\ at["source"][1] = SrcIP[p] /\ at["source"][2] = SrcPort[p]
      /\ at["destination"][1] = DstIP[p] /\ at["destination"][2] = DstPort[p]
  BY <1>1
<1> HIDE DEF at
<1>3. f.ends = {} \/ f.ends = {"source"} \/ f.ends = {"destination"}
  BY <1>1
<1>4. CASE f.ends = {}
  BY <1>1, <1>2, <1>4 DEF FilterIPCheck, EndFits
<1>5. CASE f.ends = {"source"}
  BY <1>2, <1>5 DEF FilterIPCheck, EndFits
<1>6. CASE f.ends = {"destination"}
  BY <1>2, <1>6 DEF FilterIPCheck, EndFits
<1> QED
  BY <1>3, <1>4, <1>5, <1>6 DEF at

\* It passes the packets that the form asks for.
LEMMA PassesWanted ==
  ASSUME PanelInv, InstallFilters, filter = NoFilter, NEW p \in Packet
  PROVE  Passes(filter', p) <=> Wanted(p)
<1> DEFINE f == filter'
           chosen == IF ends = {} THEN Ends ELSE ends
           at == [e \in Ends |-> IF e = "source" THEN <<SrcIP[p], SrcPort[p]>>
                                 ELSE <<DstIP[p], DstPort[p]>>]
           kin == [q \in Protocols |-> IF q = "ICMP" THEN {"ICMP", "IGMP", "ICMPv6"} ELSE {q}]
           AsksProtocol ==
             \E q \in boxes : IF Class[p] = "ARP" THEN q = "ARP" ELSE Protocol[p] \in kin[q]
           AsksEnds ==
             /\ ipText \in Address => \E e \in chosen : at[e][1] = ipText
             /\ portText \in Int /\ portText > 0 => \E e \in chosen : at[e][2] = portText
<1>1. /\ f.protocols = boxes
      /\ f.ip = IF ipText \in Address THEN ipText ELSE NoAddress
      /\ f.port = IF portText = Empty THEN -1 ELSE portText
      /\ f.ends = IF ipText \in Address \/ portText # Empty THEN ends ELSE {}
      /\ portText # Empty => portText \in Int
  BY AppliedFilter
<1>2. boxes \subseteq Protocols /\ ends \subseteq Ends /\ \A d, e \in ends : d = e
  BY DEF PanelInv, FormTypeOK, FilterExclusive
<1>3. NoAddress \notin Address /\ Empty \notin Int
  <2>1. NoAddress \notin Address
    BY FilterAssumption
  <2> QED
    BY <2>1, PanelAssumption
<1>4. FilterProtocolCheck(f, p) <=> AsksProtocol
  BY <1>1, <1>2, ProtocolWanted
<1>5. NamesEnd(f) <=> ~(ipText \notin Address /\ (portText = Empty \/ portText <= 0))
  BY <1>1, <1>3 DEF NamesEnd
<1>6. NamesEnd(f) => f.ends = ends
  BY <1>1, <1>3 DEF NamesEnd
<1>7. ASSUME NamesEnd(f) PROVE FilterIPCheck(f, p) <=> HasPorts(p) /\ AsksEnds
  <2>1. f.ends = ends /\ f.ends \subseteq Ends /\ \A d, e \in f.ends : d = e
    BY <1>2, <1>6, <1>7
  <2>2. CASE HasPorts(p)
    <3>1. FilterIPCheck(f, p) <=>
            /\ f.ip # NoAddress => \E e \in chosen : at[e][1] = f.ip
            /\ f.port > 0 => \E e \in chosen : at[e][2] = f.port
      BY <2>1, <2>2, EndsWanted
    <3> HIDE DEF at, chosen
    <3>2. /\ f.ip # NoAddress <=> ipText \in Address
          /\ ipText \in Address => f.ip = ipText
      BY <1>1, <1>3
    <3>3. /\ f.port > 0 <=> portText \in Int /\ portText > 0
          /\ portText \in Int => f.port = portText
      BY <1>1, <1>3
    <3> QED
      BY <2>2, <3>1, <3>2, <3>3
  <2>3. CASE ~HasPorts(p)
    BY <2>3 DEF FilterIPCheck
  <2> QED
    BY <2>2, <2>3
<1>8. Wanted(p) <=>
        /\ boxes # {} => AsksProtocol
        /\ \/ Class[p] = "ARP"
           \/ ipText \notin Address /\ (portText = Empty \/ portText <= 0)
           \/ HasPorts(p) /\ AsksEnds
  BY DEF Wanted
<1>9. Passes(f, p) <=> /\ boxes # {} => FilterProtocolCheck(f, p)
                       /\ NamesEnd(f) /\ Class[p] # "ARP" => FilterIPCheck(f, p)
  BY <1>1 DEF Passes
<1>10. CASE Class[p] = "ARP"
  BY <1>4, <1>8, <1>9, <1>10
<1>11. CASE Class[p] # "ARP" /\ NamesEnd(f)
  BY <1>4, <1>5, <1>7, <1>8, <1>9, <1>11
<1>12. CASE Class[p] # "ARP" /\ ~NamesEnd(f)
  BY <1>4, <1>5, <1>8, <1>9, <1>12
<1> QED
  BY <1>10, <1>11, <1>12

\* For any capture and any form, Apply finds the packets the form asks for, where no
\* filter was left over (handleApplyProtocolFilters, populateFilteredPackets).
THEOREM AppliesWantedHolds == Spec => AppliesWanted
<1>1. ASSUME ViewerInv, ApplyFilters, InstallFilters, filter = NoFilter
      PROVE  filtered' = Kept(capture, {p \in Packet : Wanted(p)})
  <2>1. \A p \in Packet : Passes(filter', p) <=> Wanted(p)
    BY <1>1, PassesWanted DEF ViewerInv
  <2>2. {p \in Packet : Passes(filter', p)} = {p \in Packet : Wanted(p)}
    BY <2>1
  <2> QED
    BY <1>1, <2>2 DEF InstallFilters, FilteredPackets
<1>2. ViewerInv => [ApplyFilters /\ InstallFilters /\ filter = NoFilter
                      => filtered' = Kept(capture, {p \in Packet : Wanted(p)})]_panelVars
  BY <1>1
<1> QED
  BY <1>2, ViewerInvariant, PTL DEF AppliesWanted

\* A packet of the direction of the one in view passes all of the checks.
LEMMA DirectionInStream ==
  ASSUME NEW c \in Packet, NEW p \in Packet, SameDirection(c, p)
  PROVE  InStream(c, p)
<1>1. HasPorts(c) /\ HasPorts(p) /\ Class[p] = Class[c]
  BY DEF SameDirection, HasPorts
<1>2. Protocol[p] = Class[p] /\ Protocol[c] = Class[c]
  <2>1. \A q \in Packet : Class[q] \in {"TCP", "UDP", "ICMP"} => Protocol[q] = Class[q]
    BY FilterAssumption
  <2> QED
    BY <1>1, <2>1 DEF HasPorts
<1> QED
  BY <1>1, <1>2 DEF SameDirection, InStream, SamePort

\* For any list and any payloads, the stream has each character of the packets of its
\* direction, but for their last octets, as often as the list has the packet
\* (handleFollowStream).
THEOREM StreamKeepsDirectionHolds == Spec => StreamKeepsDirection
<1>1. ASSUME ViewerInv, FollowStream, List # NoList, NEW p \in Packet, SameDirection(currentPacket, p),
             NEW j \in 1..(Len(Data[p]) - 1), IsText(Data[p][j])
      PROVE  Occurrences(stream', <<p, j>>) = Occurrences(List, p)
  <2> DEFINE K == {q \in Packet : InStream(currentPacket, q)}
  <2>1. stream' = Text(Kept(List, K))
    BY <1>1 DEF FollowStream
  <2>2. currentPacket \in Packet
    BY <1>1 DEF ViewerInv, ViewInv, ButtonsInv, FollowStream
  <2>3. p \in K
    BY <1>1, <2>2, DirectionInStream
  <2>4. List \in Seq(Packet)
    BY <1>1, ListType DEF ViewerInv
  <2> HIDE DEF K
  <2>5. Kept(List, K) \in Seq(Packet) /\ Occurrences(Kept(List, K), p) = Occurrences(List, p)
    BY <2>3, <2>4, KeptType, KeptOccurrences
  <2> QED
    BY <1>1, <2>1, <2>5, TextOccurrences
<1>2. ViewerInv => [FollowStream /\ List # NoList =>
                      \A p \in Packet : SameDirection(currentPacket, p) =>
                        \A j \in 1..(Len(Data[p]) - 1) : IsText(Data[p][j]) =>
                          Occurrences(stream', <<p, j>>) = Occurrences(List, p)]_allVars
  BY <1>1
<1> QED
  BY <1>2, ViewerInvariant, PTL DEF StreamKeepsDirection
=============================================================================
