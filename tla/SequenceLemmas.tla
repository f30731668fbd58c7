--------------------------- MODULE SequenceLemmas ---------------------------
(***************************************************************************)
(* Facts about sets of numbers and about sequences, FlattenSeq above all,  *)
(* that the proofs about several components need.                          *)
(***************************************************************************)
EXTENDS SequencesExt, SequenceTheorems, WellFoundedInduction, TLAPS

(***************************************************************************)
(* Sets of numbers.                                                        *)
(***************************************************************************)
LEMMA LeastExists ==
  ASSUME NEW N \in SUBSET Nat, N # {}
  PROVE  \E m \in N : \A k \in N : m <= k
  <1>1. PICK m \in N : \A k \in N : ~ (<<k, m>> \in OpToRel(<, Nat))
    BY ONLY WFMin, NatLessThanWellFounded, N \in SUBSET Nat, N # {}
  <1>2. \A k \in N : k \in Nat /\ ~ (k < m)
    BY <1>1 DEF OpToRel
  <1>3. m \in Nat
    BY <1>1
  <1>4. \A k \in N : m <= k
    BY ONLY <1>2, <1>3
  <1> QED
    BY <1>1, <1>4

LEMMA MinFacts ==
  ASSUME NEW N \in SUBSET Nat, N # {}
  PROVE  Min(N) \in N /\ \A k \in N : Min(N) <= k
  <1>1. \E m \in N : \A k \in N : m =< k
    BY LeastExists
  <1> QED
    BY ONLY <1>1 DEF Min

LEMMA MinOfTwo ==
  ASSUME NEW m \in Nat, NEW n \in Nat
  PROVE  Min({m, n}) = IF m <= n THEN m ELSE n
  <1>1. Min({m, n}) \in {m, n} /\ \A k \in {m, n} : Min({m, n}) <= k
    BY MinFacts
  <1> QED
    BY ONLY <1>1, m \in Nat, n \in Nat

LEMMA MaxFacts ==
  ASSUME NEW n \in Nat, NEW N \in SUBSET (0 .. n), N # {}
  PROVE  Max(N) \in N /\ \A k \in N : k <= Max(N)
  <1> DEFINE M == {n - k : k \in N}
  <1>1. M \in SUBSET Nat /\ M # {}
    <2>1. \A k \in N : n - k \in Nat
      BY ONLY N \in SUBSET (0 .. n), n \in Nat
    <2> QED
      BY ONLY <2>1, N # {}
  <1>2. PICK m \in M : \A k \in M : m <= k
    BY ONLY <1>1, LeastExists
  <1>3. PICK x \in N : m = n - x
    BY <1>2
  <1>4. \A k \in N : x >= k
    <2> TAKE k \in N
    <2>1. n - k \in M
      OBVIOUS
    <2>2. m <= n - k
      BY <1>2, <2>1
    <2> QED
      BY ONLY <2>2, <1>3, N \in SUBSET (0 .. n), n \in Nat, k \in N, x \in N
  <1>5. /\ \E y \in N : \A k \in N : y >= k
    BY <1>4
  <1>6. Max(N) \in N /\ \A k \in N : Max(N) >= k
    BY ONLY <1>5 DEF Max
  <1> QED
    BY <1>6

(***************************************************************************)
(* Sequences.                                                              *)
(***************************************************************************)
LEMMA SubSeqFacts ==
  ASSUME NEW T, NEW s \in Seq(T), NEW a \in Nat \ {0}, NEW b \in Nat,
         b <= Len(s)
  PROVE  /\ SubSeq(s, a, b) \in Seq(T)
         /\ Len(SubSeq(s, a, b)) = IF a <= b THEN b - a + 1 ELSE 0
         /\ \A i \in 1 .. Len(SubSeq(s, a, b)) :
              SubSeq(s, a, b)[i] = s[a + i - 1]
  OBVIOUS

LEMMA ConcatFacts ==
  ASSUME NEW T, NEW s \in Seq(T), NEW t \in Seq(T)
  PROVE  /\ s \o t \in Seq(T)
         /\ Len(s \o t) = Len(s) + Len(t)
         /\ \A i \in 1 .. Len(s) : (s \o t)[i] = s[i]
         /\ \A i \in 1 .. Len(t) : (s \o t)[Len(s) + i] = t[i]
  OBVIOUS

LEMMA AppendFacts ==
  ASSUME NEW T, NEW s \in Seq(T), NEW e \in T
  PROVE  /\ Append(s, e) \in Seq(T)
         /\ Len(Append(s, e)) = Len(s) + 1
         /\ \A i \in 1 .. Len(s) : Append(s, e)[i] = s[i]
         /\ Append(s, e)[Len(s) + 1] = e
  OBVIOUS

LEMMA HeadTailFacts ==
  ASSUME NEW T, NEW s \in Seq(T), s # << >>
  PROVE  /\ Head(s) = s[1] /\ Head(s) \in T
         /\ Tail(s) \in Seq(T) /\ Len(Tail(s)) = Len(s) - 1 /\ Len(s) \in Nat \ {0}
         /\ \A i \in 1 .. Len(Tail(s)) : Tail(s)[i] = s[i + 1]
  OBVIOUS

LEMMA RemoveFacts ==
  ASSUME NEW T, NEW s \in Seq(T), NEW i \in 1 .. Len(s)
  PROVE  RemoveAt(s, i) \in Seq(T) /\ Len(RemoveAt(s, i)) = Len(s) - 1
  <1>1. SubSeq(s, 1, i - 1) \in Seq(T) /\ Len(SubSeq(s, 1, i - 1)) = i - 1
    BY SubSeqFacts
  <1>2. /\ SubSeq(s, i + 1, Len(s)) \in Seq(T)
        /\ Len(SubSeq(s, i + 1, Len(s))) = Len(s) - i
    BY SubSeqFacts
  <1> DEFINE a == SubSeq(s, 1, i - 1)
             b == SubSeq(s, i + 1, Len(s))
  <1> HIDE DEF a, b
  <1>3. a \o b \in Seq(T) /\ Len(a \o b) = Len(s) - 1
    <2>1. a \in Seq(T) /\ Len(a) = i - 1 /\ b \in Seq(T) /\ Len(b) = Len(s) - i
      BY <1>1, <1>2 DEF a, b
    <2>2. a \o b \in Seq(T) /\ Len(a \o b) = Len(a) + Len(b)
      BY ONLY <2>1, ConcatFacts
    <2> QED
      BY <2>1, <2>2
  <1> QED
    BY ONLY <1>3 DEF a, b, RemoveAt

(***************************************************************************)
(* FlattenSeq, by the partial results of its recursion: they exist, and    *)
(* those for a longer sequence continue those for a shorter one.           *)
(***************************************************************************)
IsFlatten(f, ss, n) ==
  f = [i \in 1 .. n |-> IF i = 1 THEN ss[i] ELSE f[i - 1] \o ss[i]]

LEMMA FlattenExists ==
  ASSUME NEW T, NEW ss \in Seq(Seq(T))
  PROVE  \A n \in 1 .. Len(ss) : \E f \in [1 .. n -> Seq(T)] : IsFlatten(f, ss, n)
  <1> DEFINE Bad == {n \in 1 .. Len(ss) :
                       ~ \E f \in [1 .. n -> Seq(T)] : IsFlatten(f, ss, n)}
  <1> SUFFICES ASSUME Bad # {} PROVE FALSE
    OBVIOUS
  <1>1. PICK m \in Bad : \A k \in Bad : m <= k
    <2>1. Bad \in SUBSET Nat
      OBVIOUS
    <2> HIDE DEF Bad
    <2> QED
      BY <2>1, LeastExists
  <1>2. m \in 1 .. Len(ss) /\ ss[m] \in Seq(T)
    BY <1>1
  <1>3. CASE m = 1
    <2> DEFINE f == [i \in 1 .. 1 |-> ss[i]]
    <2>1. f \in [1 .. 1 -> Seq(T)]
      BY <1>2, <1>3
    <2>2. IsFlatten(f, ss, 1)
      BY DEF IsFlatten
    <2> QED
      BY ONLY <2>1, <2>2, <1>3, <1>1
  <1>4. CASE m # 1
    <2>1. m - 1 \in 1 .. Len(ss) /\ ~ (m <= m - 1)
      BY <1>2, <1>4
    <2>2. m - 1 \notin Bad
      <3> HIDE DEF Bad
      <3> QED
        BY <2>1, <1>1
    <2>3. PICK g \in [1 .. m - 1 -> Seq(T)] : IsFlatten(g, ss, m - 1)
      BY <2>1, <2>2
    <2> DEFINE f == [i \in 1 .. m |-> IF i = m THEN g[m - 1] \o ss[m] ELSE g[i]]
    <2>4. g[m - 1] \in Seq(T) /\ g[m - 1] \o ss[m] \in Seq(T)
      BY <2>1, <2>3, <1>2, ConcatFacts
    <2>5. f \in [1 .. m -> Seq(T)]
      BY <2>3, <2>4, <1>2
    <2>6. \A i \in 1 .. m : f[i] = IF i = 1 THEN ss[i] ELSE f[i - 1] \o ss[i]
      <3> TAKE i \in 1 .. m
      <3>1. CASE i = m
        <4>1. m - 1 \in 1 .. m /\ m \in 1 .. m /\ m - 1 # m
          BY ONLY <2>1, <1>2
        <4>2. f[m - 1] = g[m - 1] /\ f[m] = g[m - 1] \o ss[m]
          BY ONLY <4>1
        <4> QED
          BY ONLY <4>2, <3>1, <1>4
      <3>2. CASE i # m
        <4>1. i \in 1 .. m - 1 /\ f[i] = g[i]
          BY <3>2, <1>2
        <4>2. g[i] = IF i = 1 THEN ss[i] ELSE g[i - 1] \o ss[i]
          BY <2>3, <4>1 DEF IsFlatten
        <4>3. i # 1 => f[i - 1] = g[i - 1]
          BY <4>1, <1>2
        <4> QED
          BY ONLY <4>1, <4>2, <4>3
      <3> QED
        BY <3>1, <3>2
    <2>7. IsFlatten(f, ss, m)
      <3> HIDE DEF f
      <3> QED
        BY <2>5, <2>6 DEF IsFlatten
    <2> QED
      BY ONLY <2>5, <2>7, <1>1
  <1> QED
    BY <1>3, <1>4

Follows(f, ss, n) ==
  \A i \in 1 .. n : f[i] = IF i = 1 THEN ss[i] ELSE f[i - 1] \o ss[i]

Agree(f, g, n) == \A i \in 1 .. n : f[i] = g[i]

LEMMA FlattenUnique ==
  ASSUME NEW n \in Nat, NEW ss, NEW tt, NEW f, NEW g,
         Follows(f, ss, n), Follows(g, tt, n), Agree(ss, tt, n)
  PROVE  Agree(f, g, n)
  <1> DEFINE Bad == {i \in 1 .. n : f[i] # g[i]}
  <1> SUFFICES ASSUME Bad # {} PROVE FALSE
    BY DEF Agree
  <1>1. PICK m \in Bad : \A k \in Bad : m <= k
    <2>1. Bad \in SUBSET Nat
      OBVIOUS
    <2> HIDE DEF Bad
    <2> QED
      BY <2>1, LeastExists
  <1>2. m \in 1 .. n /\ f[m] # g[m]
    BY <1>1
  <1>3. m # 1 => f[m - 1] = g[m - 1]
    <2>1. m # 1 => m - 1 \in 1 .. n /\ ~ (m <= m - 1)
      BY <1>2
    <2> QED
      BY ONLY <2>1, <1>1
  <1>4. f[m] = IF m = 1 THEN ss[m] ELSE f[m - 1] \o ss[m]
    BY <1>2 DEF Follows
  <1>5. g[m] = IF m = 1 THEN tt[m] ELSE g[m - 1] \o tt[m]
    BY <1>2 DEF Follows
  <1>6. ss[m] = tt[m]
    BY <1>2 DEF Agree
  <1> QED
    BY ONLY <1>2, <1>3, <1>4, <1>5, <1>6

LEMMA FlattenPartial ==
  ASSUME NEW T, NEW ss \in Seq(Seq(T)), Len(ss) # 0
  PROVE  \E f \in [1 .. Len(ss) -> Seq(T)] :
           /\ IsFlatten(f, ss, Len(ss))
           /\ FlattenSeq(ss) = f[Len(ss)]
  <1> DEFINE n == Len(ss)
             f == CHOOSE g : IsFlatten(g, ss, n)
  <1>1. PICK h \in [1 .. n -> Seq(T)] : IsFlatten(h, ss, n)
    BY FlattenExists
  <1>2. FlattenSeq(ss) = f[n]
    BY DEF FlattenSeq, IsFlatten
  <1>3. IsFlatten(f, ss, n)
    BY <1>1
  <1> HIDE DEF f
  <1>4. Agree(f, h, n)
    <2>1. n \in Nat /\ Agree(ss, ss, n)
      BY DEF Agree
    <2>2. Follows(f, ss, n) /\ Follows(h, ss, n)
      BY <1>1, <1>3 DEF Follows, IsFlatten
    <2> HIDE DEF n
    <2> QED
      BY ONLY <2>1, <2>2, FlattenUnique
  <1>5. f[n] = h[n]
    BY <1>4 DEF Agree
  <1> QED
    BY <1>1, <1>2, <1>5

(***************************************************************************)
(* What is needed of it.                                                   *)
(***************************************************************************)
LEMMA FlattenType ==
  ASSUME NEW T, NEW ss \in Seq(Seq(T))
  PROVE  FlattenSeq(ss) \in Seq(T)
  <1>1. CASE Len(ss) = 0
    <2>1. ss = << >>
      BY <1>1
    <2> QED
      BY <2>1 DEF FlattenSeq
  <1>2. CASE Len(ss) # 0
    <2>1. Len(ss) \in 1 .. Len(ss)
      BY <1>2
    <2>2. PICK f \in [1 .. Len(ss) -> Seq(T)] : FlattenSeq(ss) = f[Len(ss)]
      BY <1>2, FlattenPartial
    <2> QED
      BY ONLY <2>1, <2>2
  <1> QED
    BY <1>1, <1>2

LEMMA FlattenEmpty == FlattenSeq(<< >>) = << >>
  BY DEF FlattenSeq

LEMMA FlattenAppend ==
  ASSUME NEW T, NEW ss \in Seq(Seq(T)), NEW s \in Seq(T)
  PROVE  FlattenSeq(Append(ss, s)) = FlattenSeq(ss) \o s
  <1>1. PICK n \in Nat : n = Len(ss)
    OBVIOUS
  <1>2. PICK m \in Nat : m = n + 1
    BY <1>1
  <1>3. PICK tt : tt = Append(ss, s)
    OBVIOUS
  <1>4. /\ tt \in Seq(Seq(T)) /\ Len(tt) = m /\ tt[m] = s /\ Len(tt) # 0
        /\ \A i \in 1 .. n : ss[i] = tt[i]
    BY <1>1, <1>2, <1>3, AppendFacts
  <1>5. PICK g : IsFlatten(g, tt, m) /\ FlattenSeq(tt) = g[m]
    <2>1. tt \in Seq(Seq(T)) /\ Len(tt) # 0 /\ Len(tt) = m
      BY <1>4
    <2>2. \E g : IsFlatten(g, tt, Len(tt)) /\ FlattenSeq(tt) = g[Len(tt)]
      BY ONLY <2>1, FlattenPartial
    <2> QED
      BY ONLY <2>1, <2>2, Zenon
  <1>6. g[m] = IF m = 1 THEN tt[m] ELSE g[n] \o tt[m]
    <2>1. m \in 1 .. m /\ m - 1 = n
      BY <1>2
    <2>2. g[m] = IF m = 1 THEN tt[m] ELSE g[m - 1] \o tt[m]
      BY <1>5, <2>1 DEF IsFlatten
    <2> QED
      BY ONLY <2>1, <2>2
  <1>7. CASE n = 0
    <2>1. m = 1
      BY <1>2, <1>7
    <2>a. Len(ss) = 0
      BY <1>1, <1>7
    <2>b. ss = << >>
      BY ONLY <2>a, ss \in Seq(Seq(T))
    <2>2. << >> \o s = s
      OBVIOUS
    <2>3. FlattenSeq(tt) = s
      BY ONLY <2>1, <1>4, <1>5, <1>6
    <2> QED
      BY ONLY <2>b, <2>2, <2>3, <1>3, FlattenEmpty, Zenon
  <1>8. CASE n # 0
    <2>1. PICK f : IsFlatten(f, ss, n) /\ FlattenSeq(ss) = f[n]
      <3>1. ss \in Seq(Seq(T)) /\ Len(ss) # 0 /\ Len(ss) = n
        BY <1>1, <1>8
      <3>2. \E f : IsFlatten(f, ss, Len(ss)) /\ FlattenSeq(ss) = f[Len(ss)]
        BY ONLY <3>1, FlattenPartial
      <3> QED
        BY ONLY <3>1, <3>2, Zenon
    <2>2. n <= m /\ n \in 1 .. n /\ m # 1
      BY <1>2, <1>8
    <2>3. Agree(f, g, n)
      <3>1. Agree(ss, tt, n)
        BY <1>4 DEF Agree
      <3>2. Follows(f, ss, n)
        BY <2>1 DEF Follows, IsFlatten
      <3>3. Follows(g, tt, n)
        <4>1. Follows(g, tt, m)
          BY <1>5 DEF Follows, IsFlatten
        <4>2. \A i \in 1 .. n : i \in 1 .. m
          BY <2>2
        <4> QED
          BY ONLY <4>1, <4>2 DEF Follows
      <3> QED
        BY ONLY n \in Nat, <3>1, <3>2, <3>3, FlattenUnique
    <2>4. f[n] = g[n]
      BY <2>2, <2>3 DEF Agree
    <2> QED
      BY ONLY <2>1, <2>2, <2>4, <1>3, <1>4, <1>5, <1>6
  <1> QED
    BY <1>7, <1>8

(***************************************************************************)
(* The concatenation of the first m elements of ss.                        *)
(***************************************************************************)
Prefix(ss, m) == FlattenSeq(SubSeq(ss, 1, m))

LEMMA PrefixFacts ==
  ASSUME NEW T, NEW ss \in Seq(Seq(T))
  PROVE  /\ Prefix(ss, 0) = << >>
         /\ Prefix(ss, Len(ss)) = FlattenSeq(ss)
         /\ \A m \in 0 .. Len(ss) : Prefix(ss, m) \in Seq(T)
  <1>1. SubSeq(ss, 1, 0) = << >>
    OBVIOUS
  <1>2. SubSeq(ss, 1, Len(ss)) = ss
    OBVIOUS
  <1>3. ASSUME NEW m \in 0 .. Len(ss) PROVE Prefix(ss, m) \in Seq(T)
    <2>1. SubSeq(ss, 1, m) \in Seq(Seq(T))
      OBVIOUS
    <2> QED
      BY ONLY <2>1, FlattenType DEF Prefix
  <1> QED
    BY <1>1, <1>2, <1>3, FlattenEmpty DEF Prefix

LEMMA PrefixStep ==
  ASSUME NEW T, NEW ss \in Seq(Seq(T)), NEW m \in 0 .. Len(ss) - 1
  PROVE  Prefix(ss, m + 1) = Prefix(ss, m) \o ss[m + 1]
  <1> DEFINE p == SubSeq(ss, 1, m)
  <1>1. p \in Seq(Seq(T)) /\ ss[m + 1] \in Seq(T)
    OBVIOUS
  <1>2. SubSeq(ss, 1, m + 1) = Append(p, ss[m + 1])
    <2>1. SubSeq(ss, 1, m + 1) = SubSeq(ss, 1, m + 1 - 1) \o <<ss[m + 1]>>
      <3>1. 1 \in 1 .. Len(ss) /\ m + 1 \in 1 .. Len(ss)
        OBVIOUS
      <3> QED
        BY ONLY <3>1, SubSeqRecursiveSecond, ss \in Seq(Seq(T))
    <2>2. m + 1 - 1 = m
      OBVIOUS
    <2>3. Append(p, ss[m + 1]) = p \o <<ss[m + 1]>>
      <3> HIDE DEF p
      <3> QED
        BY ONLY <1>1, AppendIsConcat
    <2> QED
      BY ONLY <2>1, <2>2, <2>3
  <1> HIDE DEF p
  <1>3. FlattenSeq(Append(p, ss[m + 1])) = FlattenSeq(p) \o ss[m + 1]
    BY ONLY <1>1, FlattenAppend
  <1> QED
    BY ONLY <1>2, <1>3 DEF Prefix, p

LEMMA Reassociate ==
  \A T : \A x, y, z \in Seq(T) : (x \o y) \o z = x \o (y \o z)
  BY ConcatAssociative

Continues(T, ss, m, p) == \E t \in Seq(T) : Prefix(ss, p) = Prefix(ss, m) \o t

LEMMA ContinuesStep ==
  ASSUME NEW T, NEW ss \in Seq(Seq(T)), NEW m \in 0 .. Len(ss),
         NEW p \in 0 .. Len(ss) - 1, Continues(T, ss, m, p)
  PROVE  Continues(T, ss, m, p + 1)
  <1>1. PICK t \in Seq(T) : Prefix(ss, p) = Prefix(ss, m) \o t
    BY DEF Continues
  <1>2. PICK a : a = Prefix(ss, m)
    OBVIOUS
  <1>3. PICK b : b = ss[p + 1]
    OBVIOUS
  <1>4. a \in Seq(T) /\ b \in Seq(T)
    BY <1>2, <1>3, PrefixFacts
  <1>5. Prefix(ss, p + 1) = (a \o t) \o b
    BY <1>1, <1>2, <1>3, PrefixStep
  <1>6. (a \o t) \o b = a \o (t \o b)
    BY ONLY <1>4, t \in Seq(T), ConcatAssociative
  <1>7. t \o b \in Seq(T)
    BY ONLY <1>4, t \in Seq(T), ConcatProperties
  <1> QED
    BY ONLY <1>2, <1>5, <1>6, <1>7 DEF Continues

LEMMA PrefixOfPrefix ==
  ASSUME NEW T, NEW ss \in Seq(Seq(T)), NEW m \in 0 .. Len(ss)
  PROVE  \A p \in m .. Len(ss) : Continues(T, ss, m, p)
  <1> DEFINE Bad == {p \in m .. Len(ss) : ~ Continues(T, ss, m, p)}
  <1> SUFFICES ASSUME Bad # {} PROVE FALSE
    OBVIOUS
  <1>1. PICK p \in Bad : \A k \in Bad : p <= k
    <2>1. Bad \in SUBSET Nat
      OBVIOUS
    <2> HIDE DEF Bad
    <2> QED
      BY <2>1, LeastExists
  <1>2. p \in m .. Len(ss) /\ ~ Continues(T, ss, m, p)
    BY <1>1
  <1>3. p # m
    <2>1. Prefix(ss, m) \in Seq(T)
      BY PrefixFacts
    <2>2. Prefix(ss, m) \o << >> = Prefix(ss, m) /\ << >> \in Seq(T)
      BY ONLY <2>1, ConcatEmptySeq
    <2>3. Continues(T, ss, m, m)
      BY ONLY <2>2 DEF Continues
    <2> QED
      BY ONLY <2>3, <1>2
  <1>4. p - 1 \in m .. Len(ss) /\ p - 1 \in 0 .. Len(ss) - 1 /\ ~ (p <= p - 1)
          /\ p - 1 + 1 = p
    BY ONLY <1>2, <1>3, m \in 0 .. Len(ss), ss \in Seq(Seq(T))
  <1>5. Continues(T, ss, m, p - 1)
    <2>1. p - 1 \notin Bad
      <3> HIDE DEF Bad
      <3> QED
        BY ONLY <1>1, <1>4
    <2> QED
      BY ONLY <2>1, <1>4
  <1>6. Continues(T, ss, m, p - 1 + 1)
    BY ONLY <1>4, <1>5, ContinuesStep, ss \in Seq(Seq(T)), m \in 0 .. Len(ss)
  <1> QED
    BY ONLY <1>2, <1>4, <1>6

(***************************************************************************)
(* The next element, and what is left behind it.                           *)
(***************************************************************************)
LEMMA WholeIs ==
  ASSUME NEW T, NEW ss \in Seq(Seq(T)), NEW m \in 0 .. Len(ss) - 1
  PROVE  \E t \in Seq(T) :
           /\ FlattenSeq(ss) = (Prefix(ss, m) \o ss[m + 1]) \o t
           /\ m + 1 = Len(ss) => t = << >>
           /\ m + 1 < Len(ss) => Len(t) >= Len(ss[m + 2])
  <1>1. PICK n \in Nat : n = Len(ss)
    OBVIOUS
  <1>2. PICK a : a = Prefix(ss, m + 1)
    OBVIOUS
  <1>3. a = Prefix(ss, m) \o ss[m + 1] /\ a \in Seq(T)
    <2>1. m + 1 \in 0 .. Len(ss)
      OBVIOUS
    <2> QED
      BY <2>1, <1>2, PrefixStep, PrefixFacts
  <1>4. Prefix(ss, n) = FlattenSeq(ss)
    BY <1>1, PrefixFacts
  <1>5. m + 1 = n \/ m + 1 < n
    BY <1>1
  <1>6. CASE m + 1 = n
    <2>1. a \o << >> = a /\ << >> \in Seq(T)
      BY ONLY <1>3, ConcatEmptySeq
    <2>2. FlattenSeq(ss) = (Prefix(ss, m) \o ss[m + 1]) \o << >>
      BY ONLY <2>1, <1>2, <1>3, <1>4, <1>6
    <2>3. ~ (m + 1 < n)
      BY <1>6
    <2> QED
      BY ONLY <2>1, <2>2, <2>3, <1>1
  <1>7. CASE m + 1 < n
    <2>1. /\ m + 1 \in 0 .. Len(ss) - 1 /\ m + 2 \in 0 .. Len(ss)
          /\ n \in m + 2 .. Len(ss) /\ m + 1 + 1 = m + 2 /\ m + 1 # n
      BY <1>1, <1>7
    <2>2. PICK c : c = ss[m + 2]
      OBVIOUS
    <2>3. c \in Seq(T)
      BY <2>1, <2>2
    <2>4. Prefix(ss, m + 2) = a \o c
      <3>1. Prefix(ss, m + 1 + 1) = Prefix(ss, m + 1) \o ss[m + 1 + 1]
        BY ONLY <2>1, PrefixStep, ss \in Seq(Seq(T))
      <3> QED
        BY ONLY <3>1, <2>1, <2>2, <1>2
    <2>5. PICK u \in Seq(T) : FlattenSeq(ss) = (a \o c) \o u
      <3>1. Continues(T, ss, m + 2, n)
        BY ONLY <2>1, PrefixOfPrefix, ss \in Seq(Seq(T))
      <3> QED
        BY ONLY <3>1, <2>4, <1>4 DEF Continues
    <2>6. (a \o c) \o u = a \o (c \o u)
      <3>1. a \in Seq(T) /\ c \in Seq(T) /\ u \in Seq(T)
        BY <1>3, <2>3
      <3> QED
        BY ONLY <3>1, Reassociate, SMTT(30)
    <2>7. c \o u \in Seq(T) /\ Len(c \o u) >= Len(c)
      BY ONLY <2>3, u \in Seq(T)
    <2>8. FlattenSeq(ss) = (Prefix(ss, m) \o ss[m + 1]) \o (c \o u)
      BY ONLY <1>3, <2>5, <2>6
    <2> QED
      BY ONLY <2>1, <2>2, <2>7, <2>8, <1>1
  <1> QED
    BY ONLY <1>5, <1>6, <1>7

(***************************************************************************)
(* Where each element is found in the whole.                               *)
(***************************************************************************)
LEMMA PrefixGrows ==
  ASSUME NEW T, NEW ss \in Seq(Seq(T)), NEW m \in 0 .. Len(ss) - 1
  PROVE  /\ Len(Prefix(ss, m)) \in Nat /\ Len(ss[m + 1]) \in Nat
         /\ Len(FlattenSeq(ss)) \in Nat
         /\ Len(Prefix(ss, m + 1)) = Len(Prefix(ss, m)) + Len(ss[m + 1])
         /\ Len(Prefix(ss, m + 1)) <= Len(FlattenSeq(ss))
         /\ \A i \in 1 .. Len(ss[m + 1]) :
              FlattenSeq(ss)[Len(Prefix(ss, m)) + i] = ss[m + 1][i]
  <1>1. PICK a : a = Prefix(ss, m)
    OBVIOUS
  <1>2. PICK b : b = ss[m + 1]
    OBVIOUS
  <1>3. PICK w : w = FlattenSeq(ss)
    OBVIOUS
  <1>4. a \in Seq(T) /\ b \in Seq(T) /\ Prefix(ss, m + 1) = a \o b
    <2>1. m \in 0 .. Len(ss) /\ ss[m + 1] \in Seq(T)
      OBVIOUS
    <2> QED
      BY <2>1, <1>1, <1>2, PrefixFacts, PrefixStep
  <1>5. PICK t \in Seq(T) : w = (a \o b) \o t
    BY <1>1, <1>2, <1>3, WholeIs
  <1>6. PICK c : c = a \o b
    OBVIOUS
  <1>7. /\ c \in Seq(T) /\ Len(c) = Len(a) + Len(b)
        /\ \A i \in 1 .. Len(b) : c[Len(a) + i] = b[i]
    BY ONLY <1>4, <1>6, ConcatFacts
  <1>8. /\ w \in Seq(T) /\ Len(w) = Len(c) + Len(t)
        /\ \A i \in 1 .. Len(c) : w[i] = c[i]
    BY ONLY <1>5, <1>6, <1>7, ConcatFacts
  <1>9. Len(a) \in Nat /\ Len(b) \in Nat /\ Len(t) \in Nat /\ Len(w) \in Nat
    BY <1>4, <1>8
  <1>10. ASSUME NEW i \in 1 .. Len(b) PROVE w[Len(a) + i] = b[i]
    <2>1. Len(a) + i \in 1 .. Len(c)
      BY ONLY <1>7, <1>9, <1>10
    <2> QED
      BY ONLY <2>1, <1>7, <1>8, <1>10
  <1>11. Len(c) <= Len(w)
    BY ONLY <1>7, <1>8, <1>9
  <1> QED
    BY ONLY <1>1, <1>2, <1>3, <1>4, <1>6, <1>7, <1>9, <1>10, <1>11

LEMMA PrefixLengths ==
  ASSUME NEW T, NEW ss \in Seq(Seq(T)),
         \A k \in 1 .. Len(ss) : Len(ss[k]) > 0
  PROVE  /\ \A m \in 0 .. Len(ss) : Len(Prefix(ss, m)) \in Nat
         /\ \A m, n \in 0 .. Len(ss) :
              m < n => Len(Prefix(ss, m)) < Len(Prefix(ss, n))
  <1>1. ASSUME NEW m \in 0 .. Len(ss) PROVE Len(Prefix(ss, m)) \in Nat
    <2>1. Prefix(ss, m) \in Seq(T)
      BY PrefixFacts
    <2> QED
      BY ONLY <2>1
  <1>2. ASSUME NEW m \in 0 .. Len(ss), NEW n \in 0 .. Len(ss), m < n
        PROVE  Len(Prefix(ss, m)) < Len(Prefix(ss, n))
    <2>1. m \in 0 .. Len(ss) - 1 /\ m + 1 \in 0 .. Len(ss)
          /\ n \in m + 1 .. Len(ss) /\ m + 1 \in 1 .. Len(ss)
      BY <1>2
    <2>2. /\ Len(Prefix(ss, m)) \in Nat /\ Len(ss[m + 1]) \in Nat
          /\ Len(Prefix(ss, m + 1)) = Len(Prefix(ss, m)) + Len(ss[m + 1])
      BY ONLY <2>1, PrefixGrows, ss \in Seq(Seq(T))
    <2>3. Len(ss[m + 1]) > 0
      BY ONLY <2>1, \A k \in 1 .. Len(ss) : Len(ss[k]) > 0
    <2>4. Continues(T, ss, m + 1, n)
      BY ONLY <2>1, PrefixOfPrefix, ss \in Seq(Seq(T))
    <2>5. PICK a : a = Prefix(ss, m + 1)
      OBVIOUS
    <2>6. PICK t \in Seq(T) : Prefix(ss, n) = a \o t
      BY <2>4, <2>5 DEF Continues
    <2>7. a \in Seq(T)
      BY <2>1, <2>5, PrefixFacts
    <2>8. Len(Prefix(ss, n)) = Len(a) + Len(t) /\ Len(t) \in Nat
      <3>1. Len(a \o t) = Len(a) + Len(t)
        BY ONLY <2>7, ConcatFacts, t \in Seq(T)
      <3>2. Len(t) \in Nat
        OBVIOUS
      <3> QED
        BY ONLY <2>6, <3>1, <3>2
    <2> QED
      BY ONLY <2>2, <2>3, <2>5, <2>8
  <1> QED
    BY <1>1, <1>2

LEMMA ElementAt ==
  ASSUME NEW T, NEW ss \in Seq(Seq(T)), NEW i \in 1 .. Len(FlattenSeq(ss))
  PROVE  \E m \in 0 .. Len(ss) - 1 :
           Len(Prefix(ss, m)) < i /\ i <= Len(Prefix(ss, m + 1))
  <1> DEFINE S == {m \in 0 .. Len(ss) : i <= Len(Prefix(ss, m))}
  <1>1. Len(ss) \in Nat
    OBVIOUS
  <1>2. Len(ss) \in S
    <2>1. Prefix(ss, Len(ss)) = FlattenSeq(ss)
      BY PrefixFacts
    <2>2. i <= Len(FlattenSeq(ss))
      <3>1. FlattenSeq(ss) \in Seq(T)
        BY FlattenType
      <3> QED
        BY <3>1
    <2> QED
      BY <1>1, <2>1, <2>2
  <1>3. PICK m \in S : \A k \in S : m <= k
    <2>1. S \in SUBSET Nat /\ S # {}
      BY <1>2
    <2> HIDE DEF S
    <2> QED
      BY ONLY <2>1, LeastExists
  <1>4. m # 0
    <2>1. Prefix(ss, 0) = << >>
      BY PrefixFacts
    <2>2. Len(Prefix(ss, 0)) = 0
      BY ONLY <2>1
    <2> QED
      BY <2>2
  <1>5. m - 1 \in 0 .. Len(ss) - 1 /\ m - 1 \in 0 .. Len(ss) /\ ~ (m <= m - 1)
          /\ m - 1 + 1 = m
    BY <1>4
  <1>6. ~ (i <= Len(Prefix(ss, m - 1)))
    BY <1>3, <1>5
  <1>7. Len(Prefix(ss, m - 1)) \in Nat
    <2>1. Prefix(ss, m - 1) \in Seq(T)
      BY <1>5, PrefixFacts
    <2> QED
      BY ONLY <2>1
  <1>8. Len(Prefix(ss, m - 1)) < i
    <2>1. i \in Int
      OBVIOUS
    <2> QED
      BY ONLY <2>1, <1>6, <1>7
  <1>9. i <= Len(Prefix(ss, m))
    BY <1>3
  <1> QED
    BY ONLY <1>5, <1>8, <1>9

=============================================================================
