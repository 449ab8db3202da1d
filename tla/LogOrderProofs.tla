---------------------------- MODULE LogOrderProofs ----------------------------
(***************************************************************************)
(* What the logs hold: their lines are in order, the log of a reported step *)
(* is whole, and no log gets shorter, for any number of steps, lines,       *)
(* requests and deliveries, whatever transactions fail.  LogStoreProofs     *)
(* says who may write a log; this module says what is written.  It ends     *)
(* with the steps those properties leave out, and with who can deadlock.    *)
(***************************************************************************)
EXTENDS LogStoreProofs, FunctionTheorems, SequenceTheorems

-----------------------------------------------------------------------------
(* The members of a set of numbers, in order.                               *)

Below(set, n) == {m \in set : m < n}

Numbers(set) == set \in SUBSET Nat /\ IsFiniteSet(set)

LEMMA BelowSize ==
    ASSUME NEW set, Numbers(set), NEW n \in set
    PROVE  /\ IsFiniteSet(Below(set, n))
           /\ Cardinality(Below(set, n)) \in 0..(Cardinality(set) - 1)
  <1>1. Below(set, n) \in SUBSET set /\ Below(set, n) # set
    BY DEF Below, Numbers
  <1>2. IsFiniteSet(Below(set, n)) /\ Cardinality(Below(set, n)) <= Cardinality(set)
        /\ Cardinality(Below(set, n)) # Cardinality(set)
    BY <1>1, FS_Subset DEF Numbers
  <1>3. Cardinality(Below(set, n)) \in Nat /\ Cardinality(set) \in Nat
    BY <1>2, FS_CardinalityType DEF Numbers
  <1> QED
    BY <1>2, <1>3

\* More members are below a larger one.
LEMMA BelowGrows ==
    ASSUME NEW set, Numbers(set), NEW m \in set, NEW n \in set, m < n
    PROVE  Cardinality(Below(set, m)) < Cardinality(Below(set, n))
  <1>1. Below(set, m) \in SUBSET Below(set, n) /\ Below(set, m) # Below(set, n)
    <2>1. \A i \in set : i \in Nat
      BY DEF Numbers
    <2>2. \A i \in set : i < m => i < n
      BY <2>1
    <2>3. m \in Below(set, n) /\ m \notin Below(set, m)
      BY <2>1 DEF Below
    <2> QED
      BY <2>2, <2>3 DEF Below
  <1>2. Cardinality(Below(set, m)) <= Cardinality(Below(set, n))
        /\ Cardinality(Below(set, m)) # Cardinality(Below(set, n))
    BY <1>1, BelowSize, FS_Subset
  <1> QED
    BY <1>2, BelowSize

LEMMA BelowInjective ==
    ASSUME NEW set, Numbers(set), NEW m \in set, NEW n \in set,
           Cardinality(Below(set, m)) = Cardinality(Below(set, n))
    PROVE  m = n
  <1>1. m \in Nat /\ n \in Nat
    BY DEF Numbers
  <1>2. ~ m < n
    BY BelowGrows, BelowSize
  <1>3. ~ n < m
    BY BelowGrows, BelowSize
  <1> QED
    BY <1>1, <1>2, <1>3

\* As many ranks as members: every rank is taken.
LEMMA NthBelow ==
    ASSUME NEW set, Numbers(set), NEW k \in 1..Cardinality(set)
    PROVE  Nth(set, k) \in set /\ Cardinality(Below(set, Nth(set, k))) = k - 1
  <1> DEFINE size == Cardinality(set)
             ranks == 0..(size - 1)
             rank == [n \in set |-> Cardinality(Below(set, n))]
  <1>1. size \in Nat \ {0}
    BY FS_CardinalityType DEF Numbers
  <1>2. IsFiniteSet(ranks) /\ Cardinality(ranks) = size
    <2>1. size - 1 \in Int /\ ~ 0 > size - 1 /\ size - 1 - 0 + 1 = size
      BY <1>1
    <2> HIDE DEF size
    <2>2. /\ IsFiniteSet(0..(size - 1))
          /\ Cardinality(0..(size - 1)) = IF 0 > size - 1 THEN 0 ELSE size - 1 - 0 + 1
      BY <2>1, FS_Interval
    <2> QED
      BY <2>1, <2>2
  <1>3. rank \in Injection(set, ranks)
    BY BelowSize, BelowInjective DEF Injection, IsInjective
  <1>4. rank \in Surjection(set, ranks)
    BY <1>2, <1>3, FS_Injection
  <1>5. k - 1 \in ranks
    BY <1>1
  <1>6. PICK n \in set : rank[n] = k - 1
    BY <1>4, <1>5 DEF Surjection
  <1>7. \E m \in set : Cardinality({i \in set : i < m}) = k - 1
    BY <1>6 DEF Below
  <1> QED
    BY <1>7 DEF Nth, Below

LEMMA NthOfRank ==
    ASSUME NEW set, Numbers(set), NEW n \in set
    PROVE  /\ Cardinality(Below(set, n)) + 1 \in 1..Cardinality(set)
           /\ Nth(set, Cardinality(Below(set, n)) + 1) = n
  <1> DEFINE k == Cardinality(Below(set, n)) + 1
  <1>1. Cardinality(set) \in Nat
    BY FS_CardinalityType DEF Numbers
  <1>2. k \in 1..Cardinality(set) /\ k - 1 = Cardinality(Below(set, n))
    BY <1>1, BelowSize
  <1>3. Nth(set, k) \in set /\ Cardinality(Below(set, Nth(set, k))) = k - 1
    BY <1>2, NthBelow
  <1> QED
    BY <1>2, <1>3, BelowInjective

LEMMA NthGrows ==
    ASSUME NEW set, Numbers(set), NEW i \in 1..Cardinality(set),
           NEW k \in 1..Cardinality(set), i < k
    PROVE  Nth(set, i) < Nth(set, k)
  <1>0. Cardinality(set) \in Nat
    BY FS_CardinalityType DEF Numbers
  <1>1. /\ Nth(set, i) \in set /\ Cardinality(Below(set, Nth(set, i))) = i - 1
        /\ Nth(set, k) \in set /\ Cardinality(Below(set, Nth(set, k))) = k - 1
    BY NthBelow
  <1>2. Nth(set, i) \in Nat /\ Nth(set, k) \in Nat
    BY <1>1 DEF Numbers
  <1>3. Nth(set, i) # Nth(set, k)
    BY <1>0, <1>1
  <1>4. ~ Nth(set, k) < Nth(set, i)
    <2> SUFFICES ASSUME Nth(set, k) < Nth(set, i) PROVE FALSE
      OBVIOUS
    <2>1. Cardinality(Below(set, Nth(set, k))) < Cardinality(Below(set, Nth(set, i)))
      BY <1>1, BelowGrows
    <2> QED
      BY <1>0, <1>1, <2>1
  <1> QED
    BY <1>2, <1>3, <1>4

-----------------------------------------------------------------------------
(* Pick.                                                                    *)

LEMMA Positions ==
    ASSUME NEW S, NEW q \in Seq(S), NEW P \in SUBSET (1..Len(q))
    PROVE  Numbers(P) /\ Cardinality(P) \in 0..Len(q) /\ P \subseteq DOMAIN q
  <1>1. Len(q) \in Nat /\ DOMAIN q = 1..Len(q)
    BY LenProperties
  <1>2. IsFiniteSet(1..Len(q)) /\ Cardinality(1..Len(q)) = Len(q)
    <2>1. /\ IsFiniteSet(1..Len(q))
          /\ Cardinality(1..Len(q)) = IF 1 > Len(q) THEN 0 ELSE Len(q) - 1 + 1
      BY <1>1, FS_Interval
    <2> QED
      BY <1>1, <2>1
  <1>3. IsFiniteSet(P) /\ Cardinality(P) <= Len(q)
    BY <1>2, FS_Subset
  <1> QED
    BY <1>1, <1>3, FS_CardinalityType DEF Numbers

LEMMA PickType ==
    ASSUME NEW S, NEW q \in Seq(S), NEW P \in SUBSET (1..Len(q))
    PROVE  /\ Pick(q, P) \in Seq(S)
           /\ Len(Pick(q, P)) = Cardinality(P)
           /\ \A k \in 1..Cardinality(P) :
                Nth(P, k) \in P /\ Pick(q, P)[k] = q[Nth(P, k)]
  <1>1. Numbers(P) /\ Cardinality(P) \in Nat
    BY Positions
  <1>2. \A k \in 1..Cardinality(P) : Nth(P, k) \in P
    BY <1>1, NthBelow
  <1>3. \A k \in 1..Cardinality(P) : q[Nth(P, k)] \in S
    BY <1>2, ElementOfSeq
  <1>4. Pick(q, P) \in [1..Cardinality(P) -> S]
    BY <1>3 DEF Pick
  <1> QED
    BY <1>1, <1>2, <1>4 DEF Pick

LEMMA PickFinds ==
    ASSUME NEW S, NEW q \in Seq(S), NEW P \in SUBSET (1..Len(q)), NEW n \in P
    PROVE  \E k \in 1..Cardinality(P) : Nth(P, k) = n /\ Pick(q, P)[k] = q[n]
  BY Positions, NthOfRank, PickType

\* What is picked is in the sequence.
LEMMA PickWithin ==
    ASSUME NEW S, NEW q \in Seq(S), NEW P \in SUBSET (1..Len(q)), NEW k \in DOMAIN Pick(q, P)
    PROVE  \E i \in P : Pick(q, P)[k] = q[i]
  <1>1. DOMAIN Pick(q, P) = 1..Cardinality(P)
    BY DEF Pick
  <1> QED
    BY <1>1, PickType

-----------------------------------------------------------------------------
(* Sequences whose numbers rise.                                            *)

Rising(q) == \A i, k \in DOMAIN q : i < k => q[i] < q[k]

LEMMA PickRises ==
    ASSUME NEW q \in Seq(Nat), NEW P \in SUBSET (1..Len(q)), Rising(q)
    PROVE  Rising(Pick(q, P))
  <1>1. Numbers(P) /\ Cardinality(P) \in Nat /\ P \subseteq DOMAIN q
    BY Positions
  <1>2. DOMAIN Pick(q, P) = 1..Cardinality(P)
    BY <1>1 DEF Pick
  <1> SUFFICES ASSUME NEW i \in 1..Cardinality(P), NEW k \in 1..Cardinality(P), i < k
               PROVE  Pick(q, P)[i] < Pick(q, P)[k]
    BY <1>2 DEF Rising
  <1>3. Nth(P, i) < Nth(P, k)
    BY <1>1, NthGrows
  <1>4. /\ Nth(P, i) \in P /\ Pick(q, P)[i] = q[Nth(P, i)]
        /\ Nth(P, k) \in P /\ Pick(q, P)[k] = q[Nth(P, k)]
    BY PickType
  <1> QED
    BY <1>1, <1>3, <1>4 DEF Rising

\* A rising map of 1..n into 1..m.
LEMMA RisingMap ==
    ASSUME NEW n \in Nat, NEW m \in Nat, NEW f \in [1..n -> 1..m], Rising(f)
    PROVE  /\ n <= m
           /\ \A i \in 1..n : i <= f[i] /\ n - i <= m - f[i]
  <1>1. \A a, b \in Int : IsFiniteSet(a..b) /\ Cardinality(a..b) = IF a > b THEN 0 ELSE b - a + 1
    BY FS_Interval
  <1>2. \A i, k \in 1..n : i # k => f[i] # f[k]
    BY DEF Rising
  <1>3. ASSUME NEW a \in 1..n, NEW b \in a..n, NEW c \in 1..m, NEW d \in c..m,
               \A i \in a..b : f[i] \in c..d
        PROVE  b - a <= d - c
    <2> DEFINE g == [i \in a..b |-> f[i]]
    <2>1. g \in Injection(a..b, c..d)
      BY <1>2, <1>3 DEF Injection, IsInjective
    <2>2. Cardinality(a..b) <= Cardinality(c..d)
      BY <1>1, <2>1, FS_Injection
    <2>3. Cardinality(a..b) = b - a + 1 /\ Cardinality(c..d) = d - c + 1
      BY <1>1
    <2> QED
      BY <2>2, <2>3
  <1>4. ASSUME NEW i \in 1..n PROVE i <= f[i] /\ n - i <= m - f[i]
    <2>1. \A k \in 1..i : f[k] \in 1..f[i]
      BY DEF Rising
    <2>2. \A k \in i..n : f[k] \in f[i]..m
      BY DEF Rising
    <2>0. 1 \in 1..n /\ i \in 1..i /\ n \in i..n /\ 1 \in 1..m /\ f[i] \in 1..m /\ m \in f[i]..m
      OBVIOUS
    <2>3. i - 1 <= f[i] - 1
      BY <1>3, <2>0, <2>1
    <2>4. n - i <= m - f[i]
      BY <1>3, <2>0, <2>2
    <2> QED
      BY <2>3, <2>4
  <1>5. n <= m
    <2>1. CASE n = 0
      BY <2>1
    <2>2. CASE n # 0
      BY <1>4, <2>2
    <2> QED
      BY <2>1, <2>2
  <1> QED
    BY <1>4, <1>5

Within(q, t) == \A i \in DOMAIN q : \E k \in DOMAIN t : t[k] = q[i]

\* A rising sequence of numbers of another is no longer than that one, and
\* when it is as long they are the same.
LEMMA RisingWithin ==
    ASSUME NEW q \in Seq(Nat), NEW t \in Seq(Nat), Rising(q), Rising(t), Within(q, t)
    PROVE  Len(q) <= Len(t) /\ (Len(t) <= Len(q) => q = t)
  <1> DEFINE f == [i \in 1..Len(q) |-> CHOOSE k \in 1..Len(t) : t[k] = q[i]]
  <1>0. Len(q) \in Nat /\ Len(t) \in Nat
    BY LenProperties
  <1>1. /\ Len(q) \in Nat /\ DOMAIN q = 1..Len(q) /\ Len(t) \in Nat /\ DOMAIN t = 1..Len(t)
        /\ \A i \in 1..Len(q) : q[i] \in Nat
        /\ \A i \in 1..Len(t) : t[i] \in Nat
    BY LenProperties, ElementOfSeq
  <1>2. \A i \in 1..Len(q) : f[i] \in 1..Len(t) /\ t[f[i]] = q[i]
    BY <1>1 DEF Within
  <1>3. f \in [1..Len(q) -> 1..Len(t)]
    BY <1>2
  <1>4. Rising(f)
    <2> SUFFICES ASSUME NEW i \in 1..Len(q), NEW k \in 1..Len(q), i < k PROVE f[i] < f[k]
      BY <1>3 DEF Rising
    <2>1. t[f[i]] < t[f[k]]
      BY <1>1, <1>2 DEF Rising
    <2>2. ~ f[k] < f[i] /\ f[i] # f[k]
      BY <1>1, <1>2, <2>1 DEF Rising
    <2> QED
      BY <1>1, <1>2, <2>2
  <1> HIDE DEF f
  <1>5. Len(q) <= Len(t) /\ \A i \in 1..Len(q) : i <= f[i] /\ Len(q) - i <= Len(t) - f[i]
    BY <1>1, <1>3, <1>4, RisingMap
  <1>6. ASSUME Len(t) <= Len(q) PROVE q = t
    <2>0. Len(q) <= Len(t)
      BY <1>5
    <2>1. Len(q) = Len(t)
      BY <1>0, <1>6, <2>0
    <2>2. ASSUME NEW i \in 1..Len(q) PROVE f[i] = i
      <3>1. i <= f[i] /\ Len(q) - i <= Len(t) - f[i] /\ f[i] \in 1..Len(t)
        BY <1>2, <1>5
      <3> QED
        BY <1>0, <2>1, <3>1
    <2>3. \A i \in 1..Len(q) : q[i] = t[i]
      BY <1>2, <2>2
    <2> QED
      BY <2>1, <2>3, SeqEqual
  <1> QED
    BY <1>5, <1>6

-----------------------------------------------------------------------------
(* Sizes.                                                                   *)

Inside(s, q) == \A i \in DOMAIN q : q[i] \in 1..Length[s]

LEMMA OctetsForm ==
    ASSUME NEW s \in Steps, NEW q \in Seq(Nat), Inside(s, q)
    PROVE  /\ IsFiniteSet(Octets(s, q)) /\ Size(s, q) \in Nat
           /\ \A i \in DOMAIN q : Bytes[s][q[i]] \in Nat
           /\ \A o : o \in Octets(s, q) <=>
                       \E i \in DOMAIN q : \E k \in 0..Bytes[s][q[i]] : o = <<i, k>>
  <1> DEFINE line == [i \in DOMAIN q |-> {i} \X (0..Bytes[s][q[i]])]
             all == {line[i] : i \in DOMAIN q}
  <1>1. Len(q) \in Nat /\ DOMAIN q = 1..Len(q)
    BY LenProperties
  <1>2. \A i \in DOMAIN q : Bytes[s][q[i]] \in Nat
    BY BytesAssumption DEF Inside
  <1>3. IsFiniteSet(DOMAIN q)
    <2>1. IsFiniteSet(1..Len(q))
      BY <1>1, FS_Interval
    <2> QED
      BY <1>1, <2>1
  <1>4. IsFiniteSet(all)
    <2>1. line \in Surjection(DOMAIN q, all)
      BY DEF Surjection
    <2> HIDE DEF line, all
    <2> QED
      BY <1>3, <2>1, FS_Surjection
  <1>5. \A T \in all : IsFiniteSet(T)
    <2> SUFFICES ASSUME NEW i \in DOMAIN q PROVE IsFiniteSet(line[i])
      OBVIOUS
    <2>1. IsFiniteSet({i})
      BY FS_Singleton
    <2>2. IsFiniteSet(0..Bytes[s][q[i]])
      <3>1. Bytes[s][q[i]] \in Int /\ 0 \in Int
        BY <1>2
      <3> QED
        BY <3>1, FS_Interval
    <2>3. IsFiniteSet({i} \X (0..Bytes[s][q[i]]))
      BY <2>1, <2>2, FS_Product
    <2> QED
      BY <2>3
  <1>6. IsFiniteSet(Octets(s, q))
    <2>1. Octets(s, q) = UNION all
      BY DEF Octets
    <2> HIDE DEF all
    <2> QED
      BY <1>4, <1>5, <2>1, FS_UNION
  <1>7. Size(s, q) \in Nat
    BY <1>6, FS_CardinalityType DEF Size
  <1>8. ASSUME NEW o
        PROVE  o \in Octets(s, q) <=> \E i \in DOMAIN q : \E k \in 0..Bytes[s][q[i]] : o = <<i, k>>
    BY DEF Octets
  <1> QED
    BY <1>2, <1>6, <1>7, <1>8

\* Of the lines of a log, fewer make a smaller log.
LEMMA SizeWithin ==
    ASSUME NEW s \in Steps, NEW q \in Seq(Nat), NEW t \in Seq(Nat),
           Rising(q), Rising(t), Within(q, t), Inside(s, t)
    PROVE  Size(s, q) <= Size(s, t) /\ (Size(s, t) <= Size(s, q) => q = t)
  <1> DEFINE f == [i \in DOMAIN q |-> CHOOSE k \in DOMAIN t : t[k] = q[i]]
             g == [o \in Octets(s, q) |-> <<f[o[1]], o[2]>>]
  <1>1. \A i \in DOMAIN q : f[i] \in DOMAIN t /\ t[f[i]] = q[i]
    BY DEF Within
  <1>2. Inside(s, q)
    BY <1>1 DEF Inside
  <1>3. /\ DOMAIN q = 1..Len(q) /\ Len(q) \in Nat /\ \A i \in DOMAIN q : q[i] \in Nat
        /\ DOMAIN t = 1..Len(t) /\ Len(t) \in Nat /\ \A i \in DOMAIN t : t[i] \in Nat
    BY LenProperties, ElementOfSeq
  <1>4. \A i, k \in DOMAIN q : f[i] = f[k] => i = k
    <2> SUFFICES ASSUME NEW i \in DOMAIN q, NEW k \in DOMAIN q, q[i] = q[k] PROVE i = k
      BY <1>1
    <2>1. ~(i < k) /\ ~(k < i)
      BY <1>3 DEF Rising
    <2> QED
      BY <1>3, <2>1
  <1> HIDE DEF f
  <1>5. g \in Injection(Octets(s, q), Octets(s, t))
    <2>1. ASSUME NEW o \in Octets(s, q)
          PROVE  /\ o = <<o[1], o[2]>> /\ o[1] \in DOMAIN q /\ o[2] \in 0..Bytes[s][q[o[1]]]
                 /\ g[o] \in Octets(s, t)
      <3>1. PICK i \in DOMAIN q : \E k \in 0..Bytes[s][q[i]] : o = <<i, k>>
        BY <1>2, OctetsForm
      <3>2. PICK k \in 0..Bytes[s][q[i]] : o = <<i, k>>
        BY <3>1
      <3>3. g[o] = <<f[i], k>> /\ f[i] \in DOMAIN t /\ k \in 0..Bytes[s][t[f[i]]]
        BY <1>1, <3>2
      <3>4. g[o] \in Octets(s, t)
        BY <3>3, OctetsForm
      <3> QED
        BY <3>2, <3>4
    <2>2. g \in [Octets(s, q) -> Octets(s, t)]
      BY <2>1
    <2>3. ASSUME NEW o \in Octets(s, q), NEW p \in Octets(s, q), g[o] = g[p]
          PROVE  o = p
      <3>1. f[o[1]] = f[p[1]] /\ o[2] = p[2]
        BY <2>3
      <3> QED
        BY <1>4, <2>1, <3>1
    <2> HIDE DEF g
    <2> QED
      BY <2>2, <2>3 DEF Injection, IsInjective
  <1>6. /\ Size(s, q) <= Size(s, t)
        /\ Size(s, q) = Size(s, t) => g \in Surjection(Octets(s, q), Octets(s, t))
    <2> HIDE DEF g
    <2>1. IsFiniteSet(Octets(s, t))
      BY OctetsForm
    <2> QED
      BY <1>5, <2>1, FS_Injection DEF Size
  <1>7. ASSUME Size(s, t) <= Size(s, q) PROVE q = t
    <2>1. g \in Surjection(Octets(s, q), Octets(s, t))
      BY <1>2, <1>6, <1>7, OctetsForm
    <2>2. ASSUME NEW k \in DOMAIN t PROVE \E i \in DOMAIN q : q[i] = t[k]
      <3>1. 0 \in 0..Bytes[s][t[k]]
        BY OctetsForm
      <3>2. <<k, 0>> \in Octets(s, t)
        BY <3>1, OctetsForm
      <3>3. PICK o \in Octets(s, q) : g[o] = <<k, 0>>
        BY <2>1, <3>2 DEF Surjection
      <3>4. PICK i \in DOMAIN q : \E n \in 0..Bytes[s][q[i]] : o = <<i, n>>
        BY <1>2, OctetsForm
      <3>5. f[i] = k
        BY <3>3, <3>4
      <3> QED
        BY <1>1, <3>5
    <2>3. Within(t, q)
      BY <2>2 DEF Within
    <2>4. Len(t) <= Len(q)
      BY <2>3, RisingWithin
    <2> QED
      BY <2>4, RisingWithin
  <1> QED
    BY <1>6, <1>7

-----------------------------------------------------------------------------
(* _normalise_step_log_lines.                                               *)

Shown(s, q) == {i \in DOMAIN q : <<s, q[i]>> \notin Meta}

LEMMA ShownPositions ==
    ASSUME NEW s, NEW q \in Seq(Nat)
    PROVE  /\ Shown(s, q) \in SUBSET (1..Len(q))
           /\ Normalised(s, q) = Pick(q, Shown(s, q))
  BY LenProperties DEF Shown, Normalised

LEMMA NormalisedType ==
    ASSUME NEW s, NEW q \in Seq(Nat)
    PROVE  /\ Normalised(s, q) \in Seq(Nat)
           /\ Len(Normalised(s, q)) \in Nat
           /\ Len(Normalised(s, q)) <= Len(q)
           /\ Rising(q) => Rising(Normalised(s, q))
  BY ShownPositions, Positions, PickType, PickRises, LenProperties

LEMMA NormalisedWithin ==
    ASSUME NEW s, NEW q \in Seq(Nat), NEW k \in DOMAIN Normalised(s, q)
    PROVE  \E i \in DOMAIN q : Normalised(s, q)[k] = q[i] /\ <<s, q[i]>> \notin Meta
  <1>1. PICK i \in Shown(s, q) : Normalised(s, q)[k] = q[i]
    BY ShownPositions, PickWithin
  <1> QED
    BY <1>1 DEF Shown

LEMMA NormalisedFinds ==
    ASSUME NEW s, NEW q \in Seq(Nat), NEW i \in DOMAIN q, <<s, q[i]>> \notin Meta
    PROVE  \E k \in DOMAIN Normalised(s, q) : Normalised(s, q)[k] = q[i]
  <1>1. i \in Shown(s, q)
    BY DEF Shown
  <1>2. DOMAIN Normalised(s, q) = 1..Cardinality(Shown(s, q))
    BY ShownPositions DEF Pick
  <1>3. PICK k \in 1..Cardinality(Shown(s, q)) : Pick(q, Shown(s, q))[k] = q[i]
    BY <1>1, ShownPositions, PickFinds
  <1> QED
    BY <1>2, <1>3, ShownPositions

-----------------------------------------------------------------------------
(* The lines of a step.                                                     *)

Whole(s) == Normalised(s, Printed(s))

LEMMA PrintedLines ==
    ASSUME NEW s \in Steps
    PROVE  /\ Length[s] \in Nat
           /\ Printed(s) \in Seq(Nat) /\ Len(Printed(s)) = Length[s]
           /\ DOMAIN Printed(s) = 1..Length[s]
           /\ \A n \in 1..Length[s] : Printed(s)[n] = n
           /\ Rising(Printed(s))
  <1>1. Length[s] \in Nat
    BY LengthAssumption
  <1>2. Printed(s) \in [1..Length[s] -> Nat]
    BY <1>1 DEF Printed
  <1> QED
    BY <1>1, <1>2 DEF Printed, Rising

LEMMA InsidePrinted ==
    ASSUME NEW s \in Steps, NEW q, Inside(s, q)
    PROVE  Within(q, Printed(s))
  BY PrintedLines DEF Inside, Within

LEMMA KeptType ==
    ASSUME NEW s \in Steps
    PROVE  KeptLines(s) \in Seq(Nat) /\ Rising(KeptLines(s)) /\ Inside(s, KeptLines(s))
  <1> DEFINE P == {n \in 1..Length[s] : n + Kept > Length[s]}
  <1>1. P \in SUBSET (1..Len(Printed(s)))
    BY PrintedLines
  <1> HIDE DEF P
  <1>2. KeptLines(s) = Pick(Printed(s), P)
    BY DEF KeptLines, P
  <1>3. KeptLines(s) \in Seq(Nat) /\ Rising(KeptLines(s))
    BY <1>1, <1>2, PrintedLines, PickType, PickRises
  <1>4. Inside(s, KeptLines(s))
    <2> SUFFICES ASSUME NEW k \in DOMAIN KeptLines(s) PROVE KeptLines(s)[k] \in 1..Length[s]
      BY DEF Inside
    <2>1. \E i \in P : KeptLines(s)[k] = Printed(s)[i]
      BY <1>1, <1>2, PrintedLines, PickWithin
    <2> QED
      BY <1>1, <2>1, PrintedLines
  <1> QED
    BY <1>3, <1>4

-----------------------------------------------------------------------------
(* The invariant of the types: what a callback of each type carries.        *)

Carries(type, g) ==
    \/ type = "log_batch" /\ \E n \in 1..Length[g.step] : g.lines = <<n>>
    \/ type = "step_complete" /\ g.lines = Printed(g.step)
    \/ type = "pipeline_complete" /\ g.lines = KeptLines(g.step)

GroupsOf(type) == {g \in Group : Carries(type, g)}

MessageOK(m) ==
    /\ m \in Message
    /\ m.groups \in Seq(GroupsOf(m.type)) /\ m.logs \in Seq(GroupsOf("pipeline_complete"))
    /\ m.type = "step_complete" => m.groups # <<>>

HandlerOK(h) ==
    /\ h \in Handler
    /\ h.todo \in Seq(GroupsOf(h.type)) /\ h.logs \in Seq(GroupsOf("pipeline_complete"))
    /\ h.pc = "append" =>
         /\ h.type = "log_batch"
         /\ \A s \in Steps : h.writes[s] # None => h.writes[s].row.lines # <<>>
    /\ h.pc \in {"save_lock", "save_read", "save_commit"} =>
         h.type # "log_batch" /\ h.todo # <<>>
    /\ h.pc \in {"finalize", "parse"} => h.type = "pipeline_complete"

TablesOK ==
    /\ streamed \in [Steps -> Nat]
    /\ ended \subseteq Steps
    /\ received \in 0..MaxDeliveries
    /\ logs \in [Steps -> Seq(Row)]
    /\ cursor \in [Steps -> Nat]
    /\ finished \subseteq Steps
    /\ reported \subseteq finished
    /\ completed \in 0..Cardinality(Steps)
    /\ terminal \in BOOLEAN
    /\ exposed \subseteq Steps

TypeInv ==
    /\ TablesOK
    /\ \A m \in sent : MessageOK(m)
    /\ req \in [Requests -> Handler]
    /\ \A r \in Requests : HandlerOK(req[r])

\* What a callback carries: lines of the step, in order.
LEMMA CarriedLines ==
    ASSUME NEW type, NEW g \in GroupsOf(type)
    PROVE  /\ g.step \in Steps /\ g.lines \in Seq(Nat)
           /\ Rising(g.lines) /\ Inside(g.step, g.lines)
  <1>1. g.step \in Steps /\ g.lines \in Seq(Nat) /\ Carries(type, g)
    BY DEF GroupsOf, Group, Lines
  <1>2. CASE \E n \in 1..Length[g.step] : g.lines = <<n>>
    BY <1>1, <1>2, PrintedLines DEF Rising, Inside
  <1>3. CASE g.lines = Printed(g.step)
    BY <1>1, <1>3, PrintedLines DEF Inside
  <1>4. CASE g.lines = KeptLines(g.step)
    BY <1>1, <1>4, KeptType
  <1> QED
    BY <1>1, <1>2, <1>3, <1>4 DEF Carries

LEMMA BatchOK ==
    ASSUME TypeInv, NEW order \in Orders, SendBatch(order)
    PROVE  TypeInv'
  <1> DEFINE groups == [i \in DOMAIN order |->
                          [step |-> order[i], lines |-> <<streamed[order[i]] + 1>>]]
             m == [type |-> "log_batch", logs |-> <<>>, groups |-> groups]
  <1>1. PICK n \in Nat : order \in [1..n -> Steps]
    BY StepsAssumption, FS_CardinalityType DEF Orders
  <1>2. ASSUME NEW i \in 1..n PROVE groups[i] \in GroupsOf("log_batch")
    <2>1. order[i] \in Steps /\ groups[i] = [step |-> order[i], lines |-> <<streamed[order[i]] + 1>>]
      BY <1>1
    <2>2. streamed[order[i]] \in Nat /\ streamed[order[i]] < Length[order[i]]
      BY <1>1, <2>1 DEF SendBatch, TypeInv, TablesOK
    <2>3. streamed[order[i]] + 1 \in 1..Length[order[i]]
      BY <2>1, <2>2, PrintedLines
    <2>4. <<streamed[order[i]] + 1>> \in Seq(Nat)
      BY <2>2
    <2>5. PICK x \in 1..Length[order[i]] :
            <<x>> \in Seq(Nat) /\ groups[i] = [step |-> order[i], lines |-> <<x>>]
      BY <2>1, <2>3, <2>4
    <2> DEFINE g == groups[i]
               line == <<x>>
    <2> HIDE DEF groups
    <2>6. g \in Group /\ g.step = order[i] /\ g.lines = line
      <3>1. line \in Seq(Nat) /\ g = [step |-> order[i], lines |-> line]
        BY <2>5
      <3> HIDE DEF g, line
      <3> QED
        BY <2>1, <3>1 DEF Group, Lines
    <2> QED
      BY <2>5, <2>6 DEF GroupsOf, Carries
  <1>3. groups \in Seq(GroupsOf("log_batch"))
    BY <1>1, <1>2, SeqDef
  <1>4. MessageOK(m)
    <2> HIDE DEF groups
    <2>1. groups \in Seq(Group)
      BY <1>3, SeqMonotonic DEF GroupsOf
    <2>2. m.type = "log_batch" /\ m.groups = groups /\ m.logs = <<>>
      OBVIOUS
    <2>3. \A S : <<>> \in Seq(S)
      BY EmptySeq
    <2>4. m \in Message
      BY <2>1, <2>3 DEF Message, Source
    <2> QED
      BY <1>3, <2>2, <2>3, <2>4 DEF MessageOK
  <1> HIDE DEF m, groups
  <1>5. sent' = sent \cup {m}
    BY DEF SendBatch, Send, m, groups
  <1>6. streamed' \in [Steps -> Nat]
    BY DEF SendBatch, TypeInv, TablesOK
  <1> QED
    BY <1>4, <1>5, <1>6 DEF SendBatch, rows, TypeInv, TablesOK

LEMMA StepCompleteOK ==
    ASSUME TypeInv, NEW s \in Steps, SendStepComplete(s)
    PROVE  TypeInv'
  <1> DEFINE g == [step |-> s, lines |-> Printed(s)]
             m == [type |-> "step_complete", logs |-> <<>>, groups |-> <<g>>]
  <1>1. g \in GroupsOf("step_complete") /\ g \in Group
    BY PrintedLines DEF GroupsOf, Group, Lines, Carries
  <1> HIDE DEF g
  <1>2. /\ <<g>> \in Seq(Group) /\ <<g>> \in Seq(GroupsOf("step_complete")) /\ <<g>> # <<>>
        /\ \A S : <<>> \in Seq(S)
    BY <1>1, EmptySeq
  <1>3. MessageOK(m)
    BY <1>2 DEF MessageOK, Message, Source
  <1> HIDE DEF m
  <1>4. sent' = sent \cup {m} /\ ended' = ended \cup {s}
    BY DEF SendStepComplete, Send, m, g
  <1> QED
    BY <1>3, <1>4 DEF SendStepComplete, rows, TypeInv, TablesOK

LEMMA PipelineCompleteOK ==
    ASSUME TypeInv, SendPipelineComplete
    PROVE  TypeInv'
  <1> DEFINE P == {i \in DOMAIN Order : Order[i] \in Listed}
             m == [type |-> "pipeline_complete", logs |-> FinalGroups,
                   groups |-> Pick(FinalGroups, P)]
             S == GroupsOf("pipeline_complete")
  <1>1. Order \in [1..Len(Order) -> Steps] /\ Len(Order) \in Nat /\ DOMAIN Order = 1..Len(Order)
    BY StepsAssumption, LenProperties
  <1>2. \A i \in 1..Len(Order) : FinalGroups[i] \in S
    BY <1>1, KeptType DEF FinalGroups, GroupsOf, Group, Lines, Carries
  <1> HIDE DEF S
  <1>3. FinalGroups \in Seq(S) /\ Len(FinalGroups) = Len(Order)
    <2>1. FinalGroups \in [1..Len(Order) -> S]
      BY <1>1, <1>2 DEF FinalGroups
    <2> QED
      BY <1>1, <2>1, SeqDef
  <1>4. Pick(FinalGroups, P) \in Seq(S)
    <2>1. P \in SUBSET (1..Len(FinalGroups))
      BY <1>1, <1>3
    <2> HIDE DEF P
    <2> QED
      BY <1>3, <2>1, PickType
  <1>5. FinalGroups \in Seq(Group) /\ Pick(FinalGroups, P) \in Seq(Group)
    BY <1>3, <1>4, SeqMonotonic DEF S, GroupsOf
  <1>6. MessageOK(m)
    <2> HIDE DEF P
    <2> QED
      BY <1>3, <1>4, <1>5 DEF MessageOK, Message, Source, S
  <1> HIDE DEF m
  <1>7. sent' = sent \cup {m}
    BY DEF SendPipelineComplete, Send, m
  <1> QED
    BY <1>6, <1>7 DEF SendPipelineComplete, rows, TypeInv, TablesOK

LEMMA HandlerTyped ==
    ASSUME TypeInv, NEW r \in Requests, NEW h, Become(r, h), HandlerOK(h),
           TablesOK', sent' = sent
    PROVE  TypeInv'
  <1>1. req' = [q \in Requests |-> IF q = r THEN h ELSE req[q]]
    BY DEF Become, TypeInv
  <1>2. \A q \in Requests : HandlerOK(req'[q]) /\ req'[q] \in Handler
    BY <1>1 DEF TypeInv, HandlerOK
  <1> QED
    BY <1>1, <1>2 DEF TypeInv

LEMMA IdleOK == HandlerOK(Idle)
  <1>1. Cardinality(Steps) \in Nat /\ \A S : <<>> \in Seq(S)
    BY StepsAssumption, FS_CardinalityType, EmptySeq
  <1> QED
    BY <1>1 DEF HandlerOK, Handler, Idle, NoWrites, PC, Source

LEMMA HandlerForm ==
    ASSUME NEW h
    PROVE  /\ h \in Handler => Formed(h)
           /\ Formed(h) =>
                (h \in Handler <=>
                   /\ h.pc \in PC /\ h.type \in Source
                   /\ h.todo \in Seq(Group) /\ h.logs \in Seq(Group)
                   /\ h.locks \in SUBSET Steps /\ h.logLocks \in SUBSET Steps
                   /\ h.writes \in [Steps -> Write \cup {None}]
                   /\ h.loaded \in 0..Cardinality(Steps) /\ h.count \in 0..Cardinality(Steps))
  BY DEF Formed, Fields, Handler

LEMMA WritesForm ==
    ASSUME NEW h, Formed(h), \A s \in Steps : h.writes[s] \in Write \cup {None}
    PROVE  h.writes \in [Steps -> Write \cup {None}]
  BY DEF Formed

LEMMA EndedOK ==
    ASSUME NEW h, HandlerOK(h), NEW pc, NEW todo, todo \in Seq(GroupsOf(h.type)),
           \/ pc = "save_lock" /\ h.type # "log_batch" /\ todo # <<>>
           \/ pc = "parse" /\ h.type = "pipeline_complete"
    PROVE  HandlerOK(Ended(h, pc, todo))
  <1> DEFINE e == Ended(h, pc, todo)
  <1>1. 0 \in 0..Cardinality(Steps) /\ todo \in Seq(Group)
    BY StepsAssumption, FS_CardinalityType, SeqMonotonic DEF GroupsOf
  <1>2. Formed(h) /\ h.type \in Source /\ h.logs \in Seq(Group)
    BY HandlerForm DEF HandlerOK
  <1>3. /\ Formed(e) /\ e.pc = pc /\ e.todo = todo /\ e.type = h.type
        /\ e.writes = NoWrites /\ e.locks = {} /\ e.logLocks = {}
    BY <1>2, EndedFormed
  <1>4. e.logs = h.logs /\ e.loaded = 0 /\ e.count = 0
    BY <1>2 DEF Ended, Formed, Fields
  <1>5. NoWrites \in [Steps -> Write \cup {None}] /\ pc \in PC
    BY DEF NoWrites, PC
  <1> HIDE DEF e
  <1>6. e \in Handler
    BY <1>1, <1>2, <1>3, <1>4, <1>5, HandlerForm
  <1> QED
    BY <1>3, <1>4, <1>6 DEF HandlerOK, e

LEMMA HeadAndTail ==
    ASSUME NEW S, NEW q \in Seq(S), q # <<>>
    PROVE  /\ Head(q) \in S /\ Tail(q) \in Seq(S)
           /\ Len(q) > 1 => Tail(q) # <<>>
  <1>1. /\ Head(q) \in S /\ Tail(q) \in Seq(S) /\ Len(Tail(q)) = Len(q) - 1
        /\ Len(q) \in Nat /\ Len(<<>>) = 0
    BY HeadTailProperties, LenProperties, EmptySeq
  <1>2. Len(q) > 1 => Len(Tail(q)) # 0
    BY <1>1
  <1> QED
    BY <1>1, <1>2, Zenon

LEMMA AfterSaveOK ==
    ASSUME NEW h, HandlerOK(h), h.pc = "save_commit"
    PROVE  HandlerOK(AfterSave(h))
  <1>1. /\ h.type # "log_batch" /\ h.todo # <<>> /\ h.todo \in Seq(GroupsOf(h.type))
        /\ h.logs \in Seq(GroupsOf("pipeline_complete")) /\ h.type \in Source
    BY DEF HandlerOK, Handler
  <1>2. CASE h.type = "step_complete"
    BY <1>2, IdleOK DEF AfterSave
  <1>3. CASE h.type = "pipeline_complete" /\ Len(h.todo) > 1
    <2>1. Tail(h.todo) \in Seq(GroupsOf(h.type)) /\ Tail(h.todo) # <<>>
      BY <1>1, <1>3, HeadAndTail
    <2>3. AfterSave(h) = Ended(h, "save_lock", Tail(h.todo))
      BY <1>3 DEF AfterSave
    <2> QED
      BY <1>1, <2>1, <2>3, EndedOK
  <1>4. CASE h.type = "pipeline_complete" /\ ~(Len(h.todo) > 1)
    <2>1. AfterSave(h) = Ended(h, "parse", h.logs)
      BY <1>4 DEF AfterSave
    <2> QED
      BY <1>1, <1>4, <2>1, EndedOK
  <1> QED
    BY <1>1, <1>2, <1>3, <1>4 DEF Source

\* What a commit leaves in the table.
LEMMA AppliedType ==
    ASSUME TypeInv, NEW r \in Requests, NEW s \in Steps
    PROVE  Applied(s, req[r].writes[s]) \in Seq(Row)
  <1> DEFINE w == req[r].writes[s]
  <1>1. logs[s] \in Seq(Row) /\ w \in Write \cup {None}
    BY DEF TypeInv, TablesOK, Handler
  <1> HIDE DEF w
  <1>2. CASE w = None
    BY <1>1, <1>2 DEF Applied, w
  <1>3. CASE w # None
    <2>1. w \in Write /\ w.row \in Row
      BY <1>1, <1>3 DEF Write
    <2>2. Append(logs[s], w.row) \in Seq(Row)
      BY <1>1, <2>1, AppendProperties
    <2>3. [logs[s] EXCEPT ![1] = w.row] \in Seq(Row)
      <3>1. CASE logs[s] = <<>>
        <4>1. [logs[s] EXCEPT ![1] = w.row] = <<>>
          BY <3>1
        <4> QED
          BY <4>1, EmptySeq
      <3>2. CASE logs[s] # <<>>
        <4>1. Len(logs[s]) \in Nat \ {0}
          BY <1>1, <3>2, EmptySeq
        <4>2. 1 \in 1..Len(logs[s])
          BY <4>1
        <4> QED
          BY <1>1, <2>1, <4>2, ExceptSeq
      <3> QED
        BY <3>1, <3>2
    <2> QED
      BY <1>3, <2>2, <2>3 DEF Applied, w
  <1> QED
    BY <1>2, <1>3

LEMMA CommitType ==
    ASSUME TypeInv, NEW r \in Requests, Commit(r)
    PROVE  logs' \in [Steps -> Seq(Row)]
  BY AppliedType DEF Commit

LEMMA StoredType ==
    ASSUME TypeInv, NEW s \in Steps
    PROVE  Stored(s) \in Seq(Nat)
  <1>1. logs[s] \in Seq(Row)
    BY DEF TypeInv, TablesOK
  <1>2. CASE logs[s] = <<>>
    BY <1>2, EmptySeq DEF Stored
  <1>3. CASE logs[s] # <<>>
    <2>1. logs[s][1] \in Row
      BY <1>1, <1>3
    <2> QED
      BY <1>3, <2>1 DEF Stored, Row, Lines
  <1> QED
    BY <1>2, <1>3

LEMMA PutType ==
    ASSUME NEW s, NEW lines \in Seq(Nat), NEW source \in Source
    PROVE  /\ Put(s, lines, source) \in Write
           /\ Put(s, lines, source).row = [lines |-> lines, source |-> source]
           /\ Put(s, lines, source).insert <=> logs[s] = <<>>
  <1>1. [lines |-> lines, source |-> source] \in Row
    BY DEF Row, Lines
  <1> QED
    BY <1>1 DEF Put, Write

LEMMA UpsertType ==
    ASSUME NEW s, NEW raw \in Seq(Nat), NEW source \in Source
    PROVE  Upsert(s, raw, source) \in Write \cup {None}
  <1> DEFINE lines == Normalised(s, raw)
  <1>1. lines \in Seq(Nat)
    BY NormalisedType
  <1>2. Put(s, lines, source) \in Write
    BY <1>1, PutType
  <1> QED
    BY <1>2 DEF Upsert

LEMMA NewLinesType ==
    ASSUME TypeInv, NEW s \in Steps, NEW q \in Seq(Nat), Rising(q)
    PROVE  /\ NewLines(s, q) \in Seq(Nat) /\ Rising(NewLines(s, q))
           /\ \A k \in DOMAIN NewLines(s, q) :
                NewLines(s, q)[k] > cursor[s] /\ \E i \in DOMAIN q : NewLines(s, q)[k] = q[i]
  <1> DEFINE P == {i \in DOMAIN q : q[i] > cursor[s]}
  <1>1. P \in SUBSET (1..Len(q)) /\ \A i \in P : i \in DOMAIN q /\ q[i] > cursor[s]
    BY LenProperties
  <1>2. NewLines(s, q) = Pick(q, P)
    BY DEF NewLines
  <1> HIDE DEF P
  <1> QED
    BY <1>1, <1>2, PickType, PickRises, PickWithin

LEMMA ReceiveOK ==
    ASSUME TypeInv, NEW r \in Requests, NEW m \in sent, Receive(r, m)
    PROVE  TypeInv'
  <1>1. TablesOK' /\ sent' = sent
    BY BoundAssumption DEF Receive, TypeInv, TablesOK, engine, rows
  <1>2. CASE terminal
    BY <1>1, <1>2 DEF Receive, TypeInv
  <1>3. CASE ~terminal
    <2> DEFINE h == [Idle EXCEPT !.pc = FirstPC(m.type), !.type = m.type,
                                 !.todo = m.groups, !.logs = m.logs]
    <2>1. Become(r, h)
      BY <1>3 DEF Receive
    <2>2. MessageOK(m)
      BY DEF TypeInv
    <2>3. /\ Formed(h) /\ h.pc = FirstPC(m.type) /\ h.type = m.type
          /\ h.todo = m.groups /\ h.logs = m.logs
          /\ h.writes = NoWrites /\ h.locks = {} /\ h.logLocks = {}
          /\ h.loaded = 0 /\ h.count = 0
      BY DEF Formed, Fields, Idle, NoWrites
    <2> HIDE DEF h
    <2>4. m.type \in Source /\ m.groups \in Seq(Group) /\ m.logs \in Seq(Group)
      BY <2>2 DEF MessageOK, Message
    <2>5. h \in Handler
      <3>1. 0 \in 0..Cardinality(Steps) /\ NoWrites \in [Steps -> Write \cup {None}]
        BY StepsAssumption, FS_CardinalityType DEF NoWrites
      <3>2. FirstPC(m.type) \in PC
        BY <2>4 DEF FirstPC, Source, PC
      <3> QED
        BY <2>3, <2>4, <3>1, <3>2, HandlerForm
    <2>6. HandlerOK(h)
      <3>1. \A s \in Steps : h.writes[s] = None
        BY <2>3 DEF NoWrites
      <3>2. CASE m.type = "log_batch"
        BY <2>2, <2>3, <2>5, <3>1, <3>2 DEF HandlerOK, MessageOK, FirstPC
      <3>3. CASE m.type = "step_complete"
        BY <2>2, <2>3, <2>5, <3>1, <3>3 DEF HandlerOK, MessageOK, FirstPC
      <3>4. CASE m.type = "pipeline_complete"
        BY <2>2, <2>3, <2>5, <3>1, <3>4 DEF HandlerOK, MessageOK, FirstPC
      <3> QED
        BY <2>4, <3>2, <3>3, <3>4 DEF Source
    <2> QED
      BY <1>1, <2>1, <2>6, HandlerTyped
  <1> QED
    BY <1>2, <1>3

LEMMA AppendOK ==
    ASSUME TypeInv, NEW r \in Requests, AppendGroup(r)
    PROVE  TypeInv'
  <1> DEFINE old == req[r]
             g == Head(old.todo)
             new == NewLines(g.step, g.lines)
             write == IF Closed(g.step) \/ new = <<>> THEN old.writes[g.step]
                      ELSE Put(g.step, Stored(g.step) \o new, "log_batch")
             locks == old.locks \cup {g.step}
             h == [old EXCEPT !.todo = Tail(@), !.locks = locks, !.writes[g.step] = write]
  <1>1. old.pc = "append" /\ old.todo # <<>> /\ Become(r, h) /\ TablesOK' /\ sent' = sent
    BY DEF AppendGroup, At, Busy, TypeInv, TablesOK, engine, rows
  <1>2. HandlerOK(old) /\ old \in Handler
    BY DEF TypeInv
  <1>3. /\ g \in GroupsOf(old.type) /\ Tail(old.todo) \in Seq(GroupsOf(old.type))
        /\ g.step \in Steps /\ g.lines \in Seq(Nat) /\ Rising(g.lines)
    BY <1>1, <1>2, HeadAndTail, CarriedLines DEF HandlerOK
  <1>4. /\ write \in Write \cup {None}
        /\ write # None => write.row.lines # <<>>
    <2>1. CASE Closed(g.step) \/ new = <<>>
      <3>1. write = old.writes[g.step]
        BY <2>1
      <3>2. old.writes[g.step] \in Write \cup {None}
        BY <1>2, <1>3 DEF Handler
      <3> QED
        BY <1>1, <1>2, <1>3, <3>1, <3>2 DEF HandlerOK
    <2>2. CASE ~(Closed(g.step) \/ new = <<>>)
      <3> DEFINE lines == Stored(g.step) \o new
      <3>1. new \in Seq(Nat) /\ Stored(g.step) \in Seq(Nat)
        BY <1>3, NewLinesType, StoredType
      <3>2. lines \in Seq(Nat) /\ lines # <<>>
        BY <2>2, <3>1, ConcatProperties, ConcatEqualIffEmpty
      <3>3. write = Put(g.step, lines, "log_batch")
        BY <2>2
      <3> HIDE DEF lines, write
      <3>4. write \in Write /\ write.row = [lines |-> lines, source |-> "log_batch"]
        BY <3>2, <3>3, PutType DEF Source
      <3> QED
        BY <3>2, <3>4
    <2> QED
      BY <2>1, <2>2
  <1> HIDE DEF write, g
  <1>5. /\ Formed(h) /\ h.pc = old.pc /\ h.type = old.type /\ h.logs = old.logs
        /\ h.todo = Tail(old.todo) /\ h.locks = locks /\ h.logLocks = old.logLocks
        /\ \A s \in Steps : h.writes[s] = IF s = g.step THEN write ELSE old.writes[s]
        /\ h.loaded = old.loaded /\ h.count = old.count
    <2>1. Formed(old)
      BY <1>2, HandlerForm
    <2> DEFINE rest == Tail(old.todo)
    <2>2. h = [old EXCEPT !.todo = rest, !.locks = locks, !.writes[g.step] = write]
      OBVIOUS
    <2> HIDE DEF locks, h, old, rest
    <2>3. /\ Formed(h) /\ h.pc = old.pc /\ h.type = old.type /\ h.logs = old.logs
          /\ h.todo = rest /\ h.locks = locks /\ h.logLocks = old.logLocks
      BY <2>1, <2>2 DEF Formed, Fields
    <2>4. /\ \A s \in Steps : h.writes[s] = IF s = g.step THEN write ELSE old.writes[s]
          /\ h.loaded = old.loaded /\ h.count = old.count
      BY <2>1, <2>2 DEF Formed, Fields
    <2> QED
      BY <2>3, <2>4 DEF rest
  <1> HIDE DEF h
  <1>6. h \in Handler
    <2>1. Tail(old.todo) \in Seq(Group)
      BY <1>3, SeqMonotonic DEF GroupsOf
    <2>2. h.writes \in [Steps -> Write \cup {None}]
      <3>1. \A s \in Steps : old.writes[s] \in Write \cup {None}
        BY <1>2 DEF Handler
      <3>2. \A s \in Steps : h.writes[s] \in Write \cup {None}
        BY <1>4, <1>5, <3>1
      <3> QED
        BY <1>5, <3>2, WritesForm
    <2>3. locks \in SUBSET Steps
      BY <1>2, <1>3 DEF Handler
    <2> HIDE DEF locks
    <2> QED
      BY <1>2, <1>5, <2>1, <2>2, <2>3, HandlerForm
  <1>8. HandlerOK(h)
    <2>1. \A s \in Steps : h.writes[s] # None => h.writes[s].row.lines # <<>>
      BY <1>1, <1>2, <1>4, <1>5 DEF HandlerOK
    <2> QED
      BY <1>1, <1>2, <1>3, <1>5, <1>6, <2>1 DEF HandlerOK
  <1> QED
    BY <1>1, <1>8, HandlerTyped

LEMMA CommitOK ==
    ASSUME TypeInv, NEW r \in Requests, AppendCommit(r) \/ ParseCommit(r) \/ SaveCommit(r)
    PROVE  TypeInv'
  <1>1. logs' \in [Steps -> Seq(Row)] /\ sent' = sent /\ HandlerOK(req[r])
    BY CommitType DEF AppendCommit, ParseCommit, SaveCommit, engine, TypeInv
  <1>2. CASE AppendCommit(r)
    <2>1. ASSUME NEW s \in Steps, req[r].writes[s] # None
          PROVE  LET q == req[r].writes[s].row.lines IN q[Len(q)] \in Nat
      <3> DEFINE q == req[r].writes[s].row.lines
      <3>1. q \in Seq(Nat) /\ q # <<>>
        BY <1>1, <1>2, <2>1 DEF HandlerOK, Handler, Write, Row, Lines, AppendCommit, At
      <3> HIDE DEF q
      <3>2. Len(q) \in Nat \ {0}
        BY <3>1, EmptySeq
      <3>3. q[Len(q)] \in Nat
        BY <3>1, <3>2, ElementOfSeq
      <3> QED
        BY <3>3 DEF q
    <2>2. cursor' \in [Steps -> Nat]
      BY <1>2, <2>1 DEF AppendCommit, TypeInv, TablesOK
    <2>3. TablesOK' /\ Become(r, Idle)
      BY <1>1, <1>2, <2>2 DEF AppendCommit, TypeInv, TablesOK, engine
    <2> QED
      BY <1>1, <2>3, IdleOK, HandlerTyped
  <1>3. CASE ParseCommit(r)
    <2>1. TablesOK' /\ Become(r, Idle)
      BY <1>1, <1>3 DEF ParseCommit, TypeInv, TablesOK, engine
    <2> QED
      BY <1>1, <2>1, IdleOK, HandlerTyped
  <1>4. CASE SaveCommit(r)
    <2>1. Current(r) \in Steps /\ HandlerOK(AfterSave(req[r]))
      <3>1. req[r].pc = "save_commit"
        BY <1>4 DEF SaveCommit, At
      <3>2. Head(req[r].todo) \in GroupsOf(req[r].type)
        BY <1>1, <3>1, HeadAndTail DEF HandlerOK
      <3> QED
        BY <1>1, <3>1, <3>2, CarriedLines, AfterSaveOK DEF Current
    <2>2. req[r].count \in 0..Cardinality(Steps)
      BY <1>1 DEF HandlerOK, Handler
    <2>3. TablesOK' /\ Become(r, AfterSave(req[r]))
      BY <1>1, <1>4, <2>1, <2>2 DEF SaveCommit, TypeInv, TablesOK, engine
    <2> QED
      BY <1>1, <2>1, <2>3, HandlerTyped
  <1> QED
    BY <1>2, <1>3, <1>4

LEMMA ReleaseOK ==
    ASSUME TypeInv, NEW r \in Requests, Fails(r) \/ DeadlockVictim(r) \/ Finalize(r)
    PROVE  TypeInv'
  <1>1. HandlerOK(req[r]) /\ TablesOK' /\ sent' = sent
    BY DEF Fails, AppendFails, SaveFails, FinalizeFails, ParseFails, DeadlockVictim,
         Finalize, TypeInv, TablesOK, engine, rows
  <1>2. CASE AppendFails(r) \/ ParseFails(r) \/ DeadlockVictim(r)
    <2>1. Become(r, Idle)
      BY <1>2 DEF AppendFails, ParseFails, DeadlockVictim
    <2> QED
      BY <1>1, <2>1, IdleOK, HandlerTyped
  <1>3. CASE SaveFails(r)
    <2>1. Become(r, AfterSave(req[r])) /\ req[r].pc = "save_commit"
      BY <1>3 DEF SaveFails, At
    <2> QED
      BY <1>1, <2>1, AfterSaveOK, HandlerTyped
  <1>4. CASE (Finalize(r) /\ ~Busy(r)) \/ FinalizeFails(r)
    <2> DEFINE h == Ended(req[r], "parse", req[r].logs)
    <2>1. Become(r, h) /\ req[r].pc = "finalize"
      BY <1>4 DEF Finalize, FinalizeFails, At
    <2>2. req[r].type = "pipeline_complete" /\ req[r].logs \in Seq(GroupsOf(req[r].type))
      BY <1>1, <2>1 DEF HandlerOK
    <2>3. HandlerOK(h)
      BY <1>1, <2>2, EndedOK
    <2> HIDE DEF h
    <2> QED
      BY <1>1, <2>1, <2>3, HandlerTyped
  <1>5. CASE Finalize(r) /\ Busy(r)
    <2> DEFINE h == [req[r] EXCEPT !.pc = "save_lock"]
    <2>1. Become(r, h) /\ req[r].pc = "finalize" /\ req[r].todo # <<>>
      BY <1>5 DEF Finalize, At, Busy
    <2>2. req[r] \in Handler /\ req[r].type = "pipeline_complete"
      BY <1>1, <2>1 DEF HandlerOK
    <2>3. /\ h \in Handler /\ h.pc = "save_lock" /\ h.type = req[r].type
          /\ h.todo = req[r].todo /\ h.logs = req[r].logs
      BY <2>2 DEF Handler, PC
    <2> HIDE DEF h
    <2>4. HandlerOK(h)
      BY <1>1, <2>1, <2>2, <2>3 DEF HandlerOK
    <2> QED
      BY <1>1, <2>1, <2>4, HandlerTyped
  <1> QED
    BY <1>2, <1>3, <1>4, <1>5 DEF Fails

LEMMA SaveOK ==
    ASSUME TypeInv, NEW r \in Requests, SaveLock(r) \/ SaveRead(r)
    PROVE  TypeInv'
  <1> DEFINE old == req[r]
             g == Head(old.todo)
  <1>1. /\ HandlerOK(old) /\ TablesOK' /\ sent' = sent
        /\ old.pc \in {"save_lock", "save_read"}
    BY DEF SaveLock, SaveRead, At, TypeInv, TablesOK, engine, rows
  <1>2. /\ old \in Handler /\ old.type # "log_batch" /\ old.type \in Source
        /\ old.todo # <<>> /\ g \in GroupsOf(old.type)
        /\ g.step \in Steps /\ g.lines \in Seq(Nat)
    BY <1>1, HeadAndTail, CarriedLines DEF HandlerOK, Handler
  <1>3. CASE SaveLock(r)
    <2> DEFINE h == [old EXCEPT !.pc = "save_read", !.locks = {g.step}]
    <2>1. Become(r, h)
      BY <1>3 DEF SaveLock, Current
    <2> HIDE DEF g
    <2>2. /\ h \in Handler /\ h.pc = "save_read" /\ h.type = old.type
          /\ h.todo = old.todo /\ h.logs = old.logs
      BY <1>2 DEF Handler, PC
    <2> HIDE DEF h
    <2>3. HandlerOK(h)
      BY <1>1, <1>2, <2>2 DEF HandlerOK
    <2> QED
      BY <1>1, <2>1, <2>3, HandlerTyped
  <1>4. CASE SaveRead(r)
    <2> DEFINE keys == LogKeys(g.step, g.lines)
               write == Upsert(g.step, g.lines, old.type)
               number == Count(g.step)
               h == [old EXCEPT !.pc = "save_commit", !.logLocks = keys,
                                !.writes[g.step] = write,
                                !.loaded = completed, !.count = number]
    <2>1. Become(r, h)
      BY <1>4 DEF SaveRead
    <2>2. write \in Write \cup {None} /\ keys \in SUBSET Steps
      BY <1>2, UpsertType DEF LogKeys
    <2>3. number \in 0..Cardinality(Steps) /\ completed \in 0..Cardinality(Steps)
      <3>1. finished \cup {g.step} \in SUBSET Steps /\ completed \in 0..Cardinality(Steps)
        BY <1>2 DEF TypeInv, TablesOK
      <3>2. IsFiniteSet(finished \cup {g.step})
            /\ Cardinality(finished \cup {g.step}) <= Cardinality(Steps)
        BY <3>1, StepsAssumption, FS_Subset
      <3>3. Cardinality(finished \cup {g.step}) \in Nat /\ Cardinality(Steps) \in Nat
        BY <3>2, StepsAssumption, FS_CardinalityType
      <3> QED
        BY <3>1, <3>2, <3>3 DEF Count
    <2> HIDE DEF g, keys, write, number
    <2>4. /\ Formed(h) /\ h.pc = "save_commit" /\ h.type = old.type /\ h.todo = old.todo
          /\ h.logs = old.logs /\ h.locks = old.locks /\ h.logLocks = keys
          /\ \A s \in Steps : h.writes[s] = IF s = g.step THEN write ELSE old.writes[s]
          /\ h.loaded = completed /\ h.count = number
      <3>1. Formed(old)
        BY <1>2, HandlerForm
      <3> QED
        BY <3>1 DEF Formed, Fields
    <2> HIDE DEF h
    <2>5. h.writes \in [Steps -> Write \cup {None}]
      <3>1. \A s \in Steps : old.writes[s] \in Write \cup {None}
        BY <1>2 DEF Handler
      <3>2. \A s \in Steps : h.writes[s] \in Write \cup {None}
        BY <2>2, <2>4, <3>1
      <3> QED
        BY <2>4, <3>2, WritesForm
    <2>6. h \in Handler
      BY <1>2, <2>2, <2>3, <2>4, <2>5, HandlerForm DEF PC
    <2>7. HandlerOK(h)
      BY <1>1, <1>2, <2>4, <2>6 DEF HandlerOK
    <2> QED
      BY <1>1, <2>1, <2>7, HandlerTyped
  <1> QED
    BY <1>3, <1>4

LEMMA ParseOK ==
    ASSUME TypeInv, NEW r \in Requests, ParseStep(r)
    PROVE  TypeInv'
  <1> DEFINE old == req[r]
             g == Head(old.todo)
             keys == IF Known(g.step) THEN LogKeys(g.step, g.lines) ELSE {}
             write == IF keys = {} THEN old.writes[g.step]
                      ELSE Upsert(g.step, g.lines, "pipeline_complete")
             logLocks == old.logLocks \cup keys
             h == [old EXCEPT !.todo = Tail(@), !.logLocks = logLocks, !.writes[g.step] = write]
  <1>1. HandlerOK(old) /\ old.pc = "parse" /\ old.todo # <<>> /\ sent' = sent
    BY DEF ParseStep, At, Busy, TypeInv, engine
  <1>2. Become(r, h)
    BY Zenon DEF ParseStep, Become
  <1>3. /\ old \in Handler /\ old.type = "pipeline_complete"
        /\ g \in GroupsOf(old.type) /\ Tail(old.todo) \in Seq(GroupsOf(old.type))
        /\ g.step \in Steps /\ g.lines \in Seq(Nat)
    BY <1>1, HeadAndTail, CarriedLines DEF HandlerOK
  <1>4. write \in Write \cup {None} /\ keys \in SUBSET Steps
    <2>1. keys \in SUBSET Steps
      BY <1>3 DEF LogKeys
    <2>2. Upsert(g.step, g.lines, "pipeline_complete") \in Write \cup {None}
      BY <1>3, UpsertType DEF Source
    <2>3. old.writes[g.step] \in Write \cup {None}
      BY <1>3 DEF Handler
    <2> HIDE DEF keys, g
    <2> QED
      BY <2>1, <2>2, <2>3
  <1>5. TablesOK'
    <2>1. exposed' = exposed \cup (keys \ finished)
      BY DEF ParseStep
    <2> HIDE DEF keys
    <2>2. exposed' \subseteq Steps
      BY <1>4, <2>1 DEF TypeInv, TablesOK
    <2> QED
      BY <2>2 DEF ParseStep, TypeInv, TablesOK, engine
  <1>6. logLocks \in SUBSET Steps
    <2> HIDE DEF keys
    <2> QED
      BY <1>3, <1>4 DEF Handler
  <1> HIDE DEF g, write, logLocks
  <1>7. /\ Formed(h) /\ h.pc = old.pc /\ h.type = old.type /\ h.logs = old.logs
        /\ h.todo = Tail(old.todo) /\ h.locks = old.locks /\ h.logLocks = logLocks
        /\ \A s \in Steps : h.writes[s] = IF s = g.step THEN write ELSE old.writes[s]
        /\ h.loaded = old.loaded /\ h.count = old.count
    <2>1. Formed(old)
      BY <1>3, HandlerForm
    <2> HIDE DEF keys
    <2> QED
      BY <2>1 DEF Formed, Fields
  <1> HIDE DEF h
  <1>8. h.writes \in [Steps -> Write \cup {None}]
    <2>1. \A s \in Steps : old.writes[s] \in Write \cup {None}
      BY <1>3 DEF Handler
    <2>2. \A s \in Steps : h.writes[s] \in Write \cup {None}
      BY <1>4, <1>7, <2>1
    <2> QED
      BY <1>7, <2>2, WritesForm
  <1>9. Tail(old.todo) \in Seq(Group)
    BY <1>3, SeqMonotonic DEF GroupsOf
  <1>10. h \in Handler
    BY <1>3, <1>6, <1>7, <1>8, <1>9, HandlerForm
  <1>11. HandlerOK(h)
    BY <1>1, <1>3, <1>7, <1>10 DEF HandlerOK
  <1> QED
    BY <1>1, <1>2, <1>5, <1>11, HandlerTyped

LEMMA TypeStep == TypeInv /\ [Next]_vars => TypeInv'
  <1> SUFFICES ASSUME TypeInv, [Next]_vars PROVE TypeInv'
    OBVIOUS
  <1>1. CASE Engine
    BY <1>1, BatchOK, StepCompleteOK, PipelineCompleteOK DEF Engine
  <1>2. ASSUME NEW r \in Requests, Handle(r) \/ Fails(r) \/ \E m \in sent : Receive(r, m)
        PROVE  TypeInv'
    BY <1>2, ReceiveOK, AppendOK, CommitOK, ReleaseOK, SaveOK, ParseOK DEF Handle
  <1>3. CASE UNCHANGED vars
    BY <1>3 DEF TypeInv, TablesOK, vars, engine, rows
  <1> QED
    BY <1>1, <1>2, <1>3 DEF Next

LEMMA InitTyped == Init => TypeInv
  <1> SUFFICES ASSUME Init PROVE TypeInv
    OBVIOUS
  <1>1. 0 \in 0..Cardinality(Steps) /\ 0 \in 0..MaxDeliveries /\ \A S : <<>> \in Seq(S)
    BY StepsAssumption, FS_CardinalityType, BoundAssumption, EmptySeq
  <1>2. TablesOK
    BY <1>1 DEF Init, TablesOK
  <1>3. req = [r \in Requests |-> Idle] /\ Idle \in Handler /\ sent = {}
    BY IdleOK DEF Init, HandlerOK
  <1>4. req \in [Requests -> Handler] /\ \A r \in Requests : HandlerOK(req[r])
    BY <1>3, IdleOK
  <1> QED
    BY <1>2, <1>3, <1>4 DEF TypeInv

LEMMA TypeInvCorrect == Spec => []TypeInv
  BY InitTyped, TypeStep, PTL DEF Spec

\* Every variable holds a value of its kind: the rows of step_logs, what the
\* callbacks carry and what each handler of receive_result has in hand.
THEOREM TypeCorrect == Spec => []TypeOK
  <1>1. TypeInv => TypeOK
    BY DEF TypeInv, TablesOK, TypeOK, MessageOK
  <1> QED
    BY <1>1, TypeInvCorrect, PTL

-----------------------------------------------------------------------------
(* The invariant of what is stored.                                         *)

\* What a row of each source holds.
Faithful(s, row) ==
    /\ row.source = "log_batch" => Rising(row.lines) /\ Inside(s, row.lines)
    /\ row.source = "step_complete" => row.lines = Whole(s)
    /\ row.source = "pipeline_complete" => row.lines = Normalised(s, KeptLines(s))

\* While a step runs only its batches wrote its log, none past the cursor;
\* once it is reported its log is whole.
Sound(s) ==
    /\ logs[s] # <<>> =>
         /\ Faithful(s, logs[s][1])
         /\ logs[s][1].source = "log_batch" => \A i \in DOMAIN Stored(s) : Stored(s)[i] <= cursor[s]
         /\ s \notin finished => logs[s][1].source = "log_batch"
    /\ s \in reported /\ Whole(s) # <<>> => Stored(s) = Whole(s)

First(t) == IF t = <<>> THEN <<>> ELSE t[1].lines

\* The lines of q the user sees are in t.
Retains(s, q, t) ==
    \A i \in DOMAIN q : <<s, q[i]>> \notin Meta => \E k \in DOMAIN t : t[k] = q[i]

\* A row that takes the place of a log has its lines, or is a cut log that is no
\* smaller.
Keeps(s, old, row) ==
    \/ Retains(s, old, row.lines)
    \/ row.source = "pipeline_complete" /\ Size(s, old) <= Size(s, row.lines)

\* A write of a source fits the rows t of a step, and drops no line it may not.
Prepared(s, w, source, t, done) ==
    /\ w.insert <=> t = <<>>
    /\ w.row.source = source /\ Faithful(s, w.row)
    /\ Keeps(s, First(t), w.row)
    /\ s \in done /\ Whole(s) # <<>> => w.row.lines = Whole(s)

\* A write that waits for its commit may be made now as well as when its
\* transaction looked at the rows.
Ready(h, s, t, done) ==
    h.writes[s] # None =>
        /\ Prepared(s, h.writes[s], h.type, t, done)
        /\ h.pc = "save_commit" => s = Head(h.todo).step

\* The whole log of a step is never turned down.
Reports(h, open) ==
    h.pc = "save_commit" /\ h.type = "step_complete" =>
        LET s == Head(h.todo).step IN
          s \notin open /\ Whole(s) # <<>> => h.writes[s] # None

ContentInv ==
    /\ \A s \in Steps \ exposed : Sound(s)
    /\ \A r \in Requests, s \in Steps \ exposed : Ready(req[r], s, logs[s], reported)
    /\ \A r \in Requests : Reports(req[r], exposed)

LEMMA RowLines ==
    ASSUME TypeInv, NEW s \in Steps
    PROVE  /\ Stored(s) = First(logs[s])
           /\ Stored(s) \in Seq(Nat)
           /\ logs[s] # <<>> =>
                /\ logs[s][1] \in Row /\ logs[s][1].source \in Source
                /\ Stored(s) = logs[s][1].lines
  <1>1. logs[s] \in Seq(Row)
    BY DEF TypeInv, TablesOK
  <1>2. logs[s] # <<>> => logs[s][1] \in Row
    <2> SUFFICES ASSUME logs[s] # <<>> PROVE logs[s][1] \in Row
      OBVIOUS
    <2>1. Len(logs[s]) \in Nat \ {0}
      BY <1>1, EmptySeq
    <2>2. 1 \in 1..Len(logs[s])
      BY <2>1
    <2> QED
      BY <1>1, <2>2, ElementOfSeq
  <1> QED
    BY <1>2, StoredType DEF Stored, First, Row

\* Whatever its source, a row has its lines in order, and none that the step
\* did not print.
LEMMA FaithfulLines ==
    ASSUME NEW s \in Steps, NEW row \in Row, Faithful(s, row)
    PROVE  /\ row.lines \in Seq(Nat) /\ Rising(row.lines) /\ Inside(s, row.lines)
  <1>1. row.lines \in Seq(Nat) /\ row.source \in Source
    BY DEF Row, Lines
  <1>2. ASSUME NEW q \in Seq(Nat), Rising(q), Inside(s, q)
        PROVE  Rising(Normalised(s, q)) /\ Inside(s, Normalised(s, q))
    <2>1. ASSUME NEW k \in DOMAIN Normalised(s, q)
          PROVE  Normalised(s, q)[k] \in 1..Length[s]
      <3>1. PICK i \in DOMAIN q : Normalised(s, q)[k] = q[i] /\ <<s, q[i]>> \notin Meta
        BY NormalisedWithin
      <3> QED
        BY <1>2, <3>1 DEF Inside
    <2>2. Inside(s, Normalised(s, q))
      BY <2>1 DEF Inside
    <2> QED
      BY <1>2, <2>2, NormalisedType
  <1>3. Inside(s, Printed(s))
    BY PrintedLines DEF Inside
  <1>4. Rising(row.lines) /\ Inside(s, row.lines)
    <2>1. CASE row.source = "log_batch"
      BY <2>1 DEF Faithful
    <2>2. CASE row.source = "step_complete"
      BY <1>2, <1>3, <2>2, PrintedLines DEF Faithful, Whole
    <2>3. CASE row.source = "pipeline_complete"
      BY <1>2, <2>3, KeptType DEF Faithful
    <2> QED
      BY <1>1, <2>1, <2>2, <2>3 DEF Source
  <1> QED
    BY <1>1, <1>4

\* The whole log has every line a user could have seen before.
LEMMA WholeRetains ==
    ASSUME NEW s \in Steps, NEW q, Inside(s, q)
    PROVE  Retains(s, q, Whole(s))
  <1> SUFFICES ASSUME NEW i \in DOMAIN q, <<s, q[i]>> \notin Meta
               PROVE  \E k \in DOMAIN Whole(s) : Whole(s)[k] = q[i]
    BY DEF Retains
  <1>1. /\ q[i] \in DOMAIN Printed(s) /\ Printed(s)[q[i]] = q[i]
        /\ Printed(s) \in Seq(Nat)
    BY PrintedLines DEF Inside
  <1> QED
    BY <1>1, NormalisedFinds DEF Whole

\* What step_complete and pipeline_complete bring.
Brought(s, raw, source) ==
    \/ source = "step_complete" /\ raw = Printed(s)
    \/ source = "pipeline_complete" /\ raw = KeptLines(s)

LEMMA BroughtLines ==
    ASSUME NEW s \in Steps, NEW raw, NEW source, Brought(s, raw, source)
    PROVE  /\ raw \in Seq(Nat) /\ source \in Source
           /\ LET lines == Normalised(s, raw) IN
                /\ lines \in Seq(Nat)
                /\ Size(s, lines) \in Nat /\ Size(s, Whole(s)) \in Nat
                /\ Size(s, lines) <= Size(s, Whole(s))
                /\ Size(s, Whole(s)) <= Size(s, lines) => lines = Whole(s)
                /\ source = "step_complete" => lines = Whole(s)
                /\ Faithful(s, [lines |-> lines, source |-> source])
  <1> DEFINE lines == Normalised(s, raw)
  <1>1. raw \in Seq(Nat) /\ Rising(raw) /\ Inside(s, raw)
    <2>1. CASE raw = Printed(s)
      BY <2>1, PrintedLines DEF Inside
    <2>2. CASE raw = KeptLines(s)
      BY <2>2, KeptType
    <2> QED
      BY <2>1, <2>2 DEF Brought
  <1>2. lines \in Seq(Nat) /\ Rising(lines)
    BY <1>1, NormalisedType
  <1>3. ASSUME NEW k \in DOMAIN lines
        PROVE  lines[k] \in 1..Length[s] /\ <<s, lines[k]>> \notin Meta
    <2>1. PICK i \in DOMAIN raw : lines[k] = raw[i] /\ <<s, raw[i]>> \notin Meta
      BY <1>1, NormalisedWithin
    <2> QED
      BY <1>1, <2>1 DEF Inside
  <1>4. Faithful(s, [lines |-> lines, source |-> source])
    BY DEF Brought, Faithful, Whole
  <1>5. source \in Source /\ (source = "step_complete" => lines = Whole(s))
    BY DEF Brought, Source, Whole
  <1> HIDE DEF lines
  <1>6. Inside(s, lines) /\ Within(lines, Whole(s))
    BY <1>3, WholeRetains DEF Inside, Within, Retains
  <1>7. Whole(s) \in Seq(Nat) /\ Rising(Whole(s)) /\ Inside(s, Whole(s))
    <2>1. Whole(s) \in Seq(Nat) /\ Rising(Whole(s))
      BY PrintedLines, NormalisedType DEF Whole
    <2>2. ASSUME NEW k \in DOMAIN Whole(s) PROVE Whole(s)[k] \in 1..Length[s]
      <3>1. Printed(s) \in Seq(Nat) /\ k \in DOMAIN Normalised(s, Printed(s))
        BY PrintedLines DEF Whole
      <3>2. PICK i \in DOMAIN Printed(s) :
              Normalised(s, Printed(s))[k] = Printed(s)[i] /\ <<s, Printed(s)[i]>> \notin Meta
        BY <3>1, NormalisedWithin, Zenon
      <3>3. Whole(s)[k] = Printed(s)[i]
        BY <3>2 DEF Whole
      <3> QED
        BY <3>3, PrintedLines
    <2> QED
      BY <2>1, <2>2 DEF Inside
  <1>8. /\ Size(s, lines) \in Nat /\ Size(s, Whole(s)) \in Nat
        /\ Size(s, lines) <= Size(s, Whole(s))
        /\ Size(s, Whole(s)) <= Size(s, lines) => lines = Whole(s)
    BY <1>2, <1>6, <1>7, SizeWithin, OctetsForm
  <1> QED
    BY <1>1, <1>2, <1>4, <1>5, <1>8 DEF lines

\* _upsert_step_log drops no line it may not, and never turns down the log of a
\* completed step.
LEMMA UpsertPrepared ==
    ASSUME TypeInv, NEW s \in Steps, Sound(s),
           NEW raw, NEW source, Brought(s, raw, source)
    PROVE  /\ Upsert(s, raw, source) # None =>
                Prepared(s, Upsert(s, raw, source), source, logs[s], reported)
           /\ source = "step_complete" /\ Whole(s) # <<>> => Upsert(s, raw, source) # None
  <1> DEFINE lines == Normalised(s, raw)
             w == Put(s, lines, source)
  <1>1. /\ raw \in Seq(Nat) /\ source \in Source /\ lines \in Seq(Nat)
        /\ Size(s, lines) \in Nat /\ Size(s, Whole(s)) \in Nat
        /\ Size(s, lines) <= Size(s, Whole(s))
        /\ Size(s, Whole(s)) <= Size(s, lines) => lines = Whole(s)
        /\ source = "step_complete" => lines = Whole(s)
        /\ Faithful(s, [lines |-> lines, source |-> source])
    BY BroughtLines
  <1>2. /\ w \in Write /\ w.row = [lines |-> lines, source |-> source]
        /\ w.insert <=> logs[s] = <<>>
    BY <1>1, PutType
  <1>3. w # None
    BY <1>2, NoneAssumption
  <1>4. Upsert(s, raw, source) = IF lines # <<>> /\ Replaces(s, lines, source) THEN w ELSE None
    BY DEF Upsert
  <1>5. source \in {"step_complete", "pipeline_complete"}
    BY DEF Brought
  <1>6. Stored(s) = First(logs[s]) /\ Inside(s, Stored(s)) /\ (logs[s] = <<>> => Stored(s) = <<>>)
    <2>1. CASE logs[s] = <<>>
      BY <2>1, RowLines DEF Stored, Inside
    <2>2. CASE logs[s] # <<>>
      BY <2>2, RowLines, FaithfulLines DEF Sound
    <2> QED
      BY <2>1, <2>2
  <1> HIDE DEF w, lines
  <1>7. ASSUME Replaces(s, lines, source)
        PROVE  Prepared(s, w, source, logs[s], reported)
    <2>1. w.row.source = source /\ w.row.lines = lines /\ Faithful(s, w.row)
      BY <1>1, <1>2
    <2>2. Keeps(s, Stored(s), w.row)
      <3>1. CASE logs[s] = <<>>
        BY <1>6, <3>1 DEF Keeps, Retains
      <3>2. CASE source = "step_complete"
        BY <1>1, <1>6, <2>1, <3>2, WholeRetains DEF Keeps
      <3>3. CASE source = "pipeline_complete" /\ Size(s, lines) >= Size(s, Stored(s))
        BY <2>1, <3>3 DEF Keeps
      <3> QED
        BY <1>5, <1>7, <3>1, <3>2, <3>3 DEF Replaces
    <2>3. ASSUME s \in reported, Whole(s) # <<>> PROVE lines = Whole(s)
      <3>1. Stored(s) = Whole(s) /\ logs[s] # <<>>
        BY <1>6, <2>3 DEF Sound
      <3>2. CASE source = "step_complete"
        BY <1>1, <3>2
      <3>3. CASE Size(s, lines) >= Size(s, Stored(s))
        BY <1>1, <3>1, <3>3
      <3> QED
        BY <1>7, <3>1, <3>2, <3>3 DEF Replaces
    <2> QED
      BY <1>2, <1>6, <2>1, <2>2, <2>3 DEF Prepared
  <1>8. ASSUME source = "step_complete", Whole(s) # <<>>
        PROVE  lines # <<>> /\ Replaces(s, lines, source)
    <2>1. lines = Whole(s)
      BY <1>1, <1>8
    <2>2. CASE logs[s] = <<>> \/ logs[s][1].source = "log_batch"
      BY <1>8, <2>1, <2>2 DEF Replaces
    <2>3. CASE logs[s] # <<>> /\ logs[s][1].source # "log_batch"
      <3>1. Faithful(s, logs[s][1]) /\ logs[s][1].source \in {"step_complete", "pipeline_complete"}
        BY <2>3, RowLines DEF Sound, Source
      <3>2. Stored(s) = logs[s][1].lines
        BY <2>3, RowLines
      <3>3. Stored(s) = Whole(s) \/ Stored(s) = Normalised(s, KeptLines(s))
        BY <3>1, <3>2 DEF Faithful
      <3>4. Size(s, Normalised(s, KeptLines(s))) <= Size(s, Whole(s))
        BY BroughtLines DEF Brought
      <3>5. Size(s, lines) >= Size(s, Stored(s))
        BY <1>1, <2>1, <3>3, <3>4
      <3> QED
        BY <1>8, <2>1, <3>5 DEF Replaces
    <2> QED
      BY <1>8, <2>1, <2>2, <2>3
  <1> QED
    BY <1>3, <1>4, <1>7, <1>8

\* New lines go after those that are there.
LEMMA RisingConcat ==
    ASSUME NEW s \in Steps, NEW q \in Seq(Nat), NEW t \in Seq(Nat), NEW c \in Nat,
           Rising(q), Rising(t), Inside(s, q), Inside(s, t),
           \A i \in DOMAIN q : q[i] <= c, \A i \in DOMAIN t : t[i] > c
    PROVE  q \o t \in Seq(Nat) /\ Rising(q \o t) /\ Inside(s, q \o t)
  <1> DEFINE u == q \o t
             n == Len(q)
             m == Len(t)
  <1>1. n \in Nat /\ m \in Nat /\ DOMAIN q = 1..n /\ DOMAIN t = 1..m
    BY LenProperties
  <1>2. /\ u \in Seq(Nat) /\ Len(u) = n + m
        /\ \A i \in 1..n + m : u[i] = IF i <= n THEN q[i] ELSE t[i - n]
    BY ConcatProperties
  <1>3. DOMAIN u = 1..n + m
    BY <1>2, LenProperties
  <1>4. /\ \A i \in 1..n : q[i] \in Nat
        /\ \A i \in 1..m : t[i] \in Nat
    BY <1>1, ElementOfSeq
  <1> HIDE DEF u, n, m
  <1>5. \A i \in 1..n + m : (i <= n => i \in 1..n) /\ (~(i <= n) => i - n \in 1..m)
    BY <1>1
  <1>6. Inside(s, u)
    BY <1>1, <1>2, <1>3, <1>5 DEF Inside
  <1>7. ASSUME NEW i \in 1..n + m, NEW k \in 1..n + m, i < k
        PROVE  u[i] < u[k]
    <2>1. CASE k <= n
      <3>1. i \in 1..n /\ k \in 1..n /\ u[i] = q[i] /\ u[k] = q[k]
        BY <1>1, <1>2, <1>7, <2>1
      <3> QED
        BY <1>1, <1>7, <3>1 DEF Rising
    <2>2. CASE i <= n /\ ~(k <= n)
      <3>1. u[i] = q[i] /\ u[k] = t[k - n] /\ i \in 1..n /\ k - n \in 1..m
        BY <1>2, <1>5, <2>2
      <3>2. q[i] \in Nat /\ q[i] <= c /\ t[k - n] \in Nat /\ t[k - n] > c
        BY <1>1, <1>4, <3>1
      <3> QED
        BY <3>1, <3>2
    <2>3. CASE ~(i <= n)
      <3>1. i - n \in 1..m /\ k - n \in 1..m /\ u[i] = t[i - n] /\ u[k] = t[k - n] /\ i - n < k - n
        BY <1>1, <1>2, <1>7, <2>3
      <3> QED
        BY <1>1, <3>1 DEF Rising
    <2> QED
      BY <2>1, <2>2, <2>3
  <1>8. Rising(u)
    BY <1>3, <1>7 DEF Rising
  <1> QED
    BY <1>2, <1>6, <1>8 DEF u

\* A batch only adds to the log of a step that runs.
LEMMA AppendPrepared ==
    ASSUME TypeInv, NEW s \in Steps, Sound(s), s \notin finished,
           NEW q \in Seq(Nat), Rising(q), Inside(s, q)
    PROVE  Prepared(s, Put(s, Stored(s) \o NewLines(s, q), "log_batch"), "log_batch",
                    logs[s], reported)
  <1> DEFINE new == NewLines(s, q)
             lines == Stored(s) \o new
             w == Put(s, lines, "log_batch")
  <1>1. /\ new \in Seq(Nat) /\ Rising(new)
        /\ \A k \in DOMAIN new : new[k] > cursor[s] /\ \E i \in DOMAIN q : new[k] = q[i]
    BY NewLinesType
  <1>2. Stored(s) \in Seq(Nat) /\ Stored(s) = First(logs[s])
    BY RowLines
  <1>3. /\ Rising(Stored(s)) /\ Inside(s, Stored(s))
        /\ \A i \in DOMAIN Stored(s) : Stored(s)[i] <= cursor[s]
    <2>1. CASE logs[s] = <<>>
      <3>1. Stored(s) = <<>>
        BY <2>1 DEF Stored
      <3> QED
        BY <3>1 DEF Rising, Inside
    <2>2. CASE logs[s] # <<>>
      <3>1. Faithful(s, logs[s][1]) /\ logs[s][1].source = "log_batch"
            /\ Stored(s) = logs[s][1].lines
        BY <2>2, RowLines DEF Sound
      <3> QED
        BY <2>2, <3>1 DEF Sound, Faithful
    <2> QED
      BY <2>1, <2>2
  <1>4. Inside(s, new) /\ \A k \in DOMAIN new : new[k] > cursor[s]
    BY <1>1 DEF Inside
  <1>5. cursor[s] \in Nat /\ s \notin reported
    BY DEF TypeInv, TablesOK
  <1> HIDE DEF new
  <1>6. lines \in Seq(Nat) /\ Rising(lines) /\ Inside(s, lines)
    BY <1>1, <1>2, <1>3, <1>4, <1>5, RisingConcat
  <1>7. Retains(s, Stored(s), lines)
    <2>1. /\ Len(Stored(s)) \in Nat /\ Len(new) \in Nat /\ DOMAIN Stored(s) = 1..Len(Stored(s))
          /\ Len(lines) = Len(Stored(s)) + Len(new) /\ DOMAIN lines = 1..Len(lines)
          /\ \A i \in 1..Len(Stored(s)) + Len(new) :
                lines[i] = IF i <= Len(Stored(s)) THEN Stored(s)[i] ELSE new[i - Len(Stored(s))]
      BY <1>1, <1>2, <1>6, LenProperties, ConcatProperties
    <2>2. \A i \in DOMAIN Stored(s) : i \in DOMAIN lines /\ lines[i] = Stored(s)[i]
      BY <2>1
    <2> QED
      BY <2>2 DEF Retains
  <1> HIDE DEF lines
  <1>8. /\ w.row = [lines |-> lines, source |-> "log_batch"]
        /\ w.insert <=> logs[s] = <<>>
    BY <1>6, PutType DEF Source
  <1> HIDE DEF w
  <1>9. Prepared(s, w, "log_batch", logs[s], reported)
    BY <1>2, <1>5, <1>6, <1>7, <1>8 DEF Prepared, Keeps, Faithful
  <1> QED
    BY <1>9 DEF w, lines, new

-----------------------------------------------------------------------------
(* Every step keeps the invariant, and drops no line it may not.            *)

LEMMA ContentGoesOn ==
    ASSUME TypeInv, ContentInv, NEW r \in Requests, NEW h, Become(r, h),
           logs' = logs, cursor' = cursor, finished' = finished, reported' = reported,
           exposed \subseteq exposed',
           \A s \in Steps \ exposed' : Ready(h, s, logs[s], reported),
           Reports(h, exposed')
    PROVE  ContentInv'
  <1>1. req' = [q \in Requests |-> IF q = r THEN h ELSE req[q]]
    BY DEF Become, TypeInv
  <1>2. \A s \in Steps \ exposed' : Sound(s)'
    BY DEF ContentInv, Sound, Stored
  <1>3. \A q \in Requests, s \in Steps \ exposed' : Ready(req'[q], s, logs'[s], reported')
    BY <1>1 DEF ContentInv
  <1>4. ASSUME NEW q \in Requests PROVE Reports(req'[q], exposed')
    <2>1. Reports(req[q], exposed)
      BY DEF ContentInv
    <2> QED
      BY <1>1, <2>1 DEF Reports
  <1> QED
    BY <1>2, <1>3, <1>4 DEF ContentInv

LEMMA ContentReleases ==
    ASSUME TypeInv, ContentInv, NEW r \in Requests, NEW h, Become(r, h),
           logs' = logs, cursor' = cursor, finished' = finished, reported' = reported,
           exposed' = exposed, h.writes = NoWrites, h.pc # "save_commit"
    PROVE  ContentInv'
  <1>1. \A s \in Steps : h.writes[s] = None
    BY DEF NoWrites
  <1>2. \A s \in Steps \ exposed' : Ready(h, s, logs[s], reported)
    BY <1>1 DEF Ready
  <1>3. Reports(h, exposed')
    BY DEF Reports
  <1>4. exposed \subseteq exposed'
    OBVIOUS
  <1> QED
    BY <1>2, <1>3, <1>4, ContentGoesOn

LEMMA AppendKeepsContent ==
    ASSUME TypeInv, LogInv, ContentInv, NEW r \in Requests, AppendGroup(r)
    PROVE  ContentInv'
  <1> DEFINE old == req[r]
             g == Head(old.todo)
             new == NewLines(g.step, g.lines)
             write == IF Closed(g.step) \/ new = <<>> THEN old.writes[g.step]
                      ELSE Put(g.step, Stored(g.step) \o new, "log_batch")
             locks == old.locks \cup {g.step}
             h == [old EXCEPT !.todo = Tail(@), !.locks = locks, !.writes[g.step] = write]
  <1>1. /\ old.pc = "append" /\ old.todo # <<>> /\ Become(r, h)
        /\ logs' = logs /\ cursor' = cursor /\ finished' = finished /\ reported' = reported
        /\ exposed' = exposed
    BY DEF AppendGroup, At, Busy, rows
  <1>2. HandlerOK(old) /\ old.type = "log_batch" /\ Formed(old)
    BY <1>1 DEF TypeInv, HandlerOK, LogInv
  <1>3. g.step \in Steps /\ g.lines \in Seq(Nat) /\ Rising(g.lines) /\ Inside(g.step, g.lines)
    BY <1>1, <1>2, HeadAndTail, CarriedLines DEF HandlerOK
  <1>4. ASSUME g.step \notin exposed, ~(Closed(g.step) \/ new = <<>>)
        PROVE  Prepared(g.step, write, "log_batch", logs[g.step], reported)
    <2>1. Sound(g.step) /\ g.step \notin finished
      BY <1>3, <1>4 DEF ContentInv, Closed
    <2>2. write = Put(g.step, Stored(g.step) \o new, "log_batch")
      BY <1>4
    <2> QED
      BY <1>3, <2>1, <2>2, AppendPrepared
  <1>5. Closed(g.step) \/ new = <<>> => write = old.writes[g.step]
    OBVIOUS
  <1> HIDE DEF g, new, write, locks
  <1>6. h.pc = "append" /\ h.type = "log_batch"
        /\ \A s \in Steps : h.writes[s] = IF s = g.step THEN write ELSE old.writes[s]
    BY <1>1, <1>2 DEF Formed, Fields
  <1> HIDE DEF h
  <1>7. ASSUME NEW s \in Steps \ exposed' PROVE Ready(h, s, logs[s], reported)
    <2>1. CASE h.writes[s] = old.writes[s]
      <3>1. Ready(old, s, logs[s], reported)
        BY <1>1 DEF ContentInv
      <3> QED
        BY <1>1, <1>2, <1>6, <2>1, <3>1 DEF Ready
    <2>2. CASE s = g.step /\ ~(Closed(g.step) \/ new = <<>>)
      <3>1. Prepared(s, h.writes[s], h.type, logs[s], reported)
        BY <1>1, <1>4, <1>6, <2>2
      <3> QED
        BY <1>6, <3>1 DEF Ready
    <2> QED
      BY <1>5, <1>6, <2>1, <2>2
  <1>8. Reports(h, exposed') /\ exposed \subseteq exposed'
    BY <1>1, <1>6 DEF Reports
  <1> QED
    BY <1>1, <1>7, <1>8, ContentGoesOn

LEMMA SaveReadKeepsContent ==
    ASSUME TypeInv, LogInv, ContentInv, NEW r \in Requests, SaveRead(r)
    PROVE  ContentInv'
  <1> DEFINE old == req[r]
             g == Head(old.todo)
             keys == LogKeys(g.step, g.lines)
             write == Upsert(g.step, g.lines, old.type)
             number == Count(g.step)
             h == [old EXCEPT !.pc = "save_commit", !.logLocks = keys,
                              !.writes[g.step] = write,
                              !.loaded = completed, !.count = number]
  <1>1. /\ old.pc = "save_read" /\ Become(r, h)
        /\ logs' = logs /\ cursor' = cursor /\ finished' = finished /\ reported' = reported
        /\ exposed' = exposed
    BY DEF SaveRead, At, rows
  <1>2. /\ HandlerOK(old) /\ Formed(old) /\ old.type \in Source /\ old.type # "log_batch"
        /\ old.todo # <<>> /\ \A s \in Steps : old.writes[s] = None
    BY <1>1, NothingPending DEF TypeInv, HandlerOK, Handler, LogInv
  <1>3. g.step \in Steps /\ g \in GroupsOf(old.type)
    BY <1>2, HeadAndTail, CarriedLines DEF HandlerOK
  <1>4. Brought(g.step, g.lines, old.type)
    BY <1>2, <1>3 DEF GroupsOf, Carries, Brought
  <1>5. ASSUME g.step \notin exposed
        PROVE  /\ write # None => Prepared(g.step, write, old.type, logs[g.step], reported)
               /\ old.type = "step_complete" /\ Whole(g.step) # <<>> => write # None
    <2>1. Sound(g.step)
      BY <1>3, <1>5 DEF ContentInv
    <2> QED
      BY <1>3, <1>4, <2>1, UpsertPrepared
  <1> HIDE DEF keys, write, number
  <1>6. /\ h.pc = "save_commit" /\ h.type = old.type /\ h.todo = old.todo
        /\ \A s \in Steps : h.writes[s] = IF s = g.step THEN write ELSE old.writes[s]
    <2> HIDE DEF g
    <2> QED
      BY <1>1, <1>2 DEF Formed, Fields
  <1> HIDE DEF h
  <1>7. ASSUME NEW s \in Steps \ exposed' PROVE Ready(h, s, logs[s], reported)
    BY <1>1, <1>2, <1>5, <1>6 DEF Ready
  <1>8. Reports(h, exposed') /\ exposed \subseteq exposed'
    BY <1>1, <1>3, <1>5, <1>6 DEF Reports
  <1> QED
    BY <1>1, <1>7, <1>8, ContentGoesOn

LEMMA ParseKeepsContent ==
    ASSUME TypeInv, LogInv, ContentInv, NEW r \in Requests, ParseStep(r)
    PROVE  ContentInv'
  <1> DEFINE old == req[r]
             g == Head(old.todo)
             keys == IF Known(g.step) THEN LogKeys(g.step, g.lines) ELSE {}
             write == IF keys = {} THEN old.writes[g.step]
                      ELSE Upsert(g.step, g.lines, "pipeline_complete")
             logLocks == old.logLocks \cup keys
             h == [old EXCEPT !.todo = Tail(@), !.logLocks = logLocks, !.writes[g.step] = write]
  <1>1. /\ old.pc = "parse" /\ old.todo # <<>>
        /\ logs' = logs /\ cursor' = cursor /\ finished' = finished /\ reported' = reported
        /\ exposed \subseteq exposed'
    BY DEF ParseStep, At, Busy
  <1>2. Become(r, h)
    BY Zenon DEF ParseStep, Become
  <1>3. HandlerOK(old) /\ Formed(old) /\ old.type = "pipeline_complete"
    BY <1>1 DEF TypeInv, HandlerOK, LogInv
  <1>4. g.step \in Steps /\ g \in GroupsOf("pipeline_complete")
    BY <1>1, <1>3, HeadAndTail, CarriedLines DEF HandlerOK
  <1>5. Brought(g.step, g.lines, "pipeline_complete")
    BY <1>4 DEF GroupsOf, Carries, Brought
  <1>6. ASSUME g.step \notin exposed, keys # {}, write # None
        PROVE  Prepared(g.step, write, "pipeline_complete", logs[g.step], reported)
    <2>1. Sound(g.step)
      BY <1>4, <1>6 DEF ContentInv
    <2>2. write = Upsert(g.step, g.lines, "pipeline_complete")
      BY <1>6
    <2> QED
      BY <1>4, <1>5, <1>6, <2>1, <2>2, UpsertPrepared
  <1>7. keys = {} => write = old.writes[g.step]
    OBVIOUS
  <1> HIDE DEF g, keys, write, logLocks
  <1>8. /\ h.pc = "parse" /\ h.type = "pipeline_complete"
        /\ \A s \in Steps : h.writes[s] = IF s = g.step THEN write ELSE old.writes[s]
    BY <1>1, <1>3 DEF Formed, Fields
  <1> HIDE DEF h
  <1>9. ASSUME NEW s \in Steps \ exposed' PROVE Ready(h, s, logs[s], reported)
    <2>1. CASE h.writes[s] = old.writes[s]
      <3>1. Ready(old, s, logs[s], reported)
        BY <1>1 DEF ContentInv
      <3> QED
        BY <1>1, <1>3, <1>8, <2>1, <3>1 DEF Ready
    <2>2. CASE s = g.step /\ keys # {} /\ write # None
      <3>1. Prepared(s, h.writes[s], h.type, logs[s], reported)
        BY <1>1, <1>6, <1>8, <2>2
      <3> QED
        BY <1>8, <3>1 DEF Ready
    <2>3. CASE s = g.step /\ write = None
      BY <1>8, <2>3 DEF Ready
    <2> QED
      BY <1>7, <1>8, <2>1, <2>2, <2>3
  <1>10. Reports(h, exposed')
    BY <1>8 DEF Reports
  <1> QED
    BY <1>1, <1>2, <1>9, <1>10, ContentGoesOn

LEMMA ReleaseKeepsContent ==
    ASSUME TypeInv, LogInv, ContentInv, NEW r \in Requests,
           Fails(r) \/ DeadlockVictim(r) \/ Finalize(r) \/ SaveLock(r)
    PROVE  ContentInv'
  <1> DEFINE old == req[r]
  <1>1. /\ Formed(old)
        /\ logs' = logs /\ cursor' = cursor /\ finished' = finished /\ reported' = reported
        /\ exposed' = exposed
    BY DEF LogInv, Fails, AppendFails, SaveFails, FinalizeFails, ParseFails, DeadlockVictim,
         Finalize, SaveLock, rows
  <1>2. CASE AppendFails(r) \/ ParseFails(r) \/ DeadlockVictim(r)
    <2> DEFINE h == Idle
    <2>1. Become(r, h) /\ h.writes = NoWrites /\ h.pc # "save_commit"
      BY <1>2 DEF AppendFails, ParseFails, DeadlockVictim, Idle
    <2> HIDE DEF h
    <2> QED
      BY <1>1, <2>1, ContentReleases
  <1>3. CASE SaveFails(r)
    <2> DEFINE h == AfterSave(old)
    <2>1. Become(r, h)
      BY <1>3 DEF SaveFails
    <2>2. h.writes = NoWrites /\ h.pc # "save_commit"
      BY <1>1, IdleFormed, EndedFormed DEF AfterSave, Idle
    <2> HIDE DEF h
    <2> QED
      BY <1>1, <2>1, <2>2, ContentReleases
  <1>4. CASE FinalizeFails(r) \/ (Finalize(r) /\ ~Busy(r))
    <2> DEFINE h == Ended(old, "parse", old.logs)
    <2>1. Become(r, h)
      BY <1>4 DEF Finalize, FinalizeFails
    <2>2. h.writes = NoWrites /\ h.pc # "save_commit"
      BY <1>1, EndedFormed
    <2> HIDE DEF h
    <2> QED
      BY <1>1, <2>1, <2>2, ContentReleases
  <1>5. CASE SaveLock(r) \/ (Finalize(r) /\ Busy(r))
    <2> DEFINE saves == [old EXCEPT !.pc = "save_lock"]
               reads == [old EXCEPT !.pc = "save_read", !.locks = {Current(r)}]
    <2>1. (Become(r, saves) \/ Become(r, reads)) /\ old.pc \in {"save_lock", "finalize"}
      BY <1>5 DEF SaveLock, Finalize, At
    <2>2. /\ saves.writes = old.writes /\ saves.pc = "save_lock"
          /\ reads.writes = old.writes /\ reads.pc = "save_read"
      BY <1>1 DEF Formed, Fields
    <2>3. old.writes = NoWrites
      BY <1>1, <2>1, NothingPending DEF Formed, NoWrites
    <2> HIDE DEF saves, reads
    <2> QED
      BY <1>1, <2>1, <2>2, <2>3, ContentReleases
  <1> QED
    BY <1>2, <1>3, <1>4, <1>5 DEF Fails

LEMMA ReceiveKeepsContent ==
    ASSUME TypeInv, ContentInv, NEW r \in Requests, NEW m \in sent, Receive(r, m)
    PROVE  ContentInv'
  <1>1. /\ logs' = logs /\ cursor' = cursor /\ finished' = finished /\ reported' = reported
        /\ exposed' = exposed
    BY DEF Receive, rows
  <1>2. CASE terminal
    BY <1>1, <1>2 DEF Receive, ContentInv, Sound, Stored
  <1>3. CASE ~terminal
    <2> DEFINE h == [Idle EXCEPT !.pc = FirstPC(m.type), !.type = m.type,
                                 !.todo = m.groups, !.logs = m.logs]
    <2>1. Become(r, h)
      BY <1>3 DEF Receive
    <2>2. FirstPC(m.type) # "save_commit"
      BY DEF TypeInv, MessageOK, Message, Source, FirstPC
    <2>3. h.pc = FirstPC(m.type) /\ h.writes = NoWrites
      BY DEF Idle
    <2> HIDE DEF h
    <2> QED
      BY <1>1, <2>1, <2>2, <2>3, ContentReleases
  <1> QED
    BY <1>2, <1>3

\* The locks leave one transaction at a time with a write to a step's log.
LEMMA SoleWriter ==
    ASSUME LogInv, NEW r \in Requests, NEW q \in Requests, r # q,
           NEW s \in Steps \ exposed, req[r].writes[s] # None
    PROVE  req[q].writes[s] = None
  <1>1. /\ Guarded(req[r], s, finished, exposed) /\ Guarded(req[q], s, finished, exposed)
        /\ Apart(req[r], req[q])
    BY DEF LogInv
  <1> QED
    BY <1>1 DEF Guarded, Apart

\* What the first row of a step is after a commit.
LEMMA AppliedFirst ==
    ASSUME NEW t \in Seq(Row), NEW w \in Write, w.insert <=> t = <<>>
    PROVE  LET u == IF w.insert THEN Append(t, w.row) ELSE [t EXCEPT ![1] = w.row] IN
             u # <<>> /\ u[1] = w.row
  <1>1. CASE t = <<>>
    <2>1. Append(t, w.row) = <<w.row>>
      BY <1>1
    <2> QED
      BY <1>1, <2>1
  <1>2. CASE t # <<>>
    <2>1. Len(t) \in Nat \ {0} /\ w.row \in Row
      BY <1>2, EmptySeq DEF Write
    <2>2. 1 \in 1..Len(t)
      BY <2>1
    <2>3. /\ [t EXCEPT ![1] = w.row] \in Seq(Row)
          /\ Len([t EXCEPT ![1] = w.row]) = Len(t)
          /\ [t EXCEPT ![1] = w.row][1] = w.row
      BY <2>1, <2>2, ExceptSeq
    <2>4. [t EXCEPT ![1] = w.row] # <<>>
      BY <2>1, <2>3, EmptySeq
    <2> QED
      BY <1>2, <2>3, <2>4
  <1> QED
    BY <1>1, <1>2

\* What OnlyCutDropsLines says of one step of the job.
LinesStay(s) ==
    \/ UserLines(s) \subseteq UserLines(s)'
    \/ /\ s \notin reported
       /\ logs'[s][1].source = "pipeline_complete"
       /\ Size(s, Stored(s)) <= Size(s, Stored(s))'

Commits(r) == AppendCommit(r) \/ SaveCommit(r) \/ ParseCommit(r)

\* A step whose log the transaction did not write.
LEMMA OthersUntouched ==
    ASSUME TypeInv, LogInv, ContentInv, NEW r \in Requests, Commits(r),
           NEW s \in Steps \ exposed, req[r].writes[s] = None
    PROVE  /\ logs'[s] = logs[s] /\ cursor'[s] = cursor[s]
           /\ s \in reported' /\ Whole(s) # <<>> => s \in reported
           /\ s \in finished => s \in finished'
  <1>1. logs'[s] = logs[s]
    BY DEF Commits, AppendCommit, SaveCommit, ParseCommit, Commit, Applied
  <1>2. cursor'[s] = cursor[s] /\ (s \in finished => s \in finished')
    BY DEF Commits, AppendCommit, SaveCommit, ParseCommit
  <1>3. ASSUME s \in reported', s \notin reported PROVE Whole(s) = <<>>
    <2>1. SaveCommit(r) /\ req[r].type = "step_complete" /\ s = Current(r)
      BY <1>3 DEF Commits, AppendCommit, SaveCommit, ParseCommit
    <2>2. Reports(req[r], exposed) /\ req[r].pc = "save_commit"
      BY <2>1 DEF ContentInv, SaveCommit, At
    <2> QED
      BY <2>1, <2>2 DEF Reports, Current
  <1> QED
    BY <1>1, <1>2, <1>3

\* A step whose log the transaction wrote.
LEMMA WrittenSound ==
    ASSUME TypeInv, LogInv, ContentInv, NEW r \in Requests, Commits(r),
           NEW s \in Steps \ exposed, req[r].writes[s] # None
    PROVE  Sound(s)' /\ LinesStay(s)
  <1> DEFINE h == req[r]
             w == h.writes[s]
             q == w.row.lines
  <1>1. /\ w \in Write /\ w.row \in Row /\ q \in Seq(Nat)
        /\ logs[s] \in Seq(Row) /\ HandlerOK(h) /\ h.type \in Source
    BY DEF TypeInv, TablesOK, HandlerOK, Handler, Write, Row, Lines
  <1>2. /\ Prepared(s, w, h.type, logs[s], reported)
        /\ h.pc = "save_commit" => s = Current(r)
        /\ Guarded(h, s, finished, exposed)
    BY DEF ContentInv, Ready, LogInv, Current
  <1>3. logs'[s] = IF w.insert THEN Append(logs[s], w.row) ELSE [logs[s] EXCEPT ![1] = w.row]
    BY DEF Commits, AppendCommit, SaveCommit, ParseCommit, Commit, Applied
  <1>4. logs'[s] # <<>> /\ logs'[s][1] = w.row
    <2> HIDE DEF w
    <2>1. w.insert <=> logs[s] = <<>>
      BY <1>2 DEF Prepared
    <2> QED
      BY <1>1, <1>3, <2>1, AppliedFirst
  <1>5. Stored(s)' = q
    BY <1>4 DEF Stored
  <1>6. w.row.source = h.type /\ Faithful(s, w.row)
    BY <1>2 DEF Prepared
  <1>7. \/ AppendCommit(r) /\ h.type = "log_batch"
        \/ SaveCommit(r) /\ h.type \in {"step_complete", "pipeline_complete"}
        \/ ParseCommit(r) /\ h.type = "pipeline_complete"
    BY <1>1 DEF Commits, AppendCommit, SaveCommit, ParseCommit, At, HandlerOK, Source
  <1>8. h.type = "log_batch" => \A i \in DOMAIN q : q[i] <= cursor'[s]
    <2> SUFFICES ASSUME h.type = "log_batch", NEW i \in DOMAIN q PROVE q[i] <= cursor'[s]
      OBVIOUS
    <2>1. AppendCommit(r) /\ Rising(q)
      BY <1>6, <1>7 DEF Faithful
    <2>2. cursor'[s] = q[Len(q)]
      BY <2>1 DEF AppendCommit
    <2> HIDE DEF q
    <2>3. Len(q) \in Nat /\ DOMAIN q = 1..Len(q) /\ \A k \in 1..Len(q) : q[k] \in Nat
      BY <1>1, LenProperties, ElementOfSeq
    <2>4. i \in 1..Len(q) /\ Len(q) \in 1..Len(q)
      BY <2>3
    <2>5. i < Len(q) => q[i] < q[Len(q)]
      BY <2>1, <2>3, <2>4 DEF Rising
    <2> QED
      BY <2>2, <2>3, <2>4, <2>5
  <1>9. h.type # "log_batch" => s \in finished'
    <2>1. CASE SaveCommit(r)
      BY <1>2, <2>1 DEF SaveCommit, At
    <2>2. CASE ParseCommit(r)
      BY <1>2, <2>2 DEF ParseCommit, At, Guarded
    <2> QED
      BY <1>7, <2>1, <2>2
  <1>10. s \in reported' /\ Whole(s) # <<>> => q = Whole(s)
    <2>1. CASE s \in reported
      BY <1>2, <2>1 DEF Prepared
    <2>2. CASE s \notin reported /\ s \in reported'
      <3>1. h.type = "step_complete"
        BY <2>2 DEF Commits, AppendCommit, SaveCommit, ParseCommit
      <3> QED
        BY <1>6, <3>1 DEF Faithful
    <2> QED
      BY <2>1, <2>2
  <1>11. Sound(s)'
    BY <1>4, <1>5, <1>6, <1>8, <1>9, <1>10 DEF Sound, Faithful
  <1>12. Stored(s) = First(logs[s]) /\ Stored(s) \in Seq(Nat) /\ Inside(s, Stored(s))
    <2>1. CASE logs[s] = <<>>
      BY <2>1, RowLines DEF Stored, Inside
    <2>2. CASE logs[s] # <<>>
      BY <2>2, RowLines, FaithfulLines DEF ContentInv, Sound
    <2> QED
      BY <2>1, <2>2
  <1>13. Retains(s, Stored(s), q) => LinesStay(s)
    <2> SUFFICES ASSUME Retains(s, Stored(s), q)
                 PROVE  UserLines(s) \subseteq UserLines(s)'
      BY DEF LinesStay
    <2>1. UserLines(s)' = {q[i] : i \in {k \in DOMAIN q : <<s, q[k]>> \notin Meta}}
      BY <1>5 DEF UserLines
    <2> HIDE DEF q, w
    <2> SUFFICES ASSUME NEW line \in UserLines(s) PROVE line \in UserLines(s)'
      OBVIOUS
    <2>2. PICK i \in DOMAIN Stored(s) : line = Stored(s)[i] /\ <<s, line>> \notin Meta
      BY DEF UserLines
    <2>3. \E k \in DOMAIN q : q[k] = line
      BY <2>2 DEF Retains
    <2> QED
      BY <2>1, <2>2, <2>3
  <1>14. CASE s \in reported
    <2>1. Retains(s, Stored(s), Whole(s))
      BY <1>12, WholeRetains
    <2>2. CASE Whole(s) # <<>>
      <3>1. q = Whole(s)
        BY <1>2, <1>14, <2>2 DEF Prepared
      <3> QED
        BY <1>11, <1>13, <2>1, <3>1
    <2>3. CASE Whole(s) = <<>>
      <3>1. DOMAIN Whole(s) = {}
        BY <2>3, LenProperties
      <3>2. \A i \in DOMAIN Stored(s) : <<s, Stored(s)[i]>> \in Meta
        BY <2>1, <3>1 DEF Retains
      <3>3. UserLines(s) = {}
        BY <3>2 DEF UserLines
      <3> QED
        BY <1>11, <3>3 DEF LinesStay
    <2> QED
      BY <2>2, <2>3
  <1>15. CASE ~Retains(s, Stored(s), q) /\ s \notin reported
    <2>1. w.row.source = "pipeline_complete" /\ Size(s, Stored(s)) <= Size(s, q)
      BY <1>2, <1>12, <1>15 DEF Prepared, Keeps
    <2> HIDE DEF w, q
    <2>2. Size(s, Stored(s))' = Size(s, q)
      BY <1>5 DEF Size, Octets
    <2>3. logs'[s][1].source = "pipeline_complete"
      BY <1>4, <2>1
    <2>4. Size(s, Stored(s)) <= Size(s, Stored(s))'
      BY <2>1, <2>2
    <2> QED
      BY <1>11, <1>15, <2>3, <2>4 DEF LinesStay
  <1> QED
    BY <1>11, <1>13, <1>14, <1>15

LEMMA CommitKeepsContent ==
    ASSUME TypeInv, LogInv, ContentInv, NEW r \in Requests, Commits(r)
    PROVE  ContentInv' /\ \A s \in Steps \ exposed : LinesStay(s)
  <1>1. exposed' = exposed /\ Formed(req[r])
    BY DEF Commits, AppendCommit, SaveCommit, ParseCommit, LogInv
  <1>2. ASSUME NEW s \in Steps \ exposed
        PROVE  Sound(s)' /\ LinesStay(s)
    <2>1. CASE req[r].writes[s] = None
      <3>1. /\ logs'[s] = logs[s] /\ cursor'[s] = cursor[s]
            /\ s \in reported' /\ Whole(s) # <<>> => s \in reported
            /\ s \in finished => s \in finished'
        BY <2>1, OthersUntouched
      <3>2. Stored(s)' = Stored(s)
        BY <3>1 DEF Stored
      <3>3. Sound(s)
        BY DEF ContentInv
      <3>4. Sound(s)'
        BY <3>1, <3>2, <3>3 DEF Sound
      <3>5. LinesStay(s)
        BY <3>2 DEF LinesStay, UserLines
      <3> QED
        BY <3>4, <3>5
    <2>2. CASE req[r].writes[s] # None
      BY <2>2, WrittenSound
    <2> QED
      BY <2>1, <2>2
  <1>3. PICK h : Become(r, h) /\ h.writes = NoWrites /\ h.pc # "save_commit"
    <2> DEFINE idle == Idle
               next == AfterSave(req[r])
    <2>1. Become(r, idle) \/ Become(r, next)
      BY DEF Commits, AppendCommit, SaveCommit, ParseCommit
    <2>2. idle.writes = NoWrites /\ idle.pc # "save_commit"
      BY DEF Idle
    <2>3. next.writes = NoWrites /\ next.pc # "save_commit"
      BY <1>1, IdleFormed, EndedFormed DEF AfterSave, Idle
    <2> HIDE DEF idle, next
    <2> QED
      BY <2>1, <2>2, <2>3
  <1>4. req' = [q \in Requests |-> IF q = r THEN h ELSE req[q]]
    BY <1>3 DEF Become, TypeInv
  <1>5. ASSUME NEW q \in Requests, NEW s \in Steps \ exposed
        PROVE  Ready(req'[q], s, logs'[s], reported')
    <2>1. CASE req'[q].writes[s] = None
      BY <2>1 DEF Ready
    <2>2. CASE req'[q].writes[s] # None
      <3>1. h.writes[s] = None
        BY <1>3 DEF NoWrites
      <3>2. q # r /\ req'[q] = req[q]
        BY <1>4, <2>2, <3>1
      <3>3. req[r].writes[s] = None
        BY <2>2, <3>2, SoleWriter
      <3>4. logs'[s] = logs[s] /\ (s \in reported' /\ Whole(s) # <<>> => s \in reported)
        BY <3>3, OthersUntouched
      <3>5. Ready(req[q], s, logs[s], reported)
        BY DEF ContentInv
      <3> QED
        BY <3>2, <3>4, <3>5 DEF Ready, Prepared
    <2> QED
      BY <2>1, <2>2
  <1>6. \A q \in Requests : Reports(req'[q], exposed')
    BY <1>1, <1>3, <1>4 DEF ContentInv, Reports
  <1> QED
    BY <1>1, <1>2, <1>5, <1>6 DEF ContentInv

LEMMA ContentStep ==
    TypeInv /\ LogInv /\ ContentInv /\ [Next]_vars =>
        ContentInv' /\ \A s \in Steps \ exposed : LinesStay(s)
  <1> SUFFICES ASSUME TypeInv, LogInv, ContentInv, [Next]_vars
               PROVE  ContentInv' /\ \A s \in Steps \ exposed : LinesStay(s)
    OBVIOUS
  <1>1. ASSUME logs' = logs
        PROVE  \A s \in Steps \ exposed : LinesStay(s)
    <2> SUFFICES ASSUME NEW s \in Steps PROVE LinesStay(s)
      OBVIOUS
    <2> QED
      BY <1>1 DEF LinesStay, UserLines, Stored
  <1>2. CASE Engine \/ UNCHANGED vars
    <2>1. UNCHANGED <<logs, cursor, finished, reported, exposed, req>>
      BY <1>2 DEF Engine, SendBatch, SendStepComplete, SendPipelineComplete, rows, vars
    <2>2. ContentInv'
      BY <2>1 DEF ContentInv, Sound, Stored
    <2> QED
      BY <1>1, <2>1, <2>2
  <1>3. ASSUME NEW r \in Requests, Handle(r) \/ Fails(r) \/ \E m \in sent : Receive(r, m)
        PROVE  ContentInv' /\ \A s \in Steps \ exposed : LinesStay(s)
    <2>1. CASE Commits(r)
      BY <2>1, CommitKeepsContent
    <2>2. CASE \E m \in sent : Receive(r, m)
      <3>1. logs' = logs
        BY <2>2 DEF Receive, rows
      <3> QED
        BY <1>1, <2>2, <3>1, ReceiveKeepsContent
    <2>3. CASE Fails(r) \/ DeadlockVictim(r) \/ Finalize(r) \/ SaveLock(r)
      <3>1. logs' = logs
        BY <2>3 DEF Fails, AppendFails, SaveFails, FinalizeFails, ParseFails, DeadlockVictim,
             Finalize, SaveLock, rows
      <3> QED
        BY <1>1, <2>3, <3>1, ReleaseKeepsContent
    <2>4. CASE AppendGroup(r) \/ SaveRead(r) \/ ParseStep(r)
      <3>1. logs' = logs
        BY <2>4 DEF AppendGroup, SaveRead, ParseStep, rows
      <3> QED
        BY <1>1, <2>4, <3>1, AppendKeepsContent, SaveReadKeepsContent, ParseKeepsContent
    <2> QED
      BY <1>3, <2>1, <2>2, <2>3, <2>4 DEF Handle, Commits
  <1> QED
    BY <1>2, <1>3 DEF Next

LEMMA ContentInvCorrect == Spec => []ContentInv
  <1>1. Init => ContentInv
    <2> SUFFICES ASSUME Init PROVE ContentInv
      OBVIOUS
    <2>1. \A s \in Steps : logs[s] = <<>> /\ s \notin reported
      BY DEF Init
    <2>2. \A r \in Requests : req[r] = Idle
      BY DEF Init
    <2>3. Idle.pc # "save_commit" /\ \A s \in Steps : Idle.writes[s] = None
      BY DEF Idle, NoWrites
    <2> QED
      BY <2>1, <2>2, <2>3 DEF ContentInv, Sound, Ready, Reports
  <1> QED
    BY <1>1, ContentStep, TypeInvCorrect, LogInvCorrect, PTL DEF Spec

\* The lines of a stored log are in the order they were printed, whichever
\* callbacks were redelivered, overlapped or lost: an append goes on from a
\* cursor that no stored line passes, and a replacement is cut from the log
\* the engine sent.
THEOREM InOrder == Spec => []StoredInOrder
  <1>1. TypeInv /\ ContentInv => StoredInOrder
    <2> SUFFICES ASSUME TypeInv, ContentInv, NEW s \in Steps \ exposed
                 PROVE  Rising(Stored(s))
      BY DEF StoredInOrder, Rising
    <2>1. CASE logs[s] = <<>>
      BY <2>1 DEF Stored, Rising
    <2>2. CASE logs[s] # <<>>
      BY <2>2, RowLines, FaithfulLines DEF ContentInv, Sound
    <2> QED
      BY <2>1, <2>2
  <1> QED
    BY <1>1, TypeInvCorrect, ContentInvCorrect, PTL

\* The log of a step whose step_complete was recorded is the whole log, and
\* stays so through late batches, retries and the final callback.
THEOREM ReportedWhole == Spec => []ReportedIsWhole
  <1>1. TypeInv /\ ContentInv => ReportedIsWhole
    BY DEF TypeInv, TablesOK, ContentInv, Sound, ReportedIsWhole, Whole
  <1> QED
    BY <1>1, TypeInvCorrect, ContentInvCorrect, PTL

\* A line the user could read stays in its log, except that the cut log of a
\* final callback may take the place of a log of which no step_complete was ever
\* recorded, and then it is no smaller. A handler that wrote back a log it had
\* read before another one's commit would drop more, and the advisory locks leave
\* none.
THEOREM LinesKept == Spec => OnlyCutDropsLines
  <1>1. TypeInv /\ LogInv /\ ContentInv /\ [Next]_vars => [\A s \in Steps \ exposed : LinesStay(s)]_vars
    BY ContentStep
  <1> QED
    BY <1>1, TypeInvCorrect, LogInvCorrect, ContentInvCorrect, PTL DEF Spec, OnlyCutDropsLines, LinesStay

-----------------------------------------------------------------------------
(* What a handler is after each kind of step.                               *)

LEMMA AppendChange ==
    ASSUME TypeInv, NEW r \in Requests, AppendGroup(r)
    PROVE  LET g == Head(req[r].todo)
               new == NewLines(g.step, g.lines) IN
           \E h : /\ Become(r, h) /\ h.pc = "append" /\ h.type = req[r].type
                  /\ h.logs = req[r].logs /\ h.logLocks = req[r].logLocks
                  /\ \A s \in Steps : h.writes[s] =
                       IF s # g.step \/ Closed(g.step) \/ new = <<>> THEN req[r].writes[s]
                       ELSE Put(g.step, Stored(g.step) \o new, "log_batch")
  <1> DEFINE old == req[r]
             g == Head(old.todo)
             new == NewLines(g.step, g.lines)
             put == Put(g.step, Stored(g.step) \o new, "log_batch")
             write == IF Closed(g.step) \/ new = <<>> THEN old.writes[g.step] ELSE put
             locks == old.locks \cup {g.step}
             h == [old EXCEPT !.todo = Tail(@), !.locks = locks, !.writes[g.step] = write]
  <1>1. Become(r, h) /\ old.pc = "append"
    BY DEF AppendGroup, At
  <1>2. Formed(old)
    BY HandlerForm DEF TypeInv, HandlerOK
  <1>3. write = IF Closed(g.step) \/ new = <<>> THEN old.writes[g.step] ELSE put
    OBVIOUS
  <1> HIDE DEF g, new, put, write, locks
  <1>4. /\ h.pc = "append" /\ h.type = old.type
        /\ h.logs = old.logs /\ h.logLocks = old.logLocks
        /\ \A s \in Steps : h.writes[s] = IF s = g.step THEN write ELSE old.writes[s]
    BY <1>1, <1>2 DEF Formed, Fields
  <1> HIDE DEF h
  <1>5. \A s \in Steps : h.writes[s] =
          IF s # g.step \/ Closed(g.step) \/ new = <<>> THEN old.writes[s] ELSE put
    BY <1>3, <1>4
  <1> QED
    BY <1>1, <1>4, <1>5 DEF g, new, put

LEMMA SaveChange ==
    ASSUME TypeInv, NEW r \in Requests,
           SaveLock(r) \/ SaveRead(r) \/ (Finalize(r) /\ Busy(r))
    PROVE  \E h : /\ Become(r, h) /\ h.type = req[r].type /\ h.todo = req[r].todo
                  /\ h.logs = req[r].logs
                  /\ \/ /\ h.pc = "save_lock" /\ h.locks = req[r].locks
                        /\ req[r].pc = "finalize"
                     \/ h.pc \in {"save_read", "save_commit"}
                  /\ h.pc # "save_commit" => h.logLocks = req[r].logLocks
  <1> DEFINE old == req[r]
             g == Head(old.todo)
             keys == LogKeys(g.step, g.lines)
             write == Upsert(g.step, g.lines, old.type)
             number == Count(g.step)
             saves == [old EXCEPT !.pc = "save_lock"]
             reads == [old EXCEPT !.pc = "save_read", !.locks = {Current(r)}]
             writes == [old EXCEPT !.pc = "save_commit", !.logLocks = keys,
                                   !.writes[g.step] = write,
                                   !.loaded = completed, !.count = number]
  <1>1. (Become(r, saves) /\ old.pc = "finalize") \/ Become(r, reads) \/ Become(r, writes)
    BY DEF SaveLock, SaveRead, Finalize, At
  <1>2. Formed(old)
    BY HandlerForm DEF TypeInv, HandlerOK
  <1> HIDE DEF g, keys, write, number
  <1>3. /\ saves.type = old.type /\ saves.todo = old.todo /\ saves.pc = "save_lock"
        /\ saves.logs = old.logs /\ saves.locks = old.locks /\ saves.logLocks = old.logLocks
        /\ reads.type = old.type /\ reads.todo = old.todo /\ reads.pc = "save_read"
        /\ reads.logs = old.logs /\ reads.logLocks = old.logLocks
        /\ writes.type = old.type /\ writes.todo = old.todo /\ writes.pc = "save_commit"
        /\ writes.logs = old.logs
    BY <1>2 DEF Formed, Fields
  <1> HIDE DEF saves, reads, writes
  <1> QED
    BY <1>1, <1>3

LEMMA ParseChange ==
    ASSUME TypeInv, NEW r \in Requests, ParseStep(r)
    PROVE  \E h : /\ Become(r, h) /\ h.type = req[r].type /\ h.pc = "parse"
                  /\ h.logs = req[r].logs /\ h.todo = Tail(req[r].todo)
                  /\ h.locks = req[r].locks
                  /\ h.logLocks \subseteq req[r].logLocks \cup {Head(req[r].todo).step}
  <1> DEFINE old == req[r]
             g == Head(old.todo)
             keys == IF Known(g.step) THEN LogKeys(g.step, g.lines) ELSE {}
             write == IF keys = {} THEN old.writes[g.step]
                      ELSE Upsert(g.step, g.lines, "pipeline_complete")
             logLocks == old.logLocks \cup keys
             h == [old EXCEPT !.todo = Tail(@), !.logLocks = logLocks, !.writes[g.step] = write]
  <1>1. old.pc = "parse"
    BY DEF ParseStep, At
  <1>2. Become(r, h)
    BY Zenon DEF ParseStep, Become
  <1>3. Formed(old)
    BY HandlerForm DEF TypeInv, HandlerOK
  <1>5. logLocks \subseteq old.logLocks \cup {g.step}
    BY DEF LogKeys
  <1> HIDE DEF write, logLocks, g
  <1>4. /\ h.type = old.type /\ h.pc = "parse" /\ h.logs = old.logs /\ h.todo = Tail(old.todo)
        /\ h.locks = old.locks /\ h.logLocks = logLocks
    BY <1>1, <1>3 DEF Formed, Fields
  <1> HIDE DEF h
  <1> QED
    BY <1>2, <1>4, <1>5 DEF g

LEMMA ReceiveChange ==
    ASSUME TypeInv, NEW r \in Requests, NEW m \in sent, Receive(r, m), ~terminal
    PROVE  \E h : /\ Become(r, h) /\ h.type = m.type /\ h.todo = m.groups
                  /\ h.pc = FirstPC(m.type) /\ h.writes = NoWrites
                  /\ h.logs = m.logs /\ h.locks = {} /\ h.logLocks = {}
  <1> DEFINE h == [Idle EXCEPT !.pc = FirstPC(m.type), !.type = m.type,
                               !.todo = m.groups, !.logs = m.logs]
  <1>1. Become(r, h)
    BY DEF Receive
  <1>2. /\ h.type = m.type /\ h.todo = m.groups /\ h.pc = FirstPC(m.type)
        /\ h.writes = NoWrites /\ h.logs = m.logs /\ h.locks = {} /\ h.logLocks = {}
    BY DEF Idle
  <1> HIDE DEF h
  <1> QED
    BY <1>1, <1>2

\* A transaction that ended leaves an idle handler, or one that goes on
\* without a write.
LEMMA EndChange ==
    ASSUME TypeInv, NEW r \in Requests,
           Commits(r) \/ Fails(r) \/ DeadlockVictim(r) \/ (Finalize(r) /\ ~Busy(r))
    PROVE  \E h : /\ Become(r, h) /\ h.writes = NoWrites /\ h.locks = {} /\ h.logLocks = {}
                  /\ \/ h.pc = "idle" /\ h.type = "log_batch"
                     \/ /\ h.type = req[r].type /\ h.type = "pipeline_complete"
                        /\ h.logs = req[r].logs
                        /\ h.pc = "save_lock" \/ (h.pc = "parse" /\ h.todo = h.logs)
  <1> DEFINE idle == Idle
             next == AfterSave(req[r])
             ends == Ended(req[r], "parse", req[r].logs)
             goes == Ended(req[r], "save_lock", Tail(req[r].todo))
  <1>1. \/ Become(r, idle)
        \/ Become(r, next) /\ req[r].pc = "save_commit"
        \/ Become(r, ends) /\ req[r].pc = "finalize"
    BY DEF Commits, AppendCommit, SaveCommit, ParseCommit, Fails, AppendFails, SaveFails,
         FinalizeFails, ParseFails, DeadlockVictim, Finalize, At
  <1>2. Formed(req[r])
    BY HandlerForm DEF TypeInv, HandlerOK
  <1>3. next = idle \/ (req[r].type # "step_complete" /\ (next = goes \/ next = ends))
    BY DEF AfterSave
  <1>8. /\ req[r].pc = "save_commit" => req[r].type # "log_batch"
        /\ req[r].pc = "finalize" => req[r].type = "pipeline_complete"
        /\ req[r].type \in Source
    BY DEF TypeInv, HandlerOK, Handler
  <1>4. /\ idle.writes = NoWrites /\ idle.locks = {} /\ idle.logLocks = {}
        /\ idle.pc = "idle" /\ idle.type = "log_batch"
    BY DEF Idle
  <1>5. /\ ends.writes = NoWrites /\ ends.locks = {} /\ ends.logLocks = {}
        /\ ends.pc = "parse" /\ ends.todo = req[r].logs /\ ends.type = req[r].type
    BY <1>2, EndedFormed
  <1>6. /\ goes.writes = NoWrites /\ goes.locks = {} /\ goes.logLocks = {}
        /\ goes.pc = "save_lock" /\ goes.type = req[r].type
    BY <1>2, EndedFormed
  <1>7. ends.logs = req[r].logs /\ goes.logs = req[r].logs
    BY <1>2 DEF Ended, Formed, Fields
  <1> HIDE DEF idle, next, ends, goes
  <1> QED
    BY <1>1, <1>3, <1>4, <1>5, <1>6, <1>7, <1>8 DEF Source

-----------------------------------------------------------------------------
(* While a step runs.                                                       *)

\* A batch that waits for its commit keeps every line that is stored.
Extends(h, s, t) ==
    h.pc = "append" /\ h.writes[s] # None =>
        \E more \in Seq(Nat) : h.writes[s].row.lines = First(t) \o more

ExtendInv == \A r \in Requests, s \in Steps \ exposed : Extends(req[r], s, logs[s])

\* Until a step is over its log only grows at its end: who has read its lines
\* has read the first lines of every later log.
StreamOnlyGrows ==
    [][\A s \in Steps \ exposed : s \notin finished' =>
         \E more \in Seq(Nat) : Stored(s)' = Stored(s) \o more]_vars

LEMMA NothingMore ==
    ASSUME TypeInv, NEW s \in Steps
    PROVE  \E more \in Seq(Nat) : Stored(s) = Stored(s) \o more
  <1>1. <<>> \in Seq(Nat) /\ Stored(s) \o <<>> = Stored(s)
    BY StoredType, ConcatEmptySeq, EmptySeq
  <1> QED
    BY <1>1

LEMMA ExtendGoesOn ==
    ASSUME TypeInv, ExtendInv, NEW r \in Requests, NEW h, Become(r, h),
           exposed \subseteq exposed', logs' = logs,
           \A s \in Steps \ exposed' : Extends(h, s, logs[s])
    PROVE  ExtendInv'
  <1>1. req' = [q \in Requests |-> IF q = r THEN h ELSE req[q]]
    BY DEF Become, TypeInv
  <1> QED
    BY <1>1 DEF ExtendInv

LEMMA ExtendStep ==
    TypeInv /\ LogInv /\ ContentInv /\ ExtendInv /\ [Next]_vars =>
        /\ ExtendInv'
        /\ \A s \in Steps \ exposed : s \notin finished' =>
             \E more \in Seq(Nat) : Stored(s)' = Stored(s) \o more
  <1> DEFINE Grows == \A s \in Steps \ exposed : s \notin finished' =>
                        \E more \in Seq(Nat) : Stored(s)' = Stored(s) \o more
  <1> SUFFICES ASSUME TypeInv, LogInv, ContentInv, ExtendInv, [Next]_vars
               PROVE  ExtendInv' /\ Grows
    OBVIOUS
  <1>1. ASSUME logs' = logs PROVE Grows
    <2>1. \A s \in Steps : Stored(s)' = Stored(s)
      BY <1>1 DEF Stored
    <2> QED
      BY <2>1, NothingMore
  <1> HIDE DEF Grows
  <1>2. CASE Engine \/ UNCHANGED vars
    <2>1. logs' = logs /\ exposed' = exposed /\ req' = req
      BY <1>2 DEF Engine, SendBatch, SendStepComplete, SendPipelineComplete, rows, vars
    <2> QED
      BY <1>1, <2>1 DEF ExtendInv
  <1>3. ASSUME NEW r \in Requests, AppendGroup(r) PROVE ExtendInv' /\ Grows
    <2> DEFINE g == Head(req[r].todo)
               new == NewLines(g.step, g.lines)
    <2>1. logs' = logs /\ exposed' = exposed /\ req[r].pc = "append" /\ req[r].todo # <<>>
      BY <1>3 DEF AppendGroup, rows, At, Busy
    <2>2. PICK h : /\ Become(r, h) /\ h.pc = "append" /\ h.type = req[r].type
                   /\ \A s \in Steps : h.writes[s] =
                        IF s # g.step \/ Closed(g.step) \/ new = <<>> THEN req[r].writes[s]
                        ELSE Put(g.step, Stored(g.step) \o new, "log_batch")
      BY <1>3, AppendChange
    <2>3. g.step \in Steps /\ new \in Seq(Nat) /\ Stored(g.step) \in Seq(Nat)
      <3>1. HandlerOK(req[r])
        BY DEF TypeInv
      <3>2. g.step \in Steps /\ g.lines \in Seq(Nat) /\ Rising(g.lines)
        BY <2>1, <3>1, HeadAndTail, CarriedLines DEF HandlerOK
      <3> QED
        BY <3>2, NewLinesType, StoredType
    <2>4. ASSUME NEW s \in Steps \ exposed PROVE Extends(h, s, logs[s])
      <3>1. CASE h.writes[s] = req[r].writes[s]
        BY <2>1, <2>2, <3>1 DEF ExtendInv, Extends
      <3>2. CASE s = g.step /\ h.writes[s] = Put(s, Stored(s) \o new, "log_batch")
        <4>1. Stored(s) = First(logs[s])
          BY RowLines
        <4>2. Put(s, Stored(s) \o new, "log_batch").row.lines = Stored(s) \o new
          BY DEF Put
        <4>3. h.writes[s].row.lines = Stored(s) \o new
          BY <3>2, <4>2
        <4> QED
          BY <2>3, <4>1, <4>3 DEF Extends
      <3> QED
        BY <2>2, <3>1, <3>2
    <2> QED
      BY <1>1, <2>1, <2>2, <2>4, ExtendGoesOn
  <1>4. ASSUME NEW r \in Requests, NEW h, Become(r, h), logs' = logs,
               exposed \subseteq exposed', h.pc # "append" \/ h.writes = NoWrites
        PROVE  ExtendInv' /\ Grows
    <2>1. \A s \in Steps : Extends(h, s, logs[s])
      BY <1>4 DEF Extends, NoWrites
    <2> QED
      BY <1>1, <1>4, <2>1, ExtendGoesOn
  <1>5. ASSUME NEW r \in Requests, Commits(r) PROVE ExtendInv' /\ Grows
    <2>1. exposed' = exposed
      BY <1>5 DEF Commits, AppendCommit, SaveCommit, ParseCommit
    <2>2. PICK h : Become(r, h) /\ h.writes = NoWrites
      BY <1>5, EndChange
    <2>3. req' = [q \in Requests |-> IF q = r THEN h ELSE req[q]]
      BY <2>2 DEF Become, TypeInv
    <2>4. ASSUME NEW q \in Requests, NEW s \in Steps \ exposed
          PROVE  Extends(req'[q], s, logs'[s])
      <3>1. CASE req'[q].writes[s] = None
        BY <3>1 DEF Extends
      <3>2. CASE req'[q].writes[s] # None
        <4>1. q # r /\ req'[q] = req[q]
          BY <2>2, <2>3, <3>2 DEF NoWrites
        <4>2. req[r].writes[s] = None
          BY <3>2, <4>1, SoleWriter
        <4>3. logs'[s] = logs[s]
          BY <1>5, <4>2, OthersUntouched
        <4> QED
          BY <4>1, <4>3 DEF ExtendInv
      <3> QED
        BY <3>1, <3>2
    <2>5. ASSUME NEW s \in Steps \ exposed, s \notin finished'
          PROVE  \E more \in Seq(Nat) : Stored(s)' = Stored(s) \o more
      <3>1. CASE req[r].writes[s] = None
        <4>1. Stored(s)' = Stored(s)
          BY <1>5, <3>1, OthersUntouched DEF Stored
        <4> QED
          BY <4>1, NothingMore
      <3>2. CASE req[r].writes[s] # None
        <4> DEFINE w == req[r].writes[s]
        <4>1. /\ Guarded(req[r], s, finished, exposed)
              /\ req[r].pc = "save_commit" => s = Current(r)
              /\ w.insert <=> logs[s] = <<>>
          BY <3>2 DEF LogInv, ContentInv, Ready, Prepared, Current
        <4>2. req[r].pc = "append"
          BY <1>5, <2>5, <3>2, <4>1
             DEF Commits, AppendCommit, SaveCommit, ParseCommit, At, Guarded
        <4>3. PICK more \in Seq(Nat) : w.row.lines = First(logs[s]) \o more
          BY <3>2, <4>2 DEF ExtendInv, Extends
        <4>4. w \in Write /\ logs[s] \in Seq(Row)
          BY <3>2 DEF TypeInv, TablesOK, Handler
        <4>5. logs'[s] = IF w.insert THEN Append(logs[s], w.row) ELSE [logs[s] EXCEPT ![1] = w.row]
          BY <1>5, <3>2 DEF Commits, AppendCommit, SaveCommit, ParseCommit, Commit, Applied
        <4> HIDE DEF w
        <4>6. logs'[s] # <<>> /\ logs'[s][1] = w.row
          BY <4>1, <4>4, <4>5, AppliedFirst
        <4>7. Stored(s)' = w.row.lines /\ Stored(s) = First(logs[s])
          BY <4>6, RowLines DEF Stored
        <4> QED
          BY <4>3, <4>7
      <3> QED
        BY <3>1, <3>2
    <2> QED
      BY <2>1, <2>4, <2>5 DEF ExtendInv, Grows
  <1>6. ASSUME NEW r \in Requests, Handle(r) \/ Fails(r) \/ \E m \in sent : Receive(r, m)
        PROVE  ExtendInv' /\ Grows
    <2>1. CASE \E m \in sent : Receive(r, m)
      <3>1. PICK m \in sent : Receive(r, m)
        BY <2>1
      <3>2. logs' = logs /\ exposed' = exposed
        BY <3>1 DEF Receive, rows
      <3>3. CASE terminal
        BY <1>1, <3>1, <3>2, <3>3 DEF Receive, ExtendInv
      <3>4. CASE ~terminal
        BY <1>4, <3>1, <3>2, <3>4, ReceiveChange
      <3> QED
        BY <3>3, <3>4
    <2>2. CASE Fails(r) \/ DeadlockVictim(r) \/ (Finalize(r) /\ ~Busy(r))
      <3>1. logs' = logs /\ exposed' = exposed
        BY <2>2 DEF Fails, AppendFails, SaveFails, FinalizeFails, ParseFails, DeadlockVictim,
             Finalize, rows
      <3> QED
        BY <1>4, <2>2, <3>1, EndChange
    <2>3. CASE SaveLock(r) \/ SaveRead(r) \/ (Finalize(r) /\ Busy(r))
      <3>1. logs' = logs /\ exposed' = exposed
        BY <2>3 DEF SaveLock, SaveRead, Finalize, rows
      <3>2. PICK h : Become(r, h) /\ h.pc \in {"save_lock", "save_read", "save_commit"}
        BY <2>3, SaveChange
      <3> QED
        BY <1>4, <3>1, <3>2
    <2>4. CASE ParseStep(r)
      <3>1. logs' = logs /\ exposed \subseteq exposed'
        BY <2>4 DEF ParseStep
      <3>2. PICK h : Become(r, h) /\ h.pc = "parse"
        BY <2>4, ParseChange
      <3> QED
        BY <1>4, <3>1, <3>2
    <2> QED
      BY <1>3, <1>5, <1>6, <2>1, <2>2, <2>3, <2>4 DEF Handle, Commits
  <1> QED
    BY <1>2, <1>6 DEF Next

\* A running step's log is only ever appended to, however its batches are
\* repeated and overlap: no batch writes from a log that another handler has
\* since changed.
THEOREM OnlyGrows == Spec => StreamOnlyGrows
  <1>1. Init => ExtendInv
    BY DEF Init, ExtendInv, Extends, Idle
  <1>2. TypeInv /\ LogInv /\ ContentInv /\ ExtendInv /\ [Next]_vars =>
          [\A s \in Steps \ exposed : s \notin finished' =>
             \E more \in Seq(Nat) : Stored(s)' = Stored(s) \o more]_vars
    BY ExtendStep
  <1> QED
    BY <1>1, <1>2, ExtendStep, TypeInvCorrect, LogInvCorrect, ContentInvCorrect, PTL
       DEF Spec, StreamOnlyGrows

-----------------------------------------------------------------------------
(* The steps that are left out.                                             *)

\* The steps a final callback saves before it writes their logs.
Owed == {s \in Listed : \E i \in DOMAIN Order : Order[i] = s}

Covers(groups, s) == \E i \in DOMAIN groups : groups[i].step = s

\* A final callback has saved, or is going to save, every step it owes.
FinalOK(h, over) ==
    h.type = "pipeline_complete" =>
        /\ h.pc \in {"finalize", "save_lock", "save_read", "save_commit"} =>
             \A s \in Owed : s \in over \/ Covers(h.todo, s)
        /\ h.pc = "parse" => Owed \subseteq over

FinalInv ==
    /\ exposed \cap Owed = {}
    /\ \A m \in sent : m.type = "pipeline_complete" => \A s \in Owed : Covers(m.groups, s)
    /\ \A r \in Requests : FinalOK(req[r], finished)

LEMMA FinalGoesOn ==
    ASSUME TypeInv, FinalInv, NEW r \in Requests, NEW h, Become(r, h),
           FinalOK(h, finished'), finished \subseteq finished', sent' = sent,
           exposed' \cap Owed = {}
    PROVE  FinalInv'
  <1>1. req' = [q \in Requests |-> IF q = r THEN h ELSE req[q]]
    BY DEF Become, TypeInv
  <1>2. ASSUME NEW q \in Requests PROVE FinalOK(req'[q], finished')
    BY <1>1 DEF FinalInv, FinalOK
  <1> QED
    BY <1>2 DEF FinalInv

\* The final callback carries every step it owes.
LEMMA FinalCovers ==
    ASSUME NEW s \in Owed
    PROVE  Covers(Pick(FinalGroups, {i \in DOMAIN Order : Order[i] \in Listed}), s)
  <1> DEFINE P == {i \in DOMAIN Order : Order[i] \in Listed}
             S == {FinalGroups[i] : i \in DOMAIN Order}
  <1>1. Len(Order) \in Nat /\ DOMAIN Order = 1..Len(Order)
    BY StepsAssumption, LenProperties
  <1>2. FinalGroups \in Seq(S) /\ Len(FinalGroups) = Len(Order)
    <2>1. FinalGroups \in [1..Len(Order) -> S]
      BY <1>1 DEF FinalGroups
    <2> HIDE DEF S
    <2> QED
      BY <1>1, <2>1, SeqDef
  <1>3. PICK i \in DOMAIN Order : Order[i] = s /\ s \in Listed
    BY DEF Owed
  <1>4. P \in SUBSET (1..Len(FinalGroups)) /\ i \in P
    BY <1>1, <1>2, <1>3
  <1>5. FinalGroups[i].step = s
    BY <1>3 DEF FinalGroups
  <1> HIDE DEF P, S
  <1>6. PICK k \in 1..Cardinality(P) : Pick(FinalGroups, P)[k] = FinalGroups[i]
    BY <1>2, <1>4, PickFinds
  <1>7. DOMAIN Pick(FinalGroups, P) = 1..Cardinality(P)
    BY DEF Pick
  <1> QED
    BY <1>5, <1>6, <1>7 DEF Covers, P

LEMMA TailCovers ==
    ASSUME NEW S, NEW q \in Seq(S), q # <<>>, NEW s, Covers(q, s)
    PROVE  \/ s = Head(q).step
           \/ Len(q) > 1 /\ Covers(Tail(q), s)
  <1>1. PICK i \in DOMAIN q : q[i].step = s
    BY DEF Covers
  <1>2. /\ Len(q) \in Nat /\ DOMAIN q = 1..Len(q)
        /\ Head(q) = q[1]
        /\ Len(Tail(q)) = Len(q) - 1 /\ Tail(q) \in Seq(S)
        /\ \A k \in 1..Len(Tail(q)) : Tail(q)[k] = q[k + 1]
    BY LenProperties, HeadTailProperties
  <1>3. CASE i = 1
    BY <1>1, <1>2, <1>3
  <1>4. CASE i # 1
    <2>1. i - 1 \in 1..Len(Tail(q)) /\ Tail(q)[i - 1] = q[i] /\ Len(q) > 1
      BY <1>2, <1>4
    <2>2. DOMAIN Tail(q) = 1..Len(Tail(q))
      BY <1>2, LenProperties
    <2> QED
      BY <1>1, <2>1, <2>2 DEF Covers
  <1> QED
    BY <1>3, <1>4

\* After a step is saved, the rest of the list is still to come.
LEMMA AfterSaveCovers ==
    ASSUME NEW h, HandlerOK(h), h.pc = "save_commit", NEW over, NEW done,
           FinalOK(h, over), over \subseteq done, Head(h.todo).step \in done
    PROVE  FinalOK(AfterSave(h), done)
  <1>1. Formed(h) /\ h.todo \in Seq(GroupsOf(h.type)) /\ h.todo # <<>>
    BY HandlerForm DEF HandlerOK
  <1>2. CASE h.type = "step_complete"
    BY <1>2 DEF AfterSave, Idle, FinalOK
  <1>3. CASE h.type # "step_complete" /\ Len(h.todo) > 1
    <2>1. AfterSave(h) = Ended(h, "save_lock", Tail(h.todo))
      BY <1>3 DEF AfterSave
    <2>2. LET e == AfterSave(h) IN e.pc = "save_lock" /\ e.todo = Tail(h.todo) /\ e.type = h.type
      BY <1>1, <2>1, EndedFormed
    <2>3. ASSUME h.type = "pipeline_complete", NEW s \in Owed
          PROVE  s \in done \/ Covers(Tail(h.todo), s)
      <3>1. s \in over \/ Covers(h.todo, s)
        BY <2>3 DEF FinalOK
      <3> QED
        BY <1>1, <3>1, TailCovers
    <2> QED
      BY <2>2, <2>3 DEF FinalOK
  <1>4. CASE h.type # "step_complete" /\ ~(Len(h.todo) > 1)
    <2>1. AfterSave(h) = Ended(h, "parse", h.logs)
      BY <1>4 DEF AfterSave
    <2>2. LET e == AfterSave(h) IN e.pc = "parse" /\ e.type = h.type
      BY <1>1, <2>1, EndedFormed
    <2>3. ASSUME h.type = "pipeline_complete", NEW s \in Owed
          PROVE  s \in done
      <3>1. s \in over \/ Covers(h.todo, s)
        BY <2>3 DEF FinalOK
      <3> QED
        BY <1>1, <1>4, <3>1, TailCovers
    <2> QED
      BY <2>2, <2>3 DEF FinalOK
  <1> QED
    BY <1>2, <1>3, <1>4

FinalList == Pick(FinalGroups, {i \in DOMAIN Order : Order[i] \in Listed})

\* The engine sends one message at a time, and its final callback is always
\* the same.
LEMMA EngineSends ==
    ASSUME Engine
    PROVE  \E m : /\ sent' = sent \cup {m}
                  /\ m.type = "pipeline_complete" =>
                       m.groups = FinalList /\ m.logs = FinalGroups
  <1>1. CASE \E order \in Orders : SendBatch(order)
    <2>1. PICK order \in Orders : SendBatch(order)
      BY <1>1
    <2> DEFINE groups == [i \in DOMAIN order |->
                            [step |-> order[i], lines |-> <<streamed[order[i]] + 1>>]]
               m == [type |-> "log_batch", logs |-> <<>>, groups |-> groups]
    <2>2. sent' = sent \cup {m}
      BY <2>1 DEF SendBatch, Send
    <2> HIDE DEF groups
    <2>3. m.type # "pipeline_complete"
      OBVIOUS
    <2> HIDE DEF m
    <2> QED
      BY <2>2, <2>3
  <1>2. CASE \E s \in Steps : SendStepComplete(s)
    <2>1. PICK s \in Steps : SendStepComplete(s)
      BY <1>2
    <2> DEFINE groups == <<[step |-> s, lines |-> Printed(s)]>>
               m == [type |-> "step_complete", logs |-> <<>>, groups |-> groups]
    <2>2. sent' = sent \cup {m}
      BY <2>1 DEF SendStepComplete, Send
    <2> HIDE DEF groups
    <2>3. m.type # "pipeline_complete"
      OBVIOUS
    <2> HIDE DEF m
    <2> QED
      BY <2>2, <2>3
  <1>3. CASE SendPipelineComplete
    <2> DEFINE m == [type |-> "pipeline_complete", logs |-> FinalGroups, groups |-> FinalList]
    <2>1. sent' = sent \cup {m}
      BY <1>3 DEF SendPipelineComplete, Send, FinalList
    <2>2. m.groups = FinalList /\ m.logs = FinalGroups
      OBVIOUS
    <2> HIDE DEF m
    <2> QED
      BY <2>1, <2>2
  <1> QED
    BY <1>1, <1>2, <1>3 DEF Engine

LEMMA FinalEngine ==
    ASSUME FinalInv, Engine
    PROVE  FinalInv'
  <1>1. exposed' = exposed /\ finished' = finished /\ req' = req
    BY DEF Engine, SendBatch, SendStepComplete, SendPipelineComplete, rows
  <1>2. PICK m : sent' = sent \cup {m} /\ (m.type = "pipeline_complete" => m.groups = FinalList)
    BY EngineSends
  <1>3. m.type = "pipeline_complete" => \A s \in Owed : Covers(m.groups, s)
    BY <1>2, FinalCovers DEF FinalList
  <1> QED
    BY <1>1, <1>2, <1>3 DEF FinalInv

LEMMA FinalStep ==
    ASSUME "final" \notin Faults, TypeInv, FinalInv, [Next]_vars
    PROVE  FinalInv'
  <1>1. CASE UNCHANGED vars
    BY <1>1 DEF FinalInv, vars, engine, rows
  <1>2. ASSUME NEW r \in Requests, NEW m \in sent, Receive(r, m) PROVE FinalInv'
    <2>1. finished' = finished /\ exposed' = exposed /\ sent' = sent
      BY <1>2 DEF Receive, engine, rows
    <2>2. CASE terminal
      BY <1>2, <2>1, <2>2 DEF Receive, FinalInv
    <2>3. CASE ~terminal
      <3>1. PICK h : Become(r, h) /\ h.type = m.type /\ h.todo = m.groups /\ h.pc = FirstPC(m.type)
        BY <1>2, <2>3, ReceiveChange
      <3>2. FinalOK(h, finished')
        BY <3>1 DEF FinalOK, FinalInv, FirstPC
      <3> QED
        BY <2>1, <3>1, <3>2, FinalGoesOn DEF FinalInv
    <2> QED
      BY <2>2, <2>3
  <1>3. ASSUME NEW r \in Requests, Handle(r) \/ Fails(r) PROVE FinalInv'
    <2>0. sent' = sent
      BY <1>3 DEF Handle, Fails, AppendGroup, AppendCommit, DeadlockVictim, SaveLock, SaveRead,
           SaveCommit, Finalize, ParseStep, ParseCommit, AppendFails, SaveFails, FinalizeFails,
           ParseFails, engine
    <2>1. HandlerOK(req[r]) /\ FinalOK(req[r], finished)
      BY DEF TypeInv, FinalInv
    <2>2. CASE AppendGroup(r)
      <3>1. finished' = finished /\ exposed' = exposed /\ req[r].pc = "append"
        BY <2>2 DEF AppendGroup, rows, At
      <3>2. PICK h : Become(r, h) /\ h.pc = "append"
        BY <2>2, AppendChange
      <3> QED
        BY <2>0, <3>1, <3>2, FinalGoesOn DEF FinalOK, FinalInv
    <2>3. CASE SaveLock(r) \/ SaveRead(r) \/ (Finalize(r) /\ Busy(r))
      <3>1. finished' = finished /\ exposed' = exposed
            /\ req[r].pc \in {"save_lock", "save_read", "finalize"}
        BY <2>3 DEF SaveLock, SaveRead, Finalize, rows, At
      <3>2. PICK h : /\ Become(r, h) /\ h.type = req[r].type /\ h.todo = req[r].todo
                     /\ h.pc \in {"save_lock", "save_read", "save_commit"}
        BY <2>3, SaveChange
      <3>3. FinalOK(h, finished')
        BY <2>1, <3>1, <3>2 DEF FinalOK
      <3> QED
        BY <2>0, <3>1, <3>2, <3>3, FinalGoesOn DEF FinalInv
    <2>4. CASE SaveCommit(r)
      <3>1. /\ finished' = finished \cup {Current(r)} /\ exposed' = exposed
            /\ req[r].pc = "save_commit" /\ Become(r, AfterSave(req[r]))
        BY <2>4 DEF SaveCommit, At
      <3>2. FinalOK(AfterSave(req[r]), finished')
        BY <2>1, <3>1, AfterSaveCovers DEF Current
      <3> QED
        BY <2>0, <3>1, <3>2, FinalGoesOn DEF FinalInv
    <2>5. CASE SaveFails(r)
      <3>1. /\ finished' = finished /\ exposed' = exposed /\ req[r].type = "step_complete"
            /\ Become(r, Idle)
        <4>1. req[r].type = "step_complete"
          BY <2>5 DEF SaveFails
        <4> QED
          BY <2>5, <4>1 DEF SaveFails, rows, AfterSave
      <3> QED
        BY <2>0, <3>1, FinalGoesOn DEF FinalInv, FinalOK, Idle
    <2>6. CASE Finalize(r) /\ ~Busy(r)
      <3>1. /\ finished' = finished /\ exposed' = exposed /\ req[r].pc = "finalize"
            /\ req[r].todo = <<>> /\ Become(r, Ended(req[r], "parse", req[r].logs))
        BY <2>6 DEF Finalize, Busy, At
      <3>2. Formed(req[r]) /\ req[r].type = "pipeline_complete"
        BY <2>1, <3>1, HandlerForm DEF HandlerOK
      <3>3. Owed \subseteq finished
        BY <2>1, <3>1, <3>2 DEF FinalOK, Covers
      <3>4. LET e == Ended(req[r], "parse", req[r].logs) IN e.pc = "parse"
        BY <3>2, EndedFormed
      <3>5. FinalOK(Ended(req[r], "parse", req[r].logs), finished')
        BY <3>1, <3>3, <3>4 DEF FinalOK
      <3> QED
        BY <2>0, <3>1, <3>5, FinalGoesOn DEF FinalInv
    <2>7. CASE ParseStep(r)
      <3>1. /\ finished' = finished /\ req[r].pc = "parse"
            /\ \A s \in exposed' : s \in exposed \/ s \notin finished
        BY <2>7 DEF ParseStep, At
      <3>2. PICK h : Become(r, h) /\ h.type = req[r].type /\ h.pc = "parse"
        BY <2>7, ParseChange
      <3>3. Owed \subseteq finished
        BY <2>1, <3>1 DEF FinalOK, HandlerOK
      <3>4. FinalOK(h, finished')
        BY <3>1, <3>2, <3>3 DEF FinalOK
      <3>5. exposed' \cap Owed = {}
        BY <3>1, <3>3 DEF FinalInv
      <3> QED
        BY <2>0, <3>1, <3>2, <3>4, <3>5, FinalGoesOn
    <2>8. CASE AppendCommit(r) \/ ParseCommit(r) \/ AppendFails(r) \/ ParseFails(r) \/ DeadlockVictim(r)
      <3>1. finished' = finished /\ exposed' = exposed /\ Become(r, Idle)
        BY <2>8 DEF AppendCommit, ParseCommit, AppendFails, ParseFails, DeadlockVictim, rows
      <3> QED
        BY <2>0, <3>1, FinalGoesOn DEF FinalInv, FinalOK, Idle
    <2>9. ~FinalizeFails(r)
      BY DEF FinalizeFails
    <2> QED
      BY <1>3, <2>2, <2>3, <2>4, <2>5, <2>6, <2>7, <2>8, <2>9 DEF Handle, Fails
  <1> QED
    BY <1>1, <1>2, <1>3, FinalEngine DEF Next

\* No step is left out of the log properties but one that the final callback
\* does not list, unless its saves of the listed steps can fail.
LEMMA ListedNeverExposed ==
    ASSUME "final" \notin Faults
    PROVE  Spec => [](exposed \cap Owed = {})
  <1>1. Init => FinalInv
    BY DEF Init, FinalInv, FinalOK, Idle
  <1>2. TypeInv /\ FinalInv /\ [Next]_vars => FinalInv'
    BY FinalStep
  <1>3. FinalInv => exposed \cap Owed = {}
    BY DEF FinalInv
  <1> QED
    BY <1>1, <1>2, <1>3, TypeInvCorrect, PTL DEF Spec

\* The steps the final callback lists keep one log, in order and whole once
\* it is reported, when its saves do not fail; no step is excepted.
THEOREM ListedKept ==
    ASSUME "final" \notin Faults
    PROVE  Spec => [](\A s \in Owed :
                        /\ Len(logs[s]) <= 1
                        /\ Rising(Stored(s))
                        /\ s \in reported /\ Whole(s) # <<>> => Stored(s) = Whole(s))
  <1> DEFINE Keep == \A s \in Owed :
                       /\ Len(logs[s]) <= 1
                       /\ Rising(Stored(s))
                       /\ s \in reported /\ Whole(s) # <<>> => Stored(s) = Whole(s)
  <1>1. ASSUME OneLogPerStep, StoredInOrder, ReportedIsWhole, exposed \cap Owed = {}
        PROVE  Keep
    <2>1. \A s \in Owed : s \in Steps \ exposed
      BY <1>1, ListedAssumption DEF Owed
    <2> QED
      BY <1>1, <2>1 DEF OneLogPerStep, StoredInOrder, ReportedIsWhole, Rising, Whole
  <1> HIDE DEF Keep
  <1>2. Spec => []Keep
    BY <1>1, OneRow, InOrder, ReportedWhole, ListedNeverExposed, PTL
  <1> QED
    BY <1>2 DEF Keep

-----------------------------------------------------------------------------
(* Who waits for whom.                                                      *)

\* The log locks r asks for.
Wanted(r) ==
    LET g == Head(req[r].todo) IN
      IF req[r].pc = "parse" /\ ~Known(g.step) THEN {} ELSE LogKeys(g.step, g.lines)

\* q holds the lock of a log that r asks for.
WaitsForLog(r, q) ==
    /\ r # q
    /\ req[r].pc = "save_read" \/ (req[r].pc = "parse" /\ Busy(r))
    /\ Wanted(r) \cap req[q].logLocks # {}

Blocked(r, q) == WaitsFor(r, q) \/ WaitsForLog(r, q)

\* Each waits for one of them, and each is waited for by one of them.
Cycle(set) ==
    /\ \A q \in set : \E p \in set : Blocked(q, p)
    /\ \A q \in set : \E p \in set : Blocked(p, q)

\* Whoever is in a cycle of waits is a batch.
OnlyBatchesDeadlock ==
    \A set \in SUBSET Requests : Cycle(set) => \A q \in set : At(q, "append")

\* What is left of the logs of the final callback after the first n.
Rest(n) == [i \in 1..(Len(Order) - n) |-> FinalGroups[n + i]]

\* A handler holds locks only inside a transaction, and the last transaction
\* of a final callback takes those of the logs in the order of the steps.
QueueOK(h) ==
    /\ h.type = "pipeline_complete" => h.logs = FinalGroups
    /\ h.pc \notin {"append", "save_read", "save_commit"} => h.locks = {}
    /\ h.pc \notin {"save_commit", "parse"} => h.logLocks = {}
    /\ h.pc = "parse" =>
         \E n \in 0..Len(Order) :
            h.todo = Rest(n) /\ \A s \in h.logLocks : \E i \in 1..n : Order[i] = s

QueueInv ==
    /\ \A m \in sent : m.type = "pipeline_complete" => m.logs = FinalGroups
    /\ \A r \in Requests : QueueOK(req[r])

LEMMA RestForm ==
    ASSUME NEW n \in 0..Len(Order)
    PROVE  /\ Rest(0) = FinalGroups
           /\ Rest(n) # <<>> => /\ n < Len(Order)
                                /\ Head(Rest(n)).step = Order[n + 1]
                                /\ Tail(Rest(n)) = Rest(n + 1)
  <1> DEFINE size == Len(Order)
             S == {FinalGroups[i] : i \in 1..size}
  <1>1. size \in Nat /\ DOMAIN Order = 1..size
    BY StepsAssumption, LenProperties
  <1>2. FinalGroups = [i \in 1..size |-> FinalGroups[i]]
        /\ \A i \in 1..size : FinalGroups[i].step = Order[i]
    BY <1>1 DEF FinalGroups
  <1>3. ASSUME NEW k \in 0..size
        PROVE  /\ Rest(k) \in Seq(S) /\ Len(Rest(k)) = size - k
               /\ \A i \in 1..(size - k) : Rest(k)[i] = FinalGroups[k + i]
    <2>1. \A i \in 1..(size - k) : k + i \in 1..size
      BY <1>1
    <2>2. Rest(k) \in [1..(size - k) -> S] /\ size - k \in Nat
      BY <1>1, <2>1 DEF Rest
    <2>3. Rest(k) \in Seq(S) /\ Len(Rest(k)) = size - k
      <3> HIDE DEF S, size
      <3> QED
        BY <2>2, SeqDef
    <2> QED
      BY <2>1, <2>3 DEF Rest
  <1>4. Rest(0) = FinalGroups
    BY <1>1, <1>2 DEF Rest
  <1>5. ASSUME Rest(n) # <<>>
        PROVE  n < size /\ Head(Rest(n)).step = Order[n + 1] /\ Tail(Rest(n)) = Rest(n + 1)
    <2> HIDE DEF S
    <2> DEFINE rest == Rest(n)
    <2>0. /\ n \in 0..size /\ rest \in Seq(S) /\ rest # <<>> /\ Len(rest) = size - n
          /\ \A i \in 1..(size - n) : rest[i] = FinalGroups[n + i]
      BY <1>3, <1>5
    <2> HIDE DEF rest, size
    <2>1. n < size
      <3>1. Len(rest) # 0
        BY <2>0, EmptySeq
      <3> QED
        BY <1>1, <2>0, <3>1
    <2>2. /\ Head(rest) = rest[1]
          /\ Tail(rest) \in Seq(S) /\ Len(Tail(rest)) = size - (n + 1)
          /\ \A i \in 1..Len(Tail(rest)) : Tail(rest)[i] = rest[i + 1]
      <3>1. /\ Tail(rest) \in Seq(S) /\ Len(Tail(rest)) = Len(rest) - 1
            /\ \A i \in 1..Len(Tail(rest)) : Tail(rest)[i] = rest[i + 1]
        BY <2>0, HeadTailProperties
      <3>2. Head(rest) = rest[1]
        BY <2>0
      <3> QED
        BY <1>1, <2>0, <3>1, <3>2
    <2>3. n + 1 \in 0..size /\ n + 1 \in 1..size
      BY <1>1, <2>1
    <2>4. Head(rest).step = Order[n + 1]
      <3>1. 1 \in 1..(size - n)
        BY <1>1, <2>0, <2>1
      <3>2. rest[1] = FinalGroups[n + 1]
        BY <2>0, <3>1
      <3> QED
        BY <1>2, <2>2, <2>3, <3>2
    <2>5. Rest(n + 1) \in Seq(S) /\ Len(Rest(n + 1)) = size - (n + 1)
          /\ \A i \in 1..(size - (n + 1)) : Rest(n + 1)[i] = FinalGroups[(n + 1) + i]
      BY <1>3, <2>3
    <2>6. ASSUME NEW i \in 1..(size - (n + 1)) PROVE Tail(rest)[i] = Rest(n + 1)[i]
      <3>1. i + 1 \in 1..(size - n) /\ n + (i + 1) = (n + 1) + i
        BY <1>1
      <3>2. rest[i + 1] = FinalGroups[n + (i + 1)]
        BY <2>0, <3>1
      <3>3. Rest(n + 1)[i] = FinalGroups[(n + 1) + i]
        BY <2>5
      <3> QED
        BY <2>2, <3>1, <3>2, <3>3
    <2>7. Tail(rest) = Rest(n + 1)
      BY <2>2, <2>5, <2>6, SeqEqual
    <2> QED
      BY <2>1, <2>4, <2>7 DEF rest, size
  <1> QED
    BY <1>4, <1>5

LEMMA QueueGoesOn ==
    ASSUME TypeInv, QueueInv, NEW r \in Requests, NEW h, Become(r, h), QueueOK(h), sent' = sent
    PROVE  QueueInv'
  <1>1. req' = [q \in Requests |-> IF q = r THEN h ELSE req[q]]
    BY DEF Become, TypeInv
  <1>2. \A q \in Requests : QueueOK(req'[q])
    BY <1>1 DEF QueueInv
  <1> QED
    BY <1>2 DEF QueueInv

LEMMA QueueEngine ==
    ASSUME QueueInv, Engine
    PROVE  QueueInv'
  <1>1. req' = req
    BY DEF Engine, SendBatch, SendStepComplete, SendPipelineComplete
  <1>2. PICK m : sent' = sent \cup {m} /\ (m.type = "pipeline_complete" => m.logs = FinalGroups)
    BY EngineSends
  <1> QED
    BY <1>1, <1>2 DEF QueueInv

LEMMA QueueStep == TypeInv /\ QueueInv /\ [Next]_vars => QueueInv'
  <1> SUFFICES ASSUME TypeInv, QueueInv, [Next]_vars PROVE QueueInv'
    OBVIOUS
  <1>1. CASE UNCHANGED vars
    BY <1>1 DEF QueueInv, vars, engine
  <1>2. ASSUME NEW r \in Requests, NEW m \in sent, Receive(r, m) PROVE QueueInv'
    <2>1. sent' = sent
      BY <1>2 DEF Receive, engine
    <2>2. CASE terminal
      BY <1>2, <2>1, <2>2 DEF Receive, QueueInv
    <2>3. CASE ~terminal
      <3>1. PICK h : /\ Become(r, h) /\ h.type = m.type /\ h.pc = FirstPC(m.type)
                     /\ h.logs = m.logs /\ h.locks = {} /\ h.logLocks = {}
        BY <1>2, <2>3, ReceiveChange
      <3>2. m.type \in Source
        BY DEF TypeInv, MessageOK, Message
      <3>3. h.pc # "parse"
        BY <3>1, <3>2 DEF FirstPC, Source
      <3>4. QueueOK(h)
        BY <3>1, <3>3 DEF QueueOK, QueueInv
      <3> QED
        BY <2>1, <3>1, <3>4, QueueGoesOn
    <2> QED
      BY <2>2, <2>3
  <1>3. ASSUME NEW r \in Requests, Handle(r) \/ Fails(r) PROVE QueueInv'
    <2>1. sent' = sent
      BY <1>3 DEF Handle, Fails, AppendGroup, AppendCommit, DeadlockVictim, SaveLock, SaveRead,
           SaveCommit, Finalize, ParseStep, ParseCommit, AppendFails, SaveFails, FinalizeFails,
           ParseFails, engine
    <2>2. HandlerOK(req[r]) /\ QueueOK(req[r])
      BY DEF TypeInv, QueueInv
    <2>3. CASE AppendGroup(r)
      <3>1. PICK h : /\ Become(r, h) /\ h.pc = "append" /\ h.type = req[r].type
                     /\ h.logs = req[r].logs /\ h.logLocks = req[r].logLocks
        BY <2>3, AppendChange
      <3>2. req[r].pc = "append"
        BY <2>3 DEF AppendGroup, At
      <3>3. QueueOK(h)
        BY <2>2, <3>1, <3>2 DEF QueueOK
      <3> QED
        BY <2>1, <3>1, <3>3, QueueGoesOn
    <2>4. CASE SaveLock(r) \/ SaveRead(r) \/ (Finalize(r) /\ Busy(r))
      <3>1. PICK h : /\ Become(r, h) /\ h.type = req[r].type /\ h.logs = req[r].logs
                     /\ \/ /\ h.pc = "save_lock" /\ h.locks = req[r].locks
                           /\ req[r].pc = "finalize"
                        \/ h.pc \in {"save_read", "save_commit"}
                     /\ h.pc # "save_commit" => h.logLocks = req[r].logLocks
        BY <2>4, SaveChange
      <3>2. req[r].pc \in {"save_lock", "save_read", "finalize"}
        BY <2>4 DEF SaveLock, SaveRead, Finalize, At
      <3>3. req[r].logLocks = {}
        BY <2>2, <3>2 DEF QueueOK
      <3>4. h.pc = "save_lock" => h.locks = {}
        BY <2>2, <3>1 DEF QueueOK
      <3>5. QueueOK(h)
        BY <2>2, <3>1, <3>2, <3>3, <3>4 DEF QueueOK
      <3> QED
        BY <2>1, <3>1, <3>5, QueueGoesOn
    <2>5. CASE ParseStep(r)
      <3>1. req[r].pc = "parse" /\ req[r].todo # <<>>
        BY <2>5 DEF ParseStep, At, Busy
      <3>2. PICK h : /\ Become(r, h) /\ h.type = req[r].type /\ h.pc = "parse"
                     /\ h.logs = req[r].logs /\ h.todo = Tail(req[r].todo)
                     /\ h.locks = req[r].locks
                     /\ h.logLocks \subseteq req[r].logLocks \cup {Head(req[r].todo).step}
        BY <2>5, ParseChange
      <3>3. PICK n \in 0..Len(Order) :
              req[r].todo = Rest(n) /\ \A s \in req[r].logLocks : \E i \in 1..n : Order[i] = s
        BY <2>2, <3>1 DEF QueueOK
      <3>4. /\ n < Len(Order) /\ Head(req[r].todo).step = Order[n + 1]
            /\ h.todo = Rest(n + 1)
        BY <3>1, <3>2, <3>3, RestForm
      <3>5. /\ Len(Order) \in Nat /\ n + 1 \in 0..Len(Order) /\ n + 1 \in 1..(n + 1)
            /\ \A i \in 1..n : i \in 1..(n + 1)
        BY <3>4, StepsAssumption, LenProperties
      <3>6. \A s \in h.logLocks : \E i \in 1..(n + 1) : Order[i] = s
        BY <3>2, <3>3, <3>4, <3>5
      <3>7. QueueOK(h)
        BY <2>2, <3>1, <3>2, <3>4, <3>5, <3>6 DEF QueueOK
      <3> QED
        BY <2>1, <3>2, <3>7, QueueGoesOn
    <2>6. CASE \/ AppendCommit(r) \/ SaveCommit(r) \/ ParseCommit(r) \/ Fails(r)
               \/ DeadlockVictim(r) \/ (Finalize(r) /\ ~Busy(r))
      <3>1. PICK h : /\ Become(r, h) /\ h.locks = {} /\ h.logLocks = {}
                     /\ \/ h.pc = "idle" /\ h.type = "log_batch"
                        \/ /\ h.type = req[r].type /\ h.type = "pipeline_complete"
                           /\ h.logs = req[r].logs
                           /\ h.pc = "save_lock" \/ (h.pc = "parse" /\ h.todo = h.logs)
        BY <2>6, EndChange DEF Commits
      <3>2. 0 \in 0..Len(Order) /\ Rest(0) = FinalGroups
        BY StepsAssumption, LenProperties, RestForm
      <3>3. h.pc = "parse" => h.todo = Rest(0)
        BY <2>2, <3>1, <3>2 DEF QueueOK
      <3>4. QueueOK(h)
        BY <2>2, <3>1, <3>2, <3>3 DEF QueueOK
      <3> QED
        BY <2>1, <3>1, <3>4, QueueGoesOn
    <2> QED
      BY <1>3, <2>3, <2>4, <2>5, <2>6 DEF Handle
  <1> QED
    BY <1>1, <1>2, <1>3, QueueEngine DEF Next

LEMMA QueueInvCorrect == Spec => []QueueInv
  <1>1. Init => QueueInv
    BY DEF Init, QueueInv, QueueOK, Idle
  <1> QED
    BY <1>1, QueueStep, TypeInvCorrect, PTL DEF Spec

\* Among final callbacks that wait for a log, one waits for none of the
\* others: the one that is furthest down the list.
LEMMA FurthestParses ==
    ASSUME QueueInv, \A i, k \in DOMAIN Order : Order[i] = Order[k] => i = k,
           NEW set \in SUBSET Requests, set # {}, \A q \in set : req[q].pc = "parse"
    PROVE  \E r \in set : \A q \in set : ~WaitsForLog(r, q)
  <1> DEFINE at(q) == CHOOSE n \in 0..Len(Order) :
                        /\ req[q].todo = Rest(n)
                        /\ \A s \in req[q].logLocks : \E i \in 1..n : Order[i] = s
             places == {at(q) : q \in set}
  <1>1. Len(Order) \in Nat /\ DOMAIN Order = 1..Len(Order)
    BY StepsAssumption, LenProperties
  <1>2. ASSUME NEW q \in set
        PROVE  /\ at(q) \in 0..Len(Order) /\ req[q].todo = Rest(at(q))
               /\ \A s \in req[q].logLocks : \E i \in 1..at(q) : Order[i] = s
    BY DEF QueueInv, QueueOK
  <1> HIDE DEF at
  <1>3. Numbers(places) /\ Cardinality(places) \in Nat \ {0}
    <2>1. places \in SUBSET (0..Len(Order)) /\ places # {}
      BY <1>2
    <2>2. IsFiniteSet(0..Len(Order))
      BY <1>1, FS_Interval
    <2> HIDE DEF places
    <2>3. IsFiniteSet(places) /\ Cardinality(places) \in Nat
      BY <2>1, <2>2, FS_Subset, FS_CardinalityType
    <2>4. Cardinality(places) # 0
      BY <2>1, <2>3, FS_EmptySet
    <2>5. places \in SUBSET Nat
      BY <1>1, <2>1
    <2> QED
      BY <2>3, <2>4, <2>5 DEF Numbers
  <1> DEFINE size == Cardinality(places)
             last == Nth(places, size)
  <1>4. last \in places /\ Cardinality(Below(places, last)) = Cardinality(places) - 1
    <2>1. size \in 1..Cardinality(places)
      BY <1>3
    <2> HIDE DEF places
    <2> QED
      BY <1>3, <2>1, NthBelow
  <1>5. PICK r \in set : last = at(r)
    BY <1>4
  <1>6. ASSUME NEW q \in set PROVE ~ at(r) < at(q)
    <2>1. at(q) \in places
      OBVIOUS
    <2> HIDE DEF places, last
    <2>2. Cardinality(Below(places, at(q))) \in 0..(Cardinality(places) - 1)
      BY <1>3, <2>1, BelowSize
    <2>3. at(r) < at(q) => Cardinality(Below(places, at(r))) < Cardinality(Below(places, at(q)))
      BY <1>3, <1>4, <1>5, <2>1, BelowGrows
    <2> QED
      BY <1>3, <1>4, <1>5, <2>2, <2>3
  <1>7. ASSUME NEW q \in set, WaitsForLog(r, q) PROVE FALSE
    <2>1. req[r].todo # <<>> /\ Head(req[r].todo).step \in req[q].logLocks
      BY <1>7 DEF WaitsForLog, Wanted, LogKeys, Busy
    <2>2. at(r) < Len(Order) /\ Head(req[r].todo).step = Order[at(r) + 1]
      BY <1>2, <2>1, RestForm
    <2>3. PICK i \in 1..at(q) : Order[i] = Order[at(r) + 1]
      BY <1>2, <2>1, <2>2
    <2>4. at(r) \in 0..Len(Order) /\ at(q) \in 0..Len(Order)
      BY <1>2
    <2>5. i \in 1..Len(Order) /\ at(r) + 1 \in 1..Len(Order)
      BY <1>1, <2>2, <2>4
    <2>6. i = at(r) + 1
      BY <1>1, <2>3, <2>5
    <2> QED
      BY <1>6, <2>4, <2>6
  <1> QED
    BY <1>7

LEMMA CyclesOfBatches ==
    ASSUME QueueInv, \A i, k \in DOMAIN Order : Order[i] = Order[k] => i = k,
           NEW set \in SUBSET Requests, Cycle(set), NEW r \in set
    PROVE  At(r, "append")
  <1>1. \A q \in Requests : QueueOK(req[q])
    BY DEF QueueInv
  <1>2. \A q \in set : req[q].pc \in {"append", "save_lock", "save_read", "parse"}
    BY DEF Cycle, Blocked, WaitsFor, WaitsForLog
  <1>3. \A q, p \in set : WaitsForLog(q, p) => req[p].pc = "parse"
    BY <1>1, <1>2 DEF WaitsForLog, QueueOK
  <1> DEFINE final == {q \in set : req[q].pc = "parse"}
  <1>4. final = {}
    <2> SUFFICES ASSUME final # {} PROVE FALSE
      OBVIOUS
    <2>1. PICK q \in final : \A p \in final : ~WaitsForLog(q, p)
      BY FurthestParses
    <2>2. PICK p \in set : Blocked(q, p)
      BY DEF Cycle
    <2>3. WaitsForLog(q, p)
      BY <2>1, <2>2 DEF Blocked, WaitsFor
    <2> QED
      BY <1>3, <2>1, <2>3
  <1>5. req[r].pc # "parse"
    BY <1>4
  <1> HIDE DEF final
  <1>6. req[r].pc # "save_read"
    <2> SUFFICES ASSUME req[r].pc = "save_read" PROVE FALSE
      OBVIOUS
    <2>1. PICK p \in set : WaitsForLog(r, p)
      BY DEF Cycle, Blocked, WaitsFor
    <2> QED
      BY <1>3, <1>4, <2>1 DEF final
  <1>7. req[r].pc # "save_lock"
    <2> SUFFICES ASSUME req[r].pc = "save_lock" PROVE FALSE
      OBVIOUS
    <2>1. PICK p \in set : Blocked(p, r)
      BY DEF Cycle
    <2>2. req[r].locks = {} /\ req[r].logLocks = {}
      BY <1>1 DEF QueueOK
    <2> QED
      BY <2>1, <2>2 DEF Blocked, WaitsFor, WaitsForLog
  <1> QED
    BY <1>2, <1>5, <1>6, <1>7 DEF At

\* The advisory locks of the callbacks deadlock only among batches, which take
\* the locks of several steps in the order of their events: a step_complete
\* and a final callback are never stuck but behind them.  _save_log_lines
\* collects the lines in a dict, so that every step comes once.
THEOREM DeadlocksAreOfBatches ==
    ASSUME \A i, k \in DOMAIN Order : Order[i] = Order[k] => i = k
    PROVE  Spec => []OnlyBatchesDeadlock
  <1>1. QueueInv => OnlyBatchesDeadlock
    BY CyclesOfBatches DEF OnlyBatchesDeadlock
  <1> QED
    BY <1>1, QueueInvCorrect, PTL
===============================================================================
