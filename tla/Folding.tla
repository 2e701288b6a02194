------------------------------- MODULE Folding -------------------------------
(***************************************************************************)
(* What folding a sequence from the left means: the fold of nothing is the *)
(* base, and the fold of a sequence with one more element is one more step.*)
(* An instance of this module gives these facts for one fold.              *)
(***************************************************************************)
EXTENDS Integers, Sequences, Folds, WellFoundedInduction, TLAPS

CONSTANT Step(_, _)

GreatestOf(P) == CHOOSE m \in P : \A k \in P : m >= k

\* FoldLeft(Step, base, s), written out so that an instance does not carry the modules
\* that FoldLeft is defined with.
Fold(base, s) == MapThenFoldSet(LAMBDA e, acc : Step(acc, e), base,
                                LAMBDA i : s[i], LAMBDA P : GreatestOf(P), DOMAIN s)

-----------------------------------------------------------------------------
(* Induction over numbers and sequences, for sets in place of predicates.  *)

\* A set of numbers has a least one.
LEMMA Least ==
  ASSUME NEW S \in SUBSET Nat, S # {}
  PROVE  \E m \in S : \A k \in S : m <= k
<1> DEFINE Less == {p \in Nat \X Nat : p[1] < p[2]}
<1>1. IsWellFoundedOn(Less, Nat)
  BY NatLessThanWellFounded DEF OpToRel
<1>2. PICK m \in S : \A k \in S : <<k, m>> \notin Less
  <2> HIDE DEF Less
  <2> QED
    BY <1>1, WFMin
<1>3. m \in Nat /\ \A k \in S : k \in Nat /\ ~(k < m)
  BY <1>2
<1> QED
  BY <1>3

\* What holds of 0, and of n + 1 if it holds of n, holds of every number.
LEMMA Numbers ==
  ASSUME NEW S \in SUBSET Nat, 0 \in S, \A n \in S : n + 1 \in S
  PROVE  S = Nat
<1> SUFFICES ASSUME Nat \ S # {}
             PROVE  FALSE
  OBVIOUS
<1>1. PICK m \in Nat \ S : \A k \in Nat \ S : m <= k
  BY Least
<1>2. m # 0 /\ m - 1 \in Nat /\ ~(m <= m - 1)
  BY <1>1
<1>3. m - 1 \in S
  BY <1>1, <1>2
<1> QED
  BY <1>2, <1>3

\* A sequence is what comes before its last element, and that element.
LEMMA AppendedToFront ==
  ASSUME NEW E, NEW s \in Seq(E), NEW n \in Nat, Len(s) = n + 1,
         NEW f \in Seq(E), Len(f) = n, \A i \in 1 .. n : f[i] = s[i]
  PROVE  Append(f, s[n + 1]) = s
<1> DEFINE e == s[n + 1]
           a == Append(f, e)
<1>1. e \in E
  OBVIOUS
<1> HIDE DEF e
<1>2. /\ a \in Seq(E) /\ Len(a) = n + 1 /\ a[n + 1] = e
      /\ \A i \in 1 .. n : a[i] = f[i]
  BY <1>1
<1> HIDE DEF a
<1>3. \A i \in 1 .. n + 1 : i \in 1 .. n \/ i = n + 1
  OBVIOUS
<1>4. Len(a) = Len(s) /\ \A i \in 1 .. Len(a) : a[i] = s[i]
  BY <1>2, <1>3 DEF e
<1>5. a = s
  BY <1>2, <1>4
<1> QED
  BY <1>5 DEF a, e

\* What holds of the empty sequence, and with s of s and one more element, holds of
\* every sequence.
LEMMA Sequences ==
  ASSUME NEW E, NEW S \in SUBSET Seq(E), <<>> \in S,
         \A s \in S : \A e \in E : Append(s, e) \in S
  PROVE  S = Seq(E)
<1> DEFINE Shorter == {n \in Nat : \A s \in Seq(E) : Len(s) = n => s \in S}
<1>1. 0 \in Shorter
  OBVIOUS
<1>2. ASSUME NEW n \in Shorter
      PROVE  n + 1 \in Shorter
  <2> SUFFICES ASSUME NEW s \in Seq(E), Len(s) = n + 1
               PROVE  s \in S
    OBVIOUS
  <2> DEFINE front == [i \in 1 .. n |-> s[i]]
  <2>1. n \in Nat /\ s[n + 1] \in E
    OBVIOUS
  <2>2. front \in Seq(E) /\ Len(front) = n /\ \A i \in 1 .. n : front[i] = s[i]
    BY <2>1
  <2> HIDE DEF front
  <2>3. front \in S /\ Append(front, s[n + 1]) \in S
    BY <2>1, <2>2
  <2>4. Append(front, s[n + 1]) = s
    BY <2>1, <2>2, AppendedToFront
  <2> QED
    BY <2>3, <2>4
<1>3. Shorter = Nat
  <2> HIDE DEF Shorter
  <2>1. Shorter \subseteq Nat
    BY DEF Shorter
  <2> QED
    BY <1>1, <1>2, <2>1, Numbers
<1>4. ASSUME NEW s \in Seq(E)
      PROVE  s \in S
  <2>1. Len(s) \in Shorter
    BY <1>3
  <2> QED
    BY <2>1
<1> QED
  BY <1>4
-----------------------------------------------------------------------------
(* The function a fold is defined with exists.                             *)

\* What iterates over sets of positions of s, the greatest of them last.
Iterates(base, it, s) ==
  it = [P \in SUBSET (DOMAIN s) |->
          IF P = {} THEN base ELSE Step(it[P \ {GreatestOf(P)}], s[GreatestOf(P)])]

\* GreatestOf chooses the greatest number of a set.
LEMMA GreatestIs ==
  ASSUME NEW P \in SUBSET Nat, NEW m \in P, \A k \in P : k <= m
  PROVE  GreatestOf(P) = m
<1>1. \A k \in P : m >= k
  OBVIOUS
<1>2. GreatestOf(P) \in P /\ \A k \in P : GreatestOf(P) >= k
  BY <1>1 DEF GreatestOf
<1>3. m \in Nat /\ GreatestOf(P) \in Nat /\ m >= GreatestOf(P) /\ GreatestOf(P) >= m
  BY <1>1, <1>2
<1> QED
  BY <1>3

\* A set of positions has a greatest one.
LEMMA Greatest ==
  ASSUME NEW n \in Nat, NEW P \in SUBSET (1 .. n), P # {}
  PROVE  \E m \in P : \A k \in P : k <= m
<1> DEFINE Above == {d \in Nat : n - d \in P}
<1>1. \A k \in P : k \in 1 .. n /\ n - k \in Nat /\ n - (n - k) = k
  <2>1. \A k \in 1 .. n : n - k \in Nat /\ n - (n - k) = k
    OBVIOUS
  <2> QED
    BY <2>1
<1>2. \A k \in P : n - k \in Above
  BY <1>1
<1>3. Above \in SUBSET Nat /\ Above # {}
  BY <1>2
<1>4. PICK a \in Above : \A b \in Above : a <= b
  <2> HIDE DEF Above
  <2> QED
    BY <1>3, Least
<1>5. a \in Nat /\ n - a \in P
  BY <1>4
<1>6. ASSUME NEW k \in P
      PROVE  k <= n - a
  <2>1. a <= n - k /\ k \in 1 .. n
    BY <1>1, <1>2, <1>4
  <2> QED
    BY <1>5, <2>1
<1> QED
  BY <1>5, <1>6

\* There is such a function, whatever the sequence.
LEMMA SomeIterates ==
  ASSUME NEW base, NEW E, NEW s \in Seq(E)
  PROVE  \E it : Iterates(base, it, s)
<1> DEFINE Good == {r \in Seq(E) : \E it : Iterates(base, it, r)}
<1>1. <<>> \in Good
  <2>1. Iterates(base, [P \in {{}} |-> base], <<>>)
    BY DEF Iterates
  <2> QED
    BY <2>1
<1>2. ASSUME NEW r \in Good, NEW e \in E
      PROVE  Append(r, e) \in Good
  <2> DEFINE t == Append(r, e)
             n == Len(r) + 1
  <2>1. PICK it : Iterates(base, it, r)
    OBVIOUS
  <2>2. /\ r \in Seq(E) /\ t \in Seq(E) /\ n \in Nat /\ t[n] = e
        /\ DOMAIN r = 1 .. n - 1 /\ DOMAIN t = 1 .. n
        /\ \A i \in 1 .. n - 1 : t[i] = r[i]
    OBVIOUS
  <2> DEFINE more == [P \in SUBSET (1 .. n) |->
                        IF n \in P THEN Step(it[P \ {n}], e) ELSE it[P]]
  <2>3. ASSUME NEW P \in SUBSET (1 .. n)
        PROVE  more[P] = IF P = {} THEN base ELSE Step(more[P \ {GreatestOf(P)}], t[GreatestOf(P)])
    <3>1. CASE n \in P
      <4>1. GreatestOf(P) = n
        <5>1. P \in SUBSET Nat /\ \A k \in P : k <= n
          BY <2>2
        <5> QED
          BY <3>1, <5>1, GreatestIs
      <4>2. P \ {n} \in SUBSET (1 .. n) /\ n \notin P \ {n}
        OBVIOUS
      <4>3. more[P \ {n}] = it[P \ {n}] /\ more[P] = Step(it[P \ {n}], e)
        BY <3>1, <4>2
      <4> QED
        BY <2>2, <3>1, <4>1, <4>3
    <3>2. CASE n \notin P /\ P # {}
      <4>1. P \in SUBSET (1 .. n - 1) /\ P \in SUBSET (DOMAIN r)
        BY <2>2, <3>2
      <4>2. PICK m \in P : \A k \in P : k <= m
        BY <2>2, <3>2, Greatest
      <4>3. GreatestOf(P) = m
        <5>1. P \in SUBSET Nat
          BY <4>1
        <5> QED
          BY <4>2, <5>1, GreatestIs
      <4>4. m \in 1 .. n - 1 /\ t[m] = r[m]
        BY <2>2, <4>1
      <4>5. more[P] = it[P] /\ more[P \ {m}] = it[P \ {m}]
        BY <3>2
      <4>6. it[P] = Step(it[P \ {m}], r[m])
        BY <2>1, <3>2, <4>1, <4>3 DEF Iterates
      <4> QED
        BY <3>2, <4>3, <4>4, <4>5, <4>6
    <3>3. CASE P = {}
      <4>1. more[P] = it[P]
        BY <3>3
      <4>2. it[P] = base
        BY <2>1, <3>3 DEF Iterates
      <4> QED
        BY <3>3, <4>1, <4>2
    <3> QED
      BY <3>1, <3>2, <3>3
  <2>4. Iterates(base, more, t)
    <3>1. more = [P \in SUBSET (1 .. n) |-> more[P]]
      OBVIOUS
    <3> HIDE DEF more
    <3>2. more = [P \in SUBSET (1 .. n) |->
                    IF P = {} THEN base ELSE Step(more[P \ {GreatestOf(P)}], t[GreatestOf(P)])]
      BY <2>3, <3>1
    <3> QED
      BY <2>2, <3>2 DEF Iterates
  <2> QED
    BY <2>2, <2>4
<1>3. Good = Seq(E)
  <2>1. Good \subseteq Seq(E)
    OBVIOUS
  <2> HIDE DEF Good
  <2> QED
    BY <1>1, <1>2, <2>1, Sequences
<1> QED
  BY <1>3

\* A step takes in the last of the first k positions.
LEMMA Segments ==
  ASSUME NEW base, NEW E, NEW s \in Seq(E), NEW it, Iterates(base, it, s)
  PROVE  /\ it[{}] = base
         /\ \A k \in 1 .. Len(s) : it[1 .. k] = Step(it[1 .. k - 1], s[k])
<1>1. it[{}] = base
  BY DEF Iterates
<1>2. ASSUME NEW k \in 1 .. Len(s)
      PROVE  it[1 .. k] = Step(it[1 .. k - 1], s[k])
  <2>1. /\ 1 .. k \in SUBSET (DOMAIN s) /\ 1 .. k # {}
        /\ (1 .. k) \ {k} = 1 .. k - 1
    <3>1. Len(s) \in Nat /\ DOMAIN s = 1 .. Len(s)
      OBVIOUS
    <3>2. k \in Nat /\ 1 <= k /\ k <= Len(s)
      BY <3>1
    <3>3. \A i \in 1 .. k : i \in 1 .. Len(s)
      BY <3>1, <3>2
    <3>4. \A i \in Int : i \in (1 .. k) \ {k} <=> i \in 1 .. k - 1
      BY <3>2
    <3>5. k \in 1 .. k
      BY <3>2
    <3>6. (1 .. k) \ {k} = 1 .. k - 1
      BY <3>2, <3>4
    <3>7. 1 .. k \in SUBSET (DOMAIN s) /\ 1 .. k # {}
      BY <3>1, <3>3, <3>5
    <3> QED
      BY <3>6, <3>7
  <2>2. GreatestOf(1 .. k) = k
    <3>1. 1 .. k \in SUBSET Nat /\ k \in 1 .. k /\ \A j \in 1 .. k : j <= k
      OBVIOUS
    <3> QED
      BY <3>1, GreatestIs
  <2> QED
    BY <2>1, <2>2 DEF Iterates
<1> QED
  BY <1>1, <1>2

\* A fold is what it reaches with all positions.
LEMMA FoldIterates ==
  ASSUME NEW base, NEW E, NEW s \in Seq(E)
  PROVE  \E it : Iterates(base, it, s) /\ Fold(base, s) = it[1 .. Len(s)]
<1> DEFINE it == CHOOSE it : Iterates(base, it, s)
<1>1. Iterates(base, it, s)
  BY SomeIterates
<1>2. Fold(base, s) = it[DOMAIN s]
  BY DEF Fold, MapThenFoldSet, Iterates
<1>3. DOMAIN s = 1 .. Len(s)
  OBVIOUS
<1> HIDE DEF it
<1> QED
  BY <1>1, <1>2, <1>3

-----------------------------------------------------------------------------
(* The facts for an instance.                                              *)

\* The fold of no elements is the base.
THEOREM OfNothing ==
  ASSUME NEW base
  PROVE  Fold(base, <<>>) = base
<1>1. <<>> \in Seq({}) /\ Len(<<>>) = 0 /\ 1 .. 0 = {}
  OBVIOUS
<1>2. PICK it : Iterates(base, it, <<>>) /\ Fold(base, <<>>) = it[1 .. Len(<<>>)]
  BY <1>1, FoldIterates
<1> QED
  BY <1>1, <1>2, Segments

\* One element more is one step more.
THEOREM OfOneMore ==
  ASSUME NEW base, NEW E, NEW s \in Seq(E), NEW e \in E
  PROVE  Fold(base, Append(s, e)) = Step(Fold(base, s), e)
<1> DEFINE t == Append(s, e)
           n == Len(s)
<1>1. /\ t \in Seq(E) /\ n \in Nat /\ Len(t) = n + 1 /\ t[n + 1] = e
      /\ \A i \in 1 .. n : t[i] = s[i]
  OBVIOUS
<1>2. PICK it : Iterates(base, it, s) /\ Fold(base, s) = it[1 .. n]
  BY FoldIterates
<1> HIDE DEF t
<1>3. PICK more : Iterates(base, more, t) /\ Fold(base, t) = more[1 .. Len(t)]
  BY <1>1, FoldIterates
<1>4. /\ it[{}] = base
      /\ \A k \in 1 .. n : it[1 .. k] = Step(it[1 .. k - 1], s[k])
  BY <1>2, Segments
<1>5. /\ more[{}] = base
      /\ \A k \in 1 .. Len(t) : more[1 .. k] = Step(more[1 .. k - 1], t[k])
  BY <1>1, <1>3, Segments
<1> DEFINE Same == {k \in Nat : k <= n => more[1 .. k] = it[1 .. k]}
<1>6. 0 \in Same
  BY <1>4, <1>5
<1>7. ASSUME NEW k \in Same
      PROVE  k + 1 \in Same
  <2> SUFFICES ASSUME k + 1 <= n
               PROVE  more[1 .. k + 1] = it[1 .. k + 1]
    OBVIOUS
  <2>1. /\ k \in Nat /\ k <= n /\ k + 1 \in 1 .. n /\ k + 1 \in 1 .. Len(t)
        /\ (k + 1) - 1 = k
    BY <1>1
  <2>2. more[1 .. k] = it[1 .. k]
    BY <2>1
  <2> QED
    BY <1>1, <1>4, <1>5, <2>1, <2>2
<1>8. Same = Nat
  <2>1. Same \in SUBSET Nat
    OBVIOUS
  <2> HIDE DEF Same
  <2> QED
    BY <1>6, <1>7, <2>1, Numbers
<1>9. more[1 .. n] = it[1 .. n]
  BY <1>1, <1>8
<1>10. more[1 .. n + 1] = Step(more[1 .. n], e)
  <2>1. n + 1 \in 1 .. Len(t) /\ (n + 1) - 1 = n
    BY <1>1
  <2> QED
    BY <1>1, <1>5, <2>1
<1> QED
  BY <1>1, <1>2, <1>3, <1>9, <1>10 DEF t

\* A step that stays within a set keeps the fold there.
THEOREM OfType ==
  ASSUME NEW E, NEW A, NEW base \in A, \A a \in A, e \in E : Step(a, e) \in A,
         NEW s \in Seq(E)
  PROVE  Fold(base, s) \in A
<1> DEFINE Good == {r \in Seq(E) : Fold(base, r) \in A}
<1>1. <<>> \in Good
  BY OfNothing
<1>2. ASSUME NEW r \in Good, NEW e \in E
      PROVE  Append(r, e) \in Good
  BY OfOneMore
<1>3. Good = Seq(E)
  <2>1. Good \in SUBSET Seq(E)
    OBVIOUS
  <2> HIDE DEF Good
  <2> QED
    BY <1>1, <1>2, <2>1, Sequences
<1> QED
  BY <1>3

=============================================================================
