------------------------------ MODULE DataLemmas -------------------------------
(***************************************************************************)
(* Facts about data of any size: sums over finite sets, lists as sets,     *)
(* joined sequences and folds.  The proofs about counters, audiences, ids  *)
(* and the keyword index cite them.  They are proved from least elements:  *)
(* if one of them failed, it would fail for a least natural number, or for *)
(* a subset of a finite set with no smaller one.                           *)
(***************************************************************************)
EXTENDS Integers, Sequences, SequencesExt, FiniteSetTheorems, TLAPS

(***************************************************************************)
(* Least elements.                                                         *)
(***************************************************************************)
LEMMA LeastSubset ==
  ASSUME NEW S, IsFiniteSet(S), NEW T, T \subseteq SUBSET S, T # {}
  PROVE  \E x \in T : \A y \in T : y \subseteq x => y = x
  <1>1. IsWellFoundedOn(StrictSubsetOrdering(S), FiniteSubsetsOf(S))
    BY FS_StrictSubsetOrderingWellFounded
  <1>2. T \subseteq FiniteSubsetsOf(S)
    BY FS_FiniteSubsetsOfFinite
  <1>3. PICK x \in T : \A y \in T : ~ (<<y, x>> \in StrictSubsetOrdering(S))
    BY <1>1, <1>2, WFMin
  <1> QED
    BY <1>3 DEF StrictSubsetOrdering

LEMMA LeastNatural ==
  ASSUME NEW T, T \subseteq Nat, T # {}
  PROVE  \E n \in T : \A m \in T : n <= m
  <1>1. PICK t \in T : TRUE
    OBVIOUS
  <1> DEFINE F == {0..m : m \in {x \in T : x <= t}}
             I == 0..t
  <1>2. IsFiniteSet(I)
    BY FS_Interval
  <1>3. F \subseteq SUBSET I /\ F # {}
    OBVIOUS
  <1>4. \E x \in F : \A y \in F : y \subseteq x => y = x
    <2> HIDE DEF F, I
    <2> QED
      BY <1>2, <1>3, LeastSubset
  <1>5. PICK n \in T : n <= t /\ \A y \in F : y \subseteq 0..n => y = 0..n
    BY <1>4
  <1>6. ASSUME NEW m \in T, m < n PROVE FALSE
    <2>1. 0..m \in F /\ 0..m \subseteq 0..n
      BY <1>5, <1>6
    <2>2. 0..m = 0..n
      BY <2>1, <1>5
    <2>3. n \in 0..n /\ n \notin 0..m
      BY <1>6
    <2> QED
      BY <2>2, <2>3
  <1> QED
    BY <1>6, <1>5

(* Induction for a property given by the set of numbers that have it.      *)
LEMMA SetInduction ==
  ASSUME NEW T, 0 \in T, \A n \in Nat : n \in T => n + 1 \in T
  PROVE  Nat \subseteq T
  <1> SUFFICES ASSUME Nat \ T # {} PROVE FALSE
    OBVIOUS
  <1>1. PICK n \in Nat \ T : \A m \in Nat \ T : n <= m
    BY LeastNatural
  <1>2. n - 1 \in Nat /\ n - 1 \in T
    BY <1>1
  <1> QED
    BY <1>1, <1>2

LEMMA SubsetInduction ==
  ASSUME NEW S, IsFiniteSet(S), NEW T, {} \in T,
         \A s \in SUBSET S : \A x \in s : s \ {x} \in T => s \in T
  PROVE  SUBSET S \subseteq T
  <1> DEFINE bad == (SUBSET S) \ T
  <1> SUFFICES ASSUME bad # {} PROVE FALSE
    OBVIOUS
  <1>1. bad \subseteq SUBSET S
    OBVIOUS
  <1> HIDE DEF bad
  <1>2. PICK s \in bad : \A y \in bad : y \subseteq s => y = s
    BY <1>1, LeastSubset
  <1> USE DEF bad
  <1>3. s # {}
    BY <1>2
  <1>4. PICK x \in s : TRUE
    BY <1>3
  <1>5. s \ {x} \in T
    BY <1>2, <1>4
  <1> QED
    BY <1>2, <1>4, <1>5

(***************************************************************************)
(* Sums.  The sum of a function counts units: fun[x] of them for each x.   *)
(***************************************************************************)
Units(fun, S) == {u \in S \X Nat : u[2] \in 1..fun[u[1]]}

LEMMA UnitsOfOne ==
  ASSUME NEW fun, NEW s, NEW x \in s, fun[x] \in Nat, IsFiniteSet(Units(fun, s \ {x}))
  PROVE  /\ IsFiniteSet(Units(fun, s))
         /\ Cardinality(Units(fun, s)) = fun[x] + Cardinality(Units(fun, s \ {x}))
  <1> DEFINE A == Units(fun, s \ {x})
             B == {x} \X (1..fun[x])
  <1>1. Units(fun, s) = A \cup B /\ A \cap B = {}
    BY DEF Units
  <1>2. IsFiniteSet({x}) /\ Cardinality({x}) = 1
    BY FS_Singleton
  <1>3. IsFiniteSet(1..fun[x]) /\ Cardinality(1..fun[x]) = fun[x]
    <2>1. \A m \in Nat : IsFiniteSet(1..m) /\ Cardinality(1..m) = m
      BY FS_Interval, SMTT(30)
    <2> QED
      BY <2>1
  <1>4. IsFiniteSet(B) /\ Cardinality(B) = 1 * fun[x]
    <2> DEFINE one == {x}
               I == 1..fun[x]
    <2>1. IsFiniteSet(one) /\ Cardinality(one) = 1 /\ IsFiniteSet(I) /\ Cardinality(I) = fun[x]
      BY <1>2, <1>3
    <2> HIDE DEF one, I
    <2>2. IsFiniteSet(one \X I) /\ Cardinality(one \X I) = 1 * fun[x]
      BY <2>1, FS_Product
    <2> QED
      BY <2>2 DEF one, I
  <1>5. IsFiniteSet(A) /\ Cardinality(A) \in Nat
    BY FS_CardinalityType
  <1> HIDE DEF A, B
  <1>6. /\ IsFiniteSet(A \cup B)
        /\ Cardinality(A \cup B) = Cardinality(A) + Cardinality(B) - Cardinality(A \cap B)
    BY <1>4, <1>5, FS_Union
  <1>7. Cardinality(A \cap B) = 0
    BY <1>1, FS_EmptySet
  <1> QED
    BY <1>1, <1>4, <1>5, <1>6, <1>7 DEF A

LEMMA UnitsAreFinite ==
  ASSUME NEW fun, NEW S, IsFiniteSet(S), \A x \in S : fun[x] \in Nat
  PROVE  \A s \in SUBSET S : IsFiniteSet(Units(fun, s))
  <1> DEFINE T == {s \in SUBSET S : IsFiniteSet(Units(fun, s))}
  <1>1. {} \in T
    BY FS_EmptySet DEF Units
  <1>2. ASSUME NEW s \in SUBSET S, NEW x \in s, s \ {x} \in T PROVE s \in T
    BY <1>2, UnitsOfOne
  <1>3. SUBSET S \subseteq T
    <2> HIDE DEF T
    <2> QED
      BY <1>1, <1>2, SubsetInduction
  <1> QED
    BY <1>3

LEMMA SumIsCount ==
  ASSUME NEW fun, NEW S, IsFiniteSet(S), \A x \in S : fun[x] \in Nat
  PROVE  SumFunctionOnSet(fun, S) = Cardinality(Units(fun, S))
  <1> DEFINE Step(g, s) == IF s = {} THEN 0
                           ELSE LET x == CHOOSE y \in s : TRUE IN fun[x] + g[s \ {x}]
             count == [s \in SUBSET S |-> Cardinality(Units(fun, s))]
             iter == CHOOSE g : g = [s \in SUBSET S |-> Step(g, s)]
  <1>1. SumFunctionOnSet(fun, S) = iter[S]
    BY DEF SumFunctionOnSet, FoldFunctionOnSet, MapThenFoldSet
  <1>2. ASSUME NEW s \in SUBSET S PROVE count[s] = Step(count, s)
    <2>1. CASE s = {}
      BY <2>1, FS_EmptySet DEF Units
    <2>2. CASE s # {}
      <3> DEFINE x == CHOOSE y \in s : TRUE
      <3>1. x \in s /\ fun[x] \in Nat /\ s \ {x} \in SUBSET S
        BY <2>2
      <3>2. IsFiniteSet(Units(fun, s \ {x}))
        BY <3>1, UnitsAreFinite
      <3> HIDE DEF x
      <3>3. Cardinality(Units(fun, s)) = fun[x] + Cardinality(Units(fun, s \ {x}))
        BY <3>1, <3>2, UnitsOfOne
      <3>4. count[s] = fun[x] + count[s \ {x}]
        BY <3>1, <3>3
      <3> QED
        BY <2>2, <3>4 DEF x
    <2> QED
      BY <2>1, <2>2
  <1>3. count = [s \in SUBSET S |-> Step(count, s)]
    BY <1>2
  <1>4. iter = [s \in SUBSET S |-> Step(iter, s)]
    BY <1>3
  <1> HIDE DEF iter
  <1> DEFINE T == {s \in SUBSET S : iter[s] = count[s]}
  <1>5. SUBSET S \subseteq T
    <2> DEFINE bad == (SUBSET S) \ T
    <2> SUFFICES ASSUME bad # {} PROVE FALSE
      OBVIOUS
    <2>1. PICK s \in bad : \A y \in bad : y \subseteq s => y = s
      <3>1. bad \subseteq SUBSET S
        OBVIOUS
      <3> HIDE DEF bad
      <3> QED
        BY <3>1, LeastSubset
    <2> DEFINE x == CHOOSE y \in s : TRUE
    <2>2. s # {} => x \in s
      OBVIOUS
    <2> HIDE DEF x
    <2>3. s # {} => iter[s \ {x}] = count[s \ {x}]
      <3> SUFFICES ASSUME s # {} PROVE iter[s \ {x}] = count[s \ {x}]
        OBVIOUS
      <3>1. s \ {x} \in SUBSET S /\ s \ {x} \subseteq s /\ s \ {x} # s
        BY <2>2
      <3> QED
        BY <2>1, <3>1
    <2>4. iter[s] = (IF s = {} THEN 0 ELSE fun[x] + iter[s \ {x}])
      BY <1>4 DEF x
    <2>5. count[s] = (IF s = {} THEN 0 ELSE fun[x] + count[s \ {x}])
      BY <1>3 DEF x
    <2> QED
      BY <2>1, <2>3, <2>4, <2>5
  <1> QED
    BY <1>1, <1>5

(* The equations of a sum.                                                 *)
LEMMA SumFacts ==
  ASSUME NEW fun, NEW S, IsFiniteSet(S), \A x \in S : fun[x] \in Nat
  PROVE  /\ SumFunctionOnSet(fun, S) \in Nat
         /\ S = {} => SumFunctionOnSet(fun, S) = 0
         /\ \A x \in S : SumFunctionOnSet(fun, S) = fun[x] + SumFunctionOnSet(fun, S \ {x})
  <1>1. IsFiniteSet(Units(fun, S)) /\ SumFunctionOnSet(fun, S) = Cardinality(Units(fun, S))
    BY UnitsAreFinite, SumIsCount
  <1>2. SumFunctionOnSet(fun, S) \in Nat
    BY <1>1, FS_CardinalityType
  <1>3. S = {} => SumFunctionOnSet(fun, S) = 0
    BY <1>1, FS_EmptySet DEF Units
  <1>4. ASSUME NEW x \in S
        PROVE  SumFunctionOnSet(fun, S) = fun[x] + SumFunctionOnSet(fun, S \ {x})
    <2>1. IsFiniteSet(S \ {x}) /\ IsFiniteSet(Units(fun, S \ {x}))
      BY UnitsAreFinite, FS_RemoveElement
    <2>2. SumFunctionOnSet(fun, S \ {x}) = Cardinality(Units(fun, S \ {x}))
      BY <2>1, SumIsCount
    <2>3. Cardinality(Units(fun, S)) = fun[x] + Cardinality(Units(fun, S \ {x}))
      BY <2>1, UnitsOfOne
    <2> QED
      BY <1>1, <2>2, <2>3
  <1> QED
    BY <1>2, <1>3, <1>4

(* Only the values on the set matter.                                      *)
LEMMA SumsAgree ==
  ASSUME NEW fun, NEW gun, NEW S, IsFiniteSet(S),
         \A x \in S : fun[x] \in Nat /\ gun[x] = fun[x]
  PROVE  SumFunctionOnSet(gun, S) = SumFunctionOnSet(fun, S)
  <1>1. Units(gun, S) = Units(fun, S)
    BY DEF Units
  <1> QED
    BY <1>1, SumIsCount

(* A sum of numbers of at most n each.                                     *)
LEMMA SumBound ==
  ASSUME NEW fun, NEW S, IsFiniteSet(S), NEW n \in Nat, \A x \in S : fun[x] \in Nat /\ fun[x] <= n
  PROVE  SumFunctionOnSet(fun, S) <= Cardinality(S) * n
  <1>1. SumFunctionOnSet(fun, S) = Cardinality(Units(fun, S))
    BY SumIsCount
  <1>2. IsFiniteSet(1..n) /\ Cardinality(1..n) = n
    BY FS_Interval
  <1>3. IsFiniteSet(S \X (1..n)) /\ Cardinality(S \X (1..n)) = Cardinality(S) * n
    BY <1>2, FS_Product
  <1>4. Units(fun, S) \subseteq S \X (1..n)
    BY DEF Units
  <1>5. Cardinality(Units(fun, S)) <= Cardinality(S \X (1..n))
    BY <1>3, <1>4, FS_Subset
  <1> QED
    BY <1>1, <1>3, <1>5

(***************************************************************************)
(* Lists and sets.                                                         *)
(***************************************************************************)
LEMMA ListIsFinite ==
  ASSUME NEW X, NEW s \in Seq(X)
  PROVE  /\ IsFiniteSet(ToSet(s)) /\ ToSet(s) \subseteq X
         /\ ToSet(s) = {s[i] : i \in 1..Len(s)}
  <1>1. ToSet(s) = {s[i] : i \in 1..Len(s)} /\ Len(s) \in Nat /\ ToSet(s) \subseteq X
    BY DEF ToSet
  <1>2. IsFiniteSet(1..Len(s))
    BY <1>1, FS_Interval
  <1> DEFINE at == [i \in 1..Len(s) |-> s[i]]
             I == 1..Len(s)
  <1>3. at \in Surjection(I, ToSet(s))
    BY <1>1 DEF Surjection
  <1> HIDE DEF I, at
  <1>4. IsFiniteSet(ToSet(s))
    BY <1>2, <1>3, FS_Surjection DEF I
  <1> QED
    BY <1>1, <1>4

LEMMA AppendedSet ==
  ASSUME NEW X, NEW s \in Seq(X), NEW x \in X
  PROVE  Append(s, x) \in Seq(X) /\ ToSet(Append(s, x)) = ToSet(s) \cup {x}
  <1>1. /\ Append(s, x) \in Seq(X) /\ Len(Append(s, x)) = Len(s) + 1 /\ Len(s) \in Nat
        /\ \A i \in 1..Len(s) : Append(s, x)[i] = s[i]
        /\ Append(s, x)[Len(s) + 1] = x
    OBVIOUS
  <1> DEFINE t == Append(s, x)
             n == Len(s)
  <1> HIDE DEF t, n
  <1>2. DOMAIN t = 1..n + 1 /\ DOMAIN s = 1..n /\ n \in Nat
    BY <1>1 DEF t, n
  <1>3. (\A i \in 1..n : t[i] = s[i]) /\ t[n + 1] = x
    BY <1>1 DEF t, n
  <1>4. ToSet(t) = ToSet(s) \cup {x}
    BY <1>2, <1>3 DEF ToSet
  <1> QED
    BY <1>1, <1>4 DEF t

LEMMA SequenceOfSet ==
  ASSUME NEW S, IsFiniteSet(S)
  PROVE  /\ SetToSeq(S) \in Seq(S) /\ ToSet(SetToSeq(S)) = S
         /\ \A i, j \in 1..Len(SetToSeq(S)) : SetToSeq(S)[i] = SetToSeq(S)[j] => i = j
  <1> DEFINE n == Cardinality(S)
             I == 1..n
             list == SetToSeq(S)
  <1>1. n \in Nat
    BY FS_CardinalityType
  <1>2. IsFiniteSet(I) /\ Cardinality(I) = n
    BY <1>1, FS_Interval
  <1> HIDE DEF n
  <1>3. PICK f : f \in Bijection(I, S)
    BY FS_CardinalityType DEF ExistsBijection, n
  <1>4. f \in [I -> S] /\ IsInjective(f)
    BY <1>3 DEF Bijection, Injection, IsInjective
  <1>5. list \in [I -> S] /\ IsInjective(list)
    BY <1>4 DEF SetToSeq, n
  <1> HIDE DEF list
  <1>6. list \in Injection(I, S)
    BY <1>5 DEF Injection, IsInjective
  <1>7. list \in Surjection(I, S)
    BY <1>2, <1>6, FS_Injection DEF n
  <1>8. \A x \in S : \E i \in I : list[i] = x
    BY <1>7 DEF Surjection
  <1>9. list \in Seq(S)
    BY <1>1, <1>5
  <1>10. ToSet(list) = S
    BY <1>5, <1>8 DEF ToSet
  <1>11. \A i, j \in 1..Len(list) : list[i] = list[j] => i = j
    BY <1>1, <1>5 DEF IsInjective
  <1> QED
    BY <1>9, <1>10, <1>11 DEF list

LEMMA PrefixFacts ==
  ASSUME NEW X, NEW s \in Seq(X), NEW m \in 0..Len(s)
  PROVE  /\ SubSeq(s, 1, m) \in Seq(X) /\ Len(SubSeq(s, 1, m)) = m
         /\ \A i \in 1..m : SubSeq(s, 1, m)[i] = s[i]
  <1>1. Len(s) \in Nat /\ m \in Nat /\ m <= Len(s)
    OBVIOUS
  <1>2. \A i \in 1..m : s[i] \in X
    BY <1>1
  <1>3. SubSeq(s, 1, m) = [i \in 1..m |-> s[i]]
    BY <1>1
  <1> QED
    BY <1>1, <1>2, <1>3

(***************************************************************************)
(* Joined sequences: the parts come one after the other.                   *)
(***************************************************************************)
Joined(a, b) == a \o b
Joins(g, seqs, n) == g[0] = <<>> /\ \A i \in Nat : i < n => g[i + 1] = Joined(g[i], seqs[i + 1])

Follows(a, b, whole) ==
  /\ Len(whole) = Len(a) + Len(b)
  /\ \A i \in 1..Len(a) : whole[i] = a[i]
  /\ \A i \in 1..Len(b) : whole[Len(a) + i] = b[i]

LEMMA JoinedFacts ==
  ASSUME NEW X, NEW a \in Seq(X), NEW b \in Seq(X)
  PROVE  /\ Joined(a, b) \in Seq(X)
         /\ Joined(<<>>, b) = b
         /\ Follows(a, b, Joined(a, b))
  BY DEF Joined, Follows

LEMMA JoinedPlaces ==
  ASSUME NEW X, NEW a \in Seq(X), NEW b \in Seq(X)
  PROVE  /\ a \o b \in Seq(X) /\ Len(a \o b) = Len(a) + Len(b)
         /\ \A i \in 1..Len(a) : (a \o b)[i] = a[i] /\ i \in 1..Len(a \o b)
         /\ \A j \in 1..Len(b) : (a \o b)[Len(a) + j] = b[j] /\ Len(a) + j \in 1..Len(a \o b)
         /\ \A i \in 1..Len(a \o b) : i \in 1..Len(a) \/ \E j \in 1..Len(b) : i = Len(a) + j
  <1> DEFINE m == Len(a)
             l == Len(b)
             both == a \o b
  <1>1. m \in Nat /\ l \in Nat
    OBVIOUS
  <1>2. both \in Seq(X) /\ Follows(a, b, both)
    BY JoinedFacts DEF Joined
  <1> HIDE DEF both
  <1>3. /\ Len(both) = m + l
        /\ \A i \in 1..m : both[i] = a[i]
        /\ \A j \in 1..l : both[m + j] = b[j]
    BY <1>2 DEF Follows
  <1> HIDE DEF m, l
  <1>4. ASSUME NEW i \in 1..m + l PROVE i \in 1..m \/ \E j \in 1..l : i = m + j
    <2>1. i \in 1..m \/ (i - m \in 1..l /\ i = m + (i - m))
      BY <1>1
    <2> QED
      BY <2>1
  <1>5. /\ \A i \in 1..m : i \in 1..m + l
        /\ \A j \in 1..l : m + j \in 1..m + l
    BY <1>1
  <1> QED
    BY <1>2, <1>3, <1>4, <1>5 DEF both, m, l

LEMMA JoinStep ==
  ASSUME NEW X, NEW seqs, NEW n \in Nat, seqs[n + 1] \in Seq(X),
         NEW g \in [0..n -> Seq(X)], Joins(g, seqs, n)
  PROVE  \E h \in [0..n + 1 -> Seq(X)] : Joins(h, seqs, n + 1)
  <1> DEFINE next == Joined(g[n], seqs[n + 1])
             h == [i \in 0..n + 1 |-> IF i = n + 1 THEN next ELSE g[i]]
  <1>1. g[n] \in Seq(X)
    OBVIOUS
  <1>2. next \in Seq(X)
    BY <1>1, JoinedFacts
  <1>3. h[n + 1] = next /\ \A i \in 0..n : h[i] = g[i]
    OBVIOUS
  <1>4. h \in [0..n + 1 -> Seq(X)]
    <2> HIDE DEF next
    <2>1. \A i \in 0..n + 1 : h[i] \in Seq(X)
      BY <1>2
    <2> QED
      BY <2>1
  <1> HIDE DEF h
  <1>5. ASSUME NEW i \in Nat, i < n + 1 PROVE h[i + 1] = Joined(h[i], seqs[i + 1])
    <2>1. CASE i = n
      BY <1>3, <2>1
    <2>2. CASE i # n
      <3>1. i < n /\ i \in 0..n /\ i + 1 \in 0..n
        BY <1>5, <2>2
      <3> QED
        BY <1>3, <3>1 DEF Joins
    <2> QED
      BY <2>1, <2>2
  <1>6. h[0] = <<>>
    BY <1>3 DEF Joins
  <1> QED
    BY <1>4, <1>5, <1>6 DEF Joins

LEMMA JoinsExist ==
  ASSUME NEW X, NEW seqs, NEW L \in Nat, \A i \in 1..L : seqs[i] \in Seq(X)
  PROVE  \E g \in [0..L -> Seq(X)] : Joins(g, seqs, L)
  <1> DEFINE T == {n \in Nat : n <= L => \E g \in [0..n -> Seq(X)] : Joins(g, seqs, n)}
  <1>1. 0 \in T
    <2> DEFINE g == [i \in 0..0 |-> <<>>]
    <2>1. g \in [0..0 -> Seq(X)] /\ Joins(g, seqs, 0)
      BY DEF Joins
    <2> QED
      BY <2>1
  <1>2. ASSUME NEW n \in Nat, n \in T PROVE n + 1 \in T
    <2> SUFFICES ASSUME n + 1 <= L PROVE \E h \in [0..n + 1 -> Seq(X)] : Joins(h, seqs, n + 1)
      OBVIOUS
    <2>1. PICK g \in [0..n -> Seq(X)] : Joins(g, seqs, n)
      BY <1>2
    <2>2. seqs[n + 1] \in Seq(X)
      OBVIOUS
    <2> HIDE DEF T
    <2> QED
      BY <2>1, <2>2, JoinStep
  <1>3. Nat \subseteq T
    <2> HIDE DEF T
    <2> QED
      BY <1>1, <1>2, SetInduction
  <1> QED
    BY <1>3

LEMMA JoinsAreUnique ==
  ASSUME NEW seqs, NEW g, NEW h, NEW L \in Nat, Joins(g, seqs, L), Joins(h, seqs, L)
  PROVE  \A n \in 0..L : g[n] = h[n]
  <1> DEFINE T == {n \in Nat : n <= L => g[n] = h[n]}
  <1>1. 0 \in T
    BY DEF Joins
  <1>2. ASSUME NEW n \in Nat, n \in T PROVE n + 1 \in T
    <2> SUFFICES ASSUME n + 1 <= L PROVE g[n + 1] = h[n + 1]
      OBVIOUS
    <2>1. n < L /\ g[n] = h[n]
      BY <1>2
    <2>2. g[n + 1] = Joined(g[n], seqs[n + 1])
      BY <2>1 DEF Joins
    <2>3. h[n + 1] = Joined(h[n], seqs[n + 1])
      BY <2>1 DEF Joins
    <2> QED
      BY <2>1, <2>2, <2>3
  <1>3. Nat \subseteq T
    <2> HIDE DEF T
    <2> QED
      BY <1>1, <1>2, SetInduction
  <1> QED
    BY <1>3

(* What the recursive function of FlattenSeq computes.                     *)
Flat(seqs) ==
  CHOOSE h : h = [i \in 1..Len(seqs) |-> IF i = 1 THEN seqs[i] ELSE Joined(h[i - 1], seqs[i])]

LEMMA FlattenRecursion ==
  ASSUME NEW seqs, Len(seqs) # 0
  PROVE  FlattenSeq(seqs) = Flat(seqs)[Len(seqs)]
  BY DEF FlattenSeq, Flat, Joined

LEMMA FlatJoins ==
  ASSUME NEW X, NEW seqs, Len(seqs) \in Nat \ {0}, \A i \in 1..Len(seqs) : seqs[i] \in Seq(X),
         NEW g, Joins(g, seqs, Len(seqs))
  PROVE  Flat(seqs)[Len(seqs)] = g[Len(seqs)]
  <1> DEFINE L == Len(seqs)
             Step(f, i) == IF i = 1 THEN seqs[i] ELSE Joined(f[i - 1], seqs[i])
             flat == Flat(seqs)
             h == [i \in 1..L |-> g[i]]
  <1>1. seqs[1] \in Seq(X) /\ Joined(<<>>, seqs[1]) = seqs[1]
    <2>1. seqs[1] \in Seq(X)
      OBVIOUS
    <2> QED
      BY <2>1, JoinedFacts
  <1> HIDE DEF L
  <1>2. L \in Nat \ {0} /\ g[0] = <<>> /\ \A i \in Nat : i < L => g[i + 1] = Joined(g[i], seqs[i + 1])
    BY DEF Joins, L
  <1>3. \A i \in 1..L : i - 1 \in Nat /\ i - 1 < L /\ i - 1 + 1 = i
    BY <1>2
  <1>4. \A i \in 1..L : g[i] = Joined(g[i - 1], seqs[i])
    BY <1>2, <1>3
  <1>5. ASSUME NEW i \in 1..L PROVE h[i] = Step(h, i)
    <2>1. CASE i = 1
      <3>1. g[1] = Joined(g[0], seqs[1])
        BY <1>4, <2>1
      <3> QED
        BY <1>1, <1>2, <2>1, <3>1
    <2>2. CASE i # 1
      <3>1. i - 1 \in 1..L
        BY <1>2, <2>2
      <3> QED
        BY <1>4, <2>2, <3>1
    <2> QED
      BY <2>1, <2>2
  <1>6. h = [i \in 1..L |-> Step(h, i)]
    BY <1>5
  <1>7. flat = [i \in 1..L |-> Step(flat, i)]
    <2> HIDE DEF h
    <2> QED
      BY <1>6 DEF Flat, L
  <1> HIDE DEF flat, h
  <1> DEFINE e == [i \in 0..L |-> IF i = 0 THEN <<>> ELSE flat[i]]
  <1>8. e[0] = <<>> /\ \A i \in 1..L : e[i] = flat[i]
    BY <1>2
  <1> HIDE DEF e
  <1>9. ASSUME NEW i \in Nat, i < L PROVE e[i + 1] = Joined(e[i], seqs[i + 1])
    <2>1. i + 1 \in 1..L /\ e[i + 1] = Step(flat, i + 1)
      BY <1>2, <1>7, <1>8, <1>9
    <2>2. CASE i = 0
      <3>1. e[i + 1] = seqs[1] /\ e[i] = <<>> /\ i + 1 = 1
        BY <1>8, <2>1, <2>2
      <3> QED
        BY <1>1, <3>1
    <2>3. CASE i # 0
      <3>1. i \in 1..L /\ i + 1 # 1 /\ i + 1 - 1 = i
        BY <1>2, <1>9, <2>3
      <3>2. e[i + 1] = Joined(flat[i], seqs[i + 1])
        BY <2>1, <3>1
      <3> QED
        BY <1>8, <3>1, <3>2
    <2> QED
      BY <2>2, <2>3
  <1>10. Joins(e, seqs, L)
    BY <1>8, <1>9 DEF Joins
  <1>11. \A n \in 0..L : e[n] = g[n]
    BY <1>2, <1>10, JoinsAreUnique DEF L
  <1>12. e[L] = g[L] /\ e[L] = flat[L]
    BY <1>2, <1>8, <1>11
  <1> QED
    BY <1>12 DEF flat, L

LEMMA FlattenJoins ==
  ASSUME NEW X, NEW seqs \in Seq(Seq(X)), NEW g, Joins(g, seqs, Len(seqs))
  PROVE  FlattenSeq(seqs) = g[Len(seqs)]
  <1>1. Len(seqs) \in Nat /\ \A i \in 1..Len(seqs) : seqs[i] \in Seq(X)
    OBVIOUS
  <1>2. CASE Len(seqs) = 0
    <2>1. FlattenSeq(seqs) = <<>>
      BY <1>2 DEF FlattenSeq
    <2> QED
      BY <1>2, <2>1 DEF Joins
  <1>3. CASE Len(seqs) # 0
    <2>1. Len(seqs) \in Nat \ {0}
      BY <1>1, <1>3
    <2> QED
      BY <1>1, <1>3, <2>1, FlattenRecursion, FlatJoins
  <1> QED
    BY <1>2, <1>3

(* Another part goes to the end.                                           *)
LEMMA FlattenAppend ==
  ASSUME NEW X, NEW seqs \in Seq(Seq(X)), NEW part \in Seq(X)
  PROVE  /\ FlattenSeq(seqs) \in Seq(X)
         /\ FlattenSeq(Append(seqs, part)) = FlattenSeq(seqs) \o part
  <1> DEFINE all == Append(seqs, part)
             L == Len(seqs)
  <1>1. /\ all \in Seq(Seq(X)) /\ Len(all) = L + 1 /\ L \in Nat
        /\ all[L + 1] = part /\ \A i \in 1..L : all[i] = seqs[i]
    <2> DEFINE Y == Seq(X)
    <2> HIDE DEF Y
    <2>1. seqs \in Seq(Y) /\ part \in Y
      BY DEF Y
    <2>2. /\ all \in Seq(Y) /\ Len(all) = L + 1 /\ L \in Nat
          /\ all[L + 1] = part /\ \A i \in 1..L : all[i] = seqs[i]
      BY <2>1
    <2> QED
      BY <2>2 DEF Y
  <1> HIDE DEF all, L
  <1>2. \A i \in 1..L + 1 : all[i] \in Seq(X)
    <2> DEFINE Y == Seq(X)
    <2> HIDE DEF Y
    <2>1. all \in Seq(Y)
      BY <1>1 DEF Y
    <2>2. \A i \in 1..L + 1 : all[i] \in Y
      BY <1>1, <2>1
    <2> QED
      BY <2>2 DEF Y
  <1>3. PICK g \in [0..L + 1 -> Seq(X)] : Joins(g, all, L + 1)
    <2>1. L + 1 \in Nat
      BY <1>1
    <2> QED
      BY <1>2, <2>1, JoinsExist
  <1>4. g[0] = <<>> /\ \A i \in Nat : i < L + 1 => g[i + 1] = Joined(g[i], all[i + 1])
    BY <1>3 DEF Joins
  <1>5. Joins(g, seqs, L)
    <2>1. \A i \in Nat : i < L => i < L + 1 /\ i + 1 \in 1..L
      BY <1>1
    <2> QED
      BY <1>1, <1>4, <2>1 DEF Joins
  <1>6. FlattenSeq(seqs) = g[L]
    BY <1>5, FlattenJoins DEF L
  <1>7. FlattenSeq(all) = g[L + 1]
    BY <1>1, <1>3, FlattenJoins
  <1>8. g[L + 1] = Joined(g[L], part)
    <2>1. L \in Nat /\ L < L + 1
      BY <1>1
    <2> QED
      BY <1>1, <1>4, <2>1
  <1>9. g[L] \in Seq(X)
    <2>1. L \in 0..L + 1
      BY <1>1
    <2> QED
      BY <2>1
  <1> QED
    BY <1>6, <1>7, <1>8, <1>9 DEF all, Joined

(***************************************************************************)
(* Where the elements of the parts are in the joined sequence.             *)
(***************************************************************************)
Placed(start, g, seqs, n) ==
  /\ \A c \in 1..n : start[c] + Len(seqs[c]) <= Len(g[n])
  /\ \A c \in 1..n : \A i \in 1..Len(seqs[c]) : g[n][start[c] + i] = seqs[c][i]
  /\ \A p \in 1..Len(g[n]) : \E c \in 1..n : \E i \in 1..Len(seqs[c]) : p = start[c] + i

LEMMA PlacedStep ==
  ASSUME NEW seqs, NEW n \in Nat, NEW g, NEW start,
         \A c \in 1..n + 1 : start[c] \in Nat /\ Len(seqs[c]) \in Nat,
         Len(g[n]) \in Nat, start[n + 1] = Len(g[n]),
         Len(g[n + 1]) = Len(g[n]) + Len(seqs[n + 1]),
         \A i \in 1..Len(g[n]) : g[n + 1][i] = g[n][i],
         \A i \in 1..Len(seqs[n + 1]) : g[n + 1][Len(g[n]) + i] = seqs[n + 1][i],
         Placed(start, g, seqs, n)
  PROVE  Placed(start, g, seqs, n + 1)
  <1> DEFINE a == Len(g[n])
             b == Len(g[n + 1])
             l == [c \in 1..n + 1 |-> Len(seqs[c])]
             old == g[n]
             new == g[n + 1]
  <1>1. /\ \A c \in 1..n + 1 : l[c] = Len(seqs[c]) /\ l[c] \in Nat /\ start[c] \in Nat
        /\ a \in Nat /\ n + 1 \in 1..n + 1 /\ start[n + 1] = a /\ b = a + l[n + 1]
        /\ \A i \in 1..a : new[i] = old[i]
        /\ \A i \in 1..l[n + 1] : new[a + i] = seqs[n + 1][i]
        /\ \A c \in 1..n + 1 : c \in 1..n \/ c = n + 1
        /\ \A c \in 1..n : c \in 1..n + 1
    <2>1. \A c \in 1..n + 1 : l[c] = Len(seqs[c]) /\ l[c] \in Nat /\ start[c] \in Nat
      OBVIOUS
    <2>2. n + 1 \in 1..n + 1 /\ l[n + 1] = Len(seqs[n + 1])
      BY <2>1
    <2>3. a \in Nat /\ start[n + 1] = a /\ b = a + l[n + 1]
      BY <2>2
    <2>4. /\ \A i \in 1..a : new[i] = old[i]
          /\ \A i \in 1..l[n + 1] : new[a + i] = seqs[n + 1][i]
      BY <2>2
    <2>5. /\ \A c \in 1..n + 1 : c \in 1..n \/ c = n + 1
          /\ \A c \in 1..n : c \in 1..n + 1
      OBVIOUS
    <2> HIDE DEF l, a, b, new, old
    <2> QED
      BY <2>1, <2>2, <2>3, <2>4, <2>5
  <1>2. /\ \A c \in 1..n : start[c] + l[c] <= a
        /\ \A c \in 1..n : \A i \in 1..l[c] : old[start[c] + i] = seqs[c][i]
        /\ \A p \in 1..a : \E c \in 1..n : \E i \in 1..l[c] : p = start[c] + i
    BY <1>1 DEF Placed
  <1> HIDE DEF a, b, l, old, new
  <1>3. ASSUME NEW c \in 1..n + 1 PROVE start[c] + l[c] <= b
    <2>1. CASE c = n + 1
      BY <1>1, <2>1
    <2>2. CASE c \in 1..n
      BY <1>1, <1>2, <2>2, SMTT(30)
    <2> QED
      BY <1>1, <2>1, <2>2
  <1>4. ASSUME NEW c \in 1..n + 1, NEW i \in 1..l[c] PROVE new[start[c] + i] = seqs[c][i]
    <2>1. CASE c = n + 1
      BY <1>1, <2>1
    <2>2. CASE c \in 1..n
      <3>1. start[c] \in Nat /\ l[c] \in Nat /\ a \in Nat
        BY <1>1
      <3>2. start[c] + l[c] <= a
        BY <1>2, <2>2
      <3>3. start[c] + i \in 1..a
        BY <3>1, <3>2, SMTT(30)
      <3>4. old[start[c] + i] = seqs[c][i]
        BY <1>2, <2>2
      <3>5. new[start[c] + i] = old[start[c] + i]
        BY <1>1, <3>3
      <3> QED
        BY <3>4, <3>5
    <2> QED
      BY <1>1, <2>1, <2>2
  <1>5. ASSUME NEW p \in 1..b PROVE \E c \in 1..n + 1 : \E i \in 1..l[c] : p = start[c] + i
    <2>1. CASE p \in 1..a
      BY <1>1, <1>2, <2>1
    <2>2. CASE p \notin 1..a
      <3>1. p - a \in 1..l[n + 1] /\ p = start[n + 1] + (p - a)
        BY <1>1, <2>2
      <3> QED
        BY <1>1, <3>1
    <2> QED
      BY <2>1, <2>2
  <1>6. /\ \A c \in 1..n + 1 : start[c] + Len(seqs[c]) <= b
        /\ \A c \in 1..n + 1 : \A i \in 1..Len(seqs[c]) : new[start[c] + i] = seqs[c][i]
        /\ \A p \in 1..b : \E c \in 1..n + 1 : \E i \in 1..Len(seqs[c]) : p = start[c] + i
    <2>1. \A c \in 1..n + 1 : start[c] + Len(seqs[c]) <= b
      BY <1>1, <1>3
    <2>2. \A c \in 1..n + 1 : \A i \in 1..Len(seqs[c]) : new[start[c] + i] = seqs[c][i]
      BY <1>1, <1>4
    <2>3. \A p \in 1..b : \E c \in 1..n + 1 : \E i \in 1..Len(seqs[c]) : p = start[c] + i
      <3> TAKE p \in 1..b
      <3>1. PICK c \in 1..n + 1 : \E i \in 1..l[c] : p = start[c] + i
        BY <1>5
      <3>2. l[c] = Len(seqs[c])
        BY <1>1
      <3> QED
        BY <3>1, <3>2
    <2> QED
      BY <2>1, <2>2, <2>3
  <1> QED
    BY <1>6 DEF Placed, b, new

(* Every element of a part is somewhere, elements at different places are  *)
(* at different places, and nothing else is there.                         *)
LEMMA FlattenPlaces ==
  ASSUME NEW X, NEW seqs \in Seq(Seq(X))
  PROVE  \E start \in [1..Len(seqs) -> Nat] :
           /\ \A c, d \in 1..Len(seqs) : c < d => start[c] + Len(seqs[c]) <= start[d]
           /\ \A c \in 1..Len(seqs) : \A i \in 1..Len(seqs[c]) :
                /\ start[c] + i \in 1..Len(FlattenSeq(seqs))
                /\ FlattenSeq(seqs)[start[c] + i] = seqs[c][i]
           /\ \A p \in 1..Len(FlattenSeq(seqs)) :
                \E c \in 1..Len(seqs) : \E i \in 1..Len(seqs[c]) : p = start[c] + i
  <1> DEFINE L == Len(seqs)
             flat == FlattenSeq(seqs)
  <1>1. L \in Nat /\ \A i \in 1..L : seqs[i] \in Seq(X) /\ Len(seqs[i]) \in Nat
    OBVIOUS
  <1> HIDE DEF L
  <1>2. PICK g \in [0..L -> Seq(X)] : Joins(g, seqs, L)
    BY <1>1, JoinsExist
  <1>3. flat = g[L]
    BY <1>2, FlattenJoins DEF L
  <1> HIDE DEF flat
  <1> DEFINE start == [c \in 1..L |-> Len(g[c - 1])]
             T == {n \in Nat : n <= L => Placed(start, g, seqs, n)}
  <1>4. \A n \in 0..L : g[n] \in Seq(X) /\ Len(g[n]) \in Nat
    <2>1. \A s \in Seq(X) : Len(s) \in Nat
      OBVIOUS
    <2> QED
      BY <2>1
  <1>5. /\ start \in [1..L -> Nat]
        /\ \A c \in 1..L : start[c] = Len(g[c - 1])
        /\ \A n \in Nat : n < L => start[n + 1] = Len(g[n])
    <2>1. \A c \in 1..L : c - 1 \in 0..L
      BY <1>1
    <2>2. \A n \in Nat : n < L => n + 1 \in 1..L /\ n + 1 - 1 = n
      BY <1>1
    <2> QED
      BY <1>4, <2>1, <2>2
  <1> HIDE DEF start
  <1>6. 0 \in T
    <2>1. g[0] = <<>>
      BY <1>2 DEF Joins
    <2>2. Len(g[0]) = 0
      BY <2>1
    <2> QED
      BY <2>2 DEF Placed
  <1>7. ASSUME NEW n \in Nat, n \in T PROVE n + 1 \in T
    <2> SUFFICES ASSUME n + 1 <= L PROVE Placed(start, g, seqs, n + 1)
      OBVIOUS
    <2>1. Placed(start, g, seqs, n)
      BY <1>1, <1>7
    <2>2. n \in 0..L /\ n < L /\ n + 1 \in 1..L /\ 1..n + 1 \subseteq 1..L
      BY <1>1
    <2>3. g[n + 1] = Joined(g[n], seqs[n + 1])
      BY <1>2, <2>2 DEF Joins
    <2>4. g[n] \in Seq(X) /\ seqs[n + 1] \in Seq(X)
      BY <1>1, <1>4, <2>2
    <2>5. /\ Len(g[n + 1]) = Len(g[n]) + Len(seqs[n + 1])
          /\ \A i \in 1..Len(g[n]) : g[n + 1][i] = g[n][i]
          /\ \A i \in 1..Len(seqs[n + 1]) : g[n + 1][Len(g[n]) + i] = seqs[n + 1][i]
      <3> DEFINE a == g[n]
                 b == seqs[n + 1]
                 c == g[n + 1]
      <3>1. a \in Seq(X) /\ b \in Seq(X) /\ c = Joined(a, b)
        BY <2>3, <2>4
      <3> HIDE DEF a, b, c
      <3>2. /\ Len(Joined(a, b)) = Len(a) + Len(b)
            /\ \A i \in 1..Len(a) : Joined(a, b)[i] = a[i]
            /\ \A i \in 1..Len(b) : Joined(a, b)[Len(a) + i] = b[i]
        <4>1. Follows(a, b, Joined(a, b))
          BY <3>1, JoinedFacts
        <4> QED
          BY <4>1 DEF Follows
      <3> QED
        BY <3>1, <3>2 DEF a, b, c
    <2>6. \A c \in 1..n + 1 : start[c] \in Nat /\ Len(seqs[c]) \in Nat
      BY <1>1, <1>5, <2>2
    <2>7. start[n + 1] = Len(g[n]) /\ Len(g[n]) \in Nat
      BY <1>4, <1>5, <2>2
    <2> HIDE DEF T
    <2> QED
      BY <2>1, <2>5, <2>6, <2>7, PlacedStep
  <1>8. Nat \subseteq T
    <2> HIDE DEF T
    <2> QED
      BY <1>6, <1>7, SetInduction
  <1>9. \A n \in 0..L : Placed(start, g, seqs, n)
    BY <1>1, <1>8
  <1>10. ASSUME NEW c \in 1..L, NEW d \in 1..L, c < d
         PROVE  start[c] + Len(seqs[c]) <= start[d]
    <2>1. d - 1 \in 0..L /\ c \in 1..d - 1
      BY <1>1, <1>10
    <2>2. start[c] + Len(seqs[c]) <= Len(g[d - 1])
      BY <1>9, <2>1 DEF Placed
    <2> QED
      BY <1>5, <2>2
  <1>11. /\ L \in 0..L /\ Len(flat) \in Nat
         /\ \A c \in 1..L : start[c] + Len(seqs[c]) <= Len(flat)
         /\ \A c \in 1..L : \A i \in 1..Len(seqs[c]) : flat[start[c] + i] = seqs[c][i]
         /\ \A p \in 1..Len(flat) : \E c \in 1..L : \E i \in 1..Len(seqs[c]) : p = start[c] + i
    <2>1. L \in 0..L
      BY <1>1
    <2>2. Placed(start, g, seqs, L)
      BY <1>9, <2>1
    <2> QED
      BY <1>3, <1>4, <2>1, <2>2 DEF Placed
  <1>12. \A c \in 1..L : \A i \in 1..Len(seqs[c]) : start[c] + i \in 1..Len(flat)
    <2> TAKE c \in 1..L
    <2> TAKE i \in 1..Len(seqs[c])
    <2> DEFINE s == start[c]
               k == Len(seqs[c])
    <2>1. s \in Nat /\ k \in Nat /\ i \in 1..k /\ s + k <= Len(flat) /\ Len(flat) \in Nat
      BY <1>1, <1>5, <1>11
    <2> HIDE DEF s, k
    <2>2. s + i \in 1..Len(flat)
      BY <2>1
    <2> QED
      BY <2>2 DEF s
  <1> QED
    BY <1>5, <1>10, <1>11, <1>12 DEF L, flat

(***************************************************************************)
(* Folds.  MapThenFoldSet is the one function over the subsets of a finite *)
(* set that takes one picked element at a time; such a function exists.    *)
(***************************************************************************)
LEMMA MaxOfInterval ==
  ASSUME NEW n \in Nat
  PROVE  /\ \A s \in SUBSET (1..n) : s # {} => Max(s) \in s
         /\ \A i \in 1..n : Max(1..i) = i
  <1>1. ASSUME NEW s \in SUBSET (1..n), s # {} PROVE Max(s) \in s
    <2> DEFINE rest == {n - x : x \in s}
    <2>1. rest \subseteq Nat /\ rest # {}
      <3>1. \A x \in s : n - x \in Nat
        BY <1>1
      <3>2. PICK x \in s : TRUE
        BY <1>1
      <3> QED
        BY <3>1, <3>2
    <2>2. PICK r \in rest : \A m \in rest : r <= m
      BY <2>1, LeastNatural
    <2>3. PICK x \in s : r = n - x
      BY <2>2
    <2>4. \A y \in s : x >= y
      <3> TAKE y \in s
      <3>1. n - y \in rest
        OBVIOUS
      <3>2. n - x <= n - y
        BY <2>2, <2>3, <3>1
      <3> QED
        BY <3>2
    <2> QED
      BY <2>4 DEF Max
  <1>2. ASSUME NEW i \in 1..n PROVE Max(1..i) = i
    <2>1. i \in 1..i /\ \A y \in 1..i : i >= y
      OBVIOUS
    <2>2. \A x \in 1..i : (\A y \in 1..i : x >= y) => x = i
      OBVIOUS
    <2> QED
      BY <2>1, <2>2 DEF Max
  <1> QED
    BY <1>1, <1>2

LEMMA Intervals ==
  ASSUME NEW n \in Nat, NEW i \in 1..n
  PROVE  /\ 1..i \in SUBSET (1..n) /\ 1..i # {} /\ i \in 0..n /\ i - 1 \in 0..n
         /\ (1..i) \ {i} = 1..(i - 1) /\ Max(1..i) = i
  <1>1. 1..i \in SUBSET (1..n) /\ i \in 0..n /\ i - 1 \in 0..n
    OBVIOUS
  <1>2. 1..i # {}
    <2>1. i \in 1..i
      OBVIOUS
    <2> QED
      BY <2>1
  <1>3. (1..i) \ {i} = 1..(i - 1)
    <2>1. \A x : x \in (1..i) \ {i} <=> x \in 1..(i - 1)
      OBVIOUS
    <2> QED
      BY <2>1
  <1> QED
    BY <1>1, <1>2, <1>3, MaxOfInterval

(* One more element can be taken.                                          *)
SmallSubsets(S, n) == {s \in SUBSET S : Cardinality(s) <= n}
Folds(g, S, pick, base, step) == \A s \in S : g[s] = IF s = {} THEN base ELSE step[<<s, g[s \ {pick[s]}]>>]

LEMMA FoldStep ==
  ASSUME NEW S, IsFiniteSet(S), NEW V, NEW base \in V, NEW pick, NEW step,
         \A s \in SUBSET S : s # {} => pick[s] \in s,
         \A s \in SUBSET S : s # {} => \A v \in V : step[<<s, v>>] \in V,
         NEW n \in Nat,
         NEW g \in [SmallSubsets(S, n) -> V], Folds(g, SmallSubsets(S, n), pick, base, step)
  PROVE  \E h \in [SmallSubsets(S, n + 1) -> V] : Folds(h, SmallSubsets(S, n + 1), pick, base, step)
  <1> DEFINE A == SmallSubsets(S, n)
             B == SmallSubsets(S, n + 1)
             less(s) == s \ {pick[s]}
             h == [s \in B |-> IF s = {} THEN base ELSE step[<<s, g[less(s)]>>]]
  <1>1. ASSUME NEW s \in B, s # {} PROVE less(s) \in A
    <2>1. pick[s] \in s /\ s \subseteq S /\ Cardinality(s) <= n + 1
      BY <1>1 DEF SmallSubsets
    <2>2. IsFiniteSet(s)
      BY <2>1, FS_Subset
    <2>3. Cardinality(less(s)) = Cardinality(s) - 1 /\ Cardinality(s) \in Nat
      BY <2>1, <2>2, FS_RemoveElement, FS_CardinalityType
    <2> QED
      BY <2>1, <2>3 DEF SmallSubsets
  <1>2. A \subseteq B
    <2>1. \A s \in SUBSET S : Cardinality(s) \in Nat
      BY FS_Subset, FS_CardinalityType
    <2> QED
      BY <2>1 DEF SmallSubsets
  <1>3. \A s \in B : h[s] = IF s = {} THEN base ELSE step[<<s, g[less(s)]>>]
    OBVIOUS
  <1>4. \A s \in A : h[s] = g[s]
    BY <1>2, <1>3 DEF Folds
  <1>5. h \in [B -> V]
    <2>1. ASSUME NEW s \in B PROVE (IF s = {} THEN base ELSE step[<<s, g[less(s)]>>]) \in V
      <3>1. CASE s = {}
        BY <3>1
      <3>2. CASE s # {}
        <4>1. g[less(s)] \in V /\ s \in SUBSET S
          BY <1>1, <3>2 DEF SmallSubsets
        <4> QED
          BY <3>2, <4>1
      <3> QED
        BY <3>1, <3>2
    <2> QED
      BY <2>1
  <1> HIDE DEF h
  <1>6. Folds(h, B, pick, base, step)
    BY <1>1, <1>3, <1>4 DEF Folds
  <1> QED
    BY <1>5, <1>6

LEMMA FoldExists ==
  ASSUME NEW S, IsFiniteSet(S), NEW V, NEW base \in V, NEW pick, NEW step,
         \A s \in SUBSET S : s # {} => pick[s] \in s,
         \A s \in SUBSET S : s # {} => \A v \in V : step[<<s, v>>] \in V
  PROVE  \E g \in [SUBSET S -> V] : Folds(g, SUBSET S, pick, base, step)
  <1> DEFINE T == {n \in Nat : \E g \in [SmallSubsets(S, n) -> V] :
                                 Folds(g, SmallSubsets(S, n), pick, base, step)}
  <1>1. 0 \in T
    <2>1. SmallSubsets(S, 0) = {{}}
      <3>1. ASSUME NEW s \in SUBSET S PROVE Cardinality(s) <= 0 <=> s = {}
        <4>1. IsFiniteSet(s)
          BY FS_Subset
        <4>2. Cardinality(s) \in Nat /\ (Cardinality(s) = 0 <=> s = {})
          BY <4>1, FS_CardinalityType, FS_EmptySet
        <4> QED
          BY <4>2
      <3> QED
        BY <3>1 DEF SmallSubsets
    <2> DEFINE g == [s \in {{}} |-> base]
    <2>2. g \in [{{}} -> V] /\ Folds(g, {{}}, pick, base, step)
      BY DEF Folds
    <2> QED
      BY <2>1, <2>2
  <1>2. ASSUME NEW n \in Nat, n \in T PROVE n + 1 \in T
    <2>1. PICK g \in [SmallSubsets(S, n) -> V] : Folds(g, SmallSubsets(S, n), pick, base, step)
      BY <1>2
    <2>2. \E h \in [SmallSubsets(S, n + 1) -> V] : Folds(h, SmallSubsets(S, n + 1), pick, base, step)
      BY <2>1, FoldStep
    <2> QED
      BY <2>2
  <1> HIDE DEF T
  <1>3. Nat \subseteq T
    BY <1>1, <1>2, SetInduction
  <1>4. Cardinality(S) \in Nat /\ Cardinality(S) \in T
    BY <1>3, FS_CardinalityType
  <1>5. SmallSubsets(S, Cardinality(S)) = SUBSET S
    <2>1. \A s \in SUBSET S : Cardinality(s) <= Cardinality(S)
      BY FS_Subset
    <2> QED
      BY <2>1 DEF SmallSubsets
  <1>6. PICK g \in [SmallSubsets(S, Cardinality(S)) -> V] :
          Folds(g, SmallSubsets(S, Cardinality(S)), pick, base, step)
    BY <1>4, Zenon DEF T
  <1>7. g \in [SUBSET S -> V]
    BY <1>5, <1>6, Zenon
  <1>8. Folds(g, SUBSET S, pick, base, step)
    BY <1>5, <1>6, Zenon
  <1> QED
    BY <1>7, <1>8, Zenon
=============================================================================
