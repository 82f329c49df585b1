-------------------------------- MODULE Sums --------------------------------
(***************************************************************************)
(* What the folds of the community modules compute.                        *)
(*                                                                         *)
(* A sum of natural numbers W[x] over a set S is the number of dots in a   *)
(* diagram with W[x] dots in the column of x; changing one summand changes *)
(* one column, which the theorems on finite sets can follow.  FoldUnique   *)
(* ties a fold, that is a recursive function on the subsets of S, to that  *)
(* number: a least counterexample to their equality is impossible.         *)
(*                                                                         *)
(* The second part is for sequences: UpTo is induction stated with a set   *)
(* of numbers, WalkExists gives the values that a left fold passes         *)
(* through, FoldTrace says that these are what FoldLeft computes, and      *)
(* JoinExists and FlattenSteps do the same for concatenated sequences.     *)
(***************************************************************************)
EXTENDS Integers, SequencesExt, FiniteSetTheorems, FunctionTheorems, SequenceTheorems,
        WellFoundedInduction, TLAPS

Dots(W, S) == {p \in S \X Nat : p[2] >= 1 /\ p[2] <= W[p[1]]}

\* The sum of W[x] over the elements x of S.
Total(W, S) == Cardinality(Dots(W, S))

\* The sum of a sequence of numbers.
SeqTotal(ns) == Total(ns, 1..Len(ns))

Column(x, n) == {x} \X (1..n)

\* The element of a set that the folds take first.
Pick(s) == CHOOSE x \in s : TRUE

-----------------------------------------------------------------------------

\* Every nonempty set of naturals has a least element.
LEMMA Least ==
  ASSUME NEW T, T \subseteq Nat, T # {}
  PROVE  \E n \in T : \A m \in T : n <= m
<1> DEFINE R == {ss \in Nat \X Nat : ss[1] < ss[2]}
<1>1. OpToRel(<, Nat) = R
  BY DEF OpToRel
<1>2. IsWellFoundedOn(R, Nat)
  BY <1>1, NatLessThanWellFounded
<1>3. PICK n \in T : \A m \in T : ~ (<<m, n>> \in R)
  <2> HIDE DEF R
  <2> QED BY <1>2, WFMin
<1>4. \A m \in T : ~ (m < n)
  BY <1>3
<1>5. QED
  BY <1>4

LEMMA ColumnSize ==
  ASSUME NEW x, NEW n \in Nat
  PROVE  IsFiniteSet(Column(x, n)) /\ Cardinality(Column(x, n)) = n
<1>1. IsFiniteSet(1..n) /\ Cardinality(1..n) = n
  <2>1. IsFiniteSet(1..n) /\ Cardinality(1..n) = IF 1 > n THEN 0 ELSE n - 1 + 1
    BY FS_Interval
  <2>2. QED
    BY <2>1
<1>2. IsFiniteSet({x}) /\ Cardinality({x}) = 1
  BY FS_Singleton
<1>3. IsFiniteSet({x} \X (1..n)) /\ Cardinality({x} \X (1..n)) = Cardinality({x}) * Cardinality(1..n)
  BY <1>1, <1>2, FS_Product
<1>4. QED
  BY <1>1, <1>2, <1>3 DEF Column

\* The column of x against the rest of the diagram.
LEMMA DotsSplit ==
  ASSUME NEW S, NEW W, NEW x \in S, W[x] \in Nat
  PROVE  /\ Dots(W, S) = Dots(W, S \ {x}) \cup Column(x, W[x])
         /\ Dots(W, S \ {x}) \cap Column(x, W[x]) = {}
         /\ Dots(W, S \ {x}) = Dots(W, S) \ Column(x, W[x])
         /\ Column(x, W[x]) \subseteq Dots(W, S)
BY DEF Dots, Column

\* Taking one summand away, from a diagram known to be finite.
LEMMA TotalSplit ==
  ASSUME NEW S, NEW W, NEW x \in S, W[x] \in Nat,
         IsFiniteSet(Dots(W, S)) \/ IsFiniteSet(Dots(W, S \ {x}))
  PROVE  /\ IsFiniteSet(Dots(W, S)) /\ IsFiniteSet(Dots(W, S \ {x}))
         /\ Total(W, S) \in Nat /\ Total(W, S \ {x}) \in Nat
         /\ Total(W, S) = Total(W, S \ {x}) + W[x]
<1> DEFINE A == Dots(W, S)
           B == Dots(W, S \ {x})
           C == Column(x, W[x])
<1>1. A = B \cup C /\ B \cap C = {} /\ B = A \ C
  BY DotsSplit
<1>2. IsFiniteSet(C) /\ Cardinality(C) = W[x]
  BY ColumnSize
<1>3. IsFiniteSet(A) \/ IsFiniteSet(B)
  OBVIOUS
<1> HIDE DEF A, B, C
<1>4. IsFiniteSet(B)
  BY <1>1, <1>3, FS_Difference
<1>5. IsFiniteSet(A) /\ Cardinality(A) = Cardinality(B) + W[x] - Cardinality({})
  BY <1>1, <1>2, <1>4, FS_Union
<1>6. Cardinality(A) \in Nat /\ Cardinality(B) \in Nat /\ Cardinality({}) = 0
  BY <1>4, <1>5, FS_CardinalityType, FS_EmptySet
<1>7. QED
  BY <1>4, <1>5, <1>6 DEF A, B, C, Total

LEMMA TotalEmpty ==
  ASSUME NEW W
  PROVE  Dots(W, {}) = {} /\ IsFiniteSet(Dots(W, {})) /\ Total(W, {}) = 0
<1>1. Dots(W, {}) = {}
  BY DEF Dots
<1>2. QED
  BY <1>1, FS_EmptySet DEF Total

\* A finite sum of naturals is a natural.
LEMMA TotalFinite ==
  ASSUME NEW S, IsFiniteSet(S), NEW W, \A x \in S : W[x] \in Nat
  PROVE  IsFiniteSet(Dots(W, S)) /\ Total(W, S) \in Nat
<1> DEFINE Bad == {n \in Nat : \E s \in SUBSET S : Cardinality(s) = n /\ ~IsFiniteSet(Dots(W, s))}
<1>1. Bad = {}
  <2> SUFFICES ASSUME Bad # {} PROVE FALSE
    OBVIOUS
  <2>1. PICK n \in Bad : \A m \in Bad : n <= m
    BY Least
  <2>2. PICK s \in SUBSET S : Cardinality(s) = n /\ ~IsFiniteSet(Dots(W, s))
    BY <2>1
  <2>3. s # {}
    BY <2>2, TotalEmpty
  <2>4. PICK x \in s : TRUE
    BY <2>3
  <2>5. IsFiniteSet(s) /\ n \in Nat
    BY <2>1, FS_Subset
  <2>6. Cardinality(s \ {x}) = n - 1 /\ n - 1 \in Nat
    <3>1. IsFiniteSet(s \ {x}) /\ Cardinality(s \ {x}) = n - 1
      BY <2>2, <2>4, <2>5, FS_RemoveElement
    <3>2. Cardinality(s \ {x}) \in Nat
      BY <3>1, FS_CardinalityType
    <3>3. QED
      BY <3>1, <3>2
  <2>7. ~IsFiniteSet(Dots(W, s \ {x}))
    BY <2>2, TotalSplit
  <2>8. n - 1 \in Bad
    BY <2>6, <2>7
  <2>9. QED
    BY <2>1, <2>5, <2>8
<1>2. IsFiniteSet(Dots(W, S))
  <2>1. Cardinality(S) \in Nat
    BY FS_CardinalityType
  <2>2. QED
    BY <1>1, <2>1
<1>3. QED
  BY <1>2, FS_CardinalityType DEF Total

\* The recursion equation of the folds, which take the picked element first.
LEMMA TotalStep ==
  ASSUME NEW S, IsFiniteSet(S), NEW W, \A x \in S : W[x] \in Nat,
         NEW s \in SUBSET S, s # {}
  PROVE  Pick(s) \in s /\ Total(W, s) = W[Pick(s)] + Total(W, s \ {Pick(s)})
<1>1. Pick(s) \in s
  BY DEF Pick
<1>2. IsFiniteSet(s)
  BY FS_Subset
<1>3. IsFiniteSet(Dots(W, s))
  BY <1>2, TotalFinite
<1>4. W[Pick(s)] \in Nat
  BY <1>1
<1>5. /\ Total(W, s \ {Pick(s)}) \in Nat
      /\ Total(W, s) = Total(W, s \ {Pick(s)}) + W[Pick(s)]
  BY <1>1, <1>3, <1>4, TotalSplit
<1>6. QED
  BY <1>1, <1>4, <1>5

\* Whatever satisfies the recursion equation of a fold over S is the sum over S.
LEMMA FoldUnique ==
  ASSUME NEW S, IsFiniteSet(S), NEW W, \A x \in S : W[x] \in Nat, NEW iter,
         \A s \in SUBSET S :
           iter[s] = IF s = {} THEN 0 ELSE W[Pick(s)] + iter[s \ {Pick(s)}]
  PROVE  iter[S] = Total(W, S)
<1> DEFINE Bad == {n \in Nat : \E s \in SUBSET S : Cardinality(s) = n /\ iter[s] # Total(W, s)}
<1>1. Bad = {}
  <2> SUFFICES ASSUME Bad # {} PROVE FALSE
    OBVIOUS
  <2>1. PICK n \in Bad : \A m \in Bad : n <= m
    BY Least
  <2>2. PICK s \in SUBSET S : Cardinality(s) = n /\ iter[s] # Total(W, s)
    BY <2>1
  <2>3. s # {}
    BY <2>2, TotalEmpty
  <2> DEFINE x == Pick(s)
  <2>4. x \in s /\ Total(W, s) = W[x] + Total(W, s \ {x})
    BY <2>3, TotalStep
  <2>5. iter[s] = W[x] + iter[s \ {x}]
    BY <2>3
  <2> HIDE DEF x
  <2>6. iter[s \ {x}] # Total(W, s \ {x})
    BY <2>2, <2>4, <2>5
  <2>7. IsFiniteSet(s) /\ n \in Nat
    BY <2>1, FS_Subset
  <2>8. Cardinality(s \ {x}) = n - 1 /\ n - 1 \in Nat
    <3>1. IsFiniteSet(s \ {x}) /\ Cardinality(s \ {x}) = n - 1
      BY <2>2, <2>4, <2>7, FS_RemoveElement
    <3>2. Cardinality(s \ {x}) \in Nat
      BY <3>1, FS_CardinalityType
    <3>3. QED
      BY <3>1, <3>2
  <2>9. n - 1 \in Bad
    BY <2>6, <2>8
  <2>10. QED
    BY <2>1, <2>7, <2>9
<1>2. Cardinality(S) \in Nat
  BY FS_CardinalityType
<1>3. QED
  BY <1>1, <1>2

\* Such a function exists, so the one that a fold chooses is one.
LEMMA FoldExists ==
  ASSUME NEW S, IsFiniteSet(S), NEW W, \A x \in S : W[x] \in Nat
  PROVE  \A s \in SUBSET S :
           Total(W, s) = IF s = {} THEN 0 ELSE W[Pick(s)] + Total(W, s \ {Pick(s)})
<1> SUFFICES ASSUME NEW s \in SUBSET S
             PROVE  Total(W, s) = IF s = {} THEN 0 ELSE W[Pick(s)] + Total(W, s \ {Pick(s)})
  OBVIOUS
<1>1. CASE s = {}
  <2>1. Total(W, {}) = 0
    BY TotalEmpty
  <2>2. QED
    BY <1>1, <2>1
<1>2. CASE s # {}
  BY <1>2, TotalStep
<1>3. QED
  BY <1>1, <1>2

\* Changing one summand, whether or not there are finitely many others.
LEMMA TotalUpdate ==
  ASSUME NEW S, NEW V, NEW W, NEW x \in S, V[x] \in Nat, W[x] \in Nat,
         \A y \in S \ {x} : W[y] = V[y], IsFiniteSet(Dots(V, S))
  PROVE  /\ IsFiniteSet(Dots(W, S))
         /\ Total(V, S) \in Nat /\ Total(W, S) \in Nat
         /\ Total(V, S) >= V[x] /\ Total(W, S) = Total(V, S) - V[x] + W[x]
<1>1. Dots(W, S \ {x}) = Dots(V, S \ {x})
  BY DEF Dots
<1>2. /\ IsFiniteSet(Dots(V, S \ {x})) /\ Total(V, S) \in Nat /\ Total(V, S \ {x}) \in Nat
      /\ Total(V, S) = Total(V, S \ {x}) + V[x]
  BY TotalSplit
<1>3. IsFiniteSet(Dots(W, S \ {x})) /\ Total(W, S \ {x}) = Total(V, S \ {x})
  BY <1>1, <1>2 DEF Total
<1>4. /\ IsFiniteSet(Dots(W, S)) /\ Total(W, S) \in Nat
      /\ Total(W, S) = Total(W, S \ {x}) + W[x]
  BY <1>3, TotalSplit
<1>5. QED
  BY <1>2, <1>3, <1>4

\* A sum over no more than one element.
LEMMA TotalSingle ==
  ASSUME NEW W, NEW x, W[x] \in Nat
  PROVE  Total(W, {x}) = W[x]
<1>1. {x} \ {x} = {}
  OBVIOUS
<1>2. IsFiniteSet(Dots(W, {x} \ {x})) /\ Total(W, {x} \ {x}) = 0
  BY <1>1, TotalEmpty
<1>3. Total(W, {x}) = Total(W, {x} \ {x}) + W[x]
  BY <1>2, TotalSplit
<1>4. QED
  BY <1>2, <1>3

-----------------------------------------------------------------------------
(* Sums of sequences. *)

LEMMA SeqTotalEmpty == SeqTotal(<<>>) = 0
<1>1. 1..Len(<<>>) = {}
  OBVIOUS
<1>2. QED
  BY <1>1, TotalEmpty DEF SeqTotal

LEMMA SeqTotalType ==
  ASSUME NEW ns \in Seq(Nat)
  PROVE  SeqTotal(ns) \in Nat /\ IsFiniteSet(Dots(ns, 1..Len(ns)))
<1>1. IsFiniteSet(1..Len(ns))
  BY FS_Interval
<1>2. \A i \in 1..Len(ns) : ns[i] \in Nat
  OBVIOUS
<1>3. QED
  BY <1>1, <1>2, TotalFinite DEF SeqTotal

LEMMA SeqTotalAppend ==
  ASSUME NEW ns \in Seq(Nat), NEW n \in Nat
  PROVE  SeqTotal(Append(ns, n)) = SeqTotal(ns) + n
<1> DEFINE ms == Append(ns, n)
           k == Len(ns) + 1
<1>1. /\ ms \in Seq(Nat) /\ Len(ms) = k /\ k \in 1..k /\ ms[k] = n
      /\ \A i \in 1..Len(ns) : ms[i] = ns[i]
  OBVIOUS
<1>2. (1..k) \ {k} = 1..Len(ns)
  OBVIOUS
<1>3. Dots(ms, (1..k) \ {k}) = Dots(ns, 1..Len(ns))
  <2> HIDE DEF ms
  <2> QED
    BY <1>1, <1>2 DEF Dots
<1> HIDE DEF ms, k
<1>4. IsFiniteSet(Dots(ms, 1..k)) /\ SeqTotal(ms) \in Nat
  BY <1>1, SeqTotalType
<1>5. /\ Total(ms, (1..k) \ {k}) \in Nat
      /\ Total(ms, 1..k) = Total(ms, (1..k) \ {k}) + ms[k]
  <2> DEFINE D == 1..k
  <2>1. k \in D /\ IsFiniteSet(Dots(ms, D)) /\ ms[k] \in Nat
    BY <1>1, <1>4
  <2> HIDE DEF D
  <2>2. /\ Total(ms, D \ {k}) \in Nat
        /\ Total(ms, D) = Total(ms, D \ {k}) + ms[k]
    BY <2>1, TotalSplit
  <2>3. QED
    BY <2>2 DEF D
<1>6. QED
  BY <1>1, <1>3, <1>5 DEF ms, SeqTotal, Total

\* Dropping the first number shifts every other column by one place.
LEMMA SeqTotalTail ==
  ASSUME NEW ns \in Seq(Nat), ns # <<>>
  PROVE  SeqTotal(ns) = Head(ns) + SeqTotal(Tail(ns))
<1> DEFINE ts == Tail(ns)
           A == Dots(ns, (1..Len(ns)) \ {1})
           B == Dots(ts, 1..Len(ts))
           f == [p \in A |-> <<p[1] - 1, p[2]>>]
<1>1. /\ ts \in Seq(Nat) /\ Len(ts) = Len(ns) - 1 /\ 1 \in 1..Len(ns)
      /\ \A i \in 1..Len(ts) : ts[i] = ns[i + 1]
      /\ Head(ns) = ns[1] /\ Len(ns) \in Nat
  OBVIOUS
<1> HIDE DEF ts
<1>2. IsFiniteSet(Dots(ns, 1..Len(ns))) /\ SeqTotal(ns) \in Nat /\ ns[1] \in Nat
  BY <1>1, SeqTotalType
<1>3. /\ IsFiniteSet(A) /\ Total(ns, (1..Len(ns)) \ {1}) \in Nat
      /\ Total(ns, 1..Len(ns)) = Total(ns, (1..Len(ns)) \ {1}) + ns[1]
  <2> DEFINE D == 1..Len(ns)
  <2>1. 1 \in D /\ IsFiniteSet(Dots(ns, D)) /\ ns[1] \in Nat
    BY <1>1, <1>2
  <2> HIDE DEF D
  <2>2. /\ IsFiniteSet(Dots(ns, D \ {1})) /\ Total(ns, D \ {1}) \in Nat
        /\ Total(ns, D) = Total(ns, D \ {1}) + ns[1]
    BY <2>1, TotalSplit
  <2>3. QED
    BY <2>2 DEF D
<1>4. f \in Bijection(A, B)
  <2>1. /\ \A i, j : <<i, j>> \in A <=> /\ i \in 1..Len(ns) /\ i # 1
                                      /\ j \in Nat /\ 1 <= j /\ j <= ns[i]
        /\ \A p \in A : p = <<p[1], p[2]>>
    BY DEF Dots
  <2>2. /\ \A i, j : <<i, j>> \in B <=> i \in 1..Len(ts) /\ j \in Nat /\ 1 <= j /\ j <= ts[i]
        /\ \A p \in B : p = <<p[1], p[2]>>
    BY DEF Dots
  <2> HIDE DEF A, B
  <2>3. ASSUME NEW i, NEW j, <<i, j>> \in A PROVE <<i - 1, j>> \in B /\ i \in Int
    <3>1. i \in 1..Len(ns) /\ i # 1 /\ j \in Nat /\ 1 <= j /\ j <= ns[i]
      BY <2>1, <2>3
    <3>2. i \in Int /\ i - 1 \in 1..Len(ts) /\ (i - 1) + 1 = i
      BY <1>1, <3>1
    <3>3. ts[i - 1] = ns[i]
      BY <1>1, <3>2
    <3>4. QED
      BY <2>2, <3>1, <3>2, <3>3
  <2>4. ASSUME NEW i, NEW j, <<i, j>> \in B PROVE <<i + 1, j>> \in A /\ i \in Int
    <3>1. i \in 1..Len(ts) /\ j \in Nat /\ 1 <= j /\ j <= ts[i]
      BY <2>2, <2>4
    <3>2. i \in Int /\ i + 1 \in 1..Len(ns) /\ i + 1 # 1 /\ ts[i] = ns[i + 1]
      BY <1>1, <3>1, SMTT(30)
    <3>3. QED
      BY <2>1, <3>1, <3>2
  <2>5. f \in [A -> B]
    BY <2>1, <2>3
  <2>6. \A p, q \in A : f[p] = f[q] => p = q
    <3> SUFFICES ASSUME NEW p \in A, NEW q \in A, f[p] = f[q] PROVE p = q
      OBVIOUS
    <3>1. p[1] - 1 = q[1] - 1 /\ p[2] = q[2]
      OBVIOUS
    <3>2. p[1] \in Int /\ q[1] \in Int
      BY <2>1, <2>3
    <3>3. QED
      BY <2>1, <3>1, <3>2
  <2>7. ASSUME NEW q \in B PROVE \E p \in A : f[p] = q
    <3> DEFINE p == <<q[1] + 1, q[2]>>
    <3>1. p \in A /\ q[1] \in Int /\ q = <<q[1], q[2]>>
      BY <2>2, <2>4
    <3>2. f[p] = <<(q[1] + 1) - 1, q[2]>>
      BY <3>1
    <3>3. (q[1] + 1) - 1 = q[1]
      BY <3>1
    <3>4. QED
      BY <3>1, <3>2, <3>3
  <2> HIDE DEF f
  <2>8. QED
    BY <2>5, <2>6, <2>7 DEF Bijection, Injection, Surjection, IsInjective
<1>5. Cardinality(B) = Cardinality(A)
  BY <1>3, <1>4, FS_Bijection DEF ExistsBijection
<1>6. QED
  BY <1>1, <1>2, <1>3, <1>5 DEF ts, SeqTotal, Total

-----------------------------------------------------------------------------
(* Induction over numbers, and a fold that walks through a sequence. *)

\* Moving an element from the head of one sequence to the end of another.
LEMMA MoveHead ==
  ASSUME NEW S, NEW s \in Seq(S), NEW t \in Seq(S), t # <<>>
  PROVE  /\ Append(s, Head(t)) \in Seq(S)
         /\ Len(Append(s, Head(t))) = Len(s) + 1
         /\ Tail(t) \in Seq(S) /\ Len(Tail(t)) < Len(t)
         /\ Append(s, Head(t)) \o Tail(t) = s \o t
         /\ Range(Tail(t)) \subseteq Range(t)
<1>1. /\ Head(t) \in S /\ Tail(t) \in Seq(S) /\ Len(Tail(t)) = Len(t) - 1
      /\ Len(t) \in Nat \ {0}
  BY HeadTailProperties, EmptySeq
<1>2. t = <<Head(t)>> \o Tail(t)
  <2>1. 1 \in 1..Len(t) /\ Len(t) \in 1..Len(t) /\ t[1] = Head(t)
    BY <1>1
  <2>2. SubSeq(t, 1, Len(t)) = <<t[1]>> \o SubSeq(t, 1 + 1, Len(t))
    BY <2>1, SubSeqRecursiveFirst
  <2>3. QED
    BY <2>1, <2>2, SubSeqFull, TailIsSubSeq
<1>3. Append(s, Head(t)) = s \o <<Head(t)>>
  BY <1>1, AppendIsConcat
<1>4. <<Head(t)>> \in Seq(S)
  BY <1>1
<1>5. (s \o <<Head(t)>>) \o Tail(t) = s \o (<<Head(t)>> \o Tail(t))
  BY <1>1, <1>4, ConcatAssociative
<1>6. Range(Tail(t)) \subseteq Range(t)
  <2>1. SUFFICES ASSUME NEW x \in Range(Tail(t)) PROVE x \in Range(t)
    OBVIOUS
  <2>2. PICK i \in 1..Len(Tail(t)) : x = Tail(t)[i]
    BY <1>1, LenProperties DEF Range
  <2>3. i + 1 \in 1..Len(t) /\ x = t[i + 1]
    BY <1>1, <2>2, HeadTailProperties
  <2>4. QED
    BY <2>3, LenProperties DEF Range
<1>7. QED
  BY <1>1, <1>2, <1>3, <1>5, <1>6, AppendProperties

\* SetToSeq lists every element of a finite set once.
LEMMA Enumerates ==
  ASSUME NEW S, IsFiniteSet(S)
  PROVE  /\ Cardinality(S) \in Nat
         /\ SetToSeq(S) \in [1..Cardinality(S) -> S]
         /\ \A i, j \in 1..Cardinality(S) : SetToSeq(S)[i] = SetToSeq(S)[j] => i = j
         /\ \A x \in S : \E i \in 1..Cardinality(S) : SetToSeq(S)[i] = x
<1> DEFINE n == Cardinality(S)
           list == SetToSeq(S)
<1>1. n \in Nat /\ ExistsBijection(1..n, S)
  BY FS_CardinalityType
<1>2. PICK f : f \in Bijection(1..n, S)
  BY <1>1 DEF ExistsBijection
<1>3. f \in [1..n -> S] /\ IsInjective(f)
  BY <1>2 DEF Bijection, Injection
<1>4. list \in [1..n -> S] /\ IsInjective(list)
  <2>1. list = CHOOSE g \in [1..n -> S] : IsInjective(g)
    BY DEF SetToSeq
  <2> HIDE DEF n, list
  <2>2. QED
    BY <1>3, <2>1
<1>5. list \in Injection(1..n, S)
  BY <1>4 DEF Injection
<1>6. IsFiniteSet(1..n) /\ Cardinality(1..n) = n
  BY <1>1, FS_CountingElements, FS_Interval
<1>7. list \in Surjection(1..n, S)
  <2>1. Cardinality(S) = n
    OBVIOUS
  <2> HIDE DEF n, list
  <2>2. QED
    BY <1>5, <1>6, <2>1, FS_Injection
<1> HIDE DEF list
<1>8. /\ \A i, j \in 1..n : list[i] = list[j] => i = j
      /\ \A x \in S : \E i \in 1..n : list[i] = x
  BY <1>4, <1>7 DEF IsInjective, Surjection
<1>9. QED
  BY <1>1, <1>4, <1>8 DEF list

\* The numbers for which a fact holds are a set: with 0 and the successor of each of
\* its members up to n, it has all of them.
LEMMA UpTo ==
  ASSUME NEW n \in Nat, NEW T, 0 \in T, \A k \in 1..n : k - 1 \in T => k \in T
  PROVE  \A k \in 0..n : k \in T
<1> DEFINE Bad == {k \in Nat : k <= n /\ k \notin T}
<1>1. Bad = {}
  <2> SUFFICES ASSUME Bad # {} PROVE FALSE
    OBVIOUS
  <2>1. PICK k \in Bad : \A m \in Bad : k <= m
    BY Least
  <2>2. k \in 1..n /\ k - 1 \notin Bad
    BY <2>1
  <2>3. QED
    BY <2>1, <2>2
<1>2. QED
  BY <1>1

\* The index that FoldLeft takes first: the greatest.
Top(s) == CHOOSE x \in s : \A y \in s : x >= y

LEMMA TopIsGreatest ==
  ASSUME NEW n \in Nat, NEW s \in SUBSET (1..n), s # {}
  PROVE  Top(s) \in s /\ \A y \in s : Top(s) >= y
<1> DEFINE T == {m \in Nat : n - m \in s}
<1>1. T # {}
  <2>1. PICK y \in s : TRUE
    OBVIOUS
  <2>2. n - y \in Nat /\ n - (n - y) = y
    BY <2>1
  <2>3. QED
    BY <2>1, <2>2
<1>2. PICK m \in T : \A l \in T : m <= l
  BY <1>1, Least
<1>3. ASSUME NEW y \in s PROVE n - m >= y
  <2>1. n - y \in Nat /\ n - (n - y) = y
    BY <1>3
  <2>2. m <= n - y
    BY <1>2, <2>1
  <2>3. QED
    BY <1>2, <2>1, <2>2
<1>4. QED
  BY <1>2, <1>3 DEF Top

LEMMA TopOfInterval ==
  ASSUME NEW k \in Nat, k > 0
  PROVE  Top(1..k) = k /\ (1..k) \ {k} = 1..(k - 1)
<1> DEFINE s == 1..k
<1>1. s \in SUBSET (1..k) /\ s # {} /\ k \in s
  OBVIOUS
<1>2. Top(s) \in s /\ \A y \in s : Top(s) >= y
  <2> HIDE DEF s
  <2>1. QED
    BY <1>1, TopIsGreatest
<1>3. QED
  BY <1>2

Steps(G, n, V) == G \in [V \X (1..n) -> V]

\* f satisfies the recursion equation of FoldLeft, from b by the step G on values V.
IsWalk(f, n, V, b, G) ==
  /\ f \in [SUBSET (1..n) -> V]
  /\ \A s \in SUBSET (1..n) :
       f[s] = IF s = {} THEN b ELSE G[<<f[s \ {Top(s)}], Top(s)>>]

\* Such a function exists: from one for the subsets of 1..(k - 1) there is one for those
\* of 1..k.
LEMMA WalkExists ==
  ASSUME NEW n, n \in Nat, NEW V, NEW b, b \in V, NEW G, Steps(G, n, V)
  PROVE  \E f : IsWalk(f, n, V, b, G)
<1> USE DEF Steps
<1> DEFINE Walk(f, k) == \A s \in SUBSET (1..k) :
                           f[s] = IF s = {} THEN b ELSE G[<<f[s \ {Top(s)}], Top(s)>>]
           Reached(k) == \E f \in [SUBSET (1..k) -> V] : Walk(f, k)
           T == {k \in 0..n : Reached(k)}
<1>1. 0 \in T
  <2> DEFINE f == [s \in SUBSET (1..0) |-> b]
  <2>1. \A s \in SUBSET (1..0) : s = {}
    OBVIOUS
  <2>2. f \in [SUBSET (1..0) -> V] /\ Walk(f, 0)
    BY <2>1
  <2> HIDE DEF f, Walk
  <2>3. Reached(0)
    BY <2>2
  <2> HIDE DEF Reached
  <2>4. QED
    BY <2>3
<1>2. ASSUME NEW k \in 1..n, k - 1 \in T PROVE k \in T
  <2>1. PICK f \in [SUBSET (1..(k - 1)) -> V] : Walk(f, k - 1)
    BY <1>2
  <2> DEFINE g == [s \in SUBSET (1..k) |->
                     IF k \in s THEN G[<<f[s \ {k}], k>>] ELSE f[s]]
  <2>2. \A s \in SUBSET (1..k) : s \ {k} \in SUBSET (1..(k - 1))
    OBVIOUS
  <2>3. \A s \in SUBSET (1..k) : k \notin s => s \in SUBSET (1..(k - 1))
    OBVIOUS
  <2>4. \A s \in SUBSET (1..k) : k \in s => f[s \ {k}] \in V
    BY <2>2
  <2>5. g \in [SUBSET (1..k) -> V]
    BY <2>3, <2>4
  <2>6. ASSUME NEW s \in SUBSET (1..k), s # {}
        PROVE  g[s] = G[<<g[s \ {Top(s)}], Top(s)>>]
    <3>1. Top(s) \in s /\ \A y \in s : Top(s) >= y
      <4>1. k \in Nat
        OBVIOUS
      <4>2. QED
        BY <2>6, <4>1, TopIsGreatest
    <3>2. CASE k \in s
      <4>1. Top(s) = k
        <5>1. Top(s) \in 1..k /\ Top(s) >= k
          BY <3>1, <3>2
        <5>2. QED
          BY <5>1
      <4>2. g[s \ {k}] = f[s \ {k}]
        BY <2>2
      <4>3. QED
        BY <3>2, <4>1, <4>2
    <3>3. CASE k \notin s
      <4>1. s \in SUBSET (1..(k - 1)) /\ g[s] = f[s]
        BY <2>3, <3>3
      <4>2. g[s \ {Top(s)}] = f[s \ {Top(s)}]
        BY <3>3, <4>1
      <4>3. f[s] = G[<<f[s \ {Top(s)}], Top(s)>>]
        BY <2>1, <2>6, <4>1
      <4>4. QED
        BY <4>1, <4>2, <4>3
    <3>4. QED
      BY <3>2, <3>3
  <2>7. g[{}] = b
    BY <2>1
  <2>8. Walk(g, k)
    <3> HIDE DEF g
    <3>1. QED
      BY <2>6, <2>7
  <2> HIDE DEF g, Walk
  <2>9. QED
    BY <2>5, <2>8
<1>3. n \in T
  <2> HIDE DEF T
  <2>1. QED
    BY <1>1, <1>2, UpTo
<1>4. QED
  BY <1>3 DEF IsWalk

\* What FoldLeft computes, step by step: the values it passes through.
Walks(fold, n, V, b, G) ==
  \A u \in SUBSET (1..n) :
    /\ u = {} => fold[u] = b
    /\ u # {} /\ fold[u \ {Top(u)}] \in V => fold[u] = G[<<fold[u \ {Top(u)}], Top(u)>>]

IsTrace(h, n, V, b, G) ==
  /\ h \in [0..n -> V] /\ h[0] = b
  /\ \A k \in 1..n : h[k] = G[<<h[k - 1], k>>]

LEMMA FoldTrace ==
  ASSUME NEW n, n \in Nat, NEW V, NEW b, b \in V, NEW G, Steps(G, n, V),
         NEW fold, Walks(fold, n, V, b, G)
  PROVE  \E h : IsTrace(h, n, V, b, G) /\ h[n] = fold[1..n]
<1> USE DEF Steps, Walks
<1> DEFINE h == [k \in 0..n |-> fold[1..k]]
           T == {k \in 0..n : h[k] \in V}
<1>1. h[0] = b
  <2>1. 1..0 = {} /\ {} \in SUBSET (1..n) /\ 0 \in 0..n
    OBVIOUS
  <2>2. fold[{}] = b
    BY <2>1
  <2>3. QED
    BY <2>1, <2>2
<1>2. ASSUME NEW k \in 1..n, h[k - 1] \in V
      PROVE  h[k] = G[<<h[k - 1], k>>] /\ h[k] \in V
  <2>1. Top(1..k) = k /\ (1..k) \ {k} = 1..(k - 1) /\ 1..k \in SUBSET (1..n) /\ 1..k # {}
    <3>1. k \in Nat /\ k > 0
      OBVIOUS
    <3>2. QED
      BY <3>1, TopOfInterval
  <2>2. h[k] = fold[1..k] /\ h[k - 1] = fold[1..(k - 1)]
    OBVIOUS
  <2>3. fold[1..k] = G[<<fold[1..(k - 1)], k>>]
    BY <1>2, <2>1, <2>2
  <2>4. QED
    BY <1>2, <2>2, <2>3
<1>3. \A k \in 0..n : k \in T
  <2>1. 0 \in T
    BY <1>1
  <2>2. \A k \in 1..n : k - 1 \in T => k \in T
    <3> SUFFICES ASSUME NEW k \in 1..n, k - 1 \in T PROVE k \in T
      OBVIOUS
    <3> HIDE DEF h
    <3>1. h[k] \in V
      BY <1>2
    <3>2. QED
      BY <3>1
  <2>3. n \in Nat
    OBVIOUS
  <2> HIDE DEF T
  <2>4. QED
    BY ONLY <2>1, <2>2, <2>3, UpTo
<1>4. h \in [0..n -> V]
  BY <1>3
<1>5. h[n] = fold[1..n]
  OBVIOUS
<1> HIDE DEF h
<1>6. \A k \in 1..n : h[k] = G[<<h[k - 1], k>>]
  <2>1. \A k \in 1..n : k - 1 \in 0..n
    OBVIOUS
  <2>2. QED
    BY <1>2, <1>3, <2>1
<1>7. QED
  BY <1>1, <1>4, <1>5, <1>6 DEF IsTrace

\* The same for FlattenSeq: h[k] is the concatenation of the first k of the n sequences.
IsJoin(h, n, ss, A) ==
  /\ h \in [0..n -> Seq(A)] /\ h[0] = <<>>
  /\ \A i \in 1..n : h[i] = h[i - 1] \o ss[i]

LEMMA JoinExists ==
  ASSUME NEW n \in Nat, NEW A, NEW ss \in [1..n -> Seq(A)]
  PROVE  \E h : IsJoin(h, n, ss, A)
<1> DEFINE Join(h, k) == h[0] = <<>> /\ \A i \in 1..k : h[i] = h[i - 1] \o ss[i]
           T == {k \in 0..n : \E h \in [0..k -> Seq(A)] : Join(h, k)}
<1>1. 0 \in T
  <2> DEFINE h == [i \in 0..0 |-> <<>>]
  <2>1. <<>> \in Seq(A) /\ 0 \in 0..0 /\ 1..0 = {}
    OBVIOUS
  <2>2. h \in [0..0 -> Seq(A)] /\ h[0] = <<>>
    BY <2>1
  <2>3. Join(h, 0)
    BY <2>1, <2>2
  <2> HIDE DEF h, Join
  <2>4. QED
    BY <2>2, <2>3
<1>2. ASSUME NEW k \in 1..n, k - 1 \in T PROVE k \in T
  <2>1. PICK h \in [0..(k - 1) -> Seq(A)] : Join(h, k - 1)
    BY <1>2
  <2> DEFINE e == h[k - 1] \o ss[k]
             g == [i \in 0..k |-> IF i = k THEN e ELSE h[i]]
  <2>2. e \in Seq(A)
    <3>1. h[k - 1] \in Seq(A) /\ ss[k] \in Seq(A)
      BY <2>1
    <3>2. QED
      BY <3>1
  <2> HIDE DEF e
  <2>3. g \in [0..k -> Seq(A)]
    BY <2>1, <2>2
  <2>4. g[0] = <<>>
    BY <2>1
  <2>5. ASSUME NEW i \in 1..k PROVE g[i] = g[i - 1] \o ss[i]
    <3>1. i - 1 \in 0..k /\ i \in 0..k /\ i - 1 # k
      OBVIOUS
    <3>2. g[i - 1] = h[i - 1]
      BY <3>1
    <3>3. CASE i = k
      <4>1. g[i] = e
        BY <3>3
      <4>2. QED
        BY <3>2, <3>3, <4>1 DEF e
    <3>4. CASE i # k
      <4>1. g[i] = h[i] /\ i \in 1..(k - 1)
        BY <3>1, <3>4
      <4>2. h[i] = h[i - 1] \o ss[i]
        BY <2>1, <4>1
      <4>3. QED
        BY <3>2, <4>1, <4>2
    <3>5. QED
      BY <3>3, <3>4
  <2>6. Join(g, k)
    BY <2>4, <2>5
  <2> HIDE DEF g, Join
  <2>7. QED
    BY <2>3, <2>6
<1>3. n \in T
  <2> HIDE DEF T
  <2>1. \A k \in 1..n : k - 1 \in T => k \in T
    BY <1>2
  <2>2. n \in Nat
    OBVIOUS
  <2>3. \A k \in 0..n : k \in T
    BY ONLY <1>1, <2>1, <2>2, UpTo
  <2>4. QED
    BY <2>3
<1>4. QED
  BY <1>3 DEF IsJoin

\* FlattenSeq, step by step.
Flattens(h, n, ss) ==
  /\ h[0] = <<>> /\ h[n] = FlattenSeq(ss)
  /\ \A k \in 1..n : h[k] = h[k - 1] \o ss[k]

LEMMA FlattenSteps ==
  ASSUME NEW A, NEW n \in Nat, NEW ss \in [1..n -> Seq(A)]
  PROVE  \E h : Flattens(h, n, ss)
<1> DEFINE F(f) == [i \in 1..Len(ss) |-> IF i = 1 THEN ss[i] ELSE f[i - 1] \o ss[i]]
           fold == CHOOSE f : f = F(f)
           h == [k \in 0..n |-> IF k = 0 THEN <<>> ELSE fold[k]]
<1>1. Len(ss) = n
  OBVIOUS
<1>2. n > 0 => FlattenSeq(ss) = fold[n]
  BY <1>1 DEF FlattenSeq
<1>3. PICK g \in [0..n -> Seq(A)] : g[0] = <<>> /\ \A i \in 1..n : g[i] = g[i - 1] \o ss[i]
  <2>1. \E g : IsJoin(g, n, ss, A)
    BY JoinExists
  <2>2. QED
    BY <2>1 DEF IsJoin
<1>4. \A x \in Seq(A) : <<>> \o x = x
  OBVIOUS
<1>5. [i \in 1..n |-> g[i]] = F([i \in 1..n |-> g[i]])
  <2> DEFINE f == [i \in 1..n |-> g[i]]
  <2>1. ASSUME NEW i \in 1..n
        PROVE  f[i] = IF i = 1 THEN ss[i] ELSE f[i - 1] \o ss[i]
    <3>1. f[i] = g[i - 1] \o ss[i] /\ ss[i] \in Seq(A)
      BY <1>3
    <3>2. CASE i = 1
      <4>1. g[i - 1] = <<>>
        BY <1>3, <3>2
      <4>2. QED
        BY <1>4, <3>1, <3>2, <4>1
    <3>3. CASE i # 1
      <4>1. i - 1 \in 1..n
        BY <3>3
      <4>2. f[i - 1] = g[i - 1]
        BY <4>1
      <4> HIDE DEF f
      <4>3. QED
        BY <3>1, <3>3, <4>2
    <3>4. QED
      BY <3>2, <3>3
  <2> HIDE DEF f
  <2>2. f = [i \in 1..n |-> f[i]]
    BY DEF f
  <2>3. f = [i \in 1..n |-> IF i = 1 THEN ss[i] ELSE f[i - 1] \o ss[i]]
    BY <2>1, <2>2
  <2>4. QED
    BY <1>1, <2>3 DEF f
<1>6. fold = F(fold)
  <2> HIDE DEF F
  <2>1. QED
    BY <1>5
<1>7. \A i \in 1..n : fold[i] = IF i = 1 THEN ss[i] ELSE fold[i - 1] \o ss[i]
  <2> HIDE DEF fold
  <2>1. QED
    BY <1>1, <1>6
<1> HIDE DEF fold, F
<1>8. \A k \in 1..n : h[k] = h[k - 1] \o ss[k]
  <2> SUFFICES ASSUME NEW k \in 1..n PROVE h[k] = h[k - 1] \o ss[k]
    OBVIOUS
  <2>1. ss[k] \in Seq(A) /\ k - 1 \in 0..n /\ h[k] = fold[k]
    OBVIOUS
  <2>2. CASE k = 1
    <3>1. h[k - 1] = <<>>
      BY <2>2
    <3>2. QED
      BY <1>4, <1>7, <2>1, <2>2, <3>1
  <2>3. CASE k # 1
    <3>1. h[k - 1] = fold[k - 1]
      BY <2>1, <2>3
    <3> HIDE DEF h
    <3>2. QED
      BY <1>7, <2>1, <2>3, <3>1
  <2>4. QED
    BY <2>2, <2>3
<1>9. h[0] = <<>>
  OBVIOUS
<1>10. h[n] = FlattenSeq(ss)
  <2>1. CASE n = 0
    <3>1. ss = <<>>
      BY <2>1
    <3>2. FlattenSeq(ss) = <<>>
      BY <1>1, <2>1, <3>1 DEF FlattenSeq
    <3>3. QED
      BY <1>9, <2>1, <3>2
  <2>2. CASE n # 0
    BY <1>2, <2>2
  <2>3. QED
    BY <2>1, <2>2
<1> HIDE DEF h
<1>11. QED
  BY <1>8, <1>9, <1>10 DEF Flattens
=============================================================================
