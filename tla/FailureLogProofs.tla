--------------------------- MODULE FailureLogProofs ---------------------------
(***************************************************************************)
(* Theorems of FailureLog, for every set of callers and stages, every      *)
(* finite set of reasons and every bound on the failures.                  *)
(*                                                                         *)
(* What a reader knows after some of the unwritten lines is a fold over    *)
(* them; SumTrace and OpenTrace tie these folds to the values they pass    *)
(* through (FoldTrace of Sums), from which follows what one more line at   *)
(* the end, or one less at the front, does to them.  The lines of a flush  *)
(* are then followed reason by reason, in the order flushAt visits them.   *)
(***************************************************************************)
EXTENDS FailureLog, Sums

PendingOf(r) == {x \in Callers : outcome[x] = r}

\* What callers have still to report stays within the bound of the model.
PendingInv ==
  \A r \in Reasons : /\ IsFiniteSet(PendingOf(r))
                     /\ total[r] + Cardinality(PendingOf(r)) <= MaxFailures

OutboxInv == outbox \in Seq(Line) /\ (at # "write" => outbox = <<>>)

ReportedInv == \A r \in Reasons : reported[r] => total[r] > 0

ConfirmedInv ==
  \A r \in Reasons : recoveredTotal[r] = total[r] /\ total[r] > 0 => confirmed[r]

-----------------------------------------------------------------------------
(* The folds of the properties over a sequence s of lines. *)

SumOf(r, s) == FoldLeft(LAMBDA sum, l : IF l.reason = r THEN sum + l.count ELSE sum, 0, s)

OpenOf(r, o, s) ==
  FoldLeft(LAMBDA open, l : IF l.reason = r THEN l.event # "recovered" ELSE open, o, s)

\* A line tells the total so far, and opens, continues or closes the outage of its reason
\* in turn, for a reader who knew what w says, and has read the lines before it, upto with it.
Tells(l, w, before, upto) ==
  /\ l.total = w[l.reason].sum + SumOf(l.reason, upto)
  /\ OpenOf(l.reason, w[l.reason].open, before) = (l.event # "first_failure")

Ordered(s, w) ==
  \A i \in 1..Len(s) : Tells(s[i], w, SubSeq(s, 1, i - 1), SubSeq(s, 1, i))

\* CountsAddUp and LogAlternates, said with these folds.
BalancedInv ==
  \A r \in Reasons : /\ total[r] = counts[r] + (written[r].sum + SumOf(r, outbox))
                     /\ reported[r] = OpenOf(r, written[r].open, outbox)

OrderedInv == Ordered(outbox, written)

IInv ==
  /\ TypeOK /\ PendingInv /\ OutboxInv /\ ReportedInv /\ ConfirmedInv
  /\ BalancedInv /\ OrderedInv

LEMMA LineFields ==
  ASSUME NEW l \in Line
  PROVE  /\ l.reason \in Reasons /\ l.count \in 0..MaxFailures /\ l.total \in 1..MaxFailures
         /\ l.event \in {"first_failure", "recovered", "failure_summary"}
         /\ l.event # "recovered" => l.count > 0
BY DEF Line

\* h goes through the values of the fold over the n lines of s.
SumSteps(h, n, s, r) ==
  /\ h \in [0..n -> Nat]
  /\ h[0] = 0 /\ h[n] = SumOf(r, s)
  /\ \A k \in 1..n : h[k] = IF s[k].reason = r THEN h[k - 1] + s[k].count ELSE h[k - 1]

OpenSteps(h, n, s, r, o) ==
  /\ h \in [0..n -> BOOLEAN]
  /\ h[0] = o /\ h[n] = OpenOf(r, o, s)
  /\ \A k \in 1..n : h[k] = IF s[k].reason = r THEN s[k].event # "recovered" ELSE h[k - 1]

LEMMA SumTrace ==
  ASSUME NEW s \in Seq(Line), NEW r, NEW n, Len(s) = n
  PROVE  \E h : SumSteps(h, n, s, r)
<1> DEFINE D == DOMAIN s
           F(f) == [u \in SUBSET D |->
                      IF u = {} THEN 0
                      ELSE IF s[Top(u)].reason = r THEN f[u \ {Top(u)}] + s[Top(u)].count
                                                   ELSE f[u \ {Top(u)}]]
           fold == CHOOSE f : f = F(f)
           G == [p \in Nat \X (1..n) |->
                   IF s[p[2]].reason = r THEN p[1] + s[p[2]].count ELSE p[1]]
<1>1. SumOf(r, s) = fold[D]
  BY DEF SumOf, FoldLeft, MapThenFoldSet, Top, Max
<1>2. n \in Nat /\ D = 1..n /\ \A k \in 1..n : s[k] \in Line /\ s[k].count \in Nat
  BY FailureLogAssumption, LineFields DEF FailureLogAssumption
<1>3. Steps(G, n, Nat)
  BY <1>2 DEF Steps
<1>4. PICK f : IsWalk(f, n, Nat, 0, G)
  <2> DEFINE V == Nat
             b == 0
  <2>1. n \in Nat /\ b \in V /\ Steps(G, n, V)
    BY <1>2, <1>3
  <2> HIDE DEF G, V, b
  <2>2. \E f : IsWalk(f, n, V, b, G)
    BY ONLY <2>1, WalkExists
  <2>3. QED
    BY <2>2 DEF V, b
<1>5. \A u \in SUBSET D : u # {} => Top(u) \in 1..n /\ u \ {Top(u)} \in SUBSET D
  <2> HIDE DEF D
  <2>1. QED
    BY <1>2, TopIsGreatest
<1>6. f = F(f)
  <2>1. \A u \in SUBSET D : u # {} =>
          G[<<f[u \ {Top(u)}], Top(u)>>] =
            IF s[Top(u)].reason = r THEN f[u \ {Top(u)}] + s[Top(u)].count
                                    ELSE f[u \ {Top(u)}]
    BY <1>2, <1>4, <1>5 DEF IsWalk
  <2> HIDE DEF G, D
  <2>2. QED
    BY <1>2, <1>4, <2>1 DEF IsWalk
<1>7. fold = F(fold)
  <2> HIDE DEF F
  <2>1. QED
    BY <1>6
<1>8. \A u \in SUBSET D : fold[u] =
        IF u = {} THEN 0
        ELSE IF s[Top(u)].reason = r THEN fold[u \ {Top(u)}] + s[Top(u)].count
                                     ELSE fold[u \ {Top(u)}]
  <2> HIDE DEF fold, D
  <2>1. QED
    BY <1>7
<1> HIDE DEF fold, F, D
<1>9. Walks(fold, n, Nat, 0, G)
  BY <1>2, <1>5, <1>8 DEF Walks
<1>10. PICK h : IsTrace(h, n, Nat, 0, G) /\ h[n] = fold[1..n]
  <2> DEFINE V == Nat
             b == 0
  <2>1. n \in Nat /\ b \in V /\ Steps(G, n, V) /\ Walks(fold, n, V, b, G)
    BY <1>2, <1>3, <1>9
  <2> HIDE DEF G, V, b
  <2>2. \E h : IsTrace(h, n, V, b, G) /\ h[n] = fold[1..n]
    BY ONLY <2>1, FoldTrace
  <2>3. QED
    BY <2>2 DEF V, b
<1>11. \A k \in 1..n : h[k] = IF s[k].reason = r THEN h[k - 1] + s[k].count ELSE h[k - 1]
  <2> SUFFICES ASSUME NEW k \in 1..n
               PROVE  h[k] = IF s[k].reason = r THEN h[k - 1] + s[k].count ELSE h[k - 1]
    OBVIOUS
  <2>1. h[k] = G[<<h[k - 1], k>>] /\ h[k - 1] \in Nat
    <3> HIDE DEF G
    <3>1. k - 1 \in 0..n
      BY <1>2
    <3>2. QED
      BY <1>10, <3>1 DEF IsTrace
  <2>2. QED
    BY <1>2, <2>1
<1>12. QED
  BY <1>1, <1>2, <1>10, <1>11 DEF IsTrace, SumSteps

LEMMA OpenTrace ==
  ASSUME NEW s \in Seq(Line), NEW r, NEW o \in BOOLEAN, NEW n, Len(s) = n
  PROVE  \E h : OpenSteps(h, n, s, r, o)
<1> DEFINE D == DOMAIN s
           F(f) == [u \in SUBSET D |->
                      IF u = {} THEN o
                      ELSE IF s[Top(u)].reason = r THEN s[Top(u)].event # "recovered"
                                                   ELSE f[u \ {Top(u)}]]
           fold == CHOOSE f : f = F(f)
           G == [p \in BOOLEAN \X (1..n) |->
                   IF s[p[2]].reason = r THEN s[p[2]].event # "recovered" ELSE p[1]]
<1>1. OpenOf(r, o, s) = fold[D]
  BY DEF OpenOf, FoldLeft, MapThenFoldSet, Top, Max
<1>2. n \in Nat /\ D = 1..n
  OBVIOUS
<1>3. Steps(G, n, BOOLEAN)
  BY DEF Steps
<1>4. PICK f : IsWalk(f, n, BOOLEAN, o, G)
  <2> DEFINE V == BOOLEAN
             b == o
  <2>1. n \in Nat /\ b \in V /\ Steps(G, n, V)
    BY <1>2, <1>3
  <2> HIDE DEF G, V, b
  <2>2. \E f : IsWalk(f, n, V, b, G)
    BY ONLY <2>1, WalkExists
  <2>3. QED
    BY <2>2 DEF V, b
<1>5. \A u \in SUBSET D : u # {} => Top(u) \in 1..n /\ u \ {Top(u)} \in SUBSET D
  <2> HIDE DEF D
  <2>1. QED
    BY <1>2, TopIsGreatest
<1>6. f = F(f)
  <2>1. \A u \in SUBSET D : u # {} =>
          G[<<f[u \ {Top(u)}], Top(u)>>] =
            IF s[Top(u)].reason = r THEN s[Top(u)].event # "recovered"
                                    ELSE f[u \ {Top(u)}]
    BY <1>2, <1>4, <1>5 DEF IsWalk
  <2> HIDE DEF G, D
  <2>2. QED
    BY <1>2, <1>4, <2>1 DEF IsWalk
<1>7. fold = F(fold)
  <2> HIDE DEF F
  <2>1. QED
    BY <1>6
<1>8. \A u \in SUBSET D : fold[u] =
        IF u = {} THEN o
        ELSE IF s[Top(u)].reason = r THEN s[Top(u)].event # "recovered"
                                     ELSE fold[u \ {Top(u)}]
  <2> HIDE DEF fold, D
  <2>1. QED
    BY <1>7
<1> HIDE DEF fold, F, D
<1>9. Walks(fold, n, BOOLEAN, o, G)
  BY <1>2, <1>5, <1>8 DEF Walks
<1>10. PICK h : IsTrace(h, n, BOOLEAN, o, G) /\ h[n] = fold[1..n]
  <2> DEFINE V == BOOLEAN
             b == o
  <2>1. n \in Nat /\ b \in V /\ Steps(G, n, V) /\ Walks(fold, n, V, b, G)
    BY <1>2, <1>3, <1>9
  <2> HIDE DEF G, V, b
  <2>2. \E h : IsTrace(h, n, V, b, G) /\ h[n] = fold[1..n]
    BY ONLY <2>1, FoldTrace
  <2>3. QED
    BY <2>2 DEF V, b
<1>11. \A k \in 1..n : h[k] = IF s[k].reason = r THEN s[k].event # "recovered" ELSE h[k - 1]
  <2> SUFFICES ASSUME NEW k \in 1..n
               PROVE  h[k] = IF s[k].reason = r THEN s[k].event # "recovered" ELSE h[k - 1]
    OBVIOUS
  <2>1. h[k] = G[<<h[k - 1], k>>] /\ h[k - 1] \in BOOLEAN
    <3> HIDE DEF G
    <3>1. k - 1 \in 0..n
      BY <1>2
    <3>2. QED
      BY <1>10, <3>1 DEF IsTrace
  <2>2. QED
    BY <1>2, <2>1
<1>12. QED
  BY <1>1, <1>2, <1>10, <1>11 DEF IsTrace, OpenSteps

\* The two folds over no line, one more line, and one less at the front.
LEMMA SumType ==
  ASSUME NEW s \in Seq(Line), NEW r
  PROVE  SumOf(r, s) \in Nat
<1>1. PICK h : SumSteps(h, Len(s), s, r)
  BY SumTrace
<1>2. Len(s) \in Nat
  OBVIOUS
<1>3. QED
  BY <1>1, <1>2 DEF SumSteps

LEMMA OpenType ==
  ASSUME NEW s \in Seq(Line), NEW r, NEW o \in BOOLEAN
  PROVE  OpenOf(r, o, s) \in BOOLEAN
<1>1. PICK h : OpenSteps(h, Len(s), s, r, o)
  BY OpenTrace
<1>2. Len(s) \in Nat
  OBVIOUS
<1>3. QED
  BY <1>1, <1>2 DEF OpenSteps

LEMMA FoldsEmpty ==
  ASSUME NEW r, NEW o \in BOOLEAN
  PROVE  SumOf(r, <<>>) = 0 /\ OpenOf(r, o, <<>>) = o
<1>1. <<>> \in Seq(Line) /\ Len(<<>>) = 0
  OBVIOUS
<1>2. (\E h : SumSteps(h, 0, <<>>, r)) /\ \E h : OpenSteps(h, 0, <<>>, r, o)
  BY <1>1, SumTrace, OpenTrace
<1>3. QED
  BY <1>2 DEF SumSteps, OpenSteps

LEMMA AppendFields ==
  ASSUME NEW s \in Seq(Line), NEW l \in Line
  PROVE  /\ Append(s, l) \in Seq(Line) /\ Len(Append(s, l)) = Len(s) + 1
         /\ Append(s, l)[Len(s) + 1] = l
         /\ \A k \in 1..Len(s) : Append(s, l)[k] = s[k]
OBVIOUS

LEMMA SumAppend ==
  ASSUME NEW s \in Seq(Line), NEW l \in Line, NEW r
  PROVE  SumOf(r, Append(s, l)) =
           IF l.reason = r THEN SumOf(r, s) + l.count ELSE SumOf(r, s)
<1> DEFINE a == Append(s, l)
           n == Len(s)
<1>1. a \in Seq(Line) /\ Len(a) = n + 1 /\ n \in Nat
      /\ a[n + 1] = l /\ \A k \in 1..n : a[k] = s[k]
  BY AppendFields
<1>2. PICK h : SumSteps(h, n, s, r)
  BY SumTrace
<1> HIDE DEF a
<1>3. PICK g : SumSteps(g, Len(a), a, r)
  BY <1>1, SumTrace
<1> HIDE DEF n
<1> USE DEF SumSteps
<1> DEFINE T == {k \in 0..n : g[k] = h[k]}
<1>4. 0 \in T
  BY <1>1, <1>2, <1>3
<1>5. ASSUME NEW k \in 1..n, k - 1 \in T PROVE k \in T
  <2>1. k \in 1..Len(a) /\ a[k] = s[k] /\ k \in 0..n
    BY <1>1
  <2>2. g[k - 1] = h[k - 1]
    BY <1>5
  <2>3. g[k] = h[k]
    BY <1>2, <1>3, <2>1, <2>2
  <2>4. QED
    BY <2>1, <2>3
<1>6. n \in T
  <2> HIDE DEF T
  <2>1. \A k \in 0..n : k \in T
    BY ONLY <1>1, <1>4, <1>5, UpTo
  <2>2. QED
    BY <1>1, <2>1
<1>7. g[n] = SumOf(r, s)
  BY <1>2, <1>6
<1>8. n + 1 \in 1..Len(a) /\ n + 1 - 1 = n
  BY <1>1
<1>9. SumOf(r, a) = IF l.reason = r THEN g[n] + l.count ELSE g[n]
  BY <1>1, <1>3, <1>8
<1>10. QED
  BY <1>7, <1>9 DEF a

LEMMA OpenAppend ==
  ASSUME NEW s \in Seq(Line), NEW l \in Line, NEW r, NEW o \in BOOLEAN
  PROVE  OpenOf(r, o, Append(s, l)) =
           IF l.reason = r THEN l.event # "recovered" ELSE OpenOf(r, o, s)
<1> DEFINE a == Append(s, l)
           n == Len(s)
<1>1. a \in Seq(Line) /\ Len(a) = n + 1 /\ n \in Nat
      /\ a[n + 1] = l /\ \A k \in 1..n : a[k] = s[k]
  BY AppendFields
<1>2. PICK h : OpenSteps(h, n, s, r, o)
  BY OpenTrace
<1> HIDE DEF a
<1>3. PICK g : OpenSteps(g, Len(a), a, r, o)
  BY <1>1, <1>2, OpenTrace
<1> HIDE DEF n
<1> USE DEF OpenSteps
<1> DEFINE T == {k \in 0..n : g[k] = h[k]}
<1>4. 0 \in T
  BY <1>1, <1>2, <1>3
<1>5. ASSUME NEW k \in 1..n, k - 1 \in T PROVE k \in T
  <2>1. k \in 1..Len(a) /\ a[k] = s[k] /\ k \in 0..n
    BY <1>1
  <2>2. g[k - 1] = h[k - 1]
    BY <1>5
  <2>3. g[k] = h[k]
    BY <1>2, <1>3, <2>1, <2>2
  <2>4. QED
    BY <2>1, <2>3
<1>6. n \in T
  <2> HIDE DEF T
  <2>1. \A k \in 0..n : k \in T
    BY ONLY <1>1, <1>4, <1>5, UpTo
  <2>2. QED
    BY <1>1, <2>1
<1>7. g[n] = OpenOf(r, o, s)
  BY <1>2, <1>6
<1>8. n + 1 \in 1..Len(a) /\ n + 1 - 1 = n
  BY <1>1
<1>9. OpenOf(r, o, a) = IF l.reason = r THEN l.event # "recovered" ELSE g[n]
  BY <1>1, <1>3, <1>8
<1>10. QED
  BY <1>7, <1>9 DEF a

LEMMA TailFields ==
  ASSUME NEW s \in Seq(Line), s # <<>>
  PROVE  /\ Tail(s) \in Seq(Line) /\ Len(Tail(s)) = Len(s) - 1 /\ Len(s) - 1 \in Nat
         /\ Head(s) = s[1] /\ Head(s) \in Line
         /\ \A k \in 1..(Len(s) - 1) : Tail(s)[k] = s[k + 1]
OBVIOUS

LEMMA SumTail ==
  ASSUME NEW s \in Seq(Line), s # <<>>, NEW r
  PROVE  SumOf(r, s) =
           IF Head(s).reason = r THEN Head(s).count + SumOf(r, Tail(s)) ELSE SumOf(r, Tail(s))
<1> DEFINE t == Tail(s)
           n == Len(s) - 1
           c == IF Head(s).reason = r THEN Head(s).count ELSE 0
<1>1. /\ t \in Seq(Line) /\ Len(t) = n /\ n \in Nat /\ Len(s) = n + 1
      /\ Head(s) = s[1] /\ Head(s) \in Line /\ \A k \in 1..n : t[k] = s[k + 1]
  BY TailFields
<1>2. c \in Nat /\ MaxFailures \in Nat
  BY <1>1, LineFields, FailureLogAssumption DEF FailureLogAssumption
<1>3. PICK g : SumSteps(g, n + 1, s, r)
  <2> HIDE DEF n
  <2>1. QED
    BY <1>1, SumTrace
<1> HIDE DEF t, n
<1>4. PICK h : SumSteps(h, n, t, r)
  BY <1>1, SumTrace
<1> USE DEF SumSteps
<1> DEFINE T == {k \in 0..n : g[k + 1] = c + h[k]}
<1>5. 0 \in T
  <2>1. 1 \in 1..(n + 1) /\ 1 - 1 = 0 /\ 0 + 1 = 1 /\ 0 \in 0..n
    BY <1>1
  <2>2. g[1] = IF s[1].reason = r THEN g[0] + s[1].count ELSE g[0]
    BY <1>3, <2>1
  <2>3. g[1] = c + 0
    BY <1>1, <1>2, <1>3, <2>2
  <2> HIDE DEF c
  <2>4. QED
    BY <1>4, <2>1, <2>3
<1>6. ASSUME NEW k \in 1..n, k - 1 \in T PROVE k \in T
  <2>1. k \in Nat /\ k + 1 \in 1..(n + 1) /\ t[k] = s[k + 1] /\ k \in 0..n /\ k - 1 \in 0..n
        /\ k + 1 - 1 = k /\ k - 1 + 1 = k
    BY <1>1
  <2>2. g[k] = c + h[k - 1] /\ h[k - 1] \in Nat
    BY <1>4, <1>6, <2>1
  <2>3. g[k + 1] = IF t[k].reason = r THEN g[k] + t[k].count ELSE g[k]
    BY <1>3, <2>1
  <2>4. h[k] = IF t[k].reason = r THEN h[k - 1] + t[k].count ELSE h[k - 1]
    BY <1>4
  <2>5. t[k].count \in Nat
    <3>1. t[k] \in Line
      BY <1>1
    <3>2. QED
      BY <1>2, <3>1, LineFields
  <2> HIDE DEF c
  <2>6. g[k + 1] = c + h[k]
    BY <1>2, <2>2, <2>3, <2>4, <2>5
  <2>7. QED
    BY <2>1, <2>6
<1>7. n \in T
  <2> HIDE DEF T
  <2>1. \A k \in 0..n : k \in T
    BY ONLY <1>1, <1>5, <1>6, UpTo
  <2>2. QED
    BY <1>1, <2>1
<1>8. SumOf(r, s) = c + SumOf(r, t) /\ SumOf(r, t) \in Nat
  BY <1>1, <1>3, <1>4, <1>7
<1>9. QED
  BY <1>8 DEF t

LEMMA OpenTail ==
  ASSUME NEW s \in Seq(Line), s # <<>>, NEW r, NEW o \in BOOLEAN
  PROVE  OpenOf(r, o, s) =
           OpenOf(r, IF Head(s).reason = r THEN Head(s).event # "recovered" ELSE o, Tail(s))
<1> DEFINE t == Tail(s)
           n == Len(s) - 1
           c == IF Head(s).reason = r THEN Head(s).event # "recovered" ELSE o
<1>1. /\ t \in Seq(Line) /\ Len(t) = n /\ n \in Nat /\ Len(s) = n + 1
      /\ Head(s) = s[1] /\ \A k \in 1..n : t[k] = s[k + 1]
  BY TailFields
<1>2. c \in BOOLEAN
  OBVIOUS
<1>3. PICK g : OpenSteps(g, n + 1, s, r, o)
  <2> HIDE DEF n
  <2>1. QED
    BY <1>1, OpenTrace
<1> HIDE DEF t, n
<1>4. PICK h : OpenSteps(h, n, t, r, c)
  <2> HIDE DEF c
  <2>1. QED
    BY <1>1, <1>2, OpenTrace
<1> USE DEF OpenSteps
<1> DEFINE T == {k \in 0..n : g[k + 1] = h[k]}
<1>5. 0 \in T
  <2>1. 1 \in 1..(n + 1) /\ 1 - 1 = 0 /\ 0 + 1 = 1 /\ 0 \in 0..n
    BY <1>1
  <2>2. g[1] = IF s[1].reason = r THEN s[1].event # "recovered" ELSE g[0]
    BY <1>3, <2>1
  <2>3. g[1] = c
    BY <1>1, <1>3, <2>2
  <2> HIDE DEF c
  <2>4. QED
    BY <1>4, <2>1, <2>3
<1>6. ASSUME NEW k \in 1..n, k - 1 \in T PROVE k \in T
  <2>1. k \in Nat /\ k + 1 \in 1..(n + 1) /\ t[k] = s[k + 1] /\ k \in 0..n /\ k - 1 \in 0..n
        /\ k + 1 - 1 = k /\ k - 1 + 1 = k
    BY <1>1
  <2>2. g[k] = h[k - 1]
    BY <1>6, <2>1
  <2>3. g[k + 1] = IF t[k].reason = r THEN t[k].event # "recovered" ELSE g[k]
    BY <1>3, <2>1
  <2>4. h[k] = IF t[k].reason = r THEN t[k].event # "recovered" ELSE h[k - 1]
    BY <1>4
  <2>5. g[k + 1] = h[k]
    BY <2>2, <2>3, <2>4
  <2>6. QED
    BY <2>1, <2>5
<1>7. n \in T
  <2> HIDE DEF T
  <2>1. \A k \in 0..n : k \in T
    BY ONLY <1>1, <1>5, <1>6, UpTo
  <2>2. QED
    BY <1>1, <2>1
<1>8. OpenOf(r, o, s) = OpenOf(r, c, t)
  BY <1>1, <1>3, <1>4, <1>7
<1>9. QED
  BY <1>8 DEF t

-----------------------------------------------------------------------------
(* Ordered sequences: one more line, one less. *)

LEMMA PrefixFields ==
  ASSUME NEW s \in Seq(Line)
  PROVE  /\ SubSeq(s, 1, Len(s)) = s /\ SubSeq(s, 1, 0) = <<>>
         /\ \A i \in 0..Len(s) : SubSeq(s, 1, i) \in Seq(Line)
<1>1. SubSeq(s, 1, Len(s)) = s /\ SubSeq(s, 1, 0) = <<>>
  OBVIOUS
<1>2. ASSUME NEW i \in 0..Len(s) PROVE SubSeq(s, 1, i) \in Seq(Line)
  OBVIOUS
<1>3. QED
  BY <1>1, <1>2

LEMMA PrefixOfAppend ==
  ASSUME NEW s \in Seq(Line), NEW l \in Line, NEW i \in 0..Len(s)
  PROVE  SubSeq(Append(s, l), 1, i) = SubSeq(s, 1, i)
OBVIOUS

LEMMA PrefixOfTail ==
  ASSUME NEW s \in Seq(Line), s # <<>>, NEW i \in 0..(Len(s) - 1)
  PROVE  /\ SubSeq(s, 1, i + 1) \in Seq(Line) /\ SubSeq(s, 1, i + 1) # <<>>
         /\ Head(SubSeq(s, 1, i + 1)) = Head(s)
         /\ Tail(SubSeq(s, 1, i + 1)) = SubSeq(Tail(s), 1, i)
<1> DEFINE p == SubSeq(s, 1, i + 1)
           q == SubSeq(Tail(s), 1, i)
<1>1. /\ p \in Seq(Line) /\ Len(p) = i + 1 /\ i \in Nat
      /\ \A k \in 1..(i + 1) : p[k] = s[k]
  OBVIOUS
<1>2. /\ Tail(s) \in Seq(Line) /\ Len(Tail(s)) = Len(s) - 1
      /\ \A k \in 1..(Len(s) - 1) : Tail(s)[k] = s[k + 1]
  OBVIOUS
<1>3. /\ q \in Seq(Line) /\ Len(q) = i
      /\ \A k \in 1..i : q[k] = s[k + 1]
  BY <1>2
<1>4. p # <<>> /\ Head(p) = p[1] /\ Tail(p) \in Seq(Line) /\ Len(Tail(p)) = i
      /\ \A k \in 1..i : Tail(p)[k] = p[k + 1]
  <2> HIDE DEF p
  <2>1. QED
    BY <1>1
<1>5. Head(p) = Head(s)
  BY <1>1, <1>4
<1>6. \A k \in 1..i : Tail(p)[k] = q[k]
  BY <1>1, <1>3, <1>4
<1> HIDE DEF p, q
<1>7. Tail(p) = q
  BY <1>3, <1>4, <1>6, SeqEqual
<1>8. QED
  BY <1>1, <1>4, <1>5, <1>7 DEF p, q

LEMMA OrderedAppend ==
  ASSUME NEW s \in Seq(Line), NEW l \in Line, NEW w, Ordered(s, w),
         l.total = w[l.reason].sum + (SumOf(l.reason, s) + l.count),
         OpenOf(l.reason, w[l.reason].open, s) = (l.event # "first_failure")
  PROVE  Ordered(Append(s, l), w)
<1> DEFINE a == Append(s, l)
           n == Len(s)
<1>1. a \in Seq(Line) /\ Len(a) = n + 1 /\ n \in Nat
      /\ a[n + 1] = l /\ \A k \in 1..n : a[k] = s[k]
  BY AppendFields
<1>2. /\ \A i \in 0..n : SubSeq(a, 1, i) = SubSeq(s, 1, i)
      /\ SubSeq(s, 1, n) = s
  BY PrefixOfAppend, PrefixFields
<1>3. SubSeq(a, 1, n + 1) = a
  <2> HIDE DEF a
  <2>1. QED
    BY <1>1, PrefixFields
<1>4. SumOf(l.reason, a) = SumOf(l.reason, s) + l.count
  BY SumAppend
<1> HIDE DEF a, n
<1>5. ASSUME NEW i \in 1..n PROVE Tells(a[i], w, SubSeq(a, 1, i - 1), SubSeq(a, 1, i))
  <2>1. a[i] = s[i] /\ i \in 0..n /\ i - 1 \in 0..n
    BY <1>1
  <2>2. SubSeq(a, 1, i) = SubSeq(s, 1, i) /\ SubSeq(a, 1, i - 1) = SubSeq(s, 1, i - 1)
    BY <1>2, <2>1
  <2>3. Tells(s[i], w, SubSeq(s, 1, i - 1), SubSeq(s, 1, i))
    BY DEF Ordered, n
  <2>4. QED
    BY <2>1, <2>2, <2>3
<1>6. Tells(a[n + 1], w, SubSeq(a, 1, n + 1 - 1), SubSeq(a, 1, n + 1))
  <2>1. n + 1 - 1 = n /\ n \in 0..n
    BY <1>1
  <2>2. SubSeq(a, 1, n + 1 - 1) = s
    BY <1>2, <2>1
  <2>3. Tells(l, w, s, a)
    BY <1>4 DEF Tells
  <2>4. QED
    BY <1>1, <1>3, <2>2, <2>3
<1>7. ASSUME NEW i \in 1..Len(a) PROVE Tells(a[i], w, SubSeq(a, 1, i - 1), SubSeq(a, 1, i))
  <2>1. i \in 1..n \/ i = n + 1
    BY <1>1
  <2>2. CASE i = n + 1
    BY <1>1, <1>6, <2>2
  <2>3. QED
    BY <1>5, <2>1, <2>2
<1>8. QED
  BY <1>7 DEF Ordered, a

\* w is what a reader knows who knew written and reads one more line.
Advanced(w, line) ==
  w = [written EXCEPT ![line.reason] = [sum |-> @.sum + line.count,
                                        open |-> line.event # "recovered"]]

\* Who read the first line of s knows as much with the rest as before with all of s.
Carried(w, s) ==
  /\ Ordered(Tail(s), w)
  /\ \A r \in Reasons :
       /\ w[r].sum \in Nat /\ w[r].open \in BOOLEAN
       /\ w[r].sum + SumOf(r, Tail(s)) = written[r].sum + SumOf(r, s)
       /\ OpenOf(r, w[r].open, Tail(s)) = OpenOf(r, written[r].open, s)

\* Who has read the first line knows enough to follow the others.
LEMMA OrderedTail ==
  ASSUME NEW s \in Seq(Line), s # <<>>, Ordered(s, written), TypeOK,
         NEW w, Advanced(w, Head(s))
  PROVE  Carried(w, s)
<1> DEFINE l == Head(s)
           t == Tail(s)
           n == Len(s) - 1
<1>1. /\ t \in Seq(Line) /\ Len(t) = n /\ n \in Nat /\ Len(s) = n + 1
      /\ l \in Line /\ \A k \in 1..n : t[k] = s[k + 1]
  BY TailFields
<1>2. /\ l.reason \in Reasons /\ l.count \in Nat
      /\ \A r \in Reasons : written[r].sum \in Nat /\ written[r].open \in BOOLEAN
  BY <1>1, LineFields, FailureLogAssumption DEF FailureLogAssumption, TypeOK, Written
<1>3. /\ w[l.reason].sum = written[l.reason].sum + l.count
      /\ w[l.reason].open = (l.event # "recovered")
      /\ \A r \in Reasons \ {l.reason} : w[r] = written[r]
  BY <1>2 DEF TypeOK, Advanced
<1>4. ASSUME NEW r \in Reasons
      PROVE  w[r].sum \in Nat /\ w[r].open \in BOOLEAN
  <2>1. CASE r = l.reason
    <3>1. w[r].sum \in Nat
      BY <1>2, <1>3, <2>1
    <3>2. (l.event # "recovered") \in BOOLEAN
      OBVIOUS
    <3>3. QED
      BY <1>3, <2>1, <3>1, <3>2
  <2>2. CASE r # l.reason
    BY <1>2, <1>3, <2>2
  <2>3. QED
    BY <2>1, <2>2
<1> HIDE DEF l, t, n
<1>5. ASSUME NEW r \in Reasons, NEW p \in Seq(Line), p # <<>>, Head(p) = l
      PROVE  /\ w[r].sum + SumOf(r, Tail(p)) = written[r].sum + SumOf(r, p)
             /\ OpenOf(r, w[r].open, Tail(p)) = OpenOf(r, written[r].open, p)
  <2>1. /\ SumOf(r, p) = IF l.reason = r THEN l.count + SumOf(r, Tail(p)) ELSE SumOf(r, Tail(p))
        /\ Tail(p) \in Seq(Line)
    BY <1>5, SumTail, TailFields
  <2>2. SumOf(r, Tail(p)) \in Nat
    BY <2>1, SumType
  <2>3. written[r].open \in BOOLEAN
    BY <1>2
  <2>4. OpenOf(r, written[r].open, p) =
          OpenOf(r, IF l.reason = r THEN l.event # "recovered" ELSE written[r].open, Tail(p))
    BY <1>5, <2>3, OpenTail
  <2>5. CASE l.reason = r
    BY <1>2, <1>3, <2>1, <2>2, <2>4, <2>5
  <2>6. CASE l.reason # r
    BY <1>2, <1>3, <2>1, <2>2, <2>4, <2>6
  <2>7. QED
    BY <2>5, <2>6
<1>6. ASSUME NEW i \in 1..n
      PROVE  Tells(t[i], w, SubSeq(t, 1, i - 1), SubSeq(t, 1, i))
  <2> DEFINE r == t[i].reason
  <2>1. /\ i + 1 \in 1..Len(s) /\ t[i] = s[i + 1] /\ i + 1 - 1 = i /\ i - 1 + 1 = i
        /\ i \in 0..n /\ i - 1 \in 0..n /\ n = Len(s) - 1
    BY <1>1
  <2>2. Tells(s[i + 1], written, SubSeq(s, 1, i + 1 - 1), SubSeq(s, 1, i + 1))
    BY <2>1 DEF Ordered
  <2>3. t[i].total = written[r].sum + SumOf(r, SubSeq(s, 1, i + 1))
        /\ OpenOf(r, written[r].open, SubSeq(s, 1, i)) = (t[i].event # "first_failure")
    BY <2>1, <2>2 DEF Tells
  <2>4. r \in Reasons
    <3>1. t[i] \in Line
      BY <1>1
    <3>2. QED
      BY <3>1, LineFields
  <2>5. /\ SubSeq(s, 1, i + 1) \in Seq(Line) /\ SubSeq(s, 1, i + 1) # <<>>
        /\ Head(SubSeq(s, 1, i + 1)) = l /\ Tail(SubSeq(s, 1, i + 1)) = SubSeq(t, 1, i)
    BY <2>1, PrefixOfTail DEF l, t
  <2>6. /\ SubSeq(s, 1, i) \in Seq(Line) /\ SubSeq(s, 1, i) # <<>>
        /\ Head(SubSeq(s, 1, i)) = l /\ Tail(SubSeq(s, 1, i)) = SubSeq(t, 1, i - 1)
    <3> DEFINE j == i - 1
    <3>1. j \in 0..(Len(s) - 1) /\ j + 1 = i
      BY <2>1
    <3> HIDE DEF j
    <3>2. /\ SubSeq(s, 1, j + 1) \in Seq(Line) /\ SubSeq(s, 1, j + 1) # <<>>
          /\ Head(SubSeq(s, 1, j + 1)) = Head(s)
          /\ Tail(SubSeq(s, 1, j + 1)) = SubSeq(Tail(s), 1, j)
      BY <3>1, PrefixOfTail
    <3>3. QED
      BY <3>1, <3>2 DEF l, t, j
  <2> HIDE DEF r
  <2>7. w[r].sum + SumOf(r, SubSeq(t, 1, i)) = written[r].sum + SumOf(r, SubSeq(s, 1, i + 1))
    BY <1>5, <2>4, <2>5
  <2>8. OpenOf(r, w[r].open, SubSeq(t, 1, i - 1)) = OpenOf(r, written[r].open, SubSeq(s, 1, i))
    BY <1>5, <2>4, <2>6
  <2>9. QED
    BY <2>3, <2>7, <2>8 DEF r, Tells
<1>7. Ordered(t, w)
  BY <1>1, <1>6 DEF Ordered
<1>8. ASSUME NEW r \in Reasons
      PROVE  /\ w[r].sum + SumOf(r, t) = written[r].sum + SumOf(r, s)
             /\ OpenOf(r, w[r].open, t) = OpenOf(r, written[r].open, s)
  BY <1>5 DEF l, t
<1>9. QED
  BY <1>4, <1>7, <1>8 DEF t, Carried

-----------------------------------------------------------------------------
(* What one flush collects. *)

\* Whether the log says that r is failing, after its lines.
Report(r) == (reported[r] \/ StartsReport(r)) /\ ~EndsReport(r)

\* The failures that its lines count.
Taken(r) == IF Lines(r) # <<>> THEN counts[r] ELSE 0

\* s has the lines of the reasons of S and no other.
Visited(s, S) ==
  /\ s \in Seq(Line) /\ Ordered(s, written)
  /\ \A r \in Reasons :
       /\ SumOf(r, s) = IF r \in S THEN Taken(r) ELSE 0
       /\ OpenOf(r, written[r].open, s) = IF r \in S THEN Report(r) ELSE reported[r]
  /\ \A i \in 1..Len(s) : s[i].event = "recovered" => confirmed[s[i].reason]

\* The lines of one reason, case by case.
LEMMA LinesCases ==
  ASSUME TypeOK, NEW r \in Reasons
  PROVE  \/ /\ Lines(r) = <<>>
            /\ ~StartsReport(r) /\ ~EndsReport(r)
         \/ /\ Lines(r) = <<LineOf(r, "first_failure", counts[r])>>
            /\ StartsReport(r) /\ ~EndsReport(r)
         \/ /\ Lines(r) = <<LineOf(r, "first_failure", counts[r]), LineOf(r, "recovered", 0)>>
            /\ StartsReport(r) /\ EndsReport(r)
         \/ /\ Lines(r) = <<LineOf(r, "recovered", counts[r])>>
            /\ ~StartsReport(r) /\ EndsReport(r)
         \/ /\ Lines(r) = <<LineOf(r, "failure_summary", counts[r])>>
            /\ reported[r] /\ ~StartsReport(r) /\ ~EndsReport(r) /\ counts[r] > 0
<1> DEFINE f == LineOf(r, "first_failure", counts[r])
           g == LineOf(r, "recovered", 0)
           h == LineOf(r, "recovered", counts[r])
           m == LineOf(r, "failure_summary", counts[r])
<1>1. Lines(r) = (IF StartsReport(r) THEN <<f>> ELSE <<>>)
                 \o (IF EndsReport(r) THEN <<IF StartsReport(r) THEN g ELSE h>> ELSE <<>>)
                 \o (IF Summarises(r) THEN <<m>> ELSE <<>>)
  BY DEF Lines
<1>2. StartsReport(r) => ~Summarises(r)
  BY DEF StartsReport, Summarises
<1>3. EndsReport(r) => ~Summarises(r)
  BY DEF Summarises
<1>4. Summarises(r) => reported[r] /\ counts[r] > 0
  BY DEF Summarises
<1> HIDE DEF f, g, h, m
<1>5. CASE ~StartsReport(r) /\ ~EndsReport(r) /\ ~Summarises(r)
  <2>1. Lines(r) = <<>>
    BY <1>1, <1>5
  <2>2. QED
    BY <1>5, <2>1
<1>6. CASE StartsReport(r) /\ ~EndsReport(r)
  <2>1. Lines(r) = <<f>>
    BY <1>1, <1>2, <1>6
  <2>2. QED
    BY <1>6, <2>1 DEF f
<1>7. CASE StartsReport(r) /\ EndsReport(r)
  <2>1. Lines(r) = <<f, g>>
    <3>1. Lines(r) = <<f>> \o <<g>> \o <<>>
      BY <1>1, <1>2, <1>7
    <3>2. <<f>> \o <<g>> \o <<>> = <<f, g>>
      <4> DEFINE S == {f, g}
                 p == <<f>> \o <<g>>
      <4>1. <<f>> \in Seq(S) /\ <<g>> \in Seq(S) /\ <<f, g>> \in Seq(S)
        OBVIOUS
      <4>2. p \in Seq(S) /\ Len(p) = 2 /\ p[1] = f /\ p[2] = g
        BY <4>1
      <4> HIDE DEF S, p
      <4>3. p \o <<>> = p
        BY <4>2
      <4>4. p = <<f, g>>
        <5>1. Len(<<f, g>>) = 2 /\ <<f, g>>[1] = f /\ <<f, g>>[2] = g
          OBVIOUS
        <5>2. \A i \in 1..Len(p) : p[i] = <<f, g>>[i]
          BY <4>2, <5>1
        <5>3. QED
          BY <4>1, <4>2, <5>1, <5>2, SeqEqual
      <4>5. QED
        BY <4>3, <4>4 DEF p
    <3>3. QED
      BY <3>1, <3>2
  <2>2. QED
    BY <1>7, <2>1 DEF f, g
<1>8. CASE ~StartsReport(r) /\ EndsReport(r)
  <2>1. Lines(r) = <<h>>
    BY <1>1, <1>3, <1>8
  <2>2. QED
    BY <1>8, <2>1 DEF h
<1>9. CASE ~StartsReport(r) /\ ~EndsReport(r) /\ Summarises(r)
  <2>1. Lines(r) = <<m>>
    BY <1>1, <1>9
  <2>2. QED
    BY <1>4, <1>9, <2>1 DEF m
<1>10. QED
  BY <1>5, <1>6, <1>7, <1>8, <1>9

LEMMA LineOfFields ==
  ASSUME TypeOK, NEW r \in Reasons, total[r] > 0, NEW n \in 0..MaxFailures,
         NEW event \in {"first_failure", "recovered", "failure_summary"},
         event # "recovered" => n > 0
  PROVE  /\ LineOf(r, event, n) \in Line
         /\ LineOf(r, event, n).reason = r /\ LineOf(r, event, n).event = event
         /\ LineOf(r, event, n).count = n /\ LineOf(r, event, n).total = total[r]
<1>1. total[r] \in 1..MaxFailures
  BY FailureLogAssumption DEF FailureLogAssumption, TypeOK
<1>2. QED
  BY <1>1 DEF LineOf, Line

\* One more line of reason r: what a reader knows of it, and of the others.
LEMMA LineAdded ==
  ASSUME TypeOK, NEW s \in Seq(Line), Ordered(s, written),
         NEW l \in Line, NEW r \in Reasons, l.reason = r,
         l.total = written[r].sum + (SumOf(r, s) + l.count),
         OpenOf(r, written[r].open, s) = (l.event # "first_failure"),
         \A i \in 1..Len(s) : s[i].event = "recovered" => confirmed[s[i].reason],
         l.event = "recovered" => confirmed[r]
  PROVE  /\ Append(s, l) \in Seq(Line) /\ Ordered(Append(s, l), written)
         /\ SumOf(r, Append(s, l)) = SumOf(r, s) + l.count
         /\ OpenOf(r, written[r].open, Append(s, l)) = (l.event # "recovered")
         /\ \A q \in Reasons \ {r} :
              /\ SumOf(q, Append(s, l)) = SumOf(q, s)
              /\ OpenOf(q, written[q].open, Append(s, l)) = OpenOf(q, written[q].open, s)
         /\ \A i \in 1..Len(Append(s, l)) :
              Append(s, l)[i].event = "recovered" => confirmed[Append(s, l)[i].reason]
<1>1. Append(s, l) \in Seq(Line) /\ Ordered(Append(s, l), written)
  BY AppendFields, OrderedAppend
<1>2. \A q \in Reasons : written[q].open \in BOOLEAN
  BY DEF TypeOK, Written
<1>3. /\ SumOf(r, Append(s, l)) = SumOf(r, s) + l.count
      /\ OpenOf(r, written[r].open, Append(s, l)) = (l.event # "recovered")
  BY <1>2, SumAppend, OpenAppend
<1>4. ASSUME NEW q \in Reasons \ {r}
      PROVE  /\ SumOf(q, Append(s, l)) = SumOf(q, s)
             /\ OpenOf(q, written[q].open, Append(s, l)) = OpenOf(q, written[q].open, s)
  BY <1>2, SumAppend, OpenAppend
<1>5. ASSUME NEW i \in 1..Len(Append(s, l)), Append(s, l)[i].event = "recovered"
      PROVE  confirmed[Append(s, l)[i].reason]
  <2>1. i \in 1..Len(s) \/ i = Len(s) + 1
    OBVIOUS
  <2>2. CASE i \in 1..Len(s)
    BY <1>5, <2>2, AppendFields
  <2>3. CASE i = Len(s) + 1
    BY <1>5, <2>3, AppendFields
  <2>4. QED
    BY <2>1, <2>2, <2>3
<1>6. QED
  BY <1>1, <1>3, <1>4, <1>5

\* The lines of one more reason.
LEMMA VisitNext ==
  ASSUME IInv, at = "flush", NEW S \in SUBSET Reasons, NEW r \in Reasons \ S,
         NEW s, Visited(s, S)
  PROVE  Visited(s \o Lines(r), S \cup {r})
<1> USE DEF IInv
<1>1. /\ s \in Seq(Line) /\ Ordered(s, written)
      /\ SumOf(r, s) = 0 /\ OpenOf(r, written[r].open, s) = reported[r]
      /\ \A i \in 1..Len(s) : s[i].event = "recovered" => confirmed[s[i].reason]
  BY DEF Visited
<1>2. /\ counts[r] \in 0..MaxFailures /\ total[r] \in 0..MaxFailures /\ MaxFailures \in Nat
      /\ reported[r] \in BOOLEAN /\ written[r].sum \in Nat
  BY FailureLogAssumption DEF FailureLogAssumption, TypeOK, Written
<1>3. total[r] = counts[r] + written[r].sum
  <2>1. outbox = <<>>
    BY DEF OutboxInv
  <2>2. SumOf(r, outbox) = 0
    BY <2>1, FoldsEmpty
  <2>3. QED
    BY <1>2, <2>2 DEF BalancedInv
<1>4. /\ StartsReport(r) => ~reported[r] /\ counts[r] > 0 /\ total[r] > 0
      /\ reported[r] => total[r] > 0
      /\ EndsReport(r) => (reported[r] \/ StartsReport(r)) /\ confirmed[r]
  BY <1>2, <1>3 DEF StartsReport, EndsReport, ReportedInv, ConfirmedInv
<1>5. ASSUME NEW t, /\ t \in Seq(Line) /\ Ordered(t, written)
                    /\ SumOf(r, t) = Taken(r) /\ OpenOf(r, written[r].open, t) = Report(r)
                    /\ \A q \in Reasons \ {r} :
                         /\ SumOf(q, t) = SumOf(q, s)
                         /\ OpenOf(q, written[q].open, t) = OpenOf(q, written[q].open, s)
                    /\ \A i \in 1..Len(t) : t[i].event = "recovered" => confirmed[t[i].reason]
      PROVE  Visited(t, S \cup {r})
  BY <1>5 DEF Visited
<1>6. CASE Lines(r) = <<>> /\ ~StartsReport(r) /\ ~EndsReport(r)
  <2>1. s \o Lines(r) = s
    BY <1>1, <1>6
  <2>2. Taken(r) = 0 /\ Report(r) = reported[r]
    BY <1>2, <1>6 DEF Taken, Report
  <2>3. QED
    BY <1>1, <1>5, <2>1, <2>2
<1>7. ASSUME NEW l, Lines(r) = <<l>>, l \in Line, l.reason = r, l.count = counts[r],
             l.total = total[r], reported[r] = (l.event # "first_failure"),
             Report(r) = (l.event # "recovered"), l.event = "recovered" => confirmed[r]
      PROVE  Visited(s \o Lines(r), S \cup {r})
  <2>1. s \o Lines(r) = Append(s, l)
    BY <1>1, <1>7
  <2>2. Taken(r) = counts[r]
    BY <1>7 DEF Taken
  <2>3. l.total = written[r].sum + (SumOf(r, s) + l.count)
    BY <1>1, <1>2, <1>3, <1>7
  <2>4. OpenOf(r, written[r].open, s) = (l.event # "first_failure")
    BY <1>1, <1>7
  <2> DEFINE t == Append(s, l)
  <2>5. /\ t \in Seq(Line) /\ Ordered(t, written)
        /\ SumOf(r, t) = SumOf(r, s) + l.count
        /\ OpenOf(r, written[r].open, t) = (l.event # "recovered")
        /\ \A q \in Reasons \ {r} :
             /\ SumOf(q, t) = SumOf(q, s)
             /\ OpenOf(q, written[q].open, t) = OpenOf(q, written[q].open, s)
        /\ \A i \in 1..Len(t) : t[i].event = "recovered" => confirmed[t[i].reason]
    BY <1>1, <1>7, <2>3, <2>4, LineAdded
  <2> HIDE DEF t
  <2>6. SumOf(r, t) = Taken(r) /\ OpenOf(r, written[r].open, t) = Report(r)
    BY <1>1, <1>2, <1>7, <2>2, <2>5
  <2>7. Visited(t, S \cup {r})
    BY <1>5, <2>5, <2>6
  <2>8. QED
    BY <2>1, <2>7 DEF t
<1>8. CASE /\ Lines(r) = <<LineOf(r, "first_failure", counts[r])>>
           /\ StartsReport(r) /\ ~EndsReport(r)
  <2> DEFINE l == LineOf(r, "first_failure", counts[r])
  <2>1. /\ l \in Line /\ l.reason = r /\ l.event = "first_failure"
        /\ l.count = counts[r] /\ l.total = total[r]
    BY <1>2, <1>4, <1>8, LineOfFields
  <2> HIDE DEF l
  <2>2. reported[r] = (l.event # "first_failure") /\ Report(r) = (l.event # "recovered")
    BY <1>2, <1>4, <1>8, <2>1 DEF Report
  <2>3. QED
    BY <1>7, <1>8, <2>1, <2>2 DEF l
<1>9. CASE Lines(r) = <<LineOf(r, "recovered", counts[r])>> /\ ~StartsReport(r) /\ EndsReport(r)
  <2> DEFINE l == LineOf(r, "recovered", counts[r])
  <2>1. /\ l \in Line /\ l.reason = r /\ l.event = "recovered"
        /\ l.count = counts[r] /\ l.total = total[r]
    BY <1>2, <1>4, <1>9, LineOfFields
  <2> HIDE DEF l
  <2>2. reported[r] = (l.event # "first_failure") /\ Report(r) = (l.event # "recovered")
    BY <1>2, <1>4, <1>9, <2>1 DEF Report
  <2>3. QED
    BY <1>4, <1>7, <1>9, <2>1, <2>2 DEF l
<1>10. CASE /\ Lines(r) = <<LineOf(r, "failure_summary", counts[r])>>
            /\ reported[r] /\ ~StartsReport(r) /\ ~EndsReport(r) /\ counts[r] > 0
  <2> DEFINE l == LineOf(r, "failure_summary", counts[r])
  <2>1. /\ l \in Line /\ l.reason = r /\ l.event = "failure_summary"
        /\ l.count = counts[r] /\ l.total = total[r]
    BY <1>2, <1>4, <1>10, LineOfFields
  <2> HIDE DEF l
  <2>2. reported[r] = (l.event # "first_failure") /\ Report(r) = (l.event # "recovered")
    BY <1>2, <1>10, <2>1 DEF Report
  <2>3. QED
    BY <1>7, <1>10, <2>1, <2>2 DEF l
<1>11. CASE /\ Lines(r) = <<LineOf(r, "first_failure", counts[r]), LineOf(r, "recovered", 0)>>
            /\ StartsReport(r) /\ EndsReport(r)
  <2> DEFINE l == LineOf(r, "first_failure", counts[r])
             m == LineOf(r, "recovered", 0)
             u == Append(s, l)
             t == Append(u, m)
  <2>1. /\ l \in Line /\ l.reason = r /\ l.event = "first_failure"
        /\ l.count = counts[r] /\ l.total = total[r]
    BY <1>2, <1>4, <1>11, LineOfFields
  <2>2. /\ m \in Line /\ m.reason = r /\ m.event = "recovered"
        /\ m.count = 0 /\ m.total = total[r]
    <3>1. 0 \in 0..MaxFailures
      BY <1>2
    <3>2. QED
      BY <1>4, <1>11, <3>1, LineOfFields
  <2> HIDE DEF l, m
  <2>3. s \o Lines(r) = t
    BY <1>1, <1>11, <2>1, <2>2 DEF l, m
  <2>4. Taken(r) = counts[r] /\ Report(r) = FALSE
    BY <1>11 DEF Taken, Report
  <2>5. /\ l.total = written[r].sum + (SumOf(r, s) + l.count)
        /\ OpenOf(r, written[r].open, s) = (l.event # "first_failure")
        /\ l.event = "recovered" => confirmed[r]
    BY <1>1, <1>2, <1>3, <1>4, <1>11, <2>1
  <2>6. /\ u \in Seq(Line) /\ Ordered(u, written)
        /\ SumOf(r, u) = SumOf(r, s) + l.count
        /\ OpenOf(r, written[r].open, u) = (l.event # "recovered")
        /\ \A q \in Reasons \ {r} :
             /\ SumOf(q, u) = SumOf(q, s)
             /\ OpenOf(q, written[q].open, u) = OpenOf(q, written[q].open, s)
        /\ \A i \in 1..Len(u) : u[i].event = "recovered" => confirmed[u[i].reason]
    BY <1>1, <2>1, <2>5, LineAdded
  <2> HIDE DEF u
  <2>7. /\ m.total = written[r].sum + (SumOf(r, u) + m.count)
        /\ OpenOf(r, written[r].open, u) = (m.event # "first_failure")
        /\ m.event = "recovered" => confirmed[r]
    BY <1>1, <1>2, <1>3, <1>4, <1>11, <2>1, <2>2, <2>6
  <2>8. /\ t \in Seq(Line) /\ Ordered(t, written)
        /\ SumOf(r, t) = SumOf(r, u) + m.count
        /\ OpenOf(r, written[r].open, t) = (m.event # "recovered")
        /\ \A q \in Reasons \ {r} :
             /\ SumOf(q, t) = SumOf(q, u)
             /\ OpenOf(q, written[q].open, t) = OpenOf(q, written[q].open, u)
        /\ \A i \in 1..Len(t) : t[i].event = "recovered" => confirmed[t[i].reason]
    BY <2>2, <2>6, <2>7, LineAdded
  <2> HIDE DEF t
  <2>9. SumOf(r, t) = Taken(r) /\ OpenOf(r, written[r].open, t) = Report(r)
    <3>1. SumOf(r, t) = counts[r]
      BY <1>1, <1>2, <2>1, <2>2, <2>6, <2>8
    <3>2. OpenOf(r, written[r].open, t) = FALSE
      BY <2>2, <2>8
    <3>3. QED
      BY <2>4, <3>1, <3>2
  <2>10. \A q \in Reasons \ {r} :
           /\ SumOf(q, t) = SumOf(q, s)
           /\ OpenOf(q, written[q].open, t) = OpenOf(q, written[q].open, s)
    BY <2>6, <2>8
  <2>11. Visited(t, S \cup {r})
    BY <1>5, <2>8, <2>9, <2>10
  <2>12. QED
    BY <2>3, <2>11
<1>12. QED
  BY <1>6, <1>8, <1>9, <1>10, <1>11, LinesCases

\* judgeSourceFailureReasons lists every reason once.
LEMMA EveryReason ==
  /\ Cardinality(Reasons) \in Nat
  /\ ReasonOrder \in [1..Cardinality(Reasons) -> Reasons]
  /\ \A i, j \in 1..Cardinality(Reasons) : ReasonOrder[i] = ReasonOrder[j] => i = j
  /\ \A r \in Reasons : \E i \in 1..Cardinality(Reasons) : ReasonOrder[i] = r
<1>1. IsFiniteSet(Reasons)
  BY FailureLogAssumption DEF FailureLogAssumption
<1>2. QED
  BY <1>1, Enumerates DEF ReasonOrder

\* A flush collects the lines of every reason.
LEMMA FlushCollects ==
  ASSUME IInv, at = "flush"
  PROVE  Visited(FlattenSeq([i \in DOMAIN ReasonOrder |-> Lines(ReasonOrder[i])]), Reasons)
<1> DEFINE n == Cardinality(Reasons)
           ss == [i \in DOMAIN ReasonOrder |-> Lines(ReasonOrder[i])]
           Seen(k) == {ReasonOrder[j] : j \in 1..k}
<1>1. /\ n \in Nat /\ ReasonOrder \in [1..n -> Reasons]
      /\ \A i, j \in 1..n : ReasonOrder[i] = ReasonOrder[j] => i = j
      /\ \A r \in Reasons : \E i \in 1..n : ReasonOrder[i] = r
  BY EveryReason
<1> HIDE DEF n
<1>2. ASSUME NEW r \in Reasons PROVE Lines(r) \in Seq(Line)
  <2>1. /\ StartsReport(r) => total[r] > 0 /\ counts[r] > 0
        /\ reported[r] => total[r] > 0
        /\ EndsReport(r) => reported[r] \/ StartsReport(r)
        /\ counts[r] \in 0..MaxFailures /\ 0 \in 0..MaxFailures
    <3>1. /\ counts[r] \in 0..MaxFailures /\ total[r] \in Nat /\ MaxFailures \in Nat
          /\ written[r].sum \in Nat /\ outbox \in Seq(Line)
      BY FailureLogAssumption DEF IInv, TypeOK, FailureLogAssumption, Written, OutboxInv
    <3>2. SumOf(r, outbox) \in Nat /\ total[r] = counts[r] + (written[r].sum + SumOf(r, outbox))
      BY <3>1, SumType DEF IInv, BalancedInv
    <3>3. QED
      BY <3>1, <3>2 DEF IInv, ReportedInv, StartsReport, EndsReport
  <2> DEFINE f == LineOf(r, "first_failure", counts[r])
             g == LineOf(r, "recovered", 0)
             h == LineOf(r, "recovered", counts[r])
             m == LineOf(r, "failure_summary", counts[r])
  <2>2. TypeOK
    BY DEF IInv
  <2>3. StartsReport(r) => f \in Line
    BY <2>1, <2>2, LineOfFields
  <2>4. EndsReport(r) => g \in Line /\ h \in Line
    BY <2>1, <2>2, LineOfFields
  <2>5. reported[r] /\ counts[r] > 0 => m \in Line
    BY <2>1, <2>2, LineOfFields
  <2>6. \/ Lines(r) = <<>>
        \/ Lines(r) = <<f>> /\ StartsReport(r)
        \/ Lines(r) = <<f, g>> /\ StartsReport(r) /\ EndsReport(r)
        \/ Lines(r) = <<h>> /\ EndsReport(r)
        \/ Lines(r) = <<m>> /\ reported[r] /\ counts[r] > 0
    BY <2>2, LinesCases
  <2> HIDE DEF f, g, h, m
  <2>7. \A a, b \in Line : <<a>> \in Seq(Line) /\ <<a, b>> \in Seq(Line)
    OBVIOUS
  <2>8. <<>> \in Seq(Line)
    OBVIOUS
  <2>9. CASE Lines(r) = <<f, g>> /\ StartsReport(r) /\ EndsReport(r)
    BY <2>3, <2>4, <2>7, <2>9
  <2>10. CASE ~(Lines(r) = <<f, g>> /\ StartsReport(r) /\ EndsReport(r))
    BY <2>3, <2>4, <2>5, <2>6, <2>7, <2>8, <2>10
  <2>11. QED
    BY <2>9, <2>10
<1>3. ss \in [1..n -> Seq(Line)] /\ \A k \in 1..n : ss[k] = Lines(ReasonOrder[k])
  BY <1>1, <1>2
<1> HIDE DEF ss
<1>4. PICK h : Flattens(h, n, ss)
  BY <1>1, <1>3, FlattenSteps
<1> DEFINE T == {k \in 0..n : Visited(h[k], Seen(k))}
<1>5. 0 \in T
  <2>1. Seen(0) = {}
    OBVIOUS
  <2>2. ASSUME NEW r \in Reasons
        PROVE  SumOf(r, <<>>) = 0 /\ OpenOf(r, written[r].open, <<>>) = reported[r]
    <3>1. written[r].open \in BOOLEAN /\ outbox = <<>>
      BY DEF IInv, TypeOK, Written, OutboxInv
    <3>2. QED
      BY <3>1, FoldsEmpty DEF IInv, BalancedInv
  <2>3. Visited(<<>>, {})
    BY <2>2 DEF Visited, Ordered
  <2> HIDE DEF Seen
  <2>4. QED
    <3>1. h[0] = <<>> /\ 0 \in 0..n
      BY <1>1, <1>4 DEF Flattens
    <3>2. Visited(h[0], Seen(0))
      BY <2>1, <2>3, <3>1
    <3>3. QED
      BY <3>1, <3>2
<1>6. ASSUME NEW k \in 1..n, k - 1 \in T PROVE k \in T
  <2> DEFINE S == Seen(k - 1)
             r == ReasonOrder[k]
  <2>1. Visited(h[k - 1], S) /\ k \in 0..n
    BY <1>6
  <2>2. S \in SUBSET Reasons /\ r \in Reasons
    BY <1>1
  <2>3. r \notin S
    <3>1. \A j \in 1..(k - 1) : ReasonOrder[j] # ReasonOrder[k]
      BY <1>1
    <3>2. QED
      BY <3>1
  <2>4. Seen(k) = S \cup {r}
    <3>1. 1..k = (1..(k - 1)) \cup {k}
      BY <1>1
    <3>2. QED
      BY <3>1
  <2> HIDE DEF S, Seen
  <2>5. h[k] = h[k - 1] \o Lines(r)
    BY <1>3, <1>4 DEF Flattens
  <2> HIDE DEF r
  <2>6. Visited(h[k], S \cup {r})
    BY <2>1, <2>2, <2>3, <2>5, VisitNext
  <2>7. QED
    BY <2>1, <2>4, <2>6
<1>7. Visited(h[n], Seen(n))
  <2> HIDE DEF T
  <2>1. \A k \in 0..n : k \in T
    BY ONLY <1>1, <1>5, <1>6, UpTo
  <2>2. n \in 0..n
    BY <1>1
  <2>3. QED
    BY <2>1, <2>2 DEF T
<1>8. Seen(n) = Reasons
  BY <1>1
<1>9. QED
  BY <1>4, <1>7, <1>8 DEF ss, Flattens

-----------------------------------------------------------------------------
(* The invariant. *)

LEMMA InitIInv == Init => IInv
<1> SUFFICES ASSUME Init PROVE IInv
  OBVIOUS
<1> USE FailureLogAssumption DEF FailureLogAssumption, Init
<1>1. TypeOK
  <2>1. Range(outbox) = {}
    BY DEF Range
  <2>2. [sum |-> 0, open |-> FALSE] \in Written
    BY DEF Written
  <2>3. written \in [Reasons -> Written]
    BY <2>2
  <2>4. counts \in [Reasons -> 0..MaxFailures] /\ total \in [Reasons -> 0..MaxFailures]
    <3>1. 0 \in 0..MaxFailures
      OBVIOUS
    <3>2. QED
      BY <3>1
  <2>5. \A r \in Reasons : recoveredTotal[r] \in 0..total[r]
    OBVIOUS
  <2>6. /\ reported \in [Reasons -> BOOLEAN] /\ due \in [Reasons -> BOOLEAN]
        /\ wake \in BOOLEAN /\ cancelled \in BOOLEAN /\ confirmed \in [Reasons -> BOOLEAN]
        /\ outcome \in [Callers -> Reasons \cup Stages \cup {Nothing}]
        /\ at \in {"wait", "flush", "write", "exited"}
    OBVIOUS
  <2> HIDE DEF Init
  <2>7. QED
    BY <2>1, <2>3, <2>4, <2>5, <2>6 DEF TypeOK
<1>2. PendingInv
  <2>1. ASSUME NEW r \in Reasons
        PROVE  IsFiniteSet(PendingOf(r)) /\ total[r] + Cardinality(PendingOf(r)) <= MaxFailures
    <3>1. PendingOf(r) = {}
      BY DEF PendingOf
    <3>2. QED
      BY <3>1, FS_EmptySet
  <2>2. QED
    BY <2>1 DEF PendingInv
<1>3. OutboxInv /\ ReportedInv /\ ConfirmedInv
  BY DEF OutboxInv, ReportedInv, ConfirmedInv
<1>4. BalancedInv
  <2>1. ASSUME NEW r \in Reasons
        PROVE  SumOf(r, outbox) = 0 /\ OpenOf(r, FALSE, outbox) = FALSE
               /\ written[r].sum = 0 /\ written[r].open = FALSE
    <3>1. SumOf(r, <<>>) = 0 /\ OpenOf(r, FALSE, <<>>) = FALSE
      BY FoldsEmpty
    <3>2. QED
      BY <3>1
  <2>2. ASSUME NEW r \in Reasons
        PROVE  total[r] = counts[r] + (written[r].sum + SumOf(r, outbox))
    <3>1. total[r] = 0 /\ counts[r] = 0
      OBVIOUS
    <3>2. SumOf(r, outbox) = 0 /\ written[r].sum = 0
      BY <2>1
    <3>3. QED
      BY ONLY <3>1, <3>2
  <2>3. ASSUME NEW r \in Reasons
        PROVE  reported[r] = OpenOf(r, written[r].open, outbox)
    <3>1. reported[r] = FALSE
      OBVIOUS
    <3> HIDE DEF Init
    <3>2. QED
      BY <2>1, <3>1
  <2>4. QED
    BY <2>2, <2>3 DEF BalancedInv
<1>5. OrderedInv
  BY DEF OrderedInv, Ordered
<1>6. QED
  BY <1>1, <1>2, <1>3, <1>4, <1>5 DEF IInv

\* Lines of the outbox are lines.
LEMMA OutboxRange ==
  ASSUME NEW s \in Seq(Line)
  PROVE  Range(s) \subseteq Line
BY DEF Range

LEMMA OperateStep ==
  ASSUME IInv, NEW c \in Callers, Operate(c)
  PROVE  IInv'
<1> USE DEF IInv
<1>1. PICK o \in Reasons \cup Stages :
        /\ outcome[c] = Nothing
        /\ o \in Reasons => total[o] + Cardinality(PendingOf(o)) < MaxFailures
        /\ outcome' = [outcome EXCEPT ![c] = o]
        /\ UNCHANGED <<counters, wake, at, outbox, cancelled, written, confirmed>>
  BY DEF Operate, PendingOf
<1>2. TypeOK'
  BY <1>1 DEF TypeOK, counters
<1>3. PendingInv'
  <2>1. ASSUME NEW r \in Reasons
        PROVE  (IsFiniteSet(PendingOf(r)) /\ total[r] + Cardinality(PendingOf(r)) <= MaxFailures)'
    <3>1. total' = total /\ IsFiniteSet(PendingOf(r))
          /\ total[r] + Cardinality(PendingOf(r)) <= MaxFailures
      BY <1>1 DEF PendingInv, counters
    <3>2. outcome[c] # r
      BY <1>1, FailureLogAssumption DEF FailureLogAssumption
    <3>3. CASE r = o
      <4>1. PendingOf(r)' = PendingOf(r) \cup {c} /\ c \notin PendingOf(r)
        BY <1>1, <3>2, <3>3 DEF PendingOf, TypeOK
      <4>2. IsFiniteSet(PendingOf(r)') /\ Cardinality(PendingOf(r)') = Cardinality(PendingOf(r)) + 1
        BY <3>1, <4>1, FS_AddElement
      <4>3. total[r] \in Nat /\ Cardinality(PendingOf(r)) \in Nat /\ MaxFailures \in Nat
        BY <3>1, FS_CardinalityType, FailureLogAssumption DEF FailureLogAssumption, TypeOK
      <4>4. total[r] + Cardinality(PendingOf(r)) < MaxFailures
        BY <1>1, <3>3
      <4>5. QED
        BY <3>1, <4>2, <4>3, <4>4
    <3>4. CASE r # o
      <4>1. PendingOf(r)' = PendingOf(r)
        BY <1>1, <3>2, <3>4 DEF PendingOf, TypeOK
      <4>2. QED
        BY <3>1, <4>1
    <3>5. QED
      BY <3>3, <3>4
  <2>2. QED
    BY <2>1 DEF PendingInv
<1>4. (OutboxInv /\ ReportedInv /\ ConfirmedInv /\ BalancedInv /\ OrderedInv)'
  BY <1>1 DEF OutboxInv, ReportedInv, ConfirmedInv, BalancedInv, OrderedInv, counters
<1>5. QED
  BY <1>2, <1>3, <1>4

LEMMA RecordStep ==
  ASSUME IInv, NEW c \in Callers, NEW r, outcome[c] = r, Record(c)
  PROVE  IInv'
<1> USE DEF IInv
<1>1. /\ r \in Reasons
      /\ counts' = [counts EXCEPT ![r] = @ + 1] /\ total' = [total EXCEPT ![r] = @ + 1]
      /\ wake' = (wake \/ ~reported[r]) /\ confirmed' = [confirmed EXCEPT ![r] = FALSE]
      /\ outcome' = [outcome EXCEPT ![c] = Nothing]
      /\ UNCHANGED <<recoveredTotal, reported, due, at, outbox, cancelled, written>>
  BY DEF Record
<1>2. r # Nothing /\ MaxFailures \in Nat
  BY <1>1, FailureLogAssumption DEF FailureLogAssumption
<1>3. /\ PendingOf(r)' = PendingOf(r) \ {c} /\ c \in PendingOf(r)
      /\ \A q \in Reasons \ {r} : PendingOf(q)' = PendingOf(q)
  <2>1. outcome'[c] = Nothing /\ \A x \in Callers \ {c} : outcome'[x] = outcome[x]
    BY <1>1 DEF TypeOK
  <2>2. \A q \in Reasons : q # Nothing
    BY FailureLogAssumption DEF FailureLogAssumption
  <2>3. QED
    BY <1>1, <2>1, <2>2 DEF PendingOf
<1>4. /\ counts'[r] = counts[r] + 1 /\ total'[r] = total[r] + 1 /\ confirmed'[r] = FALSE
      /\ DOMAIN counts' = Reasons /\ DOMAIN total' = Reasons
      /\ \A q \in Reasons \ {r} :
           counts'[q] = counts[q] /\ total'[q] = total[q] /\ confirmed'[q] = confirmed[q]
  BY <1>1 DEF TypeOK
<1>5. PendingInv' /\ total'[r] <= MaxFailures
  <2>1. IsFiniteSet(PendingOf(r)) /\ total[r] + Cardinality(PendingOf(r)) <= MaxFailures
    BY <1>1 DEF PendingInv
  <2>2. /\ IsFiniteSet(PendingOf(r)') /\ Cardinality(PendingOf(r)') = Cardinality(PendingOf(r)) - 1
        /\ Cardinality(PendingOf(r)) \in Nat /\ Cardinality(PendingOf(r)') \in Nat
    <3>1. /\ IsFiniteSet(PendingOf(r) \ {c})
          /\ Cardinality(PendingOf(r) \ {c}) = Cardinality(PendingOf(r)) - 1
      BY <1>3, <2>1, FS_RemoveElement
    <3>2. QED
      BY <1>3, <2>1, <3>1, FS_CardinalityType
  <2>3. total[r] \in Nat
    BY <1>1 DEF TypeOK
  <2>4. total'[r] + Cardinality(PendingOf(r)') <= MaxFailures /\ total'[r] <= MaxFailures
    BY <1>2, <1>4, <2>1, <2>2, <2>3
  <2>5. ASSUME NEW q \in Reasons
        PROVE  IsFiniteSet(PendingOf(q)') /\ total'[q] + Cardinality(PendingOf(q)') <= MaxFailures
    <3>1. CASE q = r
      BY <2>2, <2>4, <3>1
    <3>2. CASE q # r
      <4>1. PendingOf(q)' = PendingOf(q) /\ total'[q] = total[q]
        BY <1>3, <1>4, <3>2
      <4>2. QED
        BY <4>1 DEF PendingInv
    <3>3. QED
      BY <3>1, <3>2
  <2>6. QED
    BY <2>4, <2>5 DEF PendingInv
<1>6. BalancedInv'
  <2>1. ASSUME NEW q \in Reasons
        PROVE  total'[q] = counts'[q] + (written[q].sum + SumOf(q, outbox))
    <3>1. SumOf(q, outbox) \in Nat /\ written[q].sum \in Nat /\ counts[q] \in Nat
          /\ total[q] = counts[q] + (written[q].sum + SumOf(q, outbox))
      BY <1>2, SumType DEF OutboxInv, TypeOK, Written, BalancedInv
    <3>2. QED
      BY <1>4, <3>1
  <2>2. QED
    BY <1>1, <2>1 DEF BalancedInv
<1>7. ASSUME NEW q \in Reasons PROVE counts'[q] \in 0..MaxFailures /\ total'[q] \in 0..MaxFailures
  <2>1. counts[q] \in 0..MaxFailures /\ total[q] \in 0..MaxFailures
    BY DEF TypeOK
  <2>2. CASE q = r
    <3>1. written[q].sum \in Nat /\ SumOf(q, outbox) \in Nat
          /\ total[q] = counts[q] + (written[q].sum + SumOf(q, outbox))
      BY <1>2, SumType DEF OutboxInv, TypeOK, Written, BalancedInv
    <3>2. QED
      BY <1>2, <1>4, <1>5, <2>1, <2>2, <3>1
  <2>3. CASE q # r
    BY <1>4, <2>1, <2>3
  <2>4. QED
    BY <2>2, <2>3
<1>8. TypeOK'
  <2>1. counts' \in [Reasons -> 0..MaxFailures] /\ total' \in [Reasons -> 0..MaxFailures]
    BY <1>1, <1>7 DEF TypeOK
  <2>2. ASSUME NEW q \in Reasons PROVE recoveredTotal'[q] \in 0..total'[q]
    <3>1. recoveredTotal[q] \in 0..total[q] /\ total[q] \in Nat
      BY DEF TypeOK
    <3>2. QED
      BY <1>1, <1>4, <3>1
  <2>3. wake' \in BOOLEAN /\ confirmed' \in [Reasons -> BOOLEAN]
        /\ outcome' \in [Callers -> Reasons \cup Stages \cup {Nothing}]
    BY <1>1 DEF TypeOK
  <2>4. QED
    BY <1>1, <2>1, <2>2, <2>3 DEF TypeOK
<1>9. ReportedInv'
  BY <1>1, <1>4 DEF ReportedInv, TypeOK
<1>10. ConfirmedInv'
  <2>1. ASSUME NEW q \in Reasons, recoveredTotal'[q] = total'[q], total'[q] > 0
        PROVE  confirmed'[q]
    <3>1. recoveredTotal[q] \in 0..total[q] /\ total[q] \in Nat
      BY DEF TypeOK
    <3>2. q # r
      BY <1>1, <1>4, <2>1, <3>1
    <3>3. QED
      BY <1>1, <1>4, <2>1, <3>2 DEF ConfirmedInv
  <2>2. QED
    BY <2>1 DEF ConfirmedInv
<1>11. OutboxInv' /\ OrderedInv'
  BY <1>1 DEF OutboxInv, OrderedInv
<1>12. QED
  BY <1>5, <1>6, <1>8, <1>9, <1>10, <1>11

LEMMA SuccessStep ==
  ASSUME IInv, NEW c \in Callers, NEW s, outcome[c] = s, Success(c)
  PROVE  IInv'
<1> USE DEF IInv
<1>1. /\ s \in Stages
      /\ recoveredTotal' = [r \in Reasons |-> IF r \in Confirms(s) THEN total[r]
                                                                   ELSE recoveredTotal[r]]
      /\ wake' = (wake \/ Confirms(s) # {})
      /\ confirmed' = [r \in Reasons |-> confirmed[r] \/ StageOf[r] = s]
      /\ outcome' = [outcome EXCEPT ![c] = Nothing]
      /\ UNCHANGED <<counts, total, reported, due, at, outbox, cancelled, written>>
  BY DEF Success
<1>2. TypeOK'
  <2>1. ASSUME NEW r \in Reasons PROVE recoveredTotal'[r] \in 0..total'[r]
    <3>1. recoveredTotal[r] \in 0..total[r] /\ total[r] \in Nat
      BY DEF TypeOK
    <3>2. QED
      BY <1>1, <3>1
  <2>2. wake' \in BOOLEAN /\ confirmed' \in [Reasons -> BOOLEAN]
    BY <1>1 DEF TypeOK
  <2>3. outcome' \in [Callers -> Reasons \cup Stages \cup {Nothing}]
    BY <1>1 DEF TypeOK
  <2>4. QED
    BY <1>1, <2>1, <2>2, <2>3 DEF TypeOK
<1>3. PendingInv'
  <2>1. ASSUME NEW r \in Reasons
        PROVE  (IsFiniteSet(PendingOf(r)) /\ total[r] + Cardinality(PendingOf(r)) <= MaxFailures)'
    <3>1. total' = total /\ IsFiniteSet(PendingOf(r))
          /\ total[r] + Cardinality(PendingOf(r)) <= MaxFailures
      BY <1>1 DEF PendingInv
    <3>2. r # Nothing
      BY FailureLogAssumption DEF FailureLogAssumption
    <3>3. PendingOf(r)' \subseteq PendingOf(r)
      BY <1>1, <3>2 DEF PendingOf, TypeOK
    <3>4. /\ IsFiniteSet(PendingOf(r)') /\ Cardinality(PendingOf(r)') <= Cardinality(PendingOf(r))
          /\ Cardinality(PendingOf(r)) \in Nat /\ Cardinality(PendingOf(r)') \in Nat
      BY <3>1, <3>3, FS_Subset, FS_CardinalityType
    <3>5. total[r] \in Nat /\ MaxFailures \in Nat
      BY FailureLogAssumption DEF FailureLogAssumption, TypeOK
    <3>6. QED
      BY <3>1, <3>4, <3>5
  <2>2. QED
    BY <2>1 DEF PendingInv
<1>4. ConfirmedInv'
  <2>1. ASSUME NEW r \in Reasons, recoveredTotal'[r] = total'[r], total'[r] > 0
        PROVE  confirmed'[r]
    <3>1. CASE r \in Confirms(s)
      BY <1>1, <3>1 DEF Confirms
    <3>2. CASE r \notin Confirms(s)
      BY <1>1, <2>1, <3>2 DEF ConfirmedInv
    <3>3. QED
      BY <3>1, <3>2
  <2>2. QED
    BY <2>1 DEF ConfirmedInv
<1>5. (OutboxInv /\ ReportedInv /\ BalancedInv /\ OrderedInv)'
  BY <1>1 DEF OutboxInv, ReportedInv, BalancedInv, OrderedInv
<1>6. QED
  BY <1>2, <1>3, <1>4, <1>5

LEMMA FlushStep ==
  ASSUME IInv, Flush
  PROVE  IInv'
<1> USE DEF IInv
<1>1. /\ at = "flush"
      /\ outbox' = FlattenSeq([i \in DOMAIN ReasonOrder |-> Lines(ReasonOrder[i])])
      /\ counts' = [r \in Reasons |-> IF Lines(r) # <<>> THEN 0 ELSE counts[r]]
      /\ reported' = [r \in Reasons |-> (reported[r] \/ StartsReport(r)) /\ ~EndsReport(r)]
      /\ due' = [r \in Reasons |-> due[r] /\ ~StartsReport(r) /\ ~EndsReport(r) /\ ~Summarises(r)]
      /\ at' = "write"
      /\ UNCHANGED <<total, recoveredTotal, wake, outcome, cancelled, written, confirmed>>
  BY DEF Flush
<1>2. Visited(outbox', Reasons)
  BY <1>1, FlushCollects
<1>3. ASSUME NEW r \in Reasons
      PROVE  /\ total[r] = counts[r] + written[r].sum
             /\ counts[r] \in 0..MaxFailures /\ written[r].sum \in Nat /\ MaxFailures \in Nat
  <2>1. outbox = <<>>
    BY <1>1 DEF OutboxInv
  <2>2. SumOf(r, outbox) = 0
    BY <2>1, FoldsEmpty
  <2>3. counts[r] \in 0..MaxFailures /\ written[r].sum \in Nat /\ MaxFailures \in Nat
    BY FailureLogAssumption DEF FailureLogAssumption, TypeOK, Written
  <2>4. QED
    BY <2>2, <2>3 DEF BalancedInv
<1>4. TypeOK'
  <2>1. Range(outbox') \subseteq Line
    BY <1>2, OutboxRange DEF Visited
  <2>2. counts' \in [Reasons -> 0..MaxFailures]
    <3>1. ASSUME NEW r \in Reasons
          PROVE  (IF Lines(r) # <<>> THEN 0 ELSE counts[r]) \in 0..MaxFailures
      BY <1>3
    <3>2. QED
      BY <1>1, <3>1
  <2>3. reported' \in [Reasons -> BOOLEAN]
    BY <1>1
  <2>4. due' \in [Reasons -> BOOLEAN]
    BY <1>1
  <2>5. QED
    BY <1>1, <2>1, <2>2, <2>3, <2>4 DEF TypeOK
<1>5. OutboxInv'
  BY <1>1, <1>2 DEF OutboxInv, Visited
<1>6. OrderedInv'
  BY <1>1, <1>2 DEF OrderedInv, Visited
<1>7. BalancedInv'
  <2>1. ASSUME NEW r \in Reasons
        PROVE  total'[r] = counts'[r] + (written'[r].sum + SumOf(r, outbox'))
    <3>1. SumOf(r, outbox') = Taken(r)
      BY <1>2 DEF Visited
    <3>2. CASE Lines(r) # <<>>
      <4>1. counts'[r] = 0 /\ Taken(r) = counts[r]
        BY <1>1, <3>2 DEF Taken
      <4>2. QED
        BY <1>1, <1>3, <3>1, <4>1
    <3>3. CASE Lines(r) = <<>>
      <4>1. counts'[r] = counts[r] /\ Taken(r) = 0
        BY <1>1, <3>3 DEF Taken
      <4>2. QED
        BY <1>1, <1>3, <3>1, <4>1
    <3>4. QED
      BY <3>2, <3>3
  <2>2. ASSUME NEW r \in Reasons
        PROVE  reported'[r] = OpenOf(r, written'[r].open, outbox')
    <3>1. OpenOf(r, written[r].open, outbox') = Report(r) /\ written' = written
      BY <1>1, <1>2 DEF Visited
    <3>2. reported'[r] = Report(r)
      BY <1>1 DEF Report
    <3>3. QED
      BY <3>1, <3>2
  <2>3. QED
    BY <2>1, <2>2 DEF BalancedInv
<1>8. ReportedInv'
  <2>1. ASSUME NEW r \in Reasons, reported'[r] PROVE total'[r] > 0
    <3>1. reported[r] \/ counts[r] > 0
      BY <1>1, <2>1 DEF StartsReport
    <3>2. QED
      BY <1>1, <1>3, <3>1 DEF ReportedInv
  <2>2. QED
    BY <2>1 DEF ReportedInv
<1>9. ConfirmedInv' /\ PendingInv'
  BY <1>1 DEF ConfirmedInv, PendingInv, PendingOf
<1>10. QED
  BY <1>4, <1>5, <1>6, <1>7, <1>8, <1>9

LEMMA WriteStep ==
  ASSUME IInv, Write
  PROVE  IInv'
<1> USE DEF IInv
<1>1. /\ at = "write" /\ outbox # <<>>
      /\ written' = [written EXCEPT ![Head(outbox).reason] =
                       [sum |-> @.sum + Head(outbox).count,
                        open |-> Head(outbox).event # "recovered"]]
      /\ outbox' = Tail(outbox)
      /\ UNCHANGED <<counters, wake, outcome, at, cancelled, confirmed>>
  BY DEF Write
<1>2. outbox \in Seq(Line) /\ outbox' \in Seq(Line) /\ Head(outbox) \in Line
  BY <1>1, TailFields DEF OutboxInv
<1>3. /\ Ordered(outbox', written')
      /\ \A r \in Reasons :
           /\ written'[r].sum \in Nat /\ written'[r].open \in BOOLEAN
           /\ written'[r].sum + SumOf(r, outbox') = written[r].sum + SumOf(r, outbox)
           /\ OpenOf(r, written'[r].open, outbox') = OpenOf(r, written[r].open, outbox)
  <2>1. /\ outbox \in Seq(Line) /\ outbox # <<>>
        /\ Ordered(outbox, written) /\ TypeOK /\ Advanced(written', Head(outbox))
    BY <1>1, <1>2 DEF OrderedInv, Advanced
  <2>2. Carried(written', outbox)
    BY ONLY <2>1, OrderedTail
  <2>3. QED
    BY <1>1, <2>2 DEF Carried
<1>4. BalancedInv'
  BY <1>1, <1>3 DEF BalancedInv, counters
<1>5. written' \in [Reasons -> Written]
  <2>1. ASSUME NEW r \in Reasons
        PROVE  written'[r].sum \in 0..MaxFailures /\ written'[r].open \in BOOLEAN
    <3>1. total[r] = counts[r] + (written'[r].sum + SumOf(r, outbox'))
      BY <1>1, <1>3 DEF BalancedInv
    <3>2. /\ total[r] \in 0..MaxFailures /\ counts[r] \in 0..MaxFailures /\ MaxFailures \in Nat
          /\ SumOf(r, outbox') \in Nat
      BY <1>2, SumType, FailureLogAssumption DEF FailureLogAssumption, TypeOK
    <3>3. QED
      BY <1>3, <3>1, <3>2
  <2>2. /\ DOMAIN written' = Reasons
        /\ written' = [r \in Reasons |-> written'[r]]
    BY <1>1 DEF TypeOK
  <2>3. ASSUME NEW r \in Reasons PROVE written'[r] \in Written
    <3>1. CASE r = Head(outbox).reason
      <4> DEFINE n == written[r].sum + Head(outbox).count
                 o == Head(outbox).event # "recovered"
      <4>1. written'[r] = [sum |-> n, open |-> o]
        BY <1>1, <3>1 DEF TypeOK
      <4>2. n \in 0..MaxFailures
        BY <2>1, <4>1
      <4>3. o \in BOOLEAN
        OBVIOUS
      <4> HIDE DEF n, o
      <4>4. QED
        BY <4>1, <4>2, <4>3 DEF Written
    <3>2. CASE r # Head(outbox).reason
      BY <1>1, <3>2 DEF TypeOK
    <3>3. QED
      BY <3>1, <3>2
  <2>4. QED
    BY <2>2, <2>3
<1>6. TypeOK'
  <2>1. Range(outbox') \subseteq Line
    BY <1>2, OutboxRange
  <2>2. QED
    BY <1>1, <1>5, <2>1 DEF TypeOK, counters
<1>7. OutboxInv' /\ OrderedInv'
  BY <1>1, <1>2, <1>3 DEF OutboxInv, OrderedInv
<1>8. (PendingInv /\ ReportedInv /\ ConfirmedInv)'
  BY <1>1 DEF PendingInv, PendingOf, ReportedInv, ConfirmedInv, counters
<1>9. QED
  BY <1>4, <1>6, <1>7, <1>8

\* Steps that touch neither the counters nor the log.
LEMMA QuietStep ==
  ASSUME IInv,
         \/ Wake \/ Tick \/ Drained \/ Exit \/ Cancel \/ UNCHANGED vars
         \/ \E r \in Reasons : Elapse(r)
  PROVE  IInv'
<1> USE DEF IInv
<1>1. /\ UNCHANGED <<counts, total, recoveredTotal, reported, outcome, outbox, written, confirmed>>
      /\ wake' \in BOOLEAN /\ cancelled' \in BOOLEAN /\ due' \in [Reasons -> BOOLEAN]
      /\ at' \in {"wait", "flush", "write", "exited"}
      /\ at' # "write" => at # "write" \/ outbox = <<>>
  <2>1. CASE Wake \/ Tick \/ Drained \/ Exit \/ Cancel \/ UNCHANGED vars
    BY <2>1 DEF Wake, Tick, Drained, Exit, Cancel, vars, counters, TypeOK
  <2>2. ASSUME NEW r \in Reasons, Elapse(r)
        PROVE  /\ UNCHANGED <<counts, total, recoveredTotal, reported, outcome, outbox,
                              written, confirmed, wake, cancelled, at>>
               /\ due' \in [Reasons -> BOOLEAN]
    BY <2>2 DEF Elapse, TypeOK
  <2>3. QED
    BY <2>1, <2>2 DEF TypeOK
<1>2. TypeOK'
  BY <1>1 DEF TypeOK
<1>3. (PendingInv /\ ReportedInv /\ ConfirmedInv)'
  BY <1>1 DEF PendingInv, PendingOf, ReportedInv, ConfirmedInv
<1>4. (OutboxInv /\ BalancedInv /\ OrderedInv)'
  BY <1>1 DEF OutboxInv, BalancedInv, OrderedInv
<1>5. QED
  BY <1>2, <1>3, <1>4

LEMMA StepIInv == IInv /\ [Next]_vars => IInv'
<1> SUFFICES ASSUME IInv, [Next]_vars PROVE IInv'
  OBVIOUS
<1>1. ASSUME NEW c \in Callers, Operate(c) \/ Record(c) \/ Success(c) PROVE IInv'
  BY <1>1, OperateStep, RecordStep, SuccessStep
<1>2. CASE LogStep \/ Cancel \/ (\E r \in Reasons : Elapse(r)) \/ UNCHANGED vars
  BY <1>2, FlushStep, WriteStep, QuietStep DEF LogStep
<1>3. QED
  BY <1>1, <1>2 DEF Next

LEMMA Invariance == Spec => []IInv
BY InitIInv, StepIInv, PTL DEF Spec

-----------------------------------------------------------------------------
(* The theorems. *)

\* The counters stay in their ranges, a recovery never confirms more failures than there
\* were, and every line collected is one that flushAt can write.
THEOREM TypeCorrect == Spec => []TypeOK
<1>1. IInv => TypeOK
  BY DEF IInv
<1>2. QED
  BY <1>1, Invariance, PTL

\* Every failure is in exactly one place: still counted, in one unwritten line, or in the
\* lines written; and each line's total is the sum of the failure_count fields up to it
\* (judge_source_failure_log.go:145-163).  Callers record while the sink is slow.
THEOREM CountsAddUpHolds == Spec => []CountsAddUp
<1>1. IInv => CountsAddUp
  <2> SUFFICES ASSUME IInv PROVE CountsAddUp
    OBVIOUS
  <2>1. outbox \in Seq(Line) /\ SubSeq(outbox, 1, Len(outbox)) = outbox
        /\ DOMAIN outbox = 1..Len(outbox)
    BY PrefixFields DEF IInv, OutboxInv
  <2>2. ASSUME NEW r \in Reasons PROVE total[r] = counts[r] + SumUpTo(r, Len(outbox))
    BY <2>1 DEF IInv, BalancedInv, SumUpTo, SumOf
  <2>3. ASSUME NEW i \in DOMAIN outbox PROVE outbox[i].total = SumUpTo(outbox[i].reason, i)
    <3>1. Tells(outbox[i], written, SubSeq(outbox, 1, i - 1), SubSeq(outbox, 1, i))
      BY <2>1 DEF IInv, OrderedInv, Ordered
    <3>2. QED
      BY <3>1 DEF Tells, SumUpTo, SumOf
  <2>4. QED
    BY <2>2, <2>3 DEF CountsAddUp
<1>2. QED
  BY <1>1, Invariance, PTL

\* For every reason the lines tell of outages one after the other: a first failure, then
\* summaries, then at most one recovery (judge_source_failure_log.go:145-163).
THEOREM LogAlternatesHolds == Spec => []LogAlternates
<1>1. IInv => LogAlternates
  <2> SUFFICES ASSUME IInv PROVE LogAlternates
    OBVIOUS
  <2>1. outbox \in Seq(Line) /\ SubSeq(outbox, 1, Len(outbox)) = outbox
        /\ DOMAIN outbox = 1..Len(outbox)
    BY PrefixFields DEF IInv, OutboxInv
  <2>2. ASSUME NEW r \in Reasons PROVE reported[r] = OpenAfter(r, Len(outbox))
    BY <2>1 DEF IInv, BalancedInv, OpenAfter, OpenOf
  <2>3. ASSUME NEW i \in DOMAIN outbox
        PROVE  OpenAfter(outbox[i].reason, i - 1) = (outbox[i].event # "first_failure")
    <3>1. Tells(outbox[i], written, SubSeq(outbox, 1, i - 1), SubSeq(outbox, 1, i))
      BY <2>1 DEF IInv, OrderedInv, Ordered
    <3>2. QED
      BY <3>1 DEF Tells, OpenAfter, OpenOf
  <2>4. QED
    BY <2>2, <2>3 DEF LogAlternates
<1>2. QED
  BY <1>1, Invariance, PTL

\* Nothing is called recovered that has not been seen to work again: the success of a
\* reason's own stage comes after its last failure in the order of the log's mutex
\* (judge_source_failure_log.go:77-80).
THEOREM RecoveryConfirmedHolds == Spec => RecoveryConfirmed
<1>1. ASSUME IInv, [Next]_vars, at = "flush", NEW i \in DOMAIN outbox',
             outbox'[i].event = "recovered"
      PROVE  confirmed[outbox'[i].reason]
  <2>1. CASE Flush
    <3>1. Visited(outbox', Reasons)
      BY <1>1, <2>1, FlushCollects DEF Flush
    <3>2. QED
      BY <1>1, <3>1 DEF Visited
  <2>2. CASE ~Flush
    <3>1. outbox = <<>> /\ DOMAIN outbox = {}
      BY <1>1 DEF IInv, OutboxInv
    <3>2. outbox' = outbox
      BY <1>1, <2>2 DEF Next, LogStep, Operate, Record, Success, Elapse, Wake, Tick, Write,
                        Drained, Exit, Cancel, vars
    <3>3. QED
      BY <1>1, <3>1, <3>2
  <2>3. QED
    BY <2>1, <2>2
<1>2. IInv /\ [Next]_vars =>
        [\A i \in DOMAIN outbox' :
           /\ at = "flush" /\ outbox'[i].event = "recovered"
           => confirmed[outbox'[i].reason]]_vars
  BY <1>1
<1>3. QED
  BY <1>2, Invariance, PTL DEF Spec, RecoveryConfirmed
=============================================================================
