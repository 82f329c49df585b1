---------------------------- MODULE CollectorProofs ----------------------------
(***************************************************************************)
(* The collector's side of the system, for any points, IDs, configurations *)
(* and bounds, in four parts that share no variable.                       *)
(*                                                                         *)
(* HistoryWriter: its types, that what it accepts reaches InfluxDB's side  *)
(* once and in order, and that what it leaves in the queue when it ends    *)
(* raced with the cancellation.  HistoryTypeOK and DrainedAtExit say what  *)
(* holds when the goroutine has ended; to be inductive they need what      *)
(* holds on its way there (EndingInv).  InOrderOnce is inductive given the *)
(* types: every step moves a piece of settled \o batch \o queue across one *)
(* of its seams.                                                           *)
(*                                                                         *)
(* GatewayStatus: a verdict is written for the IDs of its own gateway      *)
(* only.  StatusInv says so of a check on its way: from the moment it has  *)
(* picked its target it carries the IDs of one configuration, and what it  *)
(* has still to write is among them.                                       *)
(*                                                                         *)
(* ConfigReload: a load that no other overlaps leaves the configuration,   *)
(* the pool, the snapshots, the workers and the keys of one version.       *)
(* Phases, which hold of every load: what an update has removed and        *)
(* started so far; one update at a time; a worker leaves only when an      *)
(* update waits for it.  OwnSerial: no snapshot serves two serial numbers. *)
(* AloneInv and CompleteInv: how far the load that is alone has got, place *)
(* by place, and that it stays so until the next one begins.  KeysInv: the *)
(* keys of the workers it has started.                                     *)
(*                                                                         *)
(* ModbusPoints: what is recorded of a point is its own.  A batch covers   *)
(* the spans of its points (Covers), so that a point's bytes are a piece   *)
(* of the answer: Bytes is a concatenation, followed register by register  *)
(* (FlattenPairs).  CollectInv: of the batches collected so far every      *)
(* point has its own value or an excuse.  That a command is read back as   *)
(* it was written rests on the byte orders being their own inverses        *)
(* (EndianTwice).                                                          *)
(***************************************************************************)
EXTENDS HistoryWriter, GatewayStatus, ConfigReload, ModbusPoints, Sums, TLAPS

-----------------------------------------------------------------------------
(* The history writer. *)

\* Past the select loop the context is done; the final flush is over only with an
\* empty batch; and once the drain has seen the queue empty, only late points are in it.
EndingInv ==
  /\ at \in {"drain", "last", "exited"} => done
  /\ at = "last" /\ attempt = 0 => batch = <<>>
  /\ at \in {"last", "exited"} => Range(queue) \subseteq late

HistoryInv == HistoryTypeOK /\ EndingInv /\ InOrderOnce

-----------------------------------------------------------------------------
(* Sequences. *)

\* The elements of a sequence with one more at its end.
LEMMA RangeOfAppend ==
  ASSUME NEW S, NEW s \in Seq(S), NEW e \in S
  PROVE  Range(Append(s, e)) = Range(s) \cup {e}
<1>1. DOMAIN s = 1..Len(s) /\ DOMAIN Append(s, e) = 1..Len(s) + 1 /\ Len(s) \in Nat
  BY AppendProperties, LenProperties
<1>2. \A i \in 1..Len(s) : Append(s, e)[i] = s[i]
  BY AppendProperties
<1>3. Append(s, e)[Len(s) + 1] = e
  BY AppendProperties
<1>4. \A i \in 1..Len(s) + 1 : i \in 1..Len(s) \/ i = Len(s) + 1
  BY <1>1
<1>5. 1..Len(s) \subseteq 1..Len(s) + 1 /\ Len(s) + 1 \in 1..Len(s) + 1
  BY <1>1
<1>6. QED
  BY <1>1, <1>2, <1>3, <1>4, <1>5 DEF Range

\* The elements of two sequences joined.
LEMMA RangeOfConcat ==
  ASSUME NEW S, NEW s \in Seq(S), NEW t \in Seq(S)
  PROVE  Range(s \o t) = Range(s) \cup Range(t)
<1>1. /\ DOMAIN s = 1..Len(s) /\ Len(s) \in Nat
      /\ DOMAIN t = 1..Len(t) /\ Len(t) \in Nat
      /\ DOMAIN (s \o t) = 1..Len(s) + Len(t)
  BY ConcatProperties, LenProperties
<1>2. \A i \in 1..Len(s) + Len(t) :
        (s \o t)[i] = IF i <= Len(s) THEN s[i] ELSE t[i - Len(s)]
  BY ConcatProperties
<1>3. ASSUME NEW x \in Range(s \o t) PROVE x \in Range(s) \cup Range(t)
  <2>1. PICK i \in 1..Len(s) + Len(t) : x = (s \o t)[i]
    BY <1>1 DEF Range
  <2>2. CASE i <= Len(s)
    BY <1>1, <1>2, <2>1, <2>2 DEF Range
  <2>3. CASE ~(i <= Len(s))
    <3>1. i - Len(s) \in 1..Len(t)
      BY <1>1, <2>3
    <3>2. QED
      BY <1>1, <1>2, <2>1, <2>3, <3>1 DEF Range
  <2>4. QED
    BY <2>2, <2>3
<1>4. ASSUME NEW x \in Range(s) PROVE x \in Range(s \o t)
  <2>1. PICK i \in 1..Len(s) : x = s[i]
    BY <1>1 DEF Range
  <2>2. i \in 1..Len(s) + Len(t) /\ (s \o t)[i] = x
    BY <1>1, <1>2, <2>1
  <2>3. QED
    BY <1>1, <2>2 DEF Range
<1>5. ASSUME NEW x \in Range(t) PROVE x \in Range(s \o t)
  <2>1. PICK i \in 1..Len(t) : x = t[i]
    BY <1>1 DEF Range
  <2>2. Len(s) + i \in 1..Len(s) + Len(t) /\ (s \o t)[Len(s) + i] = x
    BY <1>1, <1>2, <2>1
  <2>3. QED
    BY <1>1, <2>2 DEF Range
<1>6. QED
  BY <1>3, <1>4, <1>5

-----------------------------------------------------------------------------
(* The inductive invariant. *)

\* The queue and the batch are empty, and nothing is settled.
LEMMA HistoryInitInv == HistoryInit => HistoryInv
<1> SUFFICES ASSUME HistoryInit PROVE HistoryInv
  OBVIOUS
<1>1. HistoryTypeOK
  <2>1. <<>> \in Seq(Points) /\ Len(<<>>) = 0
    OBVIOUS
  <2>2. /\ queue \in Seq(Points) /\ batch \in Seq(Points)
        /\ accepted \in Seq(Points) /\ settled \in Seq(Points)
        /\ Len(queue) = 0 /\ Len(batch) = 0
    BY <2>1 DEF HistoryInit
  <2>3. /\ at = "select" /\ attempt = 0 /\ done \in BOOLEAN /\ stopped \in BOOLEAN
        /\ late = {} /\ stored = {} /\ turnedAway = {}
    BY DEF HistoryInit
  <2>4. /\ QueueSize \in Nat \ {0} /\ BatchSize \in Nat \ {0} /\ RetryCount \in Nat \ {0}
    BY HistoryAssumption DEF HistoryAssumption
  <2>5. Len(queue) <= QueueSize /\ Len(batch) < BatchSize /\ attempt \in 0..RetryCount + 1
    BY <2>2, <2>3, <2>4
  <2>6. QED
    BY <2>2, <2>3, <2>5 DEF HistoryTypeOK
<1>2. EndingInv
  BY DEF HistoryInit, EndingInv
<1>3. InOrderOnce
  <2>1. <<>> \in Seq(Points)
    OBVIOUS
  <2>2. settled \o batch = <<>> /\ (settled \o batch) \o queue = <<>>
    BY <2>1, ConcatEmptySeq DEF HistoryInit
  <2>3. QED
    BY <2>2 DEF HistoryInit, InOrderOnce
<1>4. QED
  BY <1>1, <1>2, <1>3 DEF HistoryInv

\* WriteAsync: a point that is accepted goes to the end of the queue and of the order of
\* acceptance alike.
LEMMA WriteAsyncStep ==
  ASSUME HistoryInv, NEW p \in Points, WriteAsync(p)
  PROVE  HistoryInv'
<1> USE DEF HistoryInv, HistoryTypeOK, WriteAsync, Room
<1>1. /\ queue \in Seq(Points) /\ queue' = Append(queue, p)
      /\ queue' \in Seq(Points) /\ Len(queue') = Len(queue) + 1
      /\ Range(queue') = Range(queue) \cup {p}
  BY AppendProperties, RangeOfAppend
<1>2. accepted' = Append(accepted, p) /\ accepted' \in Seq(Points)
  BY AppendProperties
<1>3. HistoryTypeOK'
  <2>1. Len(queue') <= QueueSize
    BY <1>1, LenProperties, HistoryAssumption DEF HistoryAssumption
  <2>2. QED
    BY <1>1, <1>2, <2>1
<1>4. EndingInv'
  BY <1>1 DEF EndingInv
<1>5. InOrderOnce'
  <2> DEFINE taken == settled \o batch
  <2>1. taken \in Seq(Points) /\ taken \o queue \in Seq(Points) /\ <<p>> \in Seq(Points)
    BY ConcatProperties
  <2>2. accepted' = (taken \o queue) \o <<p>>
    BY <1>2, <2>1, AppendIsConcat DEF InOrderOnce
  <2>3. (taken \o queue) \o <<p>> = taken \o (queue \o <<p>>)
    BY ONLY <2>1, queue \in Seq(Points), ConcatAssociative, SMTT(30)
  <2>4. queue' = queue \o <<p>>
    BY <1>1, AppendIsConcat
  <2>5. QED
    BY <2>2, <2>3, <2>4 DEF InOrderOnce
<1>6. QED
  BY <1>3, <1>4, <1>5

\* Receive and DrainPoint: the seam between batch and queue moves one point on.
LEMMA TakePointStep ==
  ASSUME HistoryTypeOK, InOrderOnce, queue # <<>>, TakePoint, UNCHANGED <<accepted, settled, stored>>
  PROVE  /\ queue' \in Seq(Points) /\ Len(queue') <= QueueSize
         /\ batch' \in Seq(Points) /\ Len(batch') = Len(batch) + 1 /\ batch' # <<>>
         /\ Range(queue') \subseteq Range(queue)
         /\ InOrderOnce'
<1> USE DEF HistoryTypeOK, TakePoint
<1>1. /\ batch' = Append(batch, Head(queue)) /\ queue' = Tail(queue)
      /\ batch' \in Seq(Points) /\ Len(batch') = Len(batch) + 1
      /\ queue' \in Seq(Points) /\ Len(queue') < Len(queue)
      /\ batch' \o queue' = batch \o queue
      /\ Range(queue') \subseteq Range(queue)
  BY MoveHead, SMTT(30)
<1>2. Len(queue) \in Nat /\ Len(queue') \in Nat /\ Len(batch) \in Nat
  BY <1>1, LenProperties
<1>3. Len(queue') <= QueueSize /\ batch' # <<>>
  BY <1>1, <1>2, EmptySeq, HistoryAssumption DEF HistoryAssumption
<1>4. InOrderOnce'
  <2>1. /\ (settled \o batch) \o queue = settled \o (batch \o queue)
        /\ (settled \o batch') \o queue' = settled \o (batch' \o queue')
    <3>1. /\ settled \in Seq(Points) /\ batch \in Seq(Points) /\ queue \in Seq(Points)
          /\ batch' \in Seq(Points) /\ queue' \in Seq(Points)
      BY <1>1
    <3>2. (settled \o batch) \o queue = settled \o (batch \o queue)
      BY ONLY <3>1, ConcatAssociative, SMTT(30)
    <3>3. (settled \o batch') \o queue' = settled \o (batch' \o queue')
      BY ONLY <3>1, ConcatAssociative, SMTT(30)
    <3>4. QED
      BY <3>2, <3>3
  <2>2. accepted' = (settled' \o batch') \o queue'
    BY <1>1, <2>1 DEF InOrderOnce
  <2>3. Head(queue) \in Points
    BY HeadTailProperties
  <2>4. /\ Range(batch') = Range(batch) \cup {Head(queue)}
        /\ Range(settled \o batch') = Range(settled) \cup Range(batch')
        /\ Range(settled \o batch) = Range(settled) \cup Range(batch)
    <3>1. /\ settled \in Seq(Points) /\ batch \in Seq(Points) /\ batch' \in Seq(Points)
      BY <1>1
    <3>2. Range(Append(batch, Head(queue))) = Range(batch) \cup {Head(queue)}
      BY ONLY <3>1, <2>3, RangeOfAppend
    <3>3. Range(settled \o batch') = Range(settled) \cup Range(batch')
      BY ONLY <3>1, RangeOfConcat
    <3>4. Range(settled \o batch) = Range(settled) \cup Range(batch)
      BY ONLY <3>1, RangeOfConcat
    <3>5. QED
      BY <1>1, <3>2, <3>3, <3>4
  <2>5. stored' \subseteq Range(settled' \o batch')
    BY <2>4 DEF InOrderOnce
  <2>6. QED
    BY <2>2, <2>5 DEF InOrderOnce
<1>5. QED
  BY <1>1, <1>3, <1>4

\* The end of a batch: the seam between settled and batch moves over the whole batch.
LEMMA EndBatchStep ==
  ASSUME HistoryInv, Writing, EndBatch, UNCHANGED <<queue, done, stopped, accepted, late, turnedAway>>,
         stored' \subseteq stored \cup Range(batch)
  PROVE  HistoryInv'
<1> USE DEF HistoryInv, HistoryTypeOK, EndBatch, Writing
<1>1. /\ settled' \in Seq(Points) /\ <<>> \in Seq(Points)
      /\ settled' \o <<>> = settled'
  BY ConcatProperties, ConcatEmptySeq
<1>2. Range(batch) \subseteq Points
  BY RangeOfSeq, LenProperties DEF Range
<1>3. HistoryTypeOK'
  BY <1>1, <1>2, EmptySeq, HistoryAssumption DEF HistoryAssumption
<1>4. EndingInv'
  BY DEF EndingInv
<1>5. InOrderOnce'
  <2>1. Range(settled \o batch) = Range(settled) \cup Range(batch)
    BY RangeOfConcat
  <2>2. QED
    BY <1>1, <2>1 DEF InOrderOnce
<1>6. QED
  BY <1>3, <1>4, <1>5

\* Every step of the producers, the loop and the flush keeps the invariant.
LEMMA HistoryStepInv == HistoryInv /\ [HistoryNext]_historyVars => HistoryInv'
<1> SUFFICES ASSUME HistoryInv, [HistoryNext]_historyVars PROVE HistoryInv'
  OBVIOUS
<1> USE DEF HistoryInv
<1>1. ASSUME NEW p \in Points, WriteAsync(p) PROVE HistoryInv'
  BY <1>1, WriteAsyncStep
<1>2. ASSUME NEW p \in Points, TurnAway(p) PROVE HistoryInv'
  BY <1>2 DEF TurnAway, HistoryTypeOK, EndingInv, InOrderOnce
<1>3. CASE Receive
  <2>1. /\ queue' \in Seq(Points) /\ Len(queue') <= QueueSize
        /\ batch' \in Seq(Points) /\ Len(batch') = Len(batch) + 1 /\ batch' # <<>>
        /\ Range(queue') \subseteq Range(queue)
        /\ InOrderOnce'
    BY <1>3, TakePointStep DEF Receive
  <2>2. Len(batch) \in Nat /\ Len(batch) < BatchSize /\ BatchSize \in Nat
    BY <1>3, LenProperties, HistoryAssumption DEF HistoryAssumption, HistoryTypeOK, Receive
  <2>3. at' = "write" => Len(batch') <= BatchSize /\ attempt' = 1
    BY <1>3, <2>1, <2>2 DEF Receive, BeginWrite
  <2>4. at' = "select" => Len(batch') < BatchSize /\ attempt' = attempt
    BY <1>3, <2>1, <2>2 DEF Receive, BeginWrite, FillsBatch
  <2>5. at' \in {"select", "write"}
    BY <1>3 DEF Receive, BeginWrite
  <2>6. HistoryTypeOK'
    BY <1>3, <2>1, <2>3, <2>4, <2>5, HistoryAssumption
    DEF HistoryAssumption, HistoryTypeOK, Receive
  <2>7. EndingInv'
    BY <2>5 DEF EndingInv
  <2>8. QED
    BY <2>1, <2>6, <2>7
<1>4. CASE Tick
  BY <1>4, LenProperties, HistoryAssumption
  DEF Tick, TickFlushes, BeginWrite, HistoryAssumption, HistoryTypeOK, EndingInv, InOrderOnce
<1>5. CASE SeeDone
  BY <1>5 DEF SeeDone, HistoryTypeOK, EndingInv, InOrderOnce
<1>6. CASE DrainPoint
  <2>1. /\ queue' \in Seq(Points) /\ Len(queue') <= QueueSize
        /\ batch' \in Seq(Points) /\ Len(batch') = Len(batch) + 1 /\ batch' # <<>>
        /\ Range(queue') \subseteq Range(queue)
        /\ InOrderOnce'
    BY <1>6, TakePointStep DEF DrainPoint
  <2>2. HistoryTypeOK' /\ EndingInv'
    BY <1>6, <2>1 DEF HistoryTypeOK, EndingInv, DrainPoint
  <2>3. QED
    BY <2>1, <2>2
<1>7. CASE Drained
  <2>1. Range(queue) = {}
    BY <1>7 DEF Drained, QueueEmpty, Range
  <2>2. QED
    BY <1>7, <2>1, HistoryAssumption
    DEF Drained, QueueEmpty, HistoryAssumption, HistoryTypeOK, EndingInv, InOrderOnce
<1>8. CASE WriteOk
  BY <1>8, EndBatchStep DEF WriteOk
<1>9. CASE WriteFails
  <2>1. stored' \subseteq stored \cup Range(batch)
    BY <1>9 DEF WriteFails
  <2>2. CASE RetriesLeft
    <3>1. HistoryTypeOK'
      <4>1. Range(batch) \subseteq Points
        BY RangeOfSeq, LenProperties DEF Range, HistoryTypeOK
      <4>2. attempt' = attempt + 1 /\ attempt + 1 \in 0..RetryCount + 1
        BY <1>9, <2>2, HistoryAssumption
        DEF WriteFails, NextAttempt, RetriesLeft, HistoryAssumption, HistoryTypeOK
      <4>3. QED
        BY <1>9, <2>1, <2>2, <4>1, <4>2 DEF WriteFails, Writing, HistoryTypeOK
    <3>2. EndingInv'
      BY <1>9, <2>2 DEF WriteFails, Writing, NextAttempt, EndingInv, HistoryTypeOK
    <3>3. InOrderOnce'
      <4>1. Range(settled \o batch) = Range(settled) \cup Range(batch)
        BY RangeOfConcat DEF HistoryTypeOK
      <4>2. QED
        BY <1>9, <2>1, <2>2, <4>1 DEF WriteFails, InOrderOnce
    <3>4. QED
      BY <3>1, <3>2, <3>3
  <2>3. CASE ~RetriesLeft
    BY <1>9, <2>1, <2>3, EndBatchStep DEF WriteFails
  <2>4. QED
    BY <2>2, <2>3
<1>10. CASE Exit
  BY <1>10 DEF Exit, HistoryTypeOK, EndingInv, InOrderOnce
<1>11. CASE Cancel
  BY <1>11 DEF Cancel, HistoryTypeOK, EndingInv, InOrderOnce
<1>12. CASE StopReturns
  BY <1>12 DEF StopReturns, HistoryTypeOK, EndingInv, InOrderOnce
<1>13. CASE UNCHANGED historyVars
  BY <1>13 DEF historyVars, HistoryTypeOK, EndingInv, InOrderOnce
<1>14. QED
  BY <1>1, <1>2, <1>3, <1>4, <1>5, <1>6, <1>7, <1>8, <1>9, <1>10, <1>11, <1>12, <1>13
  DEF HistoryNext, WriterStep, Finished

\* The invariant holds of every behaviour.
LEMMA HistoryInvariance == HistorySpec => []HistoryInv
BY HistoryInitInv, HistoryStepInv, PTL DEF HistorySpec

-----------------------------------------------------------------------------

\* The capacity of the queue, the batch below its size while points are received, at
\* most RetryCount retries, and no flush without a batch (history_writer.go:119-203).
THEOREM HistoryTypeCorrect == HistorySpec => []HistoryTypeOK
<1>1. HistoryInv => HistoryTypeOK
  BY DEF HistoryInv
<1>2. QED
  BY HistoryInvariance, <1>1, PTL

\* Between the queue and InfluxDB no point is lost, doubled or overtaken, whatever
\* attempts fail and whenever the writer is stopped (history_writer.go:126-203).
THEOREM InOrderOnceHolds == HistorySpec => []InOrderOnce
<1>1. HistoryInv => InOrderOnce
  BY DEF HistoryInv
<1>2. QED
  BY HistoryInvariance, <1>1, PTL

\* When the goroutine has ended, only points that raced with the cancellation are still
\* in the queue (history_writer.go:149-159).
THEOREM DrainedAtExitHolds == HistorySpec => []DrainedAtExit
<1>1. HistoryInv => DrainedAtExit
  BY DEF HistoryInv, EndingInv, DrainedAtExit
<1>2. QED
  BY HistoryInvariance, <1>1, PTL

-----------------------------------------------------------------------------
(* The gateway status publisher. *)

\* The verdict of a check, none at first.
Verdicts == {"none", "online", "offline"}

\* Where a check has picked its target, and where its verdict is being written.
Picked == {"picked", "dial", "inspect", "judged", "writing", "set"}

WritingPlaces == {"writing", "set"}

Checks == [at : Picked \cup {"idle", "begin"}, ids : SUBSET Ids, gen : Nat,
           status : Verdicts, left : SUBSET Ids]

StatusTypes ==
  /\ generation \in Nat /\ generation \in DOMAIN Configs
  /\ check \in [Keys -> Checks]

\* A check that has picked its target knows the IDs of that generation, whatever the
\* round thought they were; what is still to be written is among them.
Bound(c, k) ==
  /\ c.at \in Picked => c.gen \in DOMAIN Configs /\ c.ids = Configs[c.gen][k]
  /\ c.at \in WritingPlaces => c.left \subseteq c.ids

StatusInv == StatusTypes /\ \A k \in Keys : Bound(check[k], k)

\* The first generation is one of the configuration's, and no check runs.
LEMMA StatusInitInv == StatusInit => StatusInv
<1>1. Configs \in Seq([Keys -> SUBSET Ids]) /\ Configs # <<>>
  BY StatusAssumption DEF StatusAssumption
<1>2. 1 \in DOMAIN Configs
  BY <1>1
<1>3. Idle \in Checks /\ \A k \in Keys : Bound(Idle, k)
  BY DEF Idle, Checks, Picked, Verdicts, Bound, WritingPlaces
<1>4. QED
  BY <1>2, <1>3 DEF StatusInit, StatusInv, StatusTypes

\* A step of one check, to a state that is bound to its target, keeps the invariant.
LEMMA OneCheck ==
  ASSUME StatusInv, NEW k \in Keys, NEW d \in Checks, Bound(d, k),
         check' = [check EXCEPT ![k] = d], UNCHANGED generation
  PROVE  StatusInv'
<1>1. check' \in [Keys -> Checks] /\ \A j \in Keys : check'[j] = IF j = k THEN d ELSE check[j]
  BY DEF StatusInv, StatusTypes
<1>2. ASSUME NEW j \in Keys PROVE Bound(check[j], j)'
  <2>1. Bound(check[j], j) /\ check'[j] = IF j = k THEN d ELSE check[j]
    BY <1>1 DEF StatusInv
  <2>2. QED
    BY <2>1 DEF Bound
<1>3. QED
  BY <1>1, <1>2 DEF StatusInv, StatusTypes

\* A step that touches no check.
LEMMA NothingChecked ==
  ASSUME StatusInv, UNCHANGED <<check, generation>>
  PROVE  StatusInv'
BY DEF StatusInv, StatusTypes, Bound

\* A check that has no target is bound to none.
LEMMA IdleIsBound ==
  ASSUME NEW k \in Keys
  PROVE  Idle \in Checks /\ Bound(Idle, k)
BY DEF Idle, Checks, Picked, Verdicts, Bound, WritingPlaces

\* A check that ends has no target any more.
LEMMA EndsKeeps ==
  ASSUME StatusInv, NEW k \in Keys, Ends(k), UNCHANGED generation
  PROVE  StatusInv'
BY IdleIsBound, OneCheck DEF Ends

\* A step that only moves on, with the target that was picked.
LEMMA MovesOn ==
  ASSUME StatusInv, NEW k \in Keys, check[k].at \in Picked,
         NEW place \in {"dial", "inspect", "judged"}, NEW status \in Verdicts,
         check' = [check EXCEPT ![k] = [check[k] EXCEPT !.at = place, !.status = status]],
         UNCHANGED generation
  PROVE  StatusInv'
<1> DEFINE d == [check[k] EXCEPT !.at = place, !.status = status]
<1>1. check[k] \in Checks /\ Bound(check[k], k)
  BY DEF StatusInv, StatusTypes
<1>2. d \in Checks
  BY <1>1 DEF Checks, Picked
<1>3. d.at = place /\ d.ids = check[k].ids /\ d.gen = check[k].gen
  BY <1>1 DEF Checks
<1>4. Bound(d, k)
  BY <1>1, <1>3 DEF Bound, WritingPlaces, Picked
<1>5. QED
  BY <1>2, <1>4, OneCheck

\* A verdict is reached with the target that was picked.
LEMMA JudgeKeeps ==
  ASSUME StatusInv, NEW k \in Keys, check[k].at \in Picked, NEW status \in {"online", "offline"},
         Judge(k, status), UNCHANGED generation
  PROVE  StatusInv'
<1>1. check \in [Keys -> Checks] /\ check[k] \in Checks
  BY DEF StatusInv, StatusTypes
<1>2. check' = [check EXCEPT ![k] = [check[k] EXCEPT !.at = "judged", !.status = status]]
  BY <1>1 DEF Judge
<1>3. "judged" \in {"dial", "inspect", "judged"} /\ status \in Verdicts
  BY DEF Verdicts
<1>4. QED
  BY <1>2, <1>3, MovesOn

\* Dialling, retrying and looking at the pool keep the target.
LEMMA ProbeKeeps ==
  ASSUME StatusInv, NEW k \in Keys, Probe(k)
  PROVE  StatusInv'
<1>1. check \in [Keys -> Checks] /\ check[k] \in Checks /\ Bound(check[k], k)
  BY DEF StatusInv, StatusTypes
<1>2. CASE PickTarget(k)
  <2>1. CASE Current[k] = {}
    BY <1>2, <2>1, EndsKeeps DEF PickTarget
  <2>2. CASE Current[k] # {}
    <3> DEFINE d == [check[k] EXCEPT !.at = "picked", !.ids = Current[k], !.gen = generation]
    <3>1. check' = [check EXCEPT ![k] = d] /\ UNCHANGED generation
      BY <1>1, <1>2, <2>2 DEF PickTarget
    <3>2. generation \in Nat /\ generation \in DOMAIN Configs
      BY DEF StatusInv, StatusTypes
    <3>3. Current[k] \in SUBSET Ids
      BY <3>2, StatusAssumption DEF StatusAssumption, Current
    <3>4. d \in Checks
      BY <1>1, <3>2, <3>3 DEF Checks, Picked
    <3>5. d.at = "picked" /\ d.ids = Configs[generation][k] /\ d.gen = generation
      BY <1>1 DEF Checks, Current
    <3>6. Bound(d, k)
      BY <3>2, <3>5 DEF Bound, WritingPlaces
    <3>7. QED
      BY <3>1, <3>4, <3>6, OneCheck
  <2>3. QED
    BY <2>1, <2>2
<1>3. CASE TakeGuard(k)
  <2>1. PICK place \in {"dial", "inspect"} : check' = [check EXCEPT ![k].at = place]
    BY <1>3 DEF TakeGuard
  <2>2. check' = [check EXCEPT ![k] = [check[k] EXCEPT !.at = place, !.status = check[k].status]]
    BY <1>1, <2>1 DEF Checks
  <2>3. check[k].at \in Picked /\ check[k].status \in Verdicts /\ UNCHANGED generation
    BY <1>1, <1>3 DEF TakeGuard, Picked, Checks
  <2>4. QED
    BY <2>2, <2>3, MovesOn
<1>4. CASE LookOnly(k)
  <2>1. check[k].at \in Picked /\ UNCHANGED generation
    BY <1>4 DEF LookOnly, Picked
  <2>2. Judge(k, "online") \/ Judge(k, "offline") \/ Ends(k)
    BY <1>4 DEF LookOnly, HealthyNow, Inconclusive
  <2>3. QED
    BY <2>1, <2>2, JudgeKeeps, EndsKeeps
<1>5. CASE Inspect(k)
  <2>1. check[k].at \in Picked /\ UNCHANGED generation
    BY <1>5 DEF Inspect, Picked
  <2>2. Judge(k, "online") \/ Ends(k) \/ check' = [check EXCEPT ![k].at = "dial"]
    BY <1>5 DEF Inspect, HealthyNow, Inconclusive
  <2>3. CASE check' = [check EXCEPT ![k].at = "dial"]
    <3>1. check' = [check EXCEPT ![k] = [check[k] EXCEPT !.at = "dial", !.status = check[k].status]]
      BY <1>1, <2>3 DEF Checks
    <3>2. check[k].status \in Verdicts
      BY <1>1 DEF Checks
    <3>3. QED
      BY <2>1, <3>1, <3>2, MovesOn
  <2>4. QED
    BY <2>1, <2>2, <2>3, JudgeKeeps, EndsKeeps
<1>6. CASE DialFails(k)
  <2>1. check[k].at \in Picked /\ UNCHANGED generation /\ (Judge(k, "offline") \/ Ends(k))
    BY <1>6 DEF DialFails, Inconclusive, Picked
  <2>2. QED
    BY <2>1, JudgeKeeps, EndsKeeps
<1>7. CASE DialSucceeds(k)
  <2>1. check[k].at \in Picked /\ UNCHANGED generation /\ (Judge(k, "online") \/ Ends(k))
    BY <1>7 DEF DialSucceeds, Inconclusive, Picked
  <2>2. QED
    BY <2>1, JudgeKeeps, EndsKeeps
<1>8. CASE DialWithoutKeepalive(k)
  BY <1>8, EndsKeeps DEF DialWithoutKeepalive, Inconclusive
<1>9. QED
  BY <1>2, <1>3, <1>4, <1>5, <1>6, <1>7, <1>8 DEF Probe

\* Only what is bound is accepted, and the IDs of the round are then those of the check.
LEMMA VerdictKeeps ==
  ASSUME StatusInv, NEW k \in Keys,
         Accept(k) \/ WriteNext(k) \/ \E i \in Ids : Set(k, i) \/ SetFails(k, i)
  PROVE  StatusInv'
<1>1. check \in [Keys -> Checks] /\ check[k] \in Checks /\ Bound(check[k], k)
  BY DEF StatusInv, StatusTypes
<1>2. CASE Accept(k)
  <2>1. CASE check[k].gen = generation /\ SameBinding(k)
    <3> DEFINE d == [check[k] EXCEPT !.at = "writing", !.left = round.targets[k]]
    <3>1. check' = [check EXCEPT ![k] = d] /\ UNCHANGED generation /\ check[k].at = "judged"
      BY <1>1, <1>2, <2>1 DEF Accept
    <3>2. round.targets[k] = check[k].ids
      BY <2>1 DEF SameBinding
    <3>3. d \in Checks
      BY <1>1, <3>2 DEF Checks, Picked
    <3>4. d.at = "writing" /\ d.ids = check[k].ids /\ d.gen = check[k].gen /\ d.left = check[k].ids
      BY <1>1, <3>2 DEF Checks
    <3>5. Bound(d, k)
      BY <1>1, <3>1, <3>4 DEF Bound, Picked
    <3>6. QED
      BY <3>1, <3>3, <3>5, OneCheck
  <2>2. CASE ~(check[k].gen = generation /\ SameBinding(k))
    BY <1>2, <2>2, EndsKeeps DEF Accept
  <2>3. QED
    BY <2>1, <2>2
<1>3. CASE WriteNext(k)
  <2>1. CASE check[k].left = {} \/ check[k].gen # generation
    BY <1>3, <2>1, EndsKeeps DEF WriteNext
  <2>2. CASE ~(check[k].left = {} \/ check[k].gen # generation)
    <3> DEFINE d == [check[k] EXCEPT !.at = "set"]
    <3>1. check' = [check EXCEPT ![k] = d] /\ UNCHANGED generation /\ check[k].at = "writing"
      BY <1>1, <1>3, <2>2 DEF WriteNext
    <3>2. d \in Checks
      BY <1>1 DEF Checks, Picked
    <3>3. d.at = "set" /\ d.ids = check[k].ids /\ d.gen = check[k].gen /\ d.left = check[k].left
      BY <1>1 DEF Checks
    <3>4. Bound(d, k)
      BY <1>1, <3>1, <3>3 DEF Bound, Picked, WritingPlaces
    <3>5. QED
      BY <3>1, <3>2, <3>4, OneCheck
  <2>3. QED
    BY <2>1, <2>2
<1>4. CASE \E i \in Ids : Set(k, i) \/ SetFails(k, i)
  <2>1. PICK i \in Ids : Set(k, i) \/ SetFails(k, i)
    BY <1>4
  <2> DEFINE d == [check[k] EXCEPT !.at = "writing", !.left = check[k].left \ {i}]
  <2>2. check' = [check EXCEPT ![k] = d] /\ UNCHANGED generation /\ check[k].at = "set"
    BY <1>1, <2>1 DEF Set, SetFails
  <2>3. d \in Checks
    BY <1>1 DEF Checks, Picked
  <2>4. /\ d.at = "writing" /\ d.ids = check[k].ids /\ d.gen = check[k].gen
        /\ d.left = check[k].left \ {i}
    BY <1>1 DEF Checks
  <2>5. Bound(d, k)
    BY <1>1, <2>2, <2>4 DEF Bound, Picked, WritingPlaces
  <2>6. QED
    BY <2>2, <2>3, <2>5, OneCheck
<1>5. QED
  BY <1>2, <1>3, <1>4

\* Every step of the rounds, the checks and the configuration keeps the invariant.
LEMMA StatusStep ==
  ASSUME StatusInv, [StatusNext]_statusVars
  PROVE  StatusInv'
<1>1. check \in [Keys -> Checks] /\ generation \in Nat /\ generation \in DOMAIN Configs
  BY DEF StatusInv, StatusTypes
<1>2. CASE Refresh
  <2>1. generation' = generation + 1 /\ generation < Len(Configs) /\ UNCHANGED check
    BY <1>2 DEF Refresh
  <2>2. generation' \in Nat /\ generation' \in DOMAIN Configs
    BY <1>1, <2>1, StatusAssumption DEF StatusAssumption
  <2>3. \A k \in Keys : Bound(check[k], k)'
    BY <2>1 DEF StatusInv, Bound
  <2>4. QED
    BY <1>1, <2>1, <2>2, <2>3 DEF StatusInv, StatusTypes
<1>3. CASE \/ Purge \/ RoundStarts \/ AllStarted \/ RoundEnds \/ UNCHANGED statusVars
           \/ \E i \in Ids : Expire(i)
  BY <1>3, NothingChecked DEF Purge, RoundStarts, AllStarted, RoundEnds, statusVars, Expire
<1>4. CASE \E k \in Shared : \/ BusinessBegins(k) \/ BusinessDials(k) \/ BusinessResets(k)
                             \/ BusinessEnds(k) \/ Weather(k)
  BY <1>4, NothingChecked
  DEF BusinessBegins, BusinessDials, BusinessResets, BusinessEnds, Weather, conns
<1>5. CASE \E k \in Keys : CheckStarts(k)
  <2>1. PICK k \in Keys : CheckStarts(k)
    BY <1>5
  <2>2. /\ [Idle EXCEPT !.at = "begin"] \in Checks /\ Bound([Idle EXCEPT !.at = "begin"], k)
    BY DEF Idle, Checks, Verdicts, Bound, Picked, WritingPlaces
  <2>3. check' = [check EXCEPT ![k] = [Idle EXCEPT !.at = "begin"]] /\ UNCHANGED generation
    BY <2>1 DEF CheckStarts
  <2>4. QED
    BY <2>2, <2>3, OneCheck
<1>6. CASE \E k \in Keys : CheckStep(k)
  BY <1>6, ProbeKeeps, VerdictKeeps DEF CheckStep
<1>7. QED
  BY <1>2, <1>3, <1>4, <1>5, <1>6 DEF StatusNext

\* Only the writing of a status and its expiry change one, and the first takes one ID off
\* what its own check has left.
LEMMA WrittenIsOwn ==
  ASSUME StatusInv, [StatusNext]_statusVars,
         NEW k \in Keys, NEW i \in check[k].left \ check'[k].left, redis'[i] # redis[i]
  PROVE  i \in Configs[check[k].gen][k]
<1>1. check \in [Keys -> Checks] /\ check[k] \in Checks /\ Bound(check[k], k)
  BY DEF StatusInv, StatusTypes
<1>2. check' # check /\ redis' # redis
  OBVIOUS
<1>3. PICK j \in Keys, h \in Ids : Set(j, h)
  <2>1. ~ UNCHANGED redis /\ ~ UNCHANGED check
    BY <1>2
  <2>2. /\ ~Refresh /\ ~Purge /\ ~RoundStarts /\ ~AllStarted /\ ~RoundEnds
        /\ ~UNCHANGED statusVars /\ ~ \E g \in Ids : Expire(g)
    BY <2>1 DEF Refresh, Purge, RoundStarts, AllStarted, RoundEnds, statusVars, Expire
  <2>3. ~ \E g \in Shared : \/ BusinessBegins(g) \/ BusinessDials(g) \/ BusinessResets(g)
                            \/ BusinessEnds(g) \/ Weather(g)
    BY <2>1 DEF BusinessBegins, BusinessDials, BusinessResets, BusinessEnds, Weather
  <2>4. ASSUME NEW g \in Keys PROVE ~CheckStarts(g) /\ ~Probe(g)
    BY <2>1 DEF CheckStarts, Probe, PickTarget, TakeGuard, LookOnly, Inspect, DialFails,
                DialSucceeds, DialWithoutKeepalive
  <2>5. ASSUME NEW g \in Keys, NEW h \in Ids
        PROVE  ~Accept(g) /\ ~WriteNext(g) /\ ~SetFails(g, h)
    BY <2>1 DEF Accept, WriteNext, SetFails
  <2>6. PICK g \in Keys : CheckStep(g)
    BY <2>2, <2>3, <2>4 DEF StatusNext
  <2>7. ~Accept(g) /\ ~WriteNext(g)
    BY <2>1 DEF Accept, WriteNext
  <2>8. QED
    BY <2>4, <2>5, <2>6, <2>7 DEF CheckStep
<1>4. /\ check[j].at = "set"
      /\ check' = [check EXCEPT ![j].at = "writing", ![j].left = @ \ {h}]
  BY <1>3 DEF Set
<1>5. j = k
  BY <1>1, <1>4
<1>6. check[k].at = "set" /\ i \in check[k].left
  BY <1>4, <1>5
<1>7. QED
  BY <1>1, <1>6 DEF Bound, Picked, WritingPlaces

\* Whatever the configuration does between a round's snapshot and the write of a verdict, an
\* ID's status is written only by the check of a gateway that the ID belongs to in the
\* configuration the check has picked (gateway_status_publisher.go).
THEOREM NoForeignStatusHolds == StatusSpec => NoForeignStatus
<1>1. StatusInit => StatusInv
  BY StatusInitInv
<1>2. StatusInv /\ [StatusNext]_statusVars => StatusInv'
  BY StatusStep
<1>3. StatusInv /\ [StatusNext]_statusVars =>
        [\A k \in Keys : \A i \in check[k].left \ check'[k].left :
           redis'[i] # redis[i] => i \in Configs[check[k].gen][k]]_statusVars
  BY WrittenIsOwn
<1>4. QED
  BY <1>1, <1>2, <1>3, PTL DEF StatusSpec, NoForeignStatus

-----------------------------------------------------------------------------
(* Loading the configuration. *)

\* A worker is known by its serial number and protocol.
Keyed == Serials \X Protocols

Slots == Snapshots \cup {NoSnapshot}

\* Where a load has begun, where it has swapped the snapshots, and where it holds m.mu.
Removing == {"remove", "removing"}

Starting == {"start", "restarting"}

UpdatePlaces == Removing \cup Starting

Synced == UpdatePlaces \cup {"update"}

Stored == Synced \cup {"sync", "init", "refresh"}

Swapped == Stored \cup {"store"}

LoadPlaces == Swapped \cup {"copy", "rebuild", "swap"}

Waiting == {"removing", "restarting"}

Loads == [at : LoadPlaces \cup {"idle", "done", "read"}, version : Nat, copy : [Serials -> Slots],
          todo : SUBSET Keyed, key : Keyed \cup {<<>>}, alone : BOOLEAN]

Contents == [id : DeviceIds \cup {"none"}, names : Nat, points : SUBSET DevicePoints]

WorkerStates == [at : {"none", "run", "record"}, version : Nat, ref : Slots,
                 cancelled : BOOLEAN, shown : BOOLEAN]

ReloadTypes ==
  /\ config \in Histories /\ published \in Nat /\ published \in DOMAIN config
  /\ loader \in [Loaders -> Loads]
  /\ snapshots \in [Serials -> Slots] /\ content \in [Snapshots -> Contents]
  /\ worker \in [Keyed -> WorkerStates]
  /\ keys \in [DeviceIds -> Contents]
  /\ complete \in BOOLEAN

LoadInv ==
  \A l \in Loaders :
    /\ loader[l].at \in LoadPlaces =>
         loader[l].version \in DOMAIN config /\ loader[l].version <= published
    /\ loader[l].at \in Waiting => loader[l].key \in loader[l].todo

\* A worker that runs has its device in its version, refers to a snapshot while it
\* records, and is cancelled only by an update that waits for it.
WorkerInv ==
  \A k \in Keyed :
    /\ worker[k].at # "none" =>
         /\ worker[k].version \in DOMAIN config /\ worker[k].version <= published
         /\ k \in Specs(worker[k].version)
    /\ worker[k].at = "record" <=> worker[k].ref # NoSnapshot
    /\ worker[k].cancelled =>
         /\ worker[k].at # "none"
         /\ \E l \in Loaders : loader[l].at \in Waiting /\ loader[l].key = k

\* One update at a time, and one worker of a serial number.
OneUpdate ==
  /\ \A l, m \in Loaders : loader[l].at \in UpdatePlaces /\ loader[m].at \in UpdatePlaces => l = m
  /\ \A j, k \in RunningWorkers : j[1] = k[1] => j = k

\* What an update has done: of the workers to be removed ...
RemovalAt(l) ==
  /\ RunningWorkers \ loader[l].todo \subseteq Specs(loader[l].version)
  /\ \A k \in loader[l].todo :
       /\ k \in RunningWorkers \/ (loader[l].at = "removing" /\ k = loader[l].key)
       /\ k \notin Specs(loader[l].version)
       /\ \A j \in RunningWorkers : j[1] = k[1] => j = k

RemovalInv == \A l \in Loaders : loader[l].at \in Removing => RemovalAt(l)

\* ... and of those to be started again.
StartAt(l) ==
  /\ RunningWorkers \subseteq Specs(loader[l].version)
  /\ loader[l].todo \subseteq Specs(loader[l].version)
  /\ \A k \in Specs(loader[l].version) \ loader[l].todo :
       k \in RunningWorkers /\ worker[k].version = loader[l].version

StartInv == \A l \in Loaders : loader[l].at \in Starting => StartAt(l)

\* Whatever refers to a snapshot does so for one serial number.
Refers(s, x) ==
  \/ snapshots[s] = x
  \/ \E l \in Loaders : loader[l].copy[s] = x
  \/ \E p \in Protocols : worker[<<s, p>>].ref = x

OwnSerial ==
  \A x \in Snapshots : \A s, t \in Serials : Refers(s, x) /\ Refers(t, x) => s = t

Shows(x, s, v) ==
  /\ x \in Snapshots /\ s \in DevicesOf(v)
  /\ content[x].id = config[v][s].id
  /\ content[x].names \in {0, v}

\* The snapshots are those of version v, but for devices that went whose worker has
\* still to be removed.
SnapshotsAt(v, leaving) ==
  \A s \in Serials : snapshots[s] # NoSnapshot =>
    Shows(snapshots[s], s, v) \/ (s \notin DevicesOf(v) /\ s \in leaving)

\* The workers of version v that have been started, all but those of todo.
WorkersAt(v, todo) ==
  \A k \in Specs(v) \ todo :
    k \in RunningWorkers /\ worker[k].version = v /\ worker[k].ref \in {NoSnapshot, snapshots[k[1]]}

Leaving(l) ==
  IF loader[l].at \in Starting THEN {}
  ELSE IF loader[l].at \in Removing THEN {k[1] : k \in loader[l].todo}
  ELSE {k[1] : k \in RunningWorkers}

\* A load that no other overlaps.
AloneAt(l) ==
  LET v == loader[l].version
  IN
  /\ loader[l].at \in LoadPlaces
  /\ \A m \in Loaders \ {l} : loader[m].at \notin LoadPlaces
  /\ loader[l].at = "swap" =>
       \A s \in Serials : loader[l].copy[s] # NoSnapshot \/ s \in DevicesOf(v) =>
         Shows(loader[l].copy[s], s, v)
  /\ loader[l].at \in Swapped =>
       /\ SnapshotsAt(v, Leaving(l))
       /\ \A k \in RunningWorkers :
            k[1] \in DevicesOf(v) /\ worker[k].version # v => snapshots[k[1]] # NoSnapshot
  /\ loader[l].at \in Stored => iotCfg = v
  /\ loader[l].at \in Synced => poolVersion = v
  /\ loader[l].at \in Starting => WorkersAt(v, loader[l].todo)

AloneInv == \A l \in Loaders : loader[l].alone => AloneAt(l)

CompleteInv ==
  complete =>
    /\ \A l \in Loaders : loader[l].at \notin LoadPlaces
    /\ iotCfg \in DOMAIN config /\ poolVersion = iotCfg
    /\ RunningWorkers = Specs(iotCfg)
    /\ WorkersAt(iotCfg, {})
    /\ SnapshotsAt(iotCfg, {})

\* The keys.
KeysAt(v, todo) ==
  \A k \in Specs(v) \ todo : worker[k].shown =>
    /\ snapshots[k[1]] # NoSnapshot
    /\ keys[config[v][k[1]].id] = content[snapshots[k[1]]]

KeysOf(l) ==
  /\ \A k \in RunningWorkers : worker[k].version <= loader[l].version
  /\ loader[l].at \in Starting => KeysAt(loader[l].version, loader[l].todo)

KeysInv ==
  /\ \A l \in Loaders : loader[l].alone => KeysOf(l)
  /\ complete => KeysAt(iotCfg, {})

\* A version gives each serial number a device or none.
LEMMA ReloadVersions ==
  ASSUME config \in Histories
  PROVE  \A v \in DOMAIN config : config[v] \in [Serials -> Device \cup {NoDevice}]
<1>1. config \in Seq([Serials -> Device \cup {NoDevice}])
  BY ReloadAssumption DEF ReloadAssumption
<1>2. QED
  BY <1>1

\* The workers of a version: one of each serial number that has a device.
LEMMA SpecsOfVersion ==
  ASSUME config \in Histories, NEW v \in DOMAIN config
  PROVE  /\ Specs(v) \subseteq Keyed
         /\ \A k \in Keyed : k \in Specs(v) <=>
              k[1] \in DevicesOf(v) /\ k[2] = config[v][k[1]].protocol
         /\ \A s \in DevicesOf(v) :
              /\ s \in Serials /\ config[v][s] \in Device
              /\ <<s, config[v][s].protocol>> \in Specs(v)
         /\ \A j, k \in Specs(v) : j[1] = k[1] => j = k
<1>1. config[v] \in [Serials -> Device \cup {NoDevice}]
  BY ReloadVersions
<1>2. \A s \in DevicesOf(v) : s \in Serials /\ config[v][s] \in Device
                              /\ config[v][s].protocol \in Protocols
  BY <1>1 DEF DevicesOf, Device
<1>3. \A k \in Specs(v) : \E s \in DevicesOf(v) : k = <<s, config[v][s].protocol>>
  BY DEF Specs
<1>4. \A s \in DevicesOf(v) : <<s, config[v][s].protocol>> \in Specs(v)
  BY DEF Specs
<1>5. Specs(v) \subseteq Keyed
  BY <1>2, <1>3 DEF Keyed
<1>6. ASSUME NEW k \in Keyed
      PROVE  k \in Specs(v) <=> k[1] \in DevicesOf(v) /\ k[2] = config[v][k[1]].protocol
  <2>1. k = <<k[1], k[2]>>
    BY DEF Keyed
  <2>2. QED
    BY <1>3, <1>4, <2>1
<1>7. QED
  BY <1>2, <1>3, <1>4, <1>5, <1>6

\* The fields of a load.
LEMMA FieldsOfLoad ==
  ASSUME ReloadTypes, NEW l \in Loaders
  PROVE  /\ loader[l] \in Loads
         /\ loader[l].at \in LoadPlaces \cup {"idle", "done", "read"}
         /\ loader[l].version \in Nat /\ loader[l].copy \in [Serials -> Slots]
         /\ loader[l].todo \in SUBSET Keyed /\ loader[l].key \in Keyed \cup {<<>>}
         /\ loader[l].alone \in BOOLEAN
BY DEF ReloadTypes, Loads

\* The fields of a worker.
LEMMA FieldsOfWorker ==
  ASSUME ReloadTypes, NEW k \in Keyed
  PROVE  /\ worker[k] \in WorkerStates /\ worker[k].at \in {"none", "run", "record"}
         /\ worker[k].version \in Nat /\ worker[k].ref \in Slots
         /\ worker[k].cancelled \in BOOLEAN /\ worker[k].shown \in BOOLEAN
BY DEF ReloadTypes, WorkerStates

\* NoLoad is a load of no use, and a worker that is gone is none.
LEMMA Blanks ==
  /\ NoSnapshots \in [Serials -> Slots] /\ NoLoad \in Loads
  /\ \A l \in Loaders : Over(l) = [NoLoad EXCEPT !.at = IF l = "boot" THEN "done" ELSE "idle"]
  /\ NoWorker \in WorkerStates /\ Unwritten \in Contents
<1>1. NoSnapshots \in [Serials -> Slots]
  BY DEF NoSnapshots, Slots
<1>2. QED
  BY <1>1 DEF NoLoad, Loads, Over, NoWorker, WorkerStates, Slots, Unwritten, Contents

\* A snapshot that is referred to keeps its content, any other may lose it.
LEMMA CollectedKeeps ==
  ASSUME NEW c \in [Snapshots -> Contents]
  PROVE  /\ Collected(c) \in [Snapshots -> Contents]
         /\ \A x \in Snapshots : x \in Referenced' => Collected(c)[x] = c[x]
BY Blanks DEF Collected

\* A snapshot is garbage when it is referred to for no serial number.
LEMMA RefersReferenced ==
  ASSUME ReloadTypes, NEW x \in Snapshots
  PROVE  x \in Referenced <=> \E s \in Serials : Refers(s, x)
<1>1. snapshots \in [Serials -> Slots] /\ DOMAIN worker = Serials \X Protocols
  BY DEF ReloadTypes, Keyed
<1>2. \A l \in Loaders : DOMAIN loader[l].copy = Serials
  BY FieldsOfLoad
<1>3. ASSUME x \in Referenced PROVE \E s \in Serials : Refers(s, x)
  <2>1. CASE x \in Range(snapshots)
    BY <1>1, <2>1 DEF Range, Refers
  <2>2. CASE x \in UNION {Range(loader[l].copy) : l \in Loaders}
    <3>1. PICK l \in Loaders : x \in Range(loader[l].copy)
      BY <2>2
    <3>2. PICK s \in Serials : loader[l].copy[s] = x
      BY <1>2, <3>1 DEF Range
    <3>3. QED
      BY <3>2 DEF Refers
  <2>3. CASE x \in {worker[k].ref : k \in DOMAIN worker}
    <3>1. PICK s \in Serials, p \in Protocols : worker[<<s, p>>].ref = x
      BY <1>1, <2>3
    <3>2. QED
      BY <3>1 DEF Refers
  <2>4. QED
    BY <1>3, <2>1, <2>2, <2>3 DEF Referenced
<1>4. ASSUME NEW s \in Serials, Refers(s, x) PROVE x \in Referenced
  <2>1. CASE snapshots[s] = x
    BY <1>1, <2>1 DEF Range, Referenced
  <2>2. CASE \E l \in Loaders : loader[l].copy[s] = x
    <3>1. PICK l \in Loaders : loader[l].copy[s] = x
      BY <2>2
    <3>2. x \in Range(loader[l].copy)
      BY <1>2, <3>1 DEF Range
    <3>3. QED
      BY <3>2 DEF Referenced
  <2>3. CASE \E p \in Protocols : worker[<<s, p>>].ref = x
    BY <1>1, <2>3 DEF Referenced
  <2>4. QED
    BY <1>4, <2>1, <2>2, <2>3 DEF Refers
<1>5. QED
  BY <1>3, <1>4

\* The serial numbers of a version that keep a snapshot have their own, the others get
\* one each that nothing refers to.
LEMMA RebuildMakes ==
  ASSUME ReloadTypes, LoadInv, OwnSerial, NEW l \in Loaders, Rebuild(l)
  PROVE  \E built \in [Serials -> Slots] :
           LET v == loader[l].version
               devices == DevicesOf(v)
           IN  /\ v \in DOMAIN config
               /\ loader' = [loader EXCEPT ![l].at = "swap", ![l].copy = built]
               /\ \A s \in Serials : IF s \in devices THEN built[s] \in Snapshots
                                     ELSE built[s] = NoSnapshot
               /\ \A s, t \in devices : built[s] = built[t] => s = t
               /\ \A s \in devices : built[s] # loader[l].copy[s] => built[s] \notin Referenced
               /\ content' \in [Snapshots -> Contents]
               /\ \A s \in devices : content'[built[s]] =
                    [id |-> config[v][s].id, names |-> v, points |-> {}]
               /\ \A x \in Snapshots : x \in Referenced' /\ (\A s \in devices : built[s] # x)
                    => content'[x] = content[x]
<1> DEFINE v == loader[l].version
           copy == loader[l].copy
           devices == DevicesOf(v)
           kept == {s \in devices : Kept(l, s)}
           fresh == SetToSeq(FreshSnapshots)
           rest == devices \ kept
           new == SetToSeq(rest)
           nth(s) == CHOOSE i \in DOMAIN new : new[i] = s
           built == [s \in Serials |->
                       IF s \in kept THEN copy[s]
                       ELSE IF s \in devices THEN fresh[nth(s)]
                       ELSE NoSnapshot]
           given == [x \in Snapshots |->
                       IF \E s \in devices : built[s] = x
                         THEN [id |-> config[v][CHOOSE s \in devices : built[s] = x].id,
                               names |-> v, points |-> {}]
                         ELSE content[x]]
<1>1. /\ loader[l].at = "rebuild" /\ Len(new) <= Len(fresh)
      /\ loader' = [loader EXCEPT ![l].at = "swap", ![l].copy = built]
      /\ content' = Collected(given)
      /\ UNCHANGED <<snapshots, worker, config>>
  BY DEF Rebuild
<1>2. /\ v \in DOMAIN config /\ v \in Nat /\ copy \in [Serials -> Slots] /\ config \in Histories
      /\ loader \in [Loaders -> Loads] /\ content \in [Snapshots -> Contents]
  BY <1>1, FieldsOfLoad DEF LoadInv, ReloadTypes, LoadPlaces
<1>3. \A s \in devices : s \in Serials /\ config[v][s] \in Device
  BY <1>2, SpecsOfVersion
<1>4. /\ FreshSnapshots \subseteq Snapshots /\ FreshSnapshots \cap Referenced = {}
      /\ IsFiniteSet(FreshSnapshots) /\ IsFiniteSet(rest)
  <2>1. IsFiniteSet(Serials) /\ IsFiniteSet(Snapshots)
    BY ReloadAssumption DEF ReloadAssumption
  <2>2. rest \subseteq Serials
    BY <1>3
  <2>3. QED
    BY <2>1, <2>2, FS_Subset DEF FreshSnapshots
<1>5. PICK n \in Nat : /\ fresh \in [1..n -> FreshSnapshots]
                       /\ \A i, j \in 1..n : fresh[i] = fresh[j] => i = j
  BY <1>4, Enumerates
<1> HIDE DEF kept, devices, rest
<1>6. PICK m \in Nat : /\ new \in [1..m -> rest]
                       /\ \A s \in rest : \E i \in 1..m : new[i] = s
  BY <1>4, Enumerates
<1> HIDE DEF fresh, new
<1>7. Len(fresh) = n /\ Len(new) = m /\ DOMAIN new = 1..m
  BY <1>5, <1>6
<1>8. ASSUME NEW s \in rest PROVE nth(s) \in 1..n /\ new[nth(s)] = s
  <2>1. \E i \in DOMAIN new : new[i] = s
    BY <1>6, <1>7
  <2>2. nth(s) \in DOMAIN new /\ new[nth(s)] = s
    BY <2>1
  <2>3. m <= n
    BY <1>1, <1>7
  <2> HIDE DEF nth
  <2>4. QED
    BY <1>7, <2>2, <2>3
<1> HIDE DEF nth
<1>9. \A s \in devices : s \notin kept => s \in rest
  BY DEF rest
<1>10. \A s \in devices : IF s \in kept THEN built[s] = copy[s] ELSE built[s] = fresh[nth(s)]
  BY <1>3 DEF kept
<1>11. \A s \in kept : s \in devices /\ s \in Serials /\ copy[s] \in Snapshots
  BY <1>2, <1>3 DEF kept, Kept, Slots
<1>12. \A s \in rest : fresh[nth(s)] \in FreshSnapshots
  BY <1>5, <1>8
<1>13. \A s \in Serials : IF s \in devices THEN built[s] \in Snapshots ELSE built[s] = NoSnapshot
  BY <1>4, <1>9, <1>10, <1>11, <1>12
<1>14. built \in [Serials -> Slots]
  BY <1>13 DEF Slots
<1> HIDE DEF built
<1>15. \A s \in kept : copy[s] \in Referenced /\ Refers(s, copy[s])
  <2>1. \A s \in kept : Refers(s, copy[s])
    BY DEF Refers
  <2>2. QED
    BY <1>11, <2>1, RefersReferenced
<1>16. ASSUME NEW s \in devices, NEW t \in devices, built[s] = built[t] PROVE s = t
  <2>1. CASE s \in kept /\ t \in kept
    BY <1>10, <1>11, <1>15, <1>16, <2>1 DEF OwnSerial
  <2>2. CASE s \notin kept /\ t \notin kept
    <3>1. nth(s) = nth(t)
      BY <1>5, <1>8, <1>9, <1>10, <1>16, <2>2
    <3>2. QED
      BY <1>8, <1>9, <2>2, <3>1
  <2>3. CASE (s \in kept) # (t \in kept)
    BY <1>4, <1>9, <1>10, <1>12, <1>15, <1>16, <2>3
  <2>4. QED
    BY <2>1, <2>2, <2>3
<1>17. \A s \in devices : built[s] # copy[s] => built[s] \notin Referenced
  BY <1>4, <1>9, <1>10, <1>12
<1>18. ASSUME NEW s \in devices
       PROVE  /\ built[s] \in Snapshots
              /\ given[built[s]] = [id |-> config[v][s].id, names |-> v, points |-> {}]
  <2>1. built[s] \in Snapshots
    BY <1>3, <1>13
  <2>2. s = CHOOSE t \in devices : built[t] = built[s]
    BY <1>16
  <2> HIDE DEF built
  <2>3. QED
    BY <2>1, <2>2
<1>19. \A x \in Snapshots : (\A s \in devices : built[s] # x) => given[x] = content[x]
  BY DEF given
<1>20. given \in [Snapshots -> Contents]
  <2>1. ASSUME NEW x \in Snapshots PROVE given[x] \in Contents
    <3>1. CASE \E s \in devices : built[s] = x
      <4>1. PICK s \in devices : built[s] = x
        BY <3>1
      <4>2. config[v][s].id \in DeviceIds
        BY <1>3 DEF Device
      <4>3. QED
        <5> DEFINE r == [id |-> config[v][s].id, names |-> v, points |-> {}]
        <5>1. r \in Contents
          BY <1>2, <4>2 DEF Contents
        <5> HIDE DEF given
        <5>2. given[x] = r
          BY <1>18, <4>1
        <5> HIDE DEF r
        <5>3. QED
          BY <5>1, <5>2
    <3>2. CASE ~ \E s \in devices : built[s] = x
      BY <1>2, <1>19, <3>2
    <3>3. QED
      BY <3>1, <3>2
  <2>2. QED
    BY <2>1
<1> HIDE DEF given
<1>21. /\ content' \in [Snapshots -> Contents]
       /\ \A x \in Snapshots : x \in Referenced' => content'[x] = given[x]
  BY <1>1, <1>20, CollectedKeeps
<1>22. ASSUME NEW s \in devices PROVE built[s] \in Referenced'
  <2>1. loader'[l].copy = built
    BY <1>1, <1>2 DEF Loads
  <2>2. built[s] \in Range(loader'[l].copy)
    BY <1>3, <1>14, <2>1 DEF Range
  <2> HIDE DEF built
  <2>3. QED
    BY <2>2 DEF Referenced
<1> HIDE DEF built
<1>23. \A s \in devices : content'[built[s]] = [id |-> config[v][s].id, names |-> v, points |-> {}]
  BY <1>18, <1>21, <1>22
<1>24. \A x \in Snapshots : x \in Referenced' /\ (\A s \in devices : built[s] # x)
         => content'[x] = content[x]
  BY <1>19, <1>21
<1>25. QED
  BY <1>1, <1>2, <1>13, <1>14, <1>16, <1>17, <1>21, <1>23, <1>24 DEF devices

\* A step of one load changes that load alone; what it says of it.
LEMMA LoadUpdated ==
  ASSUME ReloadTypes, NEW l \in Loaders, NEW d, loader' = [loader EXCEPT ![l] = d]
  PROVE  /\ loader'[l] = d /\ \A m \in Loaders \ {l} : loader'[m] = loader[m]
         /\ d \in Loads => loader' \in [Loaders -> Loads]
BY DEF ReloadTypes

\* A step that changes one worker.
LEMMA WorkerUpdated ==
  ASSUME ReloadTypes, NEW k \in Keyed, NEW d, worker' = [worker EXCEPT ![k] = d]
  PROVE  /\ worker'[k] = d /\ \A j \in Keyed \ {k} : worker'[j] = worker[j]
         /\ d \in WorkerStates => worker' \in [Keyed -> WorkerStates]
BY DEF ReloadTypes

\* Read: the load begins with the published version, and it is alone or ends that of the others.
LEMMA ReadMakes ==
  ASSUME ReloadTypes, NEW l \in Loaders, Read(l)
  PROVE  /\ loader' \in [Loaders -> Loads]
         /\ \A m \in Loaders \ {l} :
              /\ loader'[m].at = loader[m].at /\ loader'[m].version = loader[m].version
              /\ loader'[m].copy = loader[m].copy /\ loader'[m].todo = loader[m].todo
              /\ loader'[m].key = loader[m].key /\ loader'[m].alone = FALSE
         /\ loader'[l].at = "copy" /\ loader'[l].version = published
         /\ loader'[l].copy = NoSnapshots /\ loader'[l].todo = {} /\ loader'[l].key = <<>>
         /\ loader'[l].alone = ~ \E m \in Loaders : Loading(m)
<1> DEFINE lone == ~ \E m \in Loaders : Loading(m)
           d == [NoLoad EXCEPT !.at = "copy", !.version = published, !.alone = lone]
<1>1. loader' = [m \in Loaders |-> IF m = l THEN d ELSE [loader[m] EXCEPT !.alone = FALSE]]
  BY DEF Read
<1>2. lone \in BOOLEAN
  OBVIOUS
<1> HIDE DEF lone
<1>3. /\ d.at = "copy" /\ d.version = published /\ d.copy = NoSnapshots /\ d.todo = {}
      /\ d.key = <<>> /\ d.alone = lone
  BY DEF NoLoad
<1>4. d \in Loads
  BY <1>2, Blanks DEF NoLoad, Loads, LoadPlaces, ReloadTypes
<1>5. ASSUME NEW m \in Loaders \ {l}
      PROVE  /\ loader'[m] = [loader[m] EXCEPT !.alone = FALSE] /\ loader'[m] \in Loads
             /\ loader'[m].at = loader[m].at /\ loader'[m].version = loader[m].version
             /\ loader'[m].copy = loader[m].copy /\ loader'[m].todo = loader[m].todo
             /\ loader'[m].key = loader[m].key /\ loader'[m].alone = FALSE
  <2>1. loader[m] \in Loads
    BY FieldsOfLoad
  <2>2. loader'[m] = [loader[m] EXCEPT !.alone = FALSE]
    BY <1>1
  <2>3. QED
    BY <2>1, <2>2 DEF Loads
<1>6. loader'[l] = d
  BY <1>1
<1> HIDE DEF d
<1>7. loader' \in [Loaders -> Loads]
  <2>1. \A m \in Loaders : loader'[m] \in Loads
    BY <1>4, <1>5, <1>6
  <2>2. QED
    BY <1>1, <2>1
<1>8. QED
  BY <1>3, <1>5, <1>6, <1>7 DEF lone

\* A load that ends, or fails, leaves nothing.
LEMMA OverMakes ==
  ASSUME ReloadTypes, NEW l \in Loaders, loader' = [loader EXCEPT ![l] = Over(l)]
  PROVE  /\ loader' \in [Loaders -> Loads]
         /\ \A m \in Loaders \ {l} : loader'[m] = loader[m]
         /\ loader'[l].at \in {"idle", "done"} /\ loader'[l].copy = NoSnapshots
         /\ loader'[l].alone = FALSE
<1>1. /\ Over(l) \in Loads /\ Over(l).at \in {"idle", "done"} /\ Over(l).copy = NoSnapshots
      /\ Over(l).alone = FALSE
  BY Blanks DEF Over, NoLoad, Loads
<1>2. loader'[l] = Over(l) /\ loader' \in [Loaders -> Loads]
  BY <1>1, LoadUpdated
<1>3. \A m \in Loaders \ {l} : loader'[m] = loader[m]
  BY LoadUpdated
<1>4. QED
  BY <1>1, <1>2, <1>3

\* A load's copy of the map changes.
Copied(l, place, c) ==
  /\ loader' \in [Loaders -> Loads]
  /\ \A m \in Loaders \ {l} : loader'[m] = loader[m]
  /\ loader'[l].at = place /\ loader'[l].version = loader[l].version
  /\ loader'[l].copy = c /\ loader'[l].todo = loader[l].todo
  /\ loader'[l].key = loader[l].key /\ loader'[l].alone = loader[l].alone

\* A step that changes the place and the map of one load.
LEMMA CopyMakes ==
  ASSUME ReloadTypes, NEW l \in Loaders, NEW place \in LoadPlaces, NEW c \in [Serials -> Slots],
         loader' = [loader EXCEPT ![l].at = place, ![l].copy = c]
  PROVE  Copied(l, place, c)
<1> DEFINE d == [loader[l] EXCEPT !.at = place, !.copy = c]
<1>1. loader[l] \in Loads /\ loader \in [Loaders -> Loads]
  BY FieldsOfLoad DEF ReloadTypes
<1>2. loader' = [loader EXCEPT ![l] = d]
  BY <1>1
<1>3. d \in Loads
  BY <1>1 DEF Loads
<1>4. loader' \in [Loaders -> Loads] /\ loader'[l] = d
  BY <1>2, <1>3, LoadUpdated
<1>5. \A m \in Loaders \ {l} : loader'[m] = loader[m]
  BY <1>2, LoadUpdated
<1>6. QED
  BY <1>1, <1>4, <1>5 DEF Loads, Copied

\* The steps of update, which change what is to do and for which worker.
Turned(l, place, todo, k) ==
  /\ loader' \in [Loaders -> Loads]
  /\ \A m \in Loaders \ {l} : loader'[m] = loader[m]
  /\ loader'[l].at = place /\ loader'[l].version = loader[l].version
  /\ loader'[l].copy = loader[l].copy /\ loader'[l].todo = todo
  /\ loader'[l].key = k /\ loader'[l].alone = loader[l].alone

\* A step that changes the place, the work left and the key of one load.
LEMMA TurnedLoad ==
  ASSUME ReloadTypes, NEW l \in Loaders, NEW place \in LoadPlaces, NEW todo \in SUBSET Keyed,
         NEW k \in Keyed \cup {<<>>},
         loader' = [loader EXCEPT ![l] = [loader[l] EXCEPT !.at = place, !.todo = todo, !.key = k]]
  PROVE  Turned(l, place, todo, k)
<1> DEFINE d == [loader[l] EXCEPT !.at = place, !.todo = todo, !.key = k]
<1>1. loader[l] \in Loads
  BY FieldsOfLoad
<1>2. d \in Loads
  BY <1>1 DEF Loads
<1>3. loader' \in [Loaders -> Loads] /\ loader'[l] = d
  BY <1>2, LoadUpdated
<1>4. \A m \in Loaders \ {l} : loader'[m] = loader[m]
  BY LoadUpdated
<1>5. QED
  BY <1>1, <1>3, <1>4 DEF Loads, Turned

\* The steps of GetIoTCfg that only go on.
LEMMA MovedLoad ==
  ASSUME ReloadTypes, NEW l \in Loaders, NEW place \in LoadPlaces, Step(l, place)
  PROVE  Turned(l, place, loader[l].todo, loader[l].key)
<1>1. /\ loader \in [Loaders -> Loads] /\ loader[l] \in Loads
      /\ loader[l].todo \in SUBSET Keyed /\ loader[l].key \in Keyed \cup {<<>>}
  BY FieldsOfLoad DEF ReloadTypes
<1>2. [loader[l] EXCEPT !.at = place]
        = [loader[l] EXCEPT !.at = place, !.todo = loader[l].todo, !.key = loader[l].key]
  BY <1>1 DEF Loads
<1>3. QED
  BY <1>1, <1>2, TurnedLoad DEF Step

\* Manager.update first removes the workers that the new version has no device for.
LEMMA LockMakes ==
  ASSUME ReloadTypes, NEW l \in Loaders, LockUpdate(l)
  PROVE  Turned(l, "remove", RunningWorkers \ Specs(loader[l].version), loader[l].key)
<1> DEFINE todo == RunningWorkers \ Specs(loader[l].version)
<1>1. /\ loader \in [Loaders -> Loads] /\ loader[l] \in Loads
      /\ loader[l].key \in Keyed \cup {<<>>}
  BY FieldsOfLoad DEF ReloadTypes
<1>2. todo \in SUBSET Keyed
  BY DEF RunningWorkers, ReloadTypes
<1>3. loader' = [loader EXCEPT ![l].at = "remove", ![l].todo = todo]
  BY DEF LockUpdate
<1> HIDE DEF todo
<1>4. loader' = [loader EXCEPT ![l] =
                  [loader[l] EXCEPT !.at = "remove", !.todo = todo, !.key = loader[l].key]]
  BY <1>1, <1>3 DEF Loads
<1>5. Turned(l, "remove", todo, loader[l].key)
  BY <1>1, <1>2, <1>4, TurnedLoad DEF LoadPlaces, Swapped, Stored, Synced, UpdatePlaces, Removing
<1>6. QED
  BY <1>5 DEF todo

\* It turns to one worker,
LEMMA StopMakes ==
  ASSUME ReloadTypes, NEW l \in Loaders, NEW k \in loader[l].todo, NEW place \in LoadPlaces,
         loader' = [loader EXCEPT ![l].at = place, ![l].key = k]
  PROVE  Turned(l, place, loader[l].todo, k)
<1>1. /\ loader \in [Loaders -> Loads] /\ loader[l] \in Loads
      /\ loader[l].todo \in SUBSET Keyed
  BY FieldsOfLoad DEF ReloadTypes
<1>2. loader' = [loader EXCEPT ![l] =
                  [loader[l] EXCEPT !.at = place, !.todo = loader[l].todo, !.key = k]]
  BY <1>1 DEF Loads
<1>3. QED
  BY <1>1, <1>2, TurnedLoad

\* and away from it,
LEMMA NextMakes ==
  ASSUME ReloadTypes, NEW l \in Loaders, NEW place \in LoadPlaces,
         loader' = [loader EXCEPT ![l].at = place, ![l].todo = @ \ {loader[l].key}, ![l].key = <<>>]
  PROVE  Turned(l, place, loader[l].todo \ {loader[l].key}, <<>>)
<1> DEFINE todo == loader[l].todo \ {loader[l].key}
<1>1. /\ loader \in [Loaders -> Loads] /\ loader[l] \in Loads
      /\ todo \in SUBSET Keyed
  BY FieldsOfLoad DEF ReloadTypes
<1>2. loader' = [loader EXCEPT ![l] = [loader[l] EXCEPT !.at = place, !.todo = todo, !.key = <<>>]]
  BY <1>1 DEF Loads
<1> HIDE DEF todo
<1>3. Turned(l, place, todo, <<>>)
  BY <1>1, <1>2, TurnedLoad
<1>4. QED
  BY <1>3 DEF todo

\* and starts one for every device when none is left to remove.
LEMMA NoneLeftMakes ==
  ASSUME ReloadTypes, LoadInv, NEW l \in Loaders, NoneLeftToRemove(l)
  PROVE  Turned(l, "start", Specs(loader[l].version), loader[l].key)
<1> DEFINE todo == Specs(loader[l].version)
<1>1. /\ loader \in [Loaders -> Loads] /\ loader[l] \in Loads /\ loader[l].at = "remove"
      /\ loader[l].key \in Keyed \cup {<<>>} /\ config \in Histories
  BY FieldsOfLoad DEF ReloadTypes, NoneLeftToRemove
<1>2. loader[l].version \in DOMAIN config
  BY <1>1 DEF LoadInv, LoadPlaces, Swapped, Stored, Synced, UpdatePlaces, Removing
<1>3. todo \in SUBSET Keyed
  BY <1>1, <1>2, SpecsOfVersion
<1>4. loader' = [loader EXCEPT ![l].at = "start", ![l].todo = todo]
  BY DEF NoneLeftToRemove
<1> HIDE DEF todo
<1>5. loader' = [loader EXCEPT ![l] =
                  [loader[l] EXCEPT !.at = "start", !.todo = todo, !.key = loader[l].key]]
  BY <1>1, <1>4 DEF Loads
<1>6. Turned(l, "start", todo, loader[l].key)
  BY <1>1, <1>3, <1>5, TurnedLoad DEF LoadPlaces, Swapped, Stored, Synced, UpdatePlaces, Starting
<1>7. QED
  BY <1>6 DEF todo

\* What a version says does not change.
LEMMA SpecsStay ==
  ASSUME config' = config
  PROVE  \A v : Specs(v)' = Specs(v) /\ DevicesOf(v)' = DevicesOf(v)
BY DEF Specs, DevicesOf

\* The workers that run.
LEMMA RunningFields ==
  ASSUME ReloadTypes
  PROVE  \A k : k \in RunningWorkers <=> k \in Keyed /\ worker[k].at # "none"
BY DEF ReloadTypes, RunningWorkers

SamePhase(m) ==
  /\ loader'[m].at = loader[m].at /\ loader'[m].version = loader[m].version
  /\ loader'[m].todo = loader[m].todo /\ loader'[m].key = loader[m].key

\* Steps outside an update, and those of a worker that goes on.
LEMMA PhasesKept ==
  ASSUME ReloadTypes, ReloadTypes', LoadInv, WorkerInv, OneUpdate, RemovalInv, StartInv,
         config' = config, published <= published',
         \A m \in Loaders :
           \/ SamePhase(m)
           \/ /\ loader[m].at \notin Waiting /\ loader'[m].at \notin UpdatePlaces
              /\ loader'[m].at \in LoadPlaces =>
                   loader'[m].version \in DOMAIN config /\ loader'[m].version <= published',
         \A k \in Keyed :
           /\ worker'[k].at = "none" <=> worker[k].at = "none"
           /\ worker'[k].at = "record" <=> worker'[k].ref # NoSnapshot
           /\ worker'[k].version = worker[k].version /\ worker'[k].cancelled = worker[k].cancelled
  PROVE  LoadInv' /\ WorkerInv' /\ OneUpdate' /\ RemovalInv' /\ StartInv'
<1>1. published \in Nat /\ published' \in Nat
  BY DEF ReloadTypes
<1>2. RunningWorkers' = RunningWorkers
  BY DEF RunningWorkers, ReloadTypes
<1>3. \A v : Specs(v)' = Specs(v)
  BY SpecsStay
<1>4. \A m \in Loaders : /\ loader'[m].at \in UpdatePlaces => SamePhase(m)
                         /\ loader[m].at \in Waiting => SamePhase(m)
                         /\ loader'[m].at \in Waiting => SamePhase(m)
  BY DEF Waiting, UpdatePlaces, Removing, Starting, SamePhase
<1>5. LoadInv'
  <2>1. ASSUME NEW m \in Loaders, loader'[m].at \in LoadPlaces
        PROVE  loader'[m].version \in DOMAIN config' /\ loader'[m].version <= published'
    <3>1. CASE SamePhase(m)
      <4>1. loader[m].version \in DOMAIN config /\ loader[m].version <= published
        BY <2>1, <3>1 DEF SamePhase, LoadInv
      <4>2. loader[m].version \in Nat
        BY FieldsOfLoad
      <4>3. QED
        BY <1>1, <3>1, <4>1, <4>2 DEF SamePhase
    <3>2. CASE ~ SamePhase(m)
      BY <2>1, <3>2
    <3>3. QED
      BY <3>1, <3>2
  <2>2. ASSUME NEW m \in Loaders, loader'[m].at \in Waiting
        PROVE  loader'[m].key \in loader'[m].todo
    BY <1>4, <2>2 DEF LoadInv, SamePhase
  <2>3. QED
    BY <2>1, <2>2 DEF LoadInv
<1>6. WorkerInv'
  <2>1. ASSUME NEW k \in Keyed, worker'[k].at # "none"
        PROVE  /\ worker'[k].version \in DOMAIN config' /\ worker'[k].version <= published'
               /\ k \in Specs(worker[k].version)'
    <3>1. /\ worker[k].version \in DOMAIN config /\ worker[k].version <= published
          /\ k \in Specs(worker[k].version)
      BY <2>1 DEF WorkerInv
    <3>2. worker[k].version \in Nat /\ worker'[k].version = worker[k].version
      BY FieldsOfWorker
    <3>3. QED
      BY <1>1, <1>3, <3>1, <3>2
  <2>2. ASSUME NEW k \in Keyed, worker'[k].cancelled
        PROVE  \E l \in Loaders : loader'[l].at \in Waiting /\ loader'[l].key = k
    <3>1. PICK l \in Loaders : loader[l].at \in Waiting /\ loader[l].key = k
      BY <2>2 DEF WorkerInv
    <3>2. QED
      BY <1>4, <3>1 DEF SamePhase
  <2>3. ASSUME NEW k \in Keyed, worker'[k].cancelled PROVE worker'[k].at # "none"
    BY <2>3 DEF WorkerInv
  <2>4. QED
    BY <2>1, <2>2, <2>3 DEF WorkerInv
<1>7. OneUpdate'
  BY <1>2, <1>4 DEF OneUpdate, SamePhase
<1>8. RemovalInv'
  <2>1. ASSUME NEW l \in Loaders, loader'[l].at \in Removing
        PROVE  loader[l].at \in Removing /\ SamePhase(l)
    BY <1>4, <2>1 DEF SamePhase, UpdatePlaces
  <2>2. QED
    BY <1>2, <1>3, <2>1 DEF RemovalInv, RemovalAt, SamePhase
<1>9. StartInv'
  <2>1. ASSUME NEW l \in Loaders, loader'[l].at \in Starting
        PROVE  loader[l].at \in Starting /\ SamePhase(l)
    BY <1>4, <2>1 DEF SamePhase, UpdatePlaces
  <2>2. \A l \in Loaders : Specs(loader[l].version) \subseteq Keyed \/ loader[l].at \notin Starting
    BY SpecsOfVersion DEF LoadInv, ReloadTypes, LoadPlaces, Swapped, Stored, Synced, UpdatePlaces
  <2>3. ASSUME NEW l \in Loaders, loader'[l].at \in Starting,
               NEW k \in Specs(loader[l].version) \ loader[l].todo
        PROVE  k \in RunningWorkers /\ worker'[k].version = loader[l].version
    BY <2>1, <2>2, <2>3 DEF StartInv, StartAt
  <2>4. QED
    BY <1>2, <1>3, <2>1, <2>3 DEF StartInv, StartAt, SamePhase
<1>10. QED
  BY <1>5, <1>6, <1>7, <1>8, <1>9

\* The places of a load, spelt out.
LEMMA PlacesOfLoad ==
  /\ {"copy", "rebuild", "swap", "store", "sync", "init", "refresh", "update", "remove",
      "removing", "start", "restarting"} = LoadPlaces
  /\ UpdatePlaces = {"remove", "removing", "start", "restarting"}
BY DEF LoadPlaces, Swapped, Stored, Synced, UpdatePlaces, Removing, Starting

\* Each worker of a version has a device in it.
LEMMA DeviceOfWorker ==
  ASSUME ReloadTypes, WorkerInv, NEW k \in Keyed, worker[k].at # "none"
  PROVE  /\ k[1] \in Serials /\ k \in RunningWorkers /\ worker[k].version \in DOMAIN config
         /\ k[1] \in DevicesOf(worker[k].version)
         /\ DeviceOf(k) \in Device /\ DeviceOf(k).id \in DeviceIds
         /\ DeviceOf(k).points \subseteq DevicePoints
         /\ DeviceOf(k).id = config[worker[k].version][k[1]].id
<1>1. k \in Specs(worker[k].version) /\ worker[k].version \in DOMAIN config
  BY DEF WorkerInv
<1>2. k[1] \in DevicesOf(worker[k].version)
  BY <1>1, SpecsOfVersion DEF ReloadTypes
<1>3. k[1] \in Serials /\ DeviceOf(k) \in Device
  BY <1>1, <1>2, SpecsOfVersion DEF ReloadTypes, DeviceOf
<1>4. k \in RunningWorkers
  BY RunningFields
<1>5. QED
  BY <1>1, <1>2, <1>3, <1>4 DEF Device, DeviceOf

\* A record: the worker refers to the serial number's snapshot, or to a new one.
LEMMA EnsureMakes ==
  ASSUME ReloadTypes, WorkerInv, NEW k \in Keyed, EnsureSnapshot(k)
  PROVE  \E x \in Snapshots :
           /\ worker[k].at = "run" /\ worker' \in [Keyed -> WorkerStates]
           /\ \A j \in Keyed \ {k} : worker'[j] = worker[j]
           /\ worker'[k].at = "record" /\ worker'[k].ref = x
           /\ worker'[k].version = worker[k].version
           /\ worker'[k].cancelled = worker[k].cancelled /\ worker'[k].shown = worker[k].shown
           /\ \/ snapshots[k[1]] = x /\ UNCHANGED <<snapshots, content>>
              \/ /\ snapshots[k[1]] = NoSnapshot /\ x \notin Referenced
                 /\ snapshots' \in [Serials -> Slots] /\ snapshots'[k[1]] = x
                 /\ \A s \in Serials \ {k[1]} : snapshots'[s] = snapshots[s]
                 /\ content' \in [Snapshots -> Contents]
                 /\ content'[x] = [id |-> DeviceOf(k).id, names |-> 0, points |-> {}]
                 /\ \A y \in Snapshots \ {x} : content'[y] = content[y]
<1>1. /\ worker[k].at = "run" /\ worker[k] \in WorkerStates /\ k[1] \in Serials
      /\ DeviceOf(k).id \in DeviceIds /\ worker \in [Keyed -> WorkerStates]
      /\ snapshots \in [Serials -> Slots] /\ content \in [Snapshots -> Contents]
  BY FieldsOfWorker, DeviceOfWorker DEF EnsureSnapshot, ReloadTypes
<1>2. ASSUME NEW x \in Snapshots, worker' = [worker EXCEPT ![k].at = "record", ![k].ref = x]
      PROVE  /\ worker' \in [Keyed -> WorkerStates]
             /\ \A j \in Keyed \ {k} : worker'[j] = worker[j]
             /\ worker'[k].at = "record" /\ worker'[k].ref = x
             /\ worker'[k].version = worker[k].version
             /\ worker'[k].cancelled = worker[k].cancelled /\ worker'[k].shown = worker[k].shown
  <2> DEFINE d == [worker[k] EXCEPT !.at = "record", !.ref = x]
  <2>1. worker' = [worker EXCEPT ![k] = d]
    BY <1>1, <1>2
  <2>2. d \in WorkerStates
    BY <1>1 DEF WorkerStates, Slots
  <2>3. worker' \in [Keyed -> WorkerStates] /\ worker'[k] = d
        /\ \A j \in Keyed \ {k} : worker'[j] = worker[j]
    BY <2>1, <2>2, WorkerUpdated
  <2>4. QED
    BY <1>1, <2>3 DEF WorkerStates
<1>3. CASE snapshots[k[1]] # NoSnapshot
  <2>1. snapshots[k[1]] \in Snapshots
    BY <1>1, <1>3 DEF Slots
  <2>2. /\ worker' = [worker EXCEPT ![k].at = "record", ![k].ref = snapshots[k[1]]]
        /\ UNCHANGED <<snapshots, content>>
    BY <1>3 DEF EnsureSnapshot
  <2>3. QED
    BY <1>1, <1>2, <2>1, <2>2
<1>4. CASE snapshots[k[1]] = NoSnapshot
  <2> DEFINE r == [id |-> DeviceOf(k).id, names |-> 0, points |-> {}]
  <2>1. PICK x \in FreshSnapshots :
          /\ worker' = [worker EXCEPT ![k].at = "record", ![k].ref = x]
          /\ snapshots' = [snapshots EXCEPT ![k[1]] = x]
          /\ content' = [content EXCEPT ![x] = r]
    BY <1>4 DEF EnsureSnapshot
  <2>2. x \in Snapshots /\ x \notin Referenced
    BY DEF FreshSnapshots
  <2>3. r \in Contents
    BY <1>1 DEF Contents
  <2> HIDE DEF r
  <2>4. /\ snapshots' \in [Serials -> Slots] /\ snapshots'[k[1]] = x
        /\ \A s \in Serials \ {k[1]} : snapshots'[s] = snapshots[s]
    BY <1>1, <2>1, <2>2 DEF Slots
  <2>5. /\ content' \in [Snapshots -> Contents] /\ content'[x] = r
        /\ \A y \in Snapshots \ {x} : content'[y] = content[y]
    BY <1>1, <2>1, <2>2, <2>3
  <2>6. r = [id |-> DeviceOf(k).id, names |-> 0, points |-> {}]
    BY DEF r
  <2>7. QED
    BY <1>1, <1>2, <1>4, <2>1, <2>2, <2>4, <2>5, <2>6
<1>5. QED
  BY <1>3, <1>4

\* RecordValue: the worker writes what its snapshot shows under its device's ID, and lets go
\* of the snapshot.
LEMMA RecordMakes ==
  ASSUME ReloadTypes, WorkerInv, NEW k \in Keyed, RecordValue(k)
  PROVE  \E r \in Contents :
           /\ worker[k].at = "record" /\ worker[k].ref \in Snapshots
           /\ worker' \in [Keyed -> WorkerStates]
           /\ \A j \in Keyed \ {k} : worker'[j] = worker[j]
           /\ worker'[k].at = "run" /\ worker'[k].ref = NoSnapshot
           /\ worker'[k].version = worker[k].version
           /\ worker'[k].cancelled = worker[k].cancelled
           /\ r.id = content[worker[k].ref].id /\ r.names = content[worker[k].ref].names
           /\ keys' \in [DeviceIds -> Contents]
           /\ worker'[k].shown => keys'[DeviceOf(k).id] = r
           /\ \A i \in DeviceIds : i # DeviceOf(k).id => keys'[i] = keys[i]
           /\ content' \in [Snapshots -> Contents]
           /\ worker[k].ref \in Referenced' => content'[worker[k].ref] = r
           /\ \A y \in Snapshots : y \in Referenced' /\ y # worker[k].ref
                => content'[y] = content[y]
           /\ UNCHANGED <<loader, snapshots>>
<1> DEFINE x == worker[k].ref
<1>1. PICK p \in DeviceOf(k).points, ok \in BOOLEAN :
        LET shown == [content[x] EXCEPT !.points = @ \cup {p}]
        IN  /\ keys' = IF ok THEN [keys EXCEPT ![DeviceOf(k).id] = shown] ELSE keys
            /\ worker' = [worker EXCEPT ![k].at = "run", ![k].ref = NoSnapshot, ![k].shown = ok]
            /\ UNCHANGED <<loader, snapshots>>
            /\ content' = Collected([content EXCEPT ![x] = shown])
  BY DEF RecordValue
<1> DEFINE r == [content[x] EXCEPT !.points = @ \cup {p}]
           d == [worker[k] EXCEPT !.at = "run", !.ref = NoSnapshot, !.shown = ok]
           given == [content EXCEPT ![x] = r]
<1>2. /\ worker[k].at = "record" /\ worker[k] \in WorkerStates
      /\ DeviceOf(k).id \in DeviceIds /\ p \in DevicePoints /\ worker \in [Keyed -> WorkerStates]
      /\ keys \in [DeviceIds -> Contents] /\ content \in [Snapshots -> Contents]
  BY FieldsOfWorker, DeviceOfWorker DEF RecordValue, ReloadTypes
<1>3. x \in Snapshots
  BY <1>2, FieldsOfWorker DEF WorkerInv, Slots
<1>4. content[x] \in Contents
  BY <1>2, <1>3
<1> HIDE DEF x
<1>5. r \in Contents /\ r.id = content[x].id /\ r.names = content[x].names
  BY <1>2, <1>4 DEF Contents
<1>6. d \in WorkerStates
  BY <1>2 DEF WorkerStates, Slots
<1>7. worker' = [worker EXCEPT ![k] = d]
  BY <1>1, <1>2
<1>8. worker' \in [Keyed -> WorkerStates] /\ worker'[k] = d
      /\ \A j \in Keyed \ {k} : worker'[j] = worker[j]
  BY <1>6, <1>7, WorkerUpdated
<1>9. /\ worker'[k].at = "run" /\ worker'[k].ref = NoSnapshot /\ worker'[k].shown = ok
      /\ worker'[k].version = worker[k].version /\ worker'[k].cancelled = worker[k].cancelled
  BY <1>2, <1>8 DEF WorkerStates
<1>10. content' = Collected(given) /\ keys' = IF ok THEN [keys EXCEPT ![DeviceOf(k).id] = r] ELSE keys
  BY <1>1
<1> HIDE DEF r
<1>11. given \in [Snapshots -> Contents] /\ given[x] = r
       /\ \A y \in Snapshots : y # x => given[y] = content[y]
  BY <1>2, <1>3, <1>5
<1> HIDE DEF given
<1>12. content' \in [Snapshots -> Contents] /\ \A y \in Snapshots : y \in Referenced' => content'[y] = given[y]
  BY <1>10, <1>11, CollectedKeeps
<1>13. /\ keys' \in [DeviceIds -> Contents]
       /\ ok => keys'[DeviceOf(k).id] = r
       /\ \A i \in DeviceIds : i # DeviceOf(k).id => keys'[i] = keys[i]
  <2>1. CASE ok
    BY <1>2, <1>5, <1>10, <2>1
  <2>2. CASE ~ ok
    BY <1>2, <1>10, <2>2
  <2>3. QED
    BY <2>1, <2>2
<1> HIDE DEF d
<1>14. worker'[k].shown => keys'[DeviceOf(k).id] = r
  <2>1. CASE ok = TRUE
    BY <1>13, <2>1
  <2>2. CASE ok = FALSE
    BY <1>9, <2>2
  <2>3. QED
    BY <2>1, <2>2
<1>15. /\ x \in Referenced' => content'[x] = r
       /\ \A y \in Snapshots : y \in Referenced' /\ y # x => content'[y] = content[y]
  BY <1>3, <1>11, <1>12
<1>16. UNCHANGED <<loader, snapshots>> /\ x = worker[k].ref
  BY <1>1 DEF x
<1>17. /\ worker'[k].at = "run" /\ worker'[k].ref = NoSnapshot
       /\ worker'[k].version = worker[k].version /\ worker'[k].cancelled = worker[k].cancelled
  BY <1>9
<1>18. /\ worker[k].at = "record" /\ x \in Snapshots /\ worker' \in [Keyed -> WorkerStates]
       /\ \A j \in Keyed \ {k} : worker'[j] = worker[j]
  BY <1>2, <1>3, <1>8
<1>19. /\ keys' \in [DeviceIds -> Contents] /\ content' \in [Snapshots -> Contents]
       /\ \A i \in DeviceIds : i # DeviceOf(k).id => keys'[i] = keys[i]
  BY <1>12, <1>13
<1>20. QED
  BY ONLY <1>5, <1>14, <1>15, <1>16, <1>17, <1>18, <1>19

CancelledOnly(k) ==
  /\ worker' \in [Keyed -> WorkerStates]
  /\ \A j \in Keyed : /\ worker'[j].at = worker[j].at /\ worker'[j].version = worker[j].version
                      /\ worker'[j].ref = worker[j].ref /\ worker'[j].shown = worker[j].shown
  /\ \A j \in Keyed \ {k} : worker'[j].cancelled = worker[j].cancelled

\* stop cancels a worker and changes no other,
LEMMA CancelMakes ==
  ASSUME ReloadTypes, NEW k \in Keyed, worker' = [worker EXCEPT ![k].cancelled = TRUE]
  PROVE  CancelledOnly(k)
<1> DEFINE d == [worker[k] EXCEPT !.cancelled = TRUE]
<1>1. worker[k] \in WorkerStates /\ worker \in [Keyed -> WorkerStates]
  BY FieldsOfWorker DEF ReloadTypes
<1>2. worker' = [worker EXCEPT ![k] = d]
  BY <1>1
<1>3. d \in WorkerStates
  BY <1>1 DEF WorkerStates
<1>4. worker' \in [Keyed -> WorkerStates] /\ worker'[k] = d
      /\ \A j \in Keyed \ {k} : worker'[j] = worker[j]
  BY <1>2, <1>3, WorkerUpdated
<1>5. QED
  BY <1>1, <1>4 DEF WorkerStates, CancelledOnly

\* be it one to be removed
LEMMA StopRemovedMakes ==
  ASSUME ReloadTypes, NEW l \in Loaders, StopRemoved(l)
  PROVE  \E k \in loader[l].todo :
           k \in Keyed /\ CancelledOnly(k) /\ Turned(l, "removing", loader[l].todo, k)
<1>1. PICK k \in loader[l].todo :
        /\ worker' = [worker EXCEPT ![k].cancelled = TRUE]
        /\ loader' = [loader EXCEPT ![l].at = "removing", ![l].key = k]
  BY DEF StopRemoved
<1>2. k \in Keyed /\ "removing" \in LoadPlaces
  BY FieldsOfLoad, PlacesOfLoad
<1>3. CancelledOnly(k)
  BY <1>1, <1>2, CancelMakes
<1>4. Turned(l, "removing", loader[l].todo, k)
  BY <1>1, <1>2, StopMakes
<1>5. QED
  BY <1>2, <1>3, <1>4

\* or one to be started again, which may already be gone.
LEMMA StopStaleMakes ==
  ASSUME ReloadTypes, NEW l \in Loaders, StopStale(l)
  PROVE  \E k \in loader[l].todo :
           /\ k \in Keyed /\ Turned(l, "restarting", loader[l].todo, k)
           /\ CancelledOnly(k)
           /\ k \notin RunningWorkers => worker' = worker
<1>1. PICK k \in loader[l].todo :
        /\ worker' = IF k \in RunningWorkers THEN [worker EXCEPT ![k].cancelled = TRUE] ELSE worker
        /\ loader' = [loader EXCEPT ![l].at = "restarting", ![l].key = k]
  BY DEF StopStale
<1>2. k \in Keyed /\ "restarting" \in LoadPlaces
  BY FieldsOfLoad, PlacesOfLoad
<1>3. CancelledOnly(k)
  <2>1. CASE k \in RunningWorkers
    BY <1>1, <1>2, <2>1, CancelMakes
  <2>2. CASE k \notin RunningWorkers
    <3>1. worker' = worker /\ worker \in [Keyed -> WorkerStates]
      BY <1>1, <2>2 DEF ReloadTypes
    <3>2. QED
      BY <3>1 DEF CancelledOnly
  <2>3. QED
    BY <2>1, <2>2
<1>4. Turned(l, "restarting", loader[l].todo, k)
  BY <1>1, <1>2, StopMakes
<1>5. QED
  BY <1>1, <1>2, <1>3, <1>4

\* A worker that returns leaves nothing behind.
LEMMA LeaveMakes ==
  ASSUME ReloadTypes, NEW k \in Keyed, Leave(k)
  PROVE  /\ worker' \in [Keyed -> WorkerStates]
         /\ \A j \in Keyed \ {k} : worker'[j] = worker[j]
         /\ worker'[k].at = "none" /\ worker'[k].ref = NoSnapshot
         /\ worker'[k].cancelled = FALSE /\ worker'[k].shown = FALSE
<1>1. worker' = [worker EXCEPT ![k] = NoWorker]
  BY DEF Leave
<1>2. /\ worker' \in [Keyed -> WorkerStates] /\ worker'[k] = NoWorker
      /\ \A j \in Keyed \ {k} : worker'[j] = worker[j]
  BY <1>1, Blanks, WorkerUpdated
<1>3. QED
  BY <1>2 DEF NoWorker

\* A worker that is started has the version of the load.
LEMMA StartMakes ==
  ASSUME ReloadTypes, LoadInv, NEW l \in Loaders, StartWorker(l)
  PROVE  LET k == loader[l].key
         IN  /\ k \in Keyed /\ k \in loader[l].todo
             /\ Turned(l, "start", loader[l].todo \ {k}, <<>>)
             /\ worker' \in [Keyed -> WorkerStates]
             /\ \A j \in Keyed \ {k} : worker'[j] = worker[j]
             /\ worker'[k].at = "run" /\ worker'[k].ref = NoSnapshot
             /\ worker'[k].version = loader[l].version
             /\ worker'[k].cancelled = FALSE /\ worker'[k].shown = FALSE
<1> DEFINE k == loader[l].key
           d == [NoWorker EXCEPT !.at = "run", !.version = loader[l].version]
<1>1. k \in Keyed /\ k \in loader[l].todo /\ loader[l].version \in Nat /\ "start" \in LoadPlaces
  BY FieldsOfLoad, PlacesOfLoad DEF StartWorker, LoadInv, Waiting
<1>2. loader' = [loader EXCEPT ![l].at = "start", ![l].todo = @ \ {loader[l].key}, ![l].key = <<>>]
  BY DEF StartWorker
<1>3. Turned(l, "start", loader[l].todo \ {k}, <<>>)
  BY <1>1, <1>2, NextMakes
<1>4. worker' = [worker EXCEPT ![k] = d]
  BY DEF StartWorker
<1>5. /\ d \in WorkerStates /\ d.at = "run" /\ d.ref = NoSnapshot /\ d.version = loader[l].version
      /\ d.cancelled = FALSE /\ d.shown = FALSE
  BY <1>1 DEF NoWorker, WorkerStates, Slots
<1> HIDE DEF d, k
<1>6. /\ worker' \in [Keyed -> WorkerStates] /\ worker'[k] = d
      /\ \A j \in Keyed \ {k} : worker'[j] = worker[j]
  BY <1>1, <1>4, <1>5, WorkerUpdated
<1>7. QED
  BY <1>1, <1>3, <1>5, <1>6 DEF k

\* A removed device's snapshot is taken out of the map.
LEMMA GoneMakes ==
  ASSUME ReloadTypes, LoadInv, NEW l \in Loaders, RemovedIsGone(l)
  PROVE  LET k == loader[l].key
         IN  /\ k \in Keyed /\ k \in loader[l].todo /\ k \notin RunningWorkers
             /\ Turned(l, "remove", loader[l].todo \ {k}, <<>>)
             /\ k[1] \in Serials /\ snapshots' \in [Serials -> Slots] /\ snapshots'[k[1]] = NoSnapshot
             /\ \A s \in Serials \ {k[1]} : snapshots'[s] = snapshots[s]
             /\ content' \in [Snapshots -> Contents]
             /\ \A x \in Snapshots : x \in Referenced' => content'[x] = content[x]
<1> DEFINE k == loader[l].key
<1>1. /\ k \in Keyed /\ k \in loader[l].todo /\ "remove" \in LoadPlaces /\ k \notin RunningWorkers
      /\ snapshots \in [Serials -> Slots] /\ content \in [Snapshots -> Contents]
  BY FieldsOfLoad, PlacesOfLoad DEF RemovedIsGone, LoadInv, Waiting, Gone, ReloadTypes
<1>2. loader' = [loader EXCEPT ![l].at = "remove", ![l].todo = @ \ {loader[l].key}, ![l].key = <<>>]
  BY DEF RemovedIsGone
<1>3. Turned(l, "remove", loader[l].todo \ {k}, <<>>)
  BY <1>1, <1>2, NextMakes
<1>4. k[1] \in Serials /\ snapshots' = [snapshots EXCEPT ![k[1]] = NoSnapshot] /\ content' = Collected(content)
  BY <1>1 DEF Keyed, RemovedIsGone, WithoutSnapshot
<1> HIDE DEF k
<1>5. /\ snapshots' \in [Serials -> Slots] /\ snapshots'[k[1]] = NoSnapshot
      /\ \A s \in Serials \ {k[1]} : snapshots'[s] = snapshots[s]
  BY <1>1, <1>4 DEF Slots
<1>6. /\ content' \in [Snapshots -> Contents]
      /\ \A x \in Snapshots : x \in Referenced' => content'[x] = content[x]
  BY <1>1, <1>4, CollectedKeeps
<1>7. QED
  BY <1>1, <1>3, <1>4, <1>5, <1>6 DEF k

\* SwapSnapshots: the map of the load becomes that of the result writer.
LEMMA SwapMakes ==
  ASSUME ReloadTypes, NEW l \in Loaders, SwapSnapshots(l)
  PROVE  /\ Copied(l, "store", NoSnapshots)
         /\ snapshots' = loader[l].copy /\ snapshots' \in [Serials -> Slots]
         /\ content' \in [Snapshots -> Contents]
         /\ \A x \in Snapshots : x \in Referenced' => content'[x] = content[x]
<1>1. /\ loader' = [loader EXCEPT ![l].at = "store", ![l].copy = NoSnapshots]
      /\ snapshots' = loader[l].copy /\ content' = Collected(content)
  BY DEF SwapSnapshots
<1>2. NoSnapshots \in [Serials -> Slots] /\ "store" \in LoadPlaces
  BY Blanks, PlacesOfLoad
<1>3. loader[l].copy \in [Serials -> Slots] /\ content \in [Snapshots -> Contents]
  BY FieldsOfLoad DEF ReloadTypes
<1>4. /\ content' \in [Snapshots -> Contents]
      /\ \A x \in Snapshots : x \in Referenced' => content'[x] = content[x]
  BY <1>1, <1>3, CollectedKeeps
<1> DEFINE c == NoSnapshots
<1>5. c \in [Serials -> Slots] /\ loader' = [loader EXCEPT ![l].at = "store", ![l].copy = c]
  BY <1>1, <1>2
<1> HIDE DEF c
<1>6. Copied(l, "store", c)
  BY <1>2, <1>5, CopyMakes
<1>7. QED
  BY <1>1, <1>3, <1>4, <1>6 DEF c

\* What the places of the loads and the workers amount to.
Phases == ReloadTypes /\ LoadInv /\ WorkerInv /\ OneUpdate /\ RemovalInv /\ StartInv

\* Publishing and subscribing touch no load and no worker.
LEMMA PublisherPhases ==
  ASSUME Phases, Publish \/ Subscribe \/ SubscriptionLost
  PROVE  Phases' /\ config' = config /\ published <= published'
<1>1. UNCHANGED <<config, loader, snapshots, content, worker, keys, complete>>
  BY DEF Publish, Subscribe, SubscriptionLost
<1>2. published' \in Nat /\ published' \in DOMAIN config /\ published <= published'
  <2>1. config \in Seq([Serials -> Device \cup {NoDevice}])
    BY ReloadAssumption DEF ReloadAssumption, Phases, ReloadTypes
  <2>2. published \in Nat /\ published \in 1 .. Len(config) /\ DOMAIN config = 1 .. Len(config)
    BY <2>1 DEF Phases, ReloadTypes
  <2>3. \/ published' = published
        \/ published' = published + 1 /\ published < Len(config)
    BY DEF Publish, Subscribe, SubscriptionLost, MoreToCome
  <2>4. Len(config) \in Nat
    BY <2>1
  <2>5. QED
    BY <2>2, <2>3, <2>4
<1>3. ReloadTypes'
  BY <1>1, <1>2 DEF Phases, ReloadTypes
<1>4. \A m \in Loaders : SamePhase(m)
  BY <1>1 DEF SamePhase
<1>5. QED
  BY <1>1, <1>2, <1>3, <1>4, PhasesKept DEF Phases, WorkerInv

\* A load that goes on, starts or ends outside an update, and changes no worker.
LEMMA OutsideUpdate ==
  ASSUME Phases, NEW l \in Loaders,
         UNCHANGED <<config, published, worker, keys>>,
         loader' \in [Loaders -> Loads], snapshots' \in [Serials -> Slots],
         content' \in [Snapshots -> Contents], complete' \in BOOLEAN,
         \A m \in Loaders \ {l} : SamePhase(m),
         loader[l].at \notin Waiting, loader'[l].at \notin UpdatePlaces,
         loader'[l].at \in LoadPlaces =>
           loader'[l].version \in DOMAIN config /\ loader'[l].version <= published
  PROVE  Phases'
<1>1. ReloadTypes'
  BY DEF Phases, ReloadTypes
<1>2. published <= published'
  BY DEF Phases, ReloadTypes
<1>3. QED
  BY <1>1, <1>2, PhasesKept DEF Phases, WorkerInv

\* A notification lets the subscriber's goroutine read.
LEMMA NotifiedPhases ==
  ASSUME Phases, Notified
  PROVE  /\ Phases'
         /\ "sub" \in Loaders /\ loader["sub"].at = "idle" /\ loader'["sub"].at = "read"
         /\ loader'["sub"].alone = loader["sub"].alone
         /\ loader'["sub"].copy = loader["sub"].copy
         /\ \A m \in Loaders \ {"sub"} : loader'[m] = loader[m]
<1> DEFINE d == [loader["sub"] EXCEPT !.at = "read"]
<1>1. "sub" \in Loaders
  BY DEF Loaders
<1>2. /\ loader["sub"] \in Loads /\ loader["sub"].at = "idle"
      /\ UNCHANGED <<config, published, snapshots, content, worker, keys, complete>>
  BY <1>1, FieldsOfLoad DEF Phases, Notified
<1>3. loader' = [loader EXCEPT !["sub"] = d]
  BY DEF Notified, Step
<1>4. d \in Loads
  BY <1>2 DEF Loads
<1>5. loader'["sub"] = d /\ loader' \in [Loaders -> Loads]
  BY <1>1, <1>3, <1>4, LoadUpdated DEF Phases
<1>6. \A m \in Loaders \ {"sub"} : loader'[m] = loader[m]
  BY <1>1, <1>3, LoadUpdated DEF Phases
<1>7. /\ loader'["sub"].at = "read" /\ loader'["sub"].alone = loader["sub"].alone
      /\ loader'["sub"].copy = loader["sub"].copy
  BY <1>2, <1>5 DEF Loads
<1>8. "idle" \notin Waiting /\ "read" \notin LoadPlaces /\ "read" \notin UpdatePlaces
  BY PlacesOfLoad DEF Waiting
<1>9. Phases'
  BY <1>1, <1>2, <1>5, <1>6, <1>7, <1>8, OutsideUpdate DEF Phases, ReloadTypes, SamePhase
<1>10. QED
  BY <1>1, <1>2, <1>6, <1>7, <1>9

\* A load that ends or fails.
LEMMA OverPhases ==
  ASSUME Phases, NEW l \in Loaders, LoadFails(l) \/ LoadEnds(l)
  PROVE  Phases'
<1>1. /\ loader' = [loader EXCEPT ![l] = Over(l)] /\ loader[l].at \in {"read", "start"}
      /\ UNCHANGED <<config, published, snapshots, content, worker, keys>>
      /\ complete' \in BOOLEAN
  BY FieldsOfLoad DEF LoadFails, LoadEnds, Phases, ReloadTypes
<1>2. /\ loader' \in [Loaders -> Loads] /\ \A m \in Loaders \ {l} : loader'[m] = loader[m]
      /\ loader'[l].at \in {"idle", "done"}
  BY <1>1, OverMakes DEF Phases
<1>3. /\ loader'[l].at \notin UpdatePlaces /\ loader'[l].at \notin LoadPlaces
      /\ loader[l].at \notin Waiting
  BY <1>1, <1>2, PlacesOfLoad DEF Waiting
<1>4. QED
  BY <1>1, <1>2, <1>3, OutsideUpdate DEF Phases, ReloadTypes, SamePhase

\* A load that begins.
LEMMA ReadPhases ==
  ASSUME Phases, NEW l \in Loaders, Read(l)
  PROVE  Phases'
<1>1. /\ loader[l].at = "read" /\ complete' = FALSE
      /\ UNCHANGED <<config, published, snapshots, content, worker, keys>>
  BY DEF Read
<1>2. /\ loader' \in [Loaders -> Loads] /\ \A m \in Loaders \ {l} : SamePhase(m)
      /\ loader'[l].at = "copy" /\ loader'[l].version = published
  BY ReadMakes DEF Phases, SamePhase
<1>3. "copy" \notin UpdatePlaces /\ "read" \notin Waiting
  BY PlacesOfLoad DEF Waiting
<1>4. published \in DOMAIN config /\ published <= published
  BY DEF Phases, ReloadTypes
<1>5. QED
  BY <1>1, <1>2, <1>3, <1>4, OutsideUpdate DEF Phases, ReloadTypes

\* The steps of a load between reading the configuration and the update.
LEMMA GoneOnPhases ==
  ASSUME Phases, NEW l \in Loaders, loader[l].at \in LoadPlaces, loader[l].at \notin UpdatePlaces,
         UNCHANGED <<config, published, worker, keys, complete>>,
         loader' \in [Loaders -> Loads], snapshots' \in [Serials -> Slots],
         content' \in [Snapshots -> Contents],
         \A m \in Loaders \ {l} : loader'[m] = loader[m],
         loader'[l].version = loader[l].version, loader'[l].at \notin UpdatePlaces
  PROVE  Phases'
<1>1. loader[l].version \in DOMAIN config /\ loader[l].version <= published
  BY DEF Phases, LoadInv
<1>2. loader[l].at \notin Waiting
  BY PlacesOfLoad DEF Waiting
<1>3. QED
  BY <1>1, <1>2, OutsideUpdate DEF Phases, ReloadTypes, SamePhase

\* The steps of a load up to the update.
LEMMA BeforeUpdatePhases ==
  ASSUME Phases, OwnSerial, NEW l \in Loaders,
         CopySnapshots(l) \/ Rebuild(l) \/ SwapSnapshots(l) \/ StoreConfig(l) \/ FindManager(l)
           \/ SyncManager(l)
  PROVE  Phases'
<1>1. /\ snapshots \in [Serials -> Slots] /\ content \in [Snapshots -> Contents] /\ ReloadTypes
      /\ \A place \in {"copy", "rebuild", "swap", "store", "sync", "init", "refresh", "update"} :
           place \in LoadPlaces /\ place \notin UpdatePlaces
  BY PlacesOfLoad DEF Phases, ReloadTypes
<1>2. CASE CopySnapshots(l)
  <2>1. /\ loader[l].at = "copy" /\ loader' = [loader EXCEPT ![l].at = "rebuild", ![l].copy = snapshots]
        /\ UNCHANGED <<config, published, snapshots, content, worker, keys, complete>>
    BY <1>2 DEF CopySnapshots
  <2>2. Copied(l, "rebuild", snapshots)
    BY <1>1, <2>1, CopyMakes
  <2>3. QED
    BY <1>1, <2>1, <2>2, GoneOnPhases DEF Copied
<1>3. CASE Rebuild(l)
  <2>1. /\ loader[l].at = "rebuild"
        /\ UNCHANGED <<config, published, snapshots, worker, keys, complete>>
    BY <1>3 DEF Rebuild
  <2>2. PICK built \in [Serials -> Slots] :
          /\ loader' = [loader EXCEPT ![l].at = "swap", ![l].copy = built]
          /\ content' \in [Snapshots -> Contents]
    BY <1>3, RebuildMakes DEF Phases
  <2>3. Copied(l, "swap", built)
    BY <1>1, <2>2, CopyMakes
  <2>4. QED
    BY <1>1, <2>1, <2>2, <2>3, GoneOnPhases DEF Copied
<1>4. CASE SwapSnapshots(l)
  <2>1. /\ loader[l].at = "swap"
        /\ UNCHANGED <<config, published, worker, keys, complete>>
    BY <1>4 DEF SwapSnapshots
  <2>2. QED
    BY <1>1, <1>4, <2>1, SwapMakes, GoneOnPhases DEF Copied
<1>5. CASE StoreConfig(l) \/ FindManager(l) \/ SyncManager(l)
  <2>1. PICK place \in {"sync", "init", "refresh", "update"} : Step(l, place)
    BY <1>5 DEF StoreConfig, FindManager, SyncManager
  <2>2. /\ loader[l].at \in {"store", "sync", "init", "refresh"}
        /\ UNCHANGED <<config, published, snapshots, content, worker, keys, complete>>
    BY <1>5 DEF StoreConfig, FindManager, SyncManager
  <2>3. Turned(l, place, loader[l].todo, loader[l].key)
    BY <1>1, <2>1, MovedLoad
  <2>4. QED
    BY <1>1, <2>1, <2>2, <2>3, GoneOnPhases DEF Turned
<1>6. QED
  BY <1>2, <1>3, <1>4, <1>5

\* A worker that records stays the worker it was.
LEMMA RecordingPhases ==
  ASSUME Phases, NEW k \in Keyed, EnsureSnapshot(k) \/ RecordValue(k)
  PROVE  Phases' /\ loader' = loader /\ UNCHANGED <<config, published, iotCfg, poolVersion, complete>>
<1>1. UNCHANGED <<config, published, loader, iotCfg, poolVersion, complete>>
  BY DEF EnsureSnapshot, RecordValue
<1>2. ReloadTypes /\ WorkerInv /\ \A m \in Loaders : SamePhase(m)
  BY <1>1 DEF Phases, SamePhase
<1>3. CASE EnsureSnapshot(k)
  <2>1. /\ worker[k].at = "run" /\ worker'[k].at = "record" /\ worker'[k].ref \in Snapshots
        /\ worker'[k].version = worker[k].version /\ worker'[k].cancelled = worker[k].cancelled
        /\ \A j \in Keyed \ {k} : worker'[j] = worker[j]
        /\ worker' \in [Keyed -> WorkerStates]
    BY <1>2, <1>3, EnsureMakes
  <2>2. snapshots' \in [Serials -> Slots] /\ content' \in [Snapshots -> Contents] /\ keys' = keys
    BY <1>2, <1>3, EnsureMakes DEF EnsureSnapshot, ReloadTypes
  <2>3. ReloadTypes'
    BY <1>1, <1>2, <2>1, <2>2 DEF ReloadTypes
  <2>4. NoSnapshot \notin Snapshots /\ published <= published'
    BY <1>1, <1>2, ReloadAssumption DEF ReloadAssumption, ReloadTypes
  <2>5. QED
    BY <1>1, <1>2, <2>1, <2>3, <2>4, PhasesKept DEF Phases, WorkerInv
<1>4. CASE RecordValue(k)
  <2>1. /\ worker[k].at = "record" /\ worker'[k].at = "run" /\ worker'[k].ref = NoSnapshot
        /\ worker'[k].version = worker[k].version /\ worker'[k].cancelled = worker[k].cancelled
        /\ \A j \in Keyed \ {k} : worker'[j] = worker[j]
        /\ worker' \in [Keyed -> WorkerStates]
    BY <1>2, <1>4, RecordMakes
  <2>2. /\ snapshots' = snapshots /\ content' \in [Snapshots -> Contents]
        /\ keys' \in [DeviceIds -> Contents]
    BY <1>2, <1>4, RecordMakes
  <2>3. ReloadTypes'
    BY <1>1, <1>2, <2>1, <2>2 DEF ReloadTypes
  <2>4. published <= published'
    BY <1>1, <1>2 DEF ReloadTypes
  <2>5. QED
    BY <1>1, <1>2, <2>1, <2>3, <2>4, PhasesKept DEF Phases, WorkerInv
<1>5. QED
  BY <1>1, <1>3, <1>4

\* The other load is in no update while this one is.
LEMMA OtherLoads ==
  ASSUME Phases, NEW l \in Loaders, loader[l].at \in UpdatePlaces
  PROVE  /\ \A m \in Loaders \ {l} : loader[m].at \notin UpdatePlaces
         /\ \A k \in Keyed : worker[k].cancelled =>
              loader[l].at \in Waiting /\ loader[l].key = k /\ worker[k].at # "none"
<1>1. \A m \in Loaders \ {l} : loader[m].at \notin UpdatePlaces
  BY DEF Phases, OneUpdate
<1>2. ASSUME NEW k \in Keyed, worker[k].cancelled
      PROVE  loader[l].at \in Waiting /\ loader[l].key = k /\ worker[k].at # "none"
  <2>1. PICK m \in Loaders : loader[m].at \in Waiting /\ loader[m].key = k
    BY <1>2 DEF Phases, WorkerInv
  <2>2. m = l
    BY <1>1, <2>1, PlacesOfLoad DEF Waiting
  <2>3. QED
    BY <1>2, <2>1, <2>2 DEF Phases, WorkerInv
<1>3. QED
  BY <1>1, <1>2

\* A step of the update: what is left to show of it.
LEMMA UpdateStep ==
  ASSUME Phases, ReloadTypes', NEW l \in Loaders,
         UNCHANGED <<config, published>>,
         NEW place \in UpdatePlaces, NEW todo \in SUBSET Keyed, NEW key \in Keyed \cup {<<>>},
         loader[l].at \in LoadPlaces, \A m \in Loaders \ {l} : loader[m].at \notin UpdatePlaces,
         Turned(l, place, todo, key), place \in Waiting => key \in todo,
         WorkerInv', \A j, k \in RunningWorkers' : j[1] = k[1] => j = k,
         place \in Removing => RemovalAt(l)', place \in Starting => StartAt(l)'
  PROVE  Phases'
<1>1. \A m \in Loaders : /\ loader'[m].at \in UpdatePlaces => m = l
                         /\ m # l => loader'[m] = loader[m]
  BY DEF Turned
<1>2. loader'[l].at = place /\ loader'[l].version = loader[l].version
      /\ loader'[l].todo = todo /\ loader'[l].key = key
  BY DEF Turned
<1>3. \A p \in Waiting \cup Removing \cup Starting : p \in UpdatePlaces
  BY PlacesOfLoad DEF Waiting, Removing, Starting
<1>4. LoadInv'
  <2>1. ASSUME NEW m \in Loaders, loader'[m].at \in LoadPlaces
        PROVE  loader'[m].version \in DOMAIN config' /\ loader'[m].version <= published'
    BY <1>1, <1>2, <2>1 DEF Phases, LoadInv
  <2>2. ASSUME NEW m \in Loaders, loader'[m].at \in Waiting
        PROVE  loader'[m].key \in loader'[m].todo
    BY <1>1, <1>2, <1>3, <2>2
  <2>3. QED
    BY <2>1, <2>2 DEF LoadInv
<1>5. OneUpdate'
  BY <1>1 DEF OneUpdate
<1>6. RemovalInv'
  BY <1>1, <1>2, <1>3 DEF RemovalInv
<1>7. StartInv'
  BY <1>1, <1>2, <1>3 DEF StartInv
<1>8. QED
  BY <1>4, <1>5, <1>6, <1>7 DEF Phases

\* While nothing is cancelled, a step of a load alone leaves the workers as they were.
LEMMA NoneCancelledWorkers ==
  ASSUME Phases, NEW l \in Loaders, loader' \in [Loaders -> Loads],
         UNCHANGED <<config, published, worker>>, \A k \in Keyed : ~ worker[k].cancelled
  PROVE  WorkerInv' /\ RunningWorkers' = RunningWorkers
         /\ \A j, k \in RunningWorkers' : j[1] = k[1] => j = k
<1>1. RunningWorkers' = RunningWorkers /\ \A v : Specs(v)' = Specs(v)
  BY SpecsStay DEF RunningWorkers
<1>2. QED
  BY <1>1 DEF Phases, WorkerInv, OneUpdate

\* The update begins.
LEMMA LockPhases ==
  ASSUME Phases, NEW l \in Loaders, LockUpdate(l)
  PROVE  Phases'
<1> DEFINE v == loader[l].version
           todo == RunningWorkers \ Specs(v)
<1>1. /\ loader[l].at = "update" /\ ReloadTypes /\ ReloadTypes'
      /\ UNCHANGED <<config, published, worker>>
      /\ Turned(l, "remove", todo, loader[l].key)
  BY LockMakes DEF LockUpdate, Phases, ReloadTypes, Turned
<1>2. \A m \in Loaders : loader[m].at \notin UpdatePlaces
  BY PlacesOfLoad DEF LockUpdate, Updating
<1>3. \A k \in Keyed : ~ worker[k].cancelled
  BY <1>2, PlacesOfLoad DEF Phases, WorkerInv, Waiting
<1>4. /\ WorkerInv' /\ RunningWorkers' = RunningWorkers
      /\ \A j, k \in RunningWorkers' : j[1] = k[1] => j = k
  BY <1>1, <1>3, NoneCancelledWorkers DEF Turned
<1>5. \A u : Specs(u)' = Specs(u)
  BY <1>1, SpecsStay
<1>6. RemovalAt(l)'
  BY <1>1, <1>4, <1>5 DEF RemovalAt, Turned
<1>7. /\ "remove" \in UpdatePlaces /\ "remove" \notin Waiting /\ "remove" \notin Starting
      /\ loader[l].at \in LoadPlaces
  BY <1>1, PlacesOfLoad DEF Waiting, Starting
<1>8. todo \in SUBSET Keyed /\ loader[l].key \in Keyed \cup {<<>>}
  BY <1>1, FieldsOfLoad, RunningFields
<1> HIDE DEF todo
<1>9. QED
  BY <1>1, <1>2, <1>4, <1>6, <1>7, <1>8, UpdateStep

\* Once no worker is left to remove, each worker that runs has a device in the version of
\* the load.
LEMMA NoneLeftPhases ==
  ASSUME Phases, NEW l \in Loaders, NoneLeftToRemove(l)
  PROVE  Phases'
<1> DEFINE v == loader[l].version
           todo == Specs(v)
<1>1. /\ loader[l].at = "remove" /\ loader[l].todo = {} /\ ReloadTypes /\ ReloadTypes'
      /\ UNCHANGED <<config, published, worker>>
      /\ Turned(l, "start", todo, loader[l].key)
  BY NoneLeftMakes DEF NoneLeftToRemove, Phases, ReloadTypes, Turned
<1>2. /\ "start" \in UpdatePlaces /\ "start" \notin Waiting /\ "start" \notin Removing
      /\ loader[l].at \in LoadPlaces /\ loader[l].at \in UpdatePlaces /\ loader[l].at \in Removing
      /\ loader[l].at \notin Waiting
  BY <1>1, PlacesOfLoad DEF Waiting, Removing
<1>3. /\ \A m \in Loaders \ {l} : loader[m].at \notin UpdatePlaces
      /\ \A k \in Keyed : ~ worker[k].cancelled
  BY <1>2, OtherLoads
<1>4. /\ WorkerInv' /\ RunningWorkers' = RunningWorkers
      /\ \A j, k \in RunningWorkers' : j[1] = k[1] => j = k
  BY <1>1, <1>3, NoneCancelledWorkers DEF Turned
<1>5. \A u : Specs(u)' = Specs(u)
  BY <1>1, SpecsStay
<1>6. RunningWorkers \subseteq Specs(v)
  BY <1>1, <1>2 DEF Phases, RemovalInv, RemovalAt
<1>7. StartAt(l)'
  BY <1>1, <1>4, <1>5, <1>6 DEF StartAt, Turned
<1>8. todo \in SUBSET Keyed /\ loader[l].key \in Keyed \cup {<<>>}
  BY <1>1, <1>2, FieldsOfLoad, SpecsOfVersion DEF Phases, LoadInv, ReloadTypes
<1> HIDE DEF todo
<1>9. QED
  BY <1>1, <1>2, <1>3, <1>4, <1>7, <1>8, UpdateStep

\* A worker is cancelled and waited for.
LEMMA CancelPhases ==
  ASSUME Phases, NEW l \in Loaders, NEW k \in loader[l].todo, k \in Keyed,
         loader[l].at \in {"remove", "start"},
         UNCHANGED <<config, published>>, CancelledOnly(k),
         k \in RunningWorkers \/ worker' = worker,
         NEW place \in Waiting, Turned(l, place, loader[l].todo, k)
  PROVE  /\ RunningWorkers' = RunningWorkers /\ WorkerInv'
         /\ \A i, j \in RunningWorkers' : i[1] = j[1] => i = j
         /\ \A m \in Loaders \ {l} : loader[m].at \notin UpdatePlaces
<1>1. loader[l].at \in UpdatePlaces /\ loader[l].at \notin Waiting /\ ReloadTypes
  BY PlacesOfLoad DEF Waiting, Phases
<1>2. /\ \A m \in Loaders \ {l} : loader[m].at \notin UpdatePlaces
      /\ \A j \in Keyed : ~ worker[j].cancelled
  BY <1>1, OtherLoads
<1>3. RunningWorkers' = RunningWorkers
  BY DEF RunningWorkers, CancelledOnly, Phases, ReloadTypes
<1>4. \A v : Specs(v)' = Specs(v)
  BY SpecsStay
<1>5. WorkerInv'
  <2>1. ASSUME NEW j \in Keyed, worker'[j].cancelled
        PROVE  /\ worker'[j].at # "none"
               /\ \E m \in Loaders : loader'[m].at \in Waiting /\ loader'[m].key = j
    <3>1. j = k /\ k \in RunningWorkers
      BY <1>2, <2>1 DEF CancelledOnly
    <3>2. QED
      BY <1>1, <3>1, RunningFields DEF CancelledOnly, Turned
  <2>2. ASSUME NEW j \in Keyed, worker'[j].at # "none"
        PROVE  /\ worker'[j].version \in DOMAIN config' /\ worker'[j].version <= published'
               /\ j \in Specs(worker[j].version)'
    BY <1>4, <2>2 DEF CancelledOnly, Phases, WorkerInv
  <2>3. \A j \in Keyed : worker'[j].version = worker[j].version
                         /\ (worker'[j].at = "record" <=> worker'[j].ref # NoSnapshot)
    BY DEF CancelledOnly, Phases, WorkerInv
  <2>4. QED
    BY <2>1, <2>2, <2>3 DEF WorkerInv
<1>6. QED
  BY <1>2, <1>3, <1>5 DEF Phases, OneUpdate

\* A worker to be removed is cancelled,
LEMMA StopRemovedPhases ==
  ASSUME Phases, NEW l \in Loaders, StopRemoved(l)
  PROVE  Phases'
<1>1. PICK k \in loader[l].todo :
        k \in Keyed /\ CancelledOnly(k) /\ Turned(l, "removing", loader[l].todo, k)
  BY StopRemovedMakes DEF Phases
<1>2. /\ loader[l].at = "remove" /\ ReloadTypes
      /\ UNCHANGED <<config, published, snapshots, content, keys, complete>>
  BY DEF StopRemoved, Phases
<1>3. /\ loader[l].at \in LoadPlaces /\ loader[l].at \in Removing /\ "removing" \in Waiting
      /\ "removing" \in UpdatePlaces /\ "removing" \notin Starting
  BY <1>2, PlacesOfLoad DEF Waiting, Removing, Starting
<1>4. RemovalAt(l)
  BY <1>3 DEF Phases, RemovalInv
<1>5. \A j \in loader[l].todo : j \in RunningWorkers
  BY <1>2, <1>4 DEF RemovalAt
<1>6. /\ RunningWorkers' = RunningWorkers /\ WorkerInv'
      /\ \A i, j \in RunningWorkers' : i[1] = j[1] => i = j
      /\ \A m \in Loaders \ {l} : loader[m].at \notin UpdatePlaces
  BY <1>1, <1>2, <1>3, <1>5, CancelPhases
<1>7. ReloadTypes'
  BY <1>1, <1>2 DEF ReloadTypes, CancelledOnly, Turned
<1>8. \A u : Specs(u)' = Specs(u)
  BY <1>2, SpecsStay
<1>9. RemovalAt(l)'
  BY <1>1, <1>4, <1>5, <1>6, <1>8 DEF RemovalAt, Turned
<1>10. loader[l].todo \in SUBSET Keyed
  BY <1>2, FieldsOfLoad
<1>11. QED
  BY <1>1, <1>2, <1>3, <1>6, <1>7, <1>9, <1>10, UpdateStep

\* or one to be started again.
LEMMA StopStalePhases ==
  ASSUME Phases, NEW l \in Loaders, StopStale(l)
  PROVE  Phases'
<1>1. PICK k \in loader[l].todo :
        /\ k \in Keyed /\ CancelledOnly(k) /\ Turned(l, "restarting", loader[l].todo, k)
        /\ k \notin RunningWorkers => worker' = worker
  BY StopStaleMakes DEF Phases
<1>2. /\ loader[l].at = "start" /\ ReloadTypes
      /\ UNCHANGED <<config, published, snapshots, content, keys, complete>>
  BY DEF StopStale, Phases
<1>3. /\ loader[l].at \in LoadPlaces /\ loader[l].at \in Starting /\ "restarting" \in Waiting
      /\ "restarting" \in UpdatePlaces /\ "restarting" \notin Removing
  BY <1>2, PlacesOfLoad DEF Waiting, Removing, Starting
<1>4. StartAt(l)
  BY <1>3 DEF Phases, StartInv
<1>5. /\ RunningWorkers' = RunningWorkers /\ WorkerInv'
      /\ \A i, j \in RunningWorkers' : i[1] = j[1] => i = j
      /\ \A m \in Loaders \ {l} : loader[m].at \notin UpdatePlaces
  BY <1>1, <1>2, <1>3, CancelPhases
<1>6. ReloadTypes'
  BY <1>1, <1>2 DEF ReloadTypes, CancelledOnly, Turned
<1>7. \A u : Specs(u)' = Specs(u)
  BY <1>2, SpecsStay
<1>8. \A j \in RunningWorkers : j \in Keyed
  BY <1>2, RunningFields
<1>9. StartAt(l)'
  BY <1>1, <1>4, <1>5, <1>7, <1>8 DEF StartAt, Turned, CancelledOnly
<1>10. loader[l].todo \in SUBSET Keyed
  BY <1>2, FieldsOfLoad
<1>11. QED
  BY <1>1, <1>2, <1>3, <1>5, <1>6, <1>9, <1>10, UpdateStep

\* A removed worker is gone.
LEMMA GonePhases ==
  ASSUME Phases, NEW l \in Loaders, RemovedIsGone(l)
  PROVE  Phases'
<1> DEFINE k == loader[l].key
           todo == loader[l].todo \ {k}
<1>1. /\ k \in Keyed /\ k \in loader[l].todo /\ k \notin RunningWorkers
      /\ Turned(l, "remove", todo, <<>>)
      /\ snapshots' \in [Serials -> Slots] /\ content' \in [Snapshots -> Contents]
  BY GoneMakes DEF Phases
<1>2. /\ loader[l].at = "removing" /\ ReloadTypes
      /\ UNCHANGED <<config, published, worker, keys, complete>>
  BY DEF RemovedIsGone, Phases
<1>3. /\ loader[l].at \in LoadPlaces /\ loader[l].at \in Removing /\ loader[l].at \in UpdatePlaces
      /\ "remove" \in UpdatePlaces /\ "remove" \notin Starting /\ "remove" \notin Waiting
  BY <1>2, PlacesOfLoad DEF Waiting, Removing, Starting
<1>4. RemovalAt(l)
  BY <1>3 DEF Phases, RemovalInv
<1>5. /\ \A m \in Loaders \ {l} : loader[m].at \notin UpdatePlaces
      /\ \A j \in Keyed : ~ worker[j].cancelled
  BY <1>1, <1>2, <1>3, OtherLoads, RunningFields
<1>6. /\ WorkerInv' /\ RunningWorkers' = RunningWorkers
      /\ \A i, j \in RunningWorkers' : i[1] = j[1] => i = j
  BY <1>1, <1>2, <1>5, NoneCancelledWorkers DEF Turned
<1>7. ReloadTypes'
  BY <1>1, <1>2 DEF ReloadTypes, Turned
<1>8. \A u : Specs(u)' = Specs(u)
  BY <1>2, SpecsStay
<1>9. RemovalAt(l)'
  BY <1>1, <1>4, <1>6, <1>8 DEF RemovalAt, Turned
<1>10. todo \in SUBSET Keyed
  BY <1>2, FieldsOfLoad
<1> HIDE DEF todo
<1>11. QED
  BY <1>1, <1>2, <1>3, <1>5, <1>6, <1>7, <1>9, <1>10, UpdateStep

\* A worker is started where none runs.
LEMMA StartPhases ==
  ASSUME Phases, NEW l \in Loaders, StartWorker(l)
  PROVE  Phases' /\ RunningWorkers' = RunningWorkers \cup {loader[l].key}
         /\ loader[l].key \notin RunningWorkers
<1>k. PICK k : k = loader[l].key
  OBVIOUS
<1>v. PICK v : v = loader[l].version
  OBVIOUS
<1> DEFINE todo == loader[l].todo \ {k}
<1>1. /\ k \in Keyed /\ k \in loader[l].todo /\ Turned(l, "start", todo, <<>>)
      /\ worker' \in [Keyed -> WorkerStates]
      /\ \A j \in Keyed \ {k} : worker'[j] = worker[j]
      /\ worker'[k].at = "run" /\ worker'[k].ref = NoSnapshot
      /\ worker'[k].version = v /\ worker'[k].cancelled = FALSE
  BY <1>k, <1>v, StartMakes DEF Phases
<1>2. /\ loader[l].at = "restarting" /\ ReloadTypes /\ k \notin RunningWorkers
      /\ UNCHANGED <<config, published, snapshots, content, keys, complete>>
  BY <1>k DEF StartWorker, Gone, Phases
<1>3. /\ loader[l].at \in LoadPlaces /\ loader[l].at \in Starting /\ loader[l].at \in UpdatePlaces
      /\ "start" \in UpdatePlaces /\ "start" \notin Removing /\ "start" \notin Waiting
  BY <1>2, PlacesOfLoad DEF Waiting, Removing, Starting
<1>4. StartAt(l) /\ v \in DOMAIN config /\ v <= published
  BY <1>3, <1>v DEF Phases, StartInv, LoadInv
<1>5. k \in Specs(v) /\ \A i, j \in Specs(v) : i[1] = j[1] => i = j
  BY <1>1, <1>2, <1>4, <1>v, SpecsOfVersion DEF StartAt, ReloadTypes
<1>6. /\ \A m \in Loaders \ {l} : loader[m].at \notin UpdatePlaces
      /\ \A j \in Keyed : ~ worker[j].cancelled
  BY <1>1, <1>2, <1>3, <1>k, OtherLoads, RunningFields
<1>7. ReloadTypes'
  BY <1>1, <1>2 DEF ReloadTypes, Turned
<1>8. RunningWorkers' = RunningWorkers \cup {k}
  <2>1. \A j : j \in RunningWorkers' <=> j \in Keyed /\ worker'[j].at # "none"
    BY <1>7 DEF RunningWorkers, ReloadTypes
  <2>2. \A j : j \in RunningWorkers <=> j \in Keyed /\ worker[j].at # "none"
    BY <1>2, RunningFields
  <2>3. QED
    BY <1>1, <2>1, <2>2
<1>9. \A u : Specs(u)' = Specs(u)
  BY <1>2, SpecsStay
<1>10. RunningWorkers' \subseteq Specs(v)
  BY <1>4, <1>5, <1>8, <1>v DEF StartAt
<1>11. WorkerInv'
  <2>1. ASSUME NEW j \in Keyed \ {k}
        PROVE  /\ worker'[j].at # "none" =>
                    /\ worker'[j].version \in DOMAIN config' /\ worker'[j].version <= published'
                    /\ j \in Specs(worker[j].version)'
               /\ worker'[j].at = "record" <=> worker'[j].ref # NoSnapshot
               /\ ~ worker'[j].cancelled /\ worker'[j].version = worker[j].version
    BY <1>1, <1>2, <1>6, <1>9 DEF Phases, WorkerInv
  <2>2. /\ worker'[k].version \in DOMAIN config' /\ worker'[k].version <= published'
        /\ k \in Specs(v)' /\ worker'[k].version = v
    BY <1>1, <1>2, <1>4, <1>5, <1>9
  <2>3. worker'[k].at # "record" /\ worker'[k].ref = NoSnapshot /\ ~ worker'[k].cancelled
    BY <1>1
  <2>4. k \in Specs(worker[k].version)'
    BY <2>2
  <2>5. QED
    BY <2>1, <2>2, <2>3, <2>4 DEF WorkerInv
<1>12. \A j : j \in RunningWorkers => j \in Keyed
  BY <1>2, RunningFields
<1>13. StartAt(l)'
  <2>1. loader'[l].version = v /\ loader'[l].todo = todo
    BY <1>1, <1>v DEF Turned
  <2>2. RunningWorkers' \subseteq Specs(v)' /\ todo \subseteq Specs(v)'
    BY <1>4, <1>9, <1>10, <1>v DEF StartAt
  <2>3. ASSUME NEW j \in Specs(v)', j \notin todo
        PROVE  j \in RunningWorkers' /\ worker'[j].version = v
    <3>1. CASE j = k
      BY <1>1, <1>8, <3>1
    <3>2. CASE j # k
      <4>1. j \in RunningWorkers /\ worker[j].version = v
        BY <1>4, <1>9, <2>3, <3>2, <1>v DEF StartAt
      <4>2. QED
        BY <1>1, <1>8, <1>12, <3>2, <4>1
    <3>3. QED
      BY <3>1, <3>2
  <2> HIDE DEF todo
  <2>4. QED
    BY <2>1, <2>2, <2>3 DEF StartAt
<1>14. \A i, j \in RunningWorkers' : i[1] = j[1] => i = j
  BY <1>5, <1>10
<1>15. todo \in SUBSET Keyed
  BY <1>2, FieldsOfLoad
<1> HIDE DEF todo
<1>16. Phases'
  BY <1>1, <1>2, <1>3, <1>6, <1>7, <1>11, <1>13, <1>14, <1>15, UpdateStep
<1>17. QED
  BY <1>2, <1>8, <1>16, <1>k

\* A worker leaves only when an update waits for it.
LEMMA LeavePhases ==
  ASSUME Phases, NEW k \in Keyed, Leave(k)
  PROVE  /\ Phases' /\ RunningWorkers' = RunningWorkers \ {k}
         /\ \E l \in Loaders : /\ loader[l].at \in Waiting /\ loader[l].key = k
                               /\ \A m \in Loaders \ {l} : loader[m].at \notin UpdatePlaces
<1>1. /\ worker' \in [Keyed -> WorkerStates] /\ \A j \in Keyed \ {k} : worker'[j] = worker[j]
      /\ worker'[k].at = "none" /\ worker'[k].ref = NoSnapshot /\ worker'[k].cancelled = FALSE
  BY LeaveMakes DEF Phases
<1>2. /\ worker[k].cancelled /\ ReloadTypes
      /\ UNCHANGED <<config, published, loader, snapshots, content, keys, complete>>
  BY DEF Leave, Phases
<1>3. PICK l \in Loaders : loader[l].at \in Waiting /\ loader[l].key = k
  BY <1>2 DEF Phases, WorkerInv
<1>4. loader[l].at \in UpdatePlaces /\ k \in loader[l].todo
  BY <1>3, PlacesOfLoad DEF Waiting, Phases, LoadInv
<1>5. /\ \A m \in Loaders \ {l} : loader[m].at \notin UpdatePlaces
      /\ \A j \in Keyed : worker[j].cancelled => j = k
  BY <1>3, <1>4, OtherLoads
<1>6. ReloadTypes'
  BY <1>1, <1>2 DEF ReloadTypes
<1>7. RunningWorkers' = RunningWorkers \ {k}
  <2>1. \A j : j \in RunningWorkers' <=> j \in Keyed /\ worker'[j].at # "none"
    BY <1>6 DEF RunningWorkers, ReloadTypes
  <2>2. \A j : j \in RunningWorkers <=> j \in Keyed /\ worker[j].at # "none"
    BY <1>2, RunningFields
  <2>3. QED
    BY <1>1, <2>1, <2>2
<1>8. \A u : Specs(u)' = Specs(u)
  BY <1>2, SpecsStay
<1>9. WorkerInv'
  <2>1. ASSUME NEW j \in Keyed \ {k}
        PROVE  /\ worker'[j].at # "none" =>
                    /\ worker'[j].version \in DOMAIN config' /\ worker'[j].version <= published'
                    /\ j \in Specs(worker[j].version)'
               /\ worker'[j].at = "record" <=> worker'[j].ref # NoSnapshot
               /\ ~ worker'[j].cancelled /\ worker'[j].version = worker[j].version
    BY <1>1, <1>2, <1>5, <1>8 DEF Phases, WorkerInv
  <2>2. QED
    BY <1>1, <2>1 DEF WorkerInv
<1>10. OneUpdate'
  BY <1>2, <1>7 DEF Phases, OneUpdate
<1>11. \A m \in Loaders : m # l => loader[m].at \notin Removing /\ loader[m].at \notin Starting
  BY <1>5 DEF UpdatePlaces
<1>12. RemovalInv'
  <2>1. ASSUME loader[l].at \in Removing PROVE RemovalAt(l)'
    <3>1. loader[l].at = "removing"
      BY <1>3, <2>1 DEF Removing, Waiting
    <3>2. RemovalAt(l)
      BY <2>1 DEF Phases, RemovalInv
    <3>3. QED
      BY <1>2, <1>3, <1>4, <1>7, <1>8, <3>1, <3>2 DEF RemovalAt
  <2>2. QED
    BY <1>2, <1>11, <2>1 DEF RemovalInv
<1>13. StartInv'
  <2>1. ASSUME loader[l].at \in Starting PROVE StartAt(l)'
    <3>1. StartAt(l)
      BY <2>1 DEF Phases, StartInv
    <3>2. \A j : j \in RunningWorkers => j \in Keyed
      BY <1>2, RunningFields
    <3>3. QED
      BY <1>1, <1>2, <1>4, <1>7, <1>8, <3>1, <3>2 DEF StartAt
  <2>2. QED
    BY <1>2, <1>11, <2>1 DEF StartInv
<1>14. LoadInv'
  BY <1>2 DEF Phases, LoadInv
<1>15. QED
  BY <1>3, <1>5, <1>6, <1>7, <1>9, <1>10, <1>12, <1>13, <1>14 DEF Phases

\* Nothing is loaded, no worker runs, and the start is about to read.
LEMMA ReloadInitInv ==
  ASSUME ReloadInit
  PROVE  Phases /\ OwnSerial /\ AloneInv /\ CompleteInv /\ KeysInv
<1>1. /\ config \in Histories /\ config \in Seq([Serials -> Device \cup {NoDevice}])
      /\ published = 1 /\ 1 \in DOMAIN config
  <2>1. config \in Seq([Serials -> Device \cup {NoDevice}]) /\ config # <<>>
    BY ReloadAssumption DEF ReloadAssumption, ReloadInit
  <2>2. 1 \in DOMAIN config
    BY <2>1
  <2>3. QED
    BY <2>1, <2>2 DEF ReloadInit
<1> DEFINE b == [NoLoad EXCEPT !.at = "read"]
<1>2. /\ b \in Loads /\ b.at = "read" /\ b.copy = NoSnapshots /\ b.alone = FALSE
      /\ NoLoad \in Loads /\ NoLoad.at = "idle" /\ NoLoad.copy = NoSnapshots /\ NoLoad.alone = FALSE
  BY Blanks DEF NoLoad, Loads
<1>3. \A l \in Loaders : loader[l] \in {b, NoLoad}
  BY DEF ReloadInit, Loaders
<1>4. loader \in [Loaders -> Loads]
  BY <1>2 DEF ReloadInit, Loaders
<1> HIDE DEF b
<1>5. \A l \in Loaders : /\ loader[l].at \in {"read", "idle"} /\ loader[l].copy = NoSnapshots
                         /\ loader[l].alone = FALSE
  BY <1>2, <1>3
<1>6. "read" \notin LoadPlaces /\ "idle" \notin LoadPlaces
      /\ \A p \in Waiting \cup UpdatePlaces \cup Removing \cup Starting : p \in LoadPlaces
  BY PlacesOfLoad DEF Waiting, Removing, Starting
<1>7. /\ snapshots = NoSnapshots /\ NoSnapshots \in [Serials -> Slots]
      /\ worker = [k \in Keyed |-> NoWorker] /\ complete = FALSE
  BY Blanks DEF ReloadInit, Keyed
<1>8. /\ content \in [Snapshots -> Contents] /\ keys \in [DeviceIds -> Contents]
      /\ worker \in [Keyed -> WorkerStates]
  BY <1>7, Blanks DEF ReloadInit
<1>9. ReloadTypes
  BY <1>1, <1>4, <1>7, <1>8 DEF ReloadTypes
<1>10. \A k \in Keyed : /\ worker[k].at = "none" /\ worker[k].ref = NoSnapshot
                        /\ worker[k].cancelled = FALSE
  BY <1>7 DEF NoWorker
<1>11. RunningWorkers = {}
  BY <1>9, <1>10, RunningFields
<1>12. Phases
  BY <1>5, <1>6, <1>9, <1>10, <1>11 DEF Phases, LoadInv, WorkerInv, OneUpdate, RemovalInv, StartInv
<1>13. OwnSerial
  <2>1. \A s \in Serials : NoSnapshots[s] = NoSnapshot
    BY DEF NoSnapshots
  <2>2. \A s \in Serials, p \in Protocols : <<s, p>> \in Keyed
    BY DEF Keyed
  <2>3. NoSnapshot \notin Snapshots
    BY ReloadAssumption DEF ReloadAssumption
  <2>4. ASSUME NEW x \in Snapshots, NEW s \in Serials, Refers(s, x) PROVE FALSE
    <3>1. snapshots[s] # x /\ \A l \in Loaders : loader[l].copy[s] # x
      BY <1>5, <1>7, <2>1, <2>3
    <3>2. \A p \in Protocols : worker[<<s, p>>].ref # x
      BY <1>10, <2>2, <2>3
    <3>3. QED
      BY <2>4, <3>1, <3>2 DEF Refers
  <2>5. QED
    BY <2>4 DEF OwnSerial
<1>14. AloneInv /\ CompleteInv /\ KeysInv
  BY <1>5, <1>7 DEF AloneInv, CompleteInv, KeysInv
<1>15. QED
  BY <1>12, <1>13, <1>14

\* A step that refers to nothing new.
LEMMA OwnSerialKept ==
  ASSUME OwnSerial,
         \A s \in Serials : snapshots'[s] = NoSnapshot \/ Refers(s, snapshots'[s]),
         \A s \in Serials : \A m \in Loaders :
           loader'[m].copy[s] = NoSnapshot \/ Refers(s, loader'[m].copy[s]),
         \A s \in Serials : \A p \in Protocols :
           worker'[<<s, p>>].ref = NoSnapshot \/ Refers(s, worker'[<<s, p>>].ref)
  PROVE  OwnSerial'
<1>1. NoSnapshot \notin Snapshots
  BY ReloadAssumption DEF ReloadAssumption
<1>2. ASSUME NEW x \in Snapshots, NEW s \in Serials, Refers(s, x)'
      PROVE  Refers(s, x)
  <2>1. CASE snapshots'[s] = x
    BY <1>1, <2>1
  <2>2. CASE \E m \in Loaders : loader'[m].copy[s] = x
    BY <1>1, <2>2
  <2>3. CASE \E p \in Protocols : worker'[<<s, p>>].ref = x
    BY <1>1, <2>3
  <2>4. QED
    BY <1>2, <2>1, <2>2, <2>3 DEF Refers
<1>3. QED
  BY <1>2 DEF OwnSerial

\* A snapshot is never shared by two serial numbers, whatever loads overlap.
LEMMA OwnSerialStep ==
  ASSUME Phases, OwnSerial, ReloadNext
  PROVE  OwnSerial'
<1>1. /\ \A s \in Serials : Refers(s, snapshots[s])
      /\ \A s \in Serials : \A m \in Loaders : Refers(s, loader[m].copy[s])
      /\ \A s \in Serials : \A p \in Protocols : Refers(s, worker[<<s, p>>].ref)
      /\ \A s \in Serials : NoSnapshots[s] = NoSnapshot
      /\ \A k \in Keyed : k[1] \in Serials /\ \E p \in Protocols : k = <<k[1], p>>
      /\ \A s \in Serials : \A p \in Protocols : <<s, p>> \in Keyed
  BY DEF Refers, NoSnapshots, Keyed
<1>2. ReloadTypes
  BY DEF Phases
<1>3. CASE Publish \/ Subscribe \/ SubscriptionLost
  <2>1. UNCHANGED <<loader, snapshots, worker>>
    BY <1>3 DEF Publish, Subscribe, SubscriptionLost
  <2>2. QED
    BY <1>1, <2>1, OwnSerialKept
<1>4. CASE Notified
  <2>1. UNCHANGED <<snapshots, worker>> /\ \A m \in Loaders : loader'[m].copy = loader[m].copy
    BY <1>4, NotifiedPhases DEF Notified
  <2>2. QED
    BY <1>1, <2>1, OwnSerialKept
<1>5. ASSUME NEW l \in Loaders, LoadFails(l) \/ LoadEnds(l) PROVE OwnSerial'
  <2>1. UNCHANGED <<snapshots, worker>> /\ loader' = [loader EXCEPT ![l] = Over(l)]
    BY <1>5 DEF LoadFails, LoadEnds
  <2>2. loader'[l].copy = NoSnapshots /\ \A m \in Loaders \ {l} : loader'[m] = loader[m]
    BY <1>2, <2>1, OverMakes
  <2>3. QED
    BY <1>1, <2>1, <2>2, OwnSerialKept
<1>6. ASSUME NEW l \in Loaders, Read(l) PROVE OwnSerial'
  <2>1. UNCHANGED <<snapshots, worker>>
    BY <1>6 DEF Read
  <2>2. loader'[l].copy = NoSnapshots /\ \A m \in Loaders \ {l} : loader'[m].copy = loader[m].copy
    BY <1>2, <1>6, ReadMakes
  <2>3. QED
    BY <1>1, <2>1, <2>2, OwnSerialKept
<1>7. ASSUME NEW l \in Loaders, CopySnapshots(l) PROVE OwnSerial'
  <2>1. /\ UNCHANGED <<snapshots, worker>> /\ snapshots \in [Serials -> Slots]
        /\ loader' = [loader EXCEPT ![l].at = "rebuild", ![l].copy = snapshots]
    BY <1>2, <1>7 DEF CopySnapshots, ReloadTypes
  <2>2. Copied(l, "rebuild", snapshots)
    BY <1>2, <2>1, CopyMakes, PlacesOfLoad
  <2>3. loader'[l].copy = snapshots /\ \A m \in Loaders \ {l} : loader'[m] = loader[m]
    BY <2>2 DEF Copied
  <2>4. QED
    BY <1>1, <2>1, <2>3, OwnSerialKept
<1>8. ASSUME NEW l \in Loaders, SwapSnapshots(l) PROVE OwnSerial'
  <2>1. worker' = worker /\ snapshots' = loader[l].copy
    BY <1>8 DEF SwapSnapshots
  <2>2. loader'[l].copy = NoSnapshots /\ \A m \in Loaders \ {l} : loader'[m] = loader[m]
    BY <1>2, <1>8, SwapMakes DEF Copied
  <2>3. QED
    BY <1>1, <2>1, <2>2, OwnSerialKept
<1>9. ASSUME NEW l \in Loaders, StoreConfig(l) \/ FindManager(l) \/ SyncManager(l) PROVE OwnSerial'
  <2>1. PICK place \in {"sync", "init", "refresh", "update"} : Step(l, place)
    BY <1>9 DEF StoreConfig, FindManager, SyncManager
  <2>2. UNCHANGED <<snapshots, worker>>
    BY <1>9 DEF StoreConfig, FindManager, SyncManager
  <2>3. \A m \in Loaders : loader'[m].copy = loader[m].copy
    BY <1>2, <2>1, MovedLoad, PlacesOfLoad DEF Turned
  <2>4. QED
    BY <1>1, <2>2, <2>3, OwnSerialKept
<1>10. ASSUME NEW l \in Loaders, LockUpdate(l) \/ NoneLeftToRemove(l) PROVE OwnSerial'
  <2>1. UNCHANGED <<snapshots, worker>>
    BY <1>10 DEF LockUpdate, NoneLeftToRemove
  <2>2. \A m \in Loaders : loader'[m].copy = loader[m].copy
    BY <1>10, LockMakes, NoneLeftMakes DEF Turned, Phases
  <2>3. QED
    BY <1>1, <2>1, <2>2, OwnSerialKept
<1>11. ASSUME NEW l \in Loaders, StopRemoved(l) \/ StopStale(l) PROVE OwnSerial'
  <2>1. snapshots' = snapshots
    BY <1>11 DEF StopRemoved, StopStale
  <2>2. /\ \A m \in Loaders : loader'[m].copy = loader[m].copy
        /\ \A k \in Keyed : worker'[k].ref = worker[k].ref
    BY <1>2, <1>11, StopRemovedMakes, StopStaleMakes DEF Turned, CancelledOnly
  <2>3. QED
    BY <1>1, <2>1, <2>2, OwnSerialKept
<1>12. ASSUME NEW l \in Loaders, RemovedIsGone(l) PROVE OwnSerial'
  <2>1. worker' = worker
    BY <1>12 DEF RemovedIsGone
  <2>2. /\ \A m \in Loaders : loader'[m].copy = loader[m].copy
        /\ \A s \in Serials : snapshots'[s] \in {NoSnapshot, snapshots[s]}
    BY <1>12, GoneMakes DEF Turned, Phases
  <2>3. QED
    BY <1>1, <2>1, <2>2, OwnSerialKept
<1>13. ASSUME NEW l \in Loaders, StartWorker(l) PROVE OwnSerial'
  <2>1. snapshots' = snapshots
    BY <1>13 DEF StartWorker
  <2>2. /\ \A m \in Loaders : loader'[m].copy = loader[m].copy
        /\ \A k \in Keyed : worker'[k].ref \in {NoSnapshot, worker[k].ref}
    BY <1>13, StartMakes DEF Turned, Phases
  <2>3. QED
    BY <1>1, <2>1, <2>2, OwnSerialKept
<1>14. ASSUME NEW k \in Keyed, RecordValue(k) \/ Leave(k) PROVE OwnSerial'
  <2>1. UNCHANGED <<loader, snapshots>>
    BY <1>14 DEF RecordValue, Leave
  <2>2. \A j \in Keyed : worker'[j].ref \in {NoSnapshot, worker[j].ref}
    BY <1>14, RecordMakes, LeaveMakes DEF Phases
  <2>3. QED
    BY <1>1, <2>1, <2>2, OwnSerialKept
<1>15. ASSUME NEW k \in Keyed, EnsureSnapshot(k) PROVE OwnSerial'
  <2>1. PICK x \in Snapshots :
          /\ \A j \in Keyed \ {k} : worker'[j] = worker[j]
          /\ worker'[k].ref = x
          /\ \/ snapshots[k[1]] = x /\ snapshots' = snapshots
             \/ /\ x \notin Referenced /\ snapshots'[k[1]] = x
                /\ \A s \in Serials \ {k[1]} : snapshots'[s] = snapshots[s]
    BY <1>15, EnsureMakes, ZenonT(60) DEF Phases
  <2>2. loader' = loader
    BY <1>15 DEF EnsureSnapshot
  <2>3. CASE snapshots[k[1]] = x /\ snapshots' = snapshots
    BY <1>1, <2>1, <2>2, <2>3, OwnSerialKept
  <2>4. CASE /\ x \notin Referenced /\ snapshots'[k[1]] = x
             /\ \A s \in Serials \ {k[1]} : snapshots'[s] = snapshots[s]
    <3>1. \A s \in Serials : ~ Refers(s, x)
      BY <1>2, <2>4, RefersReferenced
    <3>2. ASSUME NEW y \in Snapshots, NEW s \in Serials, Refers(s, y)'
          PROVE  Refers(s, y) \/ (s = k[1] /\ y = x)
      <4>1. CASE snapshots'[s] = y
        BY <1>1, <2>4, <4>1
      <4>2. CASE \E m \in Loaders : loader'[m].copy[s] = y
        BY <1>1, <2>2, <4>2
      <4>3. CASE \E p \in Protocols : worker'[<<s, p>>].ref = y
        BY <1>1, <2>1, <4>3
      <4>4. QED
        BY <3>2, <4>1, <4>2, <4>3 DEF Refers
    <3>3. QED
      BY <3>1, <3>2 DEF OwnSerial
  <2>5. QED
    BY <2>1, <2>3, <2>4
<1>16. ASSUME NEW l \in Loaders, Rebuild(l) PROVE OwnSerial'
  <2>1. PICK built \in [Serials -> Slots] :
          LET devices == DevicesOf(loader[l].version)
          IN  /\ loader' = [loader EXCEPT ![l].at = "swap", ![l].copy = built]
              /\ \A s \in Serials : IF s \in devices THEN built[s] \in Snapshots
                                    ELSE built[s] = NoSnapshot
              /\ \A s, t \in devices : built[s] = built[t] => s = t
              /\ \A s \in devices : built[s] # loader[l].copy[s] => built[s] \notin Referenced
    BY <1>16, RebuildMakes DEF Phases
  <2>2. UNCHANGED <<snapshots, worker>> /\ NoSnapshot \notin Snapshots
    BY <1>16, ReloadAssumption DEF Rebuild, ReloadAssumption
  <2>3. Copied(l, "swap", built)
    BY <1>2, <2>1, CopyMakes, PlacesOfLoad
  <2>4. loader'[l].copy = built /\ \A m \in Loaders \ {l} : loader'[m] = loader[m]
    BY <2>3 DEF Copied
  <2> DEFINE devices == DevicesOf(loader[l].version)
  <2>5. /\ \A s \in Serials : IF s \in devices THEN built[s] \in Snapshots ELSE built[s] = NoSnapshot
        /\ \A s, t \in devices : built[s] = built[t] => s = t
        /\ \A s \in devices : built[s] # loader[l].copy[s] => built[s] \notin Referenced
    BY <2>1
  <2> HIDE DEF devices
  <2>6. ASSUME NEW y \in Snapshots, NEW s \in Serials, Refers(s, y)'
        PROVE  Refers(s, y) \/ (s \in devices /\ built[s] = y)
    <3>1. CASE snapshots'[s] = y
      BY <1>1, <2>2, <3>1
    <3>2. CASE \E m \in Loaders : loader'[m].copy[s] = y
      BY <1>1, <2>2, <2>4, <2>5, <3>2
    <3>3. CASE \E p \in Protocols : worker'[<<s, p>>].ref = y
      BY <1>1, <2>2, <3>3
    <3>4. QED
      BY <2>6, <3>1, <3>2, <3>3 DEF Refers
  <2>7. ASSUME NEW y \in Snapshots, NEW s \in Serials, NEW t \in Serials,
               Refers(s, y), t \in devices, built[t] = y
        PROVE  s = t
    <3>1. y \in Referenced
      BY <1>2, <2>7, RefersReferenced
    <3>2. Refers(t, y)
      BY <1>1, <2>5, <2>7, <3>1
    <3>3. QED
      BY <2>7, <3>2 DEF OwnSerial
  <2>8. QED
    BY <2>5, <2>6, <2>7 DEF OwnSerial
<1>17. QED
  BY <1>3, <1>4, <1>5, <1>6, <1>7, <1>8, <1>9, <1>10, <1>11, <1>12, <1>13, <1>14, <1>15, <1>16
  DEF ReloadNext, LoadStep, WorkerStep, Keyed

\* Every step keeps the types, the workers and the phases of an update.
LEMMA PhasesStep ==
  ASSUME Phases, OwnSerial, ReloadNext
  PROVE  Phases'
<1>1. CASE Publish \/ Subscribe \/ SubscriptionLost
  BY <1>1, PublisherPhases
<1>2. CASE Notified
  BY <1>2, NotifiedPhases
<1>3. ASSUME NEW l \in Loaders, LoadFails(l) \/ LoadEnds(l) \/ Read(l) PROVE Phases'
  BY <1>3, OverPhases, ReadPhases
<1>4. ASSUME NEW l \in Loaders,
             CopySnapshots(l) \/ Rebuild(l) \/ SwapSnapshots(l) \/ StoreConfig(l) \/ FindManager(l)
               \/ SyncManager(l)
      PROVE  Phases'
  BY <1>4, BeforeUpdatePhases
<1>5. ASSUME NEW l \in Loaders, LockUpdate(l) \/ StopRemoved(l) \/ RemovedIsGone(l) PROVE Phases'
  BY <1>5, LockPhases, StopRemovedPhases, GonePhases
<1>6. ASSUME NEW l \in Loaders, NoneLeftToRemove(l) \/ StopStale(l) \/ StartWorker(l) PROVE Phases'
  BY <1>6, NoneLeftPhases, StopStalePhases, StartPhases
<1>7. ASSUME NEW k \in Keyed, WorkerStep(k) PROVE Phases'
  BY <1>7, RecordingPhases, LeavePhases DEF WorkerStep
<1>8. QED
  BY <1>1, <1>2, <1>3, <1>4, <1>5, <1>6, <1>7 DEF ReloadNext, LoadStep, Keyed

\* A step of a load under way: no other load is alone, and nothing is complete.
LEMMA OwnStep ==
  ASSUME Phases, AloneInv, CompleteInv, NEW l \in Loaders, loader[l].at \in LoadPlaces,
         \A m \in Loaders \ {l} : loader'[m] = loader[m],
         loader'[l].alone = loader[l].alone, complete' = complete,
         loader[l].alone => AloneAt(l)'
  PROVE  AloneInv' /\ CompleteInv'
<1>1. ~ complete
  BY DEF CompleteInv
<1>2. ASSUME NEW m \in Loaders \ {l} PROVE ~ loader[m].alone
  BY DEF AloneInv, AloneAt
<1>3. QED
  BY <1>1, <1>2 DEF AloneInv, CompleteInv

\* Until the swap the load that is alone changes its own map only.
LEMMA BeforeSwapAlone ==
  ASSUME Phases, OwnSerial, AloneInv, CompleteInv, NEW l \in Loaders,
         CopySnapshots(l) \/ Rebuild(l)
  PROVE  AloneInv' /\ CompleteInv'
<1>1. ReloadTypes
  BY DEF Phases
<1>2. CASE CopySnapshots(l)
  <2>1. /\ loader[l].at = "copy" /\ loader' = [loader EXCEPT ![l].at = "rebuild", ![l].copy = snapshots]
        /\ complete' = complete /\ snapshots \in [Serials -> Slots]
    BY <1>1, <1>2 DEF CopySnapshots, ReloadTypes
  <2>2. Copied(l, "rebuild", snapshots)
    BY <1>1, <2>1, CopyMakes, PlacesOfLoad
  <2>3. loader[l].alone => AloneAt(l)'
    BY <2>2, PlacesOfLoad
    DEF AloneInv, AloneAt, Copied, Swapped, Stored, Synced, UpdatePlaces, Removing, Starting
  <2>4. QED
    BY <2>1, <2>2, <2>3, OwnStep, PlacesOfLoad DEF Copied
<1>3. CASE Rebuild(l)
  <2>1. PICK v : v = loader[l].version
    OBVIOUS
  <2>2. PICK built \in [Serials -> Slots] :
          /\ loader' = [loader EXCEPT ![l].at = "swap", ![l].copy = built]
          /\ \A s \in Serials : IF s \in DevicesOf(loader[l].version) THEN built[s] \in Snapshots
                                ELSE built[s] = NoSnapshot
          /\ \A s \in DevicesOf(loader[l].version) : content'[built[s]] =
               [id |-> config[loader[l].version][s].id, names |-> loader[l].version, points |-> {}]
    BY <1>3, RebuildMakes DEF Phases
  <2>3. loader[l].at = "rebuild" /\ complete' = complete /\ config' = config
    BY <1>3 DEF Rebuild
  <2>4. Copied(l, "swap", built)
    BY <1>1, <2>2, CopyMakes, PlacesOfLoad
  <2>5. loader'[l].version = v /\ loader'[l].copy = built /\ loader'[l].at = "swap"
    BY <2>1, <2>4 DEF Copied
  <2>6. ASSUME NEW s \in Serials, built[s] # NoSnapshot \/ s \in DevicesOf(v)
        PROVE  /\ built[s] \in Snapshots /\ s \in DevicesOf(v)
               /\ content'[built[s]].id = config[v][s].id /\ content'[built[s]].names = v
    <3>1. s \in DevicesOf(v)
      BY <2>1, <2>2, <2>6
    <3>2. content'[built[s]] = [id |-> config[v][s].id, names |-> v, points |-> {}]
      BY <2>1, <2>2, <3>1
    <3>3. built[s] \in Snapshots
      BY <2>1, <2>2, <3>1
    <3>4. QED
      BY <3>1, <3>2, <3>3
  <2>7. ASSUME NEW s \in Serials, built[s] # NoSnapshot \/ s \in DevicesOf(v)'
        PROVE  Shows(built[s], s, v)'
    BY <2>3, <2>6, <2>7, SpecsStay DEF Shows
  <2>8. \A m \in Loaders \ {l} : loader[l].alone => loader'[m].at \notin LoadPlaces
    BY <2>4 DEF AloneInv, AloneAt, Copied
  <2>9. loader[l].alone => AloneAt(l)'
    BY <2>5, <2>7, <2>8, PlacesOfLoad
    DEF AloneAt, Swapped, Stored, Synced, UpdatePlaces, Removing, Starting
  <2>10. QED
    BY <2>3, <2>4, <2>9, OwnStep, PlacesOfLoad DEF Copied
<1>4. QED
  BY <1>2, <1>3

\* With the swap the snapshots are those of its version.
LEMMA SwapAlone ==
  ASSUME Phases, AloneInv, CompleteInv, NEW l \in Loaders, SwapSnapshots(l)
  PROVE  AloneInv' /\ CompleteInv'
<1>1. PICK v : v = loader[l].version
  OBVIOUS
<1>2. /\ loader[l].at = "swap" /\ UNCHANGED <<config, worker, complete>> /\ ReloadTypes
  BY DEF SwapSnapshots, Phases
<1>3. /\ Copied(l, "store", NoSnapshots)
      /\ snapshots' = loader[l].copy /\ snapshots' \in [Serials -> Slots]
      /\ \A x \in Snapshots : x \in Referenced' => content'[x] = content[x]
  BY SwapMakes DEF Phases
<1>4. \A s \in Serials : snapshots'[s] \in Referenced'
  BY <1>3 DEF Referenced, Range
<1>5. ASSUME loader[l].alone PROVE AloneAt(l)'
  <2>1. \A s \in Serials : snapshots'[s] # NoSnapshot \/ s \in DevicesOf(v) => Shows(snapshots'[s], s, v)
    BY <1>1, <1>2, <1>3, <1>5 DEF AloneInv, AloneAt
  <2>2. ASSUME NEW s \in Serials, snapshots'[s] # NoSnapshot
        PROVE  Shows(snapshots[s], s, v)'
    <3>1. Shows(snapshots'[s], s, v)
      BY <2>1, <2>2
    <3>2. content'[snapshots'[s]] = content[snapshots'[s]]
      BY <1>3, <1>4, <3>1 DEF Shows
    <3>3. s \in DevicesOf(v)'
      BY <1>2, <3>1, SpecsStay DEF Shows
    <3>4. QED
      BY <1>2, <3>1, <3>2, <3>3 DEF Shows
  <2>3. \A s \in DevicesOf(v) : snapshots'[s] # NoSnapshot
    BY <2>1, ReloadAssumption DEF Shows, ReloadAssumption, DevicesOf
  <2>4. loader'[l].version = v /\ loader'[l].at = "store"
    BY <1>1, <1>3 DEF Copied
  <2>5. SnapshotsAt(v, Leaving(l))'
    BY <2>2 DEF SnapshotsAt
  <2>6. \A k \in RunningWorkers' : k[1] \in DevicesOf(v)' => snapshots'[k[1]] # NoSnapshot
    BY <1>2, <2>3, SpecsStay
  <2>7. \A m \in Loaders \ {l} : loader'[m].at \notin LoadPlaces
    BY <1>3, <1>5 DEF AloneInv, AloneAt, Copied
  <2>8. QED
    BY <2>4, <2>5, <2>6, <2>7, PlacesOfLoad
    DEF AloneAt, Stored, Synced, UpdatePlaces, Removing, Starting
<1>6. QED
  BY <1>2, <1>3, <1>5, OwnStep, PlacesOfLoad DEF Copied

\* The snapshots stay those of the version while its load goes on.
LEMMA SwappedKept ==
  ASSUME NEW l \in Loaders, NEW v, v = loader[l].version, AloneAt(l), loader[l].at \in Swapped,
         UNCHANGED <<config, snapshots, content>>,
         \A k \in RunningWorkers' :
           worker'[k].version = v \/ (k \in RunningWorkers /\ worker'[k].version = worker[k].version),
         \A s \in Serials : s \notin DevicesOf(v) /\ s \in Leaving(l) => s \in Leaving(l)'
  PROVE  /\ SnapshotsAt(v, Leaving(l))'
         /\ \A k \in RunningWorkers' :
              k[1] \in DevicesOf(v)' /\ worker'[k].version # v => snapshots'[k[1]] # NoSnapshot
<1>1. \A u : DevicesOf(u)' = DevicesOf(u)
  BY SpecsStay
<1>2. ASSUME NEW s \in Serials, snapshots'[s] # NoSnapshot
      PROVE  Shows(snapshots[s], s, v)' \/ (s \notin DevicesOf(v)' /\ s \in Leaving(l)')
  <2>1. Shows(snapshots[s], s, v) \/ (s \notin DevicesOf(v) /\ s \in Leaving(l))
    BY <1>2 DEF AloneAt, SnapshotsAt
  <2>2. QED
    BY <1>1, <2>1 DEF Shows
<1>3. QED
  BY <1>1, <1>2 DEF SnapshotsAt, AloneAt

\* Then the configuration and the pool become those of its version.
LEMMA MovedAlone ==
  ASSUME Phases, AloneInv, CompleteInv, NEW l \in Loaders,
         StoreConfig(l) \/ FindManager(l) \/ SyncManager(l) \/ LockUpdate(l)
  PROVE  AloneInv' /\ CompleteInv'
<1>1. PICK v : v = loader[l].version
  OBVIOUS
<1>2. /\ UNCHANGED <<config, snapshots, content, worker, complete>> /\ ReloadTypes
      /\ loader[l].at \in {"store", "sync", "init", "refresh", "update"}
  BY DEF StoreConfig, FindManager, SyncManager, LockUpdate, Phases
<1>3. PICK place, todo :
        /\ place \in {"sync", "init", "refresh", "update", "remove"}
        /\ Turned(l, place, todo, loader[l].key)
        /\ place = "remove" => todo = RunningWorkers \ Specs(v)
  <2>1. CASE LockUpdate(l)
    <3>1. Turned(l, "remove", RunningWorkers \ Specs(loader[l].version), loader[l].key)
      BY <1>2, <2>1, LockMakes
    <3>2. QED
      BY <1>1, <3>1
  <2>2. CASE StoreConfig(l) \/ FindManager(l) \/ SyncManager(l)
    <3>1. PICK place \in {"sync", "init", "refresh", "update"} : Step(l, place)
      BY <2>2 DEF StoreConfig, FindManager, SyncManager
    <3>2. Turned(l, place, loader[l].todo, loader[l].key)
      BY <1>2, <3>1, MovedLoad, PlacesOfLoad
    <3>3. QED
      BY <3>2
  <2>3. QED
    BY <2>1, <2>2
<1>4. RunningWorkers' = RunningWorkers /\ \A u : DevicesOf(u)' = DevicesOf(u)
  BY <1>2, SpecsStay DEF RunningWorkers
<1>5. /\ loader[l].at \in Swapped /\ loader[l].at \in LoadPlaces
      /\ place \in LoadPlaces /\ place \notin Starting
      /\ place # "swap" /\ loader[l].at \notin Starting /\ loader[l].at \notin Removing
  BY <1>2, <1>3, PlacesOfLoad DEF Swapped, Stored, Synced, Removing, Starting
<1>6. /\ loader'[l].at = place /\ loader'[l].version = v /\ loader'[l].todo = todo
      /\ \A m \in Loaders \ {l} : loader'[m] = loader[m]
  BY <1>1, <1>3 DEF Turned
<1>7. ASSUME loader[l].alone PROVE AloneAt(l)'
  <2>1. AloneAt(l)
    BY <1>7 DEF AloneInv
  <2>2. ASSUME NEW s \in Serials, s \notin DevicesOf(v), s \in Leaving(l) PROVE s \in Leaving(l)'
    <3>1. PICK k \in RunningWorkers : s = k[1]
      BY <1>5, <2>2 DEF Leaving
    <3>2. CASE place = "remove"
      <4>1. v \in DOMAIN config /\ config \in Histories /\ k \in Keyed
        BY <1>1, <1>2, <1>5, RunningFields DEF Phases, LoadInv, ReloadTypes
      <4>2. k \notin Specs(v)
        BY <2>2, <3>1, <4>1, SpecsOfVersion
      <4>3. k \in todo
        BY <1>3, <3>2, <4>2
      <4>4. QED
        BY <1>5, <1>6, <3>1, <3>2, <4>3 DEF Leaving, Removing
    <3>3. CASE place # "remove"
      <4>1. place \notin Removing
        BY <1>3, <3>3 DEF Removing
      <4>2. QED
        BY <1>4, <1>5, <1>6, <3>1, <4>1 DEF Leaving
    <3>4. QED
      BY <3>2, <3>3
  <2>3. /\ SnapshotsAt(v, Leaving(l))'
        /\ \A k \in RunningWorkers' :
             k[1] \in DevicesOf(v)' /\ worker'[k].version # v => snapshots'[k[1]] # NoSnapshot
    BY <1>1, <1>2, <1>4, <1>5, <2>1, <2>2, SwappedKept
  <2>4. iotCfg' = v
    <3>1. CASE StoreConfig(l)
      BY <1>1, <3>1 DEF StoreConfig
    <3>2. CASE FindManager(l) \/ SyncManager(l) \/ LockUpdate(l)
      <4>1. iotCfg' = iotCfg /\ loader[l].at \in Stored
        BY <3>2 DEF FindManager, SyncManager, LockUpdate, Stored, Synced
      <4>2. QED
        BY <1>1, <2>1, <4>1 DEF AloneAt
    <3>3. QED
      BY <3>1, <3>2
  <2>5. loader'[l].at \in Synced => poolVersion' = v
    <3>1. CASE SyncManager(l)
      BY <1>1, <3>1 DEF SyncManager, PoolAfter
    <3>2. CASE StoreConfig(l) \/ FindManager(l)
      <4>1. \E p \in {"sync", "init", "refresh"} : Step(l, p)
        BY <3>2 DEF StoreConfig, FindManager
      <4>2. loader'[l].at \in {"sync", "init", "refresh"}
        BY <1>2, <4>1, MovedLoad, PlacesOfLoad DEF Turned
      <4>3. QED
        BY <4>2 DEF Synced, UpdatePlaces, Removing, Starting
    <3>3. CASE LockUpdate(l)
      <4>1. poolVersion' = poolVersion /\ loader[l].at \in Synced
        BY <3>3 DEF LockUpdate, Synced
      <4>2. QED
        BY <1>1, <2>1, <4>1 DEF AloneAt
    <3>4. QED
      BY <3>1, <3>2, <3>3
  <2>6. \A m \in Loaders \ {l} : loader'[m].at \notin LoadPlaces
    BY <1>6, <2>1 DEF AloneAt
  <2>7. QED
    BY <1>5, <1>6, <2>3, <2>4, <2>5, <2>6 DEF AloneAt
<1>8. loader'[l].alone = loader[l].alone
  BY <1>3 DEF Turned
<1>9. QED
  BY <1>2, <1>5, <1>6, <1>7, <1>8, OwnStep

\* The update's steps that stop a worker or turn to the next part of its work.
LEMMA StopAlone ==
  ASSUME Phases, AloneInv, CompleteInv, NEW l \in Loaders,
         StopRemoved(l) \/ NoneLeftToRemove(l) \/ StopStale(l)
  PROVE  AloneInv' /\ CompleteInv'
<1>1. PICK v : v = loader[l].version
  OBVIOUS
<1>2. /\ UNCHANGED <<config, snapshots, content, iotCfg, poolVersion, complete>> /\ ReloadTypes
      /\ loader[l].at \in {"remove", "start"}
  BY DEF StopRemoved, NoneLeftToRemove, StopStale, Phases
<1>3. \A k \in Keyed : /\ worker'[k].at = worker[k].at /\ worker'[k].version = worker[k].version
                       /\ worker'[k].ref = worker[k].ref
  BY StopRemovedMakes, StopStaleMakes DEF CancelledOnly, Phases, NoneLeftToRemove
<1>4. PICK place, todo, key :
        /\ Turned(l, place, todo, key)
        /\ \/ loader[l].at = "remove" /\ place = "removing" /\ todo = loader[l].todo
           \/ loader[l].at = "remove" /\ loader[l].todo = {} /\ place = "start" /\ todo = Specs(v)
           \/ loader[l].at = "start" /\ place = "restarting" /\ todo = loader[l].todo
  <2>1. CASE StopRemoved(l)
    BY <1>2, <2>1, StopRemovedMakes DEF StopRemoved
  <2>2. CASE NoneLeftToRemove(l)
    BY <1>1, <2>2, NoneLeftMakes DEF NoneLeftToRemove, Phases
  <2>3. CASE StopStale(l)
    BY <1>2, <2>3, StopStaleMakes DEF StopStale
  <2>4. QED
    BY <2>1, <2>2, <2>3
<1>5. Phases' /\ RunningWorkers' = RunningWorkers
  <2>1. Phases'
    BY StopRemovedPhases, NoneLeftPhases, StopStalePhases
  <2>2. \A k : k \in RunningWorkers' <=> k \in Keyed /\ worker'[k].at # "none"
    BY <2>1 DEF Phases, ReloadTypes, RunningWorkers
  <2>3. QED
    BY <1>2, <1>3, <2>1, <2>2, RunningFields
<1>6. \A u : DevicesOf(u)' = DevicesOf(u) /\ Specs(u)' = Specs(u)
  BY <1>2, SpecsStay
<1>7. /\ loader[l].at \in Synced /\ loader[l].at \in Stored /\ loader[l].at \in Swapped
      /\ loader[l].at \in LoadPlaces /\ place \in LoadPlaces /\ place # "swap"
      /\ loader[l].at = "remove" => loader[l].at \in Removing /\ loader[l].at \notin Starting
      /\ loader[l].at = "start" => loader[l].at \in Starting
      /\ place \in {"removing", "start", "restarting"}
      /\ place = "removing" => place \in Removing /\ place \notin Starting
      /\ place \in {"start", "restarting"} => place \in Starting
  BY <1>2, <1>4, PlacesOfLoad DEF Swapped, Stored, Synced, UpdatePlaces, Removing, Starting
<1>8. /\ loader'[l].at = place /\ loader'[l].version = v /\ loader'[l].todo = todo
      /\ \A m \in Loaders \ {l} : loader'[m] = loader[m]
      /\ loader'[l].alone = loader[l].alone
  BY <1>1, <1>4 DEF Turned
<1>9. ASSUME loader[l].alone PROVE AloneAt(l)'
  <2>1. AloneAt(l)
    BY <1>9 DEF AloneInv
  <2>2. Leaving(l)' = Leaving(l)
    <3>1. CASE place = "removing"
      BY <1>4, <1>7, <1>8, <3>1 DEF Leaving
    <3>2. CASE place = "start"
      BY <1>4, <1>7, <1>8, <3>2 DEF Leaving
    <3>3. CASE place = "restarting"
      BY <1>4, <1>7, <1>8, <3>3 DEF Leaving
    <3>4. QED
      BY <1>7, <3>1, <3>2, <3>3
  <2>3. /\ SnapshotsAt(v, Leaving(l))'
        /\ \A k \in RunningWorkers' :
             k[1] \in DevicesOf(v)' /\ worker'[k].version # v => snapshots'[k[1]] # NoSnapshot
    <3>1. \A k \in RunningWorkers : k \in Keyed
      BY <1>2, RunningFields
    <3>2. QED
      BY <1>1, <1>2, <1>3, <1>5, <1>7, <2>1, <2>2, <3>1, SwappedKept
  <2>4. iotCfg' = v /\ poolVersion' = v
    BY <1>1, <1>2, <1>7, <2>1 DEF AloneAt
  <2>5. ASSUME place \in Starting PROVE WorkersAt(v, todo)'
    <3>1. CASE place = "start"
      BY <1>4, <1>6, <3>1 DEF WorkersAt
    <3>2. CASE place = "restarting"
      <4>1. WorkersAt(v, todo) /\ v \in DOMAIN config /\ config \in Histories
        BY <1>1, <1>2, <1>4, <1>7, <2>1, <3>2 DEF AloneAt, Phases, LoadInv, ReloadTypes
      <4>2. Specs(v) \subseteq Keyed
        BY <4>1, SpecsOfVersion
      <4>3. QED
        BY <1>2, <1>3, <1>5, <1>6, <4>1, <4>2 DEF WorkersAt
    <3>3. QED
      BY <1>7, <2>5, <3>1, <3>2
  <2>6. \A m \in Loaders \ {l} : loader'[m].at \notin LoadPlaces
    BY <1>8, <2>1 DEF AloneAt
  <2>7. WorkersAt(v, loader[l].todo)' <=> WorkersAt(v, todo)'
    BY <1>8 DEF WorkersAt
  <2>8. QED
    BY <1>7, <1>8, <2>3, <2>4, <2>5, <2>6, <2>7 DEF AloneAt
<1>10. QED
  BY <1>2, <1>7, <1>8, <1>9, OwnStep

\* A removed worker takes the snapshot of its serial number along.
LEMMA GoneAlone ==
  ASSUME Phases, AloneInv, CompleteInv, NEW l \in Loaders, RemovedIsGone(l)
  PROVE  AloneInv' /\ CompleteInv'
<1>1. PICK v : v = loader[l].version
  OBVIOUS
<1>2. PICK k : k = loader[l].key
  OBVIOUS
<1> DEFINE todo == loader[l].todo \ {k}
<1>3. /\ UNCHANGED <<config, worker, iotCfg, poolVersion, complete>> /\ ReloadTypes
      /\ loader[l].at = "removing" /\ k \notin RunningWorkers
  BY <1>2 DEF RemovedIsGone, Phases, Gone
<1>4. /\ k \in Keyed /\ k \in loader[l].todo /\ Turned(l, "remove", todo, <<>>)
      /\ k[1] \in Serials /\ snapshots'[k[1]] = NoSnapshot
      /\ snapshots' \in [Serials -> Slots]
      /\ \A s \in Serials \ {k[1]} : snapshots'[s] = snapshots[s]
      /\ \A x \in Snapshots : x \in Referenced' => content'[x] = content[x]
  BY <1>2, GoneMakes DEF Phases
<1>5. RunningWorkers' = RunningWorkers /\ \A u : DevicesOf(u)' = DevicesOf(u)
  BY <1>3, SpecsStay DEF RunningWorkers
<1>6. /\ loader[l].at \in Synced /\ loader[l].at \in Stored /\ loader[l].at \in Swapped
      /\ loader[l].at \in LoadPlaces /\ loader[l].at \in Removing /\ loader[l].at \notin Starting
      /\ "remove" \in LoadPlaces /\ "remove" \in Removing /\ "remove" \notin Starting
  BY <1>3, PlacesOfLoad DEF Swapped, Stored, Synced, UpdatePlaces, Removing, Starting
<1>7. /\ loader'[l].at = "remove" /\ loader'[l].version = v /\ loader'[l].todo = todo
      /\ \A m \in Loaders \ {l} : loader'[m] = loader[m]
      /\ loader'[l].alone = loader[l].alone
  BY <1>1, <1>4 DEF Turned
<1>8. \A s \in Serials : snapshots'[s] \in Referenced'
  BY <1>4 DEF Referenced, Range
<1>9. \A j \in RunningWorkers : j[1] # k[1]
  <2>1. RemovalAt(l)
    BY <1>6 DEF Phases, RemovalInv
  <2>2. QED
    BY <1>3, <1>4, <2>1 DEF RemovalAt
<1>10. ASSUME loader[l].alone PROVE AloneAt(l)'
  <2>1. AloneAt(l)
    BY <1>10 DEF AloneInv
  <2>2. ASSUME NEW s \in Serials, snapshots'[s] # NoSnapshot
        PROVE  Shows(snapshots[s], s, v)' \/ (s \notin DevicesOf(v)' /\ s \in Leaving(l)')
    <3>1. s # k[1] /\ snapshots'[s] = snapshots[s]
      BY <1>4, <2>2
    <3>2. CASE Shows(snapshots[s], s, v)
      <4>1. content'[snapshots'[s]] = content[snapshots'[s]]
        BY <1>4, <1>8, <3>1, <3>2 DEF Shows
      <4>2. s \in DevicesOf(v)'
        BY <1>5, <3>2 DEF Shows
      <4>3. QED
        BY <1>3, <3>1, <3>2, <4>1, <4>2 DEF Shows
    <3>3. CASE s \notin DevicesOf(v) /\ s \in Leaving(l)
      <4>1. PICK j \in loader[l].todo : s = j[1]
        BY <1>6, <3>3 DEF Leaving
      <4>2. j \in todo
        BY <3>1, <4>1
      <4>3. s \in Leaving(l)'
        BY <1>6, <1>7, <4>1, <4>2 DEF Leaving
      <4>4. QED
        BY <1>5, <3>3, <4>3
    <3>4. QED
      BY <1>1, <1>6, <2>1, <3>1, <3>2, <3>3, <2>2 DEF AloneAt, SnapshotsAt
  <2>3. SnapshotsAt(v, Leaving(l))'
    BY <2>2 DEF SnapshotsAt
  <2>4. \A j \in RunningWorkers' :
          j[1] \in DevicesOf(v)' /\ worker'[j].version # v => snapshots'[j[1]] # NoSnapshot
    <3>1. \A j \in RunningWorkers : j[1] \in Serials
      BY <1>3, RunningFields DEF Keyed
    <3>2. QED
      BY <1>1, <1>3, <1>4, <1>5, <1>6, <1>9, <2>1, <3>1 DEF AloneAt
  <2>5. iotCfg' = v /\ poolVersion' = v
    BY <1>1, <1>3, <1>6, <2>1 DEF AloneAt
  <2>6. \A m \in Loaders \ {l} : loader'[m].at \notin LoadPlaces
    BY <1>7, <2>1 DEF AloneAt
  <2>7. QED
    BY <1>6, <1>7, <2>3, <2>4, <2>5, <2>6 DEF AloneAt
<1>11. QED
  BY <1>3, <1>6, <1>7, <1>10, OwnStep

\* A started worker is one of its version.
LEMMA StartAlone ==
  ASSUME Phases, AloneInv, CompleteInv, NEW l \in Loaders, StartWorker(l)
  PROVE  AloneInv' /\ CompleteInv'
<1>1. PICK v : v = loader[l].version
  OBVIOUS
<1>2. PICK k : k = loader[l].key
  OBVIOUS
<1>a. PICK todo : todo = loader[l].todo \ {k}
  OBVIOUS
<1>3. /\ UNCHANGED <<config, snapshots, content, iotCfg, poolVersion, complete>> /\ ReloadTypes
      /\ loader[l].at = "restarting"
  BY DEF StartWorker, Phases
<1>4. /\ k \in Keyed /\ Turned(l, "start", todo, <<>>)
      /\ \A j \in Keyed \ {k} : worker'[j] = worker[j]
      /\ worker'[k].ref = NoSnapshot /\ worker'[k].version = v
  BY <1>1, <1>2, <1>a, StartMakes DEF Phases
<1>5. RunningWorkers' = RunningWorkers \cup {k} /\ \A u : DevicesOf(u)' = DevicesOf(u) /\ Specs(u)' = Specs(u)
  BY <1>2, <1>3, SpecsStay, StartPhases
<1>6. /\ loader[l].at \in Synced /\ loader[l].at \in Stored /\ loader[l].at \in Swapped
      /\ loader[l].at \in LoadPlaces /\ loader[l].at \in Starting
      /\ "start" \in LoadPlaces /\ "start" \in Starting
  BY <1>3, PlacesOfLoad DEF Swapped, Stored, Synced, UpdatePlaces, Removing, Starting
<1>7. /\ loader'[l].at = "start" /\ loader'[l].version = v /\ loader'[l].todo = todo
      /\ \A m \in Loaders \ {l} : loader'[m] = loader[m]
      /\ loader'[l].alone = loader[l].alone
  BY <1>1, <1>4 DEF Turned
<1>8. \A j \in RunningWorkers : j \in Keyed
  BY <1>3, RunningFields
<1>9. ASSUME loader[l].alone PROVE AloneAt(l)'
  <2>1. AloneAt(l)
    BY <1>9 DEF AloneInv
  <2>2. Leaving(l) = {} /\ Leaving(l)' = {}
    BY <1>6, <1>7 DEF Leaving
  <2>3. /\ SnapshotsAt(v, Leaving(l))'
        /\ \A j \in RunningWorkers' :
             j[1] \in DevicesOf(v)' /\ worker'[j].version # v => snapshots'[j[1]] # NoSnapshot
    BY <1>1, <1>3, <1>4, <1>5, <1>6, <1>8, <2>1, <2>2, SwappedKept, ZenonT(60)
  <2>4. iotCfg' = v /\ poolVersion' = v
    BY <1>1, <1>3, <1>6, <2>1 DEF AloneAt
  <2>5. WorkersAt(v, loader[l].todo)
    BY <1>1, <1>6, <2>1 DEF AloneAt
  <2>6. WorkersAt(v, todo)'
    BY <1>3, <1>4, <1>5, <1>8, <1>a, <2>5 DEF WorkersAt
  <2>7. WorkersAt(v, loader[l].todo)' <=> WorkersAt(v, todo)'
    BY <1>7 DEF WorkersAt
  <2>8. \A m \in Loaders \ {l} : loader'[m].at \notin LoadPlaces
    BY <1>7, <2>1 DEF AloneAt
  <2>9. QED
    BY <1>6, <1>7, <2>3, <2>4, <2>6, <2>7, <2>8 DEF AloneAt
<1>10. QED
  BY <1>3, <1>6, <1>7, <1>9, OwnStep

\* The last worker has been started: the version is in place.
LEMMA EndsComplete ==
  ASSUME Phases, AloneInv, CompleteInv, NEW l \in Loaders, LoadEnds(l)
  PROVE  AloneInv' /\ CompleteInv'
<1>1. PICK v : v = loader[l].version
  OBVIOUS
<1>2. /\ UNCHANGED <<config, snapshots, content, iotCfg, poolVersion, worker>> /\ ReloadTypes
      /\ loader[l].at = "start" /\ loader[l].todo = {} /\ complete' = loader[l].alone
  BY DEF LoadEnds, Phases
<1>3. /\ \A m \in Loaders \ {l} : loader'[m] = loader[m]
      /\ loader'[l].at \in {"idle", "done"} /\ loader'[l].alone = FALSE
  BY <1>2, OverMakes DEF LoadEnds
<1>4. loader[l].at \in LoadPlaces /\ loader'[l].at \notin LoadPlaces
      /\ loader[l].at \in Synced /\ loader[l].at \in Stored /\ loader[l].at \in Swapped
      /\ loader[l].at \in Starting
  BY <1>2, <1>3, PlacesOfLoad DEF Swapped, Stored, Synced, UpdatePlaces, Removing, Starting
<1>5. \A m \in Loaders \ {l} : ~ loader[m].alone
  BY <1>4 DEF AloneInv, AloneAt
<1>6. AloneInv'
  BY <1>3, <1>5 DEF AloneInv
<1>7. ASSUME loader[l].alone PROVE CompleteInv'
  <2>1. AloneAt(l)
    BY <1>7 DEF AloneInv
  <2>2. StartAt(l) /\ v \in DOMAIN config
    BY <1>1, <1>4 DEF Phases, StartInv, LoadInv
  <2>3. RunningWorkers = Specs(v)
    BY <1>1, <1>2, <2>2 DEF StartAt
  <2>4. iotCfg = v /\ poolVersion = v /\ WorkersAt(v, {})
    BY <1>1, <1>2, <1>4, <2>1 DEF AloneAt
  <2>5. SnapshotsAt(v, {})
    BY <1>1, <1>4, <2>1 DEF AloneAt, Leaving
  <2>6. \A m \in Loaders : loader'[m].at \notin LoadPlaces
    BY <1>3, <1>4, <2>1 DEF AloneAt
  <2>7. RunningWorkers' = RunningWorkers /\ \A u : Specs(u)' = Specs(u) /\ DevicesOf(u)' = DevicesOf(u)
    BY <1>2, SpecsStay DEF RunningWorkers
  <2>8. WorkersAt(v, {})'
    BY <1>2, <2>4, <2>7 DEF WorkersAt
  <2>9. SnapshotsAt(v, {})'
    BY <1>2, <2>5, <2>7 DEF SnapshotsAt, Shows
  <2>10. iotCfg' = v
    BY <1>2, <2>4
  <2>11. /\ WorkersAt(iotCfg, {})' <=> WorkersAt(v, {})'
         /\ SnapshotsAt(iotCfg, {})' <=> SnapshotsAt(v, {})'
         /\ Specs(iotCfg)' = Specs(v)'
    BY <2>10 DEF WorkersAt, SnapshotsAt, Shows, Specs, DevicesOf
  <2>12. QED
    BY <1>2, <2>2, <2>3, <2>4, <2>6, <2>7, <2>8, <2>9, <2>10, <2>11 DEF CompleteInv
<1>8. QED
  BY <1>2, <1>6, <1>7 DEF CompleteInv

\* A step that changes none of what a load brings about.
LEMMA SameAlone ==
  ASSUME NEW l \in Loaders, AloneAt(l), loader'[l] = loader[l],
         UNCHANGED <<config, snapshots, content, iotCfg, poolVersion, worker>>,
         \A m \in Loaders \ {l} : loader'[m].at \notin LoadPlaces
  PROVE  AloneAt(l)'
<1>1. PICK v, place, todo, copy :
        /\ v = loader[l].version /\ place = loader[l].at /\ todo = loader[l].todo
        /\ copy = loader[l].copy
  OBVIOUS
<1>2. /\ v = loader'[l].version /\ place = loader'[l].at /\ todo = loader'[l].todo
      /\ copy = loader'[l].copy
  BY <1>1
<1>3. RunningWorkers' = RunningWorkers /\ \A u : Specs(u)' = Specs(u) /\ DevicesOf(u)' = DevicesOf(u)
  BY SpecsStay DEF RunningWorkers
<1>4. Leaving(l)' = Leaving(l)
  BY <1>3 DEF Leaving
<1>5. /\ place = "swap" =>
           \A s \in Serials : copy[s] # NoSnapshot \/ s \in DevicesOf(v) => Shows(copy[s], s, v)
      /\ place \in Swapped =>
           /\ SnapshotsAt(v, Leaving(l))
           /\ \A k \in RunningWorkers :
                k[1] \in DevicesOf(v) /\ worker[k].version # v => snapshots[k[1]] # NoSnapshot
      /\ place \in Starting => WorkersAt(v, todo)
      /\ place \in LoadPlaces
      /\ place \in Stored => iotCfg = v
      /\ place \in Synced => poolVersion = v
  BY <1>1 DEF AloneAt
<1>6. /\ place = "swap" =>
           \A s \in Serials : copy[s] # NoSnapshot \/ s \in DevicesOf(v)' => Shows(copy[s], s, v)'
      /\ place \in Swapped => SnapshotsAt(v, Leaving(l))'
      /\ place \in Starting => WorkersAt(v, todo)'
  BY <1>3, <1>4, <1>5 DEF Shows, SnapshotsAt, WorkersAt
<1>7. WorkersAt(v, loader[l].todo)' <=> WorkersAt(v, todo)'
  BY <1>2 DEF WorkersAt
<1>8. QED
  BY <1>2, <1>3, <1>5, <1>6, <1>7 DEF AloneAt

\* Steps of what is outside a load that is alone.
LEMMA ElsewhereAlone ==
  ASSUME AloneInv, CompleteInv,
         UNCHANGED <<config, snapshots, content, iotCfg, poolVersion, worker, complete>>,
         \A m \in Loaders : \/ loader'[m] = loader[m]
                            \/ /\ loader[m].at \notin LoadPlaces /\ loader'[m].at \notin LoadPlaces
                               /\ ~ loader'[m].alone
  PROVE  AloneInv' /\ CompleteInv'
<1>1. ASSUME NEW l \in Loaders, loader'[l].alone PROVE AloneAt(l)'
  <2>1. loader'[l] = loader[l] /\ AloneAt(l)
    BY <1>1 DEF AloneInv
  <2>2. \A m \in Loaders \ {l} : loader'[m].at \notin LoadPlaces
    BY <2>1 DEF AloneAt
  <2>3. QED
    BY <2>1, <2>2, SameAlone
<1>2. ASSUME complete PROVE CompleteInv'
  <2>1. RunningWorkers' = RunningWorkers /\ \A u : Specs(u)' = Specs(u) /\ DevicesOf(u)' = DevicesOf(u)
    BY SpecsStay DEF RunningWorkers
  <2>2. PICK v : v = iotCfg
    OBVIOUS
  <2>3. /\ WorkersAt(v, {}) /\ SnapshotsAt(v, {}) /\ RunningWorkers = Specs(v)
        /\ v \in DOMAIN config /\ poolVersion = v
        /\ \A m \in Loaders : loader[m].at \notin LoadPlaces
    BY <1>2, <2>2 DEF CompleteInv
  <2>4. WorkersAt(v, {})' /\ SnapshotsAt(v, {})'
    BY <2>1, <2>3 DEF WorkersAt, SnapshotsAt, Shows
  <2>5. /\ WorkersAt(iotCfg, {})' <=> WorkersAt(v, {})'
        /\ SnapshotsAt(iotCfg, {})' <=> SnapshotsAt(v, {})'
        /\ Specs(iotCfg)' = Specs(v)'
    BY <2>2 DEF WorkersAt, SnapshotsAt, Shows, Specs, DevicesOf
  <2>6. \A m \in Loaders : loader'[m].at \notin LoadPlaces
    BY <2>3
  <2>7. QED
    BY <2>1, <2>2, <2>3, <2>4, <2>5, <2>6 DEF CompleteInv
<1>3. QED
  BY <1>1, <1>2 DEF AloneInv, CompleteInv

\* These are the publisher, the subscription and a load that fails.
LEMMA OutsideAlone ==
  ASSUME Phases, AloneInv, CompleteInv,
         \/ Publish \/ Subscribe \/ SubscriptionLost \/ Notified
         \/ \E l \in Loaders : LoadFails(l)
  PROVE  /\ UNCHANGED <<config, snapshots, content, iotCfg, poolVersion, worker, keys, complete>>
         /\ \A m \in Loaders : \/ loader'[m] = loader[m]
                               \/ /\ loader[m].at \notin LoadPlaces /\ loader'[m].at \notin LoadPlaces
                                  /\ ~ loader'[m].alone
<1>1. UNCHANGED <<config, snapshots, content, iotCfg, poolVersion, worker, keys, complete>>
  BY DEF Publish, Subscribe, SubscriptionLost, Notified, LoadFails
<1>2. CASE Publish \/ Subscribe \/ SubscriptionLost
  BY <1>1, <1>2 DEF Publish, Subscribe, SubscriptionLost
<1>3. CASE Notified
  BY <1>1, <1>3, NotifiedPhases, PlacesOfLoad DEF AloneInv, AloneAt
<1>4. ASSUME NEW l \in Loaders, LoadFails(l)
      PROVE  \A m \in Loaders : \/ loader'[m] = loader[m]
                                \/ /\ loader[m].at \notin LoadPlaces /\ loader'[m].at \notin LoadPlaces
                                   /\ ~ loader'[m].alone
  BY <1>4, OverMakes, PlacesOfLoad DEF LoadFails, Phases
<1>5. QED
  BY <1>1, <1>2, <1>3, <1>4

\* A load that begins while another one is under way is not alone, nor is the other any more.
LEMMA ReadAlone ==
  ASSUME Phases, NEW l \in Loaders, Read(l)
  PROVE  AloneInv' /\ CompleteInv'
<1>1. /\ \A m \in Loaders \ {l} : loader'[m].at = loader[m].at /\ loader'[m].alone = FALSE
      /\ loader'[l].at = "copy" /\ loader'[l].alone = ~ \E m \in Loaders : Loading(m)
  BY ReadMakes DEF Phases
<1>2. complete' = FALSE
  BY DEF Read
<1>3. ASSUME loader'[l].alone PROVE AloneAt(l)'
  <2>1. \A m \in Loaders : loader[m].at \notin LoadPlaces
    BY <1>1, <1>3, PlacesOfLoad DEF Loading
  <2>2. QED
    BY <1>1, <2>1, PlacesOfLoad
    DEF AloneAt, Swapped, Stored, Synced, UpdatePlaces, Removing, Starting
<1>4. QED
  BY <1>1, <1>2, <1>3 DEF AloneInv, CompleteInv

\* What a worker's step does to the references: it may put a new snapshot where the serial
\* number had none.
Recorded(k) ==
  /\ k \in RunningWorkers
  /\ \A j \in Keyed \ {k} : worker'[j] = worker[j]
  /\ worker'[k].at # "none" /\ worker'[k].version = worker[k].version
  /\ worker'[k].ref \in {NoSnapshot, snapshots'[k[1]]}
  /\ \A s \in Serials :
       \/ snapshots'[s] = snapshots[s]
       \/ /\ s = k[1] /\ snapshots[s] = NoSnapshot /\ snapshots'[s] \in Snapshots
          /\ content'[snapshots'[s]].id = DeviceOf(k).id /\ content'[snapshots'[s]].names = 0
  /\ \A y \in Snapshots : y \in Referenced /\ y \in Referenced' =>
       content'[y].id = content[y].id /\ content'[y].names = content[y].names

\* What both steps of recording a value have in common.
LEMMA RecordedBoth ==
  ASSUME Phases, NEW k \in Keyed, EnsureSnapshot(k) \/ RecordValue(k)
  PROVE  Recorded(k)
<1>1. ReloadTypes /\ WorkerInv /\ NoSnapshot \notin Snapshots /\ k[1] \in Serials
  BY ReloadAssumption DEF Phases, ReloadAssumption, Keyed
<1>2. k \in RunningWorkers
  BY <1>1, RunningFields DEF EnsureSnapshot, RecordValue
<1>3. CASE EnsureSnapshot(k)
  <2>1. PICK x \in Snapshots :
          /\ \A j \in Keyed \ {k} : worker'[j] = worker[j]
          /\ worker'[k].at = "record" /\ worker'[k].ref = x /\ worker'[k].version = worker[k].version
          /\ \/ snapshots[k[1]] = x /\ UNCHANGED <<snapshots, content>>
             \/ /\ snapshots[k[1]] = NoSnapshot /\ x \notin Referenced /\ snapshots'[k[1]] = x
                /\ \A s \in Serials \ {k[1]} : snapshots'[s] = snapshots[s]
                /\ content'[x] = [id |-> DeviceOf(k).id, names |-> 0, points |-> {}]
                /\ \A y \in Snapshots \ {x} : content'[y] = content[y]
    BY <1>1, <1>3, EnsureMakes
  <2>2. CASE snapshots[k[1]] = x /\ UNCHANGED <<snapshots, content>>
    BY <1>2, <2>1, <2>2 DEF Recorded
  <2>3. CASE /\ snapshots[k[1]] = NoSnapshot /\ x \notin Referenced /\ snapshots'[k[1]] = x
             /\ \A s \in Serials \ {k[1]} : snapshots'[s] = snapshots[s]
             /\ content'[x] = [id |-> DeviceOf(k).id, names |-> 0, points |-> {}]
             /\ \A y \in Snapshots \ {x} : content'[y] = content[y]
    <3>1. content'[x].id = DeviceOf(k).id /\ content'[x].names = 0
      BY <2>3
    <3>2. \A s \in Serials :
            \/ snapshots'[s] = snapshots[s]
            \/ /\ s = k[1] /\ snapshots[s] = NoSnapshot /\ snapshots'[s] \in Snapshots
               /\ content'[snapshots'[s]].id = DeviceOf(k).id /\ content'[snapshots'[s]].names = 0
      BY <2>3, <3>1
    <3>3. \A y \in Snapshots : y \in Referenced => content'[y] = content[y]
      BY <2>3
    <3>4. QED
      BY <1>2, <2>1, <2>3, <3>2, <3>3 DEF Recorded
  <2>4. QED
    BY <2>1, <2>2, <2>3
<1>4. CASE RecordValue(k)
  <2>1. PICK r \in Contents :
          /\ \A j \in Keyed \ {k} : worker'[j] = worker[j]
          /\ worker'[k].at = "run" /\ worker'[k].ref = NoSnapshot
          /\ worker'[k].version = worker[k].version
          /\ r.id = content[worker[k].ref].id /\ r.names = content[worker[k].ref].names
          /\ worker[k].ref \in Referenced' => content'[worker[k].ref] = r
          /\ \A y \in Snapshots : y \in Referenced' /\ y # worker[k].ref => content'[y] = content[y]
          /\ UNCHANGED <<loader, snapshots>>
    BY <1>1, <1>4, RecordMakes
  <2>2. \A y \in Snapshots : y \in Referenced' =>
          content'[y].id = content[y].id /\ content'[y].names = content[y].names
    BY <2>1
  <2>3. QED
    BY <1>2, <2>1, <2>2 DEF Recorded
<1>5. QED
  BY <1>3, <1>4

\* The workers stay,
LEMMA RecordedRuns ==
  ASSUME Phases, Phases', NEW k \in Keyed, Recorded(k)
  PROVE  /\ RunningWorkers' = RunningWorkers
         /\ \A j \in RunningWorkers : worker'[j].version = worker[j].version
<1>1. \A j : j \in RunningWorkers <=> j \in Keyed /\ worker[j].at # "none"
  BY RunningFields DEF Phases
<1>2. \A j : j \in RunningWorkers' <=> j \in Keyed /\ worker'[j].at # "none"
  BY DEF Phases, ReloadTypes, RunningWorkers
<1>3. QED
  BY <1>1, <1>2 DEF Recorded

\* the snapshots are still those of the version,
LEMMA RecordedSnapshots ==
  ASSUME Phases, Phases', NEW k \in Keyed, Recorded(k), config' = config, NEW v, NEW leaving,
         SnapshotsAt(v, leaving),
         snapshots[k[1]] = NoSnapshot =>
           \/ k[1] \in DevicesOf(v) /\ worker[k].version = v
           \/ k[1] \notin DevicesOf(v) /\ k[1] \in leaving
  PROVE  SnapshotsAt(v, leaving)'
<1>1. /\ \A s \in Serials : snapshots[s] \in Referenced
      /\ \A s \in Serials : snapshots'[s] \in Referenced'
  BY DEF Referenced, Range, Phases, ReloadTypes
<1>2. \A u : DevicesOf(u)' = DevicesOf(u)
  BY SpecsStay
<1>3. ASSUME NEW s \in Serials, snapshots'[s] # NoSnapshot
      PROVE  Shows(snapshots[s], s, v)' \/ (s \notin DevicesOf(v)' /\ s \in leaving)
  <2>1. CASE snapshots'[s] = snapshots[s]
    <3>1. Shows(snapshots[s], s, v) \/ (s \notin DevicesOf(v) /\ s \in leaving)
      BY <1>3, <2>1 DEF SnapshotsAt
    <3>2. ASSUME Shows(snapshots[s], s, v) PROVE Shows(snapshots[s], s, v)'
      <4>1. /\ content'[snapshots[s]].id = content[snapshots[s]].id
            /\ content'[snapshots[s]].names = content[snapshots[s]].names
        BY <1>1, <2>1, <3>2 DEF Recorded, Shows
      <4>2. QED
        BY <1>2, <2>1, <3>2, <4>1 DEF Shows
    <3>3. QED
      BY <1>2, <3>1, <3>2
  <2>2. CASE snapshots'[s] # snapshots[s]
    <3>1. /\ s = k[1] /\ snapshots[s] = NoSnapshot /\ snapshots'[s] \in Snapshots
          /\ content'[snapshots'[s]].id = DeviceOf(k).id /\ content'[snapshots'[s]].names = 0
      BY <2>2 DEF Recorded
    <3>2. CASE k[1] \in DevicesOf(v) /\ worker[k].version = v
      BY <1>2, <3>1, <3>2 DEF Shows, DeviceOf
    <3>3. CASE k[1] \notin DevicesOf(v) /\ k[1] \in leaving
      BY <1>2, <3>1, <3>3
    <3>4. QED
      BY <3>1, <3>2, <3>3
  <2>3. QED
    BY <2>1, <2>2
<1>4. QED
  BY <1>3 DEF SnapshotsAt

\* the workers refer to the same snapshots,
LEMMA RecordedWorkers ==
  ASSUME Phases, Phases', NEW k \in Keyed, Recorded(k), config' = config, NEW v, NEW todo,
         WorkersAt(v, todo)
  PROVE  WorkersAt(v, todo)'
<1>1. \A u : Specs(u)' = Specs(u)
  BY SpecsStay
<1>2. /\ RunningWorkers' = RunningWorkers
      /\ \A j \in RunningWorkers : worker'[j].version = worker[j].version
  BY RecordedRuns
<1>3. \A j \in RunningWorkers : j \in Keyed /\ j[1] \in Serials
  BY RunningFields DEF Phases, Keyed
<1>4. \A j \in RunningWorkers : j[1] = k[1] => j = k
  BY DEF Phases, OneUpdate, Recorded
<1>5. ASSUME NEW j \in Specs(v) \ todo
      PROVE  j \in RunningWorkers' /\ worker'[j].version = v
             /\ worker'[j].ref \in {NoSnapshot, snapshots'[j[1]]}
  <2>1. /\ j \in RunningWorkers /\ worker[j].version = v
        /\ worker[j].ref \in {NoSnapshot, snapshots[j[1]]}
    BY DEF WorkersAt
  <2>2. CASE j = k
    BY <1>2, <2>1, <2>2 DEF Recorded
  <2>3. CASE j # k
    <3>1. worker'[j] = worker[j] /\ snapshots'[j[1]] = snapshots[j[1]]
      BY <1>3, <1>4, <2>1, <2>3 DEF Recorded
    <3>2. QED
      BY <1>2, <2>1, <3>1
  <2>4. QED
    BY <2>2, <2>3
<1>6. QED
  BY <1>1, <1>5 DEF WorkersAt

\* and so a load stays as far as it was.
LEMMA RecordedAlone ==
  ASSUME Phases, Phases', AloneInv, CompleteInv, NEW k \in Keyed, Recorded(k),
         UNCHANGED <<config, loader, iotCfg, poolVersion, complete>>
  PROVE  AloneInv' /\ CompleteInv'
<1>1. \A u : Specs(u)' = Specs(u) /\ DevicesOf(u)' = DevicesOf(u)
  BY SpecsStay
<1>2. /\ RunningWorkers' = RunningWorkers
      /\ \A j \in RunningWorkers : worker'[j].version = worker[j].version
  BY RecordedRuns
<1>3. \A j \in RunningWorkers : j \in Keyed /\ j[1] \in Serials
  BY RunningFields DEF Phases, Keyed
<1>4. k \in RunningWorkers
  BY DEF Recorded
<1>5. ASSUME NEW l \in Loaders, loader'[l].alone PROVE AloneAt(l)'
  <2>1. AloneAt(l)
    BY <1>5 DEF AloneInv
  <2>2. PICK v, place, todo, copy, leaving :
          /\ v = loader[l].version /\ place = loader[l].at /\ todo = loader[l].todo
          /\ copy = loader[l].copy /\ leaving = Leaving(l)
    OBVIOUS
  <2>3. /\ v = loader'[l].version /\ place = loader'[l].at /\ todo = loader'[l].todo
        /\ copy = loader'[l].copy /\ leaving = Leaving(l)'
    BY <1>2, <2>2 DEF Leaving
  <2>4. ASSUME place = "swap", NEW s \in Serials, copy[s] # NoSnapshot \/ s \in DevicesOf(v)'
        PROVE  Shows(copy[s], s, v)'
    <3>1. Shows(copy[s], s, v)
      BY <1>1, <2>1, <2>2, <2>4 DEF AloneAt
    <3>2. loader[l].copy \in [Serials -> Slots] /\ loader'[l].copy \in [Serials -> Slots]
      BY FieldsOfLoad DEF Phases
    <3>3. copy[s] \in Referenced /\ copy[s] \in Referenced'
      BY <2>2, <2>3, <3>2 DEF Referenced, Range
    <3>4. QED
      BY <1>1, <3>1, <3>3 DEF Recorded, Shows
  <2>5. ASSUME place \in Swapped PROVE SnapshotsAt(v, leaving)'
    <3>1. SnapshotsAt(v, leaving)
      BY <2>1, <2>2, <2>5 DEF AloneAt
    <3>2. ASSUME snapshots[k[1]] = NoSnapshot, k[1] \in DevicesOf(v) PROVE worker[k].version = v
      BY <1>4, <2>1, <2>2, <2>5, <3>2 DEF AloneAt
    <3>3. ASSUME k[1] \notin DevicesOf(v) PROVE k[1] \in leaving
      <4>1. v \in DOMAIN config /\ config \in Histories
        BY <2>1, <2>2 DEF AloneAt, Phases, LoadInv, ReloadTypes
      <4>2. k \notin Specs(v)
        BY <3>3, <4>1, SpecsOfVersion
      <4>3. CASE place \in Starting
        BY <1>4, <2>2, <4>2, <4>3 DEF Phases, StartInv, StartAt
      <4>4. CASE place \in Removing
        <5>1. RemovalAt(l) /\ place \notin Starting
          BY <2>2, <4>4 DEF Phases, RemovalInv, Removing, Starting
        <5>2. k \in todo
          BY <1>4, <2>2, <4>2, <5>1 DEF RemovalAt
        <5>3. QED
          BY <2>2, <4>4, <5>1, <5>2 DEF Leaving
      <4>5. CASE place \notin Starting /\ place \notin Removing
        BY <1>4, <2>2, <4>5 DEF Leaving
      <4>6. QED
        BY <4>3, <4>4, <4>5
    <3>4. QED
      BY <3>1, <3>2, <3>3, RecordedSnapshots
  <2>6. SnapshotsAt(v, Leaving(l))' <=> SnapshotsAt(v, leaving)'
    BY <2>3 DEF SnapshotsAt
  <2>7. ASSUME place \in Swapped, NEW j \in RunningWorkers', j[1] \in DevicesOf(v)', worker'[j].version # v
        PROVE  snapshots'[j[1]] # NoSnapshot
    <3>1. snapshots[j[1]] # NoSnapshot
      BY <1>1, <1>2, <2>1, <2>2, <2>7 DEF AloneAt
    <3>2. QED
      BY <1>2, <1>3, <2>7, <3>1 DEF Recorded
  <2>8. ASSUME place \in Starting PROVE WorkersAt(v, todo)'
    BY <2>1, <2>2, <2>8, RecordedWorkers DEF AloneAt
  <2>9. WorkersAt(v, loader[l].todo)' <=> WorkersAt(v, todo)'
    BY <2>3 DEF WorkersAt
  <2>10. /\ place \in LoadPlaces /\ \A m \in Loaders \ {l} : loader'[m].at \notin LoadPlaces
         /\ place \in Stored => iotCfg' = v
         /\ place \in Synced => poolVersion' = v
    BY <2>1, <2>2 DEF AloneAt
  <2>11. QED
    BY <2>3, <2>4, <2>5, <2>6, <2>7, <2>8, <2>9, <2>10 DEF AloneAt
<1>6. ASSUME complete PROVE CompleteInv'
  <2>1. PICK v : v = iotCfg
    OBVIOUS
  <2>2. /\ WorkersAt(v, {}) /\ SnapshotsAt(v, {}) /\ RunningWorkers = Specs(v)
        /\ v \in DOMAIN config /\ poolVersion = v
        /\ \A m \in Loaders : loader[m].at \notin LoadPlaces
    BY <1>6, <2>1 DEF CompleteInv
  <2>3. k[1] \in DevicesOf(v) /\ worker[k].version = v
    BY <1>4, <2>2, SpecsOfVersion DEF WorkersAt, Phases, ReloadTypes
  <2>4. WorkersAt(v, {})' /\ SnapshotsAt(v, {})'
    BY <2>2, <2>3, RecordedWorkers, RecordedSnapshots
  <2>5. /\ WorkersAt(iotCfg, {})' <=> WorkersAt(v, {})'
        /\ SnapshotsAt(iotCfg, {})' <=> SnapshotsAt(v, {})'
        /\ Specs(iotCfg)' = Specs(v)'
    BY <2>1 DEF WorkersAt, SnapshotsAt, Shows, Specs, DevicesOf
  <2>6. QED
    BY <1>1, <1>2, <2>1, <2>2, <2>4, <2>5 DEF CompleteInv
<1>7. QED
  BY <1>5, <1>6 DEF AloneInv, CompleteInv

\* A worker that leaves was to be removed or is to be started again.
LEMMA LeaveAlone ==
  ASSUME Phases, AloneInv, CompleteInv, NEW k \in Keyed, Leave(k)
  PROVE  AloneInv' /\ CompleteInv'
<1>1. /\ UNCHANGED <<config, loader, snapshots, content, iotCfg, poolVersion, complete>>
      /\ ReloadTypes
  BY DEF Leave, Phases
<1>2. /\ \A j \in Keyed \ {k} : worker'[j] = worker[j]
      /\ RunningWorkers' = RunningWorkers \ {k}
  BY LeaveMakes, LeavePhases DEF Phases
<1>3. PICK o \in Loaders : loader[o].at \in Waiting /\ loader[o].key = k
  BY LeavePhases
<1>4. /\ loader[o].at \in LoadPlaces /\ k \in loader[o].todo
      /\ loader[o].at \in Removing \/ loader[o].at \in Starting
      /\ loader[o].at \in Removing => loader[o].at \notin Starting
      /\ loader[o].at # "swap"
  BY <1>3, PlacesOfLoad DEF Waiting, Phases, LoadInv, Removing, Starting
<1>5. ~ complete
  BY <1>4 DEF CompleteInv
<1>6. \A u : Specs(u)' = Specs(u) /\ DevicesOf(u)' = DevicesOf(u)
  BY <1>1, SpecsStay
<1>7. \A j \in RunningWorkers : j \in Keyed
  BY <1>1, RunningFields
<1>8. ASSUME NEW l \in Loaders, loader'[l].alone PROVE AloneAt(l)'
  <2>1. AloneAt(l) /\ l = o
    BY <1>1, <1>4, <1>8 DEF AloneInv, AloneAt
  <2>2. PICK v, place, todo, leaving :
          /\ v = loader[l].version /\ place = loader[l].at /\ todo = loader[l].todo
          /\ leaving = Leaving(l)
    OBVIOUS
  <2>3. /\ v = loader'[l].version /\ place = loader'[l].at /\ todo = loader'[l].todo
        /\ leaving = Leaving(l)'
    BY <1>1, <1>4, <2>1, <2>2 DEF Leaving
  <2>4. ASSUME place \in Swapped PROVE SnapshotsAt(v, leaving)'
    BY <1>1, <1>6, <2>1, <2>2, <2>4 DEF AloneAt, SnapshotsAt, Shows
  <2>5. SnapshotsAt(v, Leaving(l))' <=> SnapshotsAt(v, leaving)'
    BY <2>3 DEF SnapshotsAt
  <2>6. ASSUME place \in Swapped, NEW j \in RunningWorkers', j[1] \in DevicesOf(v)', worker'[j].version # v
        PROVE  snapshots'[j[1]] # NoSnapshot
    <3>1. j \in RunningWorkers /\ worker'[j] = worker[j]
      BY <1>2, <1>7, <2>6
    <3>2. QED
      BY <1>1, <1>6, <2>1, <2>2, <2>6, <3>1 DEF AloneAt
  <2>7. ASSUME place \in Starting PROVE WorkersAt(v, todo)'
    <3>1. WorkersAt(v, todo) /\ k \in todo
      BY <1>4, <2>1, <2>2, <2>7 DEF AloneAt
    <3>2. QED
      BY <1>1, <1>2, <1>6, <1>7, <3>1 DEF WorkersAt
  <2>8. WorkersAt(v, loader[l].todo)' <=> WorkersAt(v, todo)'
    BY <2>3 DEF WorkersAt
  <2>9. /\ place \in LoadPlaces /\ \A m \in Loaders \ {l} : loader'[m].at \notin LoadPlaces
        /\ place \in Stored => iotCfg' = v
        /\ place \in Synced => poolVersion' = v
        /\ place # "swap"
    BY <1>1, <1>4, <2>1, <2>2 DEF AloneAt
  <2>10. QED
    BY <2>3, <2>4, <2>5, <2>6, <2>7, <2>8, <2>9 DEF AloneAt
<1>9. QED
  BY <1>1, <1>5, <1>8 DEF AloneInv, CompleteInv

\* Every step keeps how far the load that is alone has got, and what it has completed.
LEMMA AloneStep ==
  ASSUME Phases, OwnSerial, AloneInv, CompleteInv, ReloadNext
  PROVE  AloneInv' /\ CompleteInv'
<1>1. CASE \/ Publish \/ Subscribe \/ SubscriptionLost \/ Notified
           \/ \E l \in Loaders : LoadFails(l)
  BY <1>1, OutsideAlone, ElsewhereAlone
<1>2. ASSUME NEW l \in Loaders,
             \/ Read(l) \/ CopySnapshots(l) \/ Rebuild(l) \/ SwapSnapshots(l) \/ StoreConfig(l)
             \/ FindManager(l) \/ SyncManager(l) \/ LockUpdate(l)
      PROVE  AloneInv' /\ CompleteInv'
  BY <1>2, ReadAlone, BeforeSwapAlone, SwapAlone, MovedAlone
<1>3. ASSUME NEW l \in Loaders,
             \/ StopRemoved(l) \/ RemovedIsGone(l) \/ NoneLeftToRemove(l) \/ StopStale(l)
             \/ StartWorker(l) \/ LoadEnds(l)
      PROVE  AloneInv' /\ CompleteInv'
  BY <1>3, StopAlone, GoneAlone, StartAlone, EndsComplete
<1>4. ASSUME NEW k \in Keyed, EnsureSnapshot(k) \/ RecordValue(k) PROVE AloneInv' /\ CompleteInv'
  BY <1>4, RecordingPhases, RecordedBoth, RecordedAlone
<1>5. ASSUME NEW k \in Keyed, Leave(k) PROVE AloneInv' /\ CompleteInv'
  BY <1>5, LeaveAlone
<1>6. QED
  BY <1>1, <1>2, <1>3, <1>4, <1>5 DEF ReloadNext, LoadStep, WorkerStep, Keyed

ReloadInv == Phases /\ OwnSerial /\ AloneInv /\ CompleteInv

\* A stuttering step changes nothing.
LEMMA ReloadStutters ==
  ASSUME Phases, OwnSerial, AloneInv, CompleteInv, UNCHANGED reloadVars
  PROVE  Phases' /\ OwnSerial' /\ AloneInv' /\ CompleteInv'
<1>1. UNCHANGED <<config, published, loader, snapshots, content, iotCfg, poolVersion, worker, keys,
                  complete>>
  BY DEF reloadVars
<1>2. ReloadTypes' /\ published <= published'
  BY <1>1 DEF Phases, ReloadTypes
<1>3. Phases'
  BY <1>1, <1>2, PhasesKept DEF Phases, SamePhase, WorkerInv
<1>4. OwnSerial'
  <2>1. \A s, x : Refers(s, x)' <=> Refers(s, x)
    BY <1>1 DEF Refers
  <2>2. QED
    BY <2>1 DEF OwnSerial
<1>5. AloneInv' /\ CompleteInv'
  BY <1>1, ElsewhereAlone
<1>6. QED
  BY <1>3, <1>4, <1>5

\* The inductive invariant of the load holds of every behaviour.
THEOREM ReloadInvHolds == ReloadSpec => []ReloadInv
<1>1. ReloadInit => ReloadInv
  BY ReloadInitInv DEF ReloadInv
<1>2. ReloadInv /\ [ReloadNext]_reloadVars => ReloadInv'
  <2>1. ASSUME ReloadInv, ReloadNext PROVE ReloadInv'
    BY <2>1, PhasesStep, OwnSerialStep, AloneStep DEF ReloadInv
  <2>2. ASSUME ReloadInv, UNCHANGED reloadVars PROVE ReloadInv'
    BY <2>2, ReloadStutters DEF ReloadInv
  <2>3. QED
    BY <2>1, <2>2
<1>3. QED
  BY <1>1, <1>2, PTL DEF ReloadSpec

\* What a load that overlapped no other leaves behind is of one version in every part: the
\* stored configuration, the pool, the workers and the snapshots (getIoTCfg.go:58-72,
\* result_writer.go:228-297, :385-413, collector.go:76-152).
THEOREM LoadIsCompleteHolds == ReloadSpec => []LoadIsComplete
<1>1. ReloadInv => LoadIsComplete
  <2> SUFFICES ASSUME ReloadInv, complete
               PROVE  /\ poolVersion = iotCfg /\ RunningWorkers = Specs(iotCfg)
                      /\ \A k \in RunningWorkers :
                           /\ worker[k].version = iotCfg /\ ~ worker[k].cancelled
                           /\ worker[k].ref \in {NoSnapshot, snapshots[k[1]]}
                      /\ \A s \in Serials : snapshots[s] # NoSnapshot =>
                           /\ s \in DevicesOf(iotCfg)
                           /\ content[snapshots[s]].id = config[iotCfg][s].id
                           /\ content[snapshots[s]].names \in {0, iotCfg}
    BY DEF LoadIsComplete
  <2>1. /\ \A l \in Loaders : loader[l].at \notin LoadPlaces
        /\ poolVersion = iotCfg /\ RunningWorkers = Specs(iotCfg)
        /\ WorkersAt(iotCfg, {}) /\ SnapshotsAt(iotCfg, {})
    BY DEF ReloadInv, CompleteInv
  <2>2. \A k \in RunningWorkers : ~ worker[k].cancelled
    BY <2>1, PlacesOfLoad, RunningFields DEF ReloadInv, Phases, WorkerInv, Waiting
  <2>3. QED
    BY <2>1, <2>2 DEF WorkersAt, SnapshotsAt, Shows
<1>2. QED
  BY <1>1, ReloadInvHolds, PTL

\* What the keys show, step by step, where an ID moves only away from a device that goes.
\* A step of a load under way.
LEMMA OwnKeys ==
  ASSUME Phases, AloneInv, CompleteInv, KeysInv, NEW l \in Loaders, loader[l].at \in LoadPlaces,
         \A m \in Loaders \ {l} : loader'[m] = loader[m],
         loader'[l].alone = loader[l].alone, complete' = complete,
         loader'[l].version = loader[l].version,
         \A k \in RunningWorkers' :
           \/ worker'[k].version = loader[l].version
           \/ k \in RunningWorkers /\ worker'[k].version = worker[k].version,
         loader'[l].at \in Starting /\ loader[l].alone => KeysAt(loader[l].version, loader[l].todo)'
  PROVE  KeysInv'
<1>1. ~ complete
  BY DEF CompleteInv
<1>2. ASSUME NEW m \in Loaders \ {l} PROVE ~ loader[m].alone
  BY DEF AloneInv, AloneAt
<1>3. ASSUME loader[l].alone PROVE KeysOf(l)'
  <2>1. \A k \in RunningWorkers : worker[k].version <= loader[l].version
    BY <1>3 DEF KeysInv, KeysOf
  <2>2. loader[l].version \in Nat
    BY FieldsOfLoad DEF Phases
  <2>3. \A k \in RunningWorkers' : worker'[k].version <= loader'[l].version
    BY <2>1, <2>2
  <2>4. QED
    BY <1>3, <2>3 DEF KeysOf
<1>4. QED
  BY <1>1, <1>2, <1>3 DEF KeysInv

\* Steps of what writes no key and starts no worker.
LEMMA OutsideKeys ==
  ASSUME Phases, AloneInv, CompleteInv, KeysInv,
         UNCHANGED <<config, snapshots, content, iotCfg, worker, keys, complete>>,
         \A m \in Loaders : loader'[m] = loader[m] \/ ~ loader'[m].alone
  PROVE  KeysInv'
<1>1. RunningWorkers' = RunningWorkers /\ \A u : Specs(u)' = Specs(u)
  BY SpecsStay DEF RunningWorkers
<1>2. \A v, todo : KeysAt(v, todo) => KeysAt(v, todo)'
  BY <1>1 DEF KeysAt
<1>3. ASSUME NEW l \in Loaders, loader'[l].alone PROVE KeysOf(l)'
  <2>1. loader'[l] = loader[l] /\ KeysOf(l)
    BY <1>3 DEF KeysInv
  <2>2. PICK v, todo : v = loader[l].version /\ todo = loader[l].todo
    OBVIOUS
  <2>3. loader[l].at \in Starting => KeysAt(v, todo)'
    BY <1>2, <2>1, <2>2 DEF KeysOf
  <2>4. KeysAt(loader[l].version, loader[l].todo)' <=> KeysAt(v, todo)'
    BY <2>1, <2>2 DEF KeysAt, Specs, DevicesOf
  <2>5. QED
    BY <1>1, <2>1, <2>3, <2>4 DEF KeysOf
<1>4. ASSUME complete PROVE KeysAt(iotCfg, {})'
  <2>1. PICK v : v = iotCfg
    OBVIOUS
  <2>2. KeysAt(v, {})'
    BY <1>2, <1>4, <2>1 DEF KeysInv
  <2>3. KeysAt(iotCfg, {})' <=> KeysAt(v, {})'
    BY <2>1 DEF KeysAt, Specs, DevicesOf
  <2>4. QED
    BY <2>2, <2>3
<1>5. QED
  BY <1>3, <1>4 DEF KeysInv

\* A load that begins has started no worker yet.
LEMMA ReadKeys ==
  ASSUME Phases, NEW l \in Loaders, Read(l)
  PROVE  KeysInv'
<1>1. /\ \A m \in Loaders \ {l} : loader'[m].alone = FALSE
      /\ loader'[l].at = "copy" /\ loader'[l].version = published
  BY ReadMakes DEF Phases
<1>2. complete' = FALSE /\ worker' = worker
  BY DEF Read
<1>3. \A k \in RunningWorkers' : worker'[k].version <= published
  BY <1>2, RunningFields DEF Phases, WorkerInv, RunningWorkers
<1>4. KeysOf(l)'
  BY <1>1, <1>3 DEF KeysOf, Starting
<1>5. QED
  BY <1>1, <1>2, <1>4 DEF KeysInv

\* Until the update starts workers again there is nothing to show of the keys.
LEMMA BeforeStartKeys ==
  ASSUME Phases, OwnSerial, AloneInv, CompleteInv, KeysInv, NEW l \in Loaders,
         \/ CopySnapshots(l) \/ Rebuild(l) \/ SwapSnapshots(l) \/ StoreConfig(l) \/ FindManager(l)
         \/ SyncManager(l) \/ LockUpdate(l) \/ StopRemoved(l) \/ RemovedIsGone(l)
         \/ NoneLeftToRemove(l)
  PROVE  KeysInv'
<1>1. ReloadTypes /\ complete' = complete /\ config' = config
  BY DEF Phases, CopySnapshots, Rebuild, SwapSnapshots, StoreConfig, FindManager, SyncManager,
         LockUpdate, StopRemoved, RemovedIsGone, NoneLeftToRemove
<1>2. loader[l].at \in LoadPlaces
  BY PlacesOfLoad
  DEF CopySnapshots, Rebuild, SwapSnapshots, StoreConfig, FindManager, SyncManager,
      LockUpdate, StopRemoved, RemovedIsGone, NoneLeftToRemove
<1>3. /\ \A m \in Loaders \ {l} : loader'[m] = loader[m]
      /\ loader'[l].alone = loader[l].alone /\ loader'[l].version = loader[l].version
      /\ loader'[l].at \in Starting => loader'[l].todo = Specs(loader[l].version)
  <2>1. CASE CopySnapshots(l)
    <3>1. snapshots \in [Serials -> Slots] /\ loader' = [loader EXCEPT ![l].at = "rebuild", ![l].copy = snapshots]
      BY <1>1, <2>1 DEF CopySnapshots, ReloadTypes
    <3>2. QED
      BY <1>1, <3>1, CopyMakes, PlacesOfLoad DEF Copied, Starting
  <2>2. CASE Rebuild(l)
    <3>1. PICK built \in [Serials -> Slots] :
            loader' = [loader EXCEPT ![l].at = "swap", ![l].copy = built]
      BY <2>2, RebuildMakes DEF Phases
    <3>2. QED
      BY <1>1, <3>1, CopyMakes, PlacesOfLoad DEF Copied, Starting
  <2>3. CASE SwapSnapshots(l)
    BY <1>1, <2>3, SwapMakes DEF Copied, Starting
  <2>4. CASE StoreConfig(l) \/ FindManager(l) \/ SyncManager(l)
    <3>1. PICK place \in {"sync", "init", "refresh", "update"} : Step(l, place)
      BY <2>4 DEF StoreConfig, FindManager, SyncManager
    <3>2. Turned(l, place, loader[l].todo, loader[l].key)
      BY <1>1, <3>1, MovedLoad, PlacesOfLoad
    <3>3. place \notin Starting
      BY DEF Starting
    <3>4. QED
      BY <3>2, <3>3 DEF Turned
  <2>5. CASE LockUpdate(l)
    BY <1>1, <2>5, LockMakes DEF Turned, Starting
  <2>6. CASE StopRemoved(l)
    BY <1>1, <2>6, StopRemovedMakes DEF Turned, Starting
  <2>7. CASE RemovedIsGone(l)
    BY <2>7, GoneMakes DEF Turned, Starting, Phases
  <2>8. CASE NoneLeftToRemove(l)
    BY <2>8, NoneLeftMakes DEF Turned, Phases
  <2>9. QED
    BY <2>1, <2>2, <2>3, <2>4, <2>5, <2>6, <2>7, <2>8
<1>4. \A k \in RunningWorkers' : k \in RunningWorkers /\ worker'[k].version = worker[k].version
  <2>1. CASE StopRemoved(l)
    <3>1. \A k \in Keyed : worker'[k].at = worker[k].at /\ worker'[k].version = worker[k].version
      BY <1>1, <2>1, StopRemovedMakes DEF CancelledOnly
    <3>2. \A k : k \in RunningWorkers' => k \in Keyed /\ worker'[k].at # "none"
      BY <2>1, StopRemovedPhases DEF Phases, ReloadTypes, RunningWorkers
    <3>3. QED
      BY <1>1, <3>1, <3>2, RunningFields
  <2>2. CASE ~ StopRemoved(l)
    <3>1. worker' = worker
      BY <2>2 DEF CopySnapshots, Rebuild, SwapSnapshots, StoreConfig, FindManager, SyncManager,
                  LockUpdate, RemovedIsGone, NoneLeftToRemove
    <3>2. QED
      BY <3>1 DEF RunningWorkers
  <2>3. QED
    BY <2>1, <2>2
<1>5. loader'[l].at \in Starting => KeysAt(loader[l].version, loader[l].todo)'
  <2>1. PICK v : v = loader[l].version
    OBVIOUS
  <2>2. Specs(v)' = Specs(v)
    BY <1>1, SpecsStay
  <2>3. ASSUME loader'[l].at \in Starting PROVE KeysAt(v, Specs(v))'
    BY DEF KeysAt
  <2>4. ASSUME loader'[l].at \in Starting
        PROVE  KeysAt(loader[l].version, loader[l].todo)' <=> KeysAt(v, Specs(v))'
    <3>1. loader'[l].version = v /\ loader'[l].todo = Specs(v)'
      BY <1>3, <2>1, <2>2, <2>4
    <3>2. QED
      BY <3>1 DEF KeysAt, Specs, DevicesOf
  <2>5. QED
    BY <2>3, <2>4
<1>6. QED
  BY <1>1, <1>2, <1>3, <1>4, <1>5, OwnKeys

\* A worker that is stopped or started has shown nothing since.
LEMMA RestartKeys ==
  ASSUME Phases, AloneInv, CompleteInv, KeysInv, NEW l \in Loaders, StopStale(l) \/ StartWorker(l)
  PROVE  KeysInv'
<1>1. PICK v : v = loader[l].version
  OBVIOUS
<1>2. /\ UNCHANGED <<config, snapshots, content, keys, complete>> /\ ReloadTypes
      /\ loader[l].at \in Starting /\ loader[l].at \in LoadPlaces
  BY PlacesOfLoad DEF StopStale, StartWorker, Phases, Starting
<1>3. Specs(v) \subseteq Keyed /\ \A u : Specs(u)' = Specs(u)
  BY <1>1, <1>2, SpecsStay, SpecsOfVersion DEF Phases, LoadInv, ReloadTypes
<1>4. PICK todo, started :
        /\ \A m \in Loaders \ {l} : loader'[m] = loader[m]
        /\ loader'[l].alone = loader[l].alone /\ loader'[l].version = v
        /\ loader'[l].todo = todo
        /\ todo = loader[l].todo \ started
        /\ \A k \in Keyed \ started : /\ worker'[k].shown = worker[k].shown
                                   /\ worker'[k].version = worker[k].version
        /\ \A k \in started : ~ worker'[k].shown /\ worker'[k].version = v
        /\ RunningWorkers' = RunningWorkers \cup started
  <2>1. CASE StopStale(l)
    <3>1. PICK k \in loader[l].todo : CancelledOnly(k) /\ Turned(l, "restarting", loader[l].todo, k)
      BY <1>2, <2>1, StopStaleMakes
    <3>2. RunningWorkers' = RunningWorkers
      <4>1. \A j : j \in RunningWorkers' <=> j \in Keyed /\ worker'[j].at # "none"
        BY <2>1, StopStalePhases DEF Phases, ReloadTypes, RunningWorkers
      <4>2. QED
        <5>1. \A j \in Keyed : worker'[j].at = worker[j].at
          BY <3>1 DEF CancelledOnly
        <5>2. \A j : j \in RunningWorkers <=> j \in Keyed /\ worker[j].at # "none"
          BY <1>2, RunningFields
        <5>3. \A j : j \in RunningWorkers' <=> j \in RunningWorkers
          BY <4>1, <5>1, <5>2
        <5>4. QED
          BY <5>3
    <3> DEFINE none == {}
    <3>3. /\ loader[l].todo = loader[l].todo \ none /\ RunningWorkers = RunningWorkers \cup none
          /\ \A i : i \notin none
      OBVIOUS
    <3> HIDE DEF none
    <3>4. QED
      BY <1>1, <3>1, <3>2, <3>3 DEF Turned, CancelledOnly
  <2>2. CASE StartWorker(l)
    <3>1. PICK k : k = loader[l].key
      OBVIOUS
    <3>2. /\ k \in Keyed /\ Turned(l, "start", loader[l].todo \ {k}, <<>>)
          /\ \A j \in Keyed \ {k} : worker'[j] = worker[j]
          /\ worker'[k].version = v /\ worker'[k].shown = FALSE
      BY <1>1, <2>2, <3>1, StartMakes DEF Phases
    <3>3. RunningWorkers' = RunningWorkers \cup {k}
      BY <2>2, <3>1, StartPhases
    <3>4. QED
      BY <1>1, <3>2, <3>3 DEF Turned
  <2>3. QED
    BY <2>1, <2>2
<1>5. ASSUME loader[l].alone PROVE KeysAt(v, todo)'
  <2>1. KeysAt(v, loader[l].todo)
    BY <1>1, <1>2, <1>5 DEF KeysInv, KeysOf
  <2>2. ASSUME NEW k \in Specs(v)', k \notin todo, worker'[k].shown
        PROVE  /\ snapshots'[k[1]] # NoSnapshot
               /\ keys'[config'[v][k[1]].id] = content'[snapshots'[k[1]]]
    <3>1. k \in Specs(v) /\ k \in Keyed /\ k \notin started
      BY <1>3, <1>4, <2>2
    <3>2. k \notin loader[l].todo /\ worker[k].shown
      BY <1>4, <2>2, <3>1
    <3>3. QED
      BY <1>2, <2>1, <3>1, <3>2 DEF KeysAt
  <2>3. QED
    BY <2>2 DEF KeysAt
<1>6. KeysAt(loader[l].version, loader[l].todo)' <=> KeysAt(v, todo)'
  BY <1>4 DEF KeysAt, Specs, DevicesOf
<1>7. \A k \in RunningWorkers' :
        \/ worker'[k].version = loader[l].version
        \/ k \in RunningWorkers /\ worker'[k].version = worker[k].version
  BY <1>1, <1>2, <1>4, RunningFields
<1>8. loader[l].alone => KeysAt(loader[l].version, loader[l].todo)'
  BY <1>5, <1>6
<1>9. QED
  BY <1>1, <1>2, <1>4, <1>7, <1>8, OwnKeys

\* With the end of the load the keys are those of all of its devices.
LEMMA EndsKeys ==
  ASSUME Phases, AloneInv, CompleteInv, KeysInv, NEW l \in Loaders, LoadEnds(l)
  PROVE  KeysInv'
<1>1. PICK v : v = loader[l].version
  OBVIOUS
<1>2. /\ UNCHANGED <<config, snapshots, content, iotCfg, worker, keys>>
      /\ loader[l].at = "start" /\ loader[l].todo = {} /\ complete' = loader[l].alone
  BY DEF LoadEnds
<1>3. /\ \A m \in Loaders \ {l} : loader'[m] = loader[m]
      /\ loader'[l].alone = FALSE
  BY OverMakes DEF LoadEnds, Phases
<1>4. loader[l].at \in LoadPlaces /\ loader[l].at \in Starting /\ loader[l].at \in Stored
  BY <1>2, PlacesOfLoad DEF Starting, Stored, Synced, UpdatePlaces
<1>5. \A m \in Loaders \ {l} : ~ loader[m].alone
  BY <1>4 DEF AloneInv, AloneAt
<1>6. ASSUME loader[l].alone PROVE KeysAt(iotCfg, {})'
  <2>1. KeysAt(v, {}) /\ iotCfg' = v
    BY <1>1, <1>2, <1>4, <1>6 DEF KeysInv, KeysOf, AloneInv, AloneAt
  <2>2. \A u : Specs(u)' = Specs(u)
    BY <1>2, SpecsStay
  <2>3. KeysAt(v, {})'
    BY <1>2, <2>1, <2>2 DEF KeysAt
  <2>4. KeysAt(iotCfg, {})' <=> KeysAt(v, {})'
    BY <2>1 DEF KeysAt, Specs, DevicesOf
  <2>5. QED
    BY <2>3, <2>4
<1>7. QED
  BY <1>2, <1>3, <1>5, <1>6 DEF KeysInv

\* A worker of the version writes what its snapshot shows under its own ID; a worker of an
\* earlier one, whose device is still there, writes under an ID that no other device has.
LEMMA WorkersKeys ==
  ASSUME IdsMoveAway, Phases, Phases', OwnSerial, NEW k \in Keyed, NEW v \in DOMAIN config, NEW todo,
         EnsureSnapshot(k) \/ RecordValue(k),
         k \in Specs(v), worker[k].version <= v,
         RunningWorkers \subseteq Specs(v), WorkersAt(v, todo), KeysAt(v, todo)
  PROVE  KeysAt(v, todo)'
<1>1. /\ ReloadTypes /\ WorkerInv /\ config' = config /\ config \in Histories
      /\ k[1] \in Serials /\ NoSnapshot \notin Snapshots
  BY RecordingPhases, ReloadAssumption DEF Phases, ReloadTypes, Keyed, ReloadAssumption
<1>2. \A u : Specs(u)' = Specs(u)
  BY <1>1, SpecsStay
<1>3. \A j \in Specs(v) : j \in Keyed /\ j[1] \in DevicesOf(v) /\ j[1] \in Serials
                          /\ j[2] = config[v][j[1]].protocol
                          /\ config[v][j[1]].id \in DeviceIds /\ config[v][j[1]] # NoDevice
  BY <1>1, SpecsOfVersion DEF DevicesOf, Device
<1>4. \A i, j \in Specs(v) : i[1] = j[1] => i = j
  BY <1>1, SpecsOfVersion
<1>5. ASSUME NEW j \in Specs(v) \ todo, worker'[j].shown
      PROVE  /\ snapshots'[j[1]] # NoSnapshot
             /\ keys'[config[v][j[1]].id] = content'[snapshots'[j[1]]]
  <2>1. /\ j \in RunningWorkers /\ worker[j].version = v
        /\ worker[j].ref \in {NoSnapshot, snapshots[j[1]]}
        /\ worker[j].shown => /\ snapshots[j[1]] # NoSnapshot
                              /\ keys[config[v][j[1]].id] = content[snapshots[j[1]]]
    BY DEF WorkersAt, KeysAt
  <2>2. /\ j \in Keyed /\ j[1] \in Serials
        /\ j # k => j[1] # k[1]
        /\ snapshots[j[1]] \in Slots
    BY <1>1, <1>3, <1>4 DEF ReloadTypes
  <2>3. CASE EnsureSnapshot(k)
    <3>1. PICK x \in Snapshots :
            /\ \A i \in Keyed \ {k} : worker'[i] = worker[i]
            /\ worker'[k].shown = worker[k].shown
            /\ \/ snapshots[k[1]] = x /\ UNCHANGED <<snapshots, content>>
               \/ /\ snapshots[k[1]] = NoSnapshot /\ x \notin Referenced
                  /\ \A s \in Serials \ {k[1]} : snapshots'[s] = snapshots[s]
                  /\ \A y \in Snapshots \ {x} : content'[y] = content[y]
      BY <1>1, <2>3, EnsureMakes, ZenonT(60)
    <3>2. worker[j].shown /\ keys' = keys
      BY <1>5, <2>2, <2>3, <3>1 DEF EnsureSnapshot
    <3>3. CASE snapshots[k[1]] = x /\ UNCHANGED <<snapshots, content>>
      BY <2>1, <3>2, <3>3
    <3>4. CASE /\ snapshots[k[1]] = NoSnapshot /\ x \notin Referenced
               /\ \A s \in Serials \ {k[1]} : snapshots'[s] = snapshots[s]
               /\ \A y \in Snapshots \ {x} : content'[y] = content[y]
      <4>1. snapshots[j[1]] \in Snapshots /\ snapshots[j[1]] \in Referenced
        BY <1>1, <2>1, <2>2, <3>2 DEF Slots, Referenced, Range, ReloadTypes
      <4>2. j[1] # k[1] /\ snapshots'[j[1]] = snapshots[j[1]]
        BY <2>1, <2>2, <3>2, <3>4
      <4>3. content'[snapshots[j[1]]] = content[snapshots[j[1]]]
        BY <3>4, <4>1
      <4>4. QED
        BY <2>1, <3>2, <4>2, <4>3
    <3>5. QED
      BY <3>1, <3>3, <3>4
  <2>4. CASE RecordValue(k)
    <3>1. PICK r \in Contents :
            /\ worker[k].at = "record" /\ worker[k].ref \in Snapshots
            /\ \A i \in Keyed \ {k} : worker'[i] = worker[i]
            /\ worker'[k].shown => keys'[DeviceOf(k).id] = r
            /\ \A i \in DeviceIds : i # DeviceOf(k).id => keys'[i] = keys[i]
            /\ worker[k].ref \in Referenced' => content'[worker[k].ref] = r
            /\ \A y \in Snapshots : y \in Referenced' /\ y # worker[k].ref => content'[y] = content[y]
            /\ UNCHANGED <<loader, snapshots>>
      BY <1>1, <2>4, RecordMakes
    <3>2. snapshots'[j[1]] = snapshots[j[1]] /\ snapshots'[j[1]] \in Referenced'
      BY <1>1, <2>2, <3>1 DEF Referenced, Range, ReloadTypes
    <3>3. CASE j = k
      <4>1. worker[k].ref = snapshots[k[1]] /\ DeviceOf(k).id = config[v][k[1]].id
        BY <1>1, <2>1, <3>1, <3>3 DEF DeviceOf
      <4>2. content'[snapshots[k[1]]] = r /\ keys'[config[v][k[1]].id] = r
        BY <1>5, <3>1, <3>2, <3>3, <4>1
      <4>3. QED
        BY <1>1, <3>1, <3>2, <3>3, <4>1, <4>2
    <3>4. CASE j # k
      <4>1. worker[j].shown /\ snapshots[j[1]] \in Snapshots
        BY <1>5, <2>1, <2>2, <3>1, <3>4 DEF Slots
      <4>2. snapshots[j[1]] # worker[k].ref
        <5>1. Refers(j[1], snapshots[j[1]])
          BY DEF Refers
        <5>2. k = <<k[1], k[2]>> /\ k[2] \in Protocols
          BY DEF Keyed
        <5>3. Refers(k[1], worker[k].ref)
          BY <5>2 DEF Refers
        <5>4. QED
          BY <1>1, <2>2, <3>4, <4>1, <5>1, <5>3 DEF OwnSerial
      <4>3. content'[snapshots'[j[1]]] = content[snapshots[j[1]]]
        BY <3>1, <3>2, <4>1, <4>2
      <4>4. config[v][j[1]].id # DeviceOf(k).id
        <5>1. /\ worker[k].version \in DOMAIN config /\ k \in Specs(worker[k].version)
          BY <1>1, <3>1 DEF WorkerInv
        <5>2. PICK u \in DOMAIN config : u = worker[k].version
          BY <5>1
        <5>3. /\ k[1] \in DevicesOf(u) /\ k[2] = config[u][k[1]].protocol
          BY <1>1, <5>1, <5>2, SpecsOfVersion
        <5>4. /\ config[u][k[1]] # NoDevice /\ config[v][k[1]] # NoDevice
              /\ config[v][j[1]] # NoDevice
          BY <1>3, <5>3 DEF DevicesOf
        <5>5. k[2] = config[v][k[1]].protocol
          BY <1>3
        <5>6. config[u][k[1]].id # config[v][j[1]].id
          BY <1>1, <2>2, <3>4, <5>2, <5>3, <5>4, <5>5, ZenonT(60) DEF IdsMoveAway
        <5>7. QED
          BY <5>2, <5>6 DEF DeviceOf
      <4>5. keys'[config[v][j[1]].id] = keys[config[v][j[1]].id]
        BY <1>3, <3>1, <4>4
      <4>6. QED
        BY <2>1, <3>2, <4>1, <4>3, <4>5
    <3>5. QED
      BY <3>3, <3>4
  <2>5. QED
    BY <2>3, <2>4
<1>6. QED
  BY <1>1, <1>2, <1>5 DEF KeysAt

\* A recorded value goes to the key of the worker's own device, which is that of no other
\* started worker.
LEMMA RecordingKeys ==
  ASSUME IdsMoveAway, Phases, OwnSerial, AloneInv, CompleteInv, KeysInv, NEW k \in Keyed,
         EnsureSnapshot(k) \/ RecordValue(k)
  PROVE  KeysInv'
<1>1. Phases' /\ UNCHANGED <<config, loader, iotCfg, complete>>
  BY RecordingPhases
<1>2. /\ RunningWorkers' = RunningWorkers /\ k \in RunningWorkers
      /\ \A j \in RunningWorkers : worker'[j].version = worker[j].version
  BY <1>1, RecordedBoth, RecordedRuns DEF Recorded
<1>3. ASSUME NEW l \in Loaders, loader'[l].alone PROVE KeysOf(l)'
  <2>1. PICK v, todo : v = loader[l].version /\ todo = loader[l].todo
    OBVIOUS
  <2>2. KeysOf(l) /\ AloneAt(l)
    BY <1>1, <1>3 DEF KeysInv, AloneInv
  <2>3. ASSUME loader[l].at \in Starting PROVE KeysAt(v, todo)'
    <3>1. /\ v \in DOMAIN config /\ RunningWorkers \subseteq Specs(v)
          /\ WorkersAt(v, todo) /\ KeysAt(v, todo)
      BY <2>1, <2>2, <2>3 DEF Phases, LoadInv, StartInv, StartAt, AloneAt, KeysOf
    <3>2. k \in Specs(v) /\ worker[k].version <= v
      BY <1>2, <2>1, <2>2, <3>1 DEF KeysOf
    <3>3. QED
      BY <1>1, <3>1, <3>2, WorkersKeys
  <2>4. KeysAt(loader[l].version, loader[l].todo)' <=> KeysAt(v, todo)'
    BY <1>1, <2>1 DEF KeysAt, Specs, DevicesOf
  <2>5. QED
    BY <1>1, <1>2, <2>2, <2>3, <2>4 DEF KeysOf
<1>4. ASSUME complete PROVE KeysAt(iotCfg, {})'
  <2>1. PICK v : v = iotCfg
    OBVIOUS
  <2>2. /\ v \in DOMAIN config /\ RunningWorkers = Specs(v) /\ WorkersAt(v, {}) /\ KeysAt(v, {})
    BY <1>4, <2>1 DEF CompleteInv, KeysInv
  <2>3. k \in Specs(v) /\ worker[k].version = v
    BY <1>2, <2>2 DEF WorkersAt
  <2>4. v \in Nat /\ worker[k].version <= v
    BY <2>3, FieldsOfWorker DEF Phases
  <2>5. KeysAt(v, {})'
    BY <1>1, <2>2, <2>3, <2>4, WorkersKeys
  <2>6. KeysAt(iotCfg, {})' <=> KeysAt(v, {})'
    BY <1>1, <2>1 DEF KeysAt, Specs, DevicesOf
  <2>7. QED
    BY <2>5, <2>6
<1>5. QED
  BY <1>1, <1>3, <1>4 DEF KeysInv

\* A worker that leaves is not among those that were started.
LEMMA LeaveKeys ==
  ASSUME Phases, AloneInv, CompleteInv, KeysInv, NEW k \in Keyed, Leave(k)
  PROVE  KeysInv'
<1>1. /\ UNCHANGED <<config, loader, snapshots, content, iotCfg, keys, complete>> /\ ReloadTypes
  BY DEF Leave, Phases
<1>2. /\ \A j \in Keyed \ {k} : worker'[j] = worker[j]
      /\ RunningWorkers' = RunningWorkers \ {k}
  BY LeaveMakes, LeavePhases DEF Phases
<1>3. PICK o \in Loaders : loader[o].at \in Waiting /\ loader[o].key = k
  BY LeavePhases
<1>4. loader[o].at \in LoadPlaces /\ k \in loader[o].todo
  BY <1>3, PlacesOfLoad DEF Waiting, Phases, LoadInv
<1>5. ~ complete
  BY <1>4 DEF CompleteInv
<1>6. \A j \in RunningWorkers : j \in Keyed
  BY <1>1, RunningFields
<1>7. ASSUME NEW l \in Loaders, loader'[l].alone PROVE KeysOf(l)'
  <2>1. KeysOf(l) /\ AloneAt(l)
    BY <1>1, <1>7 DEF KeysInv, AloneInv
  <2>2. l = o
    BY <1>4, <2>1 DEF AloneAt
  <2>3. PICK v, todo : v = loader[l].version /\ todo = loader[l].todo
    OBVIOUS
  <2>4. ASSUME loader[l].at \in Starting PROVE KeysAt(v, todo)'
    <3>1. KeysAt(v, todo) /\ k \in todo
      BY <1>4, <2>1, <2>2, <2>3, <2>4 DEF KeysOf
    <3>2. /\ Specs(v) \subseteq Keyed /\ \A u : Specs(u)' = Specs(u)
      BY <1>1, <2>1, <2>3, SpecsStay, SpecsOfVersion DEF AloneAt, Phases, LoadInv, ReloadTypes
    <3>3. QED
      BY <1>1, <1>2, <3>1, <3>2 DEF KeysAt
  <2>5. KeysAt(loader[l].version, loader[l].todo)' <=> KeysAt(v, todo)'
    BY <1>1, <2>3 DEF KeysAt, Specs, DevicesOf
  <2>6. \A j \in RunningWorkers' : worker'[j].version <= loader'[l].version
    BY <1>1, <1>2, <1>6, <2>1 DEF KeysOf
  <2>7. QED
    BY <1>1, <2>4, <2>5, <2>6 DEF KeysOf
<1>8. QED
  BY <1>1, <1>5, <1>7 DEF KeysInv

\* Every step keeps the keys.
LEMMA KeysStep ==
  ASSUME IdsMoveAway, Phases, OwnSerial, AloneInv, CompleteInv, KeysInv, ReloadNext
  PROVE  KeysInv'
<1>1. CASE \/ Publish \/ Subscribe \/ SubscriptionLost \/ Notified
           \/ \E l \in Loaders : LoadFails(l)
  <2>1. \A m \in Loaders : loader'[m] = loader[m] \/ ~ loader'[m].alone
    BY <1>1, OutsideAlone
  <2>2. UNCHANGED <<config, snapshots, content, iotCfg, worker, keys, complete>>
    BY <1>1, OutsideAlone
  <2>3. QED
    BY <2>1, <2>2, OutsideKeys
<1>2. ASSUME NEW l \in Loaders, Read(l) \/ StopStale(l) \/ StartWorker(l) \/ LoadEnds(l) PROVE KeysInv'
  BY <1>2, ReadKeys, RestartKeys, EndsKeys
<1>3. ASSUME NEW l \in Loaders,
             \/ CopySnapshots(l) \/ Rebuild(l) \/ SwapSnapshots(l) \/ StoreConfig(l)
             \/ FindManager(l) \/ SyncManager(l) \/ LockUpdate(l) \/ StopRemoved(l)
             \/ RemovedIsGone(l) \/ NoneLeftToRemove(l)
      PROVE  KeysInv'
  BY <1>3, BeforeStartKeys
<1>4. ASSUME NEW k \in Keyed, WorkerStep(k) PROVE KeysInv'
  BY <1>4, RecordingKeys, LeaveKeys DEF WorkerStep
<1>5. QED
  BY <1>1, <1>2, <1>3, <1>4 DEF ReloadNext, LoadStep, Keyed

\* Where no version gives a device the ID another one is still recording under, a device's
\* key shows its snapshot from the end of the load on: the worker of an earlier version
\* writes nothing over it (result_writer.go:336-383, collector.go:76-152).
THEOREM KeysShowSnapshotsHolds ==
  ASSUME IdsMoveAway
  PROVE  ReloadSpec => []KeysShowSnapshots
<1>1. ReloadInit => ReloadInv /\ KeysInv
  BY ReloadInitInv DEF ReloadInv
<1>2. (ReloadInv /\ KeysInv) /\ [ReloadNext]_reloadVars => (ReloadInv /\ KeysInv)'
  <2>1. ASSUME ReloadInv, KeysInv, ReloadNext PROVE ReloadInv' /\ KeysInv'
    BY <2>1, PhasesStep, OwnSerialStep, AloneStep, KeysStep DEF ReloadInv
  <2>2. ASSUME ReloadInv, KeysInv, UNCHANGED reloadVars PROVE ReloadInv' /\ KeysInv'
    <3>1. ReloadInv'
      BY <2>2, ReloadStutters DEF ReloadInv
    <3>2. UNCHANGED <<config, loader, snapshots, content, iotCfg, worker, keys, complete>>
      BY <2>2 DEF reloadVars
    <3>3. KeysInv'
      BY <2>2, <3>2, OutsideKeys DEF ReloadInv
    <3>4. QED
      BY <3>1, <3>3
  <2>3. QED
    BY <2>1, <2>2
<1>3. ReloadInv /\ KeysInv => KeysShowSnapshots
  <2> SUFFICES ASSUME ReloadInv, KeysInv, complete, NEW k \in RunningWorkers, worker[k].shown
               PROVE  snapshots[k[1]] # NoSnapshot /\ keys[DeviceOf(k).id] = content[snapshots[k[1]]]
    BY DEF KeysShowSnapshots
  <2>1. RunningWorkers = Specs(iotCfg) /\ WorkersAt(iotCfg, {}) /\ KeysAt(iotCfg, {})
    BY DEF ReloadInv, CompleteInv, KeysInv
  <2>2. QED
    BY <2>1 DEF WorkersAt, KeysAt, DeviceOf
<1>4. QED
  BY <1>1, <1>2, <1>3, PTL DEF ReloadSpec

-----------------------------------------------------------------------------
(* The points of a Modbus device: the bytes of an answer. *)

\* A sequence of pairs, flattened: each pair is found at its place.
PairsAt(s, k, ss, A) ==
  /\ s \in Seq(A) /\ Len(s) = 2 * k
  /\ \A i \in 1..k : s[2 * i - 1] = ss[i][1] /\ s[2 * i] = ss[i][2]

LEMMA PairAppended ==
  ASSUME NEW A, NEW k \in Nat, NEW ss, NEW s, PairsAt(s, k, ss, A),
         ss[k + 1] \in Seq(A), Len(ss[k + 1]) = 2
  PROVE  PairsAt(s \o ss[k + 1], k + 1, ss, A)
<1>1. PICK t \in Seq(A) : t = ss[k + 1] /\ Len(t) = 2
  OBVIOUS
<1>2. s \in Seq(A) /\ Len(s) = 2 * k
  BY DEF PairsAt
<1>3. /\ s \o t \in Seq(A) /\ Len(s \o t) = Len(s) + Len(t)
      /\ \A j \in 1..Len(s) + Len(t) : (s \o t)[j] = IF j <= Len(s) THEN s[j] ELSE t[j - Len(s)]
  BY <1>1, <1>2, ConcatProperties
<1>4. ASSUME NEW i \in 1..k + 1
      PROVE  (s \o t)[2 * i - 1] = ss[i][1] /\ (s \o t)[2 * i] = ss[i][2]
  <2>1. 2 * i - 1 \in 1..2 * k + 2 /\ 2 * i \in 1..2 * k + 2
    OBVIOUS
  <2>2. CASE i = k + 1
    <3>1. (s \o t)[2 * k + 1] = t[1] /\ (s \o t)[2 * k + 2] = t[2]
      <4>1. ~ (2 * k + 1 <= 2 * k) /\ ~ (2 * k + 2 <= 2 * k)
            /\ 2 * k + 1 - 2 * k = 1 /\ 2 * k + 2 - 2 * k = 2
            /\ 2 * k + 1 \in 1..2 * k + 2 /\ 2 * k + 2 \in 1..2 * k + 2
        OBVIOUS
      <4>2. Len(s) + Len(t) = 2 * k + 2
        BY <1>1, <1>2
      <4>3. (s \o t)[2 * k + 1] = t[1]
        BY <1>2, <1>3, <4>1, <4>2
      <4>4. (s \o t)[2 * k + 2] = t[2]
        BY <1>2, <1>3, <4>1, <4>2
      <4>5. QED
        BY <4>3, <4>4
    <3>2. 2 * i - 1 = 2 * k + 1 /\ 2 * i = 2 * k + 2
      BY <2>2
    <3>3. QED
      BY <1>1, <2>2, <3>1, <3>2
  <2>3. CASE i # k + 1
    <3>1. i \in 1..k /\ 2 * i - 1 <= 2 * k /\ 2 * i <= 2 * k
      BY <2>3
    <3>2. s[2 * i - 1] = ss[i][1] /\ s[2 * i] = ss[i][2]
      BY <3>1 DEF PairsAt
    <3>3. (s \o t)[2 * i - 1] = s[2 * i - 1] /\ (s \o t)[2 * i] = s[2 * i]
      BY <1>1, <1>2, <1>3, <2>1, <3>1
    <3>4. QED
      BY <3>2, <3>3
  <2>4. QED
    BY <2>2, <2>3
<1>5. Len(s \o t) = 2 * (k + 1)
  BY <1>1, <1>2, <1>3
<1>6. QED
  BY <1>1, <1>3, <1>4, <1>5 DEF PairsAt

LEMMA FlattenPairs ==
  ASSUME NEW A, NEW n \in Nat, NEW ss \in [1..n -> Seq(A)], \A i \in 1..n : Len(ss[i]) = 2
  PROVE  PairsAt(FlattenSeq(ss), n, ss, A)
<1>1. PICK h : Flattens(h, n, ss)
  BY FlattenSteps
<1> DEFINE T == {k \in 0..n : PairsAt(h[k], k, ss, A)}
<1>2. 0 \in T
  <2>1. <<>> \in Seq(A) /\ Len(<<>>) = 2 * 0 /\ 1..0 = {}
    OBVIOUS
  <2>2. h[0] = <<>>
    BY <1>1 DEF Flattens
  <2>3. PairsAt(h[0], 0, ss, A)
    BY <2>1, <2>2 DEF PairsAt
  <2>4. QED
    BY <2>3
<1>3. ASSUME NEW k \in 1..n, k - 1 \in T PROVE k \in T
  <2>1. PairsAt(h[k - 1], k - 1, ss, A) /\ k - 1 \in Nat /\ (k - 1) + 1 = k
    BY <1>3
  <2>2. ss[k] \in Seq(A) /\ Len(ss[k]) = 2
    OBVIOUS
  <2>3. PairsAt(h[k - 1] \o ss[k], k, ss, A)
    <3>1. ss[(k - 1) + 1] = ss[k]
      BY <2>1
    <3>2. PairsAt(h[k - 1] \o ss[(k - 1) + 1], (k - 1) + 1, ss, A)
      BY <2>1, <2>2, <3>1, PairAppended
    <3>3. QED
      BY <2>1, <3>1, <3>2
  <2>4. h[k] = h[k - 1] \o ss[k]
    BY <1>1 DEF Flattens
  <2>5. PairsAt(h[k], k, ss, A)
    BY <2>3, <2>4
  <2>6. QED
    BY <2>5
<1>4. \A k \in 0..n : k \in T
  <2>1. \A k \in 1..n : k - 1 \in T => k \in T
    BY <1>3
  <2>2. n \in Nat
    OBVIOUS
  <2> HIDE DEF T
  <2>3. QED
    BY ONLY <1>2, <2>1, <2>2, UpTo
<1>5. n \in T
  <2>1. n \in 0..n
    OBVIOUS
  <2> HIDE DEF T
  <2>2. QED
    BY <1>4, <2>1
<1>6. QED
  BY <1>1, <1>5 DEF Flattens

\* The bytes of consecutive registers.
RegistersIn(A) == \A a \in Nat : Register(a) \in Seq(A) /\ Len(Register(a)) = 2

LEMMA BytesOf ==
  ASSUME NEW A, RegistersIn(A), NEW start \in Nat, NEW n \in Nat
  PROVE  /\ Bytes(start, n) \in Seq(A) /\ Len(Bytes(start, n)) = 2 * n
         /\ \A i \in 1..n : /\ Bytes(start, n)[2 * i - 1] = Register(start + i - 1)[1]
                            /\ Bytes(start, n)[2 * i] = Register(start + i - 1)[2]
<1> DEFINE ss == [i \in 1..n |-> Register(start + i - 1)]
<1>1. ss \in [1..n -> Seq(A)] /\ \A i \in 1..n : Len(ss[i]) = 2
  <2>1. \A i \in 1..n : start + i - 1 \in Nat
    OBVIOUS
  <2>2. QED
    BY <2>1 DEF RegistersIn
<1>2. \A i \in 1..n : ss[i] = Register(start + i - 1)
  OBVIOUS
<1>3. Bytes(start, n) = FlattenSeq(ss)
  BY DEF Bytes
<1> HIDE DEF ss
<1>4. PairsAt(FlattenSeq(ss), n, ss, A)
  BY <1>1, FlattenPairs
<1>5. QED
  BY <1>2, <1>3, <1>4 DEF PairsAt

LEMMA Piece ==
  ASSUME NEW A, NEW s \in Seq(A), NEW m \in Nat, NEW k \in Nat, m + k <= Len(s)
  PROVE  /\ SubSeq(s, m + 1, m + k) \in Seq(A) /\ Len(SubSeq(s, m + 1, m + k)) = k
         /\ \A j \in 1..k : SubSeq(s, m + 1, m + k)[j] = s[m + j]
<1>1. PICK a \in Int, b \in Int : a = m + 1 /\ b = m + k
  OBVIOUS
<1>2. \A j \in a..b : s[j] \in A
  BY <1>1, ElementOfSeq, LenProperties
<1>3. PICK u : u = SubSeq(s, a, b)
  OBVIOUS
<1>4. /\ u \in Seq(A) /\ Len(u) = (IF a <= b THEN b - a + 1 ELSE 0)
      /\ \A j \in 1..b - a + 1 : u[j] = s[a + j - 1]
  BY ONLY <1>2, <1>3, a \in Int, b \in Int, SubSeqProperties
<1>5. Len(u) = k /\ \A j \in 1..k : u[j] = s[m + j]
  <2>1. (IF a <= b THEN b - a + 1 ELSE 0) = k /\ b - a + 1 = k
    BY <1>1
  <2>2. \A j \in 1..k : a + j - 1 = m + j
    BY <1>1
  <2>3. QED
    BY <1>4, <2>1, <2>2
<1>6. QED
  BY <1>1, <1>3, <1>4, <1>5

LEMMA Halved ==
  ASSUME NEW k \in Nat, NEW j \in 1..2 * k
  PROVE  \E i \in 1..k : j = 2 * i - 1 \/ j = 2 * i
<1>1. (j + 1) \div 2 \in 1..k /\ (j = 2 * ((j + 1) \div 2) - 1 \/ j = 2 * ((j + 1) \div 2))
  OBVIOUS
<1>2. QED
  BY <1>1

\* A piece of the bytes of some registers is what the registers of the piece have.
LEMMA CutBytes ==
  ASSUME NEW A, RegistersIn(A), NEW start \in Nat, NEW n \in Nat, NEW o \in Nat, NEW k \in Nat,
         o + k <= n
  PROVE  SubSeq(Bytes(start, n), 2 * o + 1, 2 * (o + k)) = Bytes(start + o, k)
<1>0. start + o \in Nat /\ 2 * o \in Nat /\ 2 * k \in Nat
  OBVIOUS
<1>1. PICK s \in Seq(A) : s = Bytes(start, n)
  BY BytesOf
<1>2. PICK t \in Seq(A) : t = Bytes(start + o, k)
  BY <1>0, BytesOf
<1>3. PICK u : u = SubSeq(s, 2 * o + 1, 2 * (o + k))
  OBVIOUS
<1>4. /\ Len(s) = 2 * n
      /\ \A i \in 1..n : /\ s[2 * i - 1] = Register(start + i - 1)[1]
                         /\ s[2 * i] = Register(start + i - 1)[2]
  BY <1>1, BytesOf
<1>5. /\ Len(t) = 2 * k
      /\ \A i \in 1..k : /\ t[2 * i - 1] = Register(start + o + i - 1)[1]
                         /\ t[2 * i] = Register(start + o + i - 1)[2]
  BY <1>0, <1>2, BytesOf
<1>6. u \in Seq(A) /\ Len(u) = 2 * k /\ \A j \in 1..2 * k : u[j] = s[2 * o + j]
  <2>1. 2 * o + 2 * k <= Len(s) /\ 2 * (o + k) = 2 * o + 2 * k
    BY <1>4
  <2>2. u = SubSeq(s, 2 * o + 1, 2 * o + 2 * k)
    BY <1>3, <2>1
  <2>3. QED
    BY <1>0, <2>1, <2>2, Piece
<1>7. \A j \in 1..2 * k : u[j] = t[j]
  <2>1. ASSUME NEW i \in 1..k PROVE u[2 * i - 1] = t[2 * i - 1] /\ u[2 * i] = t[2 * i]
    <3>1. /\ 2 * i - 1 \in 1..2 * k /\ 2 * i \in 1..2 * k /\ o + i \in 1..n
          /\ 2 * o + (2 * i - 1) = 2 * (o + i) - 1 /\ 2 * o + 2 * i = 2 * (o + i)
          /\ start + (o + i) - 1 = start + o + i - 1
      OBVIOUS
    <3>2. u[2 * i - 1] = s[2 * (o + i) - 1] /\ u[2 * i] = s[2 * (o + i)]
      BY <1>6, <3>1
    <3>3. QED
      BY <1>4, <1>5, <3>1, <3>2
  <2>2. \A j \in 1..2 * k : \E i \in 1..k : j = 2 * i - 1 \/ j = 2 * i
    BY Halved
  <2>3. QED
    BY <2>1, <2>2
<1>8. u = t
  BY <1>2, <1>5, <1>6, <1>7, SeqEqual
<1>9. QED
  BY <1>1, <1>2, <1>3, <1>8

-----------------------------------------------------------------------------
(* The planner. *)

\* What the configuration says of a point that is read.
ReadPoint(p) ==
  /\ p.address \in Nat /\ p.quantity \in Int /\ p.fc \in Readable
  /\ IF p.fc \in Discrete THEN End(p) <= 65535 ELSE Quantity(p) > 0

\* The planned points are those of one function code from s to e; the span fits into a
\* batch, or is that of one of them.
Covers(points, fc, s, e) ==
  /\ points \in Seq(Enabled(device)) /\ points # <<>>
  /\ s \in Nat /\ e \in Nat /\ s <= e
  /\ \A p \in ToSet(points) : p.fc = fc /\ s <= Start(p) /\ End(p) <= e
  /\ \E p \in ToSet(points) : End(p) = e
  /\ \/ Word(e - s + 1) <= MaxQuantity(fc)
     \/ \E p \in ToSet(points) : Start(p) = s /\ End(p) = e

IsBuilder(b) == b = [fc |-> b.fc, points |-> b.points, start |-> b.start, end |-> b.end]

IsBatch(b) ==
  \E s, e \in Nat :
    /\ Covers(b.points, b.fc, s, e)
    /\ b.start = Word(s) /\ b.quantity = Word(e - s + 1)

\* Why a point of a batch may go without a value.
Excused(b) == b.quantity = 0 \/ \E q \in ToSet(b.points) : Unreadable(q)

Planned == {p \in device : \E i \in DOMAIN batches : p \in ToSet(batches[i].points)}

PlanInv ==
  /\ device \in Devices /\ unplanned \subseteq Enabled(device) /\ memory = <<>>
  /\ IsBuilder(builder) /\ builder.points \in Seq(Enabled(device))
  /\ builder.points # <<>> => Covers(builder.points, builder.fc, builder.start, builder.end)
  /\ batches \in Seq(ToSet(batches))
  /\ \A i \in DOMAIN batches : IsBatch(batches[i])
  /\ Enabled(device) \subseteq unplanned \cup ToSet(builder.points) \cup Planned

CollectInv ==
  /\ phase # "plan" => unplanned = {} /\ builder.points = <<>>
  /\ turn \in Nat /\ turn >= 1 /\ (phase = "plan" => turn = 1)
  /\ phase = "done" => turn > Len(batches)
  /\ DOMAIN recorded = device
  /\ \A p \in Enabled(device) : recorded[p] \in {NoValue, Own(p)}
  /\ \A i \in DOMAIN batches : i < turn =>
       \A p \in ToSet(batches[i].points) :
         \/ recorded[p] = Own(p)
         \/ \E j \in DOMAIN batches : p \in ToSet(batches[j].points) /\ Excused(batches[j])

PointsInv ==
  /\ phase \in {"plan", "collect", "done", "written", "refused"}
  /\ phase \in {"plan", "collect", "done"} => PlanInv /\ CollectInv

\* An enabled point of a device is such a point.
LEMMA FieldsOfPoint ==
  ASSUME PointsFit, device \in Devices, NEW p \in Enabled(device)
  PROVE  ReadPoint(p) /\ p \in device
<1>1. p \in UNION Devices /\ p \in device /\ p.fc \in Readable
  BY DEF Enabled
<1>2. p.address \in Nat /\ p.quantity \in Int
  BY <1>1, PointAssumption DEF PointAssumption
<1>3. IF p.fc \in Discrete THEN End(p) <= 65535 ELSE Quantity(p) > 0
  BY DEF PointsFit
<1>4. QED
  BY <1>1, <1>2, <1>3 DEF ReadPoint

\* The quantity of a register point is its span.
LEMMA SpanOf ==
  ASSUME NEW p, ReadPoint(p)
  PROVE  /\ Start(p) \in Nat /\ End(p) \in Nat /\ Start(p) <= End(p) /\ Quantity(p) \in Nat
         /\ p.fc \notin Discrete => End(p) = Start(p) + Quantity(p) - 1 /\ Quantity(p) > 0
<1>1. Quantity(p) \in Nat
  <2>1. p.quantity \in Int
    BY DEF ReadPoint
  <2>2. p.quantity > 0 => Word(p.quantity) \in Nat
    BY <2>1 DEF Word
  <2>3. QED
    BY <2>1, <2>2 DEF Quantity
<1>2. CASE p.fc \in Discrete
  BY <1>1, <1>2 DEF ReadPoint, Start, End
<1>3. CASE p.fc \notin Discrete
  BY <1>1, <1>3 DEF ReadPoint, Start, End
<1>4. QED
  BY <1>1, <1>2, <1>3

LEMMA MaxOfTwo ==
  ASSUME NEW a \in Int, NEW b \in Int
  PROVE  Max({a, b}) = IF a >= b THEN a ELSE b
<1> DEFINE m == IF a >= b THEN a ELSE b
<1>1. m \in {a, b} /\ \A y \in {a, b} : m >= y
  OBVIOUS
<1>2. \A x \in {a, b} : (\A y \in {a, b} : x >= y) => x = m
  OBVIOUS
<1>3. QED
  BY <1>1, <1>2 DEF Max

LEMMA ElementsAppended ==
  ASSUME NEW S, NEW s \in Seq(S), NEW x \in S
  PROVE  Append(s, x) \in Seq(S) /\ Append(s, x) # <<>> /\ ToSet(Append(s, x)) = ToSet(s) \cup {x}
<1>1. /\ Append(s, x) \in Seq(S) /\ Append(s, x) # <<>>
      /\ DOMAIN s = 1..Len(s) /\ Len(s) \in Nat /\ DOMAIN Append(s, x) = 1..Len(s) + 1
      /\ \A i \in 1..Len(s) : Append(s, x)[i] = s[i]
      /\ Append(s, x)[Len(s) + 1] = x
  BY AppendProperties, LenProperties
<1>2. \A i \in 1..Len(s) + 1 : i \in 1..Len(s) \/ i = Len(s) + 1
  BY <1>1
<1>3. 1..Len(s) \subseteq 1..Len(s) + 1 /\ Len(s) + 1 \in 1..Len(s) + 1
  BY <1>1
<1>4. QED
  BY <1>1, <1>2, <1>3 DEF ToSet

\* A batch is begun with one point,
LEMMA BegunCovers ==
  ASSUME NEW p \in Enabled(device), ReadPoint(p)
  PROVE  LET b == Begun(p) IN Covers(b.points, b.fc, b.start, b.end) /\ ToSet(b.points) = {p}
<1>1. <<p>> \in Seq(Enabled(device)) /\ <<p>> # <<>> /\ ToSet(<<p>>) = {p}
  BY DEF ToSet
<1>2. Start(p) \in Nat /\ End(p) \in Nat /\ Start(p) <= End(p)
  BY SpanOf
<1>3. Covers(<<p>>, p.fc, Start(p), End(p))
  BY <1>1, <1>2 DEF Covers
<1>4. QED
  BY <1>1, <1>3 DEF Begun

\* and a point is added to it where there is room.
LEMMA AddCovers ==
  ASSUME NEW p \in Enabled(device), ReadPoint(p), NEW b, p.fc = b.fc,
         b.points # <<>> => Covers(b.points, b.fc, b.start, b.end),
         IsBuilder(b), CanAdd(b, p), \A q \in Enabled(device) : ReadPoint(q)
  PROVE  LET c == Add(b, p)
         IN  /\ Covers(c.points, c.fc, c.start, c.end)
             /\ IsBuilder(c) /\ ToSet(b.points) \cup {p} \subseteq ToSet(c.points)
<1>1. CASE b.points = <<>>
  <2>1. ToSet(<<>>) = {}
    BY DEF ToSet
  <2>2. QED
    BY <1>1, <2>1, BegunCovers DEF Add, Begun, IsBuilder
<1>2. CASE b.points # <<>>
  <2>1. Covers(b.points, b.fc, b.start, b.end)
    BY <1>2
  <2>2. Start(p) >= b.start /\ Word(Max({b.end, End(p)}) - b.start + 1) <= MaxQuantity(b.fc)
    BY <1>2 DEF CanAdd
  <2>3. Start(p) \in Nat /\ End(p) \in Nat /\ Start(p) <= End(p)
    BY SpanOf
  <2>4. PICK e : e = Max({b.end, End(p)})
    OBVIOUS
  <2>5. e \in Nat /\ b.end <= e /\ End(p) <= e /\ (e = b.end \/ e = End(p))
    BY <2>1, <2>3, <2>4, MaxOfTwo DEF Covers
  <2>6. PICK points : points = Append(b.points, p)
    OBVIOUS
  <2>7. /\ points \in Seq(Enabled(device)) /\ points # <<>>
        /\ ToSet(points) = ToSet(b.points) \cup {p}
    BY <2>1, <2>6, ElementsAppended DEF Covers
  <2>8. Covers(points, b.fc, b.start, e)
    <3>1. b.start \in Nat /\ b.end \in Nat /\ b.start <= b.end
      BY <2>1 DEF Covers
    <3>2. \A q \in ToSet(points) : q.fc = b.fc /\ b.start <= Start(q) /\ End(q) <= e
      <4> SUFFICES ASSUME NEW q \in ToSet(points)
                   PROVE  q.fc = b.fc /\ b.start <= Start(q) /\ End(q) <= e
        OBVIOUS
      <4>1. CASE q = p
        BY <2>2, <2>3, <2>5, <3>1, <4>1
      <4>2. CASE q \in ToSet(b.points)
        <5>1. q.fc = b.fc /\ b.start <= Start(q) /\ End(q) <= b.end
          BY <2>1, <4>2 DEF Covers
        <5>2. q \in Enabled(device)
          BY <2>1, <4>2 DEF Covers, ToSet
        <5>3. End(q) \in Nat
          BY <5>2, SpanOf
        <5>4. QED
          BY <2>5, <3>1, <5>1, <5>3
      <4>3. QED
        BY <2>7, <4>1, <4>2
    <3>3. \E q \in ToSet(points) : End(q) = e
      BY <2>1, <2>5, <2>7 DEF Covers
    <3>4. b.start <= e
      BY <2>5, <3>1
    <3>5. QED
      BY <2>2, <2>4, <2>5, <2>7, <3>1, <3>2, <3>3, <3>4 DEF Covers
  <2>9. /\ Add(b, p).points = points /\ Add(b, p).fc = b.fc
        /\ Add(b, p).start = b.start /\ Add(b, p).end = e /\ IsBuilder(Add(b, p))
    BY <1>2, <2>4, <2>6 DEF Add, IsBuilder
  <2>10. QED
    BY <2>7, <2>8, <2>9
<1>3. QED
  BY <1>1, <1>2

-----------------------------------------------------------------------------
(* Collecting a batch. *)

ReadPoints == \A q \in Enabled(device) : ReadPoint(q)

\* Before a command is written the device has the registers it had.
LEMMA RegistersUnwritten ==
  ASSUME memory = <<>>
  PROVE  RegistersIn({"high", "low"} \X Nat)
<1> DEFINE A == {"high", "low"} \X Nat
<1>1. ASSUME NEW a \in Nat PROVE Register(a) \in Seq(A) /\ Len(Register(a)) = 2
  <2>1. DOMAIN memory = {}
    OBVIOUS
  <2>2. Register(a) = <<<<"high", a>>, <<"low", a>>>>
    BY <2>1 DEF Register
  <2>3. <<"high", a>> \in A /\ <<"low", a>> \in A
    OBVIOUS
  <2> HIDE DEF A
  <2>4. <<<<"high", a>>, <<"low", a>>>> \in Seq(A) /\ Len(<<<<"high", a>>, <<"low", a>>>>) = 2
    BY <2>3
  <2>5. QED
    BY <2>2, <2>4
<1>2. QED
  BY <1>1 DEF RegistersIn

\* The points of a batch.
LEMMA PointsOfBatch ==
  ASSUME ReadPoints, NEW points, NEW fc, NEW s, NEW e, Covers(points, fc, s, e),
         NEW p \in ToSet(points)
  PROVE  /\ p \in Enabled(device) /\ ReadPoint(p) /\ p.fc = fc
         /\ Start(p) \in Nat /\ End(p) \in Nat /\ Start(p) <= End(p)
         /\ s <= Start(p) /\ End(p) <= e /\ Start(p) = p.address
<1>1. p \in Enabled(device)
  BY DEF Covers, ToSet
<1>2. ReadPoint(p)
  BY <1>1 DEF ReadPoints
<1>3. p.fc = fc /\ s <= Start(p) /\ End(p) <= e
  BY DEF Covers
<1>4. QED
  BY <1>1, <1>2, <1>3, SpanOf DEF Start

LEMMA WordOf ==
  ASSUME NEW n \in Nat
  PROVE  /\ Word(n) \in Nat /\ Word(n) <= n /\ Word(n) < 65536
         /\ n < 65536 => Word(n) = n
         /\ n = 65536 => Word(n) = 0
BY DEF Word

\* A span within the address space is asked for as it is, unless it is all of it.
LEMMA SpanAsked ==
  ASSUME NEW s \in Nat, NEW e \in Nat, s <= e, e <= 65535, Word(e - s + 1) # 0
  PROVE  Word(s) = s /\ Word(e - s + 1) = e - s + 1
<1>1. e - s + 1 \in Nat /\ e - s + 1 <= 65536
  OBVIOUS
<1>2. QED
  BY <1>1, WordOf

\* What the device serves of a point it can read, it serves within the address space.
LEMMA ReadableEnds ==
  ASSUME NEW p, ReadPoint(p), ~ Unreadable(p)
  PROVE  /\ End(p) <= 65535
         /\ End(p) - Start(p) + 1 <= IF p.fc \in Discrete THEN 2000 ELSE 125
<1>1. Start(p) \in Nat /\ End(p) \in Nat
  BY SpanOf
<1>2. Serves(p.fc, Start(p), End(p) - Start(p) + 1)
  BY DEF Unreadable
<1>3. QED
  BY <1>1, <1>2 DEF Serves

\* A batch none of whose points excuses it is asked for as it is, and served.
LEMMA AskedAndServed ==
  ASSUME ReadPoints, NEW b, NEW s \in Nat, NEW e \in Nat, Covers(b.points, b.fc, s, e),
         b.start = Word(s), b.quantity = Word(e - s + 1), ~ Excused(b)
  PROVE  b.start = s /\ b.quantity = e - s + 1 /\ Serves(b.fc, b.start, b.quantity)
<1>1. b.quantity # 0 /\ \A q \in ToSet(b.points) : ~ Unreadable(q)
  BY DEF Excused
<1>2. PICK q \in ToSet(b.points) : End(q) = e
  BY DEF Covers
<1>3. e <= 65535
  BY <1>1, <1>2, PointsOfBatch, ReadableEnds
<1>4. s <= e
  BY DEF Covers
<1>5. b.start = s /\ b.quantity = e - s + 1
  BY <1>1, <1>3, <1>4, SpanAsked
<1>6. b.quantity <= IF b.fc \in Discrete THEN 2000 ELSE 125
  <2>1. CASE Word(e - s + 1) <= MaxQuantity(b.fc)
    BY <1>4, <1>5, <2>1 DEF MaxQuantity
  <2>2. CASE \E p \in ToSet(b.points) : Start(p) = s /\ End(p) = e
    <3>1. PICK p \in ToSet(b.points) : Start(p) = s /\ End(p) = e
      BY <2>2
    <3>2. ReadPoint(p) /\ p.fc = b.fc
      BY <3>1, PointsOfBatch
    <3>3. End(p) - Start(p) + 1 <= IF p.fc \in Discrete THEN 2000 ELSE 125
      BY <1>1, <3>1, <3>2, ReadableEnds
    <3>4. QED
      BY <1>5, <3>1, <3>2, <3>3
  <2>3. QED
    BY <2>1, <2>2 DEF Covers
<1>7. QED
  BY <1>3, <1>4, <1>5, <1>6 DEF Serves

LEMMA NotServed ==
  ASSUME ReadPoints, NEW b, IsBatch(b), ~ Serves(b.fc, b.start, b.quantity)
  PROVE  Excused(b)
BY AskedAndServed DEF IsBatch

\* A bit of the answer is that of the point,
LEMMA BitOfBatch ==
  ASSUME ReadPoints, NEW b, NEW s \in Nat, NEW e \in Nat, Covers(b.points, b.fc, s, e),
         b.start = Word(s), b.quantity = Word(e - s + 1), b.quantity > 0,
         NEW p \in ToSet(b.points), p.fc \in Discrete
  PROVE  FromBatch(b, p) = Own(p)
<1>1. /\ p.fc = b.fc /\ p.address \in Nat /\ End(p) \in Nat
      /\ s <= p.address /\ p.address <= End(p) /\ End(p) <= e
  BY PointsOfBatch
<1>2. PICK q \in ToSet(b.points) : End(q) = e
  BY DEF Covers
<1>3. e <= 65535 /\ s <= e
  <2>1. ReadPoint(q) /\ q.fc \in Discrete
    BY <1>1, <1>2, PointsOfBatch
  <2>2. QED
    BY <1>1, <1>2, <2>1 DEF ReadPoint
<1>4. b.start = s /\ b.quantity = e - s + 1
  BY <1>3, SpanAsked
<1> DEFINE n == 8 * ((b.quantity + 7) \div 8)
           o == p.address - b.start
<1>5. n \in Nat /\ b.quantity <= n /\ o \in Nat /\ o + 1 \in 1..n /\ o + 1 <= b.quantity
  <2>1. b.quantity \in Nat
    BY <1>3, <1>4
  <2>2. n \in Nat /\ b.quantity <= n
    BY <2>1
  <2>3. o \in Nat /\ o + 1 <= b.quantity
    BY <1>1, <1>3, <1>4
  <2> HIDE DEF n, o
  <2>4. QED
    BY <2>1, <2>2, <2>3
<1>6. PICK bits : bits = Bits(b.start, b.quantity)
  OBVIOUS
<1>7. Len(bits) = n /\ bits[o + 1] = Coil(b.start + (o + 1) - 1)
  <2>1. bits = [i \in 1..n |-> IF i <= b.quantity THEN Coil(b.start + i - 1) ELSE <<"unused", 0>>]
    BY <1>6 DEF Bits
  <2> HIDE DEF n, o
  <2>2. QED
    BY <1>5, <2>1
<1>8. b.start + (o + 1) - 1 = p.address
  BY <1>1, <1>4
<1>9. o < Len(bits)
  <2> HIDE DEF n, o
  <2>1. QED
    BY <1>5, <1>7
<1>10. FromBatch(b, p) = IF o < Len(bits) THEN bits[o + 1] ELSE NoValue
  BY <1>6 DEF FromBatch
<1>11. QED
  BY <1>7, <1>8, <1>9, <1>10 DEF Own

\* and so are the registers that the answer has of it.
LEMMA RegistersOfBatch ==
  ASSUME NEW A, RegistersIn(A), ReadPoints, NEW b, NEW s \in Nat, NEW e \in Nat,
         Covers(b.points, b.fc, s, e), b.start = Word(s), b.quantity = Word(e - s + 1),
         NEW p \in ToSet(b.points), p.fc \notin Discrete
  PROVE  /\ FromBatch(b, p) \in {NoValue, Own(p)}
         /\ b.start = s /\ b.quantity = e - s + 1 => FromBatch(b, p) = Own(p)
<1>1. /\ p.fc = b.fc /\ ReadPoint(p) /\ p.address \in Nat /\ End(p) \in Nat
      /\ s <= p.address /\ p.address <= End(p) /\ End(p) <= e /\ Start(p) = p.address
  BY PointsOfBatch
<1>2. PICK k \in Nat : k = Quantity(p)
  BY <1>1, SpanOf
<1>3. k > 0 /\ End(p) = p.address + k - 1
  BY <1>1, <1>2, SpanOf
<1>4. PICK start \in Nat, n \in Nat : start = b.start /\ n = b.quantity /\ start <= s
  <2>1. e - s + 1 \in Nat
    BY <1>1
  <2>2. QED
    BY <2>1, WordOf
<1>5. PICK o \in Nat : o = p.address - start
  BY <1>1, <1>4
<1>6. PICK bytes : bytes = Bytes(start, n)
  OBVIOUS
<1>7. Len(bytes) = 2 * n
  BY <1>6, BytesOf
<1>8. FromBatch(b, p) = IF k > 0 /\ 2 * (o + k) <= Len(bytes)
                          THEN DecodeRegister(p, SubSeq(bytes, 2 * o + 1, 2 * (o + k)))
                          ELSE NoValue
  BY <1>2, <1>4, <1>5, <1>6 DEF FromBatch
<1>9. Own(p) = DecodeRegister(p, Bytes(p.address, k))
  BY <1>2 DEF Own
<1>10. o + k <= n => SubSeq(bytes, 2 * o + 1, 2 * (o + k)) = Bytes(p.address, k)
  <2>1. start + o = p.address
    BY <1>1, <1>5
  <2>2. QED
    BY <1>6, <2>1, CutBytes
<1>11. CASE o + k <= n
  <2>1. 2 * (o + k) <= Len(bytes)
    BY <1>7, <1>11
  <2>2. QED
    BY <1>3, <1>8, <1>9, <1>10, <1>11, <2>1
<1>12. CASE ~ (o + k <= n)
  <2>1. ~ (2 * (o + k) <= Len(bytes))
    BY <1>7, <1>12
  <2>2. FromBatch(b, p) = NoValue
    BY <1>8, <2>1
  <2>3. ~ (b.start = s /\ b.quantity = e - s + 1)
    BY <1>1, <1>3, <1>4, <1>5, <1>12
  <2>4. QED
    BY <2>2, <2>3
<1>13. QED
  BY <1>11, <1>12

LEMMA CollectedIsOwn ==
  ASSUME NEW A, RegistersIn(A), ReadPoints, NEW b, IsBatch(b),
         Serves(b.fc, b.start, b.quantity), NEW p \in ToSet(b.points)
  PROVE  /\ FromBatch(b, p) \in {NoValue, Own(p)}
         /\ ~ Excused(b) => FromBatch(b, p) = Own(p)
<1>1. PICK s \in Nat, e \in Nat :
        /\ Covers(b.points, b.fc, s, e)
        /\ b.start = Word(s) /\ b.quantity = Word(e - s + 1)
  BY DEF IsBatch
<1>2. CASE p.fc \in Discrete
  <2>1. b.quantity > 0
    BY DEF Serves
  <2>2. QED
    BY <1>1, <1>2, <2>1, BitOfBatch
<1>3. CASE p.fc \notin Discrete
  BY <1>1, <1>3, RegistersOfBatch, AskedAndServed
<1>4. QED
  BY <1>2, <1>3

\* The points read, and the batches built of them.
LEMMA PointsReadable ==
  ASSUME PointsFit, device \in Devices
  PROVE  ReadPoints
BY FieldsOfPoint DEF ReadPoints

\* What is built is a batch, of the points the builder had.
LEMMA BuiltIsBatch ==
  ASSUME NEW b, Covers(b.points, b.fc, b.start, b.end)
  PROVE  IsBatch(Build(b)) /\ Build(b).points = b.points
<1>1. b.start \in Nat /\ b.end \in Nat
  BY DEF Covers
<1>2. PICK c : c = Build(b)
  OBVIOUS
<1>3. /\ c.points = b.points /\ c.fc = b.fc
      /\ c.start = Word(b.start) /\ c.quantity = Word(b.end - b.start + 1)
  BY <1>2 DEF Build
<1>4. IsBatch(c)
  BY <1>1, <1>3 DEF IsBatch
<1>5. QED
  BY <1>2, <1>3, <1>4

\* A sequence of batches, with one appended.
LEMMA BatchAppended ==
  ASSUME NEW bs, bs \in Seq(ToSet(bs)), NEW b, NEW cs, cs = Append(bs, b)
  PROVE  /\ cs \in Seq(ToSet(cs)) /\ Len(bs) \in Nat /\ Len(cs) = Len(bs) + 1
         /\ \A i \in DOMAIN bs : i \in DOMAIN cs /\ cs[i] = bs[i]
         /\ \A i \in DOMAIN cs : i \in DOMAIN bs \/ cs[i] = b
         /\ \E i \in DOMAIN cs : cs[i] = b
<1>1. PICK S : S = ToSet(bs) \cup {b}
  OBVIOUS
<1>2. bs \in Seq(S)
  <2>1. ToSet(bs) \subseteq S
    BY <1>1
  <2>2. \A i \in 1..Len(bs) : bs[i] \in S
    BY <2>1, ElementOfSeq
  <2>3. QED
    BY <2>1
<1>3. ToSet(cs) = S
  BY <1>1, <1>2, ElementsAppended DEF ToSet
<1>4. /\ cs \in Seq(S) /\ Len(cs) = Len(bs) + 1 /\ Len(bs) \in Nat
      /\ DOMAIN bs = 1..Len(bs) /\ DOMAIN cs = 1..Len(cs)
      /\ \A i \in 1..Len(bs) : cs[i] = bs[i]
      /\ cs[Len(bs) + 1] = b
  BY <1>1, <1>2, AppendProperties, LenProperties
<1>5. QED
  BY <1>3, <1>4

-----------------------------------------------------------------------------
(* The steps of planning and collecting. *)

LEMMA OwnKept ==
  ASSUME UNCHANGED memory, NEW p
  PROVE  Own(p)' = Own(p)
BY DEF Own, Coil, Bytes, Register

LEMMA PointsInitInv == PointsFit /\ PointsInit => PointsInv
<1> SUFFICES ASSUME PointsFit, PointsInit
             PROVE  PointsInv
  OBVIOUS
<1>1. /\ phase = "plan" /\ device \in Devices /\ unplanned = Enabled(device) /\ builder = NoBatch
      /\ batches = <<>> /\ turn = 1 /\ recorded = [p \in device |-> NoValue] /\ memory = <<>>
  BY DEF PointsInit
<1>2. /\ builder.points = <<>> /\ IsBuilder(builder) /\ <<>> \in Seq(Enabled(device))
      /\ ToSet(<<>>) = {} /\ <<>> \in Seq({})
  BY <1>1 DEF NoBatch, IsBuilder, ToSet
<1>3. PlanInv
  BY <1>1, <1>2 DEF PlanInv
<1>4. CollectInv
  <2>1. \A p \in Enabled(device) : p \in device
    BY DEF Enabled
  <2>2. DOMAIN recorded = device /\ \A p \in device : recorded[p] = NoValue
    BY <1>1
  <2>3. DOMAIN batches = {}
    BY <1>1
  <2>4. QED
    BY <1>1, <2>1, <2>2, <2>3 DEF CollectInv
<1>5. QED
  BY <1>1, <1>3, <1>4 DEF PointsInv

\* A step of the planner keeps the plan,
LEMMA PlanKept ==
  ASSUME UNCHANGED <<device, memory>>, device \in Devices, memory = <<>>,
         NEW td, NEW b, NEW bs, unplanned' = td, builder' = b, batches' = bs,
         td \subseteq Enabled(device), IsBuilder(b), b.points \in Seq(Enabled(device)),
         b.points # <<>> => Covers(b.points, b.fc, b.start, b.end),
         bs \in Seq(ToSet(bs)), \A i \in DOMAIN bs : IsBatch(bs[i]),
         \A p \in Enabled(device) :
           p \in td \/ p \in ToSet(b.points) \/ \E i \in DOMAIN bs : p \in ToSet(bs[i].points)
  PROVE  PlanInv'
<1>1. Enabled(device)' = Enabled(device)
  BY DEF Enabled
<1>2. (builder.points # <<>> => Covers(builder.points, builder.fc, builder.start, builder.end))'
  BY DEF Covers, Enabled
<1>3. (\A i \in DOMAIN batches : IsBatch(batches[i]))'
  <2> SUFFICES ASSUME NEW i \in DOMAIN bs
               PROVE  IsBatch(batches[i])'
    OBVIOUS
  <2>1. PICK c : c = bs[i]
    OBVIOUS
  <2>2. batches'[i] = c
    BY <2>1
  <2>3. PICK s \in Nat, e \in Nat :
          Covers(c.points, c.fc, s, e) /\ c.start = Word(s) /\ c.quantity = Word(e - s + 1)
    BY <2>1 DEF IsBatch
  <2>4. Covers(c.points, c.fc, s, e)'
    BY <1>1, <2>3 DEF Covers
  <2>5. QED
    BY <2>2, <2>3, <2>4 DEF IsBatch
<1>4. (Enabled(device) \subseteq unplanned \cup ToSet(builder.points) \cup Planned)'
  BY DEF Planned, Enabled
<1>5. (/\ device \in Devices /\ unplanned \subseteq Enabled(device) /\ memory = <<>>
       /\ IsBuilder(builder) /\ builder.points \in Seq(Enabled(device))
       /\ batches \in Seq(ToSet(batches)))'
  BY <1>1 DEF IsBuilder
<1>6. QED
  BY <1>2, <1>3, <1>4, <1>5 DEF PlanInv

\* and collects nothing.
LEMMA NothingCollected ==
  ASSUME CollectInv, turn = 1, UNCHANGED <<device, turn, recorded, memory>>,
         NEW bs, batches' = bs, bs \in Seq(ToSet(bs)),
         phase' \in {"plan", "collect"},
         phase' = "collect" => unplanned' = {} /\ builder'.points = <<>>
  PROVE  CollectInv'
<1>1. Enabled(device)' = Enabled(device)
  BY DEF Enabled
<1>2. \A p : Own(p)' = Own(p)
  BY OwnKept
<1>3. (\A p \in Enabled(device) : recorded[p] \in {NoValue, Own(p)})'
  BY <1>1, <1>2 DEF CollectInv, NoValue
<1>4. \A i \in DOMAIN bs : ~ (i < 1)
  OBVIOUS
<1>5. (/\ phase # "plan" => unplanned = {} /\ builder.points = <<>>
       /\ turn \in Nat /\ turn >= 1 /\ (phase = "plan" => turn = 1)
       /\ phase = "done" => turn > Len(batches)
       /\ DOMAIN recorded = device)'
  BY DEF CollectInv
<1>6. (\A i \in DOMAIN batches : ~ (i < turn))'
  BY <1>4
<1>7. QED
  BY <1>3, <1>5, <1>6 DEF CollectInv

\* The planned point is in the batch being built, which covers what it holds; a batch that
\* had no room for it is built.
LEMMA PlanPointStep == PointsFit /\ PointsInv /\ PlanPoint => PointsInv'
<1> SUFFICES ASSUME PointsFit, PointsInv, PlanPoint
             PROVE  PointsInv'
  OBVIOUS
<1>1. phase = "plan" /\ PlanInv /\ CollectInv
  BY DEF PlanPoint, PointsInv
<1>2. device \in Devices /\ memory = <<>> /\ turn = 1 /\ unplanned \subseteq Enabled(device)
  BY <1>1 DEF PlanInv, CollectInv
<1>3. ReadPoints
  BY <1>2, PointsReadable
<1>4. PICK p \in Group :
        /\ unplanned' = unplanned \ {p}
        /\ IF CanAdd(builder, p)
             THEN builder' = Add(builder, p) /\ UNCHANGED batches
             ELSE builder' = Add(NoBatch, p) /\ batches' = Append(batches, Build(builder))
  BY DEF PlanPoint
<1>5. UNCHANGED <<phase, device, turn, recorded, command, memory>>
  BY DEF PlanPoint
<1>6. p \in unplanned /\ p \in Enabled(device) /\ p.fc = builder.fc /\ ReadPoint(p)
  BY <1>2, <1>3, <1>4 DEF Group, ReadPoints
<1>7. PICK old, obs : old = builder /\ obs = batches
  OBVIOUS
<1>8. PICK b, bs, td : b = builder' /\ bs = batches' /\ td = unplanned'
  OBVIOUS
<1>9. /\ IsBuilder(old) /\ (old.points # <<>> => Covers(old.points, old.fc, old.start, old.end))
      /\ obs \in Seq(ToSet(obs)) /\ \A i \in DOMAIN obs : IsBatch(obs[i])
  BY <1>1, <1>7 DEF PlanInv
<1>10. \A q \in Enabled(device) :
         \/ q \in unplanned \/ q \in ToSet(old.points)
         \/ \E i \in DOMAIN obs : q \in ToSet(obs[i].points)
  BY <1>1, <1>7 DEF PlanInv, Planned
<1>11. /\ IsBuilder(b) /\ Covers(b.points, b.fc, b.start, b.end) /\ p \in ToSet(b.points)
       /\ bs \in Seq(ToSet(bs)) /\ \A i \in DOMAIN bs : IsBatch(bs[i])
       /\ \A q : q \in ToSet(old.points) \/ (\E i \in DOMAIN obs : q \in ToSet(obs[i].points))
            => q \in ToSet(b.points) \/ (\E i \in DOMAIN bs : q \in ToSet(bs[i].points))
  <2>1. CASE CanAdd(old, p)
    <3>1. b = Add(old, p) /\ bs = obs
      BY <1>4, <1>7, <1>8, <2>1
    <3>2. /\ Covers(b.points, b.fc, b.start, b.end) /\ IsBuilder(b)
          /\ ToSet(old.points) \cup {p} \subseteq ToSet(b.points)
      BY <1>3, <1>6, <1>7, <1>9, <2>1, <3>1, AddCovers DEF ReadPoints
    <3>3. QED
      BY <1>9, <3>1, <3>2
  <2>2. CASE ~ CanAdd(old, p)
    <3>1. b = Add(NoBatch, p) /\ bs = Append(obs, Build(old))
      BY <1>4, <1>7, <1>8, <2>2
    <3>2. b = Begun(p)
      BY <3>1 DEF Add, NoBatch
    <3>3. Covers(b.points, b.fc, b.start, b.end) /\ ToSet(b.points) = {p} /\ IsBuilder(b)
      BY <1>6, <3>2, BegunCovers DEF Begun, IsBuilder
    <3>4. Covers(old.points, old.fc, old.start, old.end)
      BY <1>9, <2>2 DEF CanAdd
    <3>5. PICK c : c = Build(old)
      OBVIOUS
    <3>6. IsBatch(c) /\ c.points = old.points
      BY <3>4, <3>5, BuiltIsBatch
    <3>7. bs = Append(obs, c)
      BY <3>1, <3>5
    <3>8. /\ bs \in Seq(ToSet(bs))
          /\ \A i \in DOMAIN obs : i \in DOMAIN bs /\ bs[i] = obs[i]
          /\ \A i \in DOMAIN bs : i \in DOMAIN obs \/ bs[i] = c
          /\ \E i \in DOMAIN bs : bs[i] = c
      <4>1. obs \in Seq(ToSet(obs))
        BY <1>9
      <4>2. bs \in Seq(ToSet(bs))
        BY <3>7, <4>1, BatchAppended
      <4>3. \A i \in DOMAIN obs : i \in DOMAIN bs /\ bs[i] = obs[i]
        BY <3>7, <4>1, BatchAppended
      <4>4. \A i \in DOMAIN bs : i \in DOMAIN obs \/ bs[i] = c
        BY <3>7, <4>1, BatchAppended
      <4>5. \E i \in DOMAIN bs : bs[i] = c
        BY <3>7, <4>1, BatchAppended
      <4>6. QED
        BY <4>2, <4>3, <4>4, <4>5
    <3>9. \A i \in DOMAIN bs : IsBatch(bs[i])
      BY <1>9, <3>6, <3>8
    <3>10. QED
      BY <3>3, <3>6, <3>8, <3>9
  <2>3. QED
    BY <2>1, <2>2
<1>12. PlanInv'
  <2>1. b.points \in Seq(Enabled(device))
    BY <1>11 DEF Covers
  <2>2. td \subseteq Enabled(device) /\ \A q \in unplanned : q \in td \/ q = p
    BY <1>2, <1>4, <1>8
  <2>3. \A q \in Enabled(device) :
          q \in td \/ q \in ToSet(b.points) \/ \E i \in DOMAIN bs : q \in ToSet(bs[i].points)
    BY <1>10, <1>11, <2>2
  <2>4. QED
    BY <1>2, <1>5, <1>8, <1>11, <2>1, <2>2, <2>3, PlanKept
<1>13. CollectInv'
  BY <1>1, <1>2, <1>5, <1>8, <1>11, NothingCollected
<1>14. QED
  BY <1>1, <1>5, <1>12, <1>13 DEF PointsInv

\* The last batch of a function code is built, be it of one point.
LEMMA NextGroupStep == PointsFit /\ PointsInv /\ NextGroup => PointsInv'
<1> SUFFICES ASSUME PointsFit, PointsInv, NextGroup
             PROVE  PointsInv'
  OBVIOUS
<1>1. phase = "plan" /\ PlanInv /\ CollectInv
  BY DEF NextGroup, PointsInv
<1>2. device \in Devices /\ memory = <<>> /\ turn = 1 /\ unplanned \subseteq Enabled(device)
  BY <1>1 DEF PlanInv, CollectInv
<1>3. UNCHANGED <<device, unplanned, turn, recorded, command, memory>>
  BY DEF NextGroup
<1>4. PICK old, obs : old = builder /\ obs = batches
  OBVIOUS
<1>5. PICK b, bs, td : b = builder' /\ bs = batches' /\ td = unplanned'
  OBVIOUS
<1>6. /\ b.points = <<>> /\ IsBuilder(b)
      /\ phase' = "plan" \/ (phase' = "collect" /\ unplanned = {})
  <2>1. CASE \E fc \in {p.fc : p \in unplanned} :
               builder' = [NoBatch EXCEPT !.fc = fc] /\ UNCHANGED phase
    BY <1>1, <1>5, <2>1 DEF NoBatch, IsBuilder
  <2>2. CASE unplanned = {} /\ builder' = NoBatch /\ phase' = "collect"
    BY <1>5, <2>2 DEF NoBatch, IsBuilder
  <2>3. QED
    BY <2>1, <2>2 DEF NextGroup
<1>7. /\ (old.points # <<>> => Covers(old.points, old.fc, old.start, old.end))
      /\ obs \in Seq(ToSet(obs)) /\ \A i \in DOMAIN obs : IsBatch(obs[i])
  BY <1>1, <1>4 DEF PlanInv
<1>8. \A q \in Enabled(device) :
        \/ q \in unplanned \/ q \in ToSet(old.points)
        \/ \E i \in DOMAIN obs : q \in ToSet(obs[i].points)
  BY <1>1, <1>4 DEF PlanInv, Planned
<1>9. /\ bs \in Seq(ToSet(bs)) /\ \A i \in DOMAIN bs : IsBatch(bs[i])
      /\ \A q : q \in ToSet(old.points) \/ (\E i \in DOMAIN obs : q \in ToSet(obs[i].points))
           => \E i \in DOMAIN bs : q \in ToSet(bs[i].points)
  <2>1. CASE old.points = <<>>
    <3>1. bs = obs /\ ToSet(old.points) = {}
      BY <1>4, <1>5, <2>1 DEF NextGroup, ToSet
    <3>2. QED
      BY <1>7, <3>1
  <2>2. CASE old.points # <<>>
    <3>1. PICK c : c = Build(old)
      OBVIOUS
    <3>2. bs = Append(obs, c)
      BY <1>4, <1>5, <2>2, <3>1 DEF NextGroup
    <3>3. IsBatch(c) /\ c.points = old.points
      BY <1>7, <2>2, <3>1, BuiltIsBatch
    <3>4. /\ bs \in Seq(ToSet(bs))
          /\ \A i \in DOMAIN obs : i \in DOMAIN bs /\ bs[i] = obs[i]
          /\ \A i \in DOMAIN bs : i \in DOMAIN obs \/ bs[i] = c
          /\ \E i \in DOMAIN bs : bs[i] = c
      <4>1. obs \in Seq(ToSet(obs))
        BY <1>7
      <4>2. bs \in Seq(ToSet(bs))
        BY <3>2, <4>1, BatchAppended
      <4>3. \A i \in DOMAIN obs : i \in DOMAIN bs /\ bs[i] = obs[i]
        BY <3>2, <4>1, BatchAppended
      <4>4. \A i \in DOMAIN bs : i \in DOMAIN obs \/ bs[i] = c
        BY <3>2, <4>1, BatchAppended
      <4>5. \E i \in DOMAIN bs : bs[i] = c
        BY <3>2, <4>1, BatchAppended
      <4>6. QED
        BY <4>2, <4>3, <4>4, <4>5
    <3>5. \A i \in DOMAIN bs : IsBatch(bs[i])
      BY <1>7, <3>3, <3>4
    <3>6. QED
      BY <3>3, <3>4, <3>5
  <2>3. QED
    BY <2>1, <2>2
<1>10. PlanInv'
  <2>1. td = unplanned /\ <<>> \in Seq(Enabled(device))
    BY <1>3, <1>5
  <2>2. QED
    BY <1>2, <1>3, <1>5, <1>6, <1>8, <1>9, <2>1, PlanKept
<1>11. CollectInv'
  BY <1>1, <1>2, <1>3, <1>5, <1>6, <1>9, NothingCollected
<1>12. QED
  BY <1>6, <1>10, <1>11 DEF PointsInv

\* Collecting leaves the plan as it is,
LEMMA PlanUnchanged ==
  ASSUME PlanInv, UNCHANGED <<device, unplanned, builder, batches, memory>>
  PROVE  PlanInv'
<1>1. Enabled(device)' = Enabled(device)
  BY DEF Enabled
<1>2. (builder.points # <<>> => Covers(builder.points, builder.fc, builder.start, builder.end))'
  BY DEF PlanInv, Covers, Enabled
<1>3. (\A i \in DOMAIN batches : IsBatch(batches[i]))'
  <2> SUFFICES ASSUME NEW i \in DOMAIN batches
               PROVE  IsBatch(batches[i])'
    OBVIOUS
  <2>1. PICK c : c = batches[i]
    OBVIOUS
  <2>2. batches'[i] = c
    BY <2>1
  <2>3. PICK s \in Nat, e \in Nat :
          Covers(c.points, c.fc, s, e) /\ c.start = Word(s) /\ c.quantity = Word(e - s + 1)
    BY <2>1 DEF IsBatch, PlanInv
  <2>4. Covers(c.points, c.fc, s, e)'
    BY <1>1, <2>3 DEF Covers
  <2>5. QED
    BY <2>2, <2>3, <2>4 DEF IsBatch
<1>4. (Enabled(device) \subseteq unplanned \cup ToSet(builder.points) \cup Planned)'
  BY DEF PlanInv, Planned, Enabled
<1>5. (/\ device \in Devices /\ unplanned \subseteq Enabled(device) /\ memory = <<>>
       /\ IsBuilder(builder) /\ builder.points \in Seq(Enabled(device))
       /\ batches \in Seq(ToSet(batches)))'
  BY <1>1 DEF PlanInv, IsBuilder
<1>6. QED
  BY <1>2, <1>3, <1>4, <1>5 DEF PlanInv

\* What the batch records is the points' own, or the batch is excused; so with each batch
\* there is one batch more of whose points this is known.
LEMMA CollectBatchStep == PointsFit /\ PointsInv /\ CollectBatch => PointsInv'
<1> SUFFICES ASSUME PointsFit, PointsInv, CollectBatch
             PROVE  PointsInv'
  OBVIOUS
<1>1. phase = "collect" /\ PlanInv /\ CollectInv
  BY DEF CollectBatch, PointsInv
<1>2. UNCHANGED <<device, unplanned, builder, batches, command, memory>>
  BY DEF CollectBatch
<1>3. PlanInv'
  BY <1>1, <1>2, PlanUnchanged
<1>4. ReadPoints /\ RegistersIn({"high", "low"} \X Nat)
  BY <1>1, PointsReadable, RegistersUnwritten DEF PlanInv
<1>5. /\ Enabled(device)' = Enabled(device) /\ \A p : Own(p)' = Own(p)
      /\ \A p \in Enabled(device) : p \in device
  BY <1>2, OwnKept DEF Enabled
<1>6. /\ unplanned = {} /\ builder.points = <<>> /\ turn \in Nat /\ turn >= 1
      /\ DOMAIN recorded = device
      /\ \A p \in Enabled(device) : recorded[p] \in {NoValue, Own(p)}
      /\ \A i \in DOMAIN batches : i < turn =>
           \A p \in ToSet(batches[i].points) :
             \/ recorded[p] = Own(p)
             \/ \E j \in DOMAIN batches : p \in ToSet(batches[j].points) /\ Excused(batches[j])
  BY <1>1 DEF CollectInv
<1>7. batches \in Seq(ToSet(batches)) /\ Len(batches) \in Nat /\ DOMAIN batches = 1..Len(batches)
  BY <1>1, LenProperties DEF PlanInv
<1>8. CASE turn > Len(batches)
  <2>1. phase' = "done" /\ UNCHANGED <<turn, recorded>>
    BY <1>8 DEF CollectBatch
  <2>2. (\A p \in Enabled(device) : recorded[p] \in {NoValue, Own(p)})'
    BY <1>5, <1>6, <2>1 DEF NoValue
  <2>3. (\A i \in DOMAIN batches : i < turn =>
           \A p \in ToSet(batches[i].points) :
             \/ recorded[p] = Own(p)
             \/ \E j \in DOMAIN batches : p \in ToSet(batches[j].points) /\ Excused(batches[j]))'
    BY <1>2, <1>5, <1>6, <2>1 DEF Excused, Unreadable
  <2>4. (/\ phase # "plan" => unplanned = {} /\ builder.points = <<>>
         /\ turn \in Nat /\ turn >= 1 /\ (phase = "plan" => turn = 1)
         /\ phase = "done" => turn > Len(batches)
         /\ DOMAIN recorded = device)'
    BY <1>2, <1>6, <1>8, <2>1
  <2>5. CollectInv'
    BY <2>2, <2>3, <2>4 DEF CollectInv
  <2>6. QED
    BY <1>3, <2>1, <2>5 DEF PointsInv
<1>9. CASE ~ (turn > Len(batches))
  <2>1. PICK b : b = batches[turn]
    OBVIOUS
  <2>2. /\ turn' = turn + 1 /\ phase' = "collect"
        /\ recorded' = IF Serves(b.fc, b.start, b.quantity)
                         THEN [p \in device |-> IF p \in ToSet(b.points) THEN FromBatch(b, p)
                                                ELSE recorded[p]]
                         ELSE recorded
    BY <1>1, <1>9, <2>1 DEF CollectBatch
  <2>3. turn \in DOMAIN batches /\ IsBatch(b)
    BY <1>1, <1>6, <1>7, <1>9, <2>1 DEF PlanInv
  <2>4. \A p \in ToSet(b.points) : p \in Enabled(device)
    BY <2>3 DEF IsBatch, Covers, ToSet
  <2>5. PICK rec : rec = recorded'
    OBVIOUS
  <2>6. /\ DOMAIN rec = device
        /\ \A p \in device : p \notin ToSet(b.points) => rec[p] = recorded[p]
        /\ \A p \in ToSet(b.points) :
             rec[p] \in {NoValue, Own(p)} /\ (Excused(b) \/ rec[p] = Own(p))
    <3>1. CASE Serves(b.fc, b.start, b.quantity)
      <4>1. rec = [p \in device |-> IF p \in ToSet(b.points) THEN FromBatch(b, p) ELSE recorded[p]]
        BY <2>2, <2>5, <3>1
      <4>2. \A p \in ToSet(b.points) : rec[p] = FromBatch(b, p)
        BY <1>5, <2>4, <4>1
      <4>3. \A p \in ToSet(b.points) :
              FromBatch(b, p) \in {NoValue, Own(p)} /\ (Excused(b) \/ FromBatch(b, p) = Own(p))
        BY <1>4, <2>3, <3>1, CollectedIsOwn
      <4>4. QED
        BY <4>1, <4>2, <4>3
    <3>2. CASE ~ Serves(b.fc, b.start, b.quantity)
      <4>1. rec = recorded
        BY <2>2, <2>5, <3>2
      <4>2. Excused(b)
        BY <1>4, <2>3, <3>2, NotServed
      <4>3. QED
        BY <1>6, <2>4, <4>1, <4>2
    <3>3. QED
      BY <3>1, <3>2
  <2>7. \A p \in Enabled(device) : rec[p] \in {NoValue, Own(p)}
    BY <1>5, <1>6, <2>6
  <2>8. ASSUME NEW i \in DOMAIN batches, i < turn + 1, NEW p \in ToSet(batches[i].points)
        PROVE  \/ rec[p] = Own(p)
               \/ \E j \in DOMAIN batches : p \in ToSet(batches[j].points) /\ Excused(batches[j])
    <3>1. CASE p \in ToSet(b.points)
      BY <2>1, <2>3, <2>6, <3>1
    <3>2. CASE p \notin ToSet(b.points)
      <4>1. i < turn
        BY <1>6, <1>7, <2>1, <2>8, <3>2
      <4>2. p \in device
        <5>1. PICK c : c = batches[i]
          OBVIOUS
        <5>2. IsBatch(c)
          BY <1>1, <5>1 DEF PlanInv
        <5>3. p \in Enabled(device)
          BY <2>8, <5>1, <5>2 DEF IsBatch, Covers, ToSet
        <5>4. QED
          BY <1>5, <5>3
      <4>3. QED
        BY <1>6, <2>6, <2>8, <3>2, <4>1, <4>2
    <3>3. QED
      BY <3>1, <3>2
  <2>9. (\A i \in DOMAIN batches : i < turn =>
           \A p \in ToSet(batches[i].points) :
             \/ recorded[p] = Own(p)
             \/ \E j \in DOMAIN batches : p \in ToSet(batches[j].points) /\ Excused(batches[j]))'
    BY <1>2, <1>5, <2>2, <2>5, <2>8 DEF Excused, Unreadable
  <2>10. (/\ phase # "plan" => unplanned = {} /\ builder.points = <<>>
          /\ turn \in Nat /\ turn >= 1 /\ (phase = "plan" => turn = 1)
          /\ phase = "done" => turn > Len(batches)
          /\ DOMAIN recorded = device)'
    BY <1>2, <1>6, <2>2, <2>5, <2>6
  <2>11. (\A p \in Enabled(device) : recorded[p] \in {NoValue, Own(p)})'
    BY <1>5, <2>5, <2>7 DEF NoValue
  <2>12. CollectInv'
    BY <2>9, <2>10, <2>11 DEF CollectInv
  <2>13. QED
    BY <1>3, <2>2, <2>12 DEF PointsInv
<1>10. QED
  BY <1>8, <1>9

\* Nothing is claimed of what was recorded once the device has been written.
LEMMA WriteCommandStep == PointsInv /\ WriteCommand => PointsInv'
<1> SUFFICES ASSUME PointsInv, WriteCommand
             PROVE  PointsInv'
  OBVIOUS
<1>1. PICK c \in Commands :
        /\ command' = c
        /\ IF CanEncode(c) THEN memory' = Written(c) /\ phase' = "written"
           ELSE phase' = "refused" /\ UNCHANGED memory
  BY DEF WriteCommand
<1>2. QED
  BY <1>1 DEF PointsInv

LEMMA PointsUnchanged == PointsInv /\ UNCHANGED pointsVars => PointsInv'
<1> SUFFICES ASSUME PointsInv, UNCHANGED pointsVars
             PROVE  PointsInv'
  OBVIOUS
<1>1. UNCHANGED <<phase, device, unplanned, builder, batches, turn, recorded, command, memory>>
  BY DEF pointsVars
<1>2. PlanInv => PlanInv'
  BY <1>1, PlanUnchanged
<1>3. CollectInv => CollectInv'
  <2>1. Enabled(device)' = Enabled(device) /\ \A p : Own(p)' = Own(p)
    BY <1>1, OwnKept DEF Enabled
  <2>2. QED
    BY <1>1, <2>1 DEF CollectInv, NoValue, Excused, Unreadable
<1>4. QED
  BY <1>1, <1>2, <1>3 DEF PointsInv

\* The plan and what is recorded along it, in every state the planner and the collector reach.
LEMMA PointsInvHolds == ASSUME PointsFit PROVE PointsSpec => []PointsInv
<1>1. PointsInit => PointsInv
  BY PointsInitInv
<1>2. PointsInv /\ [PointsNext]_pointsVars => PointsInv'
  BY PlanPointStep, NextGroupStep, CollectBatchStep, WriteCommandStep, PointsUnchanged
     DEF PointsNext
<1>3. QED
  BY <1>1, <1>2, PTL DEF PointsSpec

\* Planning (batch.go) and decoding (modbus.go) record for every enabled point what its own
\* address holds, however many points there are and in whatever order those of one address
\* come: unless the device refuses one of its batch, or the batch is of the whole address
\* space.  PointsFit is what the configuration would have to check for it.
THEOREM BatchingIsInvisibleHolds ==
  ASSUME PointsFit
  PROVE  PointsSpec => []BatchingIsInvisible
<1>1. PointsInv => BatchingIsInvisible
  <2> SUFFICES ASSUME PointsInv, phase = "done", NEW p \in Enabled(device)
               PROVE  \/ recorded[p] = Own(p)
                      \/ /\ recorded[p] = NoValue
                         /\ \E i \in DOMAIN batches :
                              /\ p \in ToSet(batches[i].points)
                              /\ \/ \E q \in ToSet(batches[i].points) : Unreadable(q)
                                 \/ batches[i].quantity = 0
    BY DEF BatchingIsInvisible
  <2>1. PlanInv /\ CollectInv
    BY DEF PointsInv
  <2>2. unplanned = {} /\ ToSet(builder.points) = {}
    BY <2>1 DEF CollectInv, ToSet
  <2>3. PICK i \in DOMAIN batches : p \in ToSet(batches[i].points)
    BY <2>1, <2>2 DEF PlanInv, Planned
  <2>4. i < turn
    BY <2>1, LenProperties DEF PlanInv, CollectInv
  <2>5. \/ recorded[p] = Own(p)
        \/ \E j \in DOMAIN batches : p \in ToSet(batches[j].points) /\ Excused(batches[j])
    BY <2>1, <2>3, <2>4 DEF CollectInv
  <2>6. recorded[p] \in {NoValue, Own(p)}
    BY <2>1 DEF CollectInv
  <2>7. QED
    BY <2>5, <2>6 DEF Excused
<1>2. QED
  BY <1>1, PointsInvHolds, PTL

-----------------------------------------------------------------------------
(* Byte orders. *)

\* An order of the bytes that is its own inverse.
Swaps(order, n) == order \in [1..n -> 1..n] /\ \A i \in 1..n : order[order[i]] = i

Reordered(data, order, n) == [i \in 1..n |-> data[order[i]]]

LEMMA ReorderedTwice ==
  ASSUME NEW A, NEW n \in Nat, NEW d \in Seq(A), Len(d) = n, NEW order, Swaps(order, n),
         NEW x, x = Reordered(d, order, n)
  PROVE  x \in Seq(A) /\ Len(x) = n /\ Reordered(x, order, n) = d
<1>1. order \in [1..n -> 1..n] /\ \A i \in 1..n : order[order[i]] = i
  BY DEF Swaps
<1>2. d \in [1..n -> A]
  BY LenProperties
<1>3. x = [i \in 1..n |-> d[order[i]]] /\ x \in [1..n -> A]
  BY <1>1, <1>2 DEF Reordered
<1>4. x \in Seq(A) /\ Len(x) = n
  BY <1>3
<1>5. PICK y : y = Reordered(x, order, n)
  OBVIOUS
<1>6. y \in [1..n -> A] /\ \A i \in 1..n : y[i] = d[i]
  BY <1>1, <1>2, <1>3, <1>5 DEF Reordered
<1>7. y = d
  BY <1>2, <1>6
<1>8. QED
  BY <1>4, <1>5, <1>7

LEMMA ReverseSwaps ==
  ASSUME NEW n \in Nat
  PROVE  Swaps([i \in 1..n |-> n - i + 1], n)
BY DEF Swaps

\* The orders of four and of eight bytes.
LEMMA OrdersSwap ==
  /\ Swaps(<<2, 1, 4, 3>>, 4) /\ Swaps(<<3, 4, 1, 2>>, 4)
  /\ Swaps(<<2, 1, 4, 3, 6, 5, 8, 7>>, 8) /\ Swaps(<<5, 6, 7, 8, 1, 2, 3, 4>>, 8)
<1>1. Swaps(<<2, 1, 4, 3>>, 4)
  <2>1. 1..4 = {1, 2, 3, 4}
    OBVIOUS
  <2>2. QED
    BY <2>1 DEF Swaps
<1>2. Swaps(<<3, 4, 1, 2>>, 4)
  <2>1. 1..4 = {1, 2, 3, 4}
    OBVIOUS
  <2>2. QED
    BY <2>1 DEF Swaps
<1>3. Swaps(<<2, 1, 4, 3, 6, 5, 8, 7>>, 8)
  <2>1. 1..8 = {1, 2, 3, 4, 5, 6, 7, 8}
    OBVIOUS
  <2>2. QED
    BY <2>1 DEF Swaps
<1>4. Swaps(<<5, 6, 7, 8, 1, 2, 3, 4>>, 8)
  <2>1. 1..8 = {1, 2, 3, 4, 5, 6, 7, 8}
    OBVIOUS
  <2>2. QED
    BY <2>1 DEF Swaps
<1>5. QED
  BY <1>1, <1>2, <1>3, <1>4

\* Every byte order of a value of two, four or eight bytes is one of these, or none.
LEMMA EndianOrders ==
  ASSUME NEW endian, NEW n \in {2, 4, 8}
  PROVE  \/ \A d : Len(d) = n => ApplyEndian(d, endian) = d
         \/ \A d : Len(d) = n => ApplyEndian(d, endian) = Reverse(d)
         \/ \E order : /\ Swaps(order, n)
                       /\ \A d : Len(d) = n => ApplyEndian(d, endian) = Permuted(d, order)
<1>1. CASE n = 2 /\ endian \in {"BA", "DCBA"}
  BY <1>1 DEF ApplyEndian
<1>2. CASE n \in {4, 8} /\ endian = "DCBA"
  BY <1>2 DEF ApplyEndian
<1>3. CASE n = 4 /\ endian = "BADC"
  BY <1>3, OrdersSwap DEF ApplyEndian
<1>4. CASE n = 4 /\ endian = "CDAB"
  BY <1>4, OrdersSwap DEF ApplyEndian
<1>5. CASE n = 8 /\ endian = "BADC"
  BY <1>5, OrdersSwap DEF ApplyEndian
<1>6. CASE n = 8 /\ endian = "CDAB"
  BY <1>6, OrdersSwap DEF ApplyEndian
<1>7. CASE /\ ~ (n = 2 /\ endian \in {"BA", "DCBA"}) /\ ~ (n \in {4, 8} /\ endian = "DCBA")
           /\ endian = "BADC" => n \notin {4, 8}
           /\ endian = "CDAB" => n \notin {4, 8}
  BY <1>7 DEF ApplyEndian
<1>8. QED
  BY <1>1, <1>2, <1>3, <1>4, <1>5, <1>6, <1>7

\* A byte order is undone by applying it again.
LEMMA EndianTwice ==
  ASSUME NEW A, NEW d \in Seq(A), Len(d) \in {2, 4, 8}, NEW endian, NEW x,
         x = ApplyEndian(d, endian)
  PROVE  x \in Seq(A) /\ Len(x) = Len(d) /\ ApplyEndian(x, endian) = d
<1>1. PICK n \in {2, 4, 8} : n = Len(d)
  OBVIOUS
<1>2. n \in Nat /\ DOMAIN d = 1..n
  BY <1>1, LenProperties
<1>3. CASE \A y : Len(y) = n => ApplyEndian(y, endian) = y
  BY <1>1, <1>3
<1>4. CASE \A y : Len(y) = n => ApplyEndian(y, endian) = Reverse(y)
  <2>1. PICK order : order = [i \in 1..n |-> n - i + 1]
    OBVIOUS
  <2>2. Swaps(order, n)
    BY <1>2, <2>1, ReverseSwaps
  <2>3. \A y : Len(y) = n => Reverse(y) = Reordered(y, order, n)
    BY <2>1 DEF Reverse, Reordered
  <2>4. x = Reordered(d, order, n)
    BY <1>1, <1>4, <2>3
  <2>5. x \in Seq(A) /\ Len(x) = n /\ Reordered(x, order, n) = d
    BY <1>1, <1>2, <2>2, <2>4, ReorderedTwice
  <2>6. QED
    BY <1>1, <1>4, <2>3, <2>5
<1>5. CASE \E order : /\ Swaps(order, n)
                      /\ \A y : Len(y) = n => ApplyEndian(y, endian) = Permuted(y, order)
  <2>1. PICK order : /\ Swaps(order, n)
                     /\ \A y : Len(y) = n => ApplyEndian(y, endian) = Permuted(y, order)
    BY <1>5
  <2>2. x = Reordered(d, order, n)
    BY <1>1, <1>2, <2>1 DEF Permuted, Reordered
  <2>3. x \in Seq(A) /\ Len(x) = n /\ Reordered(x, order, n) = d
    BY <1>1, <1>2, <2>1, <2>2, ReorderedTwice
  <2>4. ApplyEndian(x, endian) = Reordered(x, order, n)
    <3>1. DOMAIN x = 1..n
      BY <2>2 DEF Reordered
    <3>2. QED
      BY <2>1, <2>3, <3>1 DEF Permuted, Reordered
  <2>5. QED
    BY <1>1, <2>3, <2>4
<1>6. QED
  BY <1>3, <1>4, <1>5, EndianOrders

-----------------------------------------------------------------------------
(* What a command has written is read back. *)

Halves == {"new", "high", "low"} \X Nat

\* The bytes of a command to registers, and how many registers they fill.
WritesRegisters(c, n) ==
  /\ c.fc \notin {5, 15} /\ c.address \in Nat
  /\ n \in {1, 2, 4} /\ Target(c) \in Seq(Halves) /\ Len(Target(c)) = 2 * n
  /\ EncodeRegisters(c) \in Seq(Halves) /\ Len(EncodeRegisters(c)) = 2 * n
  /\ ApplyEndian(EncodeRegisters(c), c.endian) = Target(c)

LEMMA TargetBytes ==
  ASSUME NEW c, c.fc \notin {5, 15}, c.address \in Nat,
         NEW n, n = IF c.type \in Narrow THEN 1 ELSE IF c.type \in Double THEN 2 ELSE 4
  PROVE  WritesRegisters(c, n)
<1>1. n \in {1, 2, 4}
  OBVIOUS
<1>2. PICK m \in Nat : m = 2 * n /\ m \in {2, 4, 8}
  BY <1>1
<1>3. PICK t : t = Target(c)
  OBVIOUS
<1>4. t = [i \in 1..m |-> <<"new", i>>]
  BY <1>2, <1>3 DEF Target
<1>5. t \in Seq(Halves) /\ Len(t) = m
  <2>1. \A i \in 1..m : <<"new", i>> \in Halves
    BY DEF Halves
  <2>2. t \in [1..m -> Halves]
    BY <1>4, <2>1
  <2>3. QED
    BY <2>2
<1>6. PICK x : x = EncodeRegisters(c)
  OBVIOUS
<1>7. x = ApplyEndian(t, c.endian)
  BY <1>3, <1>6 DEF EncodeRegisters
<1>8. x \in Seq(Halves) /\ Len(x) = Len(t) /\ ApplyEndian(x, c.endian) = t
  BY <1>2, <1>5, <1>7, EndianTwice
<1>9. QED
  BY <1>1, <1>2, <1>3, <1>5, <1>6, <1>8 DEF WritesRegisters

\* The registers of the device after a command.
LEMMA RegistersWritten ==
  ASSUME NEW c, NEW n, WritesRegisters(c, n), memory = Written(c), NEW x, x = EncodeRegisters(c)
  PROVE  /\ \A i \in 1..n : /\ Len(Register(c.address + i - 1)) = 2
                            /\ Register(c.address + i - 1)[1] = x[2 * i - 1]
                            /\ Register(c.address + i - 1)[2] = x[2 * i]
         /\ RegistersIn(Halves)
<1>1. PICK a \in Nat : a = c.address
  BY DEF WritesRegisters
<1>2. n \in Nat /\ x \in Seq(Halves) /\ Len(x) = 2 * n /\ Len(x) \div 2 = n
  BY DEF WritesRegisters
<1>3. memory = [k \in {<<"register", a + i - 1>> : i \in 1..n} |->
                  SubSeq(x, 2 * (k[2] - a) + 1, 2 * (k[2] - a) + 2)]
  BY <1>1, <1>2 DEF Written, WritesRegisters
<1>4. DOMAIN memory = {<<"register", a + i - 1>> : i \in 1..n}
  BY <1>3
<1>5. ASSUME NEW i \in 1..n
      PROVE  /\ Register(a + i - 1) \in Seq(Halves) /\ Len(Register(a + i - 1)) = 2
             /\ Register(a + i - 1)[1] = x[2 * i - 1] /\ Register(a + i - 1)[2] = x[2 * i]
  <2>1. PICK k : k = <<"register", a + i - 1>>
    OBVIOUS
  <2>2. k \in DOMAIN memory /\ k[2] = a + i - 1
    BY <1>4, <2>1
  <2>3. memory[k] = SubSeq(x, 2 * (k[2] - a) + 1, 2 * (k[2] - a) + 2)
    BY <1>3, <1>4, <2>2
  <2>4. PICK m \in Nat : m = 2 * (i - 1) /\ m + 2 <= Len(x) /\ m + 1 = 2 * i - 1 /\ m + 2 = 2 * i
    BY <1>2
  <2>5. 2 * (k[2] - a) = m
    BY <1>1, <2>2, <2>4
  <2>6. memory[k] = SubSeq(x, m + 1, m + 2)
    BY <2>3, <2>5
  <2>7. Register(a + i - 1) = memory[k]
    BY <2>1, <2>2 DEF Register
  <2>8. PICK r : r = SubSeq(x, m + 1, m + 2)
    BY ONLY TRUE
  <2>9. r = Register(a + i - 1)
    BY <2>6, <2>7, <2>8
  <2>10. r \in Seq(Halves) /\ Len(r) = 2 /\ r[1] = x[m + 1] /\ r[2] = x[m + 2]
    <3>1. r \in Seq(Halves) /\ Len(r) = 2 /\ \A j \in 1..2 : r[j] = x[m + j]
      BY <1>2, <2>4, <2>8, Piece
    <3>2. 1 \in 1..2 /\ 2 \in 1..2
      OBVIOUS
    <3>3. QED
      BY <3>1, <3>2
  <2>11. QED
    BY <2>4, <2>9, <2>10
<1>6. ASSUME NEW b \in Nat
      PROVE  Register(b) \in Seq(Halves) /\ Len(Register(b)) = 2
  <2>1. CASE <<"register", b>> \in DOMAIN memory
    <3>1. PICK i \in 1..n : <<"register", b>> = <<"register", a + i - 1>>
      BY <1>4, <2>1
    <3>2. b = a + i - 1
      BY <3>1
    <3>3. QED
      BY <1>5, <3>2
  <2>2. CASE <<"register", b>> \notin DOMAIN memory
    <3>1. Register(b) = <<<<"high", b>>, <<"low", b>>>>
      BY <2>2 DEF Register
    <3>2. <<"high", b>> \in Halves /\ <<"low", b>> \in Halves
      BY DEF Halves
    <3>3. /\ <<<<"high", b>>, <<"low", b>>>> \in Seq(Halves)
          /\ Len(<<<<"high", b>>, <<"low", b>>>>) = 2
      BY <3>2
    <3>4. QED
      BY <3>1, <3>3
  <2>3. QED
    BY <2>1, <2>2
<1>7. RegistersIn(Halves)
  BY <1>6 DEF RegistersIn
<1>8. QED
  BY <1>1, <1>5, <1>7

\* The answer to a read of them.
LEMMA WrittenBytes ==
  ASSUME NEW c, NEW n, WritesRegisters(c, n), memory = Written(c)
  PROVE  Bytes(c.address, n) = EncodeRegisters(c)
<1>1. PICK a \in Nat : a = c.address
  BY DEF WritesRegisters
<1>2. PICK x : x = EncodeRegisters(c)
  OBVIOUS
<1>3. n \in Nat /\ x \in Seq(Halves) /\ Len(x) = 2 * n
  BY <1>2 DEF WritesRegisters
<1>4. PICK t : t = Bytes(a, n)
  OBVIOUS
<1>5. RegistersIn(Halves)
  BY <1>2, RegistersWritten
<1>6. /\ t \in Seq(Halves) /\ Len(t) = 2 * n
      /\ \A i \in 1..n : /\ t[2 * i - 1] = Register(a + i - 1)[1]
                         /\ t[2 * i] = Register(a + i - 1)[2]
  BY <1>3, <1>4, <1>5, BytesOf
<1>7. \A i \in 1..n : /\ Register(a + i - 1)[1] = x[2 * i - 1]
                      /\ Register(a + i - 1)[2] = x[2 * i]
  BY <1>1, <1>2, RegistersWritten
<1>8. \A i \in 1..n : t[2 * i - 1] = x[2 * i - 1] /\ t[2 * i] = x[2 * i]
  BY <1>6, <1>7
<1>9. \A j \in 1..2 * n : \E i \in 1..n : j = 2 * i - 1 \/ j = 2 * i
  BY <1>3, Halved
<1>10. \A j \in 1..2 * n : t[j] = x[j]
  BY <1>8, <1>9
<1>11. t = x
  BY <1>3, <1>6, <1>10, SeqEqual
<1>12. QED
  BY <1>1, <1>2, <1>4, <1>11

\* A register point that mirrors a command reads the command's bytes, in their first order.
LEMMA MirroredRegisters ==
  ASSUME NEW c, c.address \in Nat, c.address < 65536, CanEncode(c), memory = Written(c),
         NEW p, p.quantity \in Int, Mirrors(p, c), p.fc \notin Discrete
  PROVE  ReadParam(p) = Target(c)
<1>1. /\ Serves(p.fc, p.address, Quantity(p)) /\ p.address = c.address /\ p.endian = c.endian
      /\ p.quantity <= 0 /\ p.type = c.type /\ p.explicit = c.explicit /\ c.fc \notin {5, 15}
  BY DEF Mirrors
<1>2. /\ c.type \in Narrow \cup Double \cup Quad
      /\ c.type \in Narrow \/ c.explicit \/ c.type \notin {"float32", "float64"}
  BY <1>1 DEF CanEncode
<1>3. PICK n : n = IF c.type \in Narrow THEN 1 ELSE IF c.type \in Double THEN 2 ELSE 4
  OBVIOUS
<1>4. WritesRegisters(c, n)
  BY <1>1, <1>3, TargetBytes
<1>5. Quantity(p) = n
  BY <1>1, <1>2, <1>3 DEF Quantity, Narrow, Double, Quad
<1>6. Word(p.address) = c.address
  BY <1>1, WordOf
<1>7. PICK x : x = EncodeRegisters(c)
  OBVIOUS
<1>8. Bytes(c.address, n) = x
  BY <1>4, <1>7, WrittenBytes
<1>9. ReadParam(p) = DecodeRegister(p, x)
  BY <1>1, <1>5, <1>6, <1>8 DEF ReadParam
<1>10. PICK t : t = Target(c)
  OBVIOUS
<1>11. /\ n \in {1, 2, 4} /\ t \in Seq(Halves) /\ Len(t) = 2 * n
       /\ ApplyEndian(x, p.endian) = t
  BY <1>1, <1>4, <1>7, <1>10 DEF WritesRegisters
<1>12. SubSeq(t, 1, 2 * n) = t
  <2>1. PICK m \in Nat : m = 2 * n /\ m = Len(t)
    BY <1>11
  <2>2. PICK k \in Nat : k = 0
    OBVIOUS
  <2>3. PICK u : u = SubSeq(t, k + 1, k + m)
    BY ONLY TRUE
  <2>4. u \in Seq(Halves) /\ Len(u) = m /\ \A j \in 1..m : u[j] = t[k + j]
    BY <1>11, <2>1, <2>2, <2>3, Piece
  <2>5. \A j \in 1..m : u[j] = t[j]
    BY <2>2, <2>4
  <2>6. u = t
    BY <1>11, <2>1, <2>4, <2>5, SeqEqual
  <2>7. k + 1 = 1 /\ k + m = 2 * n
    BY <2>1, <2>2
  <2>8. QED
    BY <2>3, <2>6, <2>7
<1>13. n = 4 => Padded(t) = t
  <2> SUFFICES ASSUME n = 4
               PROVE  Padded(t) = t
    OBVIOUS
  <2>1. Len(t) = 8 /\ t = [i \in 1..8 |-> t[i]]
    BY <1>11
  <2>2. Padded(t) = [i \in 1..8 |-> t[i]]
    BY <2>1 DEF Padded
  <2>3. QED
    BY <2>1, <2>2
<1>14. ~ (~ p.explicit /\ p.type \in {"float32", "float64"})
  BY <1>1, <1>2 DEF Narrow
<1>15. CASE c.type \in Narrow
  <2>1. n = 1 /\ ~ FourBytes(p) /\ p.type \notin Quad
    BY <1>1, <1>3, <1>15 DEF FourBytes, Narrow, Double, Quad
  <2>2. DecodeRegister(p, x) = SubSeq(t, 1, 2)
    BY <1>11, <1>14, <2>1 DEF DecodeRegister
  <2>3. QED
    BY <1>9, <1>10, <1>12, <2>1, <2>2
<1>16. CASE c.type \in Double
  <2>1. n = 2 /\ FourBytes(p)
    BY <1>1, <1>2, <1>3, <1>16 DEF FourBytes, Narrow, Double
  <2>2. DecodeRegister(p, x) = SubSeq(t, 1, 4)
    <3>1. p.type \notin Quad
      BY <1>1, <1>16 DEF Double, Quad
    <3>2. QED
      BY <1>11, <1>14, <2>1, <3>1 DEF DecodeRegister
  <2>3. QED
    BY <1>9, <1>10, <1>12, <2>1, <2>2
<1>17. CASE c.type \in Quad
  <2>1. n = 4 /\ ~ FourBytes(p) /\ p.type \in Quad
    BY <1>1, <1>3, <1>17 DEF FourBytes, Narrow, Double, Quad
  <2>2. DecodeRegister(p, x) = Padded(t)
    BY <1>11, <1>14, <2>1 DEF DecodeRegister
  <2>3. QED
    BY <1>9, <1>10, <1>13, <2>1, <2>2
<1>18. QED
  BY <1>2, <1>15, <1>16, <1>17

\* A coil that mirrors a command of one coil reads what that has set.
LEMMA MirroredCoil ==
  ASSUME NEW c, c.address \in Nat, c.address < 65536, c.coils = 1, c.fc = 5, memory = Written(c),
         NEW p, p.quantity \in Int, p.bit \in Int, Mirrors(p, c), p.fc \in Discrete
  PROVE  <<ReadParam(p)>> = Target(c)
<1>1. /\ Serves(p.fc, p.address, Quantity(p)) /\ p.address = c.address /\ p.quantity <= 0
      /\ p.bit <= 0
  BY DEF Mirrors
<1>2. Target(c) = <<<<"new", 1>>>>
  <2>1. Target(c) = [i \in 1..1 |-> <<"new", i>>]
    BY DEF Target
  <2>2. QED
    BY <2>1
<1>3. PICK a \in Nat : a = c.address
  OBVIOUS
<1>4. Coil(a) = <<"new", 1>>
  <2>1. PICK k : k = <<"coil", a>>
    BY ONLY TRUE
  <2>2. {<<"coil", a + i - 1>> : i \in 1..1} = {k}
    <3>1. 1..1 = {1} /\ a + 1 - 1 = a
      OBVIOUS
    <3>2. QED
      BY <2>1, <3>1
  <2>3. memory = [l \in {k} |-> Target(c)[l[2] - a + 1]]
    BY <1>3, <2>2 DEF Written
  <2>4. k \in DOMAIN memory /\ memory[k] = Target(c)[k[2] - a + 1]
    BY <2>3
  <2>5. k[2] - a + 1 = 1
    BY <2>1
  <2>6. QED
    BY <1>2, <2>1, <2>4, <2>5 DEF Coil
<1>5. PICK q : q = Quantity(p)
  OBVIOUS
<1>6. q \in {1, 2, 4}
  BY <1>1, <1>5 DEF Quantity
<1>7. PICK bits : bits = Bits(a, q)
  OBVIOUS
<1>8. Len(bits) = 8 /\ bits[1] = Coil(a)
  <2>1. 8 * ((q + 7) \div 8) = 8
    BY <1>6
  <2>2. bits = [i \in 1..8 |-> IF i <= q THEN Coil(a + i - 1) ELSE <<"unused", 0>>]
    BY <1>7, <2>1 DEF Bits
  <2>3. Len(bits) = 8
    BY <2>2
  <2>4. 1 \in 1..8 /\ 1 <= q /\ a + 1 - 1 = a
    BY <1>6
  <2>5. bits[1] = Coil(a + 1 - 1)
    BY <2>2, <2>4
  <2>6. QED
    BY <2>3, <2>4, <2>5
<1>9. Word(p.address) = a
  BY <1>1, <1>3, WordOf
<1>10. (IF p.bit < 0 THEN 0 ELSE p.bit) = 0
  BY <1>1
<1>11. ReadParam(p) = bits[0 + 1]
  BY <1>1, <1>3, <1>5, <1>7, <1>8, <1>9, <1>10 DEF ReadParam
<1>12. QED
  BY <1>2, <1>4, <1>8, <1>11

\* The command a device was written by.
WrittenInv ==
  /\ device \in Devices
  /\ phase = "written" => command \in Commands /\ CanEncode(command) /\ memory = Written(command)

LEMMA WrittenInvHolds == PointsSpec => []WrittenInv
<1>1. PointsInit => WrittenInv
  BY DEF PointsInit, WrittenInv
<1>2. WrittenInv /\ [PointsNext]_pointsVars => WrittenInv'
  <2> SUFFICES ASSUME WrittenInv, [PointsNext]_pointsVars
               PROVE  WrittenInv'
    OBVIOUS
  <2>1. CASE PlanPoint
    BY <2>1 DEF PlanPoint, WrittenInv
  <2>2. CASE NextGroup
    BY <2>2 DEF NextGroup, WrittenInv
  <2>3. CASE CollectBatch
    BY <2>3 DEF CollectBatch, WrittenInv
  <2>4. CASE WriteCommand
    BY <2>4 DEF WriteCommand, WrittenInv
  <2>5. CASE UNCHANGED pointsVars
    BY <2>5 DEF pointsVars, WrittenInv, Written, CanEncode
  <2>6. QED
    BY <2>1, <2>2, <2>3, <2>4, <2>5 DEF PointsNext
<1>3. QED
  BY <1>1, <1>2, PTL DEF PointsSpec

\* A command of any type, byte order and address that EncodeCommand accepts is read back as it
\* was written by the point that mirrors it, and verified by it exactly where the comparison can
\* succeed: not if it is a list of coils, nor if its type is inherited under one of the newer names.
THEOREM WritesReadBackHolds == PointsSpec => []WritesReadBack
<1>1. WrittenInv => WritesReadBack
  <2> SUFFICES ASSUME WrittenInv, phase = "written", NEW p \in device, Mirrors(p, command)
               PROVE  /\ command.fc # 15 => ReadsBack(p, command)
                      /\ Verifies(p, command) <=> Comparable(command)
    BY DEF WritesReadBack
  <2>1. PICK c \in Commands : c = command
    BY DEF WrittenInv
  <2>2. memory = Written(c) /\ CanEncode(c) /\ Mirrors(p, c)
    BY <2>1 DEF WrittenInv
  <2>3. c.address \in Nat /\ c.address < 65536 /\ (c.fc = 5 => c.coils = 1)
    BY <2>1, PointAssumption DEF PointAssumption
  <2>4. p.quantity \in Int /\ p.bit \in Int
    <3>1. p \in UNION Devices
      BY DEF WrittenInv
    <3>2. QED
      BY <3>1, PointAssumption DEF PointAssumption
  <2>5. c.fc # 15 => ReadsBack(p, c)
    <3>1. CASE p.fc \notin Discrete
      <4>1. ReadParam(p) = Target(c)
        BY <2>2, <2>3, <2>4, <3>1, MirroredRegisters
      <4>2. QED
        BY <3>1, <4>1 DEF ReadsBack
    <3>2. CASE p.fc \in Discrete /\ c.fc = 5
      <4>1. <<ReadParam(p)>> = Target(c)
        BY <2>2, <2>3, <2>4, <3>2, MirroredCoil
      <4>2. QED
        BY <3>2, <4>1 DEF ReadsBack
    <3>3. CASE p.fc \in Discrete /\ c.fc # 5
      BY <2>2, <3>3 DEF Mirrors
    <3>4. QED
      BY <3>1, <3>2, <3>3
  <2>6. Comparable(c) => c.fc # 15
    BY DEF Comparable
  <2>7. QED
    BY <2>1, <2>5, <2>6 DEF Verifies
<1>2. QED
  BY <1>1, WrittenInvHolds, PTL

=============================================================================
