----------------------------- MODULE FailureLog -----------------------------
(***************************************************************************)
(* The aggregated failure log of the Judge source publisher.  Callers that *)
(* must never wait for the log sink only count: record() a failure, or     *)
(* success() of a stage, under a short mutex.  One logging goroutine wakes *)
(* up on a one-place channel or a one second ticker, turns the counters    *)
(* into first_failure, failure_summary and recovered lines, and writes     *)
(* them after unlocking.                                                   *)
(*                                                                         *)
(* Source: src/internal/collector/judge_source_failure_log.go, called from *)
(* judge_source_publisher.go after its own mutex is released: a caller's   *)
(* outcome is decided in one step and reported in a later one.             *)
(***************************************************************************)
EXTENDS Integers, Sequences, FiniteSets, SequencesExt

CONSTANTS
  Callers,      \* goroutines that enqueue or publish
  Stages,       \* the kinds of operation: enqueue, publish
  Reasons,      \* failure reasons
  StageOf,      \* the stage whose success confirms a reason's recovery
  MaxFailures,  \* bound of the model: failures recorded per reason
  Nothing

ASSUME FailureLogAssumption ==
  /\ IsFiniteSet(Reasons)   \* an array of constants
  /\ StageOf \in [Reasons -> Stages]
  /\ Nothing \notin Reasons \cup Stages
  /\ MaxFailures \in Nat

VARIABLES
  counts,          \* failures not yet in any line
  total,           \* failures ever recorded
  recoveredTotal,  \* the total when a success was last confirmed
  reported,        \* a failure line is out and no recovery line followed
  due,             \* 30 seconds have passed since lastReport
  wake,            \* the channel of capacity one holds a signal
  outcome,         \* what a caller has yet to report: a reason, a stage or Nothing
  at,              \* the logging goroutine: "wait", "flush", "write" or "exited"
  outbox,          \* lines collected by flushAt and not yet written
  cancelled,       \* ctx is done
  written,         \* the lines written so far, folded: see Written
  confirmed        \* history: a success of the stage was reported after the last failure

vars == <<counts, total, recoveredTotal, reported, due, wake, outcome, at, outbox,
          cancelled, written, confirmed>>
counters == <<counts, total, recoveredTotal, reported, due>>

\* A line of the log; only a recovery may count no failure.
Line == {l \in [reason : Reasons, event : {"first_failure", "recovered", "failure_summary"},
         count : 0..MaxFailures, total : 1..MaxFailures] :
           l.event # "recovered" => l.count > 0}

\* What a reader of the log knows of a reason: the sum of the failure_count fields
\* and whether a failure line is out that no recovery line closed.
Written == [sum : 0..MaxFailures, open : BOOLEAN]

Init ==
  /\ counts = [r \in Reasons |-> 0]
  /\ total = [r \in Reasons |-> 0]
  /\ recoveredTotal = [r \in Reasons |-> 0]
  /\ reported = [r \in Reasons |-> FALSE]
  /\ due = [r \in Reasons |-> FALSE]
  /\ wake = TRUE   \* run() signals itself before its first select
  /\ outcome = [c \in Callers |-> Nothing]
  /\ at = "wait"
  /\ outbox = <<>>
  /\ cancelled = FALSE
  /\ written = [r \in Reasons |-> [sum |-> 0, open |-> FALSE]]
  /\ confirmed = [r \in Reasons |-> FALSE]

-----------------------------------------------------------------------------
(* The callers. *)

\* An operation of the publisher ended: with one failure reason, or as a success of
\* its stage.
Operate(c) ==
  /\ outcome[c] = Nothing
  /\ \E o \in Reasons \cup Stages :
       /\ o \in Reasons =>
            total[o] + Cardinality({x \in Callers : outcome[x] = o}) < MaxFailures
       /\ outcome' = [outcome EXCEPT ![c] = o]
  /\ UNCHANGED <<counters, wake, at, outbox, cancelled, written, confirmed>>

Record(c) ==
  LET r == outcome[c] IN
  /\ r \in Reasons
  /\ counts' = [counts EXCEPT ![r] = @ + 1]
  /\ total' = [total EXCEPT ![r] = @ + 1]
  /\ wake' = (wake \/ ~reported[r])
  /\ confirmed' = [confirmed EXCEPT ![r] = FALSE]
  /\ outcome' = [outcome EXCEPT ![c] = Nothing]
  /\ UNCHANGED <<recoveredTotal, reported, due, at, outbox, cancelled, written>>

\* Mutant: any success confirms every reason.
ConfirmsAll(s) == {r \in Reasons : total[r] > recoveredTotal[r]}

Confirms(s) == {r \in Reasons : StageOf[r] = s /\ total[r] > recoveredTotal[r]}

Success(c) ==
  LET s == outcome[c] IN
  /\ s \in Stages
  /\ recoveredTotal' = [r \in Reasons |-> IF r \in Confirms(s) THEN total[r]
                                                               ELSE recoveredTotal[r]]
  /\ wake' = (wake \/ Confirms(s) # {})
  /\ confirmed' = [r \in Reasons |-> confirmed[r] \/ StageOf[r] = s]
  /\ outcome' = [outcome EXCEPT ![c] = Nothing]
  /\ UNCHANGED <<counts, total, reported, due, at, outbox, cancelled, written>>

-----------------------------------------------------------------------------
(* The logging goroutine. *)

\* Either case of the select but ctx.Done(): the wake signal, or a tick.
Wake ==
  /\ at = "wait" /\ wake
  /\ wake' = FALSE
  /\ at' = "flush"
  /\ UNCHANGED <<counters, outcome, outbox, cancelled, written, confirmed>>

Tick ==
  /\ at = "wait"
  /\ at' = "flush"
  /\ UNCHANGED <<counters, wake, outcome, outbox, cancelled, written, confirmed>>

\* The thirty seconds of judgeSourceFailureSummaryInterval pass.
Elapse(r) ==
  /\ reported[r] /\ ~due[r]
  /\ due' = [due EXCEPT ![r] = TRUE]
  /\ UNCHANGED <<counts, total, recoveredTotal, reported, wake, outcome, at, outbox,
                 cancelled, written, confirmed>>

\* Mutant: a line for a reason that has not failed.
StartsReportAnyway(r) == ~reported[r]

StartsReport(r) == ~reported[r] /\ counts[r] > 0

\* Mutants: a recovery line without a failure line; a recovery noticed only with
\* the next failure.
EndsReportAlways(r) == total[r] > 0 /\ recoveredTotal[r] = total[r]
EndsReportLate(r) == reported[r] /\ recoveredTotal[r] = total[r] /\ counts[r] > 0

EndsReport(r) == (reported[r] \/ StartsReport(r)) /\ recoveredTotal[r] = total[r]

\* Mutant: only the first failure of an outage is ever reported.
NeverSummarises(r) == FALSE

Summarises(r) == reported[r] /\ ~EndsReport(r) /\ due[r] /\ counts[r] > 0

LineOf(r, event, n) == [reason |-> r, event |-> event, count |-> n, total |-> total[r]]

\* Mutant: the recovery line repeats the count of the first failure line.
LinesRepeating(r) ==
  (IF StartsReport(r) THEN <<LineOf(r, "first_failure", counts[r])>> ELSE <<>>)
  \o (IF EndsReport(r) THEN <<LineOf(r, "recovered", counts[r])>> ELSE <<>>)

\* At most a first failure and its already confirmed recovery per reason; the
\* first line takes the whole count (Swap(0)).
Lines(r) ==
  (IF StartsReport(r) THEN <<LineOf(r, "first_failure", counts[r])>> ELSE <<>>)
  \o (IF EndsReport(r)
      THEN <<LineOf(r, "recovered", IF StartsReport(r) THEN 0 ELSE counts[r])>>
      ELSE <<>>)
  \o (IF Summarises(r) THEN <<LineOf(r, "failure_summary", counts[r])>> ELSE <<>>)

\* judgeSourceFailureReasons is an array: flushAt visits it in order.
ReasonOrder == SetToSeq(Reasons)

\* flushAt up to its unlock; the ctx.Err() check before it comes first.
Flush ==
  /\ at = "flush" /\ ~cancelled
  /\ outbox' = FlattenSeq([i \in DOMAIN ReasonOrder |-> Lines(ReasonOrder[i])])
  /\ counts' = [r \in Reasons |-> IF Lines(r) # <<>> THEN 0 ELSE counts[r]]
  /\ reported' = [r \in Reasons |-> (reported[r] \/ StartsReport(r)) /\ ~EndsReport(r)]
  /\ due' = [r \in Reasons |-> due[r] /\ ~StartsReport(r) /\ ~EndsReport(r) /\ ~Summarises(r)]
  /\ at' = "write"
  /\ UNCHANGED <<total, recoveredTotal, wake, outcome, cancelled, written, confirmed>>

\* One call of the sink, which may take as long as it likes.
Write ==
  /\ at = "write" /\ outbox # <<>>
  /\ LET line == Head(outbox) IN
       written' = [written EXCEPT ![line.reason] =
                     [sum |-> @.sum + line.count, open |-> line.event # "recovered"]]
  /\ outbox' = Tail(outbox)
  /\ UNCHANGED <<counters, wake, outcome, at, cancelled, confirmed>>

Drained ==
  /\ at = "write" /\ outbox = <<>>
  /\ at' = "wait"
  /\ UNCHANGED <<counters, wake, outcome, outbox, cancelled, written, confirmed>>

Exit ==
  /\ cancelled
  /\ at \in {"wait", "flush"}
  /\ at' = "exited"
  /\ UNCHANGED <<counters, wake, outcome, outbox, cancelled, written, confirmed>>

Cancel ==
  /\ ~cancelled
  /\ cancelled' = TRUE
  /\ UNCHANGED <<counters, wake, outcome, at, outbox, written, confirmed>>

LogStep == Wake \/ Tick \/ Flush \/ Write \/ Drained \/ Exit

Next ==
  \/ \E c \in Callers : Operate(c) \/ Record(c) \/ Success(c)
  \/ \E r \in Reasons : Elapse(r)
  \/ LogStep
  \/ Cancel

Spec == Init /\ [][Next]_vars

\* The ticker always ticks again, time passes, and the sink returns from a call.
\* Callers report what they did, and nobody has to operate or cancel.
FairSpec ==
  /\ Spec
  /\ WF_vars(LogStep)
  /\ \A r \in Reasons : WF_vars(Elapse(r))
  /\ \A c \in Callers : WF_vars(Record(c) \/ Success(c))

-----------------------------------------------------------------------------
(* Properties. *)

TypeOK ==
  /\ counts \in [Reasons -> 0..MaxFailures] /\ total \in [Reasons -> 0..MaxFailures]
  /\ \A r \in Reasons : recoveredTotal[r] \in 0..total[r]
  /\ reported \in [Reasons -> BOOLEAN] /\ due \in [Reasons -> BOOLEAN]
  /\ wake \in BOOLEAN /\ cancelled \in BOOLEAN
  /\ outcome \in [Callers -> Reasons \cup Stages \cup {Nothing}]
  /\ at \in {"wait", "flush", "write", "exited"}
  /\ Range(outbox) \subseteq Line
  /\ written \in [Reasons -> Written] /\ confirmed \in [Reasons -> BOOLEAN]

\* The failure_count fields up to the n-th unwritten line, of reason r.
SumUpTo(r, n) ==
  written[r].sum + FoldLeft(LAMBDA sum, l : IF l.reason = r THEN sum + l.count ELSE sum,
                            0, SubSeq(outbox, 1, n))

\* No failure is lost or counted twice on its way to the log, and every line's
\* total_failure_count is the sum of the failure_count fields so far
\* (judge_source_failure_log.go:145-163 moves counts with Swap(0)).
CountsAddUp ==
  /\ \A r \in Reasons : total[r] = counts[r] + SumUpTo(r, Len(outbox))
  /\ \A i \in DOMAIN outbox : outbox[i].total = SumUpTo(outbox[i].reason, i)

\* Whether reason r is open for a reader of the first n unwritten lines.
OpenAfter(r, n) ==
  FoldLeft(LAMBDA open, l : IF l.reason = r THEN l.event # "recovered" ELSE open,
           written[r].open, SubSeq(outbox, 1, n))

\* A reader sees outages: each begins with one first_failure, summaries and the
\* recovery come only inside one, and reported says how the log ends.
LogAlternates ==
  /\ \A i \in DOMAIN outbox :
       OpenAfter(outbox[i].reason, i - 1) = (outbox[i].event # "first_failure")
  /\ \A r \in Reasons : reported[r] = OpenAfter(r, Len(outbox))

\* A recovery line is collected only if an operation of the reason's own stage
\* succeeded after its last failure, in the order of the log's mutex: a quiet
\* interval or a success of another stage recovers nothing (the comment at
\* judge_source_failure_log.go:77-80).
RecoveryConfirmed ==
  [][\A i \in DOMAIN outbox' :
       /\ at = "flush" /\ outbox'[i].event = "recovered"
       => confirmed[outbox'[i].reason]]_vars

\* Every failure is logged at last, however often the outage goes on failing.
FailureReported == \A r \in Reasons : counts[r] > 0 ~> counts[r] = 0 \/ cancelled

\* An outage that is over for good is closed in the log.
RecoveryReported ==
  \A r \in Reasons :
    written[r].open /\ recoveredTotal[r] = total[r]
      ~> ~written[r].open \/ recoveredTotal[r] # total[r] \/ cancelled
=============================================================================
