--------------------------- MODULE BacnetExchange ---------------------------
(***************************************************************************)
(* The requests that device workers and control commands exchange with one *)
(* BACnet/IP endpoint over one UDP socket.                                 *)
(*                                                                         *)
(* Source: src/internal/conn/bacnet_manager.go, collector/bacnet.go, the   *)
(* dispatchBacnet of control/control.go and control/verification.go.  A    *)
(* mutex lets one exchange at a time use the socket; datagrams are lost,   *)
(* duplicated, delayed and reordered; an answer is recognised by its kind  *)
(* and by an invoke ID that comes round, never by the object it names.     *)
(*                                                                         *)
(* Time is counted in invoke IDs: the age of a datagram is the number of   *)
(* IDs drawn since its own, which the code does not see.  A datagram of an *)
(* age above MaxAge does not arrive any more (on the wire or in the        *)
(* socket's buffer); MaxAge < MaxId says that IDs come round more slowly   *)
(* than datagrams disappear, MaxId being 255 in the code.  Values are      *)
(* compared exactly.                                                       *)
(***************************************************************************)
EXTENDS Integers, Sequences

CONSTANTS
  Workers,    \* BACnet device workers of the endpoint
  Reads,      \* for each worker the enabled points it reads, in order
  Control,    \* the goroutine of the commands
  Nobody,
  Points,
  Known,      \* the points whose object type has a number
  Values,
  Foreign,    \* the values that the point's data type rejects
  Commands,   \* [mapped, encodes, point, readable, readPoint, target]
  MaxId, MaxAge

Users == Workers \cup {Control}

ASSUME BacnetAssumption ==
  /\ Control \notin Workers /\ Nobody \notin Users
  /\ \A w \in Workers : Reads[w] \in Seq(Points)
  /\ Known \subseteq Points /\ Foreign \subseteq Values
  /\ \A c \in Commands : {c.point, c.readPoint} \subseteq Points /\ c.target \in Values
  /\ MaxId \in Nat /\ MaxAge \in Nat /\ MaxAge < MaxId

VARIABLES
  open,      \* whether the endpoint's holder, with its socket, exists
  invokeID, mutex,  \* of the holder
  call,      \* of each user: the ReadPresentValue or WritePresentValue in progress
  expired,   \* of each user: its context is past its deadline
  at, next, cancelled,  \* of each worker: place, index into Reads, ctx
  job,       \* the command's key in progress
  report,    \* what the last key came to
  recorded,  \* of each worker: the last value it recorded, and from which answer
  requests, answers     \* datagrams under way

workers == <<at, next, cancelled>>
vars == <<open, invokeID, mutex, call, expired, workers, job, report, recorded,
          requests, answers>>

NoCall == [at |-> "none"]
NoJob == [at |-> "idle"]
NoReport == [status |-> "none"]
NoAnswer == [pdu |-> "none"]
NoRecord == [point |-> "none"]

Init ==
  /\ open = FALSE
  /\ invokeID = 0
  /\ mutex = Nobody
  /\ call = [u \in Users |-> NoCall]
  /\ expired = [u \in Users |-> FALSE]
  /\ at = [w \in Workers |-> "idle"]
  /\ next = [w \in Workers |-> 1]
  /\ cancelled = [w \in Workers |-> FALSE]
  /\ job = NoJob
  /\ report = NoReport
  /\ recorded = [w \in Workers |-> NoRecord]
  /\ requests = {}
  /\ answers = {}

-----------------------------------------------------------------------------
(* What a returning call means to its caller. *)

\* What the properties say of an answer: all but its ID.
Origin(answer) ==
  [pdu |-> answer.pdu, point |-> answer.point, value |-> answer.value, age |-> answer.age]

\* collectOnce: an error or an unfit value is logged, and the next point follows.
Collected(w, ok, answer) ==
  /\ next' = [next EXCEPT ![w] = @ + 1]
  /\ recorded' = [recorded EXCEPT ![w] =
       IF ok /\ answer.value \notin Foreign
         THEN [point |-> Reads[w][next[w]], from |-> Origin(answer)] ELSE @]
  /\ UNCHANGED <<job, report>>

\* The key's result, kept until the next key.
Settle(status, evidence) ==
  /\ job' = NoJob
  /\ report' = [status |-> status, command |-> job.command, evidence |-> evidence]

\* verifyControlReadback after a read that confirms nothing: give up once ctx is over.
Retry(over) ==
  IF over THEN Settle("failed", {})
  ELSE job' = [job EXCEPT !.at = "pause"] /\ UNCHANGED report

Answered(ok, answer, over) ==
  /\ \/ job.at = "write" /\ ~ ok /\ Settle("failed", {})
     \/ /\ job.at = "write" /\ ok
        /\ IF job.command.readable
             THEN /\ job' = [job EXCEPT !.at = "verify", !.evidence = {Origin(answer)}]
                  /\ UNCHANGED report
             ELSE Settle("unverified", {Origin(answer)})
     \/ /\ job.at = "verify"
        /\ IF ok /\ answer.value = job.command.target
             THEN Settle("verified", job.evidence \cup {Origin(answer)})
             ELSE Retry(over)
  /\ UNCHANGED <<next, recorded>>

Return(u, ok, answer) ==
  /\ call' = [call EXCEPT ![u] = NoCall]
  /\ IF u = Control THEN Answered(ok, answer, expired[u]) ELSE Collected(u, ok, answer)

Unlock == mutex' = Nobody

-----------------------------------------------------------------------------
(* ReadPresentValue and WritePresentValue. *)

\* Creating the holder resolves the address and binds a socket; it is never given up.
EnsureConn(u, kind, point, value) ==
  \/ /\ open' = TRUE
     /\ call' = [call EXCEPT ![u] =
                   [at |-> "lock", kind |-> kind, point |-> point, value |-> value]]
     /\ UNCHANGED <<next, job, report, recorded>>
  \/ /\ ~ open /\ UNCHANGED open
     /\ Return(u, FALSE, NoAnswer)

NextInvokeID == IF invokeID = MaxId THEN 1 ELSE invokeID + 1

Aged(datagrams) == {[d EXCEPT !.age = @ + 1] : d \in {e \in datagrams : e.age < MaxAge}}

\* Mutant: a call that fails before its exchange keeps the mutex.
KeepsLock(u) == mutex' = u

GiveUp(u) == Unlock

\* The ID is drawn first: a request that cannot be built, or is too late, has used it up.
Begin(u) ==
  /\ call[u].at = "lock"
  /\ mutex = Nobody
  /\ invokeID' = NextInvokeID
  /\ answers' = Aged(answers)
  /\ IF call[u].point \in Known /\ ~ expired[u]
       THEN \/ /\ mutex' = u
               /\ requests' = Aged(requests) \cup
                    {[kind |-> call[u].kind, point |-> call[u].point,
                      value |-> call[u].value, id |-> NextInvokeID, age |-> 0]}
               /\ call' = [call EXCEPT ![u].at = "receive"]
               /\ UNCHANGED <<next, job, report, recorded>>
            \/ /\ GiveUp(u)                   \* the datagram is refused by the socket
               /\ requests' = Aged(requests)
               /\ Return(u, FALSE, NoAnswer)
       ELSE /\ GiveUp(u)
            /\ requests' = Aged(requests)
            /\ Return(u, FALSE, NoAnswer)
  /\ UNCHANGED <<open, expired, at, cancelled>>

Expects(kind) == IF kind = "read" THEN "complex" ELSE "simple"

\* Mutant: the ID is not compared.
AnyId(u, answer) == FALSE

\* parseReadPresentValueResponse and parseWritePresentValueResponse: passed over ...
Skipped(u, answer) == answer.pdu = Expects(call[u].kind) /\ answer.id # invokeID

\* ... or the end of the exchange, for better or worse.
Accepted(u, answer) == answer.pdu = Expects(call[u].kind)

Receive(u) ==
  /\ call[u].at = "receive" /\ ~ expired[u]
  /\ \E a \in answers :
       /\ ~ Skipped(u, a)
       /\ Unlock
       /\ Return(u, Accepted(u, a), a)
  /\ UNCHANGED <<open, invokeID, expired, at, cancelled, requests, answers>>

\* The deadline, an error on the socket, or a datagram that is no acknowledgement.
ReceiveFails(u) ==
  /\ call[u].at = "receive"
  /\ Unlock
  /\ Return(u, FALSE, NoAnswer)
  /\ UNCHANGED <<open, invokeID, expired, at, cancelled, requests, answers>>

Expire(u) ==
  /\ IF u = Control THEN job.at # "idle" ELSE call[u].at # "none"
  /\ ~ expired[u]
  /\ expired' = [expired EXCEPT ![u] = TRUE]
  /\ UNCHANGED <<open, invokeID, mutex, call, workers, job, report, recorded,
                 requests, answers>>

-----------------------------------------------------------------------------
(* The workers. *)

Goto(w, place) == at' = [at EXCEPT ![w] = place]

Tick(w) ==
  /\ at[w] = "idle"
  /\ Goto(w, "collect")
  /\ next' = [next EXCEPT ![w] = 1]
  /\ UNCHANGED <<open, invokeID, mutex, call, expired, cancelled, job, report, recorded,
                 requests, answers>>

\* The next point with a context of its own, or the end of collectOnce.
Collect(w) ==
  /\ at[w] = "collect" /\ call[w].at = "none"
  /\ expired' = [expired EXCEPT ![w] = FALSE]
  /\ IF next[w] > Len(Reads[w])
       THEN Goto(w, "idle") /\ UNCHANGED <<open, call, next, job, report, recorded>>
       ELSE EnsureConn(w, "read", Reads[w][next[w]], "none") /\ UNCHANGED at
  /\ UNCHANGED <<invokeID, mutex, cancelled, requests, answers>>

\* A reload stops the worker; neither collectOnce nor a read looks at the cancellation.
Cancel(w) ==
  /\ at[w] # "gone" /\ ~ cancelled[w]
  /\ cancelled' = [cancelled EXCEPT ![w] = TRUE]
  /\ UNCHANGED <<open, invokeID, mutex, call, expired, at, next, job, report, recorded,
                 requests, answers>>

Leave(w) ==
  /\ at[w] = "idle" /\ cancelled[w]
  /\ Goto(w, "gone")
  /\ UNCHANGED <<open, invokeID, mutex, call, expired, next, cancelled, job, report, recorded,
                 requests, answers>>

StartWorker(w) ==
  /\ at[w] = "gone"
  /\ Goto(w, "idle")
  /\ cancelled' = [cancelled EXCEPT ![w] = FALSE]
  /\ UNCHANGED <<open, invokeID, mutex, call, expired, next, job, report, recorded,
                 requests, answers>>

-----------------------------------------------------------------------------
(* dispatchBacnet, one key after the other. *)

TakeKey ==
  /\ job.at = "idle"
  /\ \E c \in Commands :
       IF c.mapped /\ c.encodes
         THEN /\ job' = [at |-> "write", command |-> c, evidence |-> {}]
              /\ expired' = [expired EXCEPT ![Control] = FALSE]
              /\ report' = NoReport
         ELSE /\ report' = [status |-> "failed", command |-> c, evidence |-> {}]
              /\ UNCHANGED <<job, expired>>
  /\ UNCHANGED <<open, invokeID, mutex, call, workers, recorded, requests, answers>>

Command ==
  /\ job.at \in {"write", "verify"} /\ call[Control].at = "none"
  /\ \/ job.at = "write"  /\ EnsureConn(Control, "write", job.command.point, job.command.target)
     \/ job.at = "verify" /\ EnsureConn(Control, "read", job.command.readPoint, "none")
  /\ UNCHANGED <<invokeID, mutex, expired, at, cancelled, requests, answers>>

\* The select between ctx.Done and the 100 ms timer; with ctx done the timer has lost.
RetryWait ==
  /\ job.at = "pause"
  /\ IF expired[Control] THEN Settle("failed", {})
     ELSE job' = [job EXCEPT !.at = "verify"] /\ UNCHANGED report
  /\ UNCHANGED <<open, invokeID, mutex, call, expired, workers, recorded, requests, answers>>

-----------------------------------------------------------------------------
(* The device and the network; external.  A datagram may be acted upon at   *)
(* any time, never or more than once, so none is ever removed.              *)

AnswerTo(request, pdu, value) ==
  [pdu |-> pdu, point |-> request.point, value |-> value, id |-> request.id, age |-> request.age]

Serve ==
  /\ \E r \in requests :
       \/ r.kind = "read" /\ \E v \in Values : answers' = answers \cup {AnswerTo(r, "complex", v)}
       \/ r.kind = "write" /\ answers' = answers \cup {AnswerTo(r, "simple", "none")}
  /\ UNCHANGED <<open, invokeID, mutex, call, expired, workers, job, report, recorded, requests>>

-----------------------------------------------------------------------------

Exchange(u) == Begin(u) \/ Receive(u) \/ ReceiveFails(u) \/ Expire(u)
Work(w) == Tick(w) \/ Collect(w) \/ Cancel(w) \/ Leave(w) \/ StartWorker(w)

Next ==
  \/ \E u \in Users : Exchange(u)
  \/ \E w \in Workers : Work(w)
  \/ TakeKey \/ Command \/ RetryWait
  \/ Serve

(* A mutex that has starved a waiter for a millisecond is handed to it, a   *)
(* select takes a ready branch at random: strong fairness.  Whatever a call *)
(* waits for is bounded by its deadline.  Nothing is assumed of the network,*)
(* of the device or of the one who stops workers.                           *)
Fairness ==
  /\ \A u \in Users :
       /\ SF_vars(Begin(u)) /\ WF_vars(Expire(u))
       /\ WF_vars(expired[u] /\ ReceiveFails(u))
  /\ \A w \in Workers : WF_vars(Collect(w)) /\ SF_vars(Leave(w))
  /\ WF_vars(Command) /\ WF_vars(RetryWait)

Spec == Init /\ [][Next]_vars /\ Fairness

-----------------------------------------------------------------------------
(* Properties. *)

Own(answer, pdu, point) == answer.pdu = pdu /\ answer.age = 0 /\ answer.point = point

(* What a worker records and what a command reports rests on answers to its *)
(* own requests, however late the answers to earlier ones arrive: a value   *)
(* is recorded for the point it was read from; an unverified write was      *)
(* acknowledged for its object; a verified one was too, and its read object *)
(* held the target when it was read.                                        *)
OwnAnswers ==
  /\ \A w \in Workers :
       recorded[w] # NoRecord => Own(recorded[w].from, "complex", recorded[w].point)
  /\ report.status \in {"unverified", "verified"} =>
       \E a \in report.evidence : Own(a, "simple", report.command.point)
  /\ report.status = "verified" =>
       \E a \in report.evidence : /\ Own(a, "complex", report.command.readPoint)
                                  /\ a.value = report.command.target

(* Users wait for the socket in turn, each for a bounded time: every call   *)
(* returns although errors leave the exchange at many places, every command *)
(* is reported, and a cancelled worker ends.                                *)
CallsReturn ==
  /\ \A u \in Users : call[u].at # "none" ~> call[u].at = "none"
  /\ job.at # "idle" ~> job.at = "idle"
  /\ \A w \in Workers : cancelled[w] ~> at[w] = "gone"

=============================================================================
