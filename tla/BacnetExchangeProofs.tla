------------------------ MODULE BacnetExchangeProofs ------------------------
(***************************************************************************)
(* That what a BACnet worker records and what a command reports rests on   *)
(* answers to its own requests, for any number of workers, points and      *)
(* values and any pair MaxAge < MaxId.                                     *)
(*                                                                         *)
(* The invoke ID of a datagram and its age add up to the ID drawn last, or *)
(* to one round more; an age never reaches a whole round, so a datagram    *)
(* that carries the last ID was sent with it.  The mutex makes the caller  *)
(* that drew it the only one that receives, and every datagram of age zero *)
(* repeats its request.                                                    *)
(***************************************************************************)
EXTENDS BacnetExchange, TLAPS

Kinds == {"read", "write"}
Pdus == {"complex", "simple"}
Shown == Values \cup {"none"}

Calls == [at : {"lock", "receive"}, kind : Kinds, point : Points, value : Shown]
Requests == [kind : Kinds, point : Points, value : Shown, id : 1..MaxId, age : 0..MaxAge]
Answers == [pdu : Pdus, point : Points, value : Shown, id : 1..MaxId, age : 0..MaxAge]
Origins == [pdu : Pdus, point : Points, value : Shown, age : 0..MaxAge]
Jobs == [at : {"write", "verify", "pause"}, command : Commands, evidence : SUBSET Origins]

TypeInv ==
  /\ invokeID \in 0..MaxId
  /\ call \in [Users -> Calls \cup {NoCall}]
  /\ at \in [Workers -> {"idle", "collect", "gone"}]
  /\ next \in [Workers -> Nat \ {0}]
  /\ job \in Jobs \cup {NoJob}
  /\ DOMAIN recorded = Workers
  /\ requests \subseteq Requests /\ answers \subseteq Answers

\* How far the counter has gone on since d's ID was drawn.
Behind(d) == invokeID = d.id + d.age \/ invokeID + MaxId = d.id + d.age

IdInv == (\A r \in requests : Behind(r)) /\ (\A a \in answers : Behind(a))

MutexInv == \A u \in Users : call[u].at = "receive" <=> mutex = u

\* Of the exchange in progress are all the datagrams of the last ID.
FreshInv ==
  \A u \in Users : call[u].at = "receive" =>
    /\ \A r \in requests : r.age = 0 => r.kind = call[u].kind /\ r.point = call[u].point
    /\ \A a \in answers :
         a.age = 0 => a.pdu = Expects(call[u].kind) /\ a.point = call[u].point

WorkerInv ==
  \A w \in Workers : call[w].at # "none" =>
    /\ at[w] = "collect"
    /\ next[w] <= Len(Reads[w])
    /\ call[w].kind = "read" /\ call[w].point = Reads[w][next[w]]

JobInv ==
  /\ call[Control].at # "none" =>
       \/ job.at = "write" /\ call[Control].kind = "write"
            /\ call[Control].point = job.command.point
       \/ job.at = "verify" /\ call[Control].kind = "read"
            /\ call[Control].point = job.command.readPoint
  /\ job.at \in {"verify", "pause"} =>
       \E a \in job.evidence : Own(a, "simple", job.command.point)

IInv == TypeInv /\ IdInv /\ MutexInv /\ FreshInv /\ WorkerInv /\ JobInv /\ OwnAnswers

-----------------------------------------------------------------------------
(* The parts of the state that one helper is about. *)

LEMMA Facts ==
  /\ Users = Workers \cup {Control} /\ Control \in Users /\ Control \notin Workers
  /\ Workers \subseteq Users /\ Nobody \notin Users
  /\ MaxId \in Nat /\ MaxAge \in Nat /\ MaxAge < MaxId /\ MaxId >= 1
  /\ \A w \in Workers : Reads[w] \in Seq(Points)
  /\ \A c \in Commands : c.point \in Points /\ c.readPoint \in Points /\ c.target \in Values
BY BacnetAssumption DEF BacnetAssumption, Users

LEMMA CallFields ==
  ASSUME NEW c \in Calls
  PROVE  /\ c.at \in {"lock", "receive"} /\ c.kind \in Kinds /\ c.point \in Points
         /\ c.value \in Shown
         /\ [c EXCEPT !.at = "receive"] \in Calls
         /\ [c EXCEPT !.at = "receive"].at = "receive"
         /\ [c EXCEPT !.at = "receive"].kind = c.kind
         /\ [c EXCEPT !.at = "receive"].point = c.point
BY DEF Calls

LEMMA JobFields ==
  ASSUME NEW j \in Jobs
  PROVE  /\ j.at \in {"write", "verify", "pause"} /\ j.command \in Commands
         /\ j.evidence \subseteq Origins
         /\ \A place \in {"write", "verify", "pause"} :
              /\ [j EXCEPT !.at = place] \in Jobs
              /\ [j EXCEPT !.at = place].at = place
              /\ [j EXCEPT !.at = place].command = j.command
              /\ [j EXCEPT !.at = place].evidence = j.evidence
BY DEF Jobs

LEMMA OriginFields ==
  ASSUME NEW a \in Answers
  PROVE  /\ Origin(a) \in Origins
         /\ Origin(a).pdu = a.pdu /\ Origin(a).point = a.point
         /\ Origin(a).value = a.value /\ Origin(a).age = a.age
BY DEF Answers, Origins, Origin

LEMMA NextIdType ==
  ASSUME invokeID \in 0..MaxId
  PROVE  NextInvokeID \in 1..MaxId
BY Facts DEF NextInvokeID

LEMMA AgedRequests ==
  ASSUME requests \subseteq Requests, NEW d \in Aged(requests)
  PROVE  /\ d \in Requests /\ d.age # 0
         /\ \E e \in requests : e.age < MaxAge /\ d.id = e.id /\ d.age = e.age + 1
<1>1. PICK e \in requests : e.age < MaxAge /\ d = [e EXCEPT !.age = @ + 1]
  BY DEF Aged
<1>2. e \in Requests /\ e.age \in 0..MaxAge
  BY DEF Requests
<1>3. e.age + 1 \in 0..MaxAge /\ e.age + 1 # 0
  BY <1>1, <1>2, Facts
<1>4. d \in Requests /\ d.id = e.id /\ d.age = e.age + 1
  BY <1>1, <1>2, <1>3 DEF Requests
<1>5. QED
  BY <1>1, <1>3, <1>4

LEMMA AgedAnswers ==
  ASSUME answers \subseteq Answers, NEW d \in Aged(answers)
  PROVE  /\ d \in Answers /\ d.age # 0
         /\ \E e \in answers : e.age < MaxAge /\ d.id = e.id /\ d.age = e.age + 1
<1>1. PICK e \in answers : e.age < MaxAge /\ d = [e EXCEPT !.age = @ + 1]
  BY DEF Aged
<1>2. e \in Answers /\ e.age \in 0..MaxAge
  BY DEF Answers
<1>3. e.age + 1 \in 0..MaxAge /\ e.age + 1 # 0
  BY <1>1, <1>2, Facts
<1>4. d \in Answers /\ d.id = e.id /\ d.age = e.age + 1
  BY <1>1, <1>2, <1>3 DEF Answers
<1>5. QED
  BY <1>1, <1>3, <1>4

\* Drawing an ID makes every datagram one older.
LEMMA BehindStep ==
  ASSUME invokeID \in 0..MaxId, invokeID' = NextInvokeID,
         NEW id \in 1..MaxId, NEW age \in 0..MaxAge,
         invokeID = id + age \/ invokeID + MaxId = id + age
  PROVE  invokeID' = id + (age + 1) \/ invokeID' + MaxId = id + (age + 1)
BY Facts DEF NextInvokeID

\* The last ID was drawn for the datagrams that carry it, and for no older ones.
LEMMA OwnIdIsFresh ==
  ASSUME TypeInv, IdInv, NEW a \in answers, a.id = invokeID
  PROVE  a.age = 0
<1>1. a.id \in 1..MaxId /\ a.age \in 0..MaxAge /\ invokeID \in 0..MaxId
  BY DEF TypeInv, Answers
<1>2. invokeID = a.id + a.age \/ invokeID + MaxId = a.id + a.age
  BY DEF IdInv, Behind
<1>3. QED
  BY <1>1, <1>2, Facts

-----------------------------------------------------------------------------
(* A call returns. *)

LEMMA WorkerReturns ==
  ASSUME TypeInv, WorkerInv, JobInv, OwnAnswers, NEW w \in Workers,
         NEW ok \in BOOLEAN, NEW answer, Return(w, ok, answer), UNCHANGED at,
         ok => /\ call[w].at # "none" /\ answer \in Answers
               /\ Own(answer, Expects(call[w].kind), call[w].point)
  PROVE  /\ call' = [call EXCEPT ![w] = NoCall]
         /\ next' \in [Workers -> Nat \ {0}] /\ job' = job /\ DOMAIN recorded' = Workers
         /\ WorkerInv' /\ JobInv' /\ OwnAnswers'
<1>1. w # Control /\ w \in Users
  BY Facts
<1>2. /\ call' = [call EXCEPT ![w] = NoCall]
      /\ next' = [next EXCEPT ![w] = @ + 1]
      /\ recorded' = [recorded EXCEPT ![w] =
           IF ok /\ answer.value \notin Foreign
             THEN [point |-> Reads[w][next[w]], from |-> Origin(answer)] ELSE recorded[w]]
      /\ job' = job /\ report' = report
  BY <1>1 DEF Return, Collected
<1>3. /\ call'[w].at = "none" /\ \A u \in Users \ {w} : call'[u] = call[u]
      /\ \A v \in Workers \ {w} : next'[v] = next[v] /\ recorded'[v] = recorded[v]
      /\ next' \in [Workers -> Nat \ {0}] /\ DOMAIN recorded' = Workers
  BY <1>1, <1>2 DEF TypeInv, NoCall
<1>4. WorkerInv'
  BY <1>3, Facts DEF WorkerInv
<1>5. JobInv'
  <2>1. call'[Control] = call[Control]
    BY <1>1, <1>3, Facts
  <2>2. QED
    BY <1>2, <2>1 DEF JobInv, Own
<1>6. OwnAnswers'
  <2>1. ASSUME recorded'[w] # NoRecord
        PROVE  Own(recorded'[w].from, "complex", recorded'[w].point)
    <3>1. CASE ok /\ answer.value \notin Foreign
      <4>1. recorded'[w] = [point |-> Reads[w][next[w]], from |-> Origin(answer)]
        BY <1>2, <3>1 DEF TypeInv
      <4>2. call[w].kind = "read" /\ call[w].point = Reads[w][next[w]] /\ answer \in Answers
        BY <3>1 DEF WorkerInv
      <4>3. answer.pdu = "complex" /\ answer.age = 0 /\ answer.point = Reads[w][next[w]]
        BY <3>1, <4>2 DEF Own, Expects
      <4>4. QED
        BY <4>1, <4>2, <4>3, OriginFields DEF Own
    <3>2. CASE ~ (ok /\ answer.value \notin Foreign)
      <4>1. recorded'[w] = recorded[w]
        BY <1>2, <3>2 DEF TypeInv
      <4>2. QED
        BY <2>1, <4>1 DEF OwnAnswers
    <3>3. QED
      BY <3>1, <3>2
  <2>2. ASSUME NEW v \in Workers, recorded'[v] # NoRecord
        PROVE  Own(recorded'[v].from, "complex", recorded'[v].point)
    BY <1>3, <2>1, <2>2 DEF OwnAnswers
  <2>3. QED
    BY <1>2, <2>2 DEF OwnAnswers, Own
<1>7. QED
  BY <1>2, <1>3, <1>4, <1>5, <1>6

LEMMA ControlReturns ==
  ASSUME TypeInv, WorkerInv, JobInv, OwnAnswers,
         NEW ok \in BOOLEAN, NEW answer, Return(Control, ok, answer), UNCHANGED at,
         ok => /\ call[Control].at # "none" /\ answer \in Answers
               /\ Own(answer, Expects(call[Control].kind), call[Control].point)
  PROVE  /\ call' = [call EXCEPT ![Control] = NoCall]
         /\ next' = next /\ job' \in Jobs \cup {NoJob} /\ recorded' = recorded
         /\ WorkerInv' /\ JobInv' /\ OwnAnswers'
<1>1. /\ call' = [call EXCEPT ![Control] = NoCall] /\ next' = next /\ recorded' = recorded
      /\ Answered(ok, answer, expired[Control])
  BY DEF Return, Answered
<1>2. call'[Control].at = "none" /\ \A u \in Users \ {Control} : call'[u] = call[u]
  BY <1>1, Facts DEF TypeInv, NoCall
<1>3. WorkerInv'
  BY <1>1, <1>2, Facts DEF WorkerInv
<1>4. job \in Jobs /\ job.at \in {"write", "verify"}
  BY <1>1 DEF Answered, TypeInv, NoJob
<1>5. \A v \in Workers : recorded'[v] # NoRecord
        => Own(recorded'[v].from, "complex", recorded'[v].point)
  BY <1>1 DEF OwnAnswers
<1>a. NoJob.at = "idle"
  BY DEF NoJob
<1>6. ASSUME NEW status, NEW evidence, Settle(status, evidence),
             status \in {"unverified", "verified"} =>
               \E a \in evidence : Own(a, "simple", job.command.point),
             status = "verified" =>
               \E a \in evidence : /\ Own(a, "complex", job.command.readPoint)
                                   /\ a.value = job.command.target
      PROVE  job' \in Jobs \cup {NoJob} /\ JobInv' /\ OwnAnswers'
  <2>1. /\ job' = NoJob /\ report'.status = status /\ report'.command = job.command
        /\ report'.evidence = evidence
    BY <1>6 DEF Settle
  <2>2. JobInv'
    BY <1>2, <1>a, <2>1 DEF JobInv
  <2>3. OwnAnswers'
    BY <1>5, <1>6, <2>1 DEF OwnAnswers, Own
  <2>4. QED
    BY <2>1, <2>2, <2>3
<1>7. ASSUME Retry(expired[Control]), job.at = "verify"
      PROVE  job' \in Jobs \cup {NoJob} /\ JobInv' /\ OwnAnswers'
  <2>1. CASE Settle("failed", {})
    BY <1>6, <2>1
  <2>2. CASE job' = [job EXCEPT !.at = "pause"] /\ UNCHANGED report
    <3>1. /\ job' \in Jobs /\ job'.at = "pause" /\ job'.command = job.command
          /\ job'.evidence = job.evidence
      BY <1>4, <2>2, JobFields
    <3>2. \E a \in job'.evidence : Own(a, "simple", job'.command.point)
      BY <1>7, <3>1 DEF JobInv
    <3>3. JobInv'
      BY <1>2, <3>1, <3>2 DEF JobInv, Own
    <3>4. OwnAnswers'
      BY <1>5, <2>2 DEF OwnAnswers, Own
    <3>5. QED
      BY <3>1, <3>3, <3>4
  <2>3. QED
    BY <1>7, <2>1, <2>2 DEF Retry
<1>8. CASE job.at = "write" /\ ~ ok
  <2>1. Settle("failed", {})
    BY <1>1, <1>8 DEF Answered
  <2>2. QED
    BY <1>1, <1>3, <1>6, <2>1
<1>9. CASE job.at = "write" /\ ok
  <2>1. answer \in Answers /\ Origin(answer) \in Origins
        /\ Own(Origin(answer), "simple", job.command.point)
    <3>1. call[Control].kind = "write" /\ call[Control].point = job.command.point
      BY <1>9 DEF JobInv
    <3>2. QED
      BY <1>9, <3>1, OriginFields DEF Own, Expects
  <2>2. CASE job.command.readable
    <3>1. job' = [job EXCEPT !.at = "verify", !.evidence = {Origin(answer)}] /\ UNCHANGED report
      BY <1>1, <1>9, <2>2 DEF Answered
    <3>2. /\ job' \in Jobs /\ job'.at = "verify" /\ job'.command = job.command
          /\ job'.evidence = {Origin(answer)}
      <4> DEFINE e == {Origin(answer)}
      <4>1. e \in SUBSET Origins /\ job' = [job EXCEPT !.at = "verify", !.evidence = e]
        BY <2>1, <3>1
      <4> HIDE DEF e
      <4>2. /\ job' \in Jobs /\ job'.at = "verify" /\ job'.command = job.command
            /\ job'.evidence = e
        <5>1. job \in Jobs
          BY <1>4
        <5>2. ASSUME NEW i, i = [job EXCEPT !.at = "verify", !.evidence = e]
              PROVE  i \in Jobs /\ i.at = "verify" /\ i.command = job.command /\ i.evidence = e
          BY ONLY <4>1, <5>1, <5>2 DEF Jobs
        <5>3. QED
          BY ONLY <4>1, <5>2
      <4>3. QED
        BY <4>2 DEF e
    <3>3. \E a \in job'.evidence : Own(a, "simple", job'.command.point)
      BY <2>1, <3>2
    <3>4. JobInv'
      BY <1>2, <3>2, <3>3 DEF JobInv, Own
    <3>5. OwnAnswers'
      BY <1>5, <3>1 DEF OwnAnswers, Own
    <3>6. QED
      BY <1>1, <1>3, <3>2, <3>4, <3>5
  <2>3. CASE ~ job.command.readable
    <3>1. Settle("unverified", {Origin(answer)})
      BY <1>1, <1>9, <2>3 DEF Answered
    <3>2. QED
      BY <1>1, <1>3, <1>6, <2>1, <3>1
  <2>4. QED
    BY <2>2, <2>3
<1>10. CASE job.at = "verify"
  <2>1. CASE ok /\ answer.value = job.command.target
    <3>1. Settle("verified", job.evidence \cup {Origin(answer)})
      BY <1>1, <1>10, <2>1 DEF Answered
    <3>2. /\ Own(Origin(answer), "complex", job.command.readPoint)
          /\ Origin(answer).value = job.command.target
      <4>1. call[Control].kind = "read" /\ call[Control].point = job.command.readPoint
        BY <1>10, <2>1 DEF JobInv
      <4>2. QED
        BY <2>1, <4>1, OriginFields DEF Own, Expects
    <3>3. \E a \in job.evidence : Own(a, "simple", job.command.point)
      BY <1>10 DEF JobInv
    <3>4. QED
      BY <1>1, <1>3, <1>6, <3>1, <3>2, <3>3
  <2>2. CASE ~ (ok /\ answer.value = job.command.target)
    <3>1. Retry(expired[Control])
      BY <1>1, <1>10, <2>2 DEF Answered
    <3>2. QED
      BY <1>1, <1>3, <1>7, <1>10, <3>1
  <2>3. QED
    BY <2>1, <2>2
<1>11. QED
  BY <1>4, <1>8, <1>9, <1>10

LEMMA CallReturns ==
  ASSUME TypeInv, WorkerInv, JobInv, OwnAnswers, NEW u \in Users,
         NEW ok \in BOOLEAN, NEW answer, Return(u, ok, answer), UNCHANGED at,
         ok => /\ call[u].at # "none" /\ answer \in Answers
               /\ Own(answer, Expects(call[u].kind), call[u].point)
  PROVE  /\ call' = [call EXCEPT ![u] = NoCall] /\ call' \in [Users -> Calls \cup {NoCall}]
         /\ next' \in [Workers -> Nat \ {0}] /\ job' \in Jobs \cup {NoJob}
         /\ DOMAIN recorded' = Workers
         /\ WorkerInv' /\ JobInv' /\ OwnAnswers'
<1>1. CASE u \in Workers
  <2>1. /\ call' = [call EXCEPT ![u] = NoCall]
        /\ next' \in [Workers -> Nat \ {0}] /\ job' = job /\ DOMAIN recorded' = Workers
        /\ WorkerInv' /\ JobInv' /\ OwnAnswers'
    BY <1>1, WorkerReturns
  <2>2. QED
    BY <2>1 DEF TypeInv
<1>2. CASE u = Control
  <2>1. /\ call' = [call EXCEPT ![u] = NoCall]
        /\ next' = next /\ job' \in Jobs \cup {NoJob} /\ recorded' = recorded
        /\ WorkerInv' /\ JobInv' /\ OwnAnswers'
    BY <1>2, ControlReturns
  <2>2. QED
    BY <2>1 DEF TypeInv
<1>3. QED
  BY <1>1, <1>2, Facts

\* The returning caller leaves the exchange; the datagrams concern nobody any more.
LEMMA NobodyReceives ==
  ASSUME TypeInv, MutexInv, NEW u \in Users,
         mutex \in {u, Nobody}, mutex' = Nobody, call' = [call EXCEPT ![u] = NoCall]
  PROVE  MutexInv' /\ FreshInv'
<1>1. \A v \in Users : call'[v].at # "receive"
  <2>1. call'[u].at # "receive"
    BY DEF TypeInv, NoCall
  <2>2. \A v \in Users \ {u} : call'[v] = call[v] /\ call[v].at # "receive"
    BY Facts DEF TypeInv, MutexInv
  <2>3. QED
    BY <2>1, <2>2
<1>2. MutexInv'
  BY <1>1, Facts DEF MutexInv
<1>3. FreshInv'
  BY <1>1 DEF FreshInv
<1>4. QED
  BY <1>2, <1>3

-----------------------------------------------------------------------------
(* The actions. *)

LEMMA InitIInv == Init => IInv
<1> SUFFICES ASSUME Init PROVE IInv
  OBVIOUS
<1> USE Facts DEF Init
<1>1. NoCall.at = "none" /\ NoJob.at = "idle" /\ NoReport.status = "none"
  BY DEF NoCall, NoJob, NoReport
<1>2. TypeInv
  BY DEF TypeInv
<1>3. IdInv
  BY DEF IdInv
<1>4. MutexInv
  BY <1>1 DEF MutexInv
<1>5. FreshInv
  BY <1>1 DEF FreshInv
<1>6. WorkerInv /\ JobInv
  BY <1>1 DEF WorkerInv, JobInv
<1>7. OwnAnswers
  BY <1>1 DEF OwnAnswers
<1>8. QED
  BY <1>2, <1>3, <1>4, <1>5, <1>6, <1>7 DEF IInv

\* A new ID is drawn: everything under way belongs to earlier exchanges.
LEMMA DrawnIds ==
  ASSUME TypeInv, IdInv, invokeID' = NextInvokeID
  PROVE  /\ invokeID' \in 1..MaxId /\ invokeID' \in 0..MaxId
         /\ Aged(requests) \subseteq Requests /\ Aged(answers) \subseteq Answers
         /\ \A d \in Aged(requests) \cup Aged(answers) :
              /\ d.age # 0
              /\ invokeID' = d.id + d.age \/ invokeID' + MaxId = d.id + d.age
<1>1. invokeID \in 0..MaxId /\ requests \subseteq Requests /\ answers \subseteq Answers
  BY DEF TypeInv
<1>2. invokeID' \in 1..MaxId
  BY <1>1, NextIdType
<1>3. ASSUME NEW d \in Aged(requests)
      PROVE  d \in Requests /\ d.age # 0
             /\ (invokeID' = d.id + d.age \/ invokeID' + MaxId = d.id + d.age)
  <2>1. d \in Requests /\ d.age # 0
    BY <1>1, AgedRequests
  <2>2. PICK e \in requests : d.id = e.id /\ d.age = e.age + 1
    BY <1>1, AgedRequests
  <2>3. e.id \in 1..MaxId /\ e.age \in 0..MaxAge
    BY <1>1 DEF Requests
  <2>4. invokeID = e.id + e.age \/ invokeID + MaxId = e.id + e.age
    BY DEF IdInv, Behind
  <2>5. invokeID' = e.id + (e.age + 1) \/ invokeID' + MaxId = e.id + (e.age + 1)
    BY <1>1, <2>3, <2>4, BehindStep
  <2>6. QED
    BY <2>1, <2>2, <2>5
<1>4. ASSUME NEW d \in Aged(answers)
      PROVE  d \in Answers /\ d.age # 0
             /\ (invokeID' = d.id + d.age \/ invokeID' + MaxId = d.id + d.age)
  <2>1. d \in Answers /\ d.age # 0
    BY <1>1, AgedAnswers
  <2>2. PICK e \in answers : d.id = e.id /\ d.age = e.age + 1
    BY <1>1, AgedAnswers
  <2>3. e.id \in 1..MaxId /\ e.age \in 0..MaxAge
    BY <1>1 DEF Answers
  <2>4. invokeID = e.id + e.age \/ invokeID + MaxId = e.id + e.age
    BY DEF IdInv, Behind
  <2>5. invokeID' = e.id + (e.age + 1) \/ invokeID' + MaxId = e.id + (e.age + 1)
    BY <1>1, <2>3, <2>4, BehindStep
  <2>6. QED
    BY <2>1, <2>2, <2>5
<1>5. QED
  BY <1>2, <1>3, <1>4

LEMMA BeginStep ==
  ASSUME IInv, NEW u \in Users, Begin(u)
  PROVE  IInv'
<1> USE DEF IInv
<1>1. /\ call[u].at = "lock" /\ mutex = Nobody /\ invokeID' = NextInvokeID
      /\ answers' = Aged(answers) /\ UNCHANGED <<expired, at>>
  BY DEF Begin
<1>2. call[u] \in Calls
  BY <1>1 DEF TypeInv, NoCall
<1>3. /\ invokeID' \in 1..MaxId /\ invokeID' \in 0..MaxId
      /\ Aged(requests) \subseteq Requests /\ Aged(answers) \subseteq Answers
      /\ \A d \in Aged(requests) \cup Aged(answers) :
           /\ d.age # 0
           /\ invokeID' = d.id + d.age \/ invokeID' + MaxId = d.id + d.age
  BY <1>1, DrawnIds
<1>4. CASE /\ mutex' = u
           /\ requests' = Aged(requests) \cup
                {[kind |-> call[u].kind, point |-> call[u].point,
                  value |-> call[u].value, id |-> NextInvokeID, age |-> 0]}
           /\ call' = [call EXCEPT ![u].at = "receive"]
           /\ UNCHANGED <<next, job, report, recorded>>
  <2> DEFINE r0 == [kind |-> call[u].kind, point |-> call[u].point,
                    value |-> call[u].value, id |-> NextInvokeID, age |-> 0]
  <2>1. r0 \in Requests /\ r0.id = invokeID' /\ r0.age = 0
        /\ r0.kind = call[u].kind /\ r0.point = call[u].point
    <3>1. call[u].kind \in Kinds /\ call[u].point \in Points /\ call[u].value \in Shown
      BY <1>2, CallFields
    <3>2. NextInvokeID \in 1..MaxId /\ NextInvokeID = invokeID' /\ 0 \in 0..MaxAge
      BY <1>1, <1>3, Facts
    <3>3. QED
      BY <3>1, <3>2 DEF Requests
  <2>2. requests' = Aged(requests) \cup {r0}
    BY <1>4
  <2> HIDE DEF r0
  <2>3. /\ call'[u] \in Calls /\ call'[u].at = "receive"
        /\ call'[u].kind = call[u].kind /\ call'[u].point = call[u].point
        /\ \A v \in Users \ {u} : call'[v] = call[v]
        /\ call' \in [Users -> Calls \cup {NoCall}]
    BY <1>2, <1>4, CallFields DEF TypeInv
  <2>4. TypeInv'
    BY <1>1, <1>3, <1>4, <2>1, <2>2, <2>3 DEF TypeInv
  <2>5. IdInv'
    <3>1. invokeID' = r0.id + r0.age
      BY <1>3, <2>1
    <3>2. QED
      BY <1>1, <1>3, <2>2, <3>1 DEF IdInv, Behind
  <2>6. \A v \in Users : call'[v].at = "receive" <=> v = u
    BY <1>1, <2>3, Facts DEF MutexInv
  <2>7. MutexInv'
    BY <1>4, <2>6 DEF MutexInv
  <2>8. FreshInv'
    <3>1. \A r \in requests' : r.age = 0 => r.kind = call'[u].kind /\ r.point = call'[u].point
      BY <1>3, <2>1, <2>2, <2>3
    <3>2. \A a \in answers' : a.age # 0
      BY <1>1, <1>3
    <3>3. QED
      BY <2>6, <3>1, <3>2 DEF FreshInv
  <2>9. WorkerInv'
    BY <1>1, <1>4, <2>3, Facts DEF WorkerInv
  <2>10. JobInv'
    BY <1>1, <1>4, <2>3, Facts DEF JobInv, Own
  <2>11. OwnAnswers'
    BY <1>4 DEF OwnAnswers, Own
  <2>12. QED
    BY <2>4, <2>5, <2>7, <2>8, <2>9, <2>10, <2>11
<1>5. CASE mutex' = Nobody /\ requests' = Aged(requests) /\ Return(u, FALSE, NoAnswer)
  <2>1. /\ call' = [call EXCEPT ![u] = NoCall] /\ call' \in [Users -> Calls \cup {NoCall}]
        /\ next' \in [Workers -> Nat \ {0}] /\ job' \in Jobs \cup {NoJob}
        /\ DOMAIN recorded' = Workers
        /\ WorkerInv' /\ JobInv' /\ OwnAnswers'
    BY <1>1, <1>5, CallReturns
  <2>2. MutexInv' /\ FreshInv'
    BY <1>1, <1>5, <2>1, NobodyReceives
  <2>3. IdInv'
    BY <1>1, <1>3, <1>5 DEF IdInv, Behind
  <2>4. TypeInv'
    BY <1>1, <1>3, <1>5, <2>1 DEF TypeInv
  <2>5. QED
    BY <2>1, <2>2, <2>3, <2>4
<1>6. QED
  BY <1>4, <1>5 DEF Begin, GiveUp, Unlock

LEMMA ReceiveStep ==
  ASSUME IInv, NEW u \in Users, Receive(u) \/ ReceiveFails(u)
  PROVE  IInv'
<1> USE DEF IInv
<1>1. /\ call[u].at = "receive" /\ mutex' = Nobody
      /\ UNCHANGED <<invokeID, at, requests, answers>>
  BY DEF Receive, ReceiveFails, Unlock
<1>2. \E ok \in BOOLEAN : \E answer :
        /\ Return(u, ok, answer)
        /\ ok => /\ call[u].at # "none" /\ answer \in Answers
                 /\ Own(answer, Expects(call[u].kind), call[u].point)
  <2>1. CASE ReceiveFails(u)
    BY <2>1 DEF ReceiveFails
  <2>2. CASE Receive(u)
    <3>1. PICK a \in answers : ~ Skipped(u, a) /\ Return(u, Accepted(u, a), a)
      BY <2>2 DEF Receive
    <3>2. Accepted(u, a) \in BOOLEAN
      BY DEF Accepted
    <3>3. ASSUME Accepted(u, a)
          PROVE  a \in Answers /\ Own(a, Expects(call[u].kind), call[u].point)
      <4>1. a.pdu = Expects(call[u].kind) /\ a.id = invokeID
        BY <3>1, <3>3 DEF Accepted, Skipped
      <4>2. a.age = 0
        BY <4>1, OwnIdIsFresh
      <4>3. a.point = call[u].point
        BY <1>1, <4>2 DEF FreshInv
      <4>4. QED
        BY <4>1, <4>2, <4>3 DEF Own, TypeInv
    <3>4. QED
      BY <1>1, <3>1, <3>2, <3>3
  <2>3. QED
    BY <2>1, <2>2
<1>3. /\ call' = [call EXCEPT ![u] = NoCall] /\ call' \in [Users -> Calls \cup {NoCall}]
      /\ next' \in [Workers -> Nat \ {0}] /\ job' \in Jobs \cup {NoJob}
      /\ DOMAIN recorded' = Workers
      /\ WorkerInv' /\ JobInv' /\ OwnAnswers'
  BY <1>1, <1>2, CallReturns
<1>4. MutexInv' /\ FreshInv'
  BY <1>1, <1>3, NobodyReceives DEF MutexInv
<1>5. IdInv'
  BY <1>1 DEF IdInv, Behind
<1>6. TypeInv'
  BY <1>1, <1>3 DEF TypeInv
<1>7. QED
  BY <1>3, <1>4, <1>5, <1>6

\* A call starts: it waits for the lock, or the holder could not be made.
LEMMA EnsureStep ==
  ASSUME IInv, NEW u \in Users, NEW kind \in Kinds, NEW point \in Points, NEW value \in Shown,
         EnsureConn(u, kind, point, value), call[u].at = "none",
         UNCHANGED <<invokeID, mutex, requests, answers, at>>,
         u \in Workers => /\ at[u] = "collect" /\ next[u] <= Len(Reads[u])
                          /\ kind = "read" /\ point = Reads[u][next[u]],
         u = Control => \/ job.at = "write" /\ kind = "write" /\ point = job.command.point
                        \/ job.at = "verify" /\ kind = "read" /\ point = job.command.readPoint
  PROVE  IInv'
<1> USE DEF IInv
<1>1. CASE /\ call' = [call EXCEPT ![u] =
                   [at |-> "lock", kind |-> kind, point |-> point, value |-> value]]
           /\ UNCHANGED <<next, job, report, recorded>>
  <2> DEFINE c == [at |-> "lock", kind |-> kind, point |-> point, value |-> value]
  <2>1. c \in Calls /\ c.at = "lock" /\ c.kind = kind /\ c.point = point
    BY DEF Calls
  <2>2. call' = [call EXCEPT ![u] = c]
    BY <1>1
  <2> HIDE DEF c
  <2>3. /\ call'[u] = c /\ \A v \in Users \ {u} : call'[v] = call[v]
        /\ call' \in [Users -> Calls \cup {NoCall}]
    BY <2>1, <2>2 DEF TypeInv
  <2>4. \A v \in Users : call'[v].at = "receive" <=> v # u /\ call[v].at = "receive"
    BY <2>1, <2>3
  <2>5. MutexInv'
    BY <2>4, <1>1 DEF MutexInv
  <2>6. FreshInv'
    BY <2>3, <2>4, <1>1 DEF FreshInv
  <2>7. TypeInv'
    BY <1>1, <2>3 DEF TypeInv
  <2>8. IdInv'
    BY DEF IdInv, Behind
  <2>9. WorkerInv'
    BY <1>1, <2>1, <2>3, Facts DEF WorkerInv
  <2>10. JobInv'
    BY <1>1, <2>1, <2>3, Facts DEF JobInv, Own
  <2>11. OwnAnswers'
    BY <1>1 DEF OwnAnswers, Own
  <2>12. QED
    BY <2>5, <2>6, <2>7, <2>8, <2>9, <2>10, <2>11
<1>2. CASE Return(u, FALSE, NoAnswer)
  <2>1. /\ call' = [call EXCEPT ![u] = NoCall] /\ call' \in [Users -> Calls \cup {NoCall}]
        /\ next' \in [Workers -> Nat \ {0}] /\ job' \in Jobs \cup {NoJob}
        /\ DOMAIN recorded' = Workers
        /\ WorkerInv' /\ JobInv' /\ OwnAnswers'
    BY <1>2, CallReturns
  <2>2. call'[u].at = "none" /\ \A v \in Users \ {u} : call'[v] = call[v]
    BY <2>1 DEF TypeInv, NoCall
  <2>3. MutexInv'
    BY <2>2 DEF MutexInv
  <2>4. FreshInv'
    BY <2>2 DEF FreshInv
  <2>5. TypeInv' /\ IdInv'
    BY <2>1 DEF TypeInv, IdInv, Behind
  <2>6. QED
    BY <2>1, <2>3, <2>4, <2>5
<1>3. QED
  BY <1>1, <1>2 DEF EnsureConn

LEMMA CollectStep ==
  ASSUME IInv, NEW w \in Workers, Collect(w)
  PROVE  IInv'
<1> USE DEF IInv
<1>0. w \in Users /\ w # Control
  BY Facts
<1>1. at[w] = "collect" /\ call[w].at = "none"
      /\ UNCHANGED <<invokeID, mutex, requests, answers>>
  BY DEF Collect
<1>2. CASE next[w] > Len(Reads[w])
  <2>1. at' = [at EXCEPT ![w] = "idle"] /\ UNCHANGED <<call, next, job, report, recorded>>
    BY <1>2 DEF Collect, Goto
  <2>2. at' \in [Workers -> {"idle", "collect", "gone"}] /\ \A v \in Workers \ {w} : at'[v] = at[v]
    BY <2>1 DEF TypeInv
  <2>3. TypeInv'
    BY <1>1, <2>1, <2>2 DEF TypeInv
  <2>4. WorkerInv'
    BY <1>1, <2>1, <2>2 DEF WorkerInv
  <2>5. IdInv' /\ MutexInv' /\ FreshInv' /\ JobInv' /\ OwnAnswers'
    BY <1>1, <2>1 DEF IdInv, Behind, MutexInv, FreshInv, JobInv, OwnAnswers, Own
  <2>6. QED
    BY <2>3, <2>4, <2>5
<1>3. CASE ~ (next[w] > Len(Reads[w]))
  <2>1. EnsureConn(w, "read", Reads[w][next[w]], "none") /\ UNCHANGED at
    BY <1>3 DEF Collect
  <2>2. next[w] \in 1..Len(Reads[w]) /\ Reads[w] \in Seq(Points)
    BY <1>3, Facts DEF TypeInv
  <2>3. Reads[w][next[w]] \in Points /\ next[w] <= Len(Reads[w])
    BY <2>2
  <2>4. "read" \in Kinds /\ "none" \in Shown
    BY DEF Kinds, Shown
  <2>5. QED
    BY <1>0, <1>1, <2>1, <2>3, <2>4, EnsureStep
<1>4. QED
  BY <1>2, <1>3

LEMMA CommandStep ==
  ASSUME IInv, Command
  PROVE  IInv'
<1> USE DEF IInv
<1>0. Control \in Users /\ Control \notin Workers
  BY Facts
<1>1. /\ job.at \in {"write", "verify"} /\ call[Control].at = "none"
      /\ UNCHANGED <<invokeID, mutex, requests, answers, at>>
  BY DEF Command
<1>2. job \in Jobs
  BY <1>1 DEF TypeInv, NoJob
<1>3. job.command \in Commands
  BY <1>2, JobFields
<1>4. job.command.point \in Points /\ job.command.readPoint \in Points
      /\ job.command.target \in Values
  BY <1>3, Facts
<1>5. "read" \in Kinds /\ "write" \in Kinds /\ "none" \in Shown /\ job.command.target \in Shown
  BY <1>4 DEF Kinds, Shown
<1>6. CASE job.at = "write"  /\ EnsureConn(Control, "write", job.command.point, job.command.target)
  BY <1>0, <1>1, <1>4, <1>5, <1>6, EnsureStep
<1>7. CASE job.at = "verify" /\ EnsureConn(Control, "read", job.command.readPoint, "none")
  BY <1>0, <1>1, <1>4, <1>5, <1>7, EnsureStep
<1>8. QED
  BY <1>6, <1>7 DEF Command

LEMMA ServeStep ==
  ASSUME IInv, Serve
  PROVE  IInv'
<1> USE DEF IInv
<1>1. UNCHANGED <<invokeID, mutex, call, workers, job, report, recorded, requests>>
  BY DEF Serve
<1>2. UNCHANGED <<at, next>>
  BY <1>1 DEF workers
<1>3. PICK r \in requests :
        \E a : /\ answers' = answers \cup {a}
               /\ \/ r.kind = "read" /\ \E v \in Values : a = AnswerTo(r, "complex", v)
                  \/ r.kind = "write" /\ a = AnswerTo(r, "simple", "none")
  BY DEF Serve
<1>3a. PICK a :
        /\ answers' = answers \cup {a}
        /\ \/ r.kind = "read" /\ \E v \in Values : a = AnswerTo(r, "complex", v)
           \/ r.kind = "write" /\ a = AnswerTo(r, "simple", "none")
  BY <1>3
<1>4. r \in Requests
  BY DEF TypeInv
<1>5. /\ a \in Answers /\ a.id = r.id /\ a.age = r.age /\ a.point = r.point
      /\ a.pdu = Expects(r.kind)
  <2>1. ASSUME NEW pdu \in Pdus, NEW v \in Shown, a = AnswerTo(r, pdu, v)
        PROVE  /\ a \in Answers /\ a.id = r.id /\ a.age = r.age /\ a.point = r.point
               /\ a.pdu = pdu
    BY <1>4, <2>1 DEF AnswerTo, Requests, Answers
  <2>2. CASE r.kind = "read" /\ \E v \in Values : a = AnswerTo(r, "complex", v)
    BY <2>1, <2>2 DEF Expects, Shown, Pdus
  <2>3. CASE r.kind = "write" /\ a = AnswerTo(r, "simple", "none")
    BY <2>1, <2>3 DEF Expects, Shown, Pdus
  <2>4. QED
    BY <1>3, <1>3a, <2>2, <2>3
<1>6. TypeInv'
  BY <1>1, <1>2, <1>3, <1>3a, <1>5 DEF TypeInv
<1>7. IdInv'
  BY <1>1, <1>3, <1>3a, <1>5 DEF IdInv, Behind
<1>8. FreshInv'
  BY <1>1, <1>3, <1>3a, <1>5 DEF FreshInv
<1>9. MutexInv' /\ WorkerInv'
  BY <1>1, <1>2 DEF MutexInv, WorkerInv
<1>10. JobInv' /\ OwnAnswers'
  BY <1>1 DEF JobInv, OwnAnswers, Own
<1>11. QED
  BY <1>6, <1>7, <1>8, <1>9, <1>10

\* A worker moves while no call of its own is under way.
LEMMA WorkerMoves ==
  ASSUME IInv, NEW w \in Workers, Tick(w) \/ Cancel(w) \/ Leave(w) \/ StartWorker(w)
  PROVE  IInv'
<1> USE DEF IInv
<1>1. UNCHANGED <<invokeID, mutex, call, job, report, recorded, requests, answers>>
  BY DEF Tick, Cancel, Leave, StartWorker
<1>2. /\ at' \in [Workers -> {"idle", "collect", "gone"}] /\ next' \in [Workers -> Nat \ {0}]
      /\ \A v \in Workers : at[v] = "collect" => at'[v] = at[v] /\ next'[v] = next[v]
  BY DEF Tick, Cancel, Leave, StartWorker, Goto, TypeInv
<1>3. TypeInv'
  BY <1>1, <1>2 DEF TypeInv
<1>4. WorkerInv'
  BY <1>1, <1>2 DEF WorkerInv
<1>5. IdInv' /\ MutexInv' /\ FreshInv' /\ JobInv' /\ OwnAnswers'
  BY <1>1 DEF IdInv, Behind, MutexInv, FreshInv, JobInv, OwnAnswers, Own
<1>6. QED
  BY <1>3, <1>4, <1>5

\* The command's key changes while no call of Control is under way.
LEMMA KeyMoves ==
  ASSUME IInv, TakeKey \/ RetryWait
  PROVE  IInv'
<1> USE DEF IInv
<1>1. UNCHANGED <<invokeID, mutex, call, at, next, recorded, requests, answers>>
  BY DEF TakeKey, RetryWait, workers
<1>2. job.at \in {"idle", "pause"}
  BY DEF TakeKey, RetryWait
<1>3. call[Control].at = "none"
  BY <1>2 DEF JobInv
<1>4. job' \in Jobs \cup {NoJob} /\ JobInv' /\ OwnAnswers'
  <2>a. NoJob.at = "idle" /\ NoReport.status = "none"
    BY DEF NoJob, NoReport
  <2>1. CASE TakeKey
    <3>1. PICK c \in Commands :
            IF c.mapped /\ c.encodes
              THEN job' = [at |-> "write", command |-> c, evidence |-> {}] /\ report' = NoReport
              ELSE /\ report' = [status |-> "failed", command |-> c, evidence |-> {}]
                   /\ UNCHANGED job
      BY <2>1 DEF TakeKey
    <3>2. CASE job' = [at |-> "write", command |-> c, evidence |-> {}] /\ report' = NoReport
      <4>1. job' \in Jobs /\ job'.at = "write"
        BY <3>2 DEF Jobs
      <4>2. QED
        BY <1>1, <1>3, <2>a, <3>2, <4>1 DEF JobInv, OwnAnswers, Own
    <3>3. CASE report' = [status |-> "failed", command |-> c, evidence |-> {}] /\ UNCHANGED job
      BY <1>1, <1>3, <3>3 DEF JobInv, OwnAnswers, Own, TypeInv
    <3>4. QED
      BY <3>1, <3>2, <3>3
  <2>2. CASE RetryWait
    <3>1. job \in Jobs /\ job.at = "pause"
      BY <2>2 DEF RetryWait, TypeInv, NoJob
    <3>2. CASE Settle("failed", {})
      BY <1>1, <1>3, <2>a, <3>2 DEF Settle, JobInv, OwnAnswers, Own
    <3>3. CASE job' = [job EXCEPT !.at = "verify"] /\ UNCHANGED report
      <4>1. /\ job' \in Jobs /\ job'.at = "verify" /\ job'.command = job.command
            /\ job'.evidence = job.evidence
        BY <3>1, <3>3, JobFields
      <4>2. \E a \in job'.evidence : Own(a, "simple", job'.command.point)
        BY <3>1, <4>1 DEF JobInv
      <4>3. JobInv'
        BY <1>1, <1>3, <4>2 DEF JobInv, Own
      <4>4. OwnAnswers'
        BY <1>1, <3>3 DEF OwnAnswers, Own
      <4>5. QED
        BY <4>1, <4>3, <4>4
    <3>4. QED
      BY <2>2, <3>2, <3>3 DEF RetryWait
  <2>3. QED
    BY <2>1, <2>2
<1>5. TypeInv'
  BY <1>1, <1>4 DEF TypeInv
<1>6. IdInv' /\ MutexInv' /\ FreshInv' /\ WorkerInv'
  BY <1>1 DEF IdInv, Behind, MutexInv, FreshInv, WorkerInv
<1>7. QED
  BY <1>4, <1>5, <1>6

LEMMA StillStep ==
  ASSUME IInv, UNCHANGED vars \/ \E u \in Users : Expire(u)
  PROVE  IInv'
<1> USE DEF IInv
<1>1. UNCHANGED <<invokeID, mutex, call, at, next, job, report, recorded, requests, answers>>
  BY DEF vars, workers, Expire
<1>2. TypeInv' /\ WorkerInv'
  BY <1>1 DEF TypeInv, WorkerInv
<1>3. IdInv' /\ MutexInv' /\ FreshInv' /\ JobInv' /\ OwnAnswers'
  BY <1>1 DEF IdInv, Behind, MutexInv, FreshInv, JobInv, OwnAnswers, Own
<1>4. QED
  BY <1>2, <1>3

LEMMA StepIInv == IInv /\ [Next]_vars => IInv'
<1> SUFFICES ASSUME IInv, [Next]_vars PROVE IInv'
  OBVIOUS
<1>1. ASSUME NEW u \in Users, Exchange(u) PROVE IInv'
  BY <1>1, BeginStep, ReceiveStep, StillStep DEF Exchange
<1>2. ASSUME NEW w \in Workers, Work(w) PROVE IInv'
  BY <1>2, CollectStep, WorkerMoves DEF Work
<1>3. CASE TakeKey \/ Command \/ RetryWait \/ Serve \/ UNCHANGED vars
  BY <1>3, KeyMoves, CommandStep, ServeStep, StillStep
<1>4. QED
  BY <1>1, <1>2, <1>3 DEF Next

\* Whatever a worker records was read by its own request for that very point, and
\* whatever a command reports was acknowledged, and confirmed, for its own objects
\* (the invoke ID is compared at bacnet_manager.go:324 and :366): late, lost, repeated
\* and reordered answers never pass for another request's, for every endpoint whose
\* IDs come round more slowly than datagrams disappear.
THEOREM OwnAnswersHold == Spec => []OwnAnswers
<1>1. IInv => OwnAnswers
  BY DEF IInv
<1>2. QED
  BY <1>1, InitIInv, StepIInv, PTL DEF Spec
=============================================================================
