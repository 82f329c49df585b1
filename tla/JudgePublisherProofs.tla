------------------------ MODULE JudgePublisherProofs ------------------------
(***************************************************************************)
(* The publisher for any number of devices, workers and events.            *)
(*                                                                         *)
(* The token discipline is inductive by itself.  The bound on the channel  *)
(* needs the counter queuedPublications to be what it claims: the          *)
(* cardinality of the set Slots of queued positions.  Tokens map one to    *)
(* one to first positions, so there are at most QueueSize of them, and the *)
(* device being sent accounts for one more; a send with the mutex held     *)
(* therefore never blocks.                                                 *)
(*                                                                         *)
(* The admission counters need the stream of each device, which is the     *)
(* event being published followed by the queue: accepting appends to it,   *)
(* starting a publication leaves it alone (the token discipline says that  *)
(* nothing else of the device is being published), finishing one takes its *)
(* head.  A device is charged the length and the weight of its stream, and *)
(* the global counters are sums over the devices (module Sums).  The same  *)
(* three facts are the refinement of JudgeDelivery.                        *)
(***************************************************************************)
EXTENDS JudgePublisher, Sums

Pending(d) == deviceQueues[d].pending

\* The positions of the events that are queued and not yet taken by a worker.
Slots == UNION {{<<d, i>> : i \in 1..Len(Pending(d))} : d \in Devices}

CountInv ==
  /\ IsFiniteSet(Slots)
  /\ queuedPublications = Cardinality(Slots)
  /\ queuedPublications <= QueueSize

IInv == TypeOK /\ TokenDiscipline /\ CountInv

-----------------------------------------------------------------------------

LEMMA SlotsElement ==
  /\ \A d, i : <<d, i>> \in Slots <=> d \in Devices /\ i \in 1..Len(Pending(d))
  /\ \A d, i : <<d, i>> \in Slots' <=> d \in Devices /\ i \in 1..Len(Pending(d)')
  /\ \A s \in Slots : \E d, i : s = <<d, i>>
  /\ \A s \in Slots' : \E d, i : s = <<d, i>>
BY DEF Slots

LEMMA InitIInv == Init => IInv
<1> SUFFICES ASSUME Init PROVE IInv
  OBVIOUS
<1> USE PublisherAssumption DEF PublisherAssumption, Init
<1>1. TypeOK
  <2>1. NoQueue \in DeviceQueue
    BY DEF NoQueue, DeviceQueue
  <2>2. deviceQueues \in [Devices -> DeviceQueue]
    BY <2>1
  <2>3. /\ readyDevices \in Seq(Devices) /\ queuedPublications \in Nat /\ queueBytes \in Nat
        /\ enqueuing \in Devices \cup {NoDevice}
    OBVIOUS
  <2>4. /\ at \in [Workers -> Places] /\ holds \in [Workers -> Devices \cup {NoDevice}]
        /\ \A w \in Workers : holds[w] = NoDevice <=> at[w] \in {"select", "exited"}
    BY DEF Places
  <2>5. /\ payload \in [Workers -> Payloads \cup {NoPayload}]
        /\ \A w \in Workers : payload[w] = NoPayload <=> at[w] # "publish"
        /\ cancelled \in BOOLEAN /\ closed \in BOOLEAN
    OBVIOUS
  <2>6. QED
    BY <2>2, <2>3, <2>4, <2>5 DEF TypeOK
<1>2. TokenDiscipline
  BY DEF NoQueue, TokenDiscipline, OneTokenPerDevice, ScheduledMeansToken, TokenMeansWork,
         InChannel, Held
<1>3. Slots = {}
  BY DEF Slots, Pending, NoQueue
<1>4. CountInv
  BY <1>3, FS_EmptySet DEF CountInv
<1>5. QED
  BY <1>1, <1>2, <1>4 DEF IInv

-----------------------------------------------------------------------------
(* Type correctness. *)

LEMMA QueueFields ==
  ASSUME NEW q \in DeviceQueue
  PROVE  /\ q.pending \in Seq(Payloads) /\ q.scheduled \in BOOLEAN
         /\ q.outstandingCount \in Int /\ q.outstandingBytes \in Int
BY DEF DeviceQueue

LEMMA ReleaseTyping ==
  ASSUME NEW q \in DeviceQueue, NEW size \in Int
  PROVE  /\ Release(q, size) \in DeviceQueue
         /\ Release(q, size).pending = q.pending
         /\ Release(q, size).scheduled = q.scheduled
<1>1. Release(q, size) = [q EXCEPT !.outstandingCount = q.outstandingCount - 1,
                                   !.outstandingBytes = q.outstandingBytes - size]
  BY DEF Release, DeviceQueue
<1>2. q.outstandingCount - 1 \in Int /\ q.outstandingBytes - size \in Int
  BY QueueFields
<1>3. Release(q, size) \in DeviceQueue
  BY <1>1, <1>2 DEF DeviceQueue
<1>4. Release(q, size).pending = q.pending /\ Release(q, size).scheduled = q.scheduled
  BY DEF Release, DeviceQueue
<1>5. QED
  BY <1>3, <1>4

LEMMA EmptyQueueTyping == NoQueue \in DeviceQueue
BY DEF NoQueue, DeviceQueue

LEMMA TypeStep == TypeOK /\ [Next]_vars => TypeOK'
<1> SUFFICES ASSUME TypeOK, [Next]_vars PROVE TypeOK'
  OBVIOUS
<1> USE PublisherAssumption DEF PublisherAssumption, TypeOK, Places, workerVars, queues
<1>1. ASSUME NEW d \in Devices, NEW p \in Payloads, Enqueue(d, p) PROVE TypeOK'
  <2> DEFINE q == deviceQueues[d]
             r == [pending |-> Append(q.pending, p), scheduled |-> TRUE,
                   outstandingCount |-> q.outstandingCount + 1,
                   outstandingBytes |-> q.outstandingBytes + Bytes[p]]
  <2>1. q \in DeviceQueue /\ Bytes[p] \in Int
    OBVIOUS
  <2>2. q.pending \in Seq(Payloads) /\ q.outstandingCount \in Int /\ q.outstandingBytes \in Int
    BY <2>1, QueueFields
  <2>3. r \in DeviceQueue
    BY <2>1, <2>2 DEF DeviceQueue
  <2>4. deviceQueues' = [deviceQueues EXCEPT ![d] = r]
    BY <1>1 DEF Enqueue
  <2>5. deviceQueues' \in [Devices -> DeviceQueue]
    BY <2>3, <2>4
  <2>6. QED
    BY <1>1, <2>5 DEF Enqueue
<1>2. CASE EnqueueSend
  BY <1>2 DEF EnqueueSend, Send
<1>3. ASSUME NEW w \in Workers, TakeToken(w) PROVE TypeOK'
  BY <1>3 DEF TakeToken, Goto
<1>4. ASSUME NEW w \in Workers, NextPublication(w) PROVE TypeOK'
  <2> DEFINE d == holds[w]
             q == deviceQueues[d]
  <2>1. d \in Devices /\ q \in DeviceQueue
    BY <1>4 DEF NextPublication
  <2> HIDE DEF q
  <2>a. q.pending \in Seq(Payloads)
    BY <2>1, QueueFields
  <2>2. CASE q.pending = <<>>
    BY <1>4, <2>2 DEF NextPublication, Goto, q
  <2>3. CASE q.pending # <<>>
    <3>1. Head(q.pending) \in Payloads /\ Tail(q.pending) \in Seq(Payloads)
      BY <2>a, <2>3
    <3>2. deviceQueues' = [deviceQueues EXCEPT ![d] = [q EXCEPT !.pending = Tail(q.pending)]]
      BY <1>4, <2>3 DEF NextPublication, q
    <3>3. [q EXCEPT !.pending = Tail(q.pending)] \in DeviceQueue
      BY <2>1, <3>1 DEF DeviceQueue
    <3>b. deviceQueues' \in [Devices -> DeviceQueue]
      BY <2>1, <3>3, <3>2
    <3>4. payload' = [payload EXCEPT ![w] = Head(q.pending)] /\ at' = [at EXCEPT ![w] = "publish"]
          /\ holds' = holds /\ at[w] = "next"
      BY <1>4, <2>3 DEF NextPublication, Goto, HeadOfLine, q
    <3>5. queuedPublications' \in Nat
      BY <1>4, <2>3 DEF NextPublication, q
    <3>6. UNCHANGED <<readyDevices, queueBytes, enqueuing, cancelled, closed>>
      BY <1>4 DEF NextPublication
    <3>7. QED
      BY <3>1, <3>b, <3>4, <3>5, <3>6
  <2>4. QED
    BY <2>2, <2>3
<1>5. ASSUME NEW w \in Workers, CompletePublication(w) PROVE TypeOK'
  <2> DEFINE d == holds[w]
             size == Bytes[payload[w]]
             q == Release(deviceQueues[d], size)
  <2>1. at[w] = "publish"
    BY <1>5 DEF CompletePublication
  <2>2. d \in Devices /\ payload[w] \in Payloads
    BY <2>1
  <2>3. size \in Nat
    BY <2>2
  <2>4. q \in DeviceQueue
    BY <2>2, <2>3, ReleaseTyping
  <2>5. /\ payload' = [payload EXCEPT ![w] = NoPayload] /\ queueBytes' \in Nat
        /\ UNCHANGED <<readyDevices, queuedPublications, enqueuing, cancelled, closed>>
    BY <1>5, <2>3 DEF CompletePublication
  <2>6. CASE HasMore(q)
    <3>1. /\ deviceQueues' = [deviceQueues EXCEPT ![d] = q]
          /\ at' = [at EXCEPT ![w] = "requeue"] /\ holds' = holds
      BY <1>5, <2>6 DEF CompletePublication, Goto
    <3>2. QED
      BY <2>1, <2>2, <2>4, <2>5, <3>1
  <2>7. CASE ~HasMore(q)
    <3>1. /\ deviceQueues' = [deviceQueues EXCEPT ![d] = NoQueue]
          /\ at' = [at EXCEPT ![w] = "select"] /\ holds' = [holds EXCEPT ![w] = NoDevice]
      BY <1>5, <2>7 DEF CompletePublication, Goto
    <3>2. QED
      BY <2>1, <2>2, <2>5, <3>1, EmptyQueueTyping
  <2>8. QED
    BY <2>6, <2>7
<1>6. ASSUME NEW w \in Workers, RequeueSend(w) PROVE TypeOK'
  <2>1. at[w] = "requeue" /\ holds[w] \in Devices
    BY <1>6 DEF RequeueSend
  <2>2. readyDevices' \in Seq(Devices)
    BY <1>6, <2>1 DEF RequeueSend, Send
  <2>3. QED
    BY <1>6, <2>1, <2>2 DEF RequeueSend, Goto
<1>7. ASSUME NEW w \in Workers, WorkerExit(w) PROVE TypeOK'
  BY <1>7 DEF WorkerExit, Goto
<1>8. CASE Cancel
  BY <1>8 DEF Cancel
<1>9. CASE Stop
  BY <1>9 DEF Stop
<1>10. CASE UNCHANGED vars
  BY <1>10 DEF vars
<1>11. QED
  BY <1>1, <1>2, <1>3, <1>4, <1>5, <1>6, <1>7, <1>8, <1>9, <1>10
  DEF Next, WorkerStep, Stopped
-----------------------------------------------------------------------------
(* The token discipline. *)

LEMMA EnqueueToken ==
  ASSUME TypeOK, TokenDiscipline, NEW d \in Devices, NEW p \in Payloads, Enqueue(d, p)
  PROVE  TokenDiscipline'
<1> USE DEF TypeOK
<1>1. /\ UNCHANGED <<readyDevices, holds, at>> /\ enqueuing = NoDevice
      /\ enqueuing' = IF deviceQueues[d].scheduled THEN NoDevice ELSE d
      /\ deviceQueues'[d].scheduled = TRUE /\ deviceQueues'[d].pending # <<>>
      /\ \A e \in Devices \ {d} : deviceQueues'[e] = deviceQueues[e]
  <2>1. deviceQueues[d] \in DeviceQueue /\ deviceQueues[d].pending \in Seq(Payloads)
    BY QueueFields
  <2>2. Append(deviceQueues[d].pending, p) # <<>>
    BY <2>1
  <2>3. QED
    BY <2>2 DEF Enqueue, MutexFree, NeedsToken, workerVars
<1> USE PublisherAssumption DEF PublisherAssumption, TokenDiscipline, InChannel, Held
<1>2. OneTokenPerDevice'
  BY <1>1 DEF OneTokenPerDevice, ScheduledMeansToken
<1>3. ScheduledMeansToken'
  BY <1>1 DEF ScheduledMeansToken
<1>4. TokenMeansWork'
  BY <1>1 DEF TokenMeansWork
<1>5. QED
  BY <1>2, <1>3, <1>4

LEMMA SendToken ==
  ASSUME TypeOK, TokenDiscipline, EnqueueSend
  PROVE  TokenDiscipline'
<1> USE DEF TypeOK
<1>1. /\ UNCHANGED <<deviceQueues, holds, at>> /\ enqueuing \in Devices
      /\ readyDevices' = Append(readyDevices, enqueuing)
      /\ enqueuing' = NoDevice
  BY DEF EnqueueSend, Send, workerVars
<1> USE PublisherAssumption DEF PublisherAssumption, TokenDiscipline, InChannel, Held
<1>a. \A d \in Devices : InChannel(d)' <=> InChannel(d) \/ d = enqueuing
  BY <1>1
<1>2. OneTokenPerDevice'
  <2>1. ~InChannel(enqueuing) /\ ~Held(enqueuing)
    BY <1>1 DEF OneTokenPerDevice
  <2>2. \A i, j \in 1..Len(readyDevices') : readyDevices'[i] = readyDevices'[j] => i = j
    BY <1>1, <2>1 DEF OneTokenPerDevice
  <2>3. \A d \in Devices : Held(d)' <=> Held(d)
    BY <1>1
  <2>4. \A d \in Devices : ~(InChannel(d)' /\ Held(d)')
    <3> HIDE DEF InChannel, Held
    <3> QED
      BY <1>a, <2>1, <2>3 DEF OneTokenPerDevice
  <2>5. \A d \in Devices : enqueuing' # d
    BY <1>1
  <2>6. QED
    BY <1>1, <2>2, <2>4, <2>5 DEF OneTokenPerDevice
<1>3. ScheduledMeansToken'
  BY <1>1, <1>a DEF ScheduledMeansToken
<1>4. TokenMeansWork'
  BY <1>1, <1>a DEF TokenMeansWork
<1>5. QED
  BY <1>2, <1>3, <1>4

LEMMA TakeTokenToken ==
  ASSUME TypeOK, TokenDiscipline, NEW w \in Workers, TakeToken(w)
  PROVE  TokenDiscipline'
<1> USE DEF TypeOK
<1>0. PICK d \in Devices : d = Head(readyDevices)
  BY DEF TakeToken
<1>1. /\ UNCHANGED <<deviceQueues, enqueuing>> /\ readyDevices # <<>>
      /\ holds[w] = NoDevice /\ holds' = [holds EXCEPT ![w] = d]
      /\ at' = [at EXCEPT ![w] = "next"]
      /\ readyDevices' = Tail(readyDevices)
  BY <1>0 DEF TakeToken, Goto
<1>2. Len(readyDevices') = Len(readyDevices) - 1
      /\ \A i \in 1..Len(readyDevices') : readyDevices'[i] = readyDevices[i + 1]
  BY <1>0, <1>1
<1>h. d = readyDevices[1] /\ 1 \in 1..Len(readyDevices) /\ Len(readyDevices) \in Nat
  BY <1>0, <1>1
<1>3. \A i, j \in 1..Len(readyDevices) : readyDevices[i] = readyDevices[j] => i = j
  BY DEF TokenDiscipline, OneTokenPerDevice
<1>4. \A e \in Devices : InChannel(e) <=> InChannel(e)' \/ e = d
  <2>1. ASSUME NEW e \in Devices, InChannel(e) PROVE InChannel(e)' \/ e = d
    <3>1. PICK i \in 1..Len(readyDevices) : readyDevices[i] = e
      BY <2>1 DEF InChannel
    <3>2. CASE i = 1
      <4>1. e = readyDevices[1]
        BY <3>1, <3>2
      <4>2. QED
        BY <1>h, <4>1
    <3>3. CASE i # 1
      <4>1. i - 1 \in 1..Len(readyDevices') /\ readyDevices'[i - 1] = e
        BY <1>2, <1>h, <3>1, <3>3
      <4>2. QED
        BY <4>1 DEF InChannel
    <3>4. QED
      BY <3>2, <3>3
  <2>2. ASSUME NEW e \in Devices, InChannel(e)' \/ e = d PROVE InChannel(e)
    <3>1. CASE e = d
      <4>1. 1 \in 1..Len(readyDevices) /\ readyDevices[1] = e
        BY <1>h, <3>1
      <4>2. QED
        BY <4>1 DEF InChannel
    <3>2. CASE InChannel(e)'
      <4>1. PICK i \in 1..Len(readyDevices') : readyDevices'[i] = e
        BY <3>2 DEF InChannel
      <4>2. i + 1 \in 1..Len(readyDevices) /\ readyDevices[i + 1] = e
        BY <1>2, <1>h, <4>1
      <4>3. QED
        BY <4>2 DEF InChannel
    <3>3. QED
      BY <2>2, <3>1, <3>2
  <2>3. QED
    BY <2>1, <2>2
<1>5. ~InChannel(d)'
  <2>1. ASSUME NEW i \in 1..Len(readyDevices'), readyDevices'[i] = d PROVE FALSE
    <3>1. i + 1 \in 1..Len(readyDevices) /\ 1 \in 1..Len(readyDevices) /\ i + 1 # 1
      BY <1>2, <1>h
    <3>2. readyDevices[i + 1] = readyDevices[1]
      BY <1>2, <1>h, <2>1
    <3>3. QED
      BY <1>3, <3>1, <3>2
  <2>2. QED
    BY <2>1 DEF InChannel
<1>6. \A e \in Devices : Held(e)' <=> Held(e) \/ e = d
  BY <1>1, PublisherAssumption DEF Held, PublisherAssumption
<1>7. InChannel(d)
  BY <1>1, <1>4
<1> HIDE DEF TypeOK
<1> USE DEF TokenDiscipline
<1>8. OneTokenPerDevice'
  <2>1. \A i, j \in 1..Len(readyDevices') : readyDevices'[i] = readyDevices'[j] => i = j
    BY <1>2, <1>3
  <2>2. \A u, v \in Workers : holds'[u] = holds'[v] => u = v \/ holds'[u] = NoDevice
    BY <1>1, <1>7 DEF OneTokenPerDevice, Held, TypeOK
  <2>3. ~Held(d) /\ enqueuing # d
    BY <1>1, <1>7 DEF OneTokenPerDevice
  <2>4. ASSUME NEW e \in Devices
        PROVE  ~(InChannel(e)' /\ Held(e)') /\ (enqueuing' = e => ~InChannel(e)' /\ ~Held(e)')
    <3>1. CASE e = d
      BY <1>1, <1>5, <2>3, <3>1
    <3>2. CASE e # d
      <4>1. InChannel(e)' = InChannel(e) /\ Held(e)' = Held(e) /\ enqueuing' = enqueuing
        BY <1>1, <1>4, <1>6, <3>2 DEF InChannel, Held
      <4>2. QED
        BY <4>1 DEF OneTokenPerDevice
    <3>3. QED
      BY <3>1, <3>2
  <2>5. QED
    BY <2>1, <2>2, <2>4 DEF OneTokenPerDevice
<1>9. ScheduledMeansToken'
  BY <1>1, <1>4, <1>6 DEF ScheduledMeansToken
<1>10. TokenMeansWork'
  BY <1>1, <1>4, <1>7, PublisherAssumption DEF TokenMeansWork, PublisherAssumption, TypeOK
<1>11. QED
  BY <1>8, <1>9, <1>10
LEMMA NextPublicationToken ==
  ASSUME TypeOK, TokenDiscipline, NEW w \in Workers, NextPublication(w)
  PROVE  /\ TokenDiscipline'
         /\ deviceQueues[holds[w]].pending # <<>>
<1>1. at[w] = "next" /\ holds[w] \in Devices
  BY DEF TypeOK, NextPublication
<1> DEFINE d == holds[w]
<1>2. deviceQueues[d].pending # <<>> /\ deviceQueues[d] \in DeviceQueue
  BY <1>1 DEF TokenDiscipline, TokenMeansWork, TypeOK
<1>3. /\ UNCHANGED <<readyDevices, enqueuing, holds>>
      /\ at' = [at EXCEPT ![w] = "publish"]
      /\ \A e \in Devices \ {d} : deviceQueues'[e] = deviceQueues[e]
      /\ deviceQueues'[d].scheduled = deviceQueues[d].scheduled
  BY <1>1, <1>2 DEF NextPublication, Goto, TypeOK, DeviceQueue
<1>4. deviceQueues[d].scheduled /\ ~InChannel(d) /\ enqueuing # d
  BY <1>1, <1>2 DEF TokenDiscipline, TokenMeansWork, OneTokenPerDevice, Held
<1>5. \A v \in Workers : holds[v] = d => v = w
  BY <1>1, PublisherAssumption DEF PublisherAssumption, TokenDiscipline, OneTokenPerDevice
<1>6. OneTokenPerDevice'
  BY <1>3 DEF TokenDiscipline, OneTokenPerDevice, InChannel, Held
<1>7. ScheduledMeansToken'
  BY <1>3 DEF TokenDiscipline, ScheduledMeansToken, InChannel, Held
<1>8. TokenMeansWork'
  <2>1. \A v \in Workers : holds[v] = d => at'[v] = "publish"
    BY <1>3, <1>5 DEF TypeOK
  <2>2. \A v \in Workers : holds[v] # d => at'[v] = at[v]
    BY <1>3 DEF TypeOK
  <2>3. \A e \in Devices : InChannel(e)' <=> InChannel(e)
    BY <1>3 DEF InChannel
  <2>4. ASSUME NEW e \in Devices
        PROVE  LET waits == deviceQueues'[e].pending # <<>> IN
               /\ waits => deviceQueues'[e].scheduled
               /\ InChannel(e)' \/ enqueuing' = e => waits
               /\ \A v \in Workers : holds'[v] = e /\ at'[v] \in {"next", "requeue"} => waits
    <3>1. CASE e = d
      BY <1>3, <1>4, <2>1, <2>3, <3>1
    <3>2. CASE e # d
      BY <1>3, <2>2, <2>3, <3>2 DEF TokenDiscipline, TokenMeansWork
    <3>3. QED
      BY <3>1, <3>2
  <2>5. QED
    BY <2>4 DEF TokenMeansWork
<1>9. QED
  BY <1>2, <1>6, <1>7, <1>8 DEF TokenDiscipline

LEMMA CompletePublicationToken ==
  ASSUME TypeOK, TokenDiscipline, NEW w \in Workers, CompletePublication(w)
  PROVE  /\ TokenDiscipline'
         /\ \A e \in Devices : deviceQueues'[e].pending = deviceQueues[e].pending
<1>0. PICK d \in Devices : d = holds[w]
  BY DEF TypeOK, CompletePublication
<1> DEFINE size == Bytes[payload[w]]
           q == deviceQueues[d]
<1>1. at[w] = "publish" /\ payload[w] \in Payloads /\ q \in DeviceQueue
  BY <1>0 DEF TypeOK, CompletePublication
<1>2. size \in Int
  BY <1>1, PublisherAssumption DEF PublisherAssumption
<1>3. Release(q, size).pending = q.pending /\ Release(q, size).scheduled = q.scheduled
  BY <1>1, <1>2, ReleaseTyping
<1>4. UNCHANGED <<readyDevices, enqueuing>>
  BY DEF CompletePublication
<1>5. q.scheduled /\ ~InChannel(d) /\ enqueuing # d
  BY <1>0, <1>1 DEF TokenDiscipline, ScheduledMeansToken, OneTokenPerDevice, Held
<1>6. \A v \in Workers : holds[v] = d => v = w
  BY <1>0, <1>1, PublisherAssumption DEF PublisherAssumption, TokenDiscipline, OneTokenPerDevice
<1>7. CASE q.pending # <<>>
  <2>1. /\ holds' = holds /\ at' = [at EXCEPT ![w] = "requeue"]
        /\ \A e \in Devices : /\ deviceQueues'[e].pending = deviceQueues[e].pending
                              /\ deviceQueues'[e].scheduled = deviceQueues[e].scheduled
    BY <1>0, <1>1, <1>3, <1>7 DEF CompletePublication, HasMore, Goto, TypeOK
  <2>2. OneTokenPerDevice'
    BY <1>4, <2>1 DEF TokenDiscipline, OneTokenPerDevice, InChannel, Held
  <2>3. ScheduledMeansToken'
    BY <1>4, <2>1 DEF TokenDiscipline, ScheduledMeansToken, InChannel, Held
  <2>4. TokenMeansWork'
    BY <1>0, <1>4, <1>5, <1>6, <1>7, <2>1 DEF TokenDiscipline, TokenMeansWork, InChannel, TypeOK
  <2>5. QED
    BY <2>1, <2>2, <2>3, <2>4 DEF TokenDiscipline
<1>8. CASE q.pending = <<>>
  <2>1. /\ holds' = [holds EXCEPT ![w] = NoDevice] /\ at' = [at EXCEPT ![w] = "select"]
        /\ deviceQueues' = [deviceQueues EXCEPT ![d] = NoQueue]
    BY <1>0, <1>3, <1>8 DEF CompletePublication, HasMore, Goto
  <2>2. /\ deviceQueues'[d].pending = <<>> /\ deviceQueues'[d].scheduled = FALSE
        /\ \A e \in Devices \ {d} : deviceQueues'[e] = deviceQueues[e]
    BY <1>1, <2>1 DEF NoQueue, TypeOK
  <2>3. \A e \in Devices : Held(e)' <=> Held(e) /\ e # d
    BY <1>0, <1>1, <1>6, <2>1, PublisherAssumption DEF Held, TypeOK, PublisherAssumption
  <2>4. \A e \in Devices : InChannel(e)' <=> InChannel(e)
    BY <1>4 DEF InChannel
  <2>5. OneTokenPerDevice'
    <3>1. \A u, v \in Workers : holds'[u] = holds'[v] => u = v \/ holds'[u] = NoDevice
      BY <2>1 DEF TokenDiscipline, OneTokenPerDevice, TypeOK
    <3>2. QED
      BY <1>4, <2>3, <2>4, <3>1 DEF TokenDiscipline, OneTokenPerDevice
  <2>6. ScheduledMeansToken'
    BY <1>4, <1>5, <2>2, <2>3, <2>4 DEF TokenDiscipline, ScheduledMeansToken
  <2>7. TokenMeansWork'
    <3>1. \A v \in Workers : /\ holds'[v] # d
                             /\ \A e \in Devices : holds'[v] = e => holds[v] = e /\ at'[v] = at[v]
      BY <1>0, <1>1, <1>6, <2>1, PublisherAssumption DEF TypeOK, PublisherAssumption
    <3>2. ASSUME NEW e \in Devices, e # d
          PROVE  deviceQueues'[e] = deviceQueues[e] /\ InChannel(e)' = InChannel(e)
      BY <1>4, <2>2, <3>2 DEF InChannel
    <3>3. ~InChannel(d)' /\ enqueuing' # d
      BY <1>4, <1>5 DEF InChannel
    <3>4. QED
      BY <1>4, <2>2, <3>1, <3>2, <3>3 DEF TokenDiscipline, TokenMeansWork
  <2>8. QED
    BY <1>8, <2>2, <2>5, <2>6, <2>7 DEF TokenDiscipline
<1>9. QED
  BY <1>7, <1>8

LEMMA RequeueToken ==
  ASSUME TypeOK, TokenDiscipline, NEW w \in Workers, RequeueSend(w)
  PROVE  TokenDiscipline'
<1>0. PICK d \in Devices : d = holds[w]
  BY DEF TypeOK, RequeueSend
<1>1. at[w] = "requeue"
  BY DEF RequeueSend
<1>2. /\ UNCHANGED <<deviceQueues, enqueuing>>
      /\ readyDevices' = Append(readyDevices, d)
      /\ holds' = [holds EXCEPT ![w] = NoDevice] /\ at' = [at EXCEPT ![w] = "select"]
  BY <1>0 DEF RequeueSend, Send, Goto
<1>3. ~InChannel(d) /\ enqueuing # d /\ deviceQueues[d].pending # <<>>
  BY <1>0, <1>1 DEF TokenDiscipline, OneTokenPerDevice, TokenMeansWork, Held
<1>4. \A v \in Workers : holds[v] = d => v = w
  BY <1>0, <1>1, PublisherAssumption DEF PublisherAssumption, TokenDiscipline, OneTokenPerDevice
<1>5. \A e \in Devices : Held(e)' <=> Held(e) /\ e # d
  BY <1>0, <1>1, <1>2, <1>4, PublisherAssumption DEF Held, TypeOK, PublisherAssumption
<1>6. \A e \in Devices : InChannel(e)' <=> InChannel(e) \/ e = d
  BY <1>0, <1>1, <1>2 DEF InChannel, TypeOK
<1>7. OneTokenPerDevice'
  <2>1. \A i, j \in 1..Len(readyDevices') : readyDevices'[i] = readyDevices'[j] => i = j
    BY <1>0, <1>1, <1>2, <1>3 DEF TokenDiscipline, OneTokenPerDevice, InChannel, TypeOK
  <2>2. \A u, v \in Workers : holds'[u] = holds'[v] => u = v \/ holds'[u] = NoDevice
    BY <1>2 DEF TokenDiscipline, OneTokenPerDevice, TypeOK
  <2>3. QED
    BY <1>2, <1>3, <1>5, <1>6, <2>1, <2>2 DEF TokenDiscipline, OneTokenPerDevice
<1>8. ScheduledMeansToken'
  <2>1. deviceQueues[d].scheduled
    BY <1>0, <1>1, <1>3 DEF TokenDiscipline, TokenMeansWork
  <2>2. QED
    BY <1>2, <1>5, <1>6, <2>1 DEF TokenDiscipline, ScheduledMeansToken
<1>9. TokenMeansWork'
  BY <1>0, <1>1, <1>2, <1>3, <1>6, PublisherAssumption
  DEF TokenDiscipline, TokenMeansWork, TypeOK, PublisherAssumption
<1>10. QED
  BY <1>7, <1>8, <1>9 DEF TokenDiscipline

LEMMA OtherToken ==
  ASSUME TypeOK, TokenDiscipline,
         (\E w \in Workers : WorkerExit(w)) \/ Cancel \/ Stop \/ UNCHANGED vars
  PROVE  TokenDiscipline' /\ UNCHANGED <<deviceQueues, queuedPublications>>
<1>1. /\ UNCHANGED queues /\ UNCHANGED holds
      /\ \A w \in Workers : at'[w] \in {"next", "requeue"} => at'[w] = at[w]
  BY DEF WorkerExit, Goto, Cancel, Stop, vars, workerVars, TypeOK
<1>2. UNCHANGED <<deviceQueues, readyDevices, queuedPublications, enqueuing>>
  BY <1>1 DEF queues
<1>3. OneTokenPerDevice'
  BY <1>1, <1>2 DEF TokenDiscipline, OneTokenPerDevice, InChannel, Held
<1>4. ScheduledMeansToken'
  BY <1>1, <1>2 DEF TokenDiscipline, ScheduledMeansToken, InChannel, Held
<1>5. TokenMeansWork'
  BY <1>1, <1>2 DEF TokenDiscipline, TokenMeansWork, InChannel, Held
<1>6. QED
  BY <1>2, <1>3, <1>4, <1>5 DEF TokenDiscipline

-----------------------------------------------------------------------------
(* The counter of queued events and the bound on the channel. *)

\* A step that keeps every queue keeps the count.
LEMMA SlotsKept ==
  ASSUME \A d \in Devices : deviceQueues'[d].pending = deviceQueues[d].pending
  PROVE  Slots' = Slots
BY DEF Slots, Pending

LEMMA EnqueueCount ==
  ASSUME TypeOK, CountInv, NEW d \in Devices, NEW p \in Payloads, Enqueue(d, p)
  PROVE  CountInv'
<1> DEFINE n == Len(Pending(d)) + 1
<1>1. deviceQueues[d] \in DeviceQueue /\ Pending(d) \in Seq(Payloads)
  BY QueueFields DEF TypeOK, Pending
<1>2. /\ Pending(d)' = Append(Pending(d), p)
      /\ \A e \in Devices \ {d} : Pending(e)' = Pending(e)
      /\ queuedPublications' = queuedPublications + 1
      /\ queuedPublications < QueueSize
  BY DEF Enqueue, Admits, TypeOK, Pending
<1>3. Len(Pending(d)') = n /\ n \in Nat /\ n >= 1
  BY <1>1, <1>2
<1>4. Slots' = Slots \cup {<<d, n>>}
  <2>1. 1..Len(Pending(d)') = (1..Len(Pending(d))) \cup {n}
    BY <1>1, <1>3
  <2>2. \A e, i : <<e, i>> \in Slots' <=> <<e, i>> \in Slots \/ <<e, i>> = <<d, n>>
    BY <1>2, <2>1, SlotsElement
  <2>3. QED
    BY <2>2, SlotsElement
<1>5. <<d, n>> \notin Slots
  BY <1>1, SlotsElement
<1>6. IsFiniteSet(Slots') /\ Cardinality(Slots') = Cardinality(Slots) + 1
  BY <1>4, <1>5, FS_AddElement DEF CountInv
<1>7. QED
  BY <1>2, <1>6, PublisherAssumption DEF CountInv, TypeOK, PublisherAssumption

LEMMA NextPublicationCount ==
  ASSUME TypeOK, CountInv, NEW w \in Workers, NextPublication(w),
         deviceQueues[holds[w]].pending # <<>>
  PROVE  CountInv'
<1>0. PICK d \in Devices : d = holds[w]
  BY DEF TypeOK, NextPublication
<1> DEFINE n == Len(Pending(d))
<1>1. deviceQueues[d] \in DeviceQueue /\ Pending(d) \in Seq(Payloads) /\ Pending(d) # <<>>
  BY <1>0, QueueFields DEF TypeOK, Pending
<1>2. /\ Pending(d)' = Tail(Pending(d))
      /\ \A e \in Devices \ {d} : Pending(e)' = Pending(e)
      /\ queuedPublications' = IF queuedPublications > 0 THEN queuedPublications - 1 ELSE 0
  BY <1>0, <1>1 DEF NextPublication, TypeOK, Pending, DeviceQueue
<1>3. Len(Pending(d)') = n - 1 /\ n \in Nat /\ n >= 1
  BY <1>1, <1>2
<1>4. <<d, n>> \in Slots
  BY <1>3, SlotsElement
<1>5. Slots' = Slots \ {<<d, n>>}
  <2>1. \A i : i \in 1..Len(Pending(d)') <=> i \in 1..Len(Pending(d)) /\ i # n
    BY <1>3
  <2>2. \A e, i : <<e, i>> \in Slots' <=> <<e, i>> \in Slots /\ <<e, i>> # <<d, n>>
    BY <1>2, <2>1, SlotsElement
  <2>3. QED
    BY <2>2, SlotsElement
<1>6. IsFiniteSet(Slots') /\ Cardinality(Slots') = Cardinality(Slots) - 1
  BY <1>4, <1>5, FS_RemoveElement DEF CountInv
<1>7. Cardinality(Slots) \in Nat /\ Cardinality(Slots') \in Nat
  BY <1>6, FS_CardinalityType DEF CountInv
<1>8. QED
  BY <1>2, <1>6, <1>7, PublisherAssumption DEF CountInv, TypeOK, PublisherAssumption

\* Somebody is sending d's token: the tokens in the channel are of other devices
\* with queued work, so there are fewer of them than queued events.
LEMMA RoomInChannel ==
  ASSUME TypeOK, OneTokenPerDevice, TokenMeansWork, CountInv, NEW d \in Devices,
         ~InChannel(d), Pending(d) # <<>>
  PROVE  Len(readyDevices) < QueueSize
<1> DEFINE others == Slots \ {<<d, 1>>}
           first == [i \in 1..Len(readyDevices) |-> <<readyDevices[i], 1>>]
<1>1. Len(readyDevices) \in Nat
      /\ \A i \in 1..Len(readyDevices) : readyDevices[i] \in Devices /\ readyDevices[i] # d
  BY DEF TypeOK, InChannel
<1>2. \A e \in Devices : Pending(e) # <<>> => <<e, 1>> \in Slots
  <2>1. ASSUME NEW e \in Devices, Pending(e) # <<>> PROVE 1 \in 1..Len(Pending(e))
    <3>1. Pending(e) \in Seq(Payloads)
      BY QueueFields DEF TypeOK, Pending
    <3>2. QED
      BY <2>1, <3>1
  <2>2. QED
    BY <2>1, SlotsElement
<1>3. <<d, 1>> \in Slots
  BY <1>2
<1>4. IsFiniteSet(others) /\ Cardinality(others) = queuedPublications - 1
  BY <1>3, FS_RemoveElement DEF CountInv
<1>5. first \in Injection(1..Len(readyDevices), others)
  <2>1. \A i \in 1..Len(readyDevices) : <<readyDevices[i], 1>> \in others
    <3>1. ASSUME NEW i \in 1..Len(readyDevices) PROVE Pending(readyDevices[i]) # <<>>
      BY <1>1 DEF TokenMeansWork, InChannel, Pending
    <3>2. QED
      BY <1>1, <1>2, <3>1
  <2>2. first \in [1..Len(readyDevices) -> others]
    BY <2>1
  <2>3. \A i, j \in 1..Len(readyDevices) : first[i] = first[j] => i = j
    BY DEF OneTokenPerDevice
  <2>4. QED
    BY <2>2, <2>3 DEF Injection, IsInjective
<1>6. Cardinality(1..Len(readyDevices)) <= Cardinality(others)
  BY <1>4, <1>5, FS_Injection
<1>7. Cardinality(1..Len(readyDevices)) = Len(readyDevices)
  <2>1. Cardinality(1..Len(readyDevices)) =
          IF 1 > Len(readyDevices) THEN 0 ELSE Len(readyDevices) - 1 + 1
    BY <1>1, FS_Interval
  <2>2. QED
    BY <1>1, <2>1
<1>8. QED
  BY <1>1, <1>4, <1>6, <1>7, PublisherAssumption DEF CountInv, TypeOK, PublisherAssumption

-----------------------------------------------------------------------------

LEMMA StepIInv == IInv /\ [Next]_vars => IInv'
<1> SUFFICES ASSUME IInv, [Next]_vars PROVE IInv'
  OBVIOUS
<1> USE DEF IInv
<1>0. TypeOK'
  BY TypeStep
<1>1. ASSUME NEW d \in Devices, NEW p \in Payloads, Enqueue(d, p) PROVE IInv'
  BY <1>0, <1>1, EnqueueToken, EnqueueCount
<1>2. CASE EnqueueSend
  <2>1. Slots' = Slots /\ queuedPublications' = queuedPublications
    BY <1>2, SlotsKept DEF EnqueueSend
  <2>2. QED
    BY <1>0, <1>2, <2>1, SendToken DEF CountInv
<1>3. ASSUME NEW w \in Workers, TakeToken(w) PROVE IInv'
  <2>1. Slots' = Slots /\ queuedPublications' = queuedPublications
    BY <1>3, SlotsKept DEF TakeToken
  <2>2. QED
    BY <1>0, <1>3, <2>1, TakeTokenToken DEF CountInv
<1>4. ASSUME NEW w \in Workers, NextPublication(w) PROVE IInv'
  BY <1>0, <1>4, NextPublicationToken, NextPublicationCount
<1>5. ASSUME NEW w \in Workers, CompletePublication(w) PROVE IInv'
  <2>1. Slots' = Slots /\ queuedPublications' = queuedPublications
    BY <1>5, CompletePublicationToken, SlotsKept DEF CompletePublication
  <2>2. QED
    BY <1>0, <1>5, <2>1, CompletePublicationToken DEF CountInv
<1>6. ASSUME NEW w \in Workers, RequeueSend(w) PROVE IInv'
  <2>1. Slots' = Slots /\ queuedPublications' = queuedPublications
    BY <1>6, SlotsKept DEF RequeueSend
  <2>2. QED
    BY <1>0, <1>6, <2>1, RequeueToken DEF CountInv
<1>7. CASE (\E w \in Workers : WorkerExit(w)) \/ Cancel \/ Stop \/ UNCHANGED vars
  <2>1. TokenDiscipline' /\ UNCHANGED <<deviceQueues, queuedPublications>>
    BY <1>7, OtherToken
  <2>2. Slots' = Slots
    BY <2>1, SlotsKept
  <2>3. QED
    BY <1>0, <2>1, <2>2 DEF CountInv
<1>8. QED
  BY <1>1, <1>2, <1>3, <1>4, <1>5, <1>6, <1>7 DEF Next, WorkerStep, Stopped

LEMMA NeverBlocks == IInv => SendNeverBlocks
<1> SUFFICES ASSUME IInv, ~MutexFree PROVE Len(readyDevices) < QueueSize
  BY DEF SendNeverBlocks
<1> USE DEF IInv, TokenDiscipline
<1>1. CASE enqueuing # NoDevice
  <2>1. enqueuing \in Devices /\ ~InChannel(enqueuing) /\ Pending(enqueuing) # <<>>
    BY <1>1 DEF TypeOK, OneTokenPerDevice, TokenMeansWork, Pending
  <2>2. QED
    BY <2>1, RoomInChannel
<1>2. CASE \E w \in Workers : at[w] = "requeue"
  <2>1. PICK w \in Workers : at[w] = "requeue"
    BY <1>2
  <2>2. holds[w] \in Devices
    BY <2>1 DEF TypeOK
  <2>3. ~InChannel(holds[w]) /\ Pending(holds[w]) # <<>>
    BY <2>1, <2>2 DEF OneTokenPerDevice, TokenMeansWork, Held, Pending
  <2>4. QED
    BY <2>2, <2>3, RoomInChannel
<1>3. QED
  BY <1>1, <1>2 DEF MutexFree

\* Every variable keeps its type, for every pool size and every set of devices.
THEOREM TypeCorrect == Spec => []TypeOK
<1>1. IInv => TypeOK
  BY DEF IInv
<1>2. QED
  BY <1>1, InitIInv, StepIInv, PTL DEF Spec

\* A device has at most one token, and it has one exactly while it has work: no
\* two publications of a device overlap and no accepted event is stranded.
THEOREM TokenDisciplineHolds == Spec => []TokenDiscipline
<1>1. IInv => TokenDiscipline
  BY DEF IInv
<1>2. QED
  BY <1>1, InitIInv, StepIInv, PTL DEF Spec

\* The claim of the comment at judge_source_publisher.go:120-122: whoever sends on
\* readyDevices with queueMu held finds room, so the mutex is always released.
THEOREM SendNeverBlocksHolds == Spec => []SendNeverBlocks
<1>1. QED
  BY NeverBlocks, InitIInv, StepIInv, PTL DEF Spec

-----------------------------------------------------------------------------
(* What a device owes: its stream of accepted and unfinished events.  The  *)
(* event being published, if there is one, is the oldest.                  *)

Flying(d) ==
  IF InFlight(d) = {} THEN <<>> ELSE <<payload[CHOOSE w \in InFlight(d) : TRUE]>>

Stream(d) == Flying(d) \o Pending(d)

Weight(ps) == SeqTotal([i \in 1..Len(ps) |-> Bytes[ps[i]]])

StreamInv ==
  \A d \in Devices :
    /\ deviceQueues[d].outstandingCount = Len(Stream(d))
    /\ deviceQueues[d].outstandingBytes = Weight(Stream(d))
    /\ deviceQueues[d].outstandingCount <= DeviceQueueSize
    /\ deviceQueues[d].outstandingBytes <= DeviceQueueMaxBytes

Charged == [d \in Devices |-> deviceQueues[d].outstandingBytes]

ByteInv ==
  /\ IsFiniteSet(Dots(Charged, Devices))
  /\ queueBytes = Total(Charged, Devices)
  /\ queueBytes <= QueueMaxBytes

AInv == IInv /\ StreamInv /\ ByteInv

LEMMA WeightEmpty == Weight(<<>>) = 0
<1>1. [i \in 1..Len(<<>>) |-> Bytes[<<>>[i]]] = <<>>
  OBVIOUS
<1>2. QED
  BY <1>1, SeqTotalEmpty DEF Weight

LEMMA WeightStep ==
  ASSUME NEW ps \in Seq(Payloads)
  PROVE  /\ Weight(ps) \in Nat
         /\ \A p \in Payloads : Weight(Append(ps, p)) = Weight(ps) + Bytes[p]
         /\ ps # <<>> => Weight(ps) = Bytes[Head(ps)] + Weight(Tail(ps))
<1> USE PublisherAssumption DEF PublisherAssumption
<1> DEFINE ns == [i \in 1..Len(ps) |-> Bytes[ps[i]]]
<1>1. ns \in Seq(Nat) /\ Len(ns) = Len(ps)
  <2>1. \A i \in 1..Len(ps) : Bytes[ps[i]] \in Nat
    OBVIOUS
  <2>2. QED
    BY <2>1
<1>2. Weight(ps) \in Nat
  BY <1>1, SeqTotalType DEF Weight
<1>3. ASSUME NEW p \in Payloads PROVE Weight(Append(ps, p)) = Weight(ps) + Bytes[p]
  <2> DEFINE qs == Append(ps, p)
  <2>1. [i \in 1..Len(qs) |-> Bytes[qs[i]]] = Append(ns, Bytes[p])
    <3>1. Len(qs) = Len(ps) + 1
      OBVIOUS
    <3>2. \A i \in 1..(Len(ps) + 1) : qs[i] = IF i = Len(ps) + 1 THEN p ELSE ps[i]
      OBVIOUS
    <3>3. /\ Append(ns, Bytes[p]) = [i \in 1..(Len(ps) + 1) |->
                                       IF i = Len(ps) + 1 THEN Bytes[p] ELSE ns[i]]
      BY <1>1
    <3>4. QED
      BY <3>1, <3>2, <3>3
  <2>2. Bytes[p] \in Nat
    OBVIOUS
  <2> HIDE DEF ns
  <2>3. SeqTotal(Append(ns, Bytes[p])) = SeqTotal(ns) + Bytes[p]
    BY <1>1, <2>2, SeqTotalAppend
  <2>4. QED
    BY <2>1, <2>3 DEF Weight, ns
<1>4. ASSUME ps # <<>> PROVE Weight(ps) = Bytes[Head(ps)] + Weight(Tail(ps))
  <2> DEFINE ts == Tail(ps)
  <2>1. ns # <<>> /\ Head(ns) = Bytes[Head(ps)]
    BY <1>1, <1>4
  <2>2. [i \in 1..Len(ts) |-> Bytes[ts[i]]] = Tail(ns)
    <3>1. Len(ts) = Len(ps) - 1 /\ \A i \in 1..Len(ts) : ts[i] = ps[i + 1]
      BY <1>4
    <3>2. Len(Tail(ns)) = Len(ps) - 1 /\ Tail(ns) \in Seq(Nat)
          /\ \A i \in 1..Len(Tail(ns)) : Tail(ns)[i] = ns[i + 1]
      BY <1>1, <2>1
    <3>3. \A i \in 1..Len(ts) : Tail(ns)[i] = Bytes[ts[i]]
      BY <3>1, <3>2
    <3>4. QED
      BY <3>1, <3>2, <3>3, SMTT(30)
  <2> HIDE DEF ns
  <2>3. SeqTotal(ns) = Head(ns) + SeqTotal(Tail(ns))
    BY <1>1, <2>1, SeqTotalTail
  <2>4. QED
    BY <2>1, <2>2, <2>3 DEF Weight, ns
<1>5. QED
  BY <1>2, <1>3, <1>4

-----------------------------------------------------------------------------
(* How a step changes the stream of a device, and whether it is publishing. *)

\* At most one worker publishes for a device.
LEMMA FlyingCases ==
  ASSUME TypeOK, TokenDiscipline, NEW d \in Devices
  PROVE  \/ InFlight(d) = {} /\ Flying(d) = <<>>
         \/ \E w \in Workers : InFlight(d) = {w} /\ Flying(d) = <<payload[w]>> /\ payload[w] \in Payloads
<1>1. CASE InFlight(d) = {}
  BY <1>1 DEF Flying
<1>2. ASSUME NEW w \in InFlight(d)
      PROVE  InFlight(d) = {w} /\ Flying(d) = <<payload[w]>> /\ payload[w] \in Payloads
  <2>1. w \in Workers /\ holds[w] = d /\ at[w] = "publish"
    BY <1>2 DEF InFlight
  <2>2. \A v \in Workers : holds[v] = d => v = w
    BY <2>1, PublisherAssumption
    DEF PublisherAssumption, TokenDiscipline, OneTokenPerDevice
  <2>3. InFlight(d) = {w}
    BY <2>1, <2>2 DEF InFlight
  <2>4. Flying(d) = <<payload[w]>>
    BY <2>3 DEF Flying
  <2>5. payload[w] \in Payloads
    BY <2>1 DEF TypeOK
  <2>6. QED
    BY <2>3, <2>4, <2>5
<1>3. QED
  BY <1>1, <1>2 DEF InFlight

\* Zenon and SMT instantiate this one at d alone, in both states.
LEMMA FlyingIs ==
  ASSUME NEW d
  PROVE  /\ InFlight(d) = {} => Flying(d) = <<>>
         /\ InFlight(d)' = {} => Flying(d)' = <<>>
         /\ \A w : InFlight(d) = {w} => Flying(d) = <<payload[w]>>
         /\ \A w : InFlight(d)' = {w} => Flying(d)' = <<payload'[w]>>
BY DEF Flying

LEMMA StreamType ==
  ASSUME TypeOK, TokenDiscipline, NEW d \in Devices
  PROVE  /\ Pending(d) \in Seq(Payloads) /\ Stream(d) \in Seq(Payloads)
         /\ Flying(d) \in Seq(Payloads)
         /\ Len(Stream(d)) = Len(Pending(d)) + Cardinality(InFlight(d))
<1>1. Pending(d) \in Seq(Payloads)
  BY QueueFields DEF TypeOK, Pending
<1>2. Flying(d) \in Seq(Payloads) /\ Len(Flying(d)) = Cardinality(InFlight(d))
  <2>1. CASE InFlight(d) = {} /\ Flying(d) = <<>>
    BY <2>1, FS_EmptySet
  <2>2. CASE \E w \in Workers : InFlight(d) = {w} /\ Flying(d) = <<payload[w]>> /\ payload[w] \in Payloads
    <3>1. PICK w \in Workers : InFlight(d) = {w} /\ Flying(d) = <<payload[w]>> /\ payload[w] \in Payloads
      BY <2>2
    <3>2. Cardinality({w}) = 1
      BY FS_Singleton
    <3>3. QED
      BY <3>1, <3>2
  <2>3. QED
    BY <2>1, <2>2, FlyingCases
<1>3. QED
  BY <1>1, <1>2 DEF Stream

\* A step that touches neither the queue nor the publishing worker of a device.
LEMMA StreamKept ==
  ASSUME TypeOK, TokenDiscipline, NEW d \in Devices,
         InFlight(d)' = InFlight(d), Pending(d)' = Pending(d),
         \A w \in InFlight(d) : payload'[w] = payload[w]
  PROVE  Stream(d)' = Stream(d)
<1>1. Flying(d)' = Flying(d)
  <2>1. CASE InFlight(d) = {}
    BY <2>1, FlyingIs
  <2>2. CASE InFlight(d) # {}
    <3>1. PICK w \in Workers : InFlight(d) = {w}
      BY <2>2, FlyingCases
    <3>2. payload'[w] = payload[w]
      BY <3>1
    <3>3. QED
      BY <3>1, <3>2, FlyingIs
  <2>3. QED
    BY <2>1, <2>2
<1>2. QED
  BY <1>1 DEF Stream

LEMMA EnqueueStream ==
  ASSUME TypeOK, TokenDiscipline, NEW d \in Devices, NEW p \in Payloads, Enqueue(d, p)
  PROVE  /\ \A e \in Devices : InFlight(e)' = InFlight(e)
         /\ \A e \in Devices \ {d} : Stream(e)' = Stream(e)
         /\ Stream(d)' = Append(Stream(d), p)
<1>1. UNCHANGED <<at, holds, payload>>
  BY DEF Enqueue, workerVars
<1>2. \A e \in Devices : InFlight(e)' = InFlight(e)
  BY <1>1 DEF InFlight
<1>3. /\ Pending(d)' = Append(Pending(d), p)
      /\ \A e \in Devices \ {d} : Pending(e)' = Pending(e)
  BY DEF Enqueue, TypeOK, Pending
<1>4. \A e \in Devices \ {d} : Stream(e)' = Stream(e)
  BY <1>1, <1>2, <1>3, StreamKept
<1>5. Flying(d)' = Flying(d)
  <2>1. CASE InFlight(d) = {}
    BY <1>2, <2>1, FlyingIs
  <2>2. CASE InFlight(d) # {}
    <3>1. PICK w \in Workers : InFlight(d) = {w}
      BY <2>2, FlyingCases
    <3>2. QED
      BY <1>1, <1>2, <3>1, FlyingIs
  <2>3. QED
    BY <2>1, <2>2
<1>6. Flying(d) \in Seq(Payloads) /\ Pending(d) \in Seq(Payloads)
  BY StreamType
<1>7. Flying(d) \o Append(Pending(d), p) = Append(Flying(d) \o Pending(d), p)
  <2>1. ASSUME NEW f \in Seq(Payloads), NEW q \in Seq(Payloads)
        PROVE  f \o Append(q, p) = Append(f \o q, p)
    OBVIOUS
  <2>2. QED
    BY <1>6, <2>1
<1>8. QED
  BY <1>2, <1>3, <1>4, <1>5, <1>7 DEF Stream

LEMMA NextPublicationStream ==
  ASSUME TypeOK, TokenDiscipline, NEW w \in Workers, NextPublication(w),
         NEW d \in Devices, d = holds[w]
  PROVE  /\ \A e \in Devices : Stream(e)' = Stream(e)
         /\ Stream(d) # <<>>
         /\ InFlight(d) = {} /\ InFlight(d)' = {w}
         /\ \A e \in Devices \ {d} : InFlight(e)' = InFlight(e)
<1>1. Pending(d) # <<>> /\ Pending(d) \in Seq(Payloads) /\ at[w] = "next"
  BY NextPublicationToken, StreamType DEF NextPublication, Pending
<1>2. /\ payload' = [payload EXCEPT ![w] = Head(Pending(d))]
      /\ at' = [at EXCEPT ![w] = "publish"] /\ holds' = holds
      /\ Pending(d)' = Tail(Pending(d))
      /\ \A e \in Devices \ {d} : Pending(e)' = Pending(e)
  <2> DEFINE q == deviceQueues[d]
  <2>1. q \in DeviceQueue /\ q.pending # <<>> /\ Tail(q.pending) \in Seq(Payloads)
    BY <1>1 DEF TypeOK, Pending
  <2>2. /\ payload' = [payload EXCEPT ![w] = Head(q.pending)]
        /\ at' = [at EXCEPT ![w] = "publish"] /\ holds' = holds
        /\ deviceQueues' = [deviceQueues EXCEPT ![d] = [q EXCEPT !.pending = Tail(q.pending)]]
    BY <2>1 DEF NextPublication, Goto, HeadOfLine
  <2> HIDE DEF q
  <2>3. [q EXCEPT !.pending = Tail(q.pending)].pending = Tail(q.pending)
    BY <2>1 DEF DeviceQueue
  <2>4. QED
    BY <2>2, <2>3 DEF TypeOK, Pending, q
<1>3. \A v \in Workers : holds[v] = d => v = w
  BY PublisherAssumption DEF PublisherAssumption, TokenDiscipline, OneTokenPerDevice
<1>4. InFlight(d) = {} /\ InFlight(d)' = {w}
  BY <1>1, <1>2, <1>3 DEF InFlight, TypeOK
<1>5. \A e \in Devices \ {d} : InFlight(e)' = InFlight(e) /\ w \notin InFlight(e)
  BY <1>2 DEF InFlight, TypeOK
<1>6. ASSUME NEW e \in Devices \ {d} PROVE Stream(e)' = Stream(e)
  <2>1. \A v \in InFlight(e) : payload'[v] = payload[v]
    BY <1>2, <1>5 DEF InFlight, TypeOK
  <2>2. QED
    BY <1>2, <1>5, <2>1, StreamKept
<1>7. Flying(d) = <<>> /\ Flying(d)' = <<payload'[w]>> /\ payload'[w] = Head(Pending(d))
  BY <1>2, <1>4, FlyingIs DEF TypeOK
<1>8. <<Head(Pending(d))>> \o Tail(Pending(d)) = <<>> \o Pending(d) /\ <<>> \o Pending(d) # <<>>
  <2>1. ASSUME NEW q \in Seq(Payloads), q # <<>>
        PROVE  <<Head(q)>> \o Tail(q) = q
    BY ONLY <2>1, HeadTailProperties, ConcatProperties
  <2>2. <<>> \o Pending(d) = Pending(d)
    BY <1>1, ConcatEmptySeq
  <2>3. QED
    BY <1>1, <2>1, <2>2
<1>9. Stream(d)' = Stream(d) /\ Stream(d) # <<>>
  BY <1>2, <1>7, <1>8 DEF Stream
<1>10. QED
  BY <1>4, <1>5, <1>6, <1>9

LEMMA CompletePublicationStream ==
  ASSUME TypeOK, TokenDiscipline, NEW w \in Workers, CompletePublication(w),
         NEW d \in Devices, d = holds[w]
  PROVE  /\ \A e \in Devices \ {d} : Stream(e)' = Stream(e) /\ InFlight(e)' = InFlight(e)
         /\ InFlight(d) # {} /\ InFlight(d)' = {}
         /\ Stream(d) # <<>> /\ Head(Stream(d)) = payload[w]
         /\ Stream(d)' = Tail(Stream(d))
         /\ Pending(d) = <<>> => Len(Stream(d)) = 1
<1>1. at[w] = "publish" /\ payload[w] \in Payloads /\ deviceQueues[d] \in DeviceQueue
  BY DEF TypeOK, CompletePublication
<1> DEFINE size == Bytes[payload[w]]
           q == Release(deviceQueues[d], size)
<1>2. size \in Int
  BY <1>1, PublisherAssumption DEF PublisherAssumption
<1>3. q.pending = Pending(d)
  BY <1>1, <1>2, ReleaseTyping DEF Pending
<1>4. /\ payload' = [payload EXCEPT ![w] = NoPayload]
      /\ at'[w] # "publish" /\ \A v \in Workers \ {w} : at'[v] = at[v] /\ holds'[v] = holds[v]
  BY DEF CompletePublication, Goto, TypeOK
<1>5. /\ Pending(d)' = Pending(d)
      /\ \A e \in Devices \ {d} : Pending(e)' = Pending(e)
  <2>1. CASE HasMore(q)
    <3>1. deviceQueues' = [deviceQueues EXCEPT ![d] = q]
      BY <2>1 DEF CompletePublication
    <3> HIDE DEF q
    <3>2. QED
      BY <1>3, <3>1 DEF Pending, TypeOK
  <2>2. CASE ~HasMore(q)
    <3>1. deviceQueues' = [deviceQueues EXCEPT ![d] = NoQueue] /\ q.pending = <<>>
      BY <2>2 DEF CompletePublication, HasMore
    <3>2. NoQueue.pending = <<>>
      BY DEF NoQueue
    <3> HIDE DEF q
    <3>3. QED
      BY <1>3, <3>1, <3>2 DEF Pending, TypeOK
  <2>3. QED
    BY <2>1, <2>2
<1> HIDE DEF q, size
<1>6. \A v \in Workers : holds[v] = d => v = w
  BY PublisherAssumption DEF PublisherAssumption, TokenDiscipline, OneTokenPerDevice
<1>7. InFlight(d) = {w} /\ InFlight(d)' = {}
  <2>1. InFlight(d) = {w}
    BY <1>1, <1>6 DEF InFlight
  <2>2. ASSUME NEW v \in Workers, holds'[v] = d, at'[v] = "publish" PROVE FALSE
    BY <1>4, <1>6, <2>2
  <2>3. QED
    BY <2>1, <2>2 DEF InFlight
<1>8. ASSUME NEW e \in Devices \ {d} PROVE InFlight(e)' = InFlight(e) /\ w \notin InFlight(e)
  <2>1. \A v \in Workers \ {w} : v \in InFlight(e)' <=> v \in InFlight(e)
    BY <1>4 DEF InFlight
  <2>2. w \notin InFlight(e) /\ w \notin InFlight(e)'
    BY <1>4 DEF InFlight
  <2>3. InFlight(e) \subseteq Workers /\ InFlight(e)' \subseteq Workers
    BY DEF InFlight
  <2>4. QED
    BY <2>1, <2>2, <2>3
<1>9. ASSUME NEW e \in Devices \ {d} PROVE Stream(e)' = Stream(e)
  <2>1. \A v \in InFlight(e) : payload'[v] = payload[v]
    BY <1>4, <1>8 DEF InFlight, TypeOK
  <2>2. QED
    BY <1>5, <1>8, <2>1, StreamKept
<1>10. Flying(d) = <<payload[w]>> /\ Flying(d)' = <<>> /\ Pending(d) \in Seq(Payloads)
  BY <1>7, FlyingIs, StreamType
<1>11. ASSUME NEW p \in Payloads, NEW r \in Seq(Payloads)
       PROVE  /\ <<p>> \o r # <<>> /\ Head(<<p>> \o r) = p /\ <<>> \o r = Tail(<<p>> \o r)
              /\ r = <<>> => Len(<<p>> \o r) = 1
  OBVIOUS
<1>12. /\ Stream(d) # <<>> /\ Head(Stream(d)) = payload[w] /\ Stream(d)' = Tail(Stream(d))
       /\ Pending(d) = <<>> => Len(Stream(d)) = 1
  BY <1>1, <1>5, <1>10, <1>11 DEF Stream
<1>13. QED
  BY <1>7, <1>8, <1>9, <1>12

\* Tokens move, workers leave, the publisher stops: no stream changes.
LEMMA OtherStream ==
  ASSUME TypeOK, TokenDiscipline,
         \/ EnqueueSend \/ Cancel \/ Stop \/ UNCHANGED vars
         \/ \E w \in Workers : TakeToken(w) \/ RequeueSend(w) \/ WorkerExit(w)
  PROVE  /\ UNCHANGED <<deviceQueues, queueBytes, queuedPublications>>
         /\ \A d \in Devices : Stream(d)' = Stream(d) /\ InFlight(d)' = InFlight(d)
<1>1. /\ UNCHANGED <<deviceQueues, payload, queueBytes, queuedPublications>>
      /\ \A v \in Workers : \/ at'[v] = at[v] /\ holds'[v] = holds[v]
                            \/ at[v] # "publish" /\ at'[v] # "publish"
  BY DEF EnqueueSend, Cancel, Stop, vars, queues, workerVars, TakeToken, RequeueSend, WorkerExit,
         Goto, TypeOK
<1>2. \A d \in Devices : InFlight(d)' = InFlight(d) /\ Pending(d)' = Pending(d)
  BY <1>1 DEF InFlight, Pending
<1>3. QED
  BY <1>1, <1>2, StreamKept

-----------------------------------------------------------------------------
(* The admission counters. *)

LEMMA InitAInv == Init => AInv
<1> SUFFICES ASSUME Init PROVE AInv
  OBVIOUS
<1>1. IInv
  BY InitIInv
<1>2. \A d \in Devices : deviceQueues[d] = NoQueue
  BY DEF Init
<1>3. StreamInv
  <2> SUFFICES ASSUME NEW d \in Devices
               PROVE  /\ deviceQueues[d].outstandingCount = Len(Stream(d))
                      /\ deviceQueues[d].outstandingBytes = Weight(Stream(d))
                      /\ deviceQueues[d].outstandingCount <= DeviceQueueSize
                      /\ deviceQueues[d].outstandingBytes <= DeviceQueueMaxBytes
    BY DEF StreamInv
  <2>1. InFlight(d) = {}
    BY DEF Init, InFlight
  <2>2. Pending(d) = <<>> /\ Flying(d) = <<>>
    BY <1>2, <2>1, FlyingIs DEF Pending, NoQueue
  <2>3. Stream(d) = <<>>
    BY <2>2 DEF Stream
  <2>4. /\ deviceQueues[d].outstandingCount = 0 /\ deviceQueues[d].outstandingBytes = 0
    BY <1>2 DEF NoQueue
  <2>5. QED
    BY <2>3, <2>4, WeightEmpty, PublisherAssumption DEF PublisherAssumption
<1>4. ByteInv
  <2>1. \A d \in Devices : Charged[d] = 0
    BY <1>2 DEF Charged, NoQueue
  <2>2. Dots(Charged, Devices) = {}
    BY <2>1 DEF Dots
  <2>3. queueBytes = 0
    BY DEF Init
  <2>4. QED
    BY <2>2, <2>3, FS_EmptySet, PublisherAssumption DEF ByteInv, Total, PublisherAssumption
<1>5. QED
  BY <1>1, <1>3, <1>4 DEF AInv

\* What is charged to a device is never negative.
LEMMA ChargedType ==
  ASSUME TypeOK, TokenDiscipline, StreamInv, NEW d \in Devices
  PROVE  Charged[d] \in Nat /\ Charged[d] = deviceQueues[d].outstandingBytes
         /\ Weight(Stream(d)) = Charged[d]
<1>1. Stream(d) \in Seq(Payloads)
  BY StreamType
<1>2. Weight(Stream(d)) \in Nat
  BY <1>1, WeightStep
<1>3. QED
  BY <1>2 DEF Charged, StreamInv

LEMMA EnqueueAccounts ==
  ASSUME AInv, NEW d \in Devices, NEW p \in Payloads, Enqueue(d, p)
  PROVE  StreamInv' /\ ByteInv'
<1> USE PublisherAssumption DEF PublisherAssumption, AInv, IInv
<1>1. /\ \A e \in Devices \ {d} : Stream(e)' = Stream(e)
      /\ Stream(d)' = Append(Stream(d), p)
  BY EnqueueStream
<1>2. /\ deviceQueues'[d].outstandingCount = deviceQueues[d].outstandingCount + 1
      /\ deviceQueues'[d].outstandingBytes = deviceQueues[d].outstandingBytes + Bytes[p]
      /\ \A e \in Devices \ {d} : deviceQueues'[e] = deviceQueues[e]
      /\ queueBytes' = queueBytes + Bytes[p]
  BY DEF Enqueue, TypeOK
<1>3. /\ Bytes[p] <= QueueMaxBytes - queueBytes
      /\ deviceQueues[d].outstandingCount < DeviceQueueSize
      /\ Bytes[p] <= DeviceQueueMaxBytes - deviceQueues[d].outstandingBytes
  BY DEF Enqueue, Admits
<1>4. Stream(d) \in Seq(Payloads) /\ deviceQueues[d] \in DeviceQueue
      /\ queueBytes \in Nat /\ Bytes[p] \in Nat
  BY StreamType DEF TypeOK
<1>5. StreamInv'
  <2>1. Len(Append(Stream(d), p)) = Len(Stream(d)) + 1 /\ Len(Stream(d)) \in Nat
    BY <1>4
  <2>2. Weight(Append(Stream(d), p)) = Weight(Stream(d)) + Bytes[p] /\ Weight(Stream(d)) \in Nat
    BY <1>4, WeightStep
  <2>3. /\ deviceQueues'[d].outstandingCount = Len(Stream(d)')
        /\ deviceQueues'[d].outstandingBytes = Weight(Stream(d)')
    BY <1>1, <1>2, <2>1, <2>2 DEF StreamInv
  <2>4. /\ deviceQueues'[d].outstandingCount <= DeviceQueueSize
        /\ deviceQueues'[d].outstandingBytes <= DeviceQueueMaxBytes
    <3>1. /\ deviceQueues[d].outstandingCount \in Nat
          /\ deviceQueues[d].outstandingBytes \in Nat
          /\ DeviceQueueSize \in Nat /\ DeviceQueueMaxBytes \in Nat
      BY <2>1, <2>2 DEF StreamInv
    <3>2. QED
      BY ONLY <1>2, <1>3, <1>4, <3>1, SMTT(30)
  <2>5. ASSUME NEW e \in Devices \ {d}
        PROVE  /\ deviceQueues'[e].outstandingCount = Len(Stream(e)')
               /\ deviceQueues'[e].outstandingBytes = Weight(Stream(e)')
               /\ deviceQueues'[e].outstandingCount <= DeviceQueueSize
               /\ deviceQueues'[e].outstandingBytes <= DeviceQueueMaxBytes
    BY <1>1, <1>2 DEF StreamInv
  <2>6. \A e \in Devices : Weight(Stream(e))' = Weight(Stream(e)')
    BY DEF Weight
  <2>7. QED
    BY <2>3, <2>4, <2>5, <2>6 DEF StreamInv
<1>6. ByteInv'
  <2> DEFINE V == Charged
             W == Charged'
  <2>1. V[d] \in Nat /\ W[d] = V[d] + Bytes[p]
    BY <1>2, ChargedType DEF Charged
  <2>a. \A y \in Devices \ {d} : W[y] = V[y]
    BY <1>2 DEF Charged
  <2>2. IsFiniteSet(Dots(V, Devices)) /\ queueBytes = Total(V, Devices)
    BY DEF ByteInv
  <2> HIDE DEF V, W
  <2>3. V[d] \in Nat /\ W[d] \in Nat
    BY <1>4, <2>1
  <2>4. /\ IsFiniteSet(Dots(W, Devices)) /\ Total(V, Devices) \in Nat
        /\ Total(W, Devices) = Total(V, Devices) - V[d] + W[d]
    BY <2>a, <2>2, <2>3, TotalUpdate
  <2>5. Total(W, Devices) = queueBytes' /\ queueBytes' <= QueueMaxBytes
    BY <1>2, <1>3, <1>4, <2>1, <2>2, <2>4
  <2>6. QED
    BY <2>4, <2>5 DEF ByteInv, W, Dots, Total
<1>7. QED
  BY <1>5, <1>6

LEMMA CompleteAccounts ==
  ASSUME AInv, NEW w \in Workers, CompletePublication(w)
  PROVE  StreamInv' /\ ByteInv'
<1> USE PublisherAssumption DEF PublisherAssumption, AInv, IInv
<1>0. PICK d \in Devices : d = holds[w]
  BY DEF TypeOK, CompletePublication
<1> DEFINE size == Bytes[payload[w]]
           q == deviceQueues[d]
<1>1. payload[w] \in Payloads /\ q \in DeviceQueue /\ size \in Nat
  BY DEF TypeOK, CompletePublication
<1>2. /\ \A e \in Devices \ {d} : Stream(e)' = Stream(e)
      /\ Stream(d) # <<>> /\ Head(Stream(d)) = payload[w]
      /\ Stream(d)' = Tail(Stream(d))
      /\ Pending(d) = <<>> => Len(Stream(d)) = 1
  BY <1>0, CompletePublicationStream
<1>3. Stream(d) \in Seq(Payloads) /\ Tail(Stream(d)) \in Seq(Payloads)
      /\ Len(Tail(Stream(d))) = Len(Stream(d)) - 1
  BY <1>2, StreamType
<1>4. Weight(Stream(d)) = size + Weight(Tail(Stream(d))) /\ Weight(Tail(Stream(d))) \in Nat
  BY <1>2, <1>3, WeightStep
<1>5. /\ deviceQueues'[d].outstandingCount = Len(Tail(Stream(d)))
      /\ deviceQueues'[d].outstandingBytes = Weight(Tail(Stream(d)))
      /\ \A e \in Devices \ {d} : deviceQueues'[e] = deviceQueues[e]
  <2>1. q.outstandingCount = Len(Stream(d)) /\ q.outstandingBytes = Weight(Stream(d))
    BY DEF StreamInv
  <2>2. /\ Release(q, size) \in DeviceQueue
        /\ Release(q, size).pending = Pending(d)
        /\ Release(q, size).outstandingCount = q.outstandingCount - 1
        /\ Release(q, size).outstandingBytes = q.outstandingBytes - size
    <3> HIDE DEF q, size
    <3>1. Release(q, size) \in DeviceQueue /\ Release(q, size).pending = q.pending
      BY <1>1, ReleaseTyping
    <3>2. /\ Release(q, size).outstandingCount = q.outstandingCount - 1
          /\ Release(q, size).outstandingBytes = q.outstandingBytes - size
      BY <1>1 DEF Release, DeviceQueue
    <3>3. QED
      BY <3>1, <3>2 DEF q, Pending
  <2>3. CASE Pending(d) # <<>>
    <3>1. deviceQueues' = [deviceQueues EXCEPT ![d] = Release(q, size)]
      BY <1>0, <2>2, <2>3 DEF CompletePublication, HasMore
    <3> HIDE DEF q, size
    <3>2. /\ deviceQueues'[d] = Release(q, size)
          /\ \A e \in Devices \ {d} : deviceQueues'[e] = deviceQueues[e]
      BY <3>1 DEF TypeOK
    <3>3. Weight(Stream(d)) - size = Weight(Tail(Stream(d)))
      BY <1>1, <1>4
    <3>4. QED
      BY <1>3, <2>1, <2>2, <3>2, <3>3
  <2>4. CASE Pending(d) = <<>>
    <3>1. deviceQueues' = [deviceQueues EXCEPT ![d] = NoQueue]
      BY <1>0, <2>2, <2>4 DEF CompletePublication, HasMore
    <3>2. /\ deviceQueues'[d] = NoQueue
          /\ \A e \in Devices \ {d} : deviceQueues'[e] = deviceQueues[e]
      BY <3>1 DEF TypeOK
    <3>3. Len(Tail(Stream(d))) = 0 /\ Tail(Stream(d)) = <<>>
      <4>1. Len(Tail(Stream(d))) = 0 /\ Tail(Stream(d)) \in Seq(Payloads)
        BY ONLY <1>2, <1>3, <2>4
      <4>2. ASSUME NEW s \in Seq(Payloads), Len(s) = 0 PROVE s = <<>>
        BY ONLY <4>2
      <4>3. QED
        BY ONLY <4>1, <4>2
    <3>4. NoQueue.outstandingCount = 0 /\ NoQueue.outstandingBytes = 0
      BY DEF NoQueue
    <3>5. Weight(Tail(Stream(d))) = 0
      BY <3>3, WeightEmpty
    <3>6. QED
      BY <3>2, <3>3, <3>4, <3>5
  <2>5. QED
    BY <2>3, <2>4
<1>6. queueBytes' = IF queueBytes >= size THEN queueBytes - size ELSE 0
  BY DEF CompletePublication
<1> HIDE DEF size, q
<1>7. StreamInv'
  <2>1. \A e \in Devices : Weight(Stream(e))' = Weight(Stream(e)')
    BY DEF Weight
  <2>2. /\ deviceQueues[d].outstandingCount = Len(Stream(d)) /\ Len(Stream(d)) \in Nat
        /\ deviceQueues[d].outstandingBytes = size + Weight(Tail(Stream(d)))
        /\ deviceQueues[d].outstandingCount <= DeviceQueueSize
        /\ deviceQueues[d].outstandingBytes <= DeviceQueueMaxBytes
    BY <1>3, <1>4 DEF StreamInv
  <2>3. /\ deviceQueues'[d].outstandingCount <= DeviceQueueSize
        /\ deviceQueues'[d].outstandingBytes <= DeviceQueueMaxBytes
    BY <1>1, <1>3, <1>4, <1>5, <2>2
  <2>4. ASSUME NEW e \in Devices \ {d}
        PROVE  /\ deviceQueues'[e].outstandingCount = Len(Stream(e)')
               /\ deviceQueues'[e].outstandingBytes = Weight(Stream(e)')
               /\ deviceQueues'[e].outstandingCount <= DeviceQueueSize
               /\ deviceQueues'[e].outstandingBytes <= DeviceQueueMaxBytes
    BY <1>2, <1>5 DEF StreamInv
  <2>5. QED
    BY <1>2, <1>5, <2>1, <2>3, <2>4 DEF StreamInv
<1>8. ByteInv'
  <2> DEFINE V == Charged
             W == Charged'
  <2>1. /\ V[d] = size + Weight(Tail(Stream(d))) /\ W[d] = Weight(Tail(Stream(d)))
        /\ \A y \in Devices \ {d} : W[y] = V[y]
    BY <1>4, <1>5, ChargedType DEF Charged
  <2>2. IsFiniteSet(Dots(V, Devices)) /\ queueBytes = Total(V, Devices) /\ queueBytes <= QueueMaxBytes
    BY DEF ByteInv
  <2> HIDE DEF V, W
  <2>3. V[d] \in Nat /\ W[d] \in Nat
    BY <1>1, <1>4, <2>1
  <2>4. /\ IsFiniteSet(Dots(W, Devices)) /\ Total(V, Devices) \in Nat /\ Total(V, Devices) >= V[d]
        /\ Total(W, Devices) = Total(V, Devices) - V[d] + W[d]
    BY <2>1, <2>2, <2>3, TotalUpdate
  <2>5. Total(W, Devices) = queueBytes' /\ queueBytes' <= QueueMaxBytes
    BY <1>1, <1>4, <1>6, <2>1, <2>2, <2>3, <2>4
  <2>6. QED
    BY <2>4, <2>5 DEF ByteInv, W, Dots, Total
<1>9. QED
  BY <1>7, <1>8

\* Streams, charges and the byte counter are as before.
LEMMA AccountsKept ==
  ASSUME AInv, queueBytes' = queueBytes,
         \A d \in Devices : /\ Stream(d)' = Stream(d)
                            /\ deviceQueues'[d].outstandingCount = deviceQueues[d].outstandingCount
                            /\ deviceQueues'[d].outstandingBytes = deviceQueues[d].outstandingBytes
  PROVE  StreamInv' /\ ByteInv'
<1>1. \A e \in Devices : Weight(Stream(e))' = Weight(Stream(e)')
  BY DEF Weight
<1>2. StreamInv'
  BY <1>1 DEF AInv, StreamInv
<1>3. Charged' = Charged
  BY DEF Charged
<1>4. Dots(Charged, Devices)' = Dots(Charged, Devices)
  BY <1>3 DEF Dots
<1>5. ByteInv'
  BY <1>4 DEF AInv, ByteInv, Total
<1>6. QED
  BY <1>2, <1>5

LEMMA StepAInv == AInv /\ [Next]_vars => AInv'
<1> SUFFICES ASSUME AInv, [Next]_vars PROVE AInv'
  OBVIOUS
<1>0. IInv'
  BY StepIInv DEF AInv
<1> USE DEF AInv, IInv
<1>1. ASSUME NEW d \in Devices, NEW p \in Payloads, Enqueue(d, p) PROVE AInv'
  BY <1>0, <1>1, EnqueueAccounts
<1>2. ASSUME NEW w \in Workers, NextPublication(w) PROVE AInv'
  <2>1. PICK d \in Devices : d = holds[w]
    BY <1>2 DEF TypeOK, NextPublication
  <2>2. \A e \in Devices : Stream(e)' = Stream(e)
    BY <1>2, <2>1, NextPublicationStream
  <2>3. queueBytes' = queueBytes
    BY <1>2 DEF NextPublication
  <2>4. \A e \in Devices : /\ deviceQueues'[e].outstandingCount = deviceQueues[e].outstandingCount
                           /\ deviceQueues'[e].outstandingBytes = deviceQueues[e].outstandingBytes
    <3> DEFINE q == deviceQueues[d]
               r == [q EXCEPT !.pending = Tail(q.pending)]
    <3>1. q \in DeviceQueue /\ q.pending # <<>>
      BY <1>2, <2>1, NextPublicationToken DEF TypeOK
    <3>2. deviceQueues' = [deviceQueues EXCEPT ![d] = r]
      BY <1>2, <2>1, <3>1 DEF NextPublication
    <3> HIDE DEF q
    <3>3. r.outstandingCount = q.outstandingCount /\ r.outstandingBytes = q.outstandingBytes
      BY <3>1 DEF DeviceQueue
    <3> HIDE DEF r
    <3>4. QED
      BY <3>2, <3>3 DEF TypeOK, q
  <2>5. QED
    BY <1>0, <2>2, <2>3, <2>4, AccountsKept
<1>3. ASSUME NEW w \in Workers, CompletePublication(w) PROVE AInv'
  BY <1>0, <1>3, CompleteAccounts
<1>4. CASE \/ EnqueueSend \/ Cancel \/ Stop \/ UNCHANGED vars
           \/ \E w \in Workers : TakeToken(w) \/ RequeueSend(w) \/ WorkerExit(w)
  <2>1. /\ UNCHANGED <<deviceQueues, queueBytes, queuedPublications>>
        /\ \A d \in Devices : Stream(d)' = Stream(d)
    BY <1>4, OtherStream
  <2>2. QED
    BY <1>0, <2>1, AccountsKept
<1>5. QED
  BY <1>1, <1>2, <1>3, <1>4 DEF Next, WorkerStep, Stopped

-----------------------------------------------------------------------------
(* The folds that Accounting and JudgeDelivery are stated with. *)

LEMMA SumOfLengths ==
  ASSUME TypeOK, IsFiniteSet(Devices)
  PROVE  MapThenSumSet(LAMBDA d : Len(deviceQueues[d].pending), Devices) = Cardinality(Slots)
<1> DEFINE W == [d \in Devices |-> Len(deviceQueues[d].pending)]
           F(iter) == [s \in SUBSET Devices |->
                         IF s = {} THEN 0
                         ELSE Len(deviceQueues[Pick(s)].pending) + iter[s \ {Pick(s)}]]
           fold == CHOOSE iter : iter = F(iter)
           sums == [s \in SUBSET Devices |-> Total(W, s)]
<1>1. MapThenSumSet(LAMBDA d : Len(deviceQueues[d].pending), Devices) = fold[Devices]
  BY DEF MapThenSumSet, MapThenFoldSet, Pick
<1>2. \A d \in Devices : W[d] \in Nat /\ W[d] = Len(deviceQueues[d].pending)
  BY QueueFields DEF TypeOK
<1>3. \A s \in SUBSET Devices : s # {} => Pick(s) \in Devices
  BY DEF Pick
<1>4. \A s \in SUBSET Devices :
        Total(W, s) = IF s = {} THEN 0 ELSE W[Pick(s)] + Total(W, s \ {Pick(s)})
  <2> HIDE DEF W
  <2>1. QED
    BY <1>2, FoldExists
<1>5. sums = F(sums)
  BY <1>2, <1>3, <1>4
<1>6. fold = F(fold)
  <2> HIDE DEF F, sums
  <2>1. QED
    BY <1>5
<1>7. \A s \in SUBSET Devices : fold[s] = IF s = {} THEN 0 ELSE W[Pick(s)] + fold[s \ {Pick(s)}]
  <2> HIDE DEF fold
  <2>1. QED
    BY <1>2, <1>3, <1>6
<1>8. fold[Devices] = Total(W, Devices)
  <2> HIDE DEF fold, W
  <2>1. QED
    BY <1>2, <1>7, FoldUnique
<1>9. Slots = Dots(W, Devices)
  <2>1. \A d, i : <<d, i>> \in Dots(W, Devices) <=> d \in Devices /\ i \in 1..Len(Pending(d))
    BY <1>2 DEF Dots, Pending
  <2>2. \A p \in Dots(W, Devices) : p = <<p[1], p[2]>>
    BY DEF Dots
  <2> HIDE DEF W
  <2>3. ASSUME NEW z \in Slots PROVE z \in Dots(W, Devices)
    <3>1. PICK d, i : z = <<d, i>>
      BY SlotsElement
    <3>2. QED
      BY <2>1, <3>1, SlotsElement
  <2>4. ASSUME NEW z \in Dots(W, Devices) PROVE z \in Slots
    BY <2>1, <2>2, SlotsElement
  <2>5. QED
    BY <2>3, <2>4
<1>10. QED
  BY <1>1, <1>8, <1>9 DEF Total

LEMMA SumOfCharges ==
  ASSUME TypeOK, TokenDiscipline, StreamInv, IsFiniteSet(Devices)
  PROVE  MapThenSumSet(LAMBDA d : deviceQueues[d].outstandingBytes, Devices)
           = Total(Charged, Devices)
<1> DEFINE F(iter) == [s \in SUBSET Devices |->
                         IF s = {} THEN 0
                         ELSE deviceQueues[Pick(s)].outstandingBytes + iter[s \ {Pick(s)}]]
           fold == CHOOSE iter : iter = F(iter)
           sums == [s \in SUBSET Devices |-> Total(Charged, s)]
<1>1. MapThenSumSet(LAMBDA d : deviceQueues[d].outstandingBytes, Devices) = fold[Devices]
  BY DEF MapThenSumSet, MapThenFoldSet, Pick
<1>2. \A d \in Devices : Charged[d] \in Nat /\ Charged[d] = deviceQueues[d].outstandingBytes
  BY ChargedType
<1>3. \A s \in SUBSET Devices : s # {} => Pick(s) \in Devices
  BY DEF Pick
<1>4. \A s \in SUBSET Devices :
        Total(Charged, s) = IF s = {} THEN 0 ELSE Charged[Pick(s)] + Total(Charged, s \ {Pick(s)})
  BY <1>2, FoldExists
<1>5. sums = F(sums)
  BY <1>2, <1>3, <1>4
<1>6. fold = F(fold)
  <2> HIDE DEF F, sums
  <2>1. QED
    BY <1>5
<1>7. \A s \in SUBSET Devices :
        fold[s] = IF s = {} THEN 0 ELSE Charged[Pick(s)] + fold[s \ {Pick(s)}]
  <2> HIDE DEF fold
  <2>1. QED
    BY <1>2, <1>3, <1>6
<1>8. fold[Devices] = Total(Charged, Devices)
  <2> HIDE DEF fold
  <2>1. QED
    BY <1>2, <1>7, FoldUnique
<1>9. QED
  BY <1>1, <1>8

\* What is being published for one device: one event or none.
LEMMA SumOfFlying ==
  ASSUME TypeOK, TokenDiscipline, NEW d \in Devices
  PROVE  MapThenSumSet(LAMBDA w : Bytes[payload[w]], InFlight(d)) = Weight(Flying(d))
<1> USE PublisherAssumption DEF PublisherAssumption
<1> DEFINE S == InFlight(d)
           W == [w \in S |-> Bytes[payload[w]]]
           F(iter) == [s \in SUBSET S |->
                         IF s = {} THEN 0
                         ELSE Bytes[payload[Pick(s)]] + iter[s \ {Pick(s)}]]
           fold == CHOOSE iter : iter = F(iter)
           sums == [s \in SUBSET S |-> Total(W, s)]
<1>1. MapThenSumSet(LAMBDA w : Bytes[payload[w]], S) = fold[S]
  BY DEF MapThenSumSet, MapThenFoldSet, Pick
<1>2. \A w \in S : W[w] \in Nat /\ W[w] = Bytes[payload[w]]
  BY DEF InFlight, TypeOK
<1>a. IsFiniteSet(S)
  <2>1. S = {} \/ \E w \in Workers : S = {w}
    BY FlyingCases
  <2> HIDE DEF S
  <2>2. CASE S = {}
    BY <2>2, FS_EmptySet
  <2>3. ASSUME NEW w, S = {w} PROVE IsFiniteSet(S)
    <3>1. IsFiniteSet({w})
      BY FS_Singleton
    <3>2. QED
      BY <2>3, <3>1
  <2>4. QED
    BY <2>1, <2>2, <2>3
<1> HIDE DEF S
<1>3. \A s \in SUBSET S : s # {} => Pick(s) \in S
  BY DEF Pick
<1>4. \A s \in SUBSET S :
        Total(W, s) = IF s = {} THEN 0 ELSE W[Pick(s)] + Total(W, s \ {Pick(s)})
  <2> HIDE DEF W
  <2>1. QED
    BY <1>2, <1>a, FoldExists
<1>5. sums = F(sums)
  BY <1>2, <1>3, <1>4
<1>6. fold = F(fold)
  <2> HIDE DEF F, sums
  <2>1. QED
    BY <1>5
<1>7. \A s \in SUBSET S : fold[s] = IF s = {} THEN 0 ELSE W[Pick(s)] + fold[s \ {Pick(s)}]
  <2> HIDE DEF fold
  <2>1. QED
    BY <1>2, <1>3, <1>6
<1>8. fold[S] = Total(W, S)
  <2> HIDE DEF fold, W
  <2>1. QED
    BY <1>2, <1>7, <1>a, FoldUnique
<1> HIDE DEF F, fold, sums
<1>9. CASE S = {}
  <2>1. Flying(d) = <<>>
    BY <1>9, FlyingIs DEF S
  <2>2. Total(W, {}) = 0
    BY TotalEmpty
  <2>3. QED
    BY <1>1, <1>8, <1>9, <2>1, <2>2, WeightEmpty DEF S
<1>10. CASE S # {}
  <2>1. PICK w \in Workers : S = {w} /\ Flying(d) = <<payload[w]>> /\ payload[w] \in Payloads
    BY <1>10, FlyingCases DEF S
  <2>2. W[w] \in Nat /\ W[w] = Bytes[payload[w]]
    BY <1>2, <2>1
  <2>3. Total(W, {w}) = W[w]
    <3> HIDE DEF W
    <3>1. QED
      BY <2>2, TotalSingle
  <2>4. Weight(<<payload[w]>>) = Bytes[payload[w]]
    <3> DEFINE e == <<>>
    <3>0. e \in Seq(Payloads)
      OBVIOUS
    <3>1. Weight(Append(e, payload[w])) = Weight(e) + Bytes[payload[w]]
      <4> HIDE DEF e
      <4>1. QED
        BY <2>1, <3>0, WeightStep
    <3>2. Append(<<>>, payload[w]) = <<payload[w]>>
      OBVIOUS
    <3>3. QED
      BY <2>1, <3>1, <3>2, WeightEmpty
  <2>5. QED
    BY <1>1, <1>8, <2>1, <2>2, <2>3, <2>4 DEF S
<1>11. QED
  BY <1>9, <1>10

LEMMA SumOfBytes ==
  ASSUME NEW ps \in Seq(Payloads)
  PROVE  BytesIn(ps) = Weight(ps) /\ Delivery!BytesOf(ps) = Weight(ps)
<1> USE PublisherAssumption DEF PublisherAssumption
<1> DEFINE S == 1..Len(ps)
           W == [i \in S |-> Bytes[ps[i]]]
           F(iter) == [s \in SUBSET S |->
                         IF s = {} THEN 0 ELSE W[Pick(s)] + iter[s \ {Pick(s)}]]
           G(iter) == [s \in SUBSET S |->
                         IF s = {} THEN 0 ELSE Bytes[ps[Pick(s)]] + iter[s \ {Pick(s)}]]
           fold == CHOOSE iter : iter = F(iter)
           gold == CHOOSE iter : iter = G(iter)
           sums == [s \in SUBSET S |-> Total(W, s)]
<1>0. DOMAIN ps = S /\ DOMAIN W = S
  OBVIOUS
<1>1. BytesIn(ps) = fold[S]
  BY <1>0 DEF BytesIn, SumFunction, SumFunctionOnSet, FoldFunctionOnSet, MapThenFoldSet, Pick
<1>2. Delivery!BytesOf(ps) = gold[S]
  BY <1>0 DEF Delivery!BytesOf, Delivery!FoldSeq, Delivery!FoldFunction,
              Delivery!FoldFunctionOnSet, Delivery!MapThenFoldSet, Pick
<1>3. IsFiniteSet(S)
  BY FS_Interval
<1>4. \A i \in S : W[i] \in Nat /\ W[i] = Bytes[ps[i]]
  OBVIOUS
<1>5. Weight(ps) = Total(W, S)
  BY <1>0 DEF Weight, SeqTotal
<1> HIDE DEF S
<1>6. \A s \in SUBSET S : s # {} => Pick(s) \in S
  BY DEF Pick
<1>7. \A s \in SUBSET S :
        Total(W, s) = IF s = {} THEN 0 ELSE W[Pick(s)] + Total(W, s \ {Pick(s)})
  <2> HIDE DEF W
  <2>1. QED
    BY <1>3, <1>4, FoldExists
<1>8. sums = F(sums) /\ sums = G(sums)
  BY <1>4, <1>6, <1>7
<1>9. fold = F(fold) /\ gold = G(gold)
  <2> HIDE DEF F, G, sums
  <2>1. QED
    BY <1>8
<1>10. \A s \in SUBSET S : fold[s] = IF s = {} THEN 0 ELSE W[Pick(s)] + fold[s \ {Pick(s)}]
  <2> HIDE DEF fold, gold
  <2>1. QED
    BY <1>4, <1>6, <1>9
<1>11. \A s \in SUBSET S : gold[s] = IF s = {} THEN 0 ELSE W[Pick(s)] + gold[s \ {Pick(s)}]
  <2> HIDE DEF fold, gold
  <2>1. QED
    BY <1>4, <1>6, <1>9
<1> HIDE DEF fold, gold, W
<1>12. fold[S] = Total(W, S)
  BY <1>3, <1>4, <1>10, FoldUnique
<1>13. gold[S] = Total(W, S)
  BY <1>3, <1>4, <1>11, FoldUnique
<1>14. QED
  BY <1>1, <1>2, <1>5, <1>12, <1>13

LEMMA WeightSplit ==
  ASSUME TypeOK, TokenDiscipline, NEW d \in Devices
  PROVE  Weight(Stream(d)) = Weight(Pending(d)) + Weight(Flying(d))
<1>1. Pending(d) \in Seq(Payloads)
  BY StreamType
<1>2. Weight(Pending(d)) \in Nat
  BY <1>1, WeightStep
<1>3. CASE Flying(d) = <<>>
  <2>1. Stream(d) = Pending(d)
    BY <1>1, <1>3, ConcatEmptySeq DEF Stream
  <2>2. QED
    BY <1>2, <1>3, <2>1, WeightEmpty
<1>4. CASE \E w \in Workers : Flying(d) = <<payload[w]>> /\ payload[w] \in Payloads
  <2>1. PICK p \in Payloads : Flying(d) = <<p>>
    BY <1>4
  <2>2. ASSUME NEW r \in Seq(Payloads)
        PROVE  /\ <<p>> \o r \in Seq(Payloads) /\ <<p>> \o r # <<>>
               /\ Head(<<p>> \o r) = p /\ Tail(<<p>> \o r) = r
    OBVIOUS
  <2>3. Weight(Stream(d)) = Bytes[p] + Weight(Pending(d))
    <3>1. /\ Stream(d) \in Seq(Payloads) /\ Stream(d) # <<>>
          /\ Head(Stream(d)) = p /\ Tail(Stream(d)) = Pending(d)
      BY <1>1, <2>1, <2>2 DEF Stream
    <3>2. QED
      BY <3>1, WeightStep
  <2>4. Weight(<<p>>) = Bytes[p] + Weight(<<>>)
    <3>1. <<p>> \in Seq(Payloads) /\ <<p>> # <<>> /\ Head(<<p>>) = p /\ Tail(<<p>>) = <<>>
      OBVIOUS
    <3>2. QED
      BY <3>1, WeightStep
  <2>5. Bytes[p] \in Nat
    BY PublisherAssumption DEF PublisherAssumption
  <2>6. QED
    BY <1>2, <2>1, <2>3, <2>4, <2>5, WeightEmpty
<1>5. QED
  BY <1>3, <1>4, FlyingCases

LEMMA Accounted ==
  ASSUME AInv, IsFiniteSet(Devices)
  PROVE  Accounting
<1> USE DEF AInv, IInv
<1>1. queuedPublications = MapThenSumSet(LAMBDA d : Len(deviceQueues[d].pending), Devices)
  BY SumOfLengths DEF CountInv
<1>2. queueBytes = MapThenSumSet(LAMBDA d : deviceQueues[d].outstandingBytes, Devices)
  BY SumOfCharges DEF ByteInv
<1>3. ASSUME NEW d \in Devices
      PROVE  LET q == deviceQueues[d]
                 flying == MapThenSumSet(LAMBDA w : Bytes[payload[w]], InFlight(d))
             IN  /\ q.outstandingCount = Len(q.pending) + Cardinality(InFlight(d))
                 /\ q.outstandingBytes = BytesIn(q.pending) + flying
                 /\ q.outstandingCount <= DeviceQueueSize
                 /\ q.outstandingBytes <= DeviceQueueMaxBytes
  <2>1. MapThenSumSet(LAMBDA w : Bytes[payload[w]], InFlight(d)) = Weight(Flying(d))
    BY SumOfFlying
  <2>2. Pending(d) \in Seq(Payloads) /\ Len(Stream(d)) = Len(Pending(d)) + Cardinality(InFlight(d))
    BY StreamType
  <2>3. BytesIn(Pending(d)) = Weight(Pending(d))
    BY <2>2, SumOfBytes
  <2>4. QED
    BY <2>1, <2>2, <2>3, WeightSplit DEF StreamInv, Pending
<1>4. queuedPublications <= QueueSize /\ queueBytes <= QueueMaxBytes
  BY DEF CountInv, ByteInv
<1>5. QED
  BY <1>1, <1>2, <1>3, <1>4 DEF Accounting

\* The four admission counters are exact and within their limits at every step,
\* in whatever order PUBLISH calls return (admission at judge_source_publisher.go:86-103,
\* release in completePublication).  The sums need finitely many devices.
THEOREM AccountingHolds == IsFiniteSet(Devices) => (Spec => []Accounting)
<1> SUFFICES ASSUME IsFiniteSet(Devices) PROVE Spec => []Accounting
  OBVIOUS
<1>1. AInv => Accounting
  BY Accounted
<1>2. QED
  BY <1>1, InitAInv, StepAInv, PTL DEF Spec

-----------------------------------------------------------------------------
(* The refinement: every step is a step of JudgeDelivery or a stutter. *)

Publishing == {d \in Devices : InFlight(d) # {}}
Outstanding == [d \in Devices |-> Stream(d)]

LEMMA DeliveryInit == Init => Delivery!Init
<1> SUFFICES ASSUME Init PROVE Delivery!Init
  OBVIOUS
<1>1. \A d \in Devices : InFlight(d) = {} /\ deviceQueues[d].pending = <<>>
  BY DEF Init, InFlight, NoQueue
<1>2. QED
  BY <1>1 DEF Delivery!Init

LEMMA DeliveryAccept ==
  ASSUME AInv, NEW d \in Devices, NEW p \in Payloads, Enqueue(d, p)
  PROVE  Delivery!Accept(d, p)
<1> USE DEF AInv, IInv
<1>1. /\ \A e \in Devices : InFlight(e)' = InFlight(e)
      /\ \A e \in Devices \ {d} : Stream(e)' = Stream(e)
      /\ Stream(d)' = Append(Stream(d), p)
  BY EnqueueStream
<1>2. Stream(d) \in Seq(Payloads) /\ Bytes[p] \in Nat
  BY StreamType, PublisherAssumption DEF PublisherAssumption
<1>3. Delivery!BytesOf(Stream(d)) = Weight(Stream(d)) /\ Weight(Stream(d)) \in Nat
  BY <1>2, SumOfBytes, WeightStep
<1>4. /\ deviceQueues[d].outstandingCount < DeviceQueueSize
      /\ Bytes[p] <= DeviceQueueMaxBytes - deviceQueues[d].outstandingBytes
  BY DEF Enqueue, Admits
<1>5. /\ Len(Outstanding[d]) < DeviceQueueSize
      /\ Bytes[p] + Delivery!BytesOf(Outstanding[d]) <= DeviceQueueMaxBytes
  BY <1>2, <1>3, <1>4, PublisherAssumption DEF StreamInv, Outstanding, PublisherAssumption
<1>6. Outstanding' = [Outstanding EXCEPT ![d] = Append(Outstanding[d], p)]
  BY <1>1 DEF Outstanding
<1>7. Publishing' = Publishing
  BY <1>1 DEF Publishing
<1>8. QED
  BY <1>5, <1>6, <1>7 DEF Delivery!Accept, Outstanding, Publishing, Stream, Flying, Pending

LEMMA DeliveryBegin ==
  ASSUME AInv, NEW w \in Workers, NextPublication(w)
  PROVE  \E d \in Devices : Delivery!Begin(d)
<1> USE DEF AInv, IInv
<1>0. PICK d \in Devices : d = holds[w]
  BY DEF TypeOK, NextPublication
<1>1. /\ \A e \in Devices : Stream(e)' = Stream(e)
      /\ Stream(d) # <<>> /\ InFlight(d) = {} /\ InFlight(d)' = {w}
      /\ \A e \in Devices \ {d} : InFlight(e)' = InFlight(e)
  BY <1>0, NextPublicationStream
<1>2. d \notin Publishing /\ Outstanding[d] # <<>>
  BY <1>1 DEF Publishing, Outstanding
<1>3. Publishing' = Publishing \cup {d}
  BY <1>1 DEF Publishing
<1>4. Outstanding' = Outstanding
  BY <1>1 DEF Outstanding
<1>5. Delivery!Begin(d)
  BY <1>2, <1>3, <1>4 DEF Delivery!Begin, Outstanding, Publishing, Stream, Flying, Pending
<1>6. QED
  BY <1>5

LEMMA DeliveryFinish ==
  ASSUME AInv, NEW w \in Workers, CompletePublication(w)
  PROVE  \E d \in Devices : Delivery!Finish(d)
<1> USE DEF AInv, IInv
<1>0. PICK d \in Devices : d = holds[w]
  BY DEF TypeOK, CompletePublication
<1>1. /\ \A e \in Devices \ {d} : Stream(e)' = Stream(e) /\ InFlight(e)' = InFlight(e)
      /\ InFlight(d) # {} /\ InFlight(d)' = {}
      /\ Stream(d)' = Tail(Stream(d))
  BY <1>0, CompletePublicationStream
<1>2. d \in Publishing
  BY <1>1 DEF Publishing
<1>3. Publishing' = Publishing \ {d}
  BY <1>1 DEF Publishing
<1>4. Outstanding' = [Outstanding EXCEPT ![d] = Tail(Outstanding[d])]
  BY <1>1 DEF Outstanding
<1>5. Delivery!Finish(d)
  BY <1>2, <1>3, <1>4 DEF Delivery!Finish, Outstanding, Publishing, Stream, Flying, Pending
<1>6. QED
  BY <1>5

LEMMA DeliveryStutter ==
  ASSUME \A d \in Devices : Stream(d)' = Stream(d) /\ InFlight(d)' = InFlight(d)
  PROVE  UNCHANGED Delivery!vars
<1>1. Outstanding' = Outstanding /\ Publishing' = Publishing
  BY DEF Outstanding, Publishing
<1>2. QED
  BY <1>1 DEF Delivery!vars, Outstanding, Publishing, Stream, Flying, Pending

LEMMA DeliveryStep == AInv /\ [Next]_vars => [Delivery!Next]_(Delivery!vars)
<1> SUFFICES ASSUME AInv, [Next]_vars PROVE [Delivery!Next]_(Delivery!vars)
  OBVIOUS
<1>1. ASSUME NEW d \in Devices, NEW p \in Payloads, Enqueue(d, p) PROVE Delivery!Next
  BY <1>1, DeliveryAccept DEF Delivery!Next
<1>2. ASSUME NEW w \in Workers, NextPublication(w) PROVE Delivery!Next
  BY <1>2, DeliveryBegin DEF Delivery!Next
<1>3. ASSUME NEW w \in Workers, CompletePublication(w) PROVE Delivery!Next
  BY <1>3, DeliveryFinish DEF Delivery!Next
<1>4. CASE \/ EnqueueSend \/ Cancel \/ Stop \/ UNCHANGED vars
           \/ \E w \in Workers : TakeToken(w) \/ RequeueSend(w) \/ WorkerExit(w)
  <2>1. \A d \in Devices : Stream(d)' = Stream(d) /\ InFlight(d)' = InFlight(d)
    BY <1>4, OtherStream DEF AInv, IInv
  <2>2. QED
    BY <2>1, DeliveryStutter
<1>5. QED
  BY <1>1, <1>2, <1>3, <1>4 DEF Next, WorkerStep, Stopped

\* The publisher implements JudgeDelivery: the accepted events of a device are
\* published in the order of acceptance, one at a time, at most once, and hold the
\* device's capacity until PUBLISH returns, for every number of workers and devices.
THEOREM ImplementsDeliveryHolds == Spec => ImplementsDelivery
BY DeliveryInit, DeliveryStep, InitAInv, StepAInv, PTL
DEF Spec, ImplementsDelivery, Delivery!Spec
=============================================================================
