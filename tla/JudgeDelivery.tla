--------------------------- MODULE JudgeDelivery ---------------------------
(***************************************************************************)
(* What the Judge source publisher promises to the collectors that hand it *)
(* events, without queues, tokens, workers or locks.  Every device owns a  *)
(* first-in first-out stream of accepted payloads.  The oldest one is the  *)
(* only one that may be in the middle of a Redis PUBLISH, it is published  *)
(* at most once, and it keeps its share of the device's capacity until     *)
(* that PUBLISH has returned.                                              *)
(***************************************************************************)
EXTENDS Naturals, Sequences, SequencesExt

CONSTANTS Devices, Payloads, Bytes, DeviceQueueSize, DeviceQueueMaxBytes

VARIABLES outstanding,  \* [Devices -> Seq(Payloads)], accepted and unfinished
          publishing    \* the devices whose oldest payload is being published

vars == <<outstanding, publishing>>

BytesOf(payloads) == FoldSeq(LAMBDA p, sum : Bytes[p] + sum, 0, payloads)

Init ==
  /\ outstanding = [d \in Devices |-> <<>>]
  /\ publishing = {}

Accept(d, p) ==
  /\ Len(outstanding[d]) < DeviceQueueSize
  /\ Bytes[p] + BytesOf(outstanding[d]) <= DeviceQueueMaxBytes
  /\ outstanding' = [outstanding EXCEPT ![d] = Append(@, p)]
  /\ UNCHANGED publishing

Begin(d) ==
  /\ d \notin publishing
  /\ outstanding[d] # <<>>
  /\ publishing' = publishing \cup {d}
  /\ UNCHANGED outstanding

Finish(d) ==
  /\ d \in publishing
  /\ publishing' = publishing \ {d}
  /\ outstanding' = [outstanding EXCEPT ![d] = Tail(@)]

Next ==
  \E d \in Devices :
    \/ \E p \in Payloads : Accept(d, p)
    \/ Begin(d)
    \/ Finish(d)

Spec == Init /\ [][Next]_vars
=============================================================================
