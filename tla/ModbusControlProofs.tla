------------------------- MODULE ModbusControlProofs -------------------------
(***************************************************************************)
(* The Modbus gateway for any workers, points, attributes and commands:    *)
(* that whoever takes the connection finds no leftovers, and that a report *)
(* says of every attribute of its command what happened to it.             *)
(*                                                                         *)
(* The guard has one owner, who has at most one message under way and none *)
(* when it hands the connection over in good order (LoadInv); so what it   *)
(* receives answers its own request, which is what the evidence of a       *)
(* result rests on.  The results found so far are labelled like the items  *)
(* and keys that are done (Labelled): Expected, a concatenation over the   *)
(* items, is followed item by item (FlattenSteps of Sums).  Of the job in  *)
(* progress most actions change a field or two; what they keep of it is    *)
(* said by lemmas about records, before the lemmas about the actions.      *)
(***************************************************************************)
EXTENDS ModbusControl, Sums

Statuses == {"failed", "unverified", "verified"}

Senders == ({Control} \X Nat) \cup (Workers \X {0})

Requests == [kind : {"read"}, point : Points, by : Senders]
            \cup [kind : {"write"}, point : Points, value : Values, by : Senders]

Answers == [kind : {"ack"}, point : Points, by : Senders]
           \cup [kind : {"value"}, value : Values, by : Senders]
           \cup [kind : {"garbled"}, by : Senders]

Links == [state : {"none", "up", "broken"}, requests : Seq(Requests), answers : Seq(Answers)]

\* A key, or the device alone.
KeyNames == Keys \cup {""}

Labels == [device : Named, key : KeyNames]

Results == [device : Named, key : KeyNames, status : Statuses, turn : Nat,
            evidence : SUBSET Senders]

\* Where a command has the guard, and where it is at one of its keys.
OwnerPlaces == {"pause", "write", "ack", "read", "reading", "wait", "resume", "release"}

KeyPlaces == OwnerPlaces \cup {"key", "publish", "acquire", "reset"}

Jobs == [at : KeyPlaces \cup {"idle", "item"}, command : Seq(Items), items : Seq(Items),
         keys : Seq(Keys), turn : Nat, expired : BOOLEAN, evidence : SUBSET Senders,
         status : Statuses \cup {"none"}, results : Seq(Results)]

\* Where a worker has the guard.
ReadPlaces == {"send", "await", "reset", "release"}

WorkerPlaces == ReadPlaces \cup {"idle", "check", "paused", "acquire", "gone"}

LinkTypes == link \in Links /\ held \in [Points -> Values]

ReadTypes ==
  /\ at \in [Workers -> WorkerPlaces]
  /\ next \in [Workers -> Nat] /\ \A w \in Workers : next[w] \in 1..Len(Reads[w])

OwnerInv ==
  /\ owner \in Workers \cup {Control, Nobody}
  /\ owner = Control <=> job.at \in OwnerPlaces
  /\ \A w \in Workers : owner = w <=> at[w] \in ReadPlaces

Quiet == link.requests = <<>> /\ link.answers = <<>>

AlmostQuiet == Len(link.requests) + Len(link.answers) <= 1

\* What is under way on the connection of a command, in good order or not.
CommandLoad ==
  /\ job.at \in {"pause", "write"} => Quiet
  /\ job.at \in {"ack", "reading"} => AlmostQuiet
  /\ job.at \in {"read", "wait"} => Quiet \/ link.state # "up"
  /\ job.at \in {"resume", "release"} => job.status = "failed" \/ Quiet

\* The same of a worker.
ReadLoad(w) ==
  /\ at[w] \in {"send", "release"} => Quiet
  /\ at[w] = "await" => AlmostQuiet

\* A reset that comes after the release may find anything, until it is done.
LoadInv ==
  /\ link.state = "none" => Quiet
  /\ CommandLoad
  /\ job.at # "reset" => \A w \in Workers : ReadLoad(w)

\* What the command has received so far answers the key in hand.
Evident(j) ==
  /\ j.at \in {"resume", "release", "reset"} => j.status \in Statuses
  /\ j.at = "reset" => j.status = "failed"
  /\ \/ j.at \in {"read", "reading", "wait"}
     \/ j.at \in {"resume", "release"} /\ j.status = "verified"
     => j.evidence = {<<Control, j.turn>>}

Grounded(r) ==
  r.status = "verified" /\ Protocol[r.device] = "modbus" => OwnEvidence(r)

AllGrounded(rs) == \A i \in DOMAIN rs : Grounded(rs[i])

LabelsOf(rs) == [i \in DOMAIN rs |-> [device |-> rs[i].device, key |-> rs[i].key]]

KeyLabels(device, keys) == [j \in DOMAIN keys |-> [device |-> device, key |-> keys[j]]]

\* What is expected for one item.
ItemLabels(item) ==
  IF item.device = Unnamed THEN <<>>
  ELSE IF item.device \notin Devices THEN <<[device |-> item.device, key |-> ""]>>
  ELSE KeyLabels(item.device, item.keys)

AllLabels(command) == [i \in DOMAIN command |-> ItemLabels(command[i])]

\* The number of items that are done.
Done(j) == Len(j.command) - Len(j.items)

\* The items left are the end of the command.
Ends(j) == Done(j) \in Nat /\ \A k \in 1..Len(j.items) : j.items[k] = j.command[Done(j) + k]

\* h[k] is what is expected of the first k items: it is there for those that are done, and
\* will be for the item in hand when its other keys are.
Follows(j, h) ==
  /\ Flattens(h, Len(j.command), AllLabels(j.command))
  /\ j.at = "item" => LabelsOf(j.results) = h[Done(j)]
  /\ j.at \in KeyPlaces =>
       LabelsOf(j.results) \o KeyLabels(Head(j.items).device, j.keys) = h[Done(j) + 1]

InHand(j) ==
  /\ j.at \in KeyPlaces =>
       /\ j.items # <<>>
       /\ Head(j.items).device \in Devices
  /\ j.at \in KeyPlaces \ {"key"} => j.keys # <<>>

Labelled(j) == j.at # "idle" => Ends(j) /\ InHand(j) /\ \E h : Follows(j, h)

JobInv == job \in Jobs /\ Evident(job) /\ AllGrounded(job.results) /\ Labelled(job)

IInv ==
  /\ LinkTypes /\ ReadTypes /\ OwnerInv /\ LoadInv /\ CleanHandover
  /\ JobInv /\ HonestReport

-----------------------------------------------------------------------------
(* Labels, of results and of keys. *)

LEMMA Facts ==
  /\ Control \notin Workers /\ Nobody \notin Workers /\ Nobody # Control
  /\ Unnamed \notin Devices
  /\ \A w \in Workers : Reads[w] \in Seq(Points) /\ Reads[w] # <<>>
  /\ \A k \in Keys : Attribute[k].target \in Values /\ Attribute[k].point \in Points
  /\ Commands \subseteq Seq(Items)
BY ControlAssumption DEF ControlAssumption, Points

LEMMA FunctionIsSeq ==
  ASSUME NEW n \in Nat, NEW S, NEW f \in [1..n -> S]
  PROVE  f \in Seq(S) /\ Len(f) = n
OBVIOUS

LEMMA LabelFields ==
  ASSUME NEW d \in Named, NEW k \in KeyNames
  PROVE  [device |-> d, key |-> k] \in Labels
BY DEF Labels

LEMMA LabelsType ==
  ASSUME NEW rs \in Seq(Results)
  PROVE  LabelsOf(rs) \in Seq(Labels) /\ Len(LabelsOf(rs)) = Len(rs)
<1> DEFINE n == Len(rs)
<1>1. DOMAIN rs = 1..n /\ n \in Nat /\ \A i \in 1..n : rs[i] \in Results
  OBVIOUS
<1>2. \A r \in Results : r.device \in Named /\ r.key \in KeyNames
  BY DEF Results
<1>3. \A i \in 1..n : [device |-> rs[i].device, key |-> rs[i].key] \in Labels
  BY <1>1, <1>2, LabelFields
<1>4. LabelsOf(rs) \in [1..n -> Labels]
  BY <1>1, <1>3 DEF LabelsOf
<1> HIDE DEF n
<1>5. LabelsOf(rs) \in Seq(Labels) /\ Len(LabelsOf(rs)) = n
  BY ONLY <1>1, <1>4, FunctionIsSeq
<1>6. QED
  BY <1>5 DEF n

LEMMA LabelsConcat ==
  ASSUME NEW rs \in Seq(Results), NEW qs \in Seq(Results)
  PROVE  LabelsOf(rs \o qs) = LabelsOf(rs) \o LabelsOf(qs)
<1> DEFINE a == LabelsOf(rs)
           b == LabelsOf(qs)
           c == LabelsOf(rs \o qs)
<1>1. a \in Seq(Labels) /\ b \in Seq(Labels) /\ Len(a) = Len(rs) /\ Len(b) = Len(qs)
  BY LabelsType
<1>2. rs \o qs \in Seq(Results) /\ Len(rs \o qs) = Len(rs) + Len(qs)
  OBVIOUS
<1>3. c \in Seq(Labels) /\ Len(c) = Len(rs) + Len(qs)
  BY <1>2, LabelsType
<1>4. ASSUME NEW i \in 1..Len(c) PROVE c[i] = (a \o b)[i]
  <2>0. i \in 1..(Len(rs) + Len(qs)) /\ Len(rs) \in Nat /\ Len(qs) \in Nat /\ i \in Nat
    BY <1>3
  <2>1. CASE i <= Len(rs)
    <3>1. (rs \o qs)[i] = rs[i] /\ i \in DOMAIN rs /\ i \in DOMAIN (rs \o qs)
      BY <1>2, <2>0, <2>1
    <3>2. (a \o b)[i] = a[i]
      BY <1>1, <2>0, <2>1
    <3>3. QED
      BY <3>1, <3>2 DEF LabelsOf
  <2>2. CASE i > Len(rs)
    <3>1. /\ (rs \o qs)[i] = qs[i - Len(rs)] /\ i - Len(rs) \in DOMAIN qs
          /\ i \in DOMAIN (rs \o qs)
      BY <1>2, <2>0, <2>2
    <3>2. (a \o b)[i] = b[i - Len(rs)]
      BY <1>1, <2>0, <2>2
    <3>3. QED
      BY <3>1, <3>2 DEF LabelsOf
  <2>3. i <= Len(rs) \/ i > Len(rs)
    BY <2>0
  <2>4. QED
    BY ONLY <2>1, <2>2, <2>3
<1> HIDE DEF a, b, c
<1>5. a \o b \in Seq(Labels) /\ Len(a \o b) = Len(rs) + Len(qs)
  BY <1>1
<1>6. c = a \o b
  BY ONLY <1>3, <1>4, <1>5, SeqEqual
<1>7. QED
  BY <1>6 DEF a, b, c

LEMMA LabelsAppend ==
  ASSUME NEW rs \in Seq(Results), NEW r \in Results
  PROVE  LabelsOf(Append(rs, r)) = Append(LabelsOf(rs), [device |-> r.device, key |-> r.key])
<1>1. <<r>> \in Seq(Results) /\ Append(rs, r) = rs \o <<r>>
  BY AppendIsConcat
<1>2. LabelsOf(<<r>>) = <<[device |-> r.device, key |-> r.key]>>
  <2>1. DOMAIN <<r>> = 1..1 /\ <<r>>[1] = r
    OBVIOUS
  <2>2. LabelsOf(<<r>>) = [i \in 1..1 |-> [device |-> r.device, key |-> r.key]]
    BY <2>1 DEF LabelsOf
  <2>3. QED
    BY <2>2
<1>3. [device |-> r.device, key |-> r.key] \in Labels
  BY DEF Results, Labels
<1>4. LabelsOf(rs) \in Seq(Labels)
  BY LabelsType
<1>5. Append(LabelsOf(rs), [device |-> r.device, key |-> r.key])
        = LabelsOf(rs) \o <<[device |-> r.device, key |-> r.key]>>
  BY <1>3, <1>4, AppendIsConcat
<1>6. QED
  BY <1>1, <1>2, <1>5, LabelsConcat

LEMMA KeyLabelsFacts ==
  ASSUME NEW d \in Named, NEW ks \in Seq(Keys)
  PROVE  /\ KeyLabels(d, ks) \in Seq(Labels)
         /\ Len(KeyLabels(d, ks)) = Len(ks)
         /\ ks = <<>> => KeyLabels(d, ks) = <<>>
         /\ ks # <<>> => /\ Head(ks) \in Keys /\ Tail(ks) \in Seq(Keys)
                         /\ KeyLabels(d, ks) # <<>>
                         /\ Head(KeyLabels(d, ks)) = [device |-> d, key |-> Head(ks)]
                         /\ Tail(KeyLabels(d, ks)) = KeyLabels(d, Tail(ks))
<1> DEFINE ls == KeyLabels(d, ks)
<1>1. DOMAIN ks = 1..Len(ks) /\ Len(ks) \in Nat /\ \A j \in 1..Len(ks) : ks[j] \in Keys
  OBVIOUS
<1>2. ls \in Seq(Labels) /\ Len(ls) = Len(ks)
  <2>1. \A j \in 1..Len(ks) : [device |-> d, key |-> ks[j]] \in Labels
    BY <1>1, LabelFields DEF KeyNames
  <2>2. ls \in [1..Len(ks) -> Labels]
    BY <1>1, <2>1 DEF KeyLabels
  <2> HIDE DEF ls
  <2>3. QED
    BY <1>1, <2>2, FunctionIsSeq
<1>3. ASSUME ks = <<>> PROVE ls = <<>>
  BY <1>2, <1>3
<1>4. ASSUME ks # <<>>
      PROVE  /\ Head(ks) \in Keys /\ Tail(ks) \in Seq(Keys) /\ ls # <<>>
             /\ Head(ls) = [device |-> d, key |-> Head(ks)]
             /\ Tail(ls) = KeyLabels(d, Tail(ks))
  <2>1. /\ Head(ks) = ks[1] /\ Head(ks) \in Keys /\ Tail(ks) \in Seq(Keys)
        /\ Len(ks) >= 1 /\ Len(Tail(ks)) = Len(ks) - 1
        /\ \A j \in 1..(Len(ks) - 1) : Tail(ks)[j] = ks[j + 1]
    BY <1>4
  <2>2. ls # <<>> /\ Head(ls) = ls[1] /\ ls[1] = [device |-> d, key |-> Head(ks)]
    <3>1. 1 \in DOMAIN ks
      BY <1>1, <2>1
    <3>2. ls[1] = [device |-> d, key |-> ks[1]]
      BY <3>1 DEF KeyLabels
    <3> HIDE DEF ls
    <3>3. QED
      BY <1>2, <2>1, <3>2
  <2>3. /\ KeyLabels(d, Tail(ks)) \in Seq(Labels)
        /\ Len(KeyLabels(d, Tail(ks))) = Len(ks) - 1
        /\ \A j \in 1..(Len(ks) - 1) :
             KeyLabels(d, Tail(ks))[j] = [device |-> d, key |-> ks[j + 1]]
    <3>1. DOMAIN Tail(ks) = 1..(Len(ks) - 1)
      BY <2>1
    <3>2. \A j \in 1..(Len(ks) - 1) : Tail(ks)[j] \in Keys
      BY <2>1
    <3>3. \A j \in 1..(Len(ks) - 1) : [device |-> d, key |-> Tail(ks)[j]] \in Labels
      BY <3>2, LabelFields DEF KeyNames
    <3>4. /\ KeyLabels(d, Tail(ks)) \in [1..(Len(ks) - 1) -> Labels]
          /\ \A j \in 1..(Len(ks) - 1) :
               KeyLabels(d, Tail(ks))[j] = [device |-> d, key |-> Tail(ks)[j]]
      BY <3>1, <3>3 DEF KeyLabels
    <3>5. Len(ks) - 1 \in Nat
      BY <1>1, <2>1
    <3> DEFINE m == Len(ks) - 1
               f == KeyLabels(d, Tail(ks))
    <3> HIDE DEF m, f
    <3>6. m \in Nat /\ f \in [1..m -> Labels]
      BY <3>4, <3>5 DEF m, f
    <3>7. f \in Seq(Labels) /\ Len(f) = m
      BY ONLY <3>6, FunctionIsSeq
    <3>8. QED
      BY <2>1, <3>4, <3>7 DEF m, f
  <2>4. \A j \in 1..(Len(ks) - 1) : ls[j + 1] = [device |-> d, key |-> ks[j + 1]]
    <3>1. \A j \in 1..(Len(ks) - 1) : j + 1 \in DOMAIN ks
      BY <1>1
    <3>2. QED
      BY <3>1 DEF KeyLabels
  <2> HIDE DEF ls
  <2>5. /\ Tail(ls) \in Seq(Labels) /\ Len(Tail(ls)) = Len(ks) - 1
        /\ \A j \in 1..(Len(ks) - 1) : Tail(ls)[j] = ls[j + 1]
    BY <1>2, <2>2
  <2> DEFINE t == KeyLabels(d, Tail(ks))
             u == Tail(ls)
  <2>6. /\ t \in Seq(Labels) /\ u \in Seq(Labels) /\ Len(t) = Len(u)
        /\ \A j \in 1..Len(t) : t[j] = u[j]
    BY <2>3, <2>4, <2>5
  <2> HIDE DEF t, u
  <2>7. t = u
    BY ONLY <2>6, SeqEqual
  <2>8. QED
    BY <2>1, <2>2, <2>7 DEF t, u
<1>5. QED
  BY <1>2, <1>3, <1>4

LEMMA ItemFields ==
  ASSUME NEW item \in Items
  PROVE  item.device \in Named /\ item.keys \in Seq(Keys) /\ ItemLabels(item) \in Seq(Labels)
<1>1. item.device \in Named /\ item.keys \in Seq(Keys)
  BY DEF Items
<1>2. KeyLabels(item.device, item.keys) \in Seq(Labels)
  BY <1>1, KeyLabelsFacts
<1>3. <<[device |-> item.device, key |-> ""]>> \in Seq(Labels) /\ <<>> \in Seq(Labels)
  <2> DEFINE l == [device |-> item.device, key |-> ""]
  <2>1. l \in Labels
    BY <1>1, LabelFields DEF KeyNames
  <2> HIDE DEF l
  <2>2. <<l>> \in Seq(Labels) /\ <<>> \in Seq(Labels)
    BY <2>1
  <2>3. QED
    BY <2>2 DEF l
<1>4. ItemLabels(item) \in {<<>>, <<[device |-> item.device, key |-> ""]>>,
                           KeyLabels(item.device, item.keys)}
  BY DEF ItemLabels
<1>5. QED
  BY <1>1, <1>2, <1>3, <1>4

LEMMA ExpectedSteps ==
  ASSUME NEW command \in Seq(Items)
  PROVE  /\ \E h : Flattens(h, Len(command), AllLabels(command))
         /\ Expected(command) = FlattenSeq(AllLabels(command))
         /\ \A i \in DOMAIN command : AllLabels(command)[i] = ItemLabels(command[i])
<1> DEFINE n == Len(command)
           ss == AllLabels(command)
<1>1. n \in Nat /\ DOMAIN command = 1..n /\ \A i \in 1..n : command[i] \in Items
  OBVIOUS
<1>2. ss \in [1..n -> Seq(Labels)]
  BY <1>1, ItemFields DEF AllLabels
<1>3. \E h : Flattens(h, n, ss)
  <2> HIDE DEF n, ss
  <2>1. QED
    BY ONLY <1>1, <1>2, FlattenSteps
<1>4. Expected(command) = FlattenSeq(AllLabels(command))
  BY DEF Expected, AllLabels, ItemLabels, KeyLabels
<1>5. QED
  BY <1>3, <1>4 DEF AllLabels

-----------------------------------------------------------------------------
(* What a step keeps of the command in progress: j before, k after. *)

LEMMA JobFields ==
  ASSUME NEW j \in Jobs
  PROVE  /\ j.command \in Seq(Items) /\ j.items \in Seq(Items) /\ j.keys \in Seq(Keys)
         /\ j.results \in Seq(Results) /\ j.turn \in Nat /\ j.expired \in BOOLEAN
         /\ j.evidence \in SUBSET Senders /\ j.status \in Statuses \cup {"none"}
         /\ j.at \in KeyPlaces \cup {"idle", "item"}
BY DEF Jobs

LEMMA Places ==
  /\ "key" \in KeyPlaces /\ OwnerPlaces \subseteq KeyPlaces
  /\ "item" \notin KeyPlaces /\ "idle" \notin KeyPlaces /\ "item" # "idle"
  /\ "acquire" \in KeyPlaces \ OwnerPlaces /\ "reset" \in KeyPlaces \ OwnerPlaces
  /\ "publish" \in KeyPlaces \ OwnerPlaces
  /\ "key" \notin OwnerPlaces
BY DEF KeyPlaces, OwnerPlaces

LEMMA NextEnds ==
  ASSUME NEW j \in Jobs, NEW k, Ends(j), j.items # <<>>,
         k.command = j.command, k.items = Tail(j.items)
  PROVE  /\ Ends(k) /\ Done(k) = Done(j) + 1 /\ Done(j) + 1 \in 1..Len(j.command)
         /\ Head(j.items) = j.command[Done(j) + 1] /\ Head(j.items) \in Items
         /\ Done(j) + 1 \in DOMAIN j.command
<1> DEFINE items == j.items
           rest == Tail(j.items)
           command == j.command
           d == Len(command) - Len(items)
<1>1. items \in Seq(Items) /\ command \in Seq(Items) /\ items # <<>>
  BY JobFields
<1>2. d \in Nat /\ \A i \in 1..Len(items) : items[i] = command[d + i]
  BY DEF Ends, Done
<1> HIDE DEF items, command
<1>3. /\ Len(items) \in Nat /\ Len(command) \in Nat /\ Len(items) >= 1
      /\ Head(items) = items[1] /\ Head(items) \in Items
      /\ Tail(items) \in Seq(Items) /\ Len(Tail(items)) = Len(items) - 1
      /\ \A i \in 1..(Len(items) - 1) : Tail(items)[i] = items[i + 1]
      /\ DOMAIN command = 1..Len(command)
  BY <1>1
<1>4. /\ d + 1 \in 1..Len(command) /\ Head(items) = command[d + 1]
      /\ Len(command) - Len(Tail(items)) = d + 1
  BY <1>2, <1>3
<1>5. \A i \in 1..Len(Tail(items)) : Tail(items)[i] = command[(d + 1) + i]
  <2> SUFFICES ASSUME NEW i \in 1..Len(Tail(items))
               PROVE  Tail(items)[i] = command[(d + 1) + i]
    OBVIOUS
  <2>1. i \in 1..(Len(items) - 1) /\ i + 1 \in 1..Len(items) /\ d + (i + 1) = (d + 1) + i
    BY <1>2, <1>3
  <2>2. Tail(items)[i] = items[i + 1] /\ items[i + 1] = command[d + (i + 1)]
    BY <1>2, <1>3, <2>1
  <2>3. QED
    BY <2>1, <2>2
<1>6. d + 1 \in Nat
  BY <1>2
<1>7. k.items = Tail(items) /\ k.command = command /\ Done(j) = d
  BY DEF items, command, Done
<1> HIDE DEF d
<1>8. Done(k) = d + 1
  BY <1>4, <1>7 DEF Done
<1>9. Ends(k)
  BY <1>5, <1>6, <1>7, <1>8 DEF Ends
<1>10. QED
  BY <1>3, <1>4, <1>7, <1>8, <1>9 DEF items, command

LEMMA NextLabels ==
  ASSUME NEW j \in Jobs, Ends(j), j.items # <<>>, NEW h, Follows(j, h)
  PROVE  h[Done(j) + 1] = h[Done(j)] \o ItemLabels(Head(j.items))
<1> DEFINE m == Done(j) + 1
           k == [command |-> j.command, items |-> Tail(j.items)]
           ss == AllLabels(j.command)
<1>1. k.command = j.command /\ k.items = Tail(j.items)
  OBVIOUS
<1> HIDE DEF k
<1>2. /\ m \in 1..Len(j.command) /\ m \in DOMAIN j.command
      /\ Head(j.items) = j.command[m]
  BY <1>1, NextEnds
<1>3. \A i \in 1..Len(j.command) : h[i] = h[i - 1] \o ss[i]
  BY DEF Follows, Flattens
<1>4. ss[m] = ItemLabels(Head(j.items))
  BY <1>2 DEF AllLabels
<1>5. m - 1 = Done(j)
  BY DEF Ends
<1> HIDE DEF m, ss
<1>6. h[m] = h[m - 1] \o ss[m]
  BY <1>2, <1>3
<1>7. QED
  BY <1>4, <1>5, <1>6 DEF m

\* The key stays in hand.
LEMMA KeyMoves ==
  ASSUME NEW j \in Jobs, NEW k, Labelled(j), j.at \in KeyPlaces,
         k.at \in KeyPlaces, k.at # "key" => j.keys # <<>>,
         k.command = j.command, k.items = j.items, k.keys = j.keys, k.results = j.results
  PROVE  Labelled(k)
<1>1. Ends(j) /\ InHand(j)
  BY Places DEF Labelled
<1>2. PICK h : Follows(j, h)
  BY Places DEF Labelled
<1>3. Ends(k)
  BY <1>1 DEF Ends, Done
<1>4. InHand(k)
  BY <1>1 DEF InHand
<1>5. Follows(k, h)
  BY <1>2, Places DEF Follows, Done
<1>6. QED
  BY <1>3, <1>4, <1>5 DEF Labelled

\* The key has its result.
LEMMA KeyEnds ==
  ASSUME NEW j \in Jobs, NEW k, NEW r \in Results, Labelled(j),
         j.at \in KeyPlaces, j.keys # <<>>,
         r.device = Head(j.items).device, r.key = Head(j.keys),
         k.at = "key", k.command = j.command, k.items = j.items,
         k.keys = Tail(j.keys), k.results = Append(j.results, r)
  PROVE  Labelled(k)
<1>1. Ends(j) /\ InHand(j)
  BY Places DEF Labelled
<1>2. PICK h : Follows(j, h)
  BY Places DEF Labelled
<1>3. Ends(k)
  BY <1>1 DEF Ends, Done
<1>4. InHand(k)
  BY <1>1 DEF InHand
<1>5. LabelsOf(k.results) \o KeyLabels(Head(k.items).device, k.keys)
        = LabelsOf(j.results) \o KeyLabels(Head(j.items).device, j.keys)
  <2> DEFINE d == Head(j.items).device
             ls == LabelsOf(j.results)
             ks == KeyLabels(d, j.keys)
  <2>1. d \in Named /\ j.keys \in Seq(Keys) /\ j.results \in Seq(Results)
    BY JobFields DEF Results
  <2>2. /\ ls \in Seq(Labels) /\ ks \in Seq(Labels) /\ ks # <<>>
        /\ Head(ks) = [device |-> d, key |-> Head(j.keys)]
        /\ Tail(ks) = KeyLabels(d, Tail(j.keys))
    <3> HIDE DEF d
    <3>1. QED
      BY <2>1, LabelsType, KeyLabelsFacts
  <2>3. LabelsOf(k.results) = Append(ls, Head(ks))
    BY <2>1, <2>2, LabelsAppend
  <2>4. KeyLabels(Head(k.items).device, k.keys) = Tail(ks)
    BY <2>2
  <2> HIDE DEF d, ls, ks
  <2>5. Append(ls, Head(ks)) \o Tail(ks) = ls \o ks
    BY ONLY <2>2, MoveHead
  <2>6. QED
    BY <2>3, <2>4, <2>5 DEF d, ls, ks
<1>6. Follows(k, h)
  BY <1>2, <1>5, Places DEF Follows, Done
<1>7. QED
  BY <1>3, <1>4, <1>6 DEF Labelled

\* The last key of the item had its result.
LEMMA KeysEnd ==
  ASSUME NEW j \in Jobs, NEW k, Labelled(j), j.at = "key", j.keys = <<>>,
         k.at = "item", k.command = j.command, k.items = Tail(j.items), k.results = j.results
  PROVE  Labelled(k)
<1>1. Ends(j) /\ InHand(j) /\ j.items # <<>>
  BY Places DEF Labelled, InHand
<1>2. PICK h : Follows(j, h)
  BY Places DEF Labelled
<1>3. Ends(k) /\ Done(k) = Done(j) + 1 /\ Head(j.items) \in Items
  BY <1>1, NextEnds
<1>4. InHand(k)
  BY Places DEF InHand
<1>5. LabelsOf(j.results) \o KeyLabels(Head(j.items).device, j.keys) = LabelsOf(j.results)
  <2>1. KeyLabels(Head(j.items).device, j.keys) = <<>>
    BY <1>3, ItemFields, KeyLabelsFacts, JobFields
  <2>2. LabelsOf(j.results) \in Seq(Labels)
    BY JobFields, LabelsType
  <2>3. QED
    BY <2>1, <2>2
<1>6. Follows(k, h)
  BY <1>2, <1>3, <1>5, Places DEF Follows
<1>7. QED
  BY <1>3, <1>4, <1>6 DEF Labelled

\* An item has all its results at once.
LEMMA ItemEnds ==
  ASSUME NEW j \in Jobs, NEW k, NEW rs \in Seq(Results), Labelled(j),
         j.at = "item", j.items # <<>>, LabelsOf(rs) = ItemLabels(Head(j.items)),
         k.at = "item", k.command = j.command, k.items = Tail(j.items),
         k.results = j.results \o rs
  PROVE  Labelled(k)
<1>1. Ends(j)
  BY Places DEF Labelled
<1>2. PICK h : Follows(j, h)
  BY Places DEF Labelled
<1>3. /\ Ends(k) /\ Done(k) = Done(j) + 1 /\ Head(j.items) \in Items
      /\ Done(j) + 1 \in 1..Len(j.command) /\ Done(j) + 1 \in DOMAIN j.command
      /\ Head(j.items) = j.command[Done(j) + 1]
  BY <1>1, NextEnds
<1>4. InHand(k)
  BY Places DEF InHand
<1>5. h[Done(j) + 1] = h[Done(j)] \o ItemLabels(Head(j.items))
  BY <1>1, <1>2, NextLabels
<1>6. LabelsOf(k.results) = LabelsOf(j.results) \o LabelsOf(rs)
  BY JobFields, LabelsConcat
<1>7. LabelsOf(j.results) = h[Done(j)]
  BY <1>2 DEF Follows
<1>8. Follows(k, h)
  BY <1>2, <1>3, <1>5, <1>6, <1>7, Places DEF Follows
<1>9. QED
  BY <1>3, <1>4, <1>8 DEF Labelled

\* The keys of a Modbus or an MQTT device are taken in hand.
LEMMA ItemBegins ==
  ASSUME NEW j \in Jobs, NEW k, Labelled(j), j.at = "item", j.items # <<>>,
         Head(j.items).device \in Devices,
         k.at = "key", k.command = j.command, k.items = j.items,
         k.keys = Head(j.items).keys, k.results = j.results
  PROVE  Labelled(k)
<1>1. Ends(j)
  BY Places DEF Labelled
<1>2. PICK h : Follows(j, h)
  BY Places DEF Labelled
<1>3. h[Done(j) + 1] = h[Done(j)] \o ItemLabels(Head(j.items))
  BY <1>1, <1>2, NextLabels
<1>4. ItemLabels(Head(j.items)) = KeyLabels(Head(j.items).device, Head(j.items).keys)
  BY Facts DEF ItemLabels
<1>5. LabelsOf(j.results) = h[Done(j)]
  BY <1>2 DEF Follows
<1>6. Ends(k) /\ Done(k) = Done(j)
  BY <1>1 DEF Ends, Done
<1>7. InHand(k)
  BY DEF InHand
<1>8. Follows(k, h)
  BY <1>2, <1>3, <1>4, <1>5, <1>6, Places DEF Follows
<1>9. QED
  BY <1>6, <1>7, <1>8 DEF Labelled

\* A command begins.
LEMMA CommandBegins ==
  ASSUME NEW k, NEW c \in Seq(Items),
         k.at = "item", k.command = c, k.items = c, k.results = <<>>
  PROVE  Labelled(k)
<1>1. Len(c) - Len(c) = 0 /\ \A i \in 1..Len(c) : 0 + i = i
  OBVIOUS
<1>2. Ends(k) /\ Done(k) = 0
  BY <1>1 DEF Ends, Done
<1>3. InHand(k)
  BY Places DEF InHand
<1>4. PICK h : Flattens(h, Len(c), AllLabels(c))
  BY ExpectedSteps
<1>5. LabelsOf(<<>>) = <<>>
  BY DEF LabelsOf
<1>6. Follows(k, h)
  BY <1>2, <1>4, <1>5, Places DEF Follows, Flattens
<1>7. QED
  BY <1>2, <1>3, <1>6 DEF Labelled

\* Nothing is left of the command.
LEMMA CommandDone ==
  ASSUME NEW j \in Jobs, Labelled(j), j.at = "item", j.items = <<>>
  PROVE  LabelsOf(j.results) = Expected(j.command)
<1>1. PICK h : Follows(j, h)
  BY Places DEF Labelled
<1>2. Done(j) = Len(j.command)
  BY JobFields DEF Done
<1>3. LabelsOf(j.results) = h[Len(j.command)]
  BY <1>1, <1>2 DEF Follows
<1>4. h[Len(j.command)] = FlattenSeq(AllLabels(j.command))
  BY <1>1 DEF Follows, Flattens
<1>5. QED
  BY <1>3, <1>4, JobFields, ExpectedSteps

-----------------------------------------------------------------------------
(* What the report's outcome says of its results. *)

\* h goes through the outcomes of the first results.
MergeSteps(h, n, rs) ==
  /\ h \in [0..n -> Statuses]
  /\ h[0] = "verified" /\ h[n] = Overall(rs)
  /\ \A k \in 1..n : h[k] = Merge(h[k - 1], rs[k].status)

LEMMA MergeType ==
  ASSUME NEW a \in Statuses, NEW b \in Statuses
  PROVE  Merge(a, b) \in Statuses /\ (Merge(a, b) = "verified" => a = "verified" /\ b = "verified")
BY DEF Merge, Statuses

LEMMA MergeTrace ==
  ASSUME NEW rs \in Seq(Results), NEW n, Len(rs) = n
  PROVE  \E h : MergeSteps(h, n, rs)
<1> DEFINE D == DOMAIN rs
           F(f) == [u \in SUBSET D |->
                      IF u = {} THEN "verified" ELSE Merge(f[u \ {Top(u)}], rs[Top(u)].status)]
           fold == CHOOSE f : f = F(f)
           G == [p \in Statuses \X (1..n) |-> Merge(p[1], rs[p[2]].status)]
<1>1. Overall(rs) = fold[D]
  BY DEF Overall, FoldLeft, MapThenFoldSet, Top, Max
<1>2. n \in Nat /\ D = 1..n /\ "verified" \in Statuses
  BY DEF Statuses
<1>3. \A k \in 1..n : rs[k].status \in Statuses
  <2>1. \A k \in 1..n : rs[k] \in Results
    OBVIOUS
  <2>2. QED
    BY <2>1 DEF Results
<1>4. Steps(G, n, Statuses)
  BY <1>3, MergeType DEF Steps
<1>5. PICK f : IsWalk(f, n, Statuses, "verified", G)
  <2> DEFINE V == Statuses
  <2>1. n \in Nat /\ "verified" \in V /\ Steps(G, n, V)
    BY <1>2, <1>4
  <2> HIDE DEF G, V
  <2>2. \E f : IsWalk(f, n, V, "verified", G)
    BY ONLY <2>1, WalkExists
  <2>3. QED
    BY <2>2 DEF V
<1>6. \A u \in SUBSET D : u # {} => Top(u) \in 1..n /\ u \ {Top(u)} \in SUBSET D
  <2> HIDE DEF D
  <2>1. QED
    BY <1>2, TopIsGreatest
<1>7. f = F(f)
  <2>1. \A u \in SUBSET D : u # {} =>
          G[<<f[u \ {Top(u)}], Top(u)>>] = Merge(f[u \ {Top(u)}], rs[Top(u)].status)
    BY <1>2, <1>5, <1>6 DEF IsWalk
  <2> HIDE DEF G, D
  <2>2. QED
    BY <1>2, <1>5, <2>1 DEF IsWalk
<1>8. fold = F(fold)
  <2> HIDE DEF F
  <2>1. QED
    BY <1>7
<1>9. \A u \in SUBSET D : fold[u] =
        IF u = {} THEN "verified" ELSE Merge(fold[u \ {Top(u)}], rs[Top(u)].status)
  <2> HIDE DEF fold, D
  <2>1. QED
    BY <1>8
<1> HIDE DEF fold, F, D
<1>10. Walks(fold, n, Statuses, "verified", G)
  BY <1>2, <1>6, <1>9 DEF Walks
<1>11. PICK h : IsTrace(h, n, Statuses, "verified", G) /\ h[n] = fold[1..n]
  <2> DEFINE V == Statuses
  <2>1. /\ n \in Nat /\ "verified" \in V /\ Steps(G, n, V)
        /\ Walks(fold, n, V, "verified", G)
    BY <1>2, <1>4, <1>10
  <2> HIDE DEF G, V
  <2>2. \E h : IsTrace(h, n, V, "verified", G) /\ h[n] = fold[1..n]
    BY ONLY <2>1, FoldTrace
  <2>3. QED
    BY <2>2 DEF V
<1>12. \A k \in 1..n : h[k] = Merge(h[k - 1], rs[k].status)
  <2> SUFFICES ASSUME NEW k \in 1..n
               PROVE  h[k] = Merge(h[k - 1], rs[k].status)
    OBVIOUS
  <2>1. h[k] = G[<<h[k - 1], k>>] /\ h[k - 1] \in Statuses
    <3> HIDE DEF G
    <3>1. k - 1 \in 0..n
      BY <1>2
    <3>2. QED
      BY <1>11, <3>1 DEF IsTrace
  <2>2. QED
    BY <1>2, <2>1
<1>13. QED
  BY <1>1, <1>2, <1>11, <1>12 DEF IsTrace, MergeSteps

\* One result that is not verified is never made up for.
LEMMA OverallVerified ==
  ASSUME NEW rs \in Seq(Results), Overall(rs) = "verified"
  PROVE  \A i \in DOMAIN rs : rs[i].status = "verified"
<1> DEFINE n == Len(rs)
<1>1. n \in Nat /\ DOMAIN rs = 1..n /\ \A k \in 1..n : rs[k].status \in Statuses
  <2>1. n \in Nat /\ DOMAIN rs = 1..n /\ \A k \in 1..n : rs[k] \in Results
    OBVIOUS
  <2>2. QED
    BY <2>1 DEF Results
<1>2. PICK h : MergeSteps(h, n, rs)
  BY MergeTrace
<1> HIDE DEF n
<1> DEFINE T == {k \in 0..n : h[n - k] = "verified"}
<1>3. 0 \in T
  BY <1>1, <1>2 DEF MergeSteps
<1>4. ASSUME NEW k \in 1..n, h[k] = "verified"
      PROVE  h[k - 1] = "verified" /\ rs[k].status = "verified"
  <2>1. h[k] = Merge(h[k - 1], rs[k].status) /\ h[k - 1] \in Statuses
    <3>1. k - 1 \in 0..n
      BY <1>1
    <3>2. QED
      BY <1>2, <3>1 DEF MergeSteps
  <2>2. QED
    BY <1>1, <1>4, <2>1, MergeType
<1>5. ASSUME NEW k \in 1..n, k - 1 \in T PROVE k \in T
  <2> DEFINE m == n - k + 1
  <2>1. m \in 1..n /\ m - 1 = n - k /\ n - (k - 1) = m /\ k \in 0..n
    BY <1>1
  <2>2. h[n - (k - 1)] = "verified"
    BY <1>5
  <2> HIDE DEF m
  <2>3. h[m - 1] = "verified"
    BY <1>4, <2>1, <2>2
  <2>4. QED
    BY <2>1, <2>3
<1>6. \A k \in 0..n : k \in T
  <2>1. \A k \in 1..n : k - 1 \in T => k \in T
    BY <1>5
  <2> HIDE DEF T
  <2>2. QED
    BY ONLY <1>1, <1>3, <2>1, UpTo
<1>7. ASSUME NEW i \in 1..n PROVE rs[i].status = "verified"
  <2>1. n - i \in 0..n /\ n - (n - i) = i
    BY <1>1
  <2>2. h[i] = "verified"
    BY <1>6, <2>1
  <2>3. QED
    BY <1>4, <2>2
<1>8. QED
  BY <1>1, <1>7

-----------------------------------------------------------------------------
(* What the actions do to the connection. *)

Senderships == {m.by : m \in Traffic}

\* Nothing comes to be under way.
Shrinks ==
  /\ link' \in Links
  /\ Senderships' \subseteq Senderships
  /\ Quiet => Quiet'
  /\ AlmostQuiet => AlmostQuiet'
  /\ link'.state = "none" => Quiet'
  /\ link'.state = "up" => link.state = "up" \/ Quiet'

LEMMA LinkFields ==
  ASSUME NEW l \in Links
  PROVE  /\ l.state \in {"none", "up", "broken"}
         /\ l.requests \in Seq(Requests) /\ l.answers \in Seq(Answers)
         /\ Len(l.requests) \in Nat /\ Len(l.answers) \in Nat
<1>1. /\ l.state \in {"none", "up", "broken"}
      /\ l.requests \in Seq(Requests) /\ l.answers \in Seq(Answers)
  BY DEF Links
<1> DEFINE rq == l.requests
           an == l.answers
<1> HIDE DEF rq, an
<1>2. rq \in Seq(Requests) /\ an \in Seq(Answers)
  BY <1>1 DEF rq, an
<1>3. Len(rq) \in Nat /\ Len(an) \in Nat
  BY <1>2
<1>4. QED
  BY <1>1, <1>3 DEF rq, an

LEMMA WithRequests ==
  ASSUME NEW l \in Links, NEW rq \in Seq(Requests), NEW m, m = [l EXCEPT !.requests = rq]
  PROVE  m \in Links /\ m.state = l.state /\ m.requests = rq /\ m.answers = l.answers
BY DEF Links

LEMMA WithAnswers ==
  ASSUME NEW l \in Links, NEW an \in Seq(Answers), NEW m, m = [l EXCEPT !.answers = an]
  PROVE  m \in Links /\ m.state = l.state /\ m.requests = l.requests /\ m.answers = an
BY DEF Links

LEMMA WithBroken ==
  ASSUME NEW l \in Links, NEW m, m = [l EXCEPT !.state = "broken", !.requests = <<>>]
  PROVE  m \in Links /\ m.state = "broken" /\ m.requests = <<>> /\ m.answers = l.answers
<1>1. <<>> \in Seq(Requests)
  OBVIOUS
<1>2. QED
  BY <1>1 DEF Links

LEMMA NoLinkFacts ==
  /\ NoLink \in Links /\ NoLink.requests = <<>> /\ NoLink.answers = <<>> /\ NoLink.state = "none"
  /\ [NoLink EXCEPT !.state = "up"] \in Links
  /\ [NoLink EXCEPT !.state = "up"].requests = <<>>
  /\ [NoLink EXCEPT !.state = "up"].answers = <<>>
  /\ [NoLink EXCEPT !.state = "up"].state = "up"
<1>1. <<>> \in Seq(Requests) /\ <<>> \in Seq(Answers)
  OBVIOUS
<1>2. QED
  BY <1>1 DEF NoLink, Links

LEMMA QuietIs ==
  /\ Quiet <=> link.requests = <<>> /\ link.answers = <<>>
  /\ Quiet' <=> link'.requests = <<>> /\ link'.answers = <<>>
BY DEF Quiet

LEMMA AlmostQuietIs ==
  ASSUME NEW m \in Nat, NEW n \in Nat
  PROVE  /\ Len(link.requests) = m /\ Len(link.answers) = n
              => (AlmostQuiet <=> m + n <= 1)
         /\ Len(link'.requests) = m /\ Len(link'.answers) = n
              => (AlmostQuiet' <=> m + n <= 1)
BY DEF AlmostQuiet

LEMMA FewerUnderWay ==
  ASSUME NEW m \in Nat, NEW n \in Nat, NEW k \in Nat, NEW l \in Nat, k + l <= m + n,
         Len(link.requests) = m, Len(link.answers) = n,
         Len(link'.requests) = k, Len(link'.answers) = l
  PROVE  AlmostQuiet => AlmostQuiet'
<1>1. (AlmostQuiet <=> m + n <= 1) /\ (AlmostQuiet' <=> k + l <= 1)
  BY AlmostQuietIs
<1>2. QED
  BY <1>1

LEMMA ToSetFacts ==
  ASSUME NEW S, NEW s \in Seq(S)
  PROVE  /\ ToSet(s) = {} <=> s = <<>>
         /\ ToSet(s) \subseteq S
         /\ s # <<>> => Head(s) \in ToSet(s) /\ ToSet(Tail(s)) \subseteq ToSet(s)
         /\ \A e \in S : ToSet(Append(s, e)) = ToSet(s) \cup {e}
<1>1. DOMAIN s = 1..Len(s) /\ Len(s) \in Nat
  OBVIOUS
<1>2. ToSet(s) \subseteq S
  BY DEF ToSet
<1>3. ToSet(s) = {} <=> s = <<>>
  <2>1. s # <<>> => 1 \in DOMAIN s
    BY <1>1
  <2>2. s = <<>> => DOMAIN s = {}
    BY <1>1
  <2>3. QED
    BY <2>1, <2>2 DEF ToSet
<1>4. ASSUME s # <<>> PROVE Head(s) \in ToSet(s) /\ ToSet(Tail(s)) \subseteq ToSet(s)
  <2>1. 1 \in DOMAIN s /\ Head(s) = s[1]
    BY <1>1, <1>4
  <2>2. /\ DOMAIN Tail(s) = 1..(Len(s) - 1)
        /\ \A i \in 1..(Len(s) - 1) : Tail(s)[i] = s[i + 1] /\ i + 1 \in DOMAIN s
    BY <1>1, <1>4
  <2>3. QED
    BY <2>1, <2>2 DEF ToSet
<1>5. ASSUME NEW e \in S PROVE ToSet(Append(s, e)) = ToSet(s) \cup {e}
  <2> DEFINE a == Append(s, e)
             n == Len(s)
  <2>1. /\ DOMAIN a = 1..(n + 1) /\ a[n + 1] = e /\ n + 1 \in 1..(n + 1)
        /\ \A i \in 1..n : a[i] = s[i] /\ i \in 1..(n + 1)
        /\ \A i \in 1..(n + 1) : i \in 1..n \/ i = n + 1
    OBVIOUS
  <2> HIDE DEF a
  <2>2. ToSet(a) = {a[i] : i \in 1..(n + 1)} /\ ToSet(s) = {s[i] : i \in 1..n}
    BY <1>1, <2>1 DEF ToSet
  <2> HIDE DEF n
  <2>3. {a[i] : i \in 1..(n + 1)} = {s[i] : i \in 1..n} \cup {e}
    BY <2>1
  <2>4. QED
    BY <2>2, <2>3 DEF a
<1>6. QED
  BY <1>2, <1>3, <1>4, <1>5

LEMMA QuietTraffic ==
  ASSUME link \in Links
  PROVE  /\ Traffic = {} <=> Quiet
         /\ Senderships = {} <=> Quiet
         /\ Quiet => AlmostQuiet
<1>1. Traffic = {} <=> Quiet
  BY LinkFields, ToSetFacts DEF Traffic, Quiet
<1>2. Quiet => AlmostQuiet
  BY DEF Quiet, AlmostQuiet
<1>3. QED
  BY <1>1, <1>2 DEF Senderships

LEMMA LinkStays ==
  ASSUME link \in Links, UNCHANGED link, link.state = "none" => Quiet
  PROVE  Shrinks
BY DEF Shrinks, Senderships, Traffic, Quiet, AlmostQuiet

LEMMA SendEffect ==
  ASSUME link \in Links, link.state = "up", NEW r \in Requests, Send(r)
  PROVE  /\ link' \in Links /\ link'.state = "up"
         /\ Senderships' = Senderships \cup {r.by}
         /\ Quiet => AlmostQuiet'
<1> DEFINE rq == Append(link.requests, r)
<1>1. /\ link.requests \in Seq(Requests) /\ link.answers \in Seq(Answers)
      /\ rq \in Seq(Requests)
  BY LinkFields
<1>2. link' = [link EXCEPT !.requests = rq]
  BY DEF Send
<1>3. Len(rq) = Len(link.requests) + 1
  BY <1>1
<1> HIDE DEF rq
<1>4. /\ link' \in Links /\ link'.state = "up"
      /\ link'.requests = rq /\ link'.answers = link.answers
  BY <1>1, <1>2, WithRequests
<1>5. ToSet(rq) = ToSet(link.requests) \cup {r}
  BY <1>1, ToSetFacts DEF rq
<1>6. Traffic' = Traffic \cup {r}
  BY <1>4, <1>5 DEF Traffic
<1>7. Quiet => AlmostQuiet'
  <2>1. ASSUME Quiet PROVE Len(link'.requests) = 1
    <3>1. link.requests = <<>>
      BY <2>1, QuietIs
    <3>2. Len(link.requests) = 0
      BY <3>1
    <3>3. Len(rq) = 1
      BY <1>3, <3>2
    <3>4. QED
      BY <1>4, <3>3
  <2>2. ASSUME Quiet PROVE Len(link'.answers) = 0
    <3>1. link'.answers = <<>>
      BY <1>4, <2>2, QuietIs
    <3>2. QED
      BY <3>1
  <2>3. 1 \in Nat /\ 0 \in Nat /\ 1 + 0 <= 1
    OBVIOUS
  <2>4. Quiet => (AlmostQuiet' <=> 1 + 0 <= 1)
    BY <2>1, <2>2, <2>3, AlmostQuietIs
  <2>5. QED
    BY <2>3, <2>4
<1>8. QED
  BY <1>4, <1>6, <1>7 DEF Senderships

LEMMA ReceiveEffect ==
  ASSUME link \in Links, Answered, Receive, link.state = "none" => Quiet
  PROVE  /\ Shrinks
         /\ Head(link.answers).by \in Senderships
         /\ AlmostQuiet => Quiet'
         /\ link'.state = link.state
<1> DEFINE an == Tail(link.answers)
<1>1. /\ link.requests \in Seq(Requests) /\ link.answers \in Seq(Answers)
      /\ link.answers # <<>> /\ an \in Seq(Answers)
      /\ Len(an) = Len(link.answers) - 1 /\ Len(link.answers) >= 1
      /\ Len(link.requests) \in Nat /\ Len(link.answers) \in Nat
  <2> DEFINE old == link.answers
  <2>1. old \in Seq(Answers) /\ old # <<>>
    BY LinkFields DEF Answered
  <2> HIDE DEF old
  <2>2. Tail(old) \in Seq(Answers) /\ Len(Tail(old)) = Len(old) - 1 /\ Len(old) >= 1
    BY <2>1
  <2>3. QED
    BY <2>1, <2>2, LinkFields DEF old
<1>2. link' = [link EXCEPT !.answers = an]
  BY DEF Receive
<1>3. ToSet(an) \subseteq ToSet(link.answers) /\ Head(link.answers) \in ToSet(link.answers)
  BY <1>1, ToSetFacts
<1> HIDE DEF an
<1>4. link' \in Links
  BY <1>1, <1>2, WithAnswers
<1>5. link'.state = link.state /\ link'.requests = link.requests /\ link'.answers = an
  BY <1>1, <1>2, WithAnswers
<1>6. Traffic' \subseteq Traffic /\ Head(link.answers) \in Traffic
  BY <1>3, <1>5 DEF Traffic
<1>7. AlmostQuiet => Quiet'
  <2> SUFFICES ASSUME AlmostQuiet PROVE Quiet'
    OBVIOUS
  <2> DEFINE m == Len(link.requests)
             n == Len(link.answers)
  <2>1. m \in Nat /\ n \in Nat /\ n >= 1 /\ m + n <= 1
    BY <1>1, AlmostQuietIs
  <2>2. m = 0 /\ n = 1
    <3> HIDE DEF m, n
    <3>1. QED
      BY <2>1
  <2>3. Len(an) = 0
    BY <1>1, <2>2
  <2>4. link.requests = <<>>
    BY <1>1, <2>2
  <2>5. an = <<>>
    BY <1>1, <2>3
  <2>6. QED
    BY <1>5, <2>4, <2>5, QuietIs
<1>8. ~ Quiet
  BY <1>1, QuietIs
<1>9. AlmostQuiet => AlmostQuiet'
  <2> DEFINE m == Len(link.requests)
             n == Len(link.answers)
  <2>1. m \in Nat /\ n \in Nat /\ n >= 1
    BY <1>1
  <2>2. Len(link'.requests) = m
    BY <1>5
  <2>3. Len(link'.answers) = n - 1
    BY <1>1, <1>5
  <2>4. Len(link.requests) = m /\ Len(link.answers) = n
    OBVIOUS
  <2> HIDE DEF m, n
  <2>5. n - 1 \in Nat /\ m + (n - 1) <= m + n
    BY <2>1
  <2>6. QED
    BY <2>1, <2>2, <2>3, <2>4, <2>5, FewerUnderWay
<1>10. QED
  BY <1>4, <1>5, <1>6, <1>7, <1>8, <1>9 DEF Shrinks, Senderships

LEMMA ResetEffect ==
  ASSUME link \in Links, ResetConnection
  PROVE  Shrinks /\ Quiet' /\ Senderships' = {} /\ link'.state = "none"
<1>1. /\ link' \in Links /\ link'.requests = <<>> /\ link'.answers = <<>>
      /\ link'.state = "none"
  BY NoLinkFacts DEF ResetConnection
<1>2. Quiet' /\ AlmostQuiet'
  BY <1>1 DEF Quiet, AlmostQuiet
<1>3. Traffic' = {}
  BY <1>1, ToSetFacts DEF Traffic, ToSet
<1>4. QED
  BY <1>1, <1>2, <1>3 DEF Shrinks, Senderships

LEMMA AcquireEffect ==
  ASSUME link \in Links, NEW u, Acquire(u), link.state = "none" => Quiet
  PROVE  Shrinks /\ owner = Nobody /\ owner' = u
<1>1. CASE link.state = "none"
  <2>1. /\ link' \in Links /\ link'.requests = <<>> /\ link'.answers = <<>>
        /\ link'.state = "up"
    BY <1>1, NoLinkFacts DEF Acquire
  <2>2. Quiet' /\ AlmostQuiet'
    BY <2>1 DEF Quiet, AlmostQuiet
  <2>3. Traffic' = {}
    BY <2>1, ToSetFacts DEF Traffic, ToSet
  <2>4. QED
    BY <2>1, <2>2, <2>3 DEF Shrinks, Senderships, Acquire
<1>2. CASE link.state # "none"
  BY <1>2, LinkStays DEF Acquire
<1>3. QED
  BY <1>1, <1>2 DEF Acquire

LEMMA LostEffect ==
  ASSUME link \in Links, ConnectionLost
  PROVE  Shrinks
<1>1. Len(link.answers) \in Nat /\ Len(link.requests) \in Nat
  BY LinkFields
<1>2. link' = [link EXCEPT !.state = "broken", !.requests = <<>>]
  BY DEF ConnectionLost
<1>3. /\ link' \in Links /\ link'.state = "broken"
      /\ link'.requests = <<>> /\ link'.answers = link.answers
  BY <1>2, WithBroken
<1>4. Traffic' \subseteq Traffic
  <2>1. ToSet(<<>>) = {}
    BY DEF ToSet
  <2>2. QED
    BY <1>3, <2>1 DEF Traffic
<1>5. (Quiet => Quiet') /\ (AlmostQuiet => AlmostQuiet')
  <2> DEFINE m == Len(link.requests)
             n == Len(link.answers)
  <2>1. m \in Nat /\ n \in Nat
    BY <1>1
  <2>2. Len(link'.requests) = 0
    BY <1>3
  <2>3. Len(link'.answers) = n
    BY <1>3
  <2>4. Len(link.requests) = m /\ Len(link.answers) = n
    OBVIOUS
  <2> HIDE DEF m, n
  <2>5. 0 \in Nat /\ 0 + n <= m + n
    BY <2>1
  <2>6. AlmostQuiet => AlmostQuiet'
    BY <2>1, <2>2, <2>3, <2>4, <2>5, FewerUnderWay
  <2>7. QED
    BY <1>3, <2>6, QuietIs
<1>6. QED
  BY <1>3, <1>4, <1>5 DEF Shrinks, Senderships

LEMMA AnswerTypes ==
  ASSUME NEW r \in Requests, held \in [Points -> Values]
  PROVE  /\ AnswerTo(r) \in Answers /\ AnswerTo(r).by = r.by
         /\ Garbled(r) \in Answers /\ Garbled(r).by = r.by
         /\ r.kind = "write" => r.point \in Points /\ r.value \in Values
<1>1. CASE r \in [kind : {"read"}, point : Points, by : Senders]
  <2>1. r.kind = "read" /\ r.point \in Points /\ r.by \in Senders /\ held[r.point] \in Values
    BY <1>1
  <2>2. QED
    BY <2>1 DEF AnswerTo, Garbled, Answers
<1>2. CASE r \in [kind : {"write"}, point : Points, value : Values, by : Senders]
  <2>1. r.kind = "write" /\ r.point \in Points /\ r.by \in Senders /\ r.value \in Values
    BY <1>2
  <2>2. QED
    BY <2>1 DEF AnswerTo, Garbled, Answers
<1>3. QED
  BY <1>1, <1>2 DEF Requests

LEMMA ServeEffect ==
  ASSUME LinkTypes, Serve
  PROVE  Shrinks /\ held' \in [Points -> Values]
<1> DEFINE r == Head(link.requests)
           rq == Tail(link.requests)
<1>1. /\ link \in Links /\ link.requests \in Seq(Requests) /\ link.answers \in Seq(Answers)
      /\ held \in [Points -> Values]
      /\ link.requests # <<>> /\ link.state = "up"
  BY LinkFields DEF LinkTypes, Serve
<1>2. /\ r \in Requests /\ r \in ToSet(link.requests)
      /\ rq \in Seq(Requests) /\ ToSet(rq) \subseteq ToSet(link.requests)
      /\ Len(rq) = Len(link.requests) - 1 /\ Len(link.requests) >= 1
      /\ Len(link.requests) \in Nat /\ Len(link.answers) \in Nat
  BY <1>1, ToSetFacts
<1>3. PICK replies \in {<<AnswerTo(r)>>, <<Garbled(r)>>, <<>>} :
        link' = [link EXCEPT !.requests = rq, !.answers = @ \o replies]
  BY DEF Serve
<1>4. held' = IF r.kind = "write" THEN [held EXCEPT ![r.point] = r.value] ELSE held
  BY DEF Serve
<1> HIDE DEF r, rq
<1>5. /\ AnswerTo(r) \in Answers /\ AnswerTo(r).by = r.by
      /\ Garbled(r) \in Answers /\ Garbled(r).by = r.by
      /\ r.kind = "write" => r.point \in Points /\ r.value \in Values
  BY <1>1, <1>2, AnswerTypes
<1>6. held' \in [Points -> Values]
  BY <1>1, <1>4, <1>5
<1> DEFINE an == link.answers \o replies
<1>7. /\ an \in Seq(Answers) /\ Len(an) <= Len(link.answers) + 1
      /\ Len(an) \in Nat
      /\ \A m \in ToSet(an) : m \in ToSet(link.answers) \/ m.by = r.by
  <2>1. ASSUME NEW a \in Answers, a.by = r.by, replies = <<a>>
        PROVE  /\ an \in Seq(Answers) /\ Len(an) = Len(link.answers) + 1
               /\ ToSet(an) = ToSet(link.answers) \cup {a}
    <3>1. an = Append(link.answers, a)
      BY <1>1, <2>1, AppendIsConcat
    <3> HIDE DEF an
    <3>2. QED
      BY <1>1, <3>1, ToSetFacts
  <2>2. CASE replies = <<>>
    <3>1. an = link.answers
      BY <1>1, <2>2
    <3> HIDE DEF an
    <3>2. QED
      BY <1>1, <1>2, <3>1
  <2>3. CASE replies = <<AnswerTo(r)>>
    <3> HIDE DEF an
    <3>1. QED
      BY <1>2, <1>5, <2>1, <2>3
  <2>4. CASE replies = <<Garbled(r)>>
    <3> HIDE DEF an
    <3>1. QED
      BY <1>2, <1>5, <2>1, <2>4
  <2>5. QED
    BY <2>2, <2>3, <2>4
<1> HIDE DEF an
<1>8. link' = [link EXCEPT !.requests = rq, !.answers = an]
  BY <1>3 DEF an
<1>9. link'.state = "up" /\ link'.requests = rq /\ link'.answers = an /\ link' \in Links
  <2>1. link \in Links /\ rq \in Seq(Requests) /\ an \in Seq(Answers) /\ link.state = "up"
    BY <1>1, <1>2, <1>7
  <2>2. /\ link' \in Links /\ link'.state = link.state
        /\ link'.requests = rq /\ link'.answers = an
    BY <1>8, <2>1 DEF Links
  <2>3. QED
    BY <2>1, <2>2
<1>10. Senderships' \subseteq Senderships
  <2>1. \A m \in Traffic' : m \in Traffic \/ m.by = r.by
    BY <1>2, <1>7, <1>9 DEF Traffic
  <2>2. r \in Traffic
    BY <1>2 DEF Traffic
  <2>3. QED
    BY <2>1, <2>2 DEF Senderships
<1>11. ~ Quiet /\ (AlmostQuiet => AlmostQuiet')
  <2> DEFINE m == Len(link.requests)
             n == Len(link.answers)
             k == Len(an)
  <2>1. m \in Nat /\ n \in Nat /\ m >= 1 /\ k \in Nat /\ k <= n + 1
    BY <1>2, <1>7
  <2>2. Len(link'.requests) = m - 1
    BY <1>2, <1>9
  <2>3. Len(link'.answers) = k
    BY <1>9
  <2>4. Len(link.requests) = m /\ Len(link.answers) = n
    OBVIOUS
  <2> HIDE DEF m, n, k
  <2>5. m - 1 \in Nat /\ (m - 1) + k <= m + n
    BY <2>1
  <2>6. AlmostQuiet => AlmostQuiet'
    BY <2>1, <2>2, <2>3, <2>4, <2>5, FewerUnderWay
  <2>7. QED
    BY <1>1, <2>6, QuietIs
<1>12. QED
  BY <1>1, <1>6, <1>9, <1>10, <1>11 DEF Shrinks

-----------------------------------------------------------------------------
(* Steps by what they do to the owner and the load of the connection. *)

LEMMA HandoverIs ==
  /\ CleanHandover <=>
       (job.at # "reset" => \A b \in Senderships :
          owner # Nobody /\ b = IF owner = Control THEN <<Control, job.turn>> ELSE <<owner, 0>>)
  /\ CleanHandover' <=>
       (job'.at # "reset" => \A b \in Senderships' :
          owner' # Nobody
          /\ b = IF owner' = Control THEN <<Control, job'.turn>> ELSE <<owner', 0>>)
<1>1. CleanHandover <=> (job.at # "reset" => \A b \in Senderships :
                           owner # Nobody /\ b = Sender(owner))
  BY DEF CleanHandover, Senderships
<1>2. CleanHandover' <=> (job'.at # "reset" => \A b \in Senderships' :
                            owner' # Nobody /\ b = Sender(owner)')
  BY DEF CleanHandover, Senderships
<1>3. /\ Sender(owner) = IF owner = Control THEN <<Control, job.turn>> ELSE <<owner, 0>>
      /\ Sender(owner)' = IF owner' = Control THEN <<Control, job'.turn>> ELSE <<owner', 0>>
  BY DEF Sender
<1>4. QED
  BY <1>1, <1>2, <1>3

LEMMA QuietThen ==
  ASSUME link' \in Links
  PROVE  (Senderships' = {} <=> Quiet') /\ (Quiet' => AlmostQuiet')
<1>1. Traffic' = {} <=> Quiet'
  BY LinkFields, ToSetFacts DEF Traffic, Quiet
<1>2. Quiet' => AlmostQuiet'
  BY DEF Quiet, AlmostQuiet
<1>3. QED
  BY <1>1, <1>2 DEF Senderships

\* Only the owner has a load.
LEMMA NotOwning ==
  ASSUME OwnerInv'
  PROVE  /\ owner' # Control => CommandLoad'
         /\ \A w \in Workers : owner' # w => ReadLoad(w)'
<1>1. ASSUME owner' # Control PROVE CommandLoad'
  <2>1. job'.at \notin OwnerPlaces
    BY <1>1 DEF OwnerInv
  <2>2. QED
    BY <2>1 DEF CommandLoad, OwnerPlaces
<1>2. ASSUME NEW w \in Workers, owner' # w PROVE ReadLoad(w)'
  <2>1. at'[w] \notin ReadPlaces
    BY <1>2 DEF OwnerInv
  <2>2. QED
    BY <2>1 DEF ReadLoad, ReadPlaces
<1>3. QED
  BY <1>1, <1>2

LEMMA OwnerStays ==
  ASSUME OwnerInv, UNCHANGED owner,
         job'.at \in OwnerPlaces <=> job.at \in OwnerPlaces,
         \A w \in Workers : at'[w] \in ReadPlaces <=> at[w] \in ReadPlaces
  PROVE  OwnerInv'
BY DEF OwnerInv

LEMMA JobStays ==
  ASSUME IInv, UNCHANGED <<job, report>>
  PROVE  JobInv' /\ HonestReport'
BY DEF IInv, JobInv, HonestReport

LEMMA ReportStays ==
  ASSUME IInv, UNCHANGED report \/ report'.end # "published"
  PROVE  HonestReport'
BY DEF IInv, HonestReport

LEMMA NobodyQuiet ==
  ASSUME IInv, owner = Nobody, job.at # "reset"
  PROVE  Quiet
<1>1. Senderships = {}
  BY HandoverIs DEF IInv
<1>2. QED
  BY <1>1, QuietTraffic DEF IInv, LinkTypes

\* What a step owes besides the state of the connection.
Rest == held' \in [Points -> Values] /\ ReadTypes' /\ OwnerInv' /\ JobInv' /\ HonestReport'

\* The owner stays, and no more is under way than was.
LEMMA Keeps ==
  ASSUME IInv, Shrinks, Rest, UNCHANGED owner,
         job'.at = "reset" <=> job.at = "reset",
         owner = Control => job'.turn = job.turn /\ CommandLoad',
         \A w \in Workers : owner = w => ReadLoad(w)' \/ job'.at = "reset"
  PROVE  IInv'
<1>1. LoadInv'
  <2>1. CommandLoad'
    BY NotOwning DEF Rest
  <2>2. job'.at # "reset" => \A w \in Workers : ReadLoad(w)'
    BY NotOwning DEF Rest
  <2>3. link'.state = "none" => Quiet'
    BY DEF Shrinks
  <2>4. QED
    BY <2>1, <2>2, <2>3 DEF LoadInv
<1>2. CleanHandover'
  BY HandoverIs DEF IInv, Shrinks
<1>3. LinkTypes'
  BY DEF Rest, Shrinks, LinkTypes
<1>4. QED
  BY <1>1, <1>2, <1>3 DEF IInv, Rest

\* Nothing is under way, whoever has the connection now; or a reset is due.
LEMMA Quiets ==
  ASSUME Rest, link' \in Links,
         Quiet' \/ (job'.at = "reset" /\ (link'.state = "none" => Quiet'))
  PROVE  IInv'
<1>1. CASE Quiet'
  <2>1. CommandLoad'
    BY <1>1, QuietThen DEF CommandLoad
  <2>2. \A w \in Workers : ReadLoad(w)'
    BY <1>1, QuietThen DEF ReadLoad
  <2>3. LoadInv'
    BY <1>1, <2>1, <2>2 DEF LoadInv
  <2>4. CleanHandover'
    BY <1>1, HandoverIs, QuietThen
  <2>5. QED
    BY <2>3, <2>4 DEF IInv, Rest, LinkTypes
<1>2. CASE job'.at = "reset" /\ (link'.state = "none" => Quiet')
  <2>1. CommandLoad'
    BY <1>2 DEF CommandLoad
  <2>2. LoadInv'
    BY <1>2, <2>1 DEF LoadInv
  <2>3. CleanHandover'
    BY <1>2, HandoverIs
  <2>4. QED
    BY <2>2, <2>3 DEF IInv, Rest, LinkTypes
<1>3. QED
  BY <1>1, <1>2

\* The owner sends a request.
LEMMA Sends ==
  ASSUME IInv, Rest, UNCHANGED owner, link.state = "up",
         NEW r \in Requests, Send(r),
         owner # Nobody, r.by = IF owner = Control THEN <<Control, job.turn>> ELSE <<owner, 0>>,
         job'.turn = job.turn, job'.at = "reset" <=> job.at = "reset",
         Quiet \/ job.at = "reset",
         owner = Control => job'.at \in {"ack", "reading"},
         \A w \in Workers : owner = w => at'[w] = "await"
  PROVE  IInv'
<1>1. /\ link' \in Links /\ link'.state = "up"
      /\ Senderships' = Senderships \cup {r.by}
      /\ Quiet => AlmostQuiet'
  BY SendEffect DEF IInv, LinkTypes
<1>2. CommandLoad'
  BY <1>1, NotOwning DEF Rest, CommandLoad
<1>3. job'.at # "reset" => \A w \in Workers : ReadLoad(w)'
  <2>1. ASSUME NEW w \in Workers, owner = w, AlmostQuiet' PROVE ReadLoad(w)'
    BY <2>1 DEF ReadLoad
  <2>2. QED
    BY <1>1, <2>1, NotOwning DEF Rest
<1>4. LoadInv'
  BY <1>1, <1>2, <1>3 DEF LoadInv
<1>5. CleanHandover'
  BY <1>1, HandoverIs DEF IInv
<1>6. QED
  BY <1>1, <1>4, <1>5 DEF IInv, Rest, LinkTypes

-----------------------------------------------------------------------------
(* The steps of the workers, the gateway and the network. *)

LEMMA PlaceMoves ==
  ASSUME ReadTypes, NEW w \in Workers, NEW place \in WorkerPlaces,
         at' = [at EXCEPT ![w] = place]
  PROVE  /\ at' \in [Workers -> WorkerPlaces] /\ at'[w] = place
         /\ \A v \in Workers : v # w => at'[v] = at[v]
BY DEF ReadTypes

LEMMA GotoTypes ==
  ASSUME ReadTypes, NEW w \in Workers, NEW place \in WorkerPlaces,
         Goto(w, place), UNCHANGED next
  PROVE  /\ ReadTypes' /\ at'[w] = place
         /\ \A v \in Workers : v # w => at'[v] = at[v]
<1>1. /\ at' \in [Workers -> WorkerPlaces] /\ at'[w] = place
      /\ \A v \in Workers : v # w => at'[v] = at[v]
  BY PlaceMoves DEF Goto
<1>2. QED
  BY <1>1 DEF ReadTypes

LEMMA FirstRead ==
  ASSUME NEW w \in Workers
  PROVE  1 \in 1..Len(Reads[w])
BY Facts

LEMMA NextReadTypes ==
  ASSUME ReadTypes, NEW w \in Workers, NextRead(w)
  PROVE  /\ ReadTypes' /\ at'[w] \in {"acquire", "idle"}
         /\ \A v \in Workers : v # w => at'[v] = at[v]
<1> DEFINE l == Len(Reads[w])
<1>1. /\ next \in [Workers -> Nat] /\ next[w] \in 1..l
      /\ \A v \in Workers : next[v] \in 1..Len(Reads[v])
  BY DEF ReadTypes
<1>2. PICK place \in {"acquire", "idle"} : at' = [at EXCEPT ![w] = place]
  BY DEF NextRead, Goto
<1>3. place \in WorkerPlaces
  BY DEF WorkerPlaces
<1>4. /\ at' \in [Workers -> WorkerPlaces] /\ at'[w] = place
      /\ \A v \in Workers : v # w => at'[v] = at[v]
  BY <1>2, <1>3, PlaceMoves
<1>5. l \in Nat /\ 1 \in 1..l
  <2>1. Reads[w] \in Seq(Points)
    BY Facts
  <2>2. l \in Nat
    BY <2>1
  <2>3. QED
    BY <2>2, FirstRead
<1>6. PICK n \in 1..l : next' = [next EXCEPT ![w] = n]
  <2>1. CASE next[w] < l
    <3> DEFINE n == next[w] + 1
    <3>1. next' = [next EXCEPT ![w] = n]
      BY <2>1 DEF NextRead
    <3>2. n \in 1..l
      BY <1>1, <1>5, <2>1
    <3> HIDE DEF n, l
    <3>3. QED
      BY <3>1, <3>2
  <2>2. CASE ~ (next[w] < l)
    <3>1. next' = [next EXCEPT ![w] = 1]
      BY <2>2 DEF NextRead
    <3>2. QED
      BY <1>5, <3>1
  <2>3. QED
    BY <2>1, <2>2
<1>7. next' \in [Workers -> Nat] /\ \A v \in Workers : next'[v] \in 1..Len(Reads[v])
  BY <1>1, <1>6
<1>8. QED
  BY <1>4, <1>7 DEF ReadTypes

\* A worker that has not the guard goes where it has it not.
LEMMA WorkerIdles ==
  ASSUME IInv, NEW w \in Workers, UNCHANGED <<job, report, owner, link, held>>,
         ReadTypes', at[w] \notin ReadPlaces, at'[w] \notin ReadPlaces,
         \A v \in Workers : v # w => at'[v] = at[v]
  PROVE  IInv'
<1>1. OwnerInv'
  <2>1. \A v \in Workers : at'[v] \in ReadPlaces <=> at[v] \in ReadPlaces
    OBVIOUS
  <2>2. QED
    BY <2>1, OwnerStays DEF IInv
<1>2. Rest
  BY <1>1, JobStays DEF IInv, LinkTypes, Rest
<1>3. Shrinks
  BY LinkStays DEF IInv, LinkTypes, LoadInv
<1>4. owner = Control => job'.turn = job.turn /\ CommandLoad'
  BY DEF IInv, LoadInv, CommandLoad, Quiet, AlmostQuiet
<1>5. ASSUME NEW v \in Workers, owner = v, job'.at # "reset" PROVE ReadLoad(v)'
  <2>1. v # w
    BY <1>5 DEF IInv, OwnerInv
  <2>2. at'[v] = at[v] /\ ReadLoad(v)
    BY <1>5, <2>1 DEF IInv, LoadInv
  <2>3. QED
    BY <2>2 DEF ReadLoad, Quiet, AlmostQuiet
<1>6. QED
  BY <1>2, <1>3, <1>4, <1>5, Keeps

LEMMA PlaceFacts ==
  /\ ReadPlaces \subseteq WorkerPlaces
  /\ \A p \in {"idle", "check", "paused", "acquire", "gone"} :
       p \in WorkerPlaces /\ p \notin ReadPlaces
  /\ {"send", "await", "reset", "release"} \subseteq ReadPlaces
BY DEF ReadPlaces, WorkerPlaces

LEMMA TickStep ==
  ASSUME IInv, NEW w \in Workers, Tick(w) \/ Wake(w) \/ Leave(w) \/ ReadRefused(w)
  PROVE  IInv'
<1>0. ReadTypes
  BY DEF IInv
<1>1. CASE Tick(w)
  <2>1. at[w] \in {"idle", "check"} /\ UNCHANGED <<job, report, owner, link, held>>
    BY <1>1 DEF Tick
  <2>2. PICK p \in {"acquire", "paused"} : at' = [at EXCEPT ![w] = p]
    BY <1>1 DEF Tick, Goto
  <2>3. /\ at' \in [Workers -> WorkerPlaces] /\ at'[w] = p
        /\ \A v \in Workers : v # w => at'[v] = at[v]
    BY <1>0, <2>2, PlaceFacts, PlaceMoves
  <2>4. next' = next \/ next' = [next EXCEPT ![w] = 1]
    BY <1>1 DEF Tick
  <2>5. ReadTypes'
    BY <1>0, <2>3, <2>4, FirstRead DEF ReadTypes
  <2>6. QED
    BY <2>1, <2>3, <2>5, PlaceFacts, WorkerIdles
<1>2. CASE Wake(w)
  <2>1. /\ at[w] = "paused" /\ UNCHANGED <<job, report, owner, link, held, next>>
        /\ Goto(w, "check")
    BY <1>2 DEF Wake
  <2>2. ReadTypes' /\ at'[w] = "check" /\ \A v \in Workers : v # w => at'[v] = at[v]
    BY <1>0, <2>1, PlaceFacts, GotoTypes
  <2>3. QED
    BY <2>1, <2>2, PlaceFacts, WorkerIdles
<1>3. CASE Leave(w)
  <2>1. /\ at[w] \in {"idle", "paused"} /\ UNCHANGED <<job, report, owner, link, held, next>>
        /\ Goto(w, "gone")
    BY <1>3 DEF Leave
  <2>2. ReadTypes' /\ at'[w] = "gone" /\ \A v \in Workers : v # w => at'[v] = at[v]
    BY <1>0, <2>1, PlaceFacts, GotoTypes
  <2>3. QED
    BY <2>1, <2>2, PlaceFacts, WorkerIdles
<1>4. CASE ReadRefused(w)
  <2>1. /\ at[w] = "acquire" /\ UNCHANGED <<job, report, owner, link, held>>
        /\ NextRead(w)
    BY <1>4 DEF ReadRefused, DialFails
  <2>2. /\ ReadTypes' /\ at'[w] \in {"acquire", "idle"}
        /\ \A v \in Workers : v # w => at'[v] = at[v]
    BY <1>0, <2>1, NextReadTypes
  <2>3. QED
    BY <2>1, <2>2, PlaceFacts, WorkerIdles
<1>5. QED
  BY <1>1, <1>2, <1>3, <1>4

\* The worker gets the guard, keeps it, or gives it back.
LEMMA WorkerOwner ==
  ASSUME IInv, NEW w \in Workers, UNCHANGED job,
         \A v \in Workers : v # w => at'[v] = at[v],
         \/ owner = Nobody /\ owner' = w /\ at'[w] \in ReadPlaces
         \/ owner = w /\ owner' = w /\ at'[w] \in ReadPlaces
         \/ owner = w /\ owner' = Nobody /\ at'[w] \notin ReadPlaces
  PROVE  OwnerInv'
<1>1. /\ owner' \in Workers \cup {Control, Nobody}
      /\ owner' # Control /\ owner # Control
  BY Facts
<1>2. job'.at \notin OwnerPlaces
  BY <1>1 DEF IInv, OwnerInv
<1>3. ASSUME NEW v \in Workers PROVE owner' = v <=> at'[v] \in ReadPlaces
  <2>1. CASE v = w
    BY <2>1, Facts
  <2>2. CASE v # w
    BY <2>2, Facts DEF IInv, OwnerInv
  <2>3. QED
    BY <2>1, <2>2
<1>4. QED
  BY <1>1, <1>2, <1>3 DEF OwnerInv

LEMMA AcquireReadStep ==
  ASSUME IInv, NEW w \in Workers, AcquireRead(w)
  PROVE  IInv'
<1>1. /\ Acquire(w) /\ Goto(w, "send")
      /\ UNCHANGED <<job, report, next, held>>
  BY DEF AcquireRead
<1>2. ReadTypes' /\ at'[w] = "send" /\ \A v \in Workers : v # w => at'[v] = at[v]
  BY <1>1, PlaceFacts, GotoTypes DEF IInv
<1>3. Shrinks /\ owner = Nobody /\ owner' = w
  BY <1>1, AcquireEffect DEF IInv, LinkTypes, LoadInv
<1>4. OwnerInv'
  BY <1>1, <1>2, <1>3, PlaceFacts, WorkerOwner
<1>5. Rest
  BY <1>1, <1>2, <1>4, JobStays DEF IInv, LinkTypes, Rest
<1>6. CASE job.at = "reset"
  BY <1>1, <1>3, <1>5, <1>6, Quiets DEF Shrinks
<1>7. CASE job.at # "reset"
  BY <1>3, <1>5, <1>7, NobodyQuiet, Quiets DEF Shrinks
<1>8. QED
  BY <1>6, <1>7

LEMMA WorkerHolds ==
  ASSUME IInv, NEW w \in Workers, at[w] \in ReadPlaces
  PROVE  owner = w /\ owner # Control /\ owner # Nobody
BY Facts DEF IInv, OwnerInv

LEMMA SendReadStep ==
  ASSUME IInv, NEW w \in Workers, SendRead(w)
  PROVE  IInv'
<1>1. /\ at[w] = "send" /\ UNCHANGED <<job, report, next, owner, held>>
      /\ owner = w /\ owner # Control /\ owner # Nobody
  BY WorkerHolds, PlaceFacts DEF SendRead
<1>2. ReadTypes
  BY DEF IInv
<1>3. CASE link.state = "up"
  <2> DEFINE r == ReadOf(w, Reads[w][next[w]])
  <2>1. Send(r) /\ Goto(w, "await")
    BY <1>3 DEF SendRead
  <2>2. ReadTypes' /\ at'[w] = "await" /\ \A v \in Workers : v # w => at'[v] = at[v]
    BY <1>1, <1>2, <2>1, PlaceFacts, GotoTypes
  <2>3. OwnerInv'
    BY <1>1, <2>2, PlaceFacts, WorkerOwner
  <2>4. Rest
    BY <1>1, <2>2, <2>3, JobStays DEF IInv, LinkTypes, Rest
  <2>5. r \in Requests /\ r.by = <<w, 0>>
    <3>1. Reads[w] \in Seq(Points) /\ next[w] \in 1..Len(Reads[w])
      BY <1>2, Facts DEF ReadTypes
    <3>2. Reads[w][next[w]] \in Points
      BY <3>1
    <3>3. Sender(w) = <<w, 0>> /\ <<w, 0>> \in Senders
      BY Facts DEF Sender, Senders
    <3>4. QED
      BY <3>2, <3>3 DEF ReadOf, Requests
  <2>6. Quiet \/ job.at = "reset"
    BY <1>1 DEF IInv, LoadInv, ReadLoad
  <2> HIDE DEF r
  <2>7. QED
    BY <1>1, <1>3, <2>1, <2>2, <2>4, <2>5, <2>6, Sends
<1>4. CASE link.state # "up"
  <2>1. UNCHANGED link /\ Goto(w, "reset")
    BY <1>4 DEF SendRead
  <2>2. ReadTypes' /\ at'[w] = "reset" /\ \A v \in Workers : v # w => at'[v] = at[v]
    BY <1>1, <1>2, <2>1, PlaceFacts, GotoTypes
  <2>3. OwnerInv'
    BY <1>1, <2>2, PlaceFacts, WorkerOwner
  <2>4. Rest
    BY <1>1, <2>2, <2>3, JobStays DEF IInv, LinkTypes, Rest
  <2>5. Shrinks
    BY <2>1, LinkStays DEF IInv, LinkTypes, LoadInv
  <2>6. ReadLoad(w)'
    BY <2>2 DEF ReadLoad
  <2>7. QED
    BY <1>1, <2>4, <2>5, <2>6, Keeps
<1>5. QED
  BY <1>3, <1>4

LEMMA ReadReturnsStep ==
  ASSUME IInv, NEW w \in Workers, ReadReturns(w)
  PROVE  IInv'
<1>1. /\ at[w] = "await" /\ UNCHANGED <<job, report, next, owner, held>>
      /\ owner = w /\ owner # Control /\ owner # Nobody
  BY WorkerHolds, PlaceFacts DEF ReadReturns
<1>2. PICK p \in {"release", "reset"} : Goto(w, p)
  BY DEF ReadReturns, AfterFault
<1>3. ReadTypes' /\ at'[w] = p /\ \A v \in Workers : v # w => at'[v] = at[v]
  <2>1. p \in WorkerPlaces /\ ReadTypes
    BY PlaceFacts DEF IInv
  <2>2. QED
    BY <1>1, <1>2, <2>1, GotoTypes
<1>4. OwnerInv'
  BY <1>1, <1>3, PlaceFacts, WorkerOwner
<1>5. Rest
  BY <1>1, <1>3, <1>4, JobStays DEF IInv, LinkTypes, Rest
<1>6. CASE Answered /\ Receive
  <2>1. Shrinks /\ (AlmostQuiet => Quiet')
    BY <1>6, ReceiveEffect DEF IInv, LinkTypes, LoadInv
  <2>2. AlmostQuiet \/ job.at = "reset"
    BY <1>1 DEF IInv, LoadInv, ReadLoad
  <2>3. QED
    BY <1>1, <1>5, <2>1, <2>2, Quiets DEF Shrinks
<1>7. CASE Goto(w, AfterFault) /\ UNCHANGED link
  <2>1. at' = [at EXCEPT ![w] = "reset"]
    BY <1>7 DEF Goto, AfterFault
  <2>2. at'[w] = "reset"
    BY <2>1 DEF IInv, ReadTypes
  <2>3. Shrinks
    BY <1>7, LinkStays DEF IInv, LinkTypes, LoadInv
  <2>4. ReadLoad(w)'
    BY <2>2 DEF ReadLoad
  <2>5. QED
    BY <1>1, <1>5, <2>3, <2>4, Keeps
<1>8. QED
  BY <1>6, <1>7 DEF ReadReturns

LEMMA ResetReadStep ==
  ASSUME IInv, NEW w \in Workers, ResetRead(w)
  PROVE  IInv'
<1>1. /\ at[w] = "reset" /\ UNCHANGED <<job, report, next, owner, held>>
      /\ ResetConnection /\ Goto(w, "release")
      /\ owner = w
  BY WorkerHolds, PlaceFacts DEF ResetRead
<1>2. ReadTypes' /\ at'[w] = "release" /\ \A v \in Workers : v # w => at'[v] = at[v]
  BY <1>1, PlaceFacts, GotoTypes DEF IInv
<1>3. OwnerInv'
  BY <1>1, <1>2, PlaceFacts, WorkerOwner
<1>4. Rest
  BY <1>1, <1>2, <1>3, JobStays DEF IInv, LinkTypes, Rest
<1>5. Quiet' /\ link' \in Links
  BY <1>1, ResetEffect DEF IInv, LinkTypes, Shrinks
<1>6. QED
  BY <1>4, <1>5, Quiets

LEMMA ReleaseReadStep ==
  ASSUME IInv, NEW w \in Workers, ReleaseRead(w)
  PROVE  IInv'
<1>1. /\ at[w] = "release" /\ UNCHANGED <<job, report, link, held>>
      /\ owner' = Nobody /\ NextRead(w) /\ owner = w
  BY WorkerHolds, PlaceFacts DEF ReleaseRead
<1>2. /\ ReadTypes' /\ at'[w] \in {"acquire", "idle"}
      /\ \A v \in Workers : v # w => at'[v] = at[v]
  BY <1>1, NextReadTypes DEF IInv
<1>3. OwnerInv'
  BY <1>1, <1>2, PlaceFacts, WorkerOwner
<1>4. Rest
  BY <1>1, <1>2, <1>3, JobStays DEF IInv, LinkTypes, Rest
<1>5. Shrinks
  BY <1>1, LinkStays DEF IInv, LinkTypes, LoadInv
<1>6. Quiet \/ job.at = "reset"
  BY <1>1 DEF IInv, LoadInv, ReadLoad
<1>7. QED
  BY <1>1, <1>4, <1>5, <1>6, Quiets DEF Shrinks

LEMMA WorkerStepIInv ==
  ASSUME IInv, NEW w \in Workers, WorkerStep(w)
  PROVE  IInv'
BY TickStep, AcquireReadStep, SendReadStep, ReadReturnsStep, ResetReadStep, ReleaseReadStep
   DEF WorkerStep

\* The gateway, the device and the network.
LEMMA OutsideStep ==
  ASSUME IInv, Shrinks, held' \in [Points -> Values], UNCHANGED <<job, report, at, next, owner>>
  PROVE  IInv'
<1>1. ReadTypes'
  BY DEF IInv, ReadTypes
<1>2. OwnerInv'
  BY OwnerStays DEF IInv
<1>3. Rest
  BY <1>1, <1>2, JobStays DEF Rest
<1>4. CommandLoad'
  BY QuietThen DEF IInv, LoadInv, CommandLoad, Shrinks
<1>5. ASSUME NEW w \in Workers PROVE ReadLoad(w)' \/ job'.at = "reset"
  BY DEF IInv, LoadInv, ReadLoad, Shrinks
<1>6. QED
  BY <1>3, <1>4, <1>5, Keeps

LEMMA WeatherStep ==
  ASSUME IInv, Serve \/ Drift \/ ConnectionLost
  PROVE  IInv'
<1>1. CASE Serve
  BY <1>1, OutsideStep, ServeEffect DEF IInv, Serve, workers
<1>2. CASE Drift
  <2>1. held' \in [Points -> Values]
    BY <1>2 DEF Drift, IInv, LinkTypes
  <2>2. Shrinks
    BY <1>2, LinkStays DEF Drift, IInv, LinkTypes, LoadInv
  <2>3. QED
    BY <1>2, <2>1, <2>2, OutsideStep DEF Drift, workers
<1>3. CASE ConnectionLost
  <2>1. Shrinks
    BY <1>3, LostEffect DEF IInv, LinkTypes
  <2>2. QED
    BY <1>3, <2>1, OutsideStep DEF ConnectionLost, workers, IInv, LinkTypes
<1>4. QED
  BY <1>1, <1>2, <1>3

-----------------------------------------------------------------------------
(* The steps of a command. *)

LEMMA GroundedAppend ==
  ASSUME NEW rs \in Seq(Results), NEW r \in Results, AllGrounded(rs), Grounded(r)
  PROVE  AllGrounded(Append(rs, r)) /\ Append(rs, r) \in Seq(Results)
<1> DEFINE a == Append(rs, r)
<1>1. /\ a \in Seq(Results) /\ DOMAIN a = 1..(Len(rs) + 1) /\ DOMAIN rs = 1..Len(rs)
      /\ a[Len(rs) + 1] = r /\ \A i \in 1..Len(rs) : a[i] = rs[i]
      /\ \A i \in 1..(Len(rs) + 1) : i \in 1..Len(rs) \/ i = Len(rs) + 1
  OBVIOUS
<1> HIDE DEF a
<1>2. AllGrounded(a)
  BY <1>1 DEF AllGrounded
<1>3. QED
  BY <1>1, <1>2 DEF a

LEMMA GroundedConcat ==
  ASSUME NEW rs \in Seq(Results), NEW qs \in Seq(Results), AllGrounded(rs), AllGrounded(qs)
  PROVE  AllGrounded(rs \o qs) /\ rs \o qs \in Seq(Results)
<1> DEFINE a == rs \o qs
           m == Len(rs)
           n == Len(qs)
<1>1. /\ a \in Seq(Results) /\ DOMAIN a = 1..(m + n) /\ m \in Nat /\ n \in Nat
      /\ DOMAIN rs = 1..m /\ DOMAIN qs = 1..n
  OBVIOUS
<1>2. \A i \in 1..m : a[i] = rs[i]
  OBVIOUS
<1>3. \A i \in 1..n : a[m + i] = qs[i]
  OBVIOUS
<1> HIDE DEF a, m, n
<1>4. \A i \in 1..(m + n) : i \in 1..m \/ (i - m \in 1..n /\ m + (i - m) = i)
  BY <1>1
<1>5. ASSUME NEW i \in DOMAIN a PROVE Grounded(a[i])
  <2>1. CASE i \in 1..m
    BY <1>1, <1>2, <2>1 DEF AllGrounded
  <2>2. CASE i - m \in 1..n /\ m + (i - m) = i
    <3>1. a[i] = qs[i - m]
      BY <1>3, <2>2
    <3>2. QED
      BY <1>1, <2>2, <3>1 DEF AllGrounded
  <2>3. QED
    BY <1>1, <1>4, <2>1, <2>2
<1>6. QED
  BY <1>1, <1>5 DEF AllGrounded, a

LEMMA OneResult ==
  ASSUME NEW r \in Results, Grounded(r)
  PROVE  /\ <<r>> \in Seq(Results) /\ AllGrounded(<<r>>)
         /\ LabelsOf(<<r>>) = <<[device |-> r.device, key |-> r.key]>>
<1>1. <<r>> \in Seq(Results)
  OBVIOUS
<1>2. DOMAIN <<r>> = 1..1 /\ <<r>>[1] = r /\ \A i \in 1..1 : i = 1
  OBVIOUS
<1>3. AllGrounded(<<r>>)
  <2>1. \A i \in DOMAIN <<r>> : <<r>>[i] = r
    BY <1>2
  <2>2. QED
    BY <2>1 DEF AllGrounded
<1>4. LabelsOf(<<r>>) = [i \in 1..1 |-> [device |-> r.device, key |-> r.key]]
  BY <1>2 DEF LabelsOf
<1>5. QED
  BY <1>1, <1>3, <1>4

LEMMA ResultType ==
  ASSUME job \in Jobs, NEW d \in Named, NEW k \in KeyNames, NEW s \in Statuses
  PROVE  /\ Result(d, k, s) \in Results
         /\ Result(d, k, s).device = d /\ Result(d, k, s).key = k /\ Result(d, k, s).status = s
         /\ s # "verified" => Grounded(Result(d, k, s))
         /\ Protocol[d] # "modbus" => Grounded(Result(d, k, s))
         /\ job.evidence = {<<Control, job.turn>>} => Grounded(Result(d, k, s))
<1>1. job.evidence \in SUBSET Senders /\ job.turn \in Nat
  BY JobFields
<1> DEFINE e == IF s = "verified" THEN job.evidence ELSE {}
<1>2. e \in SUBSET Senders /\ (s = "verified" => e = job.evidence)
  BY <1>1
<1> HIDE DEF e
<1>3. Result(d, k, s) = [device |-> d, key |-> k, status |-> s, turn |-> job.turn, evidence |-> e]
  BY DEF Result, e
<1> DEFINE r == Result(d, k, s)
           t == job.turn
<1>4. t \in Nat /\ r = [device |-> d, key |-> k, status |-> s, turn |-> t, evidence |-> e]
  BY <1>1, <1>3
<1>5. job.evidence = {<<Control, t>>} /\ s = "verified" => e = {<<Control, t>>}
  BY <1>2
<1> HIDE DEF r, t
<1>6. r \in Results
  BY <1>2, <1>4 DEF Results, KeyNames
<1>7. r.device = d /\ r.key = k /\ r.status = s /\ r.turn = t /\ r.evidence = e
  BY <1>4
<1>8. Grounded(r) <=> (s = "verified" /\ Protocol[d] = "modbus" => e = {<<Control, t>>})
  BY <1>7 DEF Grounded, OwnEvidence
<1>9. QED
  BY <1>5, <1>6, <1>7, <1>8 DEF r, t

\* What a command's step does to its job leaves the workers alone.
LEMMA CommandKeeps ==
  ASSUME IInv, Shrinks, UNCHANGED <<at, next, owner, held>>, JobInv', HonestReport',
         job'.at \in OwnerPlaces <=> job.at \in OwnerPlaces,
         job.at # "reset", job'.at # "reset",
         job.at \in OwnerPlaces => job'.turn = job.turn /\ CommandLoad'
  PROVE  IInv'
<1>1. ReadTypes'
  BY DEF IInv, ReadTypes
<1>2. OwnerInv'
  BY OwnerStays DEF IInv
<1>3. Rest
  BY <1>1, <1>2 DEF Rest, IInv, LinkTypes
<1>4. owner = Control => job'.turn = job.turn /\ CommandLoad'
  BY DEF IInv, OwnerInv
<1>5. ASSUME NEW w \in Workers PROVE ReadLoad(w)'
  BY DEF IInv, LoadInv, ReadLoad, Shrinks
<1>6. QED
  BY <1>3, <1>4, <1>5, Keeps

\* A step between two items, or before or after all of them.
LEMMA FreeStep ==
  ASSUME IInv, UNCHANGED <<workers, owner, link, held>>, JobInv', HonestReport',
         job.at \in {"idle", "item", "key", "publish", "acquire"},
         job'.at \in {"idle", "item", "key", "publish", "acquire"}
  PROVE  IInv'
<1>1. /\ job.at \notin OwnerPlaces /\ job'.at \notin OwnerPlaces
      /\ job.at # "reset" /\ job'.at # "reset"
  BY DEF OwnerPlaces
<1>2. Shrinks
  BY LinkStays DEF IInv, LinkTypes, LoadInv
<1>3. QED
  BY <1>1, <1>2, CommandKeeps DEF workers

LEMMA IdleJob ==
  ASSUME NEW t \in Nat
  PROVE  [at |-> "idle", command |-> <<>>, items |-> <<>>, keys |-> <<>>, turn |-> t,
          expired |-> FALSE, evidence |-> {}, status |-> "none", results |-> <<>>] \in Jobs
<1>1. <<>> \in Seq(Keys) /\ <<>> \in Seq(Results) /\ <<>> \in Seq(Items)
  OBVIOUS
<1>2. QED
  BY <1>1 DEF Jobs

LEMMA JobEnds ==
  ASSUME job \in Jobs, job' = [NoJob EXCEPT !.turn = job.turn]
  PROVE  JobInv' /\ job'.at = "idle"
<1>1. job' = [at |-> "idle", command |-> <<>>, items |-> <<>>, keys |-> <<>>, turn |-> job.turn,
              expired |-> FALSE, evidence |-> {}, status |-> "none", results |-> <<>>]
  BY DEF NoJob
<1>2. job.turn \in Nat
  BY JobFields
<1>3. job' \in Jobs
  BY <1>1, <1>2, IdleJob
<1>4. job'.at = "idle" /\ job'.results = <<>>
  BY <1>1
<1>5. Evident(job') /\ Labelled(job')
  BY <1>4 DEF Evident, Labelled
<1>6. AllGrounded(job'.results)
  BY <1>4 DEF AllGrounded
<1>7. QED
  BY <1>3, <1>4, <1>5, <1>6 DEF JobInv

LEMMA StartStep ==
  ASSUME IInv, Start
  PROVE  IInv'
<1>1. job.at = "idle" /\ UNCHANGED <<workers, owner, link, held>> /\ job \in Jobs
  BY DEF Start, IInv, JobInv
<1>2. PICK c \in Commands :
        IF boot = "none"
          THEN /\ report' = [end |-> "refused", command |-> c, results |-> <<>>]
               /\ UNCHANGED job
          ELSE /\ job' = [NoJob EXCEPT !.at = "item", !.command = c, !.items = c,
                                       !.turn = job.turn]
               /\ report' = NoReport
  BY DEF Start
<1>3. report'.end # "published"
  BY <1>2 DEF NoReport
<1>4. HonestReport'
  BY <1>3, ReportStays
<1>5. CASE boot = "none"
  <2>1. UNCHANGED job
    BY <1>2, <1>5
  <2>2. JobInv'
    BY <2>1 DEF IInv, JobInv
  <2>3. QED
    BY <1>1, <1>4, <2>1, <2>2, FreeStep
<1>6. CASE boot # "none"
  <2>1. job' = [NoJob EXCEPT !.at = "item", !.command = c, !.items = c, !.turn = job.turn]
    BY <1>2, <1>6
  <2>2. c \in Seq(Items) /\ job.turn \in Nat
    BY <1>1, Facts, JobFields
  <2>3. job' = [at |-> "item", command |-> c, items |-> c, keys |-> <<>>, turn |-> job.turn,
                expired |-> FALSE, evidence |-> {}, status |-> "none", results |-> <<>>]
    BY <2>1 DEF NoJob
  <2>4. <<>> \in Seq(Keys) /\ <<>> \in Seq(Results)
    OBVIOUS
  <2>5. job' \in Jobs
    BY <2>2, <2>3, <2>4 DEF Jobs
  <2>6. job'.at = "item" /\ job'.command = c /\ job'.items = c /\ job'.results = <<>>
    BY <2>3
  <2>7. Labelled(job')
    BY <2>2, <2>6, CommandBegins
  <2>8. Evident(job') /\ AllGrounded(job'.results)
    BY <2>6 DEF Evident, AllGrounded
  <2>9. QED
    BY <1>1, <1>4, <2>5, <2>6, <2>7, <2>8, FreeStep DEF JobInv
<1>7. QED
  BY <1>5, <1>6

LEMMA NextItemJob ==
  ASSUME IInv, NEW rs \in Seq(Results), AllGrounded(rs), job.items # <<>>, NextItem(rs)
  PROVE  /\ job' \in Jobs /\ job'.at = "item" /\ job'.command = job.command
         /\ job'.items = Tail(job.items) /\ job'.results = rs
         /\ Labelled(job') => JobInv'
<1>1. job \in Jobs /\ job.items \in Seq(Items)
  BY JobFields DEF IInv, JobInv
<1> DEFINE t == Tail(job.items)
<1>2. t \in Seq(Items)
  BY <1>1
<1>3. job' = [job EXCEPT !.at = "item", !.items = t, !.results = rs]
  BY DEF NextItem
<1> HIDE DEF t
<1>4. /\ job' \in Jobs /\ job'.at = "item" /\ job'.command = job.command
      /\ job'.items = t /\ job'.results = rs
  BY <1>1, <1>2, <1>3 DEF Jobs
<1>5. Evident(job')
  BY <1>4 DEF Evident
<1>6. QED
  BY <1>4, <1>5 DEF JobInv, t

LEMMA DispatchedResults ==
  ASSUME job \in Jobs, NEW item \in Items, item.device \in Devices,
         Protocol[item.device] = "opcua",
         NEW rs \in [DOMAIN item.keys -> UNION {Outcomes(item.device, k) : k \in Keys}],
         Dispatched(item.device, item.keys, rs)
  PROVE  rs \in Seq(Results) /\ AllGrounded(rs) /\ LabelsOf(rs) = ItemLabels(item)
<1> DEFINE n == Len(item.keys)
           d == item.device
<1>1. d \in Named /\ item.keys \in Seq(Keys) /\ d # Unnamed
  BY ItemFields, Facts
<1>2. DOMAIN item.keys = 1..n /\ n \in Nat
  BY <1>1
<1>3. ASSUME NEW r \in UNION {Outcomes(d, k) : k \in Keys}
      PROVE  r \in Results /\ Grounded(r)
  <2>1. PICK k \in Keys, s \in Statuses : r = Result(d, k, s)
    BY <1>3 DEF Outcomes, Statuses
  <2>2. QED
    BY <1>1, <2>1, ResultType DEF KeyNames
<1>4. rs \in [1..n -> Results] /\ \A i \in 1..n : Grounded(rs[i])
  BY <1>2, <1>3
<1> HIDE DEF n
<1>5. rs \in Seq(Results)
  BY ONLY <1>2, <1>4, FunctionIsSeq
<1>6. AllGrounded(rs)
  BY <1>2, <1>4 DEF AllGrounded
<1>7. \A i \in DOMAIN item.keys : rs[i].device = d /\ rs[i].key = item.keys[i]
  BY DEF Dispatched
<1>8. LabelsOf(rs) = KeyLabels(d, item.keys)
  <2>1. DOMAIN rs = DOMAIN item.keys
    OBVIOUS
  <2> HIDE DEF d
  <2>2. QED
    BY <1>7, <2>1 DEF LabelsOf, KeyLabels
<1>9. ItemLabels(item) = KeyLabels(d, item.keys)
  BY <1>1 DEF ItemLabels
<1>10. QED
  BY <1>5, <1>6, <1>8, <1>9

LEMMA TakeItemStep ==
  ASSUME IInv, TakeItem
  PROVE  IInv'
<1>1. /\ job.at = "item" /\ job.items # <<>> /\ UNCHANGED <<workers, owner, link, held>>
      /\ job \in Jobs /\ Labelled(job) /\ AllGrounded(job.results)
      /\ job.results \in Seq(Results)
  BY JobFields DEF TakeItem, IInv, JobInv
<1>2. /\ Item \in Items /\ Item.device \in Named /\ Item.keys \in Seq(Keys)
  <2> DEFINE items == job.items
  <2>1. items \in Seq(Items) /\ items # <<>>
    BY <1>1, JobFields
  <2> HIDE DEF items
  <2>2. Head(items) \in Items
    BY <2>1
  <2>3. QED
    BY <2>2, ItemFields DEF Item, items
<1>3. ASSUME NEW rs \in Seq(Results), AllGrounded(rs), LabelsOf(rs) = ItemLabels(Item),
             NextItem(job.results \o rs), UNCHANGED report
      PROVE  IInv'
  <2>1. AllGrounded(job.results \o rs) /\ job.results \o rs \in Seq(Results)
    BY <1>1, <1>3, GroundedConcat
  <2>2. /\ job' \in Jobs /\ job'.at = "item" /\ job'.command = job.command
        /\ job'.items = Tail(job.items) /\ job'.results = job.results \o rs
        /\ Labelled(job') => JobInv'
    BY <1>1, <1>3, <2>1, NextItemJob
  <2>3. Labelled(job')
    BY <1>1, <1>3, <2>2, ItemEnds DEF Item
  <2>4. QED
    BY <1>1, <1>3, <2>2, <2>3, FreeStep, ReportStays
<1>4. CASE Item.device = Unnamed /\ NextItem(job.results) /\ UNCHANGED report
  <2>1. <<>> \in Seq(Results) /\ AllGrounded(<<>>) /\ LabelsOf(<<>>) = <<>>
    BY DEF AllGrounded, LabelsOf
  <2>2. job.results \o <<>> = job.results
    BY <1>1
  <2>3. ItemLabels(Item) = <<>>
    BY <1>4 DEF ItemLabels
  <2>4. QED
    BY <1>3, <1>4, <2>1, <2>2, <2>3
<1>5. CASE /\ Item.device \notin Devices \cup {Unnamed}
           /\ NextItem(Append(job.results, Result(Item.device, "", "failed")))
           /\ UNCHANGED report
  <2> DEFINE d == Item.device
             k == ""
             r == Result(d, k, "failed")
             old == job.results
  <2>1. k \in KeyNames /\ "failed" \in Statuses /\ "failed" # "verified"
    BY DEF Statuses, KeyNames
  <2>2. r \in Results /\ r.device = d /\ r.key = k /\ Grounded(r)
    <3> HIDE DEF d, k
    <3>1. job \in Jobs /\ d \in Named
      BY <1>1, <1>2 DEF d
    <3>2. r \in Results /\ r.device = d /\ r.key = k
      BY <2>1, <3>1, ResultType
    <3>3. "failed" # "verified" => Grounded(r)
      BY <2>1, <3>1, ResultType
    <3>4. QED
      BY <2>1, <3>2, <3>3
  <2>3. ItemLabels(Item) = <<[device |-> d, key |-> ""]>>
    BY <1>5 DEF ItemLabels
  <2>4. old \in Seq(Results)
    BY <1>1
  <2> HIDE DEF r, d, old
  <2>5. Append(old, r) = old \o <<r>>
    BY <2>2, <2>4, AppendIsConcat
  <2>6. <<r>> \in Seq(Results) /\ AllGrounded(<<r>>) /\ LabelsOf(<<r>>) = ItemLabels(Item)
    BY <2>2, <2>3, OneResult
  <2>7. NextItem(old \o <<r>>) /\ UNCHANGED report
    BY <1>5, <2>5 DEF r, d, k, old
  <2>8. QED
    BY <1>3, <2>6, <2>7 DEF old
<1>6. CASE /\ Item.device \in Devices /\ Protocol[Item.device] = "opcua"
           /\ \E results \in [DOMAIN Item.keys -> UNION {Outcomes(Item.device, k) : k \in Keys}] :
                /\ Dispatched(Item.device, Item.keys, results)
                /\ NextItem(job.results \o results)
           /\ UNCHANGED report
  <2>1. PICK rs \in [DOMAIN Item.keys -> UNION {Outcomes(Item.device, k) : k \in Keys}] :
          Dispatched(Item.device, Item.keys, rs) /\ NextItem(job.results \o rs)
    BY <1>6
  <2>2. rs \in Seq(Results) /\ AllGrounded(rs) /\ LabelsOf(rs) = ItemLabels(Item)
    BY <1>1, <1>2, <1>6, <2>1, DispatchedResults
  <2>3. QED
    BY <1>3, <1>6, <2>1, <2>2
<1>7. CASE /\ Item.device \in Devices /\ Protocol[Item.device] \in {"modbus", "mqtt"}
           /\ job' = [job EXCEPT !.at = "key", !.keys = Item.keys]
           /\ UNCHANGED report
  <2>1. /\ job' \in Jobs /\ job'.at = "key" /\ job'.command = job.command
        /\ job'.items = job.items /\ job'.keys = Item.keys /\ job'.results = job.results
    BY <1>1, <1>2, <1>7 DEF Jobs, KeyPlaces
  <2>2. Labelled(job')
    BY <1>1, <1>7, <2>1, ItemBegins DEF Item
  <2>3. Evident(job') /\ AllGrounded(job'.results)
    BY <1>1, <2>1 DEF Evident
  <2>4. QED
    BY <1>1, <1>7, <2>1, <2>2, <2>3, FreeStep, ReportStays DEF JobInv
<1>8. CASE /\ report' = [end |-> "aborted", command |-> job.command, results |-> job.results]
           /\ job' = [NoJob EXCEPT !.turn = job.turn]
  <2>1. JobInv' /\ job'.at = "idle"
    BY <1>1, <1>8, JobEnds
  <2>2. HonestReport'
    BY <1>8, ReportStays
  <2>3. QED
    BY <1>1, <2>1, <2>2, FreeStep
<1>9. QED
  BY <1>4, <1>5, <1>6, <1>7, <1>8 DEF TakeItem

-----------------------------------------------------------------------------
(* The steps at a key. *)

\* The key in hand, and what is done, stay: the command goes to p with a status and evidence.
Moved(j, k, p, s, e) ==
  /\ k \in Jobs /\ k.at = p /\ k.status = s /\ k.evidence = e
  /\ k.command = j.command /\ k.items = j.items /\ k.keys = j.keys /\ k.results = j.results

LEMMA KeyInHand ==
  ASSUME IInv, job.at \in KeyPlaces
  PROVE  /\ job \in Jobs /\ Labelled(job) /\ AllGrounded(job.results) /\ Evident(job)
         /\ job.items # <<>> /\ Item.device \in Named
         /\ Item.device \in Devices
         /\ job.at # "key" => job.keys # <<>>
         /\ job.keys # <<>> => Key \in Keys /\ Attr.target \in Values /\ Attr.point \in Points
<1>1. /\ job \in Jobs /\ Labelled(job) /\ AllGrounded(job.results) /\ Evident(job)
      /\ InHand(job)
  BY Places DEF IInv, JobInv, Labelled
<1>2. /\ job.items # <<>> /\ Item.device \in Devices
      /\ job.at # "key" => job.keys # <<>>
  BY <1>1 DEF InHand, Item
<1> DEFINE items == job.items
           keys == job.keys
<1>3. items \in Seq(Items) /\ keys \in Seq(Keys)
  BY <1>1, JobFields
<1>4. Item = Head(items) /\ Key = Head(keys) /\ items # <<>>
  BY <1>2 DEF Item, Key
<1> HIDE DEF items, keys
<1>5. Item \in Items /\ (keys # <<>> => Key \in Keys)
  BY <1>3, <1>4
<1>6. Item.device \in Named
  BY <1>5, ItemFields
<1>7. keys # <<>> => Attr.target \in Values /\ Attr.point \in Points
  BY <1>5, Facts DEF Attr
<1>8. QED
  BY <1>1, <1>2, <1>5, <1>6, <1>7 DEF keys

LEMMA JobMoves ==
  ASSUME IInv, job.at \in KeyPlaces, job.keys # <<>>,
         NEW p \in KeyPlaces, NEW s, NEW e, Moved(job, job', p, s, e), Evident(job')
  PROVE  JobInv'
<1>1. job \in Jobs /\ Labelled(job) /\ AllGrounded(job.results)
  BY KeyInHand
<1>2. /\ job' \in Jobs /\ job'.at \in KeyPlaces /\ job'.command = job.command
      /\ job'.items = job.items /\ job'.keys = job.keys /\ job'.results = job.results
  BY DEF Moved
<1>3. Labelled(job')
  BY <1>1, <1>2, KeyMoves
<1>4. AllGrounded(job'.results)
  BY <1>1, <1>2
<1>5. QED
  BY <1>2, <1>3, <1>4 DEF JobInv

\* The command keeps the guard.
LEMMA CommandGoes ==
  ASSUME IInv, Shrinks, UNCHANGED <<report, workers, owner, held>>,
         job.at \in OwnerPlaces, NEW p \in OwnerPlaces, NEW s, NEW e,
         Moved(job, job', p, s, e), job'.turn = job.turn, Evident(job'), CommandLoad'
  PROVE  IInv'
<1>1. job.at \in KeyPlaces /\ p \in KeyPlaces /\ job.at # "key" /\ job.at # "reset" /\ p # "reset"
  BY Places
<1>2. JobInv'
  BY <1>1, KeyInHand, JobMoves
<1>3. HonestReport'
  BY ReportStays
<1>4. job'.at = p
  BY DEF Moved
<1>5. QED
  BY <1>1, <1>2, <1>3, <1>4, CommandKeeps DEF workers

\* The guard is the command's at its places.
LEMMA CommandHolds ==
  ASSUME IInv, job.at \in OwnerPlaces
  PROVE  /\ owner = Control /\ owner # Nobody /\ job \in Jobs /\ job.at \in KeyPlaces
         /\ job.at # "reset" /\ job.at # "key" /\ job.keys # <<>> /\ Evident(job)
         /\ link \in Links /\ (link.state = "none" => Quiet) /\ CommandLoad
         /\ \A b \in Senderships : b = <<Control, job.turn>>
<1>1. owner = Control /\ owner # Nobody
  BY Facts DEF IInv, OwnerInv
<1>2. job.at \in KeyPlaces /\ job.at # "reset" /\ job.at # "key"
  BY Places
<1>3. job \in Jobs /\ job.keys # <<>> /\ Evident(job)
  BY <1>2, KeyInHand
<1>4. link \in Links /\ (link.state = "none" => Quiet) /\ CommandLoad
  BY DEF IInv, LinkTypes, LoadInv
<1>5. \A b \in Senderships : b = <<Control, job.turn>>
  BY <1>1, <1>2, HandoverIs DEF IInv
<1>6. QED
  BY <1>1, <1>2, <1>3, <1>4, <1>5

LEMMA ExpireStep ==
  ASSUME IInv, Expire
  PROVE  IInv'
<1>1. /\ job.at \in {"acquire", "pause", "write", "ack", "read", "reading", "wait"}
      /\ job' = [job EXCEPT !.expired = TRUE]
      /\ UNCHANGED <<report, workers, owner, link, held>>
  BY DEF Expire
<1>2. job.at \in KeyPlaces /\ job.at # "key"
  BY <1>1 DEF KeyPlaces, OwnerPlaces
<1>3. job \in Jobs /\ job.keys # <<>> /\ Evident(job)
  BY <1>2, KeyInHand
<1>4. Moved(job, job', job.at, job.status, job.evidence) /\ job'.turn = job.turn
  BY <1>1, <1>3 DEF Jobs, Moved
<1>5. Evident(job')
  BY <1>3, <1>4 DEF Moved, Evident
<1>6. CASE job.at = "acquire"
  <2>1. JobInv'
    BY <1>2, <1>3, <1>4, <1>5, JobMoves
  <2>2. job'.at = "acquire"
    BY <1>4, <1>6 DEF Moved
  <2>3. QED
    BY <1>1, <1>6, <2>1, <2>2, FreeStep, ReportStays
<1>7. CASE job.at # "acquire"
  <2>1. job.at \in OwnerPlaces
    BY <1>1, <1>7 DEF OwnerPlaces
  <2>2. CommandLoad'
    BY <1>1, <1>4, <2>1, CommandHolds DEF Moved, CommandLoad, Quiet, AlmostQuiet
  <2>3. Shrinks
    BY <1>1, <2>1, CommandHolds, LinkStays
  <2>4. QED
    BY <1>1, <1>4, <1>5, <2>1, <2>2, <2>3, CommandGoes
<1>8. QED
  BY <1>6, <1>7

LEMMA KeyGoes ==
  ASSUME IInv, job.at \in KeyPlaces, job.keys # <<>>, NEW s \in Statuses,
         s = "verified" => job.evidence = {<<Control, job.turn>>},
         job' \in Jobs, job'.at = "key", job'.command = job.command, job'.items = job.items,
         job'.keys = Tail(job.keys),
         job'.results = Append(job.results, Result(Item.device, Key, s))
  PROVE  JobInv'
<1> DEFINE d == Item.device
           r == Result(d, Key, s)
           old == job.results
<1>1. job \in Jobs /\ Labelled(job) /\ AllGrounded(old) /\ d \in Named /\ Key \in Keys
  BY KeyInHand
<1>2. old \in Seq(Results)
  BY <1>1, JobFields
<1>3. r \in Results /\ r.device = d /\ r.key = Key /\ Grounded(r)
  <2> HIDE DEF d
  <2>1. Key \in KeyNames
    BY <1>1 DEF KeyNames
  <2>2. /\ r \in Results /\ r.device = d /\ r.key = Key
        /\ s # "verified" => Grounded(r)
        /\ job.evidence = {<<Control, job.turn>>} => Grounded(r)
    BY <1>1, <2>1, ResultType
  <2>3. QED
    BY <2>2
<1>4. job'.results = Append(old, r)
  OBVIOUS
<1>5. d = Head(job.items).device /\ Key = Head(job.keys)
  BY DEF Item, Key
<1> HIDE DEF d, r
<1>6. Labelled(job')
  BY <1>1, <1>3, <1>4, <1>5, KeyEnds
<1>7. AllGrounded(job'.results)
  <2> HIDE DEF old
  <2>1. AllGrounded(Append(old, r))
    BY <1>1, <1>2, <1>3, GroundedAppend
  <2>2. QED
    BY <1>4, <2>1
<1>8. Evident(job')
  BY DEF Evident
<1>9. QED
  BY <1>6, <1>7, <1>8 DEF JobInv

LEMMA KeyDoneJob ==
  ASSUME IInv, job.at \in KeyPlaces, job.keys # <<>>, NEW s \in Statuses,
         s = "verified" => job.evidence = {<<Control, job.turn>>},
         \/ KeyDone(s)
         \/ /\ job.at = "key"
            /\ job' = [job EXCEPT !.keys = Tail(@), !.results = Append(@, Result(Item.device, Key, s))]
  PROVE  JobInv' /\ job'.at = "key"
<1> DEFINE keys == job.keys
           ks == Tail(keys)
           old == job.results
           r == Result(Item.device, Key, s)
           rs == Append(old, r)
<1>1. job \in Jobs /\ Item.device \in Named /\ Key \in KeyNames
  BY KeyInHand DEF KeyNames
<1>2. keys \in Seq(Keys) /\ keys # <<>> /\ old \in Seq(Results)
  BY <1>1, JobFields
<1>3. r \in Results
  BY <1>1, ResultType
<1>4. \/ job' = [job EXCEPT !.at = "key", !.keys = ks, !.expired = FALSE, !.evidence = {},
                            !.status = "none", !.results = rs]
      \/ job.at = "key" /\ job' = [job EXCEPT !.keys = ks, !.results = rs]
  BY DEF KeyDone
<1> HIDE DEF keys, old, r
<1>5. ks \in Seq(Keys) /\ rs \in Seq(Results)
  BY <1>2, <1>3
<1> HIDE DEF ks, rs
<1>6. /\ job' \in Jobs /\ job'.at = "key" /\ job'.command = job.command
      /\ job'.items = job.items /\ job'.keys = ks /\ job'.results = rs
  <2>1. job \in Jobs
    BY <1>1
  <2>2. CASE job' = [job EXCEPT !.at = "key", !.keys = ks, !.expired = FALSE, !.evidence = {},
                                !.status = "none", !.results = rs]
    BY <1>5, <2>1, <2>2, Places DEF Jobs
  <2>3. CASE job.at = "key" /\ job' = [job EXCEPT !.keys = ks, !.results = rs]
    BY <1>5, <2>1, <2>3 DEF Jobs
  <2>4. QED
    BY <1>4, <2>2, <2>3
<1>7. ks = Tail(job.keys) /\ rs = Append(job.results, Result(Item.device, Key, s))
  BY DEF ks, keys, rs, old, r
<1>8. QED
  BY <1>6, <1>7, KeyGoes

LEMMA TakeKeyStep ==
  ASSUME IInv, TakeKey
  PROVE  IInv'
<1>1. /\ job.at = "key" /\ job.at \in KeyPlaces
      /\ UNCHANGED <<report, workers, owner, link, held>>
  BY Places DEF TakeKey
<1>2. /\ job \in Jobs /\ Labelled(job) /\ AllGrounded(job.results) /\ job.items # <<>>
      /\ job.results \in Seq(Results)
  BY <1>1, KeyInHand, JobFields
<1>3. CASE job.keys = <<>> /\ NextItem(job.results)
  <2>1. /\ job' \in Jobs /\ job'.at = "item" /\ job'.command = job.command
        /\ job'.items = Tail(job.items) /\ job'.results = job.results
        /\ Labelled(job') => JobInv'
    BY <1>2, <1>3, NextItemJob
  <2>2. Labelled(job')
    BY <1>1, <1>2, <1>3, <2>1, KeysEnd
  <2>3. QED
    BY <1>1, <2>1, <2>2, FreeStep, ReportStays
<1>4. CASE /\ job.keys # <<>>
           /\ job' = [job EXCEPT !.keys = Tail(@),
                        !.results = Append(@, Result(Item.device, Key, "failed"))]
  <2>1. "failed" \in Statuses /\ "failed" # "verified"
    BY DEF Statuses
  <2>2. JobInv' /\ job'.at = "key"
    BY <1>1, <1>4, <2>1, KeyDoneJob
  <2>3. QED
    BY <1>1, <2>2, FreeStep, ReportStays
<1>5. ASSUME NEW p \in {"publish", "acquire"}, job.keys # <<>>,
             job' = [job EXCEPT !.at = p, !.turn = @ + 1]
      PROVE  IInv'
  <2>1. job.turn + 1 \in Nat /\ p \in KeyPlaces
    BY <1>2, Places, JobFields
  <2>2. Moved(job, job', p, job.status, job.evidence)
    BY <1>2, <1>5, <2>1 DEF Jobs, Moved
  <2>3. job'.at \in {"publish", "acquire"}
    BY <2>2 DEF Moved
  <2>4. Evident(job')
    BY <2>3 DEF Evident
  <2>5. JobInv'
    BY <1>1, <1>5, <2>1, <2>2, <2>4, JobMoves
  <2>6. QED
    BY <1>1, <2>3, <2>5, FreeStep, ReportStays
<1>6. CASE /\ job.keys # <<>>
           /\ job' = [job EXCEPT !.at = IF Published THEN "publish" ELSE "acquire", !.turn = @ + 1]
  BY <1>5, <1>6
<1>7. QED
  BY <1>3, <1>4, <1>6 DEF TakeKey

LEMMA PublishReturnsStep ==
  ASSUME IInv, PublishReturns
  PROVE  IInv'
<1>1. /\ job.at = "publish" /\ job.at \in KeyPlaces
      /\ UNCHANGED <<report, workers, owner, link, held>>
  BY Places DEF PublishReturns
<1>2. PICK s \in {"failed", "unverified"} : KeyDone(s)
  BY DEF PublishReturns
<1>3. job.keys # <<>>
  BY <1>1, KeyInHand
<1>4. s \in Statuses /\ s # "verified"
  BY DEF Statuses
<1>5. JobInv' /\ job'.at = "key"
  BY <1>1, <1>2, <1>3, <1>4, KeyDoneJob
<1>6. QED
  BY <1>1, <1>5, FreeStep, ReportStays

LEMMA AcquireControlStep ==
  ASSUME IInv, AcquireControl
  PROVE  IInv'
<1>1. /\ job.at = "acquire" /\ Acquire(Control) /\ job' = [job EXCEPT !.at = "pause"]
      /\ UNCHANGED <<report, workers, held>>
  BY DEF AcquireControl
<1>2. job.at \in KeyPlaces /\ "pause" \in KeyPlaces /\ "pause" \in OwnerPlaces
  BY <1>1 DEF KeyPlaces, OwnerPlaces
<1>3. job \in Jobs /\ job.keys # <<>>
  BY <1>1, <1>2, KeyInHand
<1>4. Moved(job, job', "pause", job.status, job.evidence)
  BY <1>1, <1>2, <1>3 DEF Jobs, Moved
<1>5. job'.at = "pause"
  BY <1>4 DEF Moved
<1>6. Evident(job')
  BY <1>5 DEF Evident
<1>7. JobInv'
  BY <1>2, <1>3, <1>4, <1>6, JobMoves
<1>8. Shrinks /\ owner = Nobody /\ owner' = Control
  BY <1>1, AcquireEffect DEF IInv, LinkTypes, LoadInv
<1>9. Quiet' /\ link' \in Links
  BY <1>1, <1>8, NobodyQuiet DEF Shrinks
<1>10. ReadTypes'
  BY <1>1 DEF IInv, ReadTypes, workers
<1>11. OwnerInv'
  <2>1. \A w \in Workers : at'[w] \notin ReadPlaces
    BY <1>1, <1>8, Facts DEF IInv, OwnerInv, workers
  <2>2. QED
    BY <1>2, <1>5, <1>8, <2>1, Facts DEF OwnerInv
<1>12. Rest
  BY <1>1, <1>7, <1>10, <1>11, ReportStays DEF Rest, IInv, LinkTypes
<1>13. QED
  BY <1>9, <1>12, Quiets

LEMMA AcquireFailsStep ==
  ASSUME IInv, AcquireFails
  PROVE  IInv'
<1>1. /\ job.at = "acquire" /\ job.at \in KeyPlaces /\ KeyDone("failed")
      /\ UNCHANGED <<report, workers, owner, link, held>>
  BY Places DEF AcquireFails, DialFails
<1>2. job.keys # <<>>
  BY <1>1, KeyInHand
<1>3. "failed" \in Statuses /\ "failed" # "verified"
  BY DEF Statuses
<1>4. JobInv' /\ job'.at = "key"
  BY <1>1, <1>2, <1>3, KeyDoneJob
<1>5. QED
  BY <1>1, <1>4, FreeStep, ReportStays

\* Where what has been received does not matter, or answers this very write.
LEMMA EvidentThere ==
  ASSUME NEW k, NEW s, NEW e, NEW p \in OwnerPlaces, Moved(job, k, p, s, e),
         \/ p \in {"write", "ack"}
         \/ p \in {"resume", "release"} /\ s \in Statuses /\ s # "verified"
         \/ e = {<<Control, job.turn>>} /\ k.turn = job.turn /\ s \in Statuses
         \/ e = {<<Control, job.turn>>} /\ k.turn = job.turn /\ p \in {"read", "reading", "wait"}
  PROVE  Evident(k)
<1>1. k.at = p /\ k.status = s /\ k.evidence = e
  BY DEF Moved
<1>2. p # "reset"
  BY DEF OwnerPlaces
<1>3. QED
  BY <1>1, <1>2 DEF Evident

\* The write or its readback has failed: the load does not matter any more.
LEMMA SettleFailed ==
  ASSUME IInv, Shrinks, UNCHANGED <<report, workers, owner, held>>, job.at \in OwnerPlaces,
         job' = [job EXCEPT !.at = "resume", !.status = "failed"]
  PROVE  IInv'
<1>1. /\ "failed" \in Statuses /\ "failed" # "verified"
      /\ "resume" \in OwnerPlaces /\ "resume" \in KeyPlaces
  BY DEF Statuses, OwnerPlaces, KeyPlaces
<1>2. job \in Jobs /\ job.evidence \in SUBSET Senders
  BY CommandHolds, JobFields
<1>3. Moved(job, job', "resume", "failed", job.evidence) /\ job'.turn = job.turn
  <2>1. Moved(job, job', "resume", "failed", job.evidence)
    BY <1>1, <1>2 DEF Jobs, Moved
  <2>2. job'.turn = job.turn
    BY <1>2 DEF Jobs
  <2>3. QED
    BY <2>1, <2>2
<1>4. Evident(job')
  BY <1>1, <1>3, EvidentThere
<1>5. job'.at = "resume" /\ job'.status = "failed"
  BY <1>3 DEF Moved
<1>6. CommandLoad'
  BY <1>5 DEF CommandLoad
<1>7. QED
  BY <1>1, <1>3, <1>4, <1>6, CommandGoes

LEMMA PauseGatewayStep ==
  ASSUME IInv, PauseGateway
  PROVE  IInv'
<1>1. /\ job.at = "pause" /\ job' = [job EXCEPT !.at = "write"]
      /\ UNCHANGED <<report, workers, owner, link, held>>
  BY DEF PauseGateway
<1>2. job.at \in OwnerPlaces /\ "write" \in OwnerPlaces /\ "write" \in KeyPlaces
  BY <1>1 DEF OwnerPlaces, KeyPlaces
<1>3. /\ job \in Jobs /\ link \in Links /\ (link.state = "none" => Quiet) /\ CommandLoad
  BY <1>2, CommandHolds
<1>4. Moved(job, job', "write", job.status, job.evidence)
  BY <1>1, <1>2, <1>3 DEF Jobs, Moved
<1>5. job'.turn = job.turn
  BY <1>1, <1>3 DEF Jobs
<1>6. Evident(job')
  BY <1>2, <1>4, EvidentThere
<1>7. job'.at = "write"
  BY <1>4 DEF Moved
<1>8. Quiet'
  BY <1>1, <1>3 DEF CommandLoad, Quiet
<1>9. CommandLoad'
  BY <1>7, <1>8 DEF CommandLoad
<1>10. Shrinks
  BY <1>1, <1>3, LinkStays
<1>11. QED
  BY <1>1, <1>2, <1>4, <1>5, <1>6, <1>9, <1>10, CommandGoes

\* A request is sent, and its answer awaited.
LEMMA CommandSends ==
  ASSUME IInv, UNCHANGED <<report, workers, owner, held>>, job.at \in OwnerPlaces,
         NEW p \in {"ack", "reading"}, job' = [job EXCEPT !.at = p],
         p = "reading" => job.evidence = {<<Control, job.turn>>},
         link.state = "up", Quiet, NEW r \in Requests, r.by = <<Control, job.turn>>, Send(r)
  PROVE  IInv'
<1>1. p \in OwnerPlaces /\ p \in KeyPlaces /\ p # "reset"
  BY DEF OwnerPlaces, KeyPlaces
<1>2. /\ job \in Jobs /\ owner = Control /\ owner # Nobody /\ job.at # "reset"
      /\ job.keys # <<>> /\ job.at \in KeyPlaces
  BY CommandHolds
<1>3. Moved(job, job', p, job.status, job.evidence) /\ job'.turn = job.turn
  <2>1. Moved(job, job', p, job.status, job.evidence)
    BY <1>1, <1>2 DEF Jobs, Moved
  <2>2. job'.turn = job.turn
    BY <1>2 DEF Jobs
  <2>3. QED
    BY <2>1, <2>2
<1>4. Evident(job')
  BY <1>1, <1>3, EvidentThere
<1>5. JobInv'
  BY <1>1, <1>2, <1>3, <1>4, JobMoves
<1>6. job'.at = p
  BY <1>3 DEF Moved
<1>7. ReadTypes'
  BY DEF IInv, ReadTypes, workers
<1>8. OwnerInv'
  BY <1>1, <1>6, OwnerStays DEF IInv, workers
<1>9. Rest
  BY <1>5, <1>7, <1>8, ReportStays DEF Rest, IInv, LinkTypes
<1>10. \A w \in Workers : owner # w
  BY <1>2, Facts
<1>11. QED
  BY <1>1, <1>2, <1>3, <1>6, <1>9, <1>10, Sends

LEMMA WriteFrameStep ==
  ASSUME IInv, WriteFrame
  PROVE  IInv'
<1>1. job.at = "write" /\ UNCHANGED <<report, workers, owner, held>> /\ job.at \in OwnerPlaces
  BY DEF WriteFrame, OwnerPlaces
<1>2. /\ job \in Jobs /\ link \in Links /\ (link.state = "none" => Quiet) /\ CommandLoad
      /\ job.keys # <<>> /\ job.at \in KeyPlaces
  BY <1>1, CommandHolds
<1>3. CASE /\ link.state = "up" /\ Send(WriteOf(Attr.point, Attr.target))
           /\ job' = [job EXCEPT !.at = "ack"]
  <2> DEFINE r == WriteOf(Attr.point, Attr.target)
  <2>1. Attr.target \in Values /\ Attr.point \in Points
    BY <1>2, KeyInHand
  <2>2. job.turn \in Nat
    BY <1>2, JobFields
  <2>3. Sender(Control) = <<Control, job.turn>> /\ <<Control, job.turn>> \in Senders
    BY <2>2 DEF Sender, Senders
  <2>4. r \in Requests /\ r.by = <<Control, job.turn>>
    BY <2>1, <2>3 DEF WriteOf, Requests
  <2>5. Send(r)
    BY <1>3
  <2> HIDE DEF r
  <2>6. Quiet
    BY <1>1, <1>2 DEF CommandLoad
  <2>7. "ack" \in {"ack", "reading"} /\ "ack" # "reading"
    OBVIOUS
  <2>8. QED
    BY <1>1, <1>3, <2>4, <2>5, <2>6, <2>7, CommandSends
<1>4. CASE Settle("failed") /\ UNCHANGED link
  <2>1. Shrinks
    BY <1>2, <1>4, LinkStays
  <2>2. QED
    BY <1>1, <1>4, <2>1, SettleFailed DEF Settle
<1>5. QED
  BY <1>3, <1>4 DEF WriteFrame

\* What the command receives answers itself, and leaves nothing under way.
LEMMA CommandReceives ==
  ASSUME IInv, job.at \in {"ack", "reading"}, Answered, Receive
  PROVE  Shrinks /\ Quiet' /\ Head(link.answers).by = <<Control, job.turn>>
<1>1. job.at \in OwnerPlaces
  BY DEF OwnerPlaces
<1>2. /\ link \in Links /\ (link.state = "none" => Quiet) /\ CommandLoad
      /\ \A b \in Senderships : b = <<Control, job.turn>>
  BY <1>1, CommandHolds
<1>3. /\ Shrinks /\ Head(link.answers).by \in Senderships
      /\ AlmostQuiet => Quiet'
  BY <1>2, ReceiveEffect
<1>4. AlmostQuiet
  BY <1>2 DEF CommandLoad
<1>5. QED
  BY <1>2, <1>3, <1>4

\* With nothing under way the command may go anywhere.
LEMMA QuietGoes ==
  ASSUME IInv, Shrinks, Quiet', UNCHANGED <<report, workers, owner, held>>,
         job.at \in OwnerPlaces, NEW p \in OwnerPlaces, NEW s, NEW e,
         Moved(job, job', p, s, e), job'.turn = job.turn, Evident(job')
  PROVE  IInv'
<1>1. CommandLoad'
  BY QuietThen DEF CommandLoad, Shrinks
<1>2. QED
  BY <1>1, CommandGoes

LEMMA WaitCommandAckStep ==
  ASSUME IInv, WaitCommandAck
  PROVE  IInv'
<1>1. job.at = "ack" /\ UNCHANGED <<report, workers, owner, held>> /\ job.at \in OwnerPlaces
  BY DEF WaitCommandAck, OwnerPlaces
<1>2. job \in Jobs /\ link \in Links /\ (link.state = "none" => Quiet)
  BY <1>1, CommandHolds
<1>3. CASE (link.state # "up" \/ job.expired) /\ Settle("failed") /\ UNCHANGED link
  <2>1. Shrinks
    BY <1>2, <1>3, LinkStays
  <2>2. QED
    BY <1>1, <1>3, <2>1, SettleFailed DEF Settle
<1>4. CASE Answered /\ Receive
  <2> DEFINE by == Head(link.answers).by
             e == {by}
  <2>1. Shrinks /\ Quiet' /\ by = <<Control, job.turn>>
    BY <1>1, <1>4, CommandReceives
  <2>2. e = {<<Control, job.turn>>} /\ e \in SUBSET Senders
    <3>1. job.turn \in Nat
      BY <1>2, JobFields
    <3>2. e = {<<Control, job.turn>>}
      BY <2>1
    <3>3. QED
      BY <3>1, <3>2 DEF Senders
  <2>3. \/ Settle("failed")
        \/ job' = [job EXCEPT !.at = "resume", !.status = "unverified", !.evidence = e]
        \/ job' = [job EXCEPT !.at = "read", !.evidence = e]
    BY <1>1, <1>3, <1>4 DEF WaitCommandAck
  <2> HIDE DEF by, e
  <2>4. CASE Settle("failed")
    BY <1>1, <2>1, <2>4, SettleFailed DEF Settle
  <2>5. CASE job' = [job EXCEPT !.at = "resume", !.status = "unverified", !.evidence = e]
    <3>1. /\ "resume" \in OwnerPlaces /\ "resume" \in KeyPlaces
          /\ "unverified" \in Statuses /\ "unverified" # "verified"
      BY DEF OwnerPlaces, KeyPlaces, Statuses
    <3>2. Moved(job, job', "resume", "unverified", e)
      BY <1>2, <2>2, <2>5, <3>1 DEF Jobs, Moved
    <3>3. job'.turn = job.turn
      BY <1>2, <2>5 DEF Jobs
    <3>4. Evident(job')
      BY <3>1, <3>2, EvidentThere
    <3>5. QED
      BY <1>1, <2>1, <3>1, <3>2, <3>3, <3>4, QuietGoes
  <2>6. CASE job' = [job EXCEPT !.at = "read", !.evidence = e]
    <3>1. "read" \in OwnerPlaces /\ "read" \in KeyPlaces
      BY DEF OwnerPlaces, KeyPlaces
    <3>2. Moved(job, job', "read", job.status, e)
      BY <1>2, <2>2, <2>6, <3>1 DEF Jobs, Moved
    <3>3. job'.turn = job.turn
      BY <1>2, <2>6 DEF Jobs
    <3>4. Evident(job')
      BY <2>2, <3>1, <3>2, <3>3, EvidentThere
    <3>5. QED
      BY <1>1, <2>1, <3>1, <3>2, <3>3, <3>4, QuietGoes
  <2>7. QED
    BY <2>3, <2>4, <2>5, <2>6
<1>5. QED
  BY <1>3, <1>4 DEF WaitCommandAck

\* A read that confirmed nothing, with a load that allows to try again.
LEMMA RetryStep ==
  ASSUME IInv, Shrinks, UNCHANGED <<report, workers, owner, held>>,
         job.at \in {"read", "reading"}, job' = Retry(job),
         ~ job.expired => Quiet' \/ link'.state # "up"
  PROVE  IInv'
<1>1. job.at \in OwnerPlaces /\ "wait" \in OwnerPlaces /\ "wait" \in KeyPlaces
  BY DEF OwnerPlaces, KeyPlaces
<1>2. CASE job.expired
  <2>1. job' = [job EXCEPT !.at = "resume", !.status = "failed"]
    BY <1>2 DEF Retry
  <2>2. QED
    BY <1>1, <2>1, SettleFailed
<1>3. CASE ~ job.expired
  <2>1. job' = [job EXCEPT !.at = "wait"]
    BY <1>3 DEF Retry
  <2>2. job \in Jobs /\ Evident(job)
    BY <1>1, CommandHolds
  <2>3. job.evidence = {<<Control, job.turn>>}
    BY <2>2 DEF Evident
  <2>4. Moved(job, job', "wait", job.status, job.evidence)
    BY <1>1, <2>1, <2>2 DEF Jobs, Moved
  <2>5. job'.turn = job.turn
    BY <2>1, <2>2 DEF Jobs
  <2>6. Evident(job')
    BY <1>1, <2>3, <2>4, <2>5, EvidentThere
  <2>7. job'.at = "wait"
    BY <2>4 DEF Moved
  <2>8. CommandLoad'
    BY <1>3, <2>7 DEF CommandLoad
  <2>9. QED
    BY <1>1, <2>4, <2>5, <2>6, <2>8, CommandGoes
<1>4. QED
  BY <1>2, <1>3

LEMMA ReadbackStep ==
  ASSUME IInv, Readback
  PROVE  IInv'
<1>1. job.at = "read" /\ UNCHANGED <<report, workers, owner, held>> /\ job.at \in OwnerPlaces
  BY DEF Readback, OwnerPlaces
<1>2. /\ job \in Jobs /\ link \in Links /\ (link.state = "none" => Quiet) /\ CommandLoad
      /\ job.keys # <<>> /\ job.at \in KeyPlaces /\ Evident(job)
  BY <1>1, CommandHolds
<1>3. CASE /\ link.state = "up" /\ Send(ReadOf(Control, Attr.point))
           /\ job' = [job EXCEPT !.at = "reading"]
  <2> DEFINE r == ReadOf(Control, Attr.point)
  <2>1. Attr.point \in Points
    BY <1>2, KeyInHand
  <2>2. job.turn \in Nat
    BY <1>2, JobFields
  <2>3. Sender(Control) = <<Control, job.turn>> /\ <<Control, job.turn>> \in Senders
    BY <2>2 DEF Sender, Senders
  <2>4. r \in Requests /\ r.by = <<Control, job.turn>>
    BY <2>1, <2>3 DEF ReadOf, Requests
  <2>5. Send(r)
    BY <1>3
  <2> HIDE DEF r
  <2>6. Quiet /\ job.evidence = {<<Control, job.turn>>}
    BY <1>1, <1>2, <1>3 DEF CommandLoad, Evident
  <2>7. QED
    BY <1>1, <1>3, <2>4, <2>5, <2>6, CommandSends
<1>4. CASE link.state # "up" /\ job' = Retry(job) /\ UNCHANGED link
  <2>1. Shrinks
    BY <1>2, <1>4, LinkStays
  <2>2. link'.state # "up"
    BY <1>4
  <2>3. QED
    BY <1>1, <1>4, <2>1, <2>2, RetryStep
<1>5. QED
  BY <1>3, <1>4 DEF Readback

LEMMA ReadbackReturnsStep ==
  ASSUME IInv, ReadbackReturns
  PROVE  IInv'
<1>1. job.at = "reading" /\ UNCHANGED <<report, workers, owner, held>> /\ job.at \in OwnerPlaces
  BY DEF ReadbackReturns, OwnerPlaces
<1>2. job \in Jobs /\ link \in Links /\ (link.state = "none" => Quiet) /\ Evident(job)
  BY <1>1, CommandHolds
<1>3. CASE (link.state # "up" \/ job.expired) /\ job' = Retry(job) /\ UNCHANGED link
  <2>1. Shrinks
    BY <1>2, <1>3, LinkStays
  <2>2. ~ job.expired => link'.state # "up"
    BY <1>3
  <2>3. QED
    BY <1>1, <1>3, <2>1, <2>2, RetryStep
<1>4. CASE Answered /\ Receive
  <2> DEFINE by == Head(link.answers).by
             e == job.evidence \cup {by}
  <2>1. Shrinks /\ Quiet' /\ by = <<Control, job.turn>>
    BY <1>1, <1>4, CommandReceives
  <2>2. e = {<<Control, job.turn>>} /\ e \in SUBSET Senders
    <3>1. job.turn \in Nat /\ job.evidence = {<<Control, job.turn>>}
      BY <1>1, <1>2, JobFields DEF Evident
    <3>2. e = {<<Control, job.turn>>}
      BY <2>1, <3>1
    <3>3. QED
      BY <3>1, <3>2 DEF Senders
  <2>3. \/ job' = Retry(job)
        \/ job' = [job EXCEPT !.at = "resume", !.status = "verified", !.evidence = e]
    BY <1>4 DEF ReadbackReturns
  <2> HIDE DEF by, e
  <2>4. CASE job' = Retry(job)
    BY <1>1, <2>1, <2>4, RetryStep
  <2>5. CASE job' = [job EXCEPT !.at = "resume", !.status = "verified", !.evidence = e]
    <3>1. "resume" \in OwnerPlaces /\ "resume" \in KeyPlaces /\ "verified" \in Statuses
      BY DEF OwnerPlaces, KeyPlaces, Statuses
    <3>2. Moved(job, job', "resume", "verified", e)
      BY <1>2, <2>2, <2>5, <3>1 DEF Jobs, Moved
    <3>3. job'.turn = job.turn
      BY <1>2, <2>5 DEF Jobs
    <3>4. Evident(job')
      BY <2>2, <3>1, <3>2, <3>3, EvidentThere
    <3>5. QED
      BY <1>1, <2>1, <3>1, <3>2, <3>3, <3>4, QuietGoes
  <2>6. QED
    BY <2>3, <2>4, <2>5
<1>5. QED
  BY <1>3, <1>4 DEF ReadbackReturns

LEMMA RetryWaitStep ==
  ASSUME IInv, RetryWait
  PROVE  IInv'
<1>1. /\ job.at = "wait" /\ UNCHANGED <<report, workers, owner, link, held>>
      /\ job.at \in OwnerPlaces /\ "read" \in OwnerPlaces /\ "read" \in KeyPlaces
  BY DEF RetryWait, OwnerPlaces, KeyPlaces
<1>2. /\ job \in Jobs /\ link \in Links /\ (link.state = "none" => Quiet) /\ CommandLoad
      /\ Evident(job)
  BY <1>1, CommandHolds
<1>3. Shrinks
  BY <1>1, <1>2, LinkStays
<1>4. CASE job' = [job EXCEPT !.at = "resume", !.status = "failed"]
  BY <1>1, <1>3, <1>4, SettleFailed
<1>5. CASE job' = [job EXCEPT !.at = "read"]
  <2>1. job.evidence = {<<Control, job.turn>>}
    BY <1>1, <1>2 DEF Evident
  <2>2. Moved(job, job', "read", job.status, job.evidence)
    BY <1>1, <1>2, <1>5 DEF Jobs, Moved
  <2>3. job'.turn = job.turn
    BY <1>2, <1>5 DEF Jobs
  <2>4. Evident(job')
    BY <1>1, <2>1, <2>2, <2>3, EvidentThere
  <2>5. job'.at = "read"
    BY <2>2 DEF Moved
  <2>6. Quiet' \/ link'.state # "up"
    BY <1>1, <1>2 DEF CommandLoad, Quiet
  <2>7. CommandLoad'
    BY <2>5, <2>6 DEF CommandLoad
  <2>8. QED
    BY <1>1, <1>3, <2>2, <2>3, <2>4, <2>7, CommandGoes
<1>6. QED
  BY <1>4, <1>5 DEF RetryWait

LEMMA ResumeGatewayStep ==
  ASSUME IInv, ResumeGateway
  PROVE  IInv'
<1>1. /\ job.at = "resume" /\ job' = [job EXCEPT !.at = "release"]
      /\ UNCHANGED <<report, workers, owner, link, held>>
      /\ job.at \in OwnerPlaces /\ "release" \in OwnerPlaces /\ "release" \in KeyPlaces
  BY DEF ResumeGateway, OwnerPlaces, KeyPlaces
<1>2. /\ job \in Jobs /\ link \in Links /\ (link.state = "none" => Quiet) /\ CommandLoad
      /\ Evident(job)
  BY <1>1, CommandHolds
<1>3. Shrinks
  BY <1>1, <1>2, LinkStays
<1>4. Moved(job, job', "release", job.status, job.evidence)
  BY <1>1, <1>2 DEF Jobs, Moved
<1>5. job'.turn = job.turn
  BY <1>1, <1>2 DEF Jobs
<1>6. /\ job.status \in Statuses
      /\ job.status = "verified" => job.evidence = {<<Control, job.turn>>}
  BY <1>1, <1>2 DEF Evident
<1>7. Evident(job')
  BY <1>1, <1>4, <1>5, <1>6, EvidentThere
<1>8. job'.at = "release" /\ job'.status = job.status
  BY <1>4 DEF Moved
<1>9. job.status = "failed" \/ Quiet'
  BY <1>1, <1>2 DEF CommandLoad, Quiet
<1>10. CommandLoad'
  BY <1>8, <1>9 DEF CommandLoad
<1>11. QED
  BY <1>1, <1>3, <1>4, <1>5, <1>7, <1>10, CommandGoes

LEMMA ReleaseControlStep ==
  ASSUME IInv, ReleaseControl
  PROVE  IInv'
<1>1. /\ job.at = "release" /\ owner' = Nobody
      /\ UNCHANGED <<report, workers, link, held>> /\ job.at \in OwnerPlaces
  BY DEF ReleaseControl, OwnerPlaces
<1>2. /\ job \in Jobs /\ link \in Links /\ (link.state = "none" => Quiet) /\ CommandLoad
      /\ Evident(job) /\ owner = Control /\ job.at \in KeyPlaces /\ job.keys # <<>>
  BY <1>1, CommandHolds
<1>3. ReadTypes'
  BY <1>1 DEF IInv, ReadTypes, workers
<1>4. \A w \in Workers : at'[w] \notin ReadPlaces
  BY <1>1, <1>2, Facts DEF IInv, OwnerInv, workers
<1>5. ASSUME JobInv', job'.at \in {"reset", "key"}
      PROVE  Rest /\ link' \in Links
  <2>1. job'.at \notin OwnerPlaces
    BY <1>5 DEF OwnerPlaces
  <2>2. OwnerInv'
    BY <1>1, <1>4, <2>1, Facts DEF OwnerInv
  <2>3. QED
    BY <1>1, <1>2, <1>3, <1>5, <2>2, ReportStays DEF Rest, IInv, LinkTypes
<1>6. CASE MustReset
  <2>1. job' = [job EXCEPT !.at = "reset"] /\ job.status = "failed"
    BY <1>6 DEF ReleaseControl, MustReset
  <2>2. Moved(job, job', "reset", job.status, job.evidence)
    BY <1>2, <2>1, Places DEF Jobs, Moved
  <2>3. job'.at = "reset" /\ job'.status = "failed"
    BY <2>1, <2>2 DEF Moved
  <2>4. Evident(job')
    BY <2>3 DEF Evident, Statuses
  <2>5. JobInv'
    BY <1>2, <2>2, <2>4, Places, JobMoves
  <2>6. link'.state = "none" => Quiet'
    BY <1>1, <1>2 DEF Quiet
  <2>7. QED
    BY <1>5, <2>3, <2>5, <2>6, Quiets
<1>7. CASE ~ MustReset
  <2>1. KeyDone(job.status) /\ job.status # "failed"
    BY <1>7 DEF ReleaseControl, MustReset
  <2>2. /\ job.status \in Statuses
        /\ job.status = "verified" => job.evidence = {<<Control, job.turn>>}
    BY <1>1, <1>2 DEF Evident
  <2>3. JobInv' /\ job'.at = "key"
    BY <1>2, <2>1, <2>2, KeyDoneJob
  <2>4. Quiet'
    BY <1>1, <1>2, <2>1 DEF CommandLoad, Quiet
  <2>5. QED
    BY <1>5, <2>3, <2>4, Quiets
<1>8. QED
  BY <1>6, <1>7

LEMMA ResetAfterReleaseStep ==
  ASSUME IInv, ResetAfterRelease
  PROVE  IInv'
<1>1. /\ job.at = "reset" /\ ResetConnection /\ KeyDone(job.status)
      /\ UNCHANGED <<report, workers, owner, held>>
      /\ job.at \in KeyPlaces /\ job.at \notin OwnerPlaces
  BY Places DEF ResetAfterRelease
<1>2. job \in Jobs /\ job.keys # <<>> /\ Evident(job)
  BY <1>1, KeyInHand
<1>3. job.status \in Statuses /\ job.status # "verified"
  BY <1>1, <1>2 DEF Evident
<1>4. JobInv' /\ job'.at = "key"
  BY <1>1, <1>2, <1>3, KeyDoneJob
<1>5. Quiet' /\ link' \in Links
  BY <1>1, ResetEffect DEF IInv, LinkTypes, Shrinks
<1>6. ReadTypes'
  BY <1>1 DEF IInv, ReadTypes, workers
<1>7. OwnerInv'
  BY <1>1, <1>4, Places, OwnerStays DEF IInv, workers
<1>8. Rest
  BY <1>1, <1>4, <1>6, <1>7, ReportStays DEF Rest, IInv, LinkTypes
<1>9. QED
  BY <1>5, <1>8, Quiets

\* The report of a command whose results are all there.
LEMMA FinishReport ==
  ASSUME IInv, job.at = "item", job.items = <<>>, NEW end,
         report' = [end |-> end, command |-> job.command, results |-> job.results]
  PROVE  HonestReport'
<1> DEFINE rs == job.results
<1>1. job \in Jobs /\ Labelled(job) /\ AllGrounded(rs) /\ rs \in Seq(Results)
  BY JobFields DEF IInv, JobInv
<1>2. LabelsOf(rs) = Expected(job.command)
  BY <1>1, CommandDone
<1>3. report'.results = rs /\ report'.command = job.command
  OBVIOUS
<1> HIDE DEF rs
<1>4. Overall(rs) = "verified" => \A i \in DOMAIN rs : rs[i].status = "verified"
  BY <1>1, OverallVerified
<1>5. \A i \in DOMAIN rs :
        rs[i].status = "verified" /\ Protocol[rs[i].device] = "modbus" => OwnEvidence(rs[i])
  BY <1>1 DEF AllGrounded, Grounded
<1>6. [i \in DOMAIN rs |-> [device |-> rs[i].device, key |-> rs[i].key]] = Expected(job.command)
  BY <1>2 DEF LabelsOf
<1>7. QED
  BY <1>3, <1>4, <1>5, <1>6 DEF HonestReport

LEMMA FinishStep ==
  ASSUME IInv, Finish
  PROVE  IInv'
<1>1. /\ job.at = "item" /\ job.items = <<>> /\ job' = [NoJob EXCEPT !.turn = job.turn]
      /\ UNCHANGED <<workers, owner, link, held>>
  BY DEF Finish
<1>2. \E end : report' = [end |-> end, command |-> job.command, results |-> job.results]
  BY DEF Finish
<1>3. HonestReport'
  BY <1>1, <1>2, FinishReport
<1>4. JobInv' /\ job'.at = "idle"
  BY <1>1, JobEnds DEF IInv, JobInv
<1>5. QED
  BY <1>1, <1>3, <1>4, FreeStep

LEMMA CommandStepIInv ==
  ASSUME IInv, CommandStep
  PROVE  IInv'
BY TakeItemStep, TakeKeyStep, AcquireControlStep, AcquireFailsStep, PauseGatewayStep,
   WriteFrameStep, WaitCommandAckStep, ReadbackStep, ReadbackReturnsStep, RetryWaitStep,
   ResumeGatewayStep, ReleaseControlStep, ResetAfterReleaseStep, FinishStep DEF CommandStep

-----------------------------------------------------------------------------
(* The specification. *)

LEMMA AsideStep ==
  ASSUME IInv, UNCHANGED <<job, report, at, next, owner, link, held>>
  PROVE  IInv'
<1>1. Shrinks
  BY LinkStays DEF IInv, LinkTypes, LoadInv
<1>2. held' \in [Points -> Values]
  BY DEF IInv, LinkTypes
<1>3. QED
  BY <1>1, <1>2, OutsideStep

LEMMA InitIInv ==
  ASSUME Init
  PROVE  IInv
<1>1. /\ job = NoJob /\ report = NoReport /\ link = NoLink /\ owner = Nobody
      /\ at = [w \in Workers |-> "idle"] /\ next = [w \in Workers |-> 1]
      /\ held \in [Points -> Values]
  BY DEF Init
<1>2. job.at = "idle" /\ job.results = <<>> /\ report.end = "none"
  BY <1>1 DEF NoJob, NoReport
<1>3. JobInv
  <2>1. 0 \in Nat
    OBVIOUS
  <2>2. job \in Jobs
    BY <1>1, <2>1, IdleJob DEF NoJob
  <2>3. Evident(job) /\ Labelled(job)
    BY <1>2 DEF Evident, Labelled
  <2>4. AllGrounded(job.results)
    BY <1>2 DEF AllGrounded
  <2>5. QED
    BY <2>2, <2>3, <2>4 DEF JobInv
<1>4. ReadTypes
  BY <1>1, FirstRead DEF ReadTypes, WorkerPlaces
<1>5. OwnerInv
  BY <1>1, <1>2, Facts DEF OwnerInv, OwnerPlaces, ReadPlaces
<1>6. LinkTypes /\ Quiet
  BY <1>1, NoLinkFacts DEF LinkTypes, Quiet
<1>7. LoadInv
  BY <1>6, QuietTraffic DEF LoadInv, CommandLoad, ReadLoad, LinkTypes
<1>8. CleanHandover
  BY <1>6, QuietTraffic DEF CleanHandover, LinkTypes
<1>9. HonestReport
  BY <1>2 DEF HonestReport
<1>10. QED
  BY <1>3, <1>4, <1>5, <1>6, <1>7, <1>8, <1>9 DEF IInv

LEMMA NextIInv ==
  ASSUME IInv, [Next]_vars
  PROVE  IInv'
<1>1. CASE Boot
  BY <1>1, AsideStep DEF Boot, workers
<1>2. CASE Start
  BY <1>2, StartStep
<1>3. CASE CommandStep
  BY <1>3, CommandStepIInv
<1>4. CASE Expire \/ PublishReturns
  BY <1>4, ExpireStep, PublishReturnsStep
<1>5. ASSUME NEW w \in Workers, WorkerStep(w) \/ Stop(w)
      PROVE  IInv'
  <2>1. CASE WorkerStep(w)
    BY <2>1, WorkerStepIInv
  <2>2. CASE Stop(w)
    BY <2>2, AsideStep DEF Stop
  <2>3. QED
    BY <1>5, <2>1, <2>2
<1>6. CASE Serve \/ Drift \/ ConnectionLost
  BY <1>6, WeatherStep
<1>7. CASE UNCHANGED vars
  BY <1>7, AsideStep DEF vars, workers
<1>8. QED
  BY <1>1, <1>2, <1>3, <1>4, <1>5, <1>6, <1>7 DEF Next

\* The inductive invariant holds of every state of the specification.
THEOREM Invariance == Spec => []IInv
BY InitIInv, NextIInv, PTL DEF Spec

\* Every published report lists the attributes of its command once and in order, calls the
\* command a success only if each of them was verified, and rests a Modbus attribute's
\* verification on what the gateway answered to this very write (control.go:49-98).
THEOREM HonestReportHolds == Spec => []HonestReport
<1>1. IInv => HonestReport
  BY DEF IInv
<1>2. QED
  BY <1>1, Invariance, PTL

\* Whoever holds the gateway finds on its connection only what it sent itself and the
\* answers to it, but for the time between a failed command's release and its reset
\* (control.go:316-318, modbus.go:63-71).
THEOREM CleanHandoverHolds == Spec => []CleanHandover
<1>1. IInv => CleanHandover
  BY DEF IInv
<1>2. QED
  BY <1>1, Invariance, PTL
=============================================================================
