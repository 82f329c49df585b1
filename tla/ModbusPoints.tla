---------------------------- MODULE ModbusPoints ----------------------------
(***************************************************************************)
(* How the points of a Modbus device become batches, bytes and values: the *)
(* planner that merges neighbouring points into one request, the decoding  *)
(* of a batch, the encoding of a command and the reading that verifies it. *)
(*                                                                         *)
(* Source: src/internal/collector/batch.go, collector/modbus.go,           *)
(* protocol/modbusRtu/encodeCommand.go and control/verification.go.        *)
(* Numbers have the code's width; what a register holds is two opaque      *)
(* bytes, what a coil holds is opaque, and a value is the bytes it is made *)
(* of, most significant first.  The value of a command is a JSON number    *)
(* its type can hold, of a coil 0, 1, false or true: what other spellings  *)
(* are rounded to is left out.  So is a point or a command too narrow for  *)
(* its type: with an explicit type the configuration refuses it, with an   *)
(* inherited one decoding it panics.                                       *)
(***************************************************************************)
EXTENDS Integers, SequencesExt

CONSTANTS
  Devices,    \* sets of points [fc, address, quantity, bit, type, explicit, endian, disabled]
  Commands    \* commands [fc, address, type, explicit, endian, coils]

Discrete == {1, 2}
Readable == {1, 2, 3, 4}
Narrow == {"short", "int16", "ushort", "uint16"}
Double == {"int32", "uint32", "float", "float32"}
Quad == {"double", "float64", "int64", "uint64"}

Word(n) == n % 65536

\* quantityForParam
Quantity(p) ==
  IF p.quantity > 0 THEN Word(p.quantity)
  ELSE IF ~ p.explicit /\ p.type \in {"float32", "float64"} THEN 1
  ELSE IF p.type \in Double THEN 2 ELSE IF p.type \in Quad THEN 4 ELSE 1

\* Decoded from four bytes, whether or not the point has as many.
FourBytes(p) == p.type \in Double /\ (p.explicit \/ p.type # "float32")

ASSUME PointAssumption ==
  /\ \A p \in UNION Devices :
       /\ p.address \in Nat /\ p.quantity \in Int /\ p.bit \in Int
       /\ (p.fc \in Readable \ Discrete /\ FourBytes(p)) => Quantity(p) # 1
  /\ \A c \in Commands :
       /\ c.address \in Nat /\ c.address < 65536
       /\ c.fc \in {5, 15} => c.type = "bool"   \* an explicit type can be no other
       /\ c.fc = 5 => c.coils = 1

VARIABLES
  phase,      \* "plan", "collect", "done", "written" or "refused"
  device,     \* the configured points
  unplanned,  \* those no batch has yet
  builder,    \* the batch being built: [fc, points, start, end]
  batches,
  turn,       \* the batch to be collected next
  recorded,   \* what collecting has recorded of each point
  command,    \* the command written last
  memory      \* registers and coils a command has written

pointsVars == <<phase, device, unplanned, builder, batches, turn, recorded, command, memory>>

NoValue == << >>
NoBatch == [fc |-> 0, points |-> <<>>, start |-> 0, end |-> 0]
NoCommand == [fc |-> 0]

Enabled(points) == {p \in points : ~ p.disabled /\ p.fc \in Readable}

PointsInit ==
  /\ phase = "plan"
  /\ device \in Devices
  /\ unplanned = Enabled(device)
  /\ builder = NoBatch
  /\ batches = <<>>
  /\ turn = 1
  /\ recorded = [p \in device |-> NoValue]
  /\ command = NoCommand
  /\ memory = << >>

-----------------------------------------------------------------------------
(* The planner. *)

Start(p) == p.address

\* paramSpan
End(p) ==
  p.address - 1 +
    (IF p.fc \in Discrete THEN IF p.quantity <= 0 THEN 1 ELSE p.quantity
     ELSE IF Quantity(p) = 0 THEN 1 ELSE Quantity(p))

MaxQuantity(fc) == IF fc \in Discrete THEN 32 ELSE 24
GapLimit(fc) == IF fc \in Discrete THEN 0 ELSE 2

\* A limit of zero checks no gap.
GapFits(b, p) == GapLimit(b.fc) > 0 => Start(p) - b.end - 1 <= GapLimit(b.fc)

CanAdd(b, p) ==
  \/ b.points = <<>>
  \/ /\ Start(p) >= b.start
     /\ GapFits(b, p)
     /\ Word(Max({b.end, End(p)}) - b.start + 1) <= MaxQuantity(b.fc)

Begun(p) == [fc |-> p.fc, points |-> <<p>>, start |-> Start(p), end |-> End(p)]

\* Mutant: the last point decides where the batch ends.
EndsWithLast(b, p) ==
  IF b.points = <<>> THEN Begun(p) ELSE [b EXCEPT !.points = Append(@, p), !.end = End(p)]

Add(b, p) ==
  IF b.points = <<>> THEN Begun(p)
  ELSE [b EXCEPT !.points = Append(@, p), !.end = Max({@, End(p)})]

Build(b) ==
  [fc |-> b.fc, start |-> Word(b.start), quantity |-> Word(b.end - b.start + 1),
   points |-> b.points]

Group == {p \in unplanned : p.fc = builder.fc}

\* The points of one function code by address, those of one address in any order.
PlanPoint ==
  /\ phase = "plan"
  /\ \E p \in Group :
       /\ \A q \in Group : p.address <= q.address
       /\ unplanned' = unplanned \ {p}
       /\ IF CanAdd(builder, p)
            THEN builder' = Add(builder, p) /\ UNCHANGED batches
            ELSE builder' = Add(NoBatch, p) /\ batches' = Append(batches, Build(builder))
  /\ UNCHANGED <<phase, device, turn, recorded, command, memory>>

\* The function codes follow in any order.
NextGroup ==
  /\ phase = "plan"
  /\ Group = {}
  /\ batches' = IF builder.points = <<>> THEN batches ELSE Append(batches, Build(builder))
  /\ \/ \E fc \in {p.fc : p \in unplanned} :
          builder' = [NoBatch EXCEPT !.fc = fc] /\ UNCHANGED phase
     \/ unplanned = {} /\ builder' = NoBatch /\ phase' = "collect"
  /\ UNCHANGED <<device, unplanned, turn, recorded, command, memory>>

-----------------------------------------------------------------------------
(* The device; external.  It refuses what the protocol does not allow. *)

Register(a) == IF <<"register", a>> \in DOMAIN memory THEN memory[<<"register", a>>]
               ELSE <<<<"high", a>>, <<"low", a>>>>

Coil(a) == IF <<"coil", a>> \in DOMAIN memory THEN memory[<<"coil", a>>] ELSE <<"coil", a>>

Serves(fc, start, quantity) ==
  /\ quantity > 0                    \* buildReadFrame sends no other
  /\ quantity <= IF fc \in Discrete THEN 2000 ELSE 125
  /\ start + quantity <= 65536

Bits(start, quantity) == [i \in 1 .. 8 * ((quantity + 7) \div 8) |->
  IF i <= quantity THEN Coil(start + i - 1) ELSE <<"unused", 0>>]

Bytes(start, quantity) ==
  FlattenSeq([i \in 1 .. quantity |-> Register(start + i - 1)])

-----------------------------------------------------------------------------
(* Byte orders, decoding and encoding. *)

Permuted(data, order) == [i \in DOMAIN data |-> data[order[i]]]

ApplyEndian(data, endian) ==
  CASE Len(data) = 2 /\ endian \in {"BA", "DCBA"} -> Reverse(data)
    [] Len(data) \in {4, 8} /\ endian = "DCBA" -> Reverse(data)
    [] Len(data) = 4 /\ endian = "BADC" -> Permuted(data, <<2, 1, 4, 3>>)
    [] Len(data) = 4 /\ endian = "CDAB" -> Permuted(data, <<3, 4, 1, 2>>)
    [] Len(data) = 8 /\ endian = "BADC" -> Permuted(data, <<2, 1, 4, 3, 6, 5, 8, 7>>)
    [] Len(data) = 8 /\ endian = "CDAB" -> Permuted(data, <<5, 6, 7, 8, 1, 2, 3, 4>>)
    [] OTHER -> data

\* padBytes
Padded(data) == [i \in 1 .. 8 |->
  IF Len(data) >= 8 THEN data[i]
  ELSE IF i <= 8 - Len(data) THEN <<"zero", 0>> ELSE data[i - 8 + Len(data)]]

\* decodeRegisterValue
DecodeRegister(p, data) ==
  LET bytes == ApplyEndian(data, p.endian)
  IN  CASE ~ p.explicit /\ p.type \in {"float32", "float64"} -> SubSeq(bytes, 1, 2)
        [] FourBytes(p) -> SubSeq(bytes, 1, 4)
        [] p.type \in Quad -> Padded(bytes)
        [] OTHER -> SubSeq(bytes, 1, 2)

\* decodeRegisterBatch and decodeDiscreteBatch, of one point; Bit plays no part.
FromBatch(b, p) ==
  LET offset == p.address - b.start
      bits == Bits(b.start, b.quantity)
      bytes == Bytes(b.start, b.quantity)
  IN  IF p.fc \in Discrete
        THEN IF offset < Len(bits) THEN bits[offset + 1] ELSE NoValue
        ELSE IF Quantity(p) > 0 /\ 2 * (offset + Quantity(p)) <= Len(bytes)
          THEN DecodeRegister(p, SubSeq(bytes, 2 * offset + 1, 2 * (offset + Quantity(p))))
          ELSE NoValue

\* ReadParamValueWithConn: one point by itself, as a command reads it back.
ReadParam(p) ==
  LET start == Word(p.address)
      bit == IF p.bit < 0 THEN 0 ELSE p.bit
      bits == Bits(start, Quantity(p))
  IN  IF ~ Serves(p.fc, start, Quantity(p)) THEN NoValue
      ELSE IF p.fc \in Discrete THEN IF bit < Len(bits) THEN bits[bit + 1] ELSE NoValue
      ELSE DecodeRegister(p, Bytes(start, Quantity(p)))

\* collectModbusBatch of a device that answers: an error loses the whole batch.
CollectBatch ==
  /\ phase = "collect"
  /\ IF turn > Len(batches)
       THEN phase' = "done" /\ UNCHANGED <<turn, recorded>>
       ELSE LET b == batches[turn]
            IN  /\ turn' = turn + 1
                /\ recorded' =
                     IF Serves(b.fc, b.start, b.quantity)
                       THEN [p \in device |-> IF p \in ToSet(b.points) THEN FromBatch(b, p)
                                              ELSE recorded[p]]
                       ELSE recorded
                /\ UNCHANGED phase
  /\ UNCHANGED <<device, unplanned, builder, batches, command, memory>>

-----------------------------------------------------------------------------
(* Commands. *)

\* The value of a command: the bytes of its type, or the coils it sets.
Target(c) ==
  [i \in 1 .. (IF c.fc \in {5, 15} THEN c.coils
               ELSE IF c.type \in Narrow THEN 2 ELSE IF c.type \in Double THEN 4 ELSE 8) |->
     <<"new", i>>]

\* Mutant: the byte order is given to no write of more than a register.
OrdersNarrow(c) == IF c.type \in Narrow THEN ApplyEndian(Target(c), c.endian) ELSE Target(c)

\* encodeRegisterValue and its legacy form, of a value within the range of its type.
EncodeRegisters(c) == ApplyEndian(Target(c), c.endian)

\* What EncodeCommand accepts; an inherited type has only the older names of floats.
CanEncode(c) ==
  \/ c.fc = 5
  \/ c.fc = 15 /\ c.coils > 0
  \/ c.fc = 6 /\ c.type \in Narrow
  \/ /\ c.fc = 16 /\ c.type \in Narrow \cup Double \cup Quad
     /\ c.explicit \/ c.type \notin {"float32", "float64"}

\* The device after the frame.
Written(c) ==
  IF c.fc \in {5, 15}
    THEN [k \in {<<"coil", c.address + i - 1>> : i \in 1 .. c.coils} |->
            Target(c)[k[2] - c.address + 1]]
    ELSE LET bytes == EncodeRegisters(c)
         IN  [k \in {<<"register", c.address + i - 1>> : i \in 1 .. Len(bytes) \div 2} |->
                SubSeq(bytes, 2 * (k[2] - c.address) + 1, 2 * (k[2] - c.address) + 2)]

WriteCommand ==
  /\ phase = "done"
  /\ \E c \in Commands :
       /\ command' = c
       /\ IF CanEncode(c) THEN memory' = Written(c) /\ phase' = "written"
          ELSE phase' = "refused" /\ UNCHANGED memory
  /\ UNCHANGED <<device, unplanned, builder, batches, turn, recorded>>

PointsNext == PlanPoint \/ NextGroup \/ CollectBatch \/ WriteCommand

PointsSpec == PointsInit /\ [][PointsNext]_pointsVars

-----------------------------------------------------------------------------
(* The comparison that verifies a command, by a point of the same type. *)

\* isLegacyNumericDataType
OlderNumber ==
  {"byte", "short", "ushort", "int", "uint", "long", "ulong", "enum", "float", "double", "number"}

\* Whether controlValuesEqualWithExplicit can find equal values equal.  The target is what the
\* command's JSON had: a list is no coil's value, and two inherited types whose names are not
\* among the older ones are compared by reflect.DeepEqual, a json.Number with a number.
Comparable(c) == c.fc # 15 /\ (c.explicit \/ c.type \in OlderNumber \cup {"bool"})

\* The value that is read back is the command's.
ReadsBack(p, c) == Target(c) = IF p.fc \in Discrete THEN <<ReadParam(p)>> ELSE ReadParam(p)

Verifies(p, c) == Comparable(c) /\ ReadsBack(p, c)

-----------------------------------------------------------------------------
(* Properties. *)

\* What a point should be recorded as: its own registers, or its own coil.
Own(p) == IF p.fc \in Discrete THEN Coil(p.address)
          ELSE DecodeRegister(p, Bytes(p.address, Quantity(p)))

\* A point that the device would refuse by itself.
Unreadable(p) == ~ Serves(p.fc, Start(p), End(p) - Start(p) + 1)

(* Merging points into batches and cutting the answer up again is invisible: *)
(* whatever is recorded for a point is what its own address holds, decoded   *)
(* as its type, and a point goes without a value only in the company of one  *)
(* the device refuses by itself, or in a batch that spans the whole address  *)
(* space, whose quantity comes round to zero.  A point's bit is not looked   *)
(* at.                                                                       *)
BatchingIsInvisible ==
  phase = "done" => \A p \in Enabled(device) :
    \/ recorded[p] = Own(p)
    \/ /\ recorded[p] = NoValue
       /\ \E i \in DOMAIN batches :
            /\ p \in ToSet(batches[i].points)
            /\ \/ \E q \in ToSet(batches[i].points) : Unreadable(q)
               \/ batches[i].quantity = 0

\* Whether the devices are of those BatchingIsInvisible speaks of: a register point has
\* registers, and no discrete one reaches beyond the address space.  The configuration
\* checks neither (runtime.go:355-383).  A quantity of 65536 registers is one of none, for
\* which nothing is ever recorded; and coils 0 and 65536 share a batch whose quantity comes
\* round to one, from which a coil 3 between them is recorded as the padding of the answer.
PointsFit ==
  \A points \in Devices : \A p \in Enabled(points) :
    IF p.fc \in Discrete THEN End(p) <= 65535 ELSE Quantity(p) > 0

\* The point that a command is verified by, configured as the command is, and served.
Mirrors(p, c) ==
  /\ Serves(p.fc, p.address, Quantity(p))
  /\ p.address = c.address /\ p.endian = c.endian /\ p.bit <= 0 /\ p.quantity <= 0
  /\ p.type = c.type /\ p.explicit = c.explicit
  /\ (p.fc \in Discrete) = (c.fc \in {5, 15})

(* A command's value is read back as it was written by a point of the same   *)
(* address, type and byte order, through an encoder and a decoder that are   *)
(* written apart (encodeCommand.go:115-318, modbus.go:371-413).  That        *)
(* verifies it exactly where the comparison can succeed: a list of coils,    *)
(* be it of a single one, and a value whose type is inherited and has one of *)
(* the newer names are reported as failed although the device obeyed         *)
(* (verification.go:102-103 and :196-197, control.go:312).                   *)
WritesReadBack ==
  phase = "written" =>
    \A p \in device : Mirrors(p, command) =>
      /\ command.fc # 15 => ReadsBack(p, command)
      /\ Verifies(p, command) <=> Comparable(command)

=============================================================================
