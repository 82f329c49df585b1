--------------------------- MODULE MCModbusPoints ---------------------------
(* Devices of up to three points, at and around the limits of a batch and   *)
(* both ends of the address space, and commands of every layout.            *)
EXTENDS ModbusPoints

Point(fc, address, quantity, type) ==
  [fc |-> fc, address |-> address, quantity |-> quantity, bit |-> 0, type |-> type,
   explicit |-> TRUE, endian |-> "ABCD", disabled |-> FALSE]

Coils ==
  {Point(1, a, 0, "bool") : a \in {0, 3, 31, 32, 65535}}
    \cup {Point(1, 0, 33, "bool"), Point(2, 3, 9, "bool"), [Point(1, 3, 0, "bool") EXCEPT !.bit = 2]}

Registers ==
  {Point(3, 0, 0, "int32"), Point(3, 0, 0, "uint16"), Point(3, 2, 0, "float32"),
   Point(3, 4, 0, "int64"), [Point(3, 5, 1, "double") EXCEPT !.explicit = FALSE], Point(3, 7, 20, "int16"),
   Point(3, 24, 0, "bool"), Point(3, 23, 0, "uint16"), Point(3, 3, 126, "uint16"),
   Point(3, 65533, 0, "int16"), Point(3, 65535, 0, "uint32"), Point(3, 65538, 0, "int16"),
   [Point(3, 1, 0, "float32") EXCEPT !.explicit = FALSE],
   [Point(4, 2, 0, "uint32") EXCEPT !.endian = "CDAB"],
   [Point(3, 6, 0, "uint16") EXCEPT !.disabled = TRUE],
   Point(6, 2, 0, "uint16")}

Layouts == {<<"int16", "BA">>, <<"short", "DCBA">>, <<"int16", "CDAB">>, <<"uint32", "DCBA">>,
            <<"int32", "CDAB">>, <<"int32", "BADC">>, <<"float32", "CDAB">>, <<"float", "ABCD">>,
            <<"double", "BADC">>, <<"int64", "CDAB">>, <<"uint64", "ABCD">>, <<"float64", "DCBA">>}

\* The points that mirror the commands; the configuration gives explicit types their newer name.
MirroredRegister ==
  {p \in {[Point(3, 100, 0, l[1]) EXCEPT !.endian = l[2], !.explicit = e] :
            l \in Layouts, e \in BOOLEAN} : p.explicit => p.type \notin OlderNumber}

InheritedCoil == [Point(1, 3, 0, "bool") EXCEPT !.explicit = FALSE]

MCDevices ==
  {{p} : p \in MirroredRegister \cup {InheritedCoil}}
    \cup UNION {kSubset(k, Coils) \cup kSubset(k, Registers) : k \in 1 .. 3}
    \cup {{c, r} : c \in Coils, r \in Registers}

MCCommands ==
  {[fc |-> fc, address |-> 100, type |-> p.type, explicit |-> p.explicit, endian |-> p.endian,
    coils |-> 0] : fc \in {6, 16}, p \in MirroredRegister}
  \cup {[fc |-> fc, address |-> a, type |-> "bool", explicit |-> e, endian |-> "ABCD", coils |-> 1] :
          fc \in {5, 15}, a \in {3, 31}, e \in BOOLEAN}

ASSUME PointsFit

=============================================================================
