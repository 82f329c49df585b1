--------------------------- MODULE MCConfigReload ---------------------------
(* A device whose ID moves to another serial number while that one goes away, and a     *)
(* device that changes its protocol beside a new one.                                    *)
EXTENDS ConfigReload

Dev(id, protocol, points) == [id |-> id, protocol |-> protocol, points |-> points]

A == Dev("i1", "modbus", {"x"})
B == Dev("i2", "modbus", {"x"})

MCHistories ==
  { << [s1 |-> A, s2 |-> B], [s1 |-> B, s2 |-> NoDevice] >>,
    << [s1 |-> A, s2 |-> NoDevice], [s1 |-> Dev("i1", "mqtt", {"y"}), s2 |-> B] >> }

ASSUME IdsMoveAway
=============================================================================
