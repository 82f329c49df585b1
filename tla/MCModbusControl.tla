--------------------------- MODULE MCModbusControl ---------------------------
(* One worker beside up to two commands; the point p is polled, written and read back. *)
EXTENDS ModbusControl

CONSTANTS w1, p, v1, v2, unnamed, stranger, modbus, opcua, mqtt

MCReads == w1 :> <<p, p>>

MCProtocol == (modbus :> "modbus") @@ (opcua :> "opcua") @@ (mqtt :> "mqtt")

Writing(target) ==
  [mapped |-> TRUE, encodes |-> TRUE, readable |-> TRUE, point |-> p, target |-> target]

MCAttribute ==
  ("set1" :> Writing(v1)) @@ ("set2" :> Writing(v2))
  @@ ("blind" :> [Writing(v1) EXCEPT !.readable = FALSE])
  @@ ("foreign" :> [Writing(v1) EXCEPT !.mapped = FALSE])

To(device, keys) == [device |-> device, keys |-> keys]

MCCommands ==
  { << To(modbus, <<"set1", "set2">>) >>,
    << To(unnamed, <<"set1">>), To(stranger, <<"set1">>), To(opcua, <<"set1", "foreign">>) >>,
    << To(mqtt, <<"set1">>), To(modbus, <<"blind">>) >>,
    << To(unnamed, <<"set1">>) >>, << To(modbus, <<"foreign">>) >> }
=============================================================================
