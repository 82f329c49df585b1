---- MODULE MCGatewayPool ----
(* A small instance of GatewayPool: a collector and a control command share a   *)
(* pure gateway, until a refresh moves both devices to an endpoint that is not  *)
(* one, and removes the gateway.                                                *)
EXTENDS GatewayPool
CONSTANTS k1, k2

Shared == [endpoint |-> [u \in Users |-> k1], targets |-> {k1}]

Moved == [endpoint |-> [u \in Users |-> k2], targets |-> {}]

MCConfigs == {Shared, Moved}

====
