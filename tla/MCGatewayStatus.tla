---- MODULE MCGatewayStatus ----
(* A small instance of GatewayStatus: two endpoints, and two device IDs, one   *)
(* of which a refresh moves to the other endpoint.                               *)
EXTENDS GatewayStatus
CONSTANTS k1, k2, i1, i2

Behind(a, b) == [k \in Keys |-> IF k = k1 THEN a ELSE b]

MCConfigs == <<Behind({i1, i2}, {}), Behind({i1}, {i2})>>

====
