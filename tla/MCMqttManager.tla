---- MODULE MCMqttManager ----
(* A small instance of MqttManager: two devices with different QoS.  A reload    *)
(* changes the options under a publish, swaps the topics of the devices, removes *)
(* one and adds the other and makes the session persistent, or removes the only  *)
(* device while the manager may be closed.                                       *)
EXTENDS MqttManager
CONSTANTS w1, w2, a, b

MCQos == [w \in Workers |-> IF w = w1 THEN 1 ELSE 2]

Config(user, clean, t1, t2) ==
  [opts |-> [user |-> user, clean |-> clean],
   topic |-> [w \in Workers |-> IF w = w1 THEN t1 ELSE t2]]

Plan(before, after, publishes, closes) ==
  [config |-> <<before, after>>, publishes |-> publishes, troubles |-> 1, closes |-> closes]

MCPlans ==
  {Plan(Config("x", FALSE, a, a), Config("y", FALSE, a, a), 1, FALSE),
   Plan(Config("x", FALSE, a, b), Config("x", FALSE, b, a), 0, FALSE),
   Plan(Config("x", TRUE, a, NoTopic), Config("x", FALSE, NoTopic, a), 1, FALSE),
   Plan(Config("x", FALSE, a, NoTopic), Config("x", FALSE, NoTopic, NoTopic), 1, TRUE)}

====
