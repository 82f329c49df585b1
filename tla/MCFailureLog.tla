---------------------------- MODULE MCFailureLog ----------------------------
(* FailureLog with one full queue and one Redis failure reason. *)
EXTENDS FailureLog

CONSTANTS enqueue, publish, queueFull, timeout

MCStageOf == [r \in {queueFull, timeout} |-> IF r = queueFull THEN enqueue ELSE publish]
=============================================================================
