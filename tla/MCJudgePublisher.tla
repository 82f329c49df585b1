-------------------------- MODULE MCJudgePublisher --------------------------
(* JudgePublisher with a small and a two-byte event. *)
EXTENDS JudgePublisher

CONSTANTS small, big

MCPayloads == {small, big}
MCBytes == [p \in MCPayloads |-> IF p = small THEN 1 ELSE 2]
=============================================================================
