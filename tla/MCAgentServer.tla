---------------------------- MODULE MCAgentServer ---------------------------
(* Instances of AgentServer for TLC. *)
EXTENDS AgentServerCorrectness

OneEnv == {<<1>>}
TwoEnvs == {<<1, 2>>, <<2>>}

ConnSymmetry == Permutations(Conns)
=============================================================================
