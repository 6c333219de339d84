-------------------------- MODULE MCRolloutBuffer --------------------------
(* Instances of RolloutBuffer for TLC. *)
EXTENDS RolloutBuffer, TLC

EnvSymmetry == Permutations(Envs)
=============================================================================
