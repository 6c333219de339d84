------------------------------- MODULE MCSweep ------------------------------
(* Instances of Sweep for TLC: one combination with two seeds. *)
EXTENDS Sweep

TwoSeeds == [i \in 1 .. 2 |-> [combo |-> "dummy", seed |-> i]]
=============================================================================
