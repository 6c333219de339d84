------------------------- MODULE CheckpointRegister -------------------------
(***************************************************************************)
(* What the checkpoints of a run promise.  A save is first made ready      *)
(* beside the checkpoints and then put under its step's name, at once and  *)
(* only at the newest step.  A checkpoint of that step goes before: until  *)
(* the new one is in its place it may stand there broken or not at all.    *)
(* No other checkpoint is ever touched.  A run resumes from the newest.    *)
(***************************************************************************)
EXTENDS Naturals

CONSTANTS Steps, MaxSaves
VARIABLES
  stored,   \* what stands under each step's name: the save, 0 if it is broken
  waiting,  \* the whole save, if any, that is ready to go there
  loaded    \* what the run resumed from

vars == <<stored, waiting, loaded>>

Nothing == [there |-> FALSE, save |-> 0]
Broken == [there |-> TRUE, save |-> 0]

Init ==
  /\ stored = [s \in Steps |-> Nothing]
  /\ waiting = [s \in Steps |-> 0]
  /\ loaded = Nothing

NoneAfter(s) == \A t \in Steps : stored[t].there => t <= s

(* A save of number c is whole; it is newer than all checkpoints. *)
Prepare(s, c) ==
  /\ NoneAfter(s)
  /\ \A t \in Steps : stored[t].save < c
  /\ waiting' = [waiting EXCEPT ![s] = c]
  /\ UNCHANGED <<stored, loaded>>

(* It is given up for a save of the same step that begins. *)
Discard(s) ==
  /\ waiting' = [waiting EXCEPT ![s] = 0]
  /\ UNCHANGED <<stored, loaded>>

(* The newest checkpoint makes room for the save that is ready. *)
Break(s) ==
  /\ stored[s].there /\ NoneAfter(s)
  /\ stored[s].save < waiting[s]
  /\ \E slot \in {Broken, Nothing} : stored' = [stored EXCEPT ![s] = slot]
  /\ UNCHANGED <<waiting, loaded>>

Complete(s) ==
  /\ ~stored[s].there /\ NoneAfter(s)
  /\ \A t \in Steps : stored[t].save < waiting[s]
  /\ stored' = [stored EXCEPT ![s] = [there |-> TRUE, save |-> waiting[s]]]
  /\ waiting' = [waiting EXCEPT ![s] = 0]
  /\ UNCHANGED loaded

Resume(s) ==
  /\ stored[s].there /\ NoneAfter(s)
  /\ loaded' = stored[s]
  /\ UNCHANGED <<stored, waiting>>

Next ==
  \E s \in Steps :
    \/ Discard(s) \/ Break(s) \/ Complete(s) \/ Resume(s)
    \/ \E c \in 1 .. MaxSaves : Prepare(s, c)
Spec == Init /\ [][Next]_vars

=============================================================================
