------------------------- MODULE OnPolicyAlgorithm --------------------------
(***************************************************************************)
(* The training state of an on-policy algorithm as the server sees it: the *)
(* rollout buffer with its chains of frames, the step and iteration        *)
(* counters, and the decisions taken from them.  PPO and DPPO run for a    *)
(* number of learn iterations; FPO runs for a number of environment steps  *)
(* and learns from a last, partly filled buffer (StepBudget = TRUE).       *)
(***************************************************************************)
EXTENDS Naturals, Sequences

CONSTANTS
  BufferSize,     \* config.buffer_size
  SaveInterval,   \* config.save_interval, in learn iterations
  StepBudget,     \* TRUE for FPO, FALSE for PPO and DPPO
  TrainItrs,      \* config.train_itrs, the budget when ~StepBudget
  GlobalSteps     \* config.global_steps, the budget when StepBudget

ASSUME AlgorithmAssumption ==
  /\ BufferSize \in Nat \ {0}
  /\ SaveInterval \in Nat \ {0}
  /\ StepBudget \in BOOLEAN
  /\ TrainItrs \in Nat
  /\ GlobalSteps \in Nat

VARIABLES
  buffer,         \* the stored frames, in order
  signature,      \* buffer_signature: which filling of the buffer this is
  globalStep,     \* global_step
  trainItrs,      \* curr_train_itrs
  lastSavedItr    \* last_saved_itr

algorithmVars == <<buffer, signature, globalStep, trainItrs, lastSavedItr>>

(* A frame keeps which policy sampled its action and the frame whose       *)
(* next_indices entry points at it; 0 stands for none.                     *)
Frame == [sampledBy : Nat, prev : 0 .. BufferSize]

(* (index, signature), the handle feedback returns to the server; index 0  *)
(* stands for the code's -1.                                               *)
Node == [idx : 0 .. BufferSize, sig : Nat]
NoNode == [idx |-> 0, sig |-> 0]

AlgorithmTypeOK ==
  /\ buffer \in Seq(Frame)
  /\ Len(buffer) <= BufferSize
  /\ signature \in Nat \ {0}
  /\ globalStep \in Nat
  /\ trainItrs \in Nat
  /\ lastSavedItr \in Nat

AlgorithmInit ==
  /\ buffer = <<>>
  /\ signature = 1
  /\ globalStep = 0
  /\ trainItrs = 0
  /\ lastSavedItr = 0

-----------------------------------------------------------------------------
full_one_late == Len(buffer) > BufferSize                       \* mutant
full == Len(buffer) >= BufferSize

should_learn ==
  \/ full
  \/ StepBudget /\ globalStep >= GlobalSteps /\ Len(buffer) > 0

should_stop == IF StepBudget THEN globalStep >= GlobalSteps
                             ELSE trainItrs >= TrainItrs

should_save ==
  IF StepBudget
  THEN trainItrs >= lastSavedItr + SaveInterval
  ELSE trainItrs % SaveInterval = 0 /\ trainItrs > lastSavedItr

(* The index add_frame chains a new frame to: a node from another filling  *)
(* of the buffer is ignored.                                               *)
ChainedTo_any_filling(node) == node.idx                         \* mutant
ChainedTo(node) == IF node.sig = signature THEN node.idx ELSE 0

(* The node add_frame returns; a full buffer refuses the frame. *)
NextNode == [idx |-> IF full THEN 0 ELSE Len(buffer) + 1, sig |-> signature]

(* add_frame, and the step that feedback counts whether or not the frame   *)
(* was stored.                                                             *)
feedback(sampledBy, prevNode) ==
  /\ buffer' = IF full THEN buffer
               ELSE Append(buffer, [sampledBy |-> sampledBy,
                                    prev |-> ChainedTo(prevNode)])
  /\ globalStep' = globalStep + 1
  /\ UNCHANGED <<signature, trainItrs, lastSavedItr>>

(* A learn step that ran to its end, with post_learn: the iteration counts *)
(* and the buffer starts afresh under a new signature.  PPO and DPPO reset *)
(* the buffer in post_learn, FPO at the end of learn_impl; the model lock  *)
(* is held throughout, so nobody sees the difference.                      *)
learn ==
  /\ trainItrs' = trainItrs + 1
  /\ buffer' = <<>>
  /\ signature' = signature + 1
  /\ UNCHANGED <<globalStep, lastSavedItr>>

(* create_checkpoint: what is written, and the bookkeeping it does. *)
Snapshot == [itr |-> trainItrs, step |-> globalStep]
create_checkpoint ==
  /\ lastSavedItr' = trainItrs
  /\ UNCHANGED <<buffer, signature, globalStep, trainItrs>>

=============================================================================
