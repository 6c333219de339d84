------------------------------ MODULE Training ------------------------------
(***************************************************************************)
(* What training leaves in the weights: the minibatch loops of PPO, DPPO   *)
(* and FPO, their critic warm-up, DPPO's gradient accumulation, FPO's      *)
(* float32 master weights, and runs that are interrupted or killed and     *)
(* resumed from the checkpoint that was saved last.  One action is one     *)
(* minibatch.  Networks are the set of learn steps that have changed them. *)
(* Connections, locks and files are in AgentServer and CheckpointStore.    *)
(***************************************************************************)
EXTENDS Integers, FiniteSets, Sequences, FiniteSetsExt

CONSTANTS
  Algos,          \* the algorithms of this instance
  BufferSize,     \* frames in a full buffer
  Minibatches,    \* minibatches in one pass over the buffer
  Epochs,         \* update_epochs, num_updates_per_batch
  GradAccum,      \* grad_accum_steps (DPPO)
  WarmupItrs,     \* n_critic_warmup_itrs
  TrainItrs,      \* train_itrs (PPO, DPPO)
  GlobalSteps,    \* global_steps (FPO)
  SaveInterval,
  MaxRestarts     \* bound: how often the run is started again

ASSUME TrainingAssumption ==
  /\ Algos \subseteq {"ppo", "dppo", "fpo"}
  /\ \A n \in {BufferSize, Minibatches, Epochs, GradAccum, TrainItrs,
               GlobalSteps, SaveInterval} : n \in Nat \ {0}
  /\ WarmupItrs \in Nat /\ MaxRestarts \in Nat

VARIABLES
  algo,
  restore,        \* what a new run takes from another one's checkpoint
  global_step, curr_train_itrs, last_saved_itr,
  frames,         \* len(rollout_buffer)
  model,          \* network -> learn steps that changed it
  master_weights, \* FPO: the copies the optimizer steps in the model's place
  gradients,      \* DPPO: network -> minibatches whose gradient is in .grad
  schedules,      \* DPPO: network -> steps its learning-rate schedule has made
  pc,             \* where the control cycle is
  loop,           \* learn_impl's local variables
  stop,           \* has a shutdown been requested?
  checkpoint,     \* the latest on disk
  restarts,       \* bound
  attempts,       \* history: the learn steps begun, by this process and by those
                  \* that it resumes
  windows,        \* history: network -> optimizer steps of this learn step
  lost            \* history: frames counted, but gone with a process

Networks == {"actor", "critic"}
Pretrained == 0   \* stands for the training that gave the restored weights
Minibatch == [attempt : Nat, epoch : 1 .. Epochs, index : 1 .. Minibatches]
Nets(x) == [n \in Networks |-> x]
Empty == Nets({})
NoLoop == [epoch |-> 1, index |-> 1, pending |-> 0, break_flag |-> FALSE]

algorithmVars == <<global_step, curr_train_itrs, last_saved_itr, frames,
                   model, master_weights, gradients, schedules>>
historyVars == <<attempts, windows, lost>>
vars == <<algo, restore, algorithmVars, pc, loop, stop, checkpoint, restarts, historyVars>>

TypeOK ==
  /\ algo \in Algos /\ restore \in {"none", "model", "except-critic"}
  /\ global_step \in Nat /\ curr_train_itrs \in Nat /\ last_saved_itr \in Nat
  /\ frames \in 0 .. BufferSize
  /\ {model, master_weights} \subseteq [Networks -> SUBSET (0 .. Len(attempts))]
  /\ gradients \in [Networks -> SUBSET Minibatch]
  /\ schedules \in [Networks -> Nat]
  /\ pc \in {"cycle", "learning", "learnt", "save_section", "saving",
             "exit_saving", "stopped", "down"}
  /\ loop \in [epoch : 1 .. Epochs, index : 1 .. Minibatches + 1,
               pending : 0 .. Minibatches, break_flag : BOOLEAN]
  /\ stop \in BOOLEAN /\ restarts \in 0 .. MaxRestarts /\ lost \in Nat
  /\ attempts \in Seq([frames : Nat, warmup : BOOLEAN, complete : BOOLEAN])

(* _restore_from: the weights of another run, or all but the critic's.     *)
(* FPO takes its float32 copies from the model anew.  PPO has no such      *)
(* option, and restore = "all" is load_checkpoint.                         *)
_restore_from ==
  [n \in Networks |->
     IF restore = "none" \/ (restore = "except-critic" /\ n = "critic")
     THEN {} ELSE {Pretrained}]
sync_from_model_omitted(weights) == Empty                               \* mutant
sync_from_model(weights) == IF algo = "fpo" THEN weights ELSE Empty

None == [step |-> -1]
Init ==
  /\ algo \in Algos
  /\ restore \in IF algo = "ppo" THEN {"none"} ELSE {"none", "model", "except-critic"}
  /\ global_step = 0 /\ curr_train_itrs = 0 /\ last_saved_itr = 0 /\ frames = 0
  /\ model = _restore_from /\ master_weights = sync_from_model(model)
  /\ gradients = Empty /\ schedules = Nets(0)
  /\ pc = "cycle" /\ loop = NoLoop /\ stop = FALSE
  /\ checkpoint = None /\ restarts = 0
  /\ attempts = <<>> /\ windows = Nets(<<>>) /\ lost = 0

-----------------------------------------------------------------------------
should_learn_one_late == frames > BufferSize                            \* mutant
should_learn ==
  \/ frames = BufferSize
  \/ algo = "fpo" /\ global_step >= GlobalSteps /\ frames > 0
should_stop == IF algo = "fpo" THEN global_step >= GlobalSteps
                               ELSE curr_train_itrs >= TrainItrs
should_save_past_the_interval == curr_train_itrs > last_saved_itr + SaveInterval \* mutant
should_save ==
  IF algo = "fpo" THEN curr_train_itrs - last_saved_itr >= SaveInterval
  ELSE curr_train_itrs % SaveInterval = 0 /\ curr_train_itrs > last_saved_itr
in_critic_warmup == curr_train_itrs < WarmupItrs

(* A frame of the current policy, while the lock is free.  The server      *)
(* discards the ones that arrive while the algorithm waits to learn.       *)
feedback ==
  /\ pc \in {"cycle", "save_section"}
  /\ ~should_learn
  /\ frames' = frames + 1
  /\ global_step' = global_step + 1
  /\ UNCHANGED <<algo, restore, curr_train_itrs, last_saved_itr, model, master_weights,
                 gradients, schedules, pc, loop, stop, checkpoint, restarts, historyVars>>

-----------------------------------------------------------------------------
(* One optimizer step of the networks in `nets`, with the gradients `grads`*)
(* divided by `divisor`.  FPO steps the float32 copies and then rounds     *)
(* them back into the model.                                               *)
Trained(weights, nets, grads) ==
  [n \in Networks |-> weights[n] \cup
     (IF n \in nets THEN {b.attempt : b \in grads[n]} ELSE {})]
optimizer_step(nets, grads, divisor) ==
  /\ IF algo = "fpo"
     THEN /\ master_weights' = Trained(master_weights, nets, grads)
          /\ model' = master_weights'
     ELSE /\ model' = Trained(model, nets, grads)
          /\ UNCHANGED master_weights
  /\ windows' = [n \in Networks |->
       IF n \in nets
       THEN Append(windows[n], [batches |-> grads[n], divisor |-> divisor])
       ELSE windows[n]]
no_step == UNCHANGED <<model, master_weights, windows>>

Enabled == IF in_critic_warmup THEN {"critic"} ELSE Networks

(* PPO and FPO step after every minibatch: zero_grad, backward, the        *)
(* actor's gradients dropped during a warm-up, step.  What then remains in *)
(* .grad nobody uses.                                                      *)
backward_and_step(b) ==
  /\ optimizer_step(Enabled, Nets({b}), 1)
  /\ UNCHANGED gradients

(* optimizer_step_if_ready (DPPO): the gradients of a window that closes   *)
(* are divided by the backward passes that went into them.                 *)
optimizer_step_if_ready_scaled(grads, pending) ==                       \* mutant
  optimizer_step(Enabled, grads, GradAccum)
optimizer_step_if_ready(grads, pending) ==
  optimizer_step(Enabled, grads, pending)
(* What a step leaves in .grad: the actor's of a warm-up, unless forced.   *)
_step_optimizers(grads, force) ==
  [n \in Networks |-> IF n \in Enabled \/ force THEN {} ELSE grads[n]]
zero_grad_omitted(grads) == grads                                       \* mutant
zero_grad(grads) == Empty

-----------------------------------------------------------------------------
(* A stop that comes before the lock is as good as one right after it.     *)
StartLearn ==
  /\ pc = "cycle" /\ ~stop
  /\ should_learn
  /\ pc' = "learning"
  /\ loop' = NoLoop
  /\ attempts' = Append(attempts, [frames |-> frames, warmup |-> in_critic_warmup,
                                   complete |-> FALSE])
  /\ windows' = Nets(<<>>)
  /\ gradients' = IF algo = "dppo" THEN zero_grad(gradients) ELSE gradients
  /\ UNCHANGED <<algo, restore, global_step, curr_train_itrs, last_saved_itr, frames, model,
                 master_weights, schedules, stop, checkpoint, restarts, lost>>

Batch == [attempt |-> Len(attempts), epoch |-> loop.epoch, index |-> loop.index]
backward == [n \in Networks |-> gradients[n] \cup {Batch}]
window_closes == loop.index % GradAccum = 0

(* One minibatch, then report_learn_progress, which raises when a stop was *)
(* requested: before DPPO's step, after the one of PPO and FPO.  `drift`:  *)
(* is the policy too far from the one that collected?  PPO asks this only  *)
(* after a whole epoch.                                                    *)
LearnMinibatch(drift) ==
  /\ pc = "learning"
  /\ loop.index <= Minibatches /\ ~loop.break_flag
  /\ ~stop
  /\ drift /\ algo = "ppo" => loop.index = Minibatches
  /\ \/ algo # "dppo" /\ backward_and_step(Batch)
     \/ /\ algo = "dppo" /\ window_closes
        /\ optimizer_step_if_ready(backward, loop.pending + 1)
        /\ gradients' = _step_optimizers(backward, FALSE)
     \/ /\ algo = "dppo" /\ ~window_closes
        /\ gradients' = backward
        /\ no_step
  /\ loop' = [loop EXCEPT !.index = @ + 1, !.break_flag = drift,
                !.pending = IF algo = "dppo" /\ ~window_closes THEN @ + 1 ELSE 0]
  /\ UNCHANGED <<algo, restore, global_step, curr_train_itrs, last_saved_itr, frames, schedules,
                 pc, stop, checkpoint, restarts, attempts, lost>>

LearnInterrupted ==
  /\ pc = "learning"
  /\ loop.index <= Minibatches /\ ~loop.break_flag
  /\ stop
  /\ IF algo = "dppo" THEN gradients' = backward /\ no_step ELSE backward_and_step(Batch)
  /\ loop' = NoLoop
  /\ pc' = "save_section"
  /\ UNCHANGED <<algo, restore, global_step, curr_train_itrs, last_saved_itr, frames, schedules,
                 stop, checkpoint, restarts, attempts, lost>>

(* After the minibatches of an epoch, or a break: flush what waits, then   *)
(* the next epoch, or the end of the loop.                                 *)
flushes_unless_broken == loop.pending > 0 /\ ~loop.break_flag           \* mutant
flushes == loop.pending > 0
EndEpoch ==
  /\ pc = "learning"
  /\ loop.index > Minibatches \/ loop.break_flag
  /\ LET last == loop.break_flag \/ loop.epoch = Epochs
         left == IF flushes THEN _step_optimizers(gradients, TRUE) ELSE gradients
     IN /\ pc' = IF last THEN "learnt" ELSE pc
        /\ loop' = IF last THEN loop ELSE [NoLoop EXCEPT !.epoch = loop.epoch + 1]
        /\ gradients' = IF algo = "dppo" /\ ~last THEN zero_grad(left) ELSE left
  /\ IF flushes THEN optimizer_step_if_ready(gradients, loop.pending) ELSE no_step
  /\ UNCHANGED <<algo, restore, global_step, curr_train_itrs, last_saved_itr, frames, schedules,
                 stop, checkpoint, restarts, attempts, lost>>

(* The end of learn_impl, with post_learn. *)
scheduler_steps ==
  [n \in Networks |-> schedules[n] + (IF algo = "dppo" /\ n \in Enabled THEN 1 ELSE 0)]
FinishLearn ==
  /\ pc = "learnt"
  /\ schedules' = scheduler_steps
  /\ curr_train_itrs' = curr_train_itrs + 1
  /\ frames' = 0
  /\ attempts' = [attempts EXCEPT ![Len(attempts)].complete = TRUE]
  /\ loop' = NoLoop /\ windows' = Nets(<<>>)
  /\ pc' = "save_section"
  /\ UNCHANGED <<algo, restore, global_step, last_saved_itr, model, master_weights, gradients,
                 stop, checkpoint, restarts, lost>>

-----------------------------------------------------------------------------
create_checkpoint ==
  /\ last_saved_itr' = curr_train_itrs
  /\ UNCHANGED <<algo, restore, global_step, curr_train_itrs, frames, model, master_weights,
                 gradients, schedules, loop, stop, checkpoint, restarts, historyVars>>

(* The second section of _run_control_cycle.  With nothing to learn the    *)
(* cycle goes straight through to it.                                      *)
StartSave ==
  /\ pc = "save_section" \/ (pc = "cycle" /\ ~should_learn)
  /\ should_save \/ should_stop
  /\ pc' = "saving"
  /\ create_checkpoint
NothingToSave ==
  /\ pc = "save_section"
  /\ ~should_save /\ ~should_stop
  /\ pc' = "cycle"
  /\ UNCHANGED <<algo, restore, algorithmVars, loop, stop, checkpoint, restarts, historyVars>>

Snapshot ==
  [step |-> global_step, train_itrs |-> curr_train_itrs,
   last_saved_itr |-> last_saved_itr, model |-> model, schedules |-> schedules,
   lost |-> lost + frames, attempts |-> attempts]              \* history
Saved ==
  /\ pc = "saving"
  /\ checkpoint' = Snapshot
  /\ pc' = IF should_stop THEN "stopped" ELSE "cycle"
  /\ UNCHANGED <<algo, restore, algorithmVars, loop, stop, restarts, historyVars>>

RequestStop ==   \* a signal
  /\ pc \notin {"down", "stopped", "exit_saving"}
  /\ ~stop
  /\ restarts < MaxRestarts
  /\ stop' = TRUE
  /\ UNCHANGED <<algo, restore, algorithmVars, pc, loop, checkpoint, restarts, historyVars>>
SaveOnExit ==   \* it may get the lock before the scheduler's second section does
  /\ pc \in {"cycle", "save_section"} /\ stop
  /\ pc' = "exit_saving"
  /\ create_checkpoint
(* The process is gone; what is left is what the next one is built with.   *)
Gone ==
  /\ global_step' = 0 /\ curr_train_itrs' = 0 /\ last_saved_itr' = 0 /\ frames' = 0
  /\ model' = _restore_from /\ master_weights' = sync_from_model(model')
  /\ gradients' = Empty /\ schedules' = Nets(0)
  /\ pc' = "down" /\ loop' = NoLoop /\ stop' = FALSE
  /\ attempts' = <<>> /\ windows' = Nets(<<>>) /\ lost' = 0
SavedOnExit ==
  /\ pc = "exit_saving"
  /\ checkpoint' = Snapshot
  /\ Gone
  /\ UNCHANGED <<algo, restore, restarts>>
Crash ==
  /\ pc \notin {"down", "stopped"}
  /\ restarts < MaxRestarts
  /\ Gone
  /\ UNCHANGED <<algo, restore, checkpoint, restarts>>

(* A new process: --resume, which loads the latest checkpoint into what    *)
(* was just built, or --overwrite when there is nothing to resume.         *)
_load_scheduler_states(states) == states
checkpoint_step_ignored(c) == 0                                         \* mutant
checkpoint_step(c) == c.step

load_checkpoint(c) ==
  /\ global_step' = checkpoint_step(c)
  /\ curr_train_itrs' = c.train_itrs
  /\ last_saved_itr' = IF algo = "fpo" THEN c.train_itrs ELSE c.last_saved_itr
  /\ model' = c.model
  /\ master_weights' = sync_from_model(c.model)
  /\ schedules' = _load_scheduler_states(c.schedules)
  /\ attempts' = c.attempts /\ lost' = c.lost
Restart ==
  /\ pc = "down"
  /\ restarts < MaxRestarts
  /\ restarts' = restarts + 1
  /\ pc' = "cycle"
  /\ \/ checkpoint # None /\ load_checkpoint(checkpoint)
     \/ checkpoint = None
        /\ UNCHANGED <<global_step, curr_train_itrs, last_saved_itr, model,
                       master_weights, schedules, attempts, lost>>
  /\ UNCHANGED <<algo, restore, frames, gradients, loop, stop, checkpoint, windows>>

Next ==
  \/ feedback
  \/ StartLearn \/ (\E drift \in BOOLEAN : LearnMinibatch(drift))
  \/ LearnInterrupted \/ EndEpoch \/ FinishLearn
  \/ StartSave \/ NothingToSave \/ Saved
  \/ RequestStop \/ SaveOnExit \/ SavedOnExit \/ Crash \/ Restart

Spec == Init /\ [][Next]_vars

-----------------------------------------------------------------------------
Up == pc # "down"
AfterWarmup == IF curr_train_itrs <= WarmupItrs THEN 0 ELSE curr_train_itrs - WarmupItrs

(* Every optimizer step applies the mean of what it accumulated: as many   *)
(* minibatches as it divides by, of one pass over one buffer.              *)
(* (optimizer_step_if_ready, partial windows at flushes and breaks)        *)
StepsAreMeans ==
  \A n \in Networks : \A i \in DOMAIN windows[n] :
    LET w == windows[n][i] IN
      /\ w.divisor = Cardinality(w.batches)
      /\ \A a, b \in w.batches : a.attempt = b.attempt /\ a.epoch = b.epoch
      /\ \A a \in w.batches : a.attempt = Len(attempts)

(* When the loop ends, early or not, every minibatch that was evaluated    *)
(* has gone into exactly one step of each network that was to learn.       *)
Seen == {b \in [attempt : {Len(attempts)}, epoch : 1 .. Epochs, index : 1 .. Minibatches] :
           \/ b.epoch < loop.epoch
           \/ b.epoch = loop.epoch /\ b.index < loop.index}
EveryMinibatchCountsOnce ==
  pc = "learnt" =>
    \A n \in Networks :
      /\ \A i, j \in DOMAIN windows[n] :
           i # j => windows[n][i].batches \cap windows[n][j].batches = {}
      /\ UNION {windows[n][i].batches : i \in DOMAIN windows[n]} =
           IF n \in Enabled THEN Seen ELSE {}

(* A critic warm-up leaves the actor as it was: no gradient of a warm-up   *)
(* iteration ever reaches it, not even after the warm-up or a restart.     *)
WarmupKeepsActor ==
  \A i \in model["actor"] \ {Pretrained} : ~attempts[i].warmup

(* The counters describe the weights, across kills, interruptions and      *)
(* resumes.  curr_train_itrs is the number of whole iterations that are in *)
(* the critic's weights, and in the actor's less the warm-up; learning-rate*)
(* schedules are where these iterations took them; and a run that starts   *)
(* from another one's weights keeps building on them: no optimizer step    *)
(* goes back to the weights it was constructed with (MasterWeights,        *)
(* post_learn, load_checkpoint, _restore_from).                            *)
Finished(n) == {i \in model[n] \ {Pretrained} : attempts[i].complete}
Whole(n) == Cardinality(Finished(n))
IterationsInTheWeights ==
  Whole("critic") = curr_train_itrs /\ Whole("actor") = AfterWarmup
SchedulesFollowIterations ==
  algo = "dppo" =>
    schedules["critic"] = curr_train_itrs /\ schedules["actor"] = AfterWarmup
BuildsOnRestored ==
  \A n \in Networks : Pretrained \in model[n] <=> Pretrained \in _restore_from[n]
CountersDescribeWeights ==
  Up => IterationsInTheWeights /\ SchedulesFollowIterations /\ BuildsOnRestored

(* global_step counts the frames learned from and those in the buffer, and *)
(* otherwise only what was in the buffer of a process when it saved the    *)
(* checkpoint that another one went on from.                               *)
StepsLostOnlyOnRestart ==
  Up => global_step =
    frames + lost + MapThenSumSet(LAMBDA i : attempts[i].frames, Finished("critic"))

(* A kill at any moment costs at most SaveInterval finished iterations.    *)
KillCostsAtMostAnInterval ==
  Up => curr_train_itrs <=
    SaveInterval + (IF checkpoint = None THEN 0 ELSE checkpoint.train_itrs)

=============================================================================
