--------------------------- MODULE TrainingProofs ---------------------------
(***************************************************************************)
(* Proofs about Training, for all sizes, intervals, accumulation windows   *)
(* and warm-ups, and any number of interruptions, kills and resumes.       *)
(***************************************************************************)
EXTENDS Training, NumberLemmas, FiniteSetTheorems, SequenceTheorems, TLAPS

LEMMA Constants ==
  /\ Algos \subseteq {"ppo", "dppo", "fpo"}
  /\ BufferSize \in Nat \ {0} /\ Minibatches \in Nat \ {0} /\ Epochs \in Nat \ {0}
  /\ GradAccum \in Nat \ {0} /\ TrainItrs \in Nat \ {0} /\ GlobalSteps \in Nat \ {0}
  /\ SaveInterval \in Nat \ {0} /\ WarmupItrs \in Nat /\ MaxRestarts \in Nat
BY TrainingAssumption

USE Constants
USE DEF vars, algorithmVars, historyVars, Networks, Nets, Empty

-----------------------------------------------------------------------------
(* Types. *)
Attempt == [frames : Nat, warmup : BOOLEAN, complete : BOOLEAN]
Window == [batches : SUBSET Minibatch, divisor : Nat]
Loop == [epoch : 1 .. Epochs, index : 1 .. Minibatches + 1,
         pending : 0 .. Minibatches, break_flag : BOOLEAN]
CheckpointOK(c) ==
  /\ c.step \in Nat /\ c.train_itrs \in Nat /\ c.last_saved_itr \in Nat /\ c.lost \in Nat
  /\ c.schedules \in [Networks -> Nat]
  /\ c.attempts \in Seq(Attempt)
  /\ c.model \in [Networks -> SUBSET (0 .. Len(c.attempts))]

(* A learn step that is under way has been begun, the gradients there are  *)
(* come from its own minibatches, and only DPPO keeps any.                 *)
Learning == pc \in {"learning", "learnt"}
Under ==
  /\ Learning => attempts # <<>>
  /\ Learning => \A n \in Networks : \A b \in gradients[n] : b.attempt = Len(attempts)
  /\ algo # "dppo" => gradients = Empty /\ loop.pending = 0
  /\ loop.pending < loop.index
TypeInv ==
  /\ TypeOK
  /\ windows \in [Networks -> Seq(Window)]
  /\ checkpoint # None => CheckpointOK(checkpoint)
  /\ Under

LEMMA Small ==
  /\ 1 \in 1 .. Epochs /\ 1 \in 1 .. Minibatches + 1 /\ 0 \in 0 .. Minibatches
  /\ 0 \in 0 .. BufferSize /\ 0 \in 0 .. MaxRestarts
OBVIOUS

LEMMA NoLoopType == NoLoop \in Loop /\ NoLoop.pending = 0 /\ NoLoop.index = 1
BY Small DEF NoLoop, Loop

LEMMA RestoreType ==
  /\ _restore_from \in [Networks -> SUBSET {0}]
  /\ \A w \in [Networks -> SUBSET {0}] : sync_from_model(w) \in [Networks -> SUBSET {0}]
BY DEF _restore_from, sync_from_model, Pretrained

LEMMA InitTypes == Init => TypeInv
<1> SUFFICES ASSUME Init PROVE TypeInv
  OBVIOUS
<1>1. /\ <<>> \in Seq(Attempt) /\ Len(<<>>) = 0 /\ <<>> \in Seq(Window)
      /\ 0 .. 0 = {0}
  BY EmptySeq
<1>2. {model, master_weights} \subseteq [Networks -> SUBSET (0 .. Len(attempts))]
  BY <1>1, RestoreType DEF Init
<1>3. loop \in Loop /\ loop.pending < loop.index /\ loop.pending = 0
  BY NoLoopType DEF Init
<1> QED
  BY <1>1, <1>2, <1>3, Small DEF Init, TypeInv, TypeOK, Under, Learning, Attempt, Loop

LEMMA AttemptsType ==
  ASSUME TypeInv
  PROVE  /\ attempts \in Seq(Attempt) /\ Len(attempts) \in Nat
         /\ attempts # <<>> => Len(attempts) \in 1 .. Len(attempts)
         /\ model \in [Networks -> SUBSET (0 .. Len(attempts))]
         /\ master_weights \in [Networks -> SUBSET (0 .. Len(attempts))]
         /\ loop \in Loop
<1>1. attempts \in Seq(Attempt)
  BY DEF TypeInv, TypeOK, Attempt
<1>2. Len(attempts) \in Nat /\ (attempts # <<>> => Len(attempts) \in Nat \ {0})
  BY <1>1, LenProperties, EmptySeq
<1> QED
  BY <1>1, <1>2 DEF TypeInv, TypeOK, Loop, Learning

LEMMA BatchType ==
  ASSUME TypeInv, pc = "learning", loop.index <= Minibatches
  PROVE  /\ Batch \in Minibatch /\ Batch.attempt = Len(attempts)
         /\ Batch.epoch = loop.epoch /\ Batch.index = loop.index
         /\ backward \in [Networks -> SUBSET Minibatch]
         /\ \A n \in Networks : \A b \in backward[n] : b.attempt = Len(attempts)
<1>1. /\ Len(attempts) \in Nat /\ loop.epoch \in 1 .. Epochs
      /\ loop.index \in 1 .. Minibatches
  BY AttemptsType DEF Loop
<1>2. Batch \in Minibatch /\ Batch.attempt = Len(attempts)
      /\ Batch.epoch = loop.epoch /\ Batch.index = loop.index
  BY <1>1 DEF Batch, Minibatch
<1> QED
  BY <1>2 DEF backward, TypeInv, TypeOK, Under, Learning

(* An optimizer step with gradients of the learn step under way. *)
LEMMA OptimizerStepTypes ==
  ASSUME TypeInv, NEW nets, NEW grads \in [Networks -> SUBSET Minibatch], NEW d \in Nat,
         \A n \in Networks : \A b \in grads[n] : b.attempt = Len(attempts),
         optimizer_step(nets, grads, d)
  PROVE  /\ model' \in [Networks -> SUBSET (0 .. Len(attempts))]
         /\ master_weights' \in [Networks -> SUBSET (0 .. Len(attempts))]
         /\ windows' \in [Networks -> Seq(Window)]
<1>1. ASSUME NEW w \in [Networks -> SUBSET (0 .. Len(attempts))]
      PROVE  Trained(w, nets, grads) \in [Networks -> SUBSET (0 .. Len(attempts))]
  <2>1. ASSUME NEW n \in Networks
        PROVE  {b.attempt : b \in grads[n]} \subseteq 0 .. Len(attempts)
    BY AttemptsType
  <2> QED
    BY <1>1, <2>1 DEF Trained
<1>2. windows' \in [Networks -> Seq(Window)]
  <2>1. ASSUME NEW n \in Networks
        PROVE  Append(windows[n], [batches |-> grads[n], divisor |-> d]) \in Seq(Window)
    <3>1. [batches |-> grads[n], divisor |-> d] \in Window /\ windows[n] \in Seq(Window)
      BY DEF Window, TypeInv
    <3> QED
      BY <3>1, AppendProperties
  <2> QED
    BY <2>1 DEF optimizer_step, TypeInv
<1> QED
  BY <1>1, <1>2, AttemptsType DEF optimizer_step

LEMMA GoneTypes ==
  ASSUME TypeInv, Gone, UNCHANGED <<algo, restore, restarts>>,
         checkpoint' # None => CheckpointOK(checkpoint)'
  PROVE  TypeInv'
<1>1. /\ <<>> \in Seq(Attempt) /\ Len(<<>>) = 0 /\ <<>> \in Seq(Window)
      /\ 0 .. 0 = {0}
  BY EmptySeq
<1>2. {model', master_weights'} \subseteq [Networks -> SUBSET (0 .. Len(attempts'))]
  BY <1>1, RestoreType DEF Gone, sync_from_model
<1>3. loop' \in Loop /\ loop'.pending < loop'.index /\ loop'.pending = 0
  BY NoLoopType DEF Gone
<1> QED
  BY <1>1, <1>2, <1>3, Small
  DEF Gone, TypeInv, TypeOK, Under, Learning, Attempt, Loop

LEMMA SnapshotType ==
  ASSUME TypeInv
  PROVE  CheckpointOK(Snapshot)
<1>1. /\ global_step \in Nat /\ curr_train_itrs \in Nat /\ last_saved_itr \in Nat
      /\ lost + frames \in Nat /\ schedules \in [Networks -> Nat]
  BY DEF TypeInv, TypeOK
<1>2. /\ Snapshot.step = global_step /\ Snapshot.train_itrs = curr_train_itrs
      /\ Snapshot.last_saved_itr = last_saved_itr /\ Snapshot.model = model
      /\ Snapshot.schedules = schedules /\ Snapshot.lost = lost + frames
      /\ Snapshot.attempts = attempts
  BY DEF Snapshot
<1> QED
  BY <1>1, <1>2, AttemptsType DEF CheckpointOK

LEMMA StepTypes ==
  ASSUME TypeInv, [Next]_vars
  PROVE  TypeInv'
<1>0. /\ TypeOK /\ Under /\ windows \in [Networks -> Seq(Window)]
      /\ checkpoint # None => CheckpointOK(checkpoint)
  BY DEF TypeInv
<1>i. /\ loop.index \in 1 .. Minibatches + 1 /\ loop.pending \in 0 .. Minibatches
      /\ loop.epoch \in 1 .. Epochs /\ loop.break_flag \in BOOLEAN
      /\ loop.pending < loop.index
  BY <1>0, AttemptsType DEF Loop, Under
<1>1. CASE feedback
  <2>1. frames' \in 0 .. BufferSize
    BY <1>0, <1>1 DEF feedback, should_learn, TypeOK
  <2> QED
    BY <1>0, <1>1, <2>1 DEF feedback, TypeInv, TypeOK, Under, Learning
<1>2. CASE StartLearn
  <2>1. [frames |-> frames, warmup |-> in_critic_warmup, complete |-> FALSE] \in Attempt
    BY <1>0 DEF TypeOK, Attempt, in_critic_warmup
  <2>2. /\ attempts' \in Seq(Attempt) /\ Len(attempts') = Len(attempts) + 1
        /\ attempts' # <<>>
    BY <1>2, <2>1, AttemptsType, AppendProperties DEF StartLearn
  <2>3. {model', master_weights'} \subseteq [Networks -> SUBSET (0 .. Len(attempts'))]
    <3>1. 0 .. Len(attempts) \subseteq 0 .. Len(attempts')
      BY <2>2, AttemptsType
    <3>2. model' = model /\ master_weights' = master_weights
      BY <1>2 DEF StartLearn
    <3> QED
      BY <3>1, <3>2, AttemptsType
  <2>4. gradients' = Empty
    BY <1>0, <1>2 DEF StartLearn, zero_grad, Under
  <2>5. windows' \in [Networks -> Seq(Window)]
    BY <1>2, EmptySeq DEF StartLearn
  <2>6. loop' \in Loop /\ loop'.pending < loop'.index /\ loop'.pending = 0
    BY <1>2, NoLoopType DEF StartLearn
  <2> QED
    BY <1>0, <1>2, <2>2, <2>3, <2>4, <2>5, <2>6
    DEF StartLearn, TypeInv, TypeOK, Under, Learning, Attempt, Loop
<1>3. ASSUME NEW drift \in BOOLEAN, LearnMinibatch(drift) PROVE TypeInv'
  <2>1. /\ pc = "learning" /\ loop.index <= Minibatches
        /\ pc' = pc /\ attempts' = attempts
    BY <1>3 DEF LearnMinibatch
  <2>2. /\ Batch \in Minibatch /\ Batch.attempt = Len(attempts)
        /\ backward \in [Networks -> SUBSET Minibatch]
        /\ \A n \in Networks : \A b \in backward[n] : b.attempt = Len(attempts)
    BY <2>1, BatchType
  <2>3. /\ loop' \in Loop /\ loop'.pending < loop'.index
        /\ algo # "dppo" => loop'.pending = 0
    <3>1. loop' = [loop EXCEPT !.index = @ + 1, !.break_flag = drift,
                     !.pending = IF algo = "dppo" /\ ~window_closes THEN @ + 1 ELSE 0]
      BY <1>3 DEF LearnMinibatch
    <3>2. loop.index + 1 \in 1 .. Minibatches + 1 /\ loop.pending + 1 \in 0 .. Minibatches
      BY <1>i, <2>1
    <3>3. /\ loop'.epoch = loop.epoch /\ loop'.index = loop.index + 1
          /\ loop'.break_flag = drift
          /\ loop'.pending \in {loop.pending + 1, 0}
          /\ algo # "dppo" => loop'.pending = 0
          /\ loop' \in [epoch : {loop'.epoch}, index : {loop'.index},
                        pending : {loop'.pending}, break_flag : {loop'.break_flag}]
      BY <3>1, AttemptsType DEF Loop
    <3>4. loop' \in Loop
      BY <1>i, <3>2, <3>3, Small DEF Loop
    <3> QED
      BY <1>i, <3>2, <3>3, <3>4
  <2>4. /\ {model', master_weights'} \subseteq [Networks -> SUBSET (0 .. Len(attempts))]
        /\ windows' \in [Networks -> Seq(Window)]
        /\ gradients' \in [Networks -> SUBSET Minibatch]
        /\ \A n \in Networks : \A b \in gradients'[n] : b.attempt = Len(attempts)
        /\ algo # "dppo" => gradients' = Empty
    <3>1. CASE algo # "dppo" /\ backward_and_step(Batch)
      <4>1. Nets({Batch}) \in [Networks -> SUBSET Minibatch]
            /\ \A n \in Networks : \A b \in Nets({Batch})[n] : b.attempt = Len(attempts)
        BY <2>2
      <4>2. gradients' = gradients /\ optimizer_step(Enabled, Nets({Batch}), 1) /\ 1 \in Nat
        BY <3>1 DEF backward_and_step
      <4> QED
        BY <1>0, <3>1, <4>1, <4>2, OptimizerStepTypes DEF TypeOK, Under
    <3>2. CASE /\ algo = "dppo" /\ optimizer_step_if_ready(backward, loop.pending + 1)
               /\ gradients' = _step_optimizers(backward, FALSE)
      <4>1. loop.pending + 1 \in Nat /\ optimizer_step(Enabled, backward, loop.pending + 1)
        BY <1>i, <3>2 DEF optimizer_step_if_ready
      <4>2. gradients' \in [Networks -> SUBSET Minibatch]
            /\ \A n \in Networks : gradients'[n] \subseteq backward[n]
        BY <2>2, <3>2 DEF _step_optimizers
      <4> QED
        BY <2>2, <3>2, <4>1, <4>2, OptimizerStepTypes
    <3>3. CASE algo = "dppo" /\ gradients' = backward /\ no_step
      BY <1>0, <2>2, <3>3, AttemptsType DEF no_step
    <3> QED
      BY <1>3, <3>1, <3>2, <3>3 DEF LearnMinibatch
  <2> QED
    BY <1>0, <1>3, <2>1, <2>3, <2>4
    DEF LearnMinibatch, TypeInv, TypeOK, Under, Learning, Loop
<1>4. CASE LearnInterrupted
  <2>1. /\ pc = "learning" /\ loop.index <= Minibatches
        /\ pc' = "save_section" /\ attempts' = attempts
    BY <1>4 DEF LearnInterrupted
  <2>2. /\ Batch \in Minibatch /\ Batch.attempt = Len(attempts)
        /\ backward \in [Networks -> SUBSET Minibatch]
    BY <2>1, BatchType
  <2>3. loop' \in Loop /\ loop'.pending < loop'.index /\ loop'.pending = 0
    BY <1>4, NoLoopType DEF LearnInterrupted
  <2>4. /\ {model', master_weights'} \subseteq [Networks -> SUBSET (0 .. Len(attempts))]
        /\ windows' \in [Networks -> Seq(Window)]
        /\ gradients' \in [Networks -> SUBSET Minibatch]
        /\ algo # "dppo" => gradients' = Empty
    <3>1. CASE algo # "dppo"
      <4>1. Nets({Batch}) \in [Networks -> SUBSET Minibatch]
            /\ \A n \in Networks : \A b \in Nets({Batch})[n] : b.attempt = Len(attempts)
        BY <2>2
      <4>2. gradients' = gradients /\ optimizer_step(Enabled, Nets({Batch}), 1) /\ 1 \in Nat
        BY <1>4, <3>1 DEF LearnInterrupted, backward_and_step
      <4> QED
        BY <1>0, <3>1, <4>1, <4>2, OptimizerStepTypes DEF TypeOK, Under
    <3>2. CASE algo = "dppo"
      BY <1>0, <1>4, <2>2, <3>2, AttemptsType DEF LearnInterrupted, no_step
    <3> QED
      BY <3>1, <3>2
  <2> QED
    BY <1>0, <1>4, <2>1, <2>3, <2>4
    DEF LearnInterrupted, TypeInv, TypeOK, Under, Learning, Loop
<1>5. CASE EndEpoch
  <2> DEFINE last == loop.break_flag \/ loop.epoch = Epochs
             left == IF flushes THEN _step_optimizers(gradients, TRUE) ELSE gradients
  <2>1. /\ pc = "learning" /\ attempts' = attempts
        /\ pc' \in {"learnt", "learning"}
        /\ loop' = IF last THEN loop ELSE [NoLoop EXCEPT !.epoch = loop.epoch + 1]
        /\ gradients' = IF algo = "dppo" /\ ~last THEN zero_grad(left) ELSE left
        /\ IF flushes THEN optimizer_step_if_ready(gradients, loop.pending) ELSE no_step
    BY <1>5 DEF EndEpoch
  <2>2. /\ loop' \in Loop /\ loop'.pending < loop'.index
        /\ algo # "dppo" => loop'.pending = 0
    <3>1. CASE last
      BY <1>0, <1>i, <2>1, <3>1, AttemptsType DEF Under
    <3>2. CASE ~last
      <4>1. loop.epoch + 1 \in 1 .. Epochs
        BY <1>i, <3>2
      <4>2. loop' = [epoch |-> loop.epoch + 1, index |-> 1, pending |-> 0,
                     break_flag |-> FALSE]
        BY <2>1, <3>2 DEF NoLoop
      <4> QED
        BY <4>1, <4>2, Small DEF Loop
    <3> QED
      BY <3>1, <3>2
  <2>3. \A n \in Networks : \A b \in gradients[n] : b.attempt = Len(attempts)
    BY <1>0, <2>1 DEF Under, Learning
  <2>4. /\ gradients' \in [Networks -> SUBSET Minibatch]
        /\ \A n \in Networks : gradients'[n] \subseteq gradients[n]
        /\ algo # "dppo" => gradients' = Empty
    <3>1. left \in {Empty, gradients}
      BY DEF _step_optimizers
    <3> HIDE DEF left, last
    <3>2. gradients' \in {Empty, gradients}
      BY <2>1, <3>1 DEF zero_grad
    <3> QED
      BY <1>0, <3>2 DEF TypeOK, Under
  <2>5. /\ {model', master_weights'} \subseteq [Networks -> SUBSET (0 .. Len(attempts))]
        /\ windows' \in [Networks -> Seq(Window)]
    <3>1. CASE flushes
      <4>1. loop.pending \in Nat
        BY <1>i
      <4>2. optimizer_step(Enabled, gradients, loop.pending)
            /\ gradients \in [Networks -> SUBSET Minibatch]
        BY <1>0, <2>1, <3>1 DEF optimizer_step_if_ready, TypeOK
      <4> QED
        BY <2>3, <4>1, <4>2, OptimizerStepTypes
    <3>2. CASE ~flushes
      BY <1>0, <2>1, <3>2, AttemptsType DEF no_step
    <3> QED
      BY <3>1, <3>2
  <2> HIDE DEF last, left
  <2> QED
    BY <1>0, <1>5, <2>1, <2>2, <2>3, <2>4, <2>5
    DEF EndEpoch, TypeInv, TypeOK, Under, Learning, Loop
<1>6. CASE FinishLearn
  <2>1. schedules' \in [Networks -> Nat]
    <3>1. \A n \in Networks : schedules[n] \in Nat
      BY <1>0 DEF TypeOK
    <3>2. \A n \in Networks :
            schedules[n] + (IF algo = "dppo" /\ n \in Enabled THEN 1 ELSE 0) \in Nat
      BY <3>1
    <3> QED
      BY <1>6, <3>2 DEF FinishLearn, scheduler_steps
  <2>2. attempts' \in Seq(Attempt) /\ Len(attempts') = Len(attempts)
    <3>1. Len(attempts) \in 1 .. Len(attempts) /\ attempts \in Seq(Attempt)
      BY <1>0, <1>6, AttemptsType DEF FinishLearn, Under, Learning
    <3>2. attempts[Len(attempts)] \in Attempt
      BY <3>1, ElementOfSeq
    <3>3. [attempts[Len(attempts)] EXCEPT !.complete = TRUE] \in Attempt
      BY <3>2 DEF Attempt
    <3>4. attempts' = [attempts EXCEPT ![Len(attempts)] =
                         [attempts[Len(attempts)] EXCEPT !.complete = TRUE]]
      BY <1>6 DEF FinishLearn
    <3> QED
      BY <3>1, <3>3, <3>4, ExceptSeq
  <2>3. loop' \in Loop /\ loop'.pending < loop'.index /\ loop'.pending = 0
    BY <1>6, NoLoopType DEF FinishLearn
  <2>4. windows' \in [Networks -> Seq(Window)]
    BY <1>6, EmptySeq DEF FinishLearn
  <2>5. {model', master_weights'} \subseteq [Networks -> SUBSET (0 .. Len(attempts'))]
    BY <1>6, <2>2, AttemptsType DEF FinishLearn
  <2>6. /\ pc' = "save_section" /\ curr_train_itrs' \in Nat /\ frames' \in 0 .. BufferSize
        /\ UNCHANGED <<algo, restore, global_step, last_saved_itr, model, master_weights,
                       gradients, stop, checkpoint, restarts, lost>>
    <3>1. curr_train_itrs + 1 \in Nat
      BY <1>0 DEF TypeOK
    <3>2. /\ pc' = "save_section" /\ curr_train_itrs' = curr_train_itrs + 1 /\ frames' = 0
          /\ UNCHANGED <<algo, restore, global_step, last_saved_itr, model, master_weights,
                         gradients, stop, checkpoint, restarts, lost>>
      BY <1>6 DEF FinishLearn
    <3> QED
      BY <3>1, <3>2, Small
  <2>7. TypeOK'
    BY <1>0, <2>1, <2>2, <2>3, <2>5, <2>6 DEF TypeOK, Attempt, Loop
  <2>8. Under'
    BY <1>0, <2>3, <2>6 DEF Under, Learning
  <2> QED
    BY <1>0, <2>4, <2>6, <2>7, <2>8 DEF TypeInv, CheckpointOK
<1>7. CASE StartSave \/ SaveOnExit
  BY <1>0, <1>7
  DEF StartSave, SaveOnExit, create_checkpoint, TypeInv, TypeOK, Under, Learning, CheckpointOK
<1>8. CASE NothingToSave \/ RequestStop
  BY <1>0, <1>8
  DEF NothingToSave, RequestStop, TypeInv, TypeOK, Under, Learning, CheckpointOK
<1>9. CASE Saved
  BY <1>0, <1>9, SnapshotType DEF Saved, TypeInv, TypeOK, Under, Learning, CheckpointOK
<1>10. CASE SavedOnExit
  <2>1. CheckpointOK(checkpoint')
    BY <1>10, SnapshotType DEF SavedOnExit
  <2>2. Gone /\ UNCHANGED <<algo, restore, restarts>>
    BY <1>10 DEF SavedOnExit
  <2> QED
    BY <2>1, <2>2, GoneTypes DEF CheckpointOK
<1>11. CASE Crash
  <2>1. Gone /\ UNCHANGED <<algo, restore, restarts, checkpoint>>
    BY <1>11 DEF Crash
  <2> QED
    BY <1>0, <2>1, GoneTypes DEF CheckpointOK
<1>12. CASE Restart
  <2>1. /\ restarts' \in 0 .. MaxRestarts /\ pc' = "cycle"
        /\ UNCHANGED <<algo, restore, frames, gradients, loop, stop, checkpoint, windows>>
    BY <1>0, <1>12 DEF Restart, TypeOK
  <2>2. CASE checkpoint # None /\ load_checkpoint(checkpoint)
    <3>1. CheckpointOK(checkpoint)
      BY <1>0, <2>2
    <3>2. /\ model' \in [Networks -> SUBSET (0 .. Len(attempts'))]
          /\ master_weights' \in [Networks -> SUBSET (0 .. Len(attempts'))]
          /\ attempts' \in Seq(Attempt)
          /\ global_step' \in Nat /\ curr_train_itrs' \in Nat /\ last_saved_itr' \in Nat
          /\ lost' \in Nat /\ schedules' \in [Networks -> Nat]
      BY <2>2, <3>1
      DEF load_checkpoint, sync_from_model, checkpoint_step, _load_scheduler_states,
          CheckpointOK
    <3> QED
      BY <1>0, <2>1, <3>2 DEF TypeInv, TypeOK, Under, Learning, CheckpointOK, Attempt
  <2>3. CASE UNCHANGED <<global_step, curr_train_itrs, last_saved_itr, model,
                         master_weights, schedules, attempts, lost>>
    BY <1>0, <2>1, <2>3 DEF TypeInv, TypeOK, Under, Learning, CheckpointOK
  <2> QED
    BY <1>12, <2>2, <2>3 DEF Restart
<1>13. CASE UNCHANGED vars
  BY <1>0, <1>13 DEF TypeInv, TypeOK, Under, Learning, CheckpointOK
<1> QED
  BY <1>1, <1>2, <1>3, <1>4, <1>5, <1>6, <1>7, <1>8, <1>9, <1>10, <1>11, <1>12, <1>13
  DEF Next

(* Every variable keeps its type through interruptions, kills and resumes: *)
(* the buffer never overflows (should_learn), no network holds a learn     *)
(* step that this run or those it resumes never began.                     *)
THEOREM TrainingTypeCorrectness == Spec => []TypeOK
<1>1. TypeInv => TypeOK
  BY DEF TypeInv
<1> QED
  BY InitTypes, StepTypes, <1>1, PTL DEF Spec

-----------------------------------------------------------------------------
(* What the actions of the minibatch loop do to the weights: nothing, or   *)
(* one step of the enabled networks with gradients of this learn step.     *)
LoopStep == (\E drift \in BOOLEAN : LearnMinibatch(drift)) \/ LearnInterrupted \/ EndEpoch
OwnGradients ==
  {g \in [Networks -> SUBSET Minibatch] :
     \A n \in Networks : \A b \in g[n] : b.attempt = Len(attempts)}

LEMMA LoopSteps ==
  ASSUME TypeInv, LoopStep
  PROVE  /\ pc = "learning" /\ Learning /\ attempts # <<>>
         /\ pc' \in {"learning", "learnt", "save_section"}
         /\ UNCHANGED <<algo, restore, global_step, curr_train_itrs, last_saved_itr, frames,
                        schedules, stop, checkpoint, restarts, attempts, lost>>
         /\ \/ no_step
            \/ \E g \in OwnGradients, d \in Nat : optimizer_step(Enabled, g, d)
<1>1. /\ pc = "learning" /\ pc' \in {"learning", "learnt", "save_section"}
      /\ UNCHANGED <<algo, restore, global_step, curr_train_itrs, last_saved_itr, frames,
                     schedules, stop, checkpoint, restarts, attempts, lost>>
  BY DEF LoopStep, LearnMinibatch, LearnInterrupted, EndEpoch
<1>2. Learning /\ attempts # <<>> /\ gradients \in OwnGradients
      /\ loop.pending \in Nat /\ loop.pending + 1 \in Nat
  <2>1. loop.pending \in 0 .. Minibatches
    BY AttemptsType DEF Loop
  <2>2. Learning /\ attempts # <<>> /\ gradients \in OwnGradients
    BY <1>1 DEF TypeInv, TypeOK, Under, Learning, OwnGradients
  <2> QED
    BY <2>1, <2>2
<1>3. ASSUME loop.index <= Minibatches
      PROVE  Nets({Batch}) \in OwnGradients /\ backward \in OwnGradients
  BY <1>1, <1>3, BatchType DEF OwnGradients
<1>4. CASE EndEpoch
  BY <1>1, <1>2, <1>4 DEF EndEpoch, optimizer_step_if_ready
<1>5. CASE (\E drift \in BOOLEAN : LearnMinibatch(drift)) \/ LearnInterrupted
  <2>1. /\ loop.index <= Minibatches
        /\ \/ no_step \/ optimizer_step(Enabled, Nets({Batch}), 1)
           \/ optimizer_step(Enabled, backward, loop.pending + 1)
    BY <1>5 DEF LearnMinibatch, LearnInterrupted, backward_and_step, optimizer_step_if_ready
  <2> QED
    BY <1>1, <1>2, <1>3, <2>1
<1> QED
  BY <1>4, <1>5 DEF LoopStep

(* What was trained is what was there before, and this learn step. *)
LEMMA StepWeights ==
  ASSUME TypeInv, NEW g \in OwnGradients, NEW d, optimizer_step(Enabled, g, d),
         NEW n \in Networks
  PROVE  LET old == IF algo = "fpo" THEN master_weights ELSE model IN
         /\ old[n] \subseteq model'[n]
         /\ model'[n] \subseteq old[n] \cup {Len(attempts)}
         /\ n \notin Enabled => model'[n] = old[n]
         /\ n \in Enabled /\ g[n] # {} => Len(attempts) \in model'[n]
         /\ master_weights' = IF algo = "fpo" THEN model' ELSE master_weights
<1>1. \A b \in g[n] : b.attempt = Len(attempts)
  BY DEF OwnGradients
<1>2. ASSUME NEW w \in [Networks -> SUBSET (0 .. Len(attempts))]
      PROVE  /\ w[n] \subseteq Trained(w, Enabled, g)[n]
             /\ Trained(w, Enabled, g)[n] \subseteq w[n] \cup {Len(attempts)}
             /\ n \notin Enabled => Trained(w, Enabled, g)[n] = w[n]
             /\ n \in Enabled /\ g[n] # {} => Len(attempts) \in Trained(w, Enabled, g)[n]
  <2>1. Trained(w, Enabled, g)[n] =
          w[n] \cup (IF n \in Enabled THEN {b.attempt : b \in g[n]} ELSE {})
    BY DEF Trained
  <2> QED
    BY <1>1, <2>1
<1>3. CASE algo = "fpo"
  BY <1>2, <1>3, AttemptsType DEF optimizer_step
<1>4. CASE algo # "fpo"
  BY <1>2, <1>4, AttemptsType DEF optimizer_step
<1> QED
  BY <1>3, <1>4

-----------------------------------------------------------------------------
(* Warm-up.  The learn step under way is remembered with the warm-up it    *)
(* was begun in, and no gradient of another one is there.                  *)
Clean(weights, as) == \A i \in weights["actor"] \ {Pretrained} : ~as[i].warmup
Warm ==
  /\ Clean(model, attempts) /\ Clean(master_weights, attempts)
  /\ checkpoint # None => Clean(checkpoint.model, checkpoint.attempts)
  /\ Learning => attempts[Len(attempts)].warmup = in_critic_warmup
WarmInv == TypeInv /\ Warm

LEMMA RestoreClean ==
  ASSUME NEW as
  PROVE  Clean(_restore_from, as) /\ Clean(sync_from_model(_restore_from), as)
<1>1. _restore_from["actor"] \subseteq {Pretrained}
      /\ sync_from_model(_restore_from)["actor"] \subseteq {Pretrained}
  BY DEF _restore_from, sync_from_model
<1> QED
  BY <1>1 DEF Clean

LEMMA InitWarm == Init => WarmInv
BY InitTypes, RestoreClean DEF Init, WarmInv, Warm, Learning

LEMMA StepWarm ==
  ASSUME WarmInv, [Next]_vars
  PROVE  WarmInv'
<1>0. TypeInv /\ TypeInv' /\ Warm
  BY StepTypes DEF WarmInv
<1>1. ASSUME LoopStep PROVE Warm'
  <2>1. /\ Learning /\ attempts # <<>> /\ UNCHANGED <<curr_train_itrs, checkpoint, attempts>>
        /\ \/ no_step
           \/ \E g \in OwnGradients, d \in Nat : optimizer_step(Enabled, g, d)
    BY <1>0, <1>1, LoopSteps
  <2>2. CASE no_step
    BY <1>0, <2>1, <2>2 DEF no_step, Warm, Clean, in_critic_warmup
  <2>3. ASSUME NEW g \in OwnGradients, NEW d \in Nat, optimizer_step(Enabled, g, d)
        PROVE  Clean(model', attempts) /\ Clean(master_weights', attempts)
    <3>1. /\ Len(attempts) \in model'["actor"] =>
                \/ ~attempts[Len(attempts)].warmup
                \/ Len(attempts) \in model["actor"] \cup master_weights["actor"]
          /\ model'["actor"] \subseteq
               model["actor"] \cup master_weights["actor"] \cup {Len(attempts)}
          /\ master_weights' \in {model', master_weights}
      <4>1. "actor" \in Networks
        OBVIOUS
      <4> QED
        BY <1>0, <2>1, <2>3, <4>1, StepWeights DEF Warm, Enabled
    <3> QED
      BY <1>0, <3>1 DEF Warm, Clean
  <2> QED
    BY <1>0, <2>1, <2>2, <2>3 DEF Warm, Clean, in_critic_warmup
<1>2. CASE StartLearn
  <2>1. [frames |-> frames, warmup |-> in_critic_warmup, complete |-> FALSE] \in Attempt
    BY <1>0 DEF TypeInv, TypeOK, Attempt, in_critic_warmup
  <2>2. /\ \A i \in 1 .. Len(attempts) : attempts'[i] = attempts[i]
        /\ Len(attempts') = Len(attempts) + 1
        /\ attempts'[Len(attempts) + 1].warmup = in_critic_warmup
    BY <1>0, <1>2, <2>1, AttemptsType, AppendProperties DEF StartLearn
  <2>3. \A w \in {model, master_weights} : Clean(w, attempts) => Clean(w, attempts')
    BY <1>0, <2>2, AttemptsType DEF Clean, Pretrained
  <2> QED
    BY <1>0, <1>2, <2>2, <2>3 DEF StartLearn, WarmInv, Warm, in_critic_warmup
<1>3. CASE FinishLearn
  <2>1. \A i \in 1 .. Len(attempts) : attempts'[i].warmup = attempts[i].warmup
    <3>1. attempts' = [attempts EXCEPT ![Len(attempts)] =
                         [attempts[Len(attempts)] EXCEPT !.complete = TRUE]]
      BY <1>3 DEF FinishLearn
    <3>2. /\ DOMAIN attempts = 1 .. Len(attempts)
          /\ \A i \in 1 .. Len(attempts) : attempts[i] \in Attempt
      BY <1>0, AttemptsType, LenProperties, ElementOfSeq
    <3> QED
      BY <3>1, <3>2 DEF Attempt
  <2>2. \A w \in {model, master_weights} : Clean(w, attempts) => Clean(w, attempts')
    BY <1>0, <2>1, AttemptsType DEF Clean, Pretrained
  <2> QED
    BY <1>0, <1>3, <2>2 DEF FinishLearn, WarmInv, Warm, Learning
<1>4. CASE SavedOnExit \/ Crash
  <2>1. pc' = "down" /\ Clean(model', attempts') /\ Clean(master_weights', attempts')
    BY <1>4, RestoreClean DEF SavedOnExit, Crash, Gone, sync_from_model
  <2>2. checkpoint' # None => Clean(checkpoint'.model, checkpoint'.attempts)
    BY <1>0, <1>4 DEF SavedOnExit, Crash, Snapshot, Warm
  <2> QED
    BY <1>0, <2>1, <2>2 DEF WarmInv, Warm, Learning
<1>5. CASE Saved
  BY <1>0, <1>5 DEF Saved, Snapshot, WarmInv, Warm, Learning
<1>6. CASE Restart
  <2>1. pc' = "cycle" /\ checkpoint' = checkpoint
    BY <1>6 DEF Restart
  <2>2. CASE checkpoint # None /\ load_checkpoint(checkpoint)
    <3>1. /\ model' = checkpoint.model /\ attempts' = checkpoint.attempts
          /\ master_weights'["actor"] \subseteq model'["actor"]
      BY <1>0, <2>2 DEF load_checkpoint, sync_from_model
    <3> QED
      BY <1>0, <2>1, <2>2, <3>1 DEF WarmInv, Warm, Clean, Learning
  <2>3. CASE UNCHANGED <<model, master_weights, attempts>>
    BY <1>0, <2>1, <2>3 DEF WarmInv, Warm, Learning
  <2> QED
    BY <1>6, <2>2, <2>3 DEF Restart
<1>7. CASE \/ feedback \/ StartSave \/ NothingToSave \/ RequestStop \/ SaveOnExit
           \/ UNCHANGED vars
  BY <1>0, <1>7
  DEF feedback, StartSave, NothingToSave, RequestStop, SaveOnExit, create_checkpoint,
      WarmInv, Warm, Learning, in_critic_warmup
<1> QED
  BY <1>0, <1>1, <1>2, <1>3, <1>4, <1>5, <1>6, <1>7 DEF Next, LoopStep, WarmInv

(* For every length of the warm-up, no gradient of a warm-up iteration     *)
(* gets into the actor (_step_optimizers, zero_grad), whatever becomes of  *)
(* the process.                                                            *)
THEOREM WarmupKeepsActorHolds == Spec => []WarmupKeepsActor
<1>1. WarmInv => WarmupKeepsActor
  BY DEF WarmInv, Warm, Clean, WarmupKeepsActor
<1> QED
  BY InitWarm, StepWarm, <1>1, PTL DEF Spec

-----------------------------------------------------------------------------
(* What a kill costs.  No iteration at which a save is due lies between    *)
(* the one saved last and this one, unless the scheduler is about to look. *)
Quiet(itrs, saved) ==
  IF algo = "fpo" THEN itrs < saved + SaveInterval
  ELSE SaveInterval * (itrs \div SaveInterval) <= saved
Due(itrs, saved) ==
  /\ itrs <= saved + SaveInterval
  /\ algo # "fpo" => itrs % SaveInterval = 0
SavedItrs(c) == IF c = None THEN 0 ELSE c.train_itrs
SaveStates == {"saving", "exit_saving"}
Cost ==
  /\ checkpoint # None => checkpoint.last_saved_itr = checkpoint.train_itrs
  /\ pc = "down" => curr_train_itrs = 0 /\ last_saved_itr = 0
  /\ pc \in SaveStates => /\ last_saved_itr = curr_train_itrs
                         /\ curr_train_itrs <= SaveInterval + SavedItrs(checkpoint)
  /\ pc \notin SaveStates \cup {"down"} => last_saved_itr = SavedItrs(checkpoint)
  /\ pc \notin SaveStates \cup {"save_section"} => Quiet(curr_train_itrs, last_saved_itr)
  /\ pc = "save_section" => \/ Quiet(curr_train_itrs, last_saved_itr)
                            \/ Due(curr_train_itrs, last_saved_itr)
CostInv == TypeInv /\ Cost

LEMMA QuietIsNear ==
  ASSUME NEW i \in Nat, NEW l \in Nat, Quiet(i, l) \/ Due(i, l)
  PROVE  i <= l + SaveInterval
<1>1. CASE Quiet(i, l) /\ algo # "fpo"
  <2>1. /\ i % SaveInterval \in 0 .. SaveInterval - 1 /\ i \div SaveInterval \in Nat
        /\ i = SaveInterval * (i \div SaveInterval) + (i % SaveInterval)
    BY DivMod
  <2> DEFINE m == SaveInterval * (i \div SaveInterval)
  <2>2. m \in Int /\ m <= l /\ i = m + (i % SaveInterval)
    BY <1>1, <2>1 DEF Quiet
  <2> HIDE DEF m
  <2> QED
    BY <2>1, <2>2
<1> QED
  BY <1>1 DEF Quiet, Due

LEMMA QuietWhenSaved ==
  ASSUME NEW i \in Nat
  PROVE  Quiet(i, i)
<1>1. /\ i % SaveInterval \in 0 .. SaveInterval - 1 /\ i \div SaveInterval \in Nat
      /\ i = SaveInterval * (i \div SaveInterval) + (i % SaveInterval)
  BY DivMod
<1> DEFINE m == SaveInterval * (i \div SaveInterval)
<1>2. m \in Int /\ i = m + (i % SaveInterval)
  BY <1>1
<1> HIDE DEF m
<1>3. m <= i
  BY <1>1, <1>2
<1> QED
  BY <1>3 DEF Quiet, m

LEMMA QuietUnlessDue ==
  ASSUME NEW i \in Nat, NEW l \in Nat, Quiet(i, l)
  PROVE  Quiet(i + 1, l) \/ Due(i + 1, l)
<1>1. CASE algo = "fpo"
  BY <1>1 DEF Quiet, Due
<1>2. CASE algo # "fpo"
  <2> DEFINE q == i \div SaveInterval
             r == i % SaveInterval
             u == (i + 1) \div SaveInterval
             v == (i + 1) % SaveInterval
  <2>1. /\ q \in Nat /\ r \in 0 .. SaveInterval - 1 /\ i = SaveInterval * q + r
        /\ u \in Nat /\ v \in 0 .. SaveInterval - 1 /\ i + 1 = SaveInterval * u + v
    <3>1. i + 1 \in Nat
      OBVIOUS
    <3> QED
      BY <3>1, DivMod
  <2>2. SaveInterval * q <= l /\ SaveInterval * q \in Int
    BY <1>2, <2>1 DEF Quiet
  <2> HIDE DEF q, r, u, v
  <2>3. CASE r + 1 < SaveInterval
    <3>1. r + 1 \in 0 .. SaveInterval - 1 /\ i + 1 = SaveInterval * q + (r + 1)
      BY <2>1, <2>2, <2>3
    <3>2. u = q
      BY <2>1, <3>1, DivUnique
    <3> QED
      BY <1>2, <2>2, <3>2 DEF Quiet, u
  <2>4. CASE r + 1 = SaveInterval
    <3>1. /\ SaveInterval * (q + 1) = SaveInterval * q + SaveInterval
          /\ q + 1 \in Int /\ 0 \in 0 .. SaveInterval - 1
      BY <2>1
    <3>2. i + 1 = SaveInterval * (q + 1) + 0 /\ i + 1 <= l + SaveInterval
      BY <2>1, <2>2, <2>4, <3>1
    <3>3. u = q + 1
      BY <2>1, <3>1, <3>2, DivUnique
    <3>4. v = 0
      BY <2>1, <2>2, <3>1, <3>2, <3>3
    <3> QED
      BY <3>2, <3>4 DEF Due, v
  <2> QED
    BY <2>1, <2>3, <2>4
<1> QED
  BY <1>1, <1>2

LEMMA SavedItrsType ==
  ASSUME TypeInv
  PROVE  SavedItrs(checkpoint) \in Nat
BY DEF TypeInv, CheckpointOK, SavedItrs

LEMMA InitCost == Init => CostInv
BY InitTypes, QuietWhenSaved DEF Init, CostInv, Cost, SavedItrs, SaveStates

LEMMA StepCost ==
  ASSUME CostInv, [Next]_vars
  PROVE  CostInv'
<1>0. /\ TypeInv /\ TypeInv' /\ Cost
      /\ curr_train_itrs \in Nat /\ last_saved_itr \in Nat
      /\ SavedItrs(checkpoint) \in Nat
  BY StepTypes, SavedItrsType DEF CostInv, TypeInv, TypeOK
<1>1. CASE LoopStep
  <2>1. /\ pc = "learning" /\ pc' \in {"learning", "learnt", "save_section"}
        /\ UNCHANGED <<algo, curr_train_itrs, last_saved_itr, checkpoint>>
    BY <1>0, <1>1, LoopSteps
  <2> QED
    BY <1>0, <2>1 DEF CostInv, Cost, Quiet, SaveStates
<1>2. CASE feedback \/ StartLearn \/ RequestStop \/ UNCHANGED vars
  BY <1>0, <1>2
  DEF feedback, StartLearn, RequestStop, CostInv, Cost, Quiet, Due, SaveStates
<1>3. CASE FinishLearn
  <2>1. /\ pc = "learnt" /\ pc' = "save_section" /\ curr_train_itrs' = curr_train_itrs + 1
        /\ UNCHANGED <<algo, last_saved_itr, checkpoint>>
    BY <1>3 DEF FinishLearn
  <2>2. Quiet(curr_train_itrs, last_saved_itr) /\ last_saved_itr = SavedItrs(checkpoint)
    BY <1>0, <2>1 DEF Cost, SaveStates
  <2>3. \/ Quiet(curr_train_itrs + 1, last_saved_itr)
        \/ Due(curr_train_itrs + 1, last_saved_itr)
    BY <1>0, <2>2, QuietUnlessDue
  <2>4. \/ Quiet(curr_train_itrs, last_saved_itr)'
        \/ Due(curr_train_itrs, last_saved_itr)'
    BY <2>1, <2>3 DEF Quiet, Due
  <2> QED
    BY <1>0, <2>1, <2>2, <2>4 DEF CostInv, Cost, SaveStates
<1>4. CASE StartSave \/ SaveOnExit
  <2>1. /\ pc \in {"cycle", "save_section"} /\ pc' \in SaveStates
        /\ last_saved_itr' = curr_train_itrs /\ UNCHANGED <<curr_train_itrs, checkpoint>>
    BY <1>4 DEF StartSave, SaveOnExit, create_checkpoint, SaveStates
  <2>2. curr_train_itrs <= SaveInterval + SavedItrs(checkpoint)
    <3>1. /\ last_saved_itr = SavedItrs(checkpoint)
          /\ \/ Quiet(curr_train_itrs, last_saved_itr)
             \/ Due(curr_train_itrs, last_saved_itr)
      BY <1>0, <2>1 DEF Cost, SaveStates
    <3> QED
      BY <1>0, <3>1, QuietIsNear
  <2> QED
    BY <1>0, <2>1, <2>2 DEF CostInv, Cost, SaveStates
<1>5. CASE NothingToSave
  <2>1. /\ pc = "save_section" /\ pc' = "cycle" /\ ~should_save
        /\ UNCHANGED <<algo, curr_train_itrs, last_saved_itr, checkpoint>>
    BY <1>5 DEF NothingToSave
  <2>2. CASE Quiet(curr_train_itrs, last_saved_itr)
    BY <1>0, <2>1, <2>2 DEF CostInv, Cost, Quiet, SaveStates
  <2>3. CASE Due(curr_train_itrs, last_saved_itr)
    <3>1. Quiet(curr_train_itrs, last_saved_itr)
      <4>1. CASE algo = "fpo"
        BY <1>0, <2>1, <4>1 DEF should_save, Quiet
      <4>2. CASE algo # "fpo"
        <5>1. curr_train_itrs <= last_saved_itr
          BY <1>0, <2>1, <2>3, <4>2 DEF should_save, Due
        <5> DEFINE m == SaveInterval * (curr_train_itrs \div SaveInterval)
        <5>2. m <= curr_train_itrs /\ m \in Int
          <6>1. curr_train_itrs \div SaveInterval \in Nat
            BY <1>0, DivMod
          <6> QED
            BY <1>0, <4>2, <6>1, QuietWhenSaved DEF Quiet
        <5> HIDE DEF m
        <5>3. m <= last_saved_itr
          BY <1>0, <5>1, <5>2
        <5> QED
          BY <4>2, <5>3 DEF Quiet, m
      <4> QED
        BY <4>1, <4>2
    <3> QED
      BY <1>0, <2>1, <3>1 DEF CostInv, Cost, Quiet, SaveStates
  <2> QED
    BY <1>0, <2>1, <2>2, <2>3 DEF Cost
<1>6. CASE Saved
  <2>1. /\ pc = "saving" /\ pc' \in {"stopped", "cycle"} /\ checkpoint' = Snapshot
        /\ UNCHANGED <<algo, curr_train_itrs, last_saved_itr>>
    BY <1>6 DEF Saved
  <2>2. last_saved_itr = curr_train_itrs
    BY <1>0, <2>1 DEF Cost, SaveStates
  <2>3. /\ Snapshot # None /\ Snapshot.train_itrs = curr_train_itrs
        /\ Snapshot.last_saved_itr = last_saved_itr
    BY <1>0 DEF Snapshot, None, TypeInv, TypeOK
  <2>4. Quiet(curr_train_itrs, last_saved_itr)'
    BY <1>0, <2>1, <2>2, QuietWhenSaved DEF Quiet
  <2> QED
    BY <1>0, <2>1, <2>2, <2>3, <2>4 DEF CostInv, Cost, SavedItrs, SaveStates
<1>7. CASE SavedOnExit \/ Crash
  <2>1. /\ pc' = "down" /\ curr_train_itrs' = 0 /\ last_saved_itr' = 0
    BY <1>7 DEF SavedOnExit, Crash, Gone
  <2>2. checkpoint' # None => checkpoint'.last_saved_itr = checkpoint'.train_itrs
    <3>1. CASE SavedOnExit
      BY <1>0, <3>1 DEF SavedOnExit, Snapshot, Cost, SaveStates
    <3>2. CASE Crash
      BY <1>0, <3>2 DEF Crash, Cost
    <3> QED
      BY <1>7, <3>1, <3>2
  <2>3. Quiet(curr_train_itrs, last_saved_itr)'
    <3>1. algo' = algo /\ Quiet(0, 0)
      BY <1>7, QuietWhenSaved DEF SavedOnExit, Crash
    <3> QED
      BY <2>1, <3>1 DEF Quiet
  <2> QED
    BY <1>0, <2>1, <2>2, <2>3 DEF CostInv, Cost, SaveStates
<1>8. CASE Restart
  <2>1. pc = "down" /\ pc' = "cycle" /\ checkpoint' = checkpoint /\ algo' = algo
    BY <1>8 DEF Restart
  <2>2. curr_train_itrs' = SavedItrs(checkpoint) /\ last_saved_itr' = SavedItrs(checkpoint)
    BY <1>0, <1>8, <2>1 DEF Restart, load_checkpoint, Cost, SavedItrs
  <2>3. Quiet(curr_train_itrs, last_saved_itr)'
    BY <1>0, <2>1, <2>2, QuietWhenSaved DEF Quiet
  <2> QED
    BY <1>0, <2>1, <2>2, <2>3 DEF CostInv, Cost, SaveStates
<1> QED
  BY <1>1, <1>2, <1>3, <1>4, <1>5, <1>6, <1>7, <1>8 DEF Next, LoopStep

(* Whatever the interval and whenever the process is killed, the latest    *)
(* checkpoint is at most save_interval finished iterations old             *)
(* (should_save, create_checkpoint, load_checkpoint).                      *)
THEOREM KillCostHolds == Spec => []KillCostsAtMostAnInterval
<1>1. CostInv => KillCostsAtMostAnInterval
  <2> SUFFICES ASSUME CostInv, pc # "down"
               PROVE  curr_train_itrs <= SaveInterval + SavedItrs(checkpoint)
    BY DEF KillCostsAtMostAnInterval, SavedItrs, Up
  <2>1. /\ curr_train_itrs \in Nat /\ last_saved_itr \in Nat /\ SavedItrs(checkpoint) \in Nat
        /\ Cost
    BY SavedItrsType DEF CostInv, TypeInv, TypeOK
  <2>2. CASE pc \in SaveStates
    BY <2>2 DEF CostInv, Cost
  <2>3. CASE pc \notin SaveStates
    <3>1. /\ last_saved_itr = SavedItrs(checkpoint)
          /\ \/ Quiet(curr_train_itrs, last_saved_itr)
             \/ Due(curr_train_itrs, last_saved_itr)
      BY <2>1, <2>3 DEF Cost
    <3> QED
      BY <2>1, <3>1, QuietIsNear
  <2> QED
    BY <2>2, <2>3
<1> QED
  BY InitCost, StepCost, <1>1, PTL DEF Spec

-----------------------------------------------------------------------------
(* Minibatches.  For a network that learns, the windows of this learn step *)
(* and what waits in .grad divide among them what the loop has seen.       *)
UsedBy(ws) == UNION {ws[i].batches : i \in DOMAIN ws}
Disjoint(ws) ==
  \A i, j \in DOMAIN ws : i # j => ws[i].batches \cap ws[j].batches = {}
Mean(w, k) ==
  /\ w.divisor = Cardinality(w.batches)
  /\ \A a, b \in w.batches : a.epoch = b.epoch
  /\ \A a \in w.batches : a.attempt = k
Means(ws, k) == \A i \in DOMAIN ws : Mean(ws[i], k)

Waiting(n) ==
  /\ IsFiniteSet(gradients[n]) /\ Cardinality(gradients[n]) = loop.pending
  /\ \A b \in gradients[n] : b.epoch = loop.epoch /\ b.index < loop.index
  /\ UsedBy(windows[n]) \cup gradients[n] = Seen
  /\ UsedBy(windows[n]) \cap gradients[n] = {}
Accounts ==
  /\ \A n \in Networks : Means(windows[n], Len(attempts)) /\ Disjoint(windows[n])
  /\ Learning => \A n \in Networks \ Enabled : windows[n] = <<>>
  /\ pc = "learning" => \A n \in Enabled : Waiting(n)
  /\ pc = "learnt" => (\A n \in Enabled : UsedBy(windows[n]) = Seen) /\ loop.index > 1
  /\ loop.break_flag => loop.index > 1
  /\ pc = "down" => windows = Nets(<<>>)
AccountsInv == TypeInv /\ Accounts

LEMMA NoWindows ==
  ASSUME NEW k
  PROVE  UsedBy(<<>>) = {} /\ Means(<<>>, k) /\ Disjoint(<<>>)
<1>1. DOMAIN <<>> = {}
  OBVIOUS
<1> QED
  BY <1>1 DEF UsedBy, Means, Disjoint

LEMMA AppendedWindow ==
  ASSUME NEW ws \in Seq(Window), NEW w \in Window, NEW k
  PROVE  /\ UsedBy(Append(ws, w)) = UsedBy(ws) \cup w.batches
         /\ Disjoint(ws) /\ w.batches \cap UsedBy(ws) = {} => Disjoint(Append(ws, w))
         /\ Means(ws, k) /\ Mean(w, k) => Means(Append(ws, w), k)
<1> DEFINE as == Append(ws, w)
<1>1. /\ Len(ws) \in Nat /\ DOMAIN ws = 1 .. Len(ws) /\ as \in Seq(Window)
      /\ Len(as) = Len(ws) + 1 /\ as[Len(ws) + 1] = w
      /\ \A i \in DOMAIN ws : as[i] = ws[i]
  BY LenProperties, AppendProperties
<1>2. DOMAIN as = DOMAIN ws \cup {Len(ws) + 1}
  <2>1. DOMAIN as = 1 .. Len(ws) + 1
    BY <1>1, LenProperties
  <2> QED
    BY <1>1, <2>1
<1>3. Len(ws) + 1 \notin DOMAIN ws
  BY <1>1
<1> HIDE DEF as
<1>4. UsedBy(as) = UsedBy(ws) \cup w.batches
  <2>1. ASSUME NEW x \in UsedBy(as) PROVE x \in UsedBy(ws) \cup w.batches
    <3>1. PICK i \in DOMAIN as : x \in as[i].batches
      BY DEF UsedBy
    <3> QED
      BY <1>1, <1>2, <3>1 DEF UsedBy
  <2>2. ASSUME NEW x \in UsedBy(ws) PROVE x \in UsedBy(as)
    <3>1. PICK i \in DOMAIN ws : x \in ws[i].batches
      BY DEF UsedBy
    <3>2. i \in DOMAIN as /\ as[i] = ws[i]
      BY <1>1, <1>2
    <3> QED
      BY <3>1, <3>2 DEF UsedBy
  <2>3. w.batches \subseteq UsedBy(as)
    <3>1. Len(ws) + 1 \in DOMAIN as /\ as[Len(ws) + 1] = w
      BY <1>1, <1>2
    <3> QED
      BY <3>1 DEF UsedBy
  <2> QED
    BY <2>1, <2>2, <2>3
<1>5. ASSUME Disjoint(ws), w.batches \cap UsedBy(ws) = {} PROVE Disjoint(as)
  <2>1. \A i \in DOMAIN ws : ws[i].batches \cap w.batches = {}
    BY <1>5 DEF UsedBy
  <2> QED
    BY <1>1, <1>2, <1>3, <1>5, <2>1 DEF Disjoint
<1>6. Means(ws, k) /\ Mean(w, k) => Means(as, k)
  BY <1>1, <1>2 DEF Means
<1> QED
  BY <1>4, <1>5, <1>6 DEF as

(* An optimizer step that uses up batches of this pass adds a mean. *)
LEMMA StepAccounts ==
  ASSUME AccountsInv, pc = "learning", NEW g \in OwnGradients, NEW d \in Nat,
         optimizer_step(Enabled, g, d),
         \A n \in Enabled :
           /\ d = Cardinality(g[n])
           /\ \A a, b \in g[n] : a.epoch = b.epoch
           /\ g[n] \cap UsedBy(windows[n]) = {}
  PROVE  /\ \A n \in Networks : Means(windows'[n], Len(attempts)) /\ Disjoint(windows'[n])
         /\ \A n \in Networks \ Enabled : windows'[n] = <<>>
         /\ \A n \in Enabled : UsedBy(windows'[n]) = UsedBy(windows[n]) \cup g[n]
<1>0. Accounts /\ windows \in [Networks -> Seq(Window)] /\ Learning
  BY DEF AccountsInv, TypeInv, Learning
<1>1. ASSUME NEW n \in Networks, n \in Enabled
      PROVE  /\ Means(windows'[n], Len(attempts)) /\ Disjoint(windows'[n])
             /\ UsedBy(windows'[n]) = UsedBy(windows[n]) \cup g[n]
  <2> DEFINE w == [batches |-> g[n], divisor |-> d]
  <2>1. w \in Window /\ w.batches = g[n] /\ windows[n] \in Seq(Window)
    BY <1>0 DEF Window, OwnGradients
  <2>2. Mean(w, Len(attempts))
    BY <1>1 DEF Mean, OwnGradients
  <2>3. windows'[n] = Append(windows[n], w)
    BY <1>1 DEF optimizer_step
  <2>4. Means(windows[n], Len(attempts)) /\ Disjoint(windows[n])
        /\ g[n] \cap UsedBy(windows[n]) = {}
    BY <1>0, <1>1 DEF Accounts
  <2> HIDE DEF w
  <2> QED
    BY <2>1, <2>2, <2>3, <2>4, AppendedWindow
<1>2. ASSUME NEW n \in Networks, n \notin Enabled
      PROVE  windows'[n] = <<>> /\ Means(windows'[n], Len(attempts)) /\ Disjoint(windows'[n])
  <2>1. windows'[n] = windows[n] /\ windows[n] = <<>>
    BY <1>0, <1>2 DEF optimizer_step, Accounts
  <2> QED
    BY <2>1, NoWindows
<1>3. Enabled \subseteq Networks
  BY DEF Enabled
<1> QED
  BY <1>1, <1>2, <1>3

(* One more minibatch has been seen; a whole epoch has. *)
SeenOf(k, e, i) ==
  {b \in [attempt : {k}, epoch : 1 .. Epochs, index : 1 .. Minibatches] :
     \/ b.epoch < e
     \/ b.epoch = e /\ b.index < i}

LEMMA SeenIs ==
  /\ Seen = SeenOf(Len(attempts), loop.epoch, loop.index)
  /\ Seen' = SeenOf(Len(attempts'), loop'.epoch, loop'.index)
BY DEF Seen, SeenOf

LEMMA SeenNext ==
  ASSUME NEW k, NEW e \in 1 .. Epochs, NEW i \in 1 .. Minibatches,
         NEW x \in {[attempt |-> k, epoch |-> e, index |-> i]}
  PROVE  SeenOf(k, e, i + 1) = SeenOf(k, e, i) \cup {x} /\ x \notin SeenOf(k, e, i)
<1> DEFINE All == [attempt : {k}, epoch : 1 .. Epochs, index : 1 .. Minibatches]
<1>1. x \in All /\ x.epoch = e /\ x.index = i
  OBVIOUS
<1>2. ASSUME NEW b \in All, b.epoch = e, b.index = i PROVE b = x
  BY <1>2
<1>3. \A b \in All : b.index \in Nat /\ b.epoch \in Nat
  OBVIOUS
<1>4. \A j : SeenOf(k, e, j) = {b \in All : b.epoch < e \/ (b.epoch = e /\ b.index < j)}
  BY DEF SeenOf
<1> HIDE DEF All
<1>5. \A b \in All : b.index < i + 1 <=> b.index < i \/ b.index = i
  BY <1>3
<1>6. ~(e < e) /\ ~(i < i) /\ i < i + 1
  OBVIOUS
<1> QED
  BY <1>1, <1>2, <1>4, <1>5, <1>6

LEMMA SeenEpoch ==
  ASSUME NEW k, NEW e \in 1 .. Epochs
  PROVE  SeenOf(k, e + 1, 1) = SeenOf(k, e, Minibatches + 1)
<1> DEFINE All == [attempt : {k}, epoch : 1 .. Epochs, index : 1 .. Minibatches]
<1>1. \A b \in All : b.epoch \in Nat /\ b.index \in 1 .. Minibatches
  OBVIOUS
<1>2. \A b \in All : /\ b.epoch < e + 1 <=> b.epoch < e \/ b.epoch = e
                    /\ b.index < Minibatches + 1 /\ ~(b.index < 1)
  BY <1>1
<1>3. /\ SeenOf(k, e + 1, 1) =
           {b \in All : b.epoch < e + 1 \/ (b.epoch = e + 1 /\ b.index < 1)}
      /\ SeenOf(k, e, Minibatches + 1) =
           {b \in All : b.epoch < e \/ (b.epoch = e /\ b.index < Minibatches + 1)}
  BY DEF SeenOf
<1> HIDE DEF All
<1> QED
  BY <1>2, <1>3

LEMMA InitAccounts == Init => AccountsInv
BY InitTypes, NoWindows DEF Init, AccountsInv, Accounts, Learning, NoLoop

(* PPO and FPO step at once, DPPO when the window closes. *)
LEMMA MinibatchAccounts ==
  ASSUME AccountsInv, NEW drift \in BOOLEAN, LearnMinibatch(drift)
  PROVE  Accounts'
<1>0. /\ TypeInv /\ Accounts /\ pc = "learning" /\ Learning /\ loop.index <= Minibatches
      /\ pc' = "learning" /\ attempts' = attempts /\ curr_train_itrs' = curr_train_itrs
  BY DEF AccountsInv, LearnMinibatch, Learning
<1>1. /\ loop.index \in 1 .. Minibatches /\ loop.pending \in Nat
      /\ loop.epoch \in 1 .. Epochs /\ loop \in Loop
  BY <1>0, AttemptsType DEF Loop
<1>2. /\ loop'.epoch = loop.epoch /\ loop'.index = loop.index + 1 /\ loop'.index > 1
      /\ loop'.pending = IF algo = "dppo" /\ ~window_closes THEN loop.pending + 1 ELSE 0
  <2> DEFINE p == IF algo = "dppo" /\ ~window_closes THEN loop.pending + 1 ELSE 0
  <2>1. loop' = [loop EXCEPT !.index = loop.index + 1, !.break_flag = drift, !.pending = p]
    BY DEF LearnMinibatch
  <2>2. loop.index + 1 > 1
    BY <1>1
  <2> HIDE DEF p
  <2>3. loop'.epoch = loop.epoch /\ loop'.index = loop.index + 1 /\ loop'.pending = p
    BY <1>1, <2>1 DEF Loop
  <2> QED
    BY <2>2, <2>3 DEF p
<1>3. Seen' = Seen \cup {Batch} /\ Batch \notin Seen
  <2>1. Batch = [attempt |-> Len(attempts), epoch |-> loop.epoch, index |-> loop.index]
    BY DEF Batch
  <2>2. /\ SeenOf(Len(attempts), loop.epoch, loop.index + 1) =
             SeenOf(Len(attempts), loop.epoch, loop.index) \cup {Batch}
        /\ Batch \notin SeenOf(Len(attempts), loop.epoch, loop.index)
    <3> DEFINE k == Len(attempts)
               x == Batch
    <3>1. x \in {[attempt |-> k, epoch |-> loop.epoch, index |-> loop.index]}
      BY <2>1
    <3>2. loop.epoch \in 1 .. Epochs /\ loop.index \in 1 .. Minibatches
      BY <1>1
    <3> HIDE DEF k, x
    <3>3. /\ SeenOf(k, loop.epoch, loop.index + 1) = SeenOf(k, loop.epoch, loop.index) \cup {x}
          /\ x \notin SeenOf(k, loop.epoch, loop.index)
      BY <3>1, <3>2, SeenNext
    <3> QED
      BY <3>3 DEF k, x
  <2> QED
    BY <1>0, <1>2, <2>2, SeenIs
<1>4. /\ Enabled \subseteq Networks /\ Enabled' = Enabled
      /\ Batch.epoch = loop.epoch /\ Batch.index = loop.index
      /\ Nets({Batch}) \in OwnGradients /\ backward \in OwnGradients
      /\ \A n \in Networks : backward[n] = gradients[n] \cup {Batch}
  BY <1>0, BatchType DEF Enabled, in_critic_warmup, OwnGradients, backward
<1>5. \A n \in Enabled : Waiting(n)
  BY <1>0 DEF Accounts
<1>6. ASSUME NEW n \in Enabled
      PROVE  /\ Batch \notin gradients[n] /\ Batch \notin UsedBy(windows[n])
             /\ IsFiniteSet(backward[n]) /\ Cardinality(backward[n]) = loop.pending + 1
             /\ \A b \in backward[n] : b.epoch = loop.epoch /\ b.index < loop.index + 1
  <2>1. Batch \notin gradients[n] /\ Batch \notin UsedBy(windows[n])
    BY <1>3, <1>5 DEF Waiting
  <2>2. IsFiniteSet(backward[n]) /\ Cardinality(backward[n]) = loop.pending + 1
    <3>1. ASSUME NEW S, IsFiniteSet(S), Batch \notin S
          PROVE  IsFiniteSet(S \cup {Batch}) /\ Cardinality(S \cup {Batch}) = Cardinality(S) + 1
      BY <3>1, FS_AddElement
    <3>2. n \in Networks /\ backward[n] = gradients[n] \cup {Batch}
      BY <1>4
    <3>3. IsFiniteSet(gradients[n]) /\ Cardinality(gradients[n]) = loop.pending
      BY <1>5 DEF Waiting
    <3> QED
      BY <2>1, <3>1, <3>2, <3>3
  <2>3. \A b \in gradients[n] : b.epoch = loop.epoch /\ b.index < loop.index + 1
    <3>1. \A b \in gradients[n] : b.index \in Nat
      BY <1>0, <1>4 DEF TypeInv, TypeOK, Minibatch
    <3> QED
      BY <1>1, <1>5, <3>1 DEF Waiting
  <2> QED
    BY <1>1, <1>4, <2>1, <2>2, <2>3
<1>7. CASE algo # "dppo" /\ backward_and_step(Batch)
  <2>1. gradients' = Empty /\ gradients = Empty /\ optimizer_step(Enabled, Nets({Batch}), 1)
    BY <1>0, <1>7 DEF backward_and_step, TypeInv, Under
  <2>2. \A n \in Enabled :
          /\ 1 = Cardinality(Nets({Batch})[n])
          /\ \A a, b \in Nets({Batch})[n] : a.epoch = b.epoch
          /\ Nets({Batch})[n] \cap UsedBy(windows[n]) = {}
    <3>1. Cardinality({Batch}) = 1
      BY FS_Singleton
    <3>2. \A n \in Enabled : Nets({Batch})[n] = {Batch}
      BY <1>4
    <3> QED
      BY <1>6, <3>1, <3>2
  <2>3. /\ \A n \in Networks : Means(windows'[n], Len(attempts)) /\ Disjoint(windows'[n])
        /\ \A n \in Networks \ Enabled : windows'[n] = <<>>
        /\ \A n \in Enabled : UsedBy(windows'[n]) = UsedBy(windows[n]) \cup {Batch}
    <3> DEFINE g == Nets({Batch})
    <3>1. g \in OwnGradients /\ 1 \in Nat /\ \A n \in Enabled : g[n] = {Batch}
      BY <1>4
    <3>2. optimizer_step(Enabled, g, 1)
      BY <2>1
    <3>3. \A n \in Enabled : /\ 1 = Cardinality(g[n]) /\ g[n] \cap UsedBy(windows[n]) = {}
                             /\ \A a, b \in g[n] : a.epoch = b.epoch
      BY <2>2
    <3> HIDE DEF g
    <3> QED
      BY <1>0, <3>1, <3>2, <3>3, StepAccounts
  <2>4. \A n \in Enabled : Waiting(n)'
    BY <1>2, <1>3, <1>4, <1>5, <1>7, <2>1, <2>3, FS_EmptySet DEF Waiting
  <2> QED
    BY <1>0, <1>2, <1>4, <2>3, <2>4 DEF Accounts, Learning
<1>8. CASE /\ algo = "dppo" /\ window_closes
           /\ optimizer_step_if_ready(backward, loop.pending + 1)
           /\ gradients' = _step_optimizers(backward, FALSE)
  <2>1. /\ \A n \in Enabled : gradients'[n] = {}
        /\ optimizer_step(Enabled, backward, loop.pending + 1) /\ loop.pending + 1 \in Nat
    <3>1. \A n \in Networks :
            _step_optimizers(backward, FALSE)[n] = IF n \in Enabled THEN {} ELSE backward[n]
      BY DEF _step_optimizers
    <3>2. \A n \in Enabled : gradients'[n] = {}
      BY <1>4, <1>8, <3>1
    <3>3. optimizer_step(Enabled, backward, loop.pending + 1)
      BY <1>8 DEF optimizer_step_if_ready
    <3> QED
      BY <1>1, <3>2, <3>3
  <2>2. \A n \in Enabled :
          /\ loop.pending + 1 = Cardinality(backward[n])
          /\ \A a, b \in backward[n] : a.epoch = b.epoch
          /\ backward[n] \cap UsedBy(windows[n]) = {}
    BY <1>4, <1>5, <1>6 DEF Waiting
  <2>3. /\ \A n \in Networks : Means(windows'[n], Len(attempts)) /\ Disjoint(windows'[n])
        /\ \A n \in Networks \ Enabled : windows'[n] = <<>>
        /\ \A n \in Enabled : UsedBy(windows'[n]) = UsedBy(windows[n]) \cup backward[n]
    BY <1>0, <1>4, <2>1, <2>2, StepAccounts
  <2>4. \A n \in Enabled : Waiting(n)'
    BY <1>2, <1>3, <1>4, <1>5, <1>8, <2>1, <2>3, FS_EmptySet DEF Waiting
  <2> QED
    BY <1>0, <1>2, <1>4, <2>3, <2>4 DEF Accounts, Learning
<1>9. CASE algo = "dppo" /\ ~window_closes /\ gradients' = backward /\ no_step
  <2>1. windows' = windows
    BY <1>9 DEF no_step
  <2>2. \A n \in Enabled : Waiting(n)'
    BY <1>2, <1>3, <1>4, <1>5, <1>6, <1>9, <2>1 DEF Waiting
  <2> QED
    BY <1>0, <1>2, <1>4, <2>1, <2>2 DEF Accounts, Learning
<1> QED
  BY <1>7, <1>8, <1>9 DEF LearnMinibatch

LEMMA InterruptedAccounts ==
  ASSUME AccountsInv, LearnInterrupted
  PROVE  Accounts'
<1>0. /\ TypeInv /\ Accounts /\ pc = "learning" /\ Learning /\ loop.index <= Minibatches
      /\ pc' = "save_section" /\ attempts' = attempts /\ loop' = NoLoop
  BY DEF AccountsInv, LearnInterrupted, Learning
<1>1. CASE algo # "dppo"
  <2>1. /\ Nets({Batch}) \in OwnGradients /\ Enabled \subseteq Networks /\ 1 \in Nat
        /\ optimizer_step(Enabled, Nets({Batch}), 1)
    BY <1>0, <1>1, BatchType
    DEF LearnInterrupted, backward_and_step, OwnGradients, Enabled
  <2>2. Batch \notin Seen
    <3>1. /\ loop.index \in Nat /\ Batch.index = loop.index /\ Batch.epoch = loop.epoch
          /\ loop.epoch \in Nat
      BY <1>0, BatchType, AttemptsType DEF Loop
    <3> QED
      BY <3>1 DEF Seen
  <2> DEFINE g == Nets({Batch})
  <2>3. g \in OwnGradients /\ optimizer_step(Enabled, g, 1)
        /\ \A n \in Enabled : g[n] = {Batch} /\ Batch \notin UsedBy(windows[n])
    BY <1>0, <2>1, <2>2 DEF Accounts, Waiting
  <2> HIDE DEF g
  <2>4. \A n \in Networks : Means(windows'[n], Len(attempts)) /\ Disjoint(windows'[n])
    <3>1. Cardinality({Batch}) = 1
      BY FS_Singleton
    <3>2. \A n \in Enabled : /\ 1 = Cardinality(g[n]) /\ g[n] \cap UsedBy(windows[n]) = {}
                             /\ \A a, b \in g[n] : a.epoch = b.epoch
      BY <2>3, <3>1
    <3> QED
      BY <1>0, <2>1, <2>3, <3>2, StepAccounts
  <2> QED
    BY <1>0, <2>4 DEF Accounts, Learning, NoLoop
<1>2. CASE algo = "dppo"
  BY <1>0, <1>2 DEF LearnInterrupted, no_step, Accounts, Learning, NoLoop
<1> QED
  BY <1>1, <1>2

(* What waits at the end of an epoch, or at a break, is flushed. *)
LEMMA EndEpochAccounts ==
  ASSUME AccountsInv, EndEpoch
  PROVE  Accounts'
<1> DEFINE last == loop.break_flag \/ loop.epoch = Epochs
           left == IF flushes THEN _step_optimizers(gradients, TRUE) ELSE gradients
<1>0. /\ TypeInv /\ Accounts /\ pc = "learning" /\ Learning
      /\ attempts' = attempts /\ curr_train_itrs' = curr_train_itrs /\ algo' = algo
      /\ loop.index > Minibatches \/ loop.break_flag
      /\ pc' = IF last THEN "learnt" ELSE pc
      /\ loop' = IF last THEN loop ELSE [NoLoop EXCEPT !.epoch = loop.epoch + 1]
      /\ gradients' = IF algo = "dppo" /\ ~last THEN zero_grad(left) ELSE left
      /\ IF flushes THEN optimizer_step_if_ready(gradients, loop.pending) ELSE no_step
  BY DEF AccountsInv, EndEpoch, Learning
<1>1. /\ loop.index \in 1 .. Minibatches + 1 /\ loop.pending \in Nat
      /\ loop.epoch \in 1 .. Epochs /\ loop.break_flag \in BOOLEAN
  BY <1>0, AttemptsType DEF Loop
<1>2. /\ Enabled \subseteq Networks /\ Enabled' = Enabled /\ gradients \in OwnGradients
  BY <1>0 DEF Enabled, in_critic_warmup, TypeInv, TypeOK, Under, OwnGradients
<1>3. \A n \in Enabled : Waiting(n)
  BY <1>0 DEF Accounts
<1>4. /\ \A n \in Networks : Means(windows'[n], Len(attempts)) /\ Disjoint(windows'[n])
      /\ \A n \in Networks \ Enabled : windows'[n] = <<>>
      /\ \A n \in Enabled : UsedBy(windows'[n]) = Seen /\ left[n] = {}
  <2>1. CASE flushes
    <3>1. optimizer_step(Enabled, gradients, loop.pending) /\ left = Empty
      BY <1>0, <2>1 DEF optimizer_step_if_ready, _step_optimizers
    <3>2. \A n \in Enabled :
            /\ loop.pending = Cardinality(gradients[n])
            /\ \A a, b \in gradients[n] : a.epoch = b.epoch
            /\ gradients[n] \cap UsedBy(windows[n]) = {}
      BY <1>3 DEF Waiting
    <3> HIDE DEF left, last
    <3> QED
      BY <1>0, <1>1, <1>2, <1>3, <3>1, <3>2, StepAccounts DEF Waiting
  <2>2. CASE ~flushes
    <3>1. loop.pending = 0
      BY <1>1, <2>2 DEF flushes
    <3>3. windows' = windows /\ left = gradients
      BY <1>0, <2>2 DEF no_step
    <3>2. \A n \in Enabled : gradients[n] = {}
      BY <1>3, <3>1, FS_EmptySet DEF Waiting
    <3> HIDE DEF left, last
    <3> QED
      BY <1>0, <1>2, <1>3, <3>2, <3>3 DEF Accounts, Waiting
  <2> QED
    BY <2>1, <2>2
<1>5. \A n \in Enabled : gradients'[n] = {}
  <2> HIDE DEF left
  <2> QED
    BY <1>0, <1>2, <1>4 DEF zero_grad
<1>6. CASE last
  <2>1. pc' = "learnt" /\ loop' = loop /\ Seen' = Seen
    BY <1>0, <1>6 DEF Seen
  <2>2. loop.index > 1
    BY <1>0, <1>1 DEF Accounts
  <2> HIDE DEF last, left
  <2> QED
    BY <1>0, <1>2, <1>4, <2>1, <2>2 DEF Accounts, Learning
<1>7. CASE ~last
  <2>1. /\ pc' = "learning" /\ loop.index = Minibatches + 1
        /\ loop'.epoch = loop.epoch + 1 /\ loop'.index = 1 /\ loop'.pending = 0
        /\ loop'.break_flag = FALSE
    BY <1>0, <1>1, <1>7 DEF NoLoop
  <2>2. Seen' = Seen
    BY <1>0, <1>1, <2>1, SeenIs, SeenEpoch
  <2>3. \A n \in Enabled : Waiting(n)'
    BY <1>4, <1>5, <2>1, <2>2, FS_EmptySet DEF Waiting
  <2> HIDE DEF last, left
  <2> QED
    BY <1>0, <1>2, <1>4, <2>1, <2>3 DEF Accounts, Learning
<1> QED
  BY <1>6, <1>7

LEMMA StepAccountsAll ==
  ASSUME AccountsInv, [Next]_vars
  PROVE  AccountsInv'
<1>0. /\ TypeInv /\ TypeInv' /\ Accounts
  BY StepTypes DEF AccountsInv
<1>1. CASE LoopStep
  BY <1>0, <1>1, MinibatchAccounts, InterruptedAccounts, EndEpochAccounts
  DEF LoopStep, AccountsInv
<1>2. CASE StartLearn
  <2>1. /\ windows' = Nets(<<>>) /\ pc' = "learning" /\ loop' = NoLoop
        /\ curr_train_itrs' = curr_train_itrs
    BY <1>2 DEF StartLearn
  <2>2. gradients' = Empty
    BY <1>0, <1>2 DEF StartLearn, zero_grad, TypeInv, Under
  <2>3. Seen' = {}
    <3>1. loop'.epoch = 1 /\ loop'.index = 1
      BY <2>1 DEF NoLoop
    <3> QED
      BY <3>1 DEF Seen
  <2>4. \A n \in Networks : Waiting(n)'
    BY <2>1, <2>2, <2>3, NoWindows, FS_EmptySet DEF Waiting, NoLoop
  <2>5. Enabled' \subseteq Networks
    BY DEF Enabled
  <2> QED
    BY <1>0, <2>1, <2>4, <2>5, NoWindows DEF AccountsInv, Accounts, Learning, NoLoop
<1>3. CASE FinishLearn \/ SavedOnExit \/ Crash
  <2>1. windows' = Nets(<<>>) /\ pc' \in {"save_section", "down"} /\ loop' = NoLoop
    BY <1>3 DEF FinishLearn, SavedOnExit, Crash, Gone
  <2> QED
    BY <1>0, <2>1, NoWindows DEF AccountsInv, Accounts, Learning, NoLoop
<1>4. CASE Restart
  <2>1. pc = "down" /\ pc' = "cycle" /\ windows' = windows /\ loop' = loop
    BY <1>4 DEF Restart
  <2> QED
    BY <1>0, <2>1, NoWindows DEF AccountsInv, Accounts, Learning
<1>5. CASE feedback \/ StartSave \/ NothingToSave \/ Saved \/ SaveOnExit
  <2>1. /\ pc' \in {"cycle", "save_section", "saving", "exit_saving", "stopped"}
        /\ UNCHANGED <<windows, attempts, loop>>
    BY <1>5 DEF feedback, StartSave, NothingToSave, Saved, SaveOnExit, create_checkpoint
  <2> QED
    BY <1>0, <2>1 DEF AccountsInv, Accounts, Learning
<1>6. CASE RequestStop \/ UNCHANGED vars
  <2>1. UNCHANGED <<windows, attempts, loop, pc, gradients, curr_train_itrs>>
    BY <1>6 DEF RequestStop
  <2>2. Seen' = Seen /\ Enabled' = Enabled
    BY <2>1 DEF Seen, Enabled, in_critic_warmup
  <2> QED
    BY <1>0, <2>1, <2>2 DEF AccountsInv, Accounts, Learning, Waiting
<1> QED
  BY <1>1, <1>2, <1>3, <1>4, <1>5, <1>6 DEF Next, LoopStep

(* For every buffer, number of epochs and accumulation window, an          *)
(* optimizer step divides by the minibatches that went into it             *)
(* (optimizer_step_if_ready).                                              *)
THEOREM StepsAreMeansHolds == Spec => []StepsAreMeans
<1>1. AccountsInv => StepsAreMeans
  BY DEF AccountsInv, Accounts, Means, Mean, StepsAreMeans
<1> QED
  BY InitAccounts, StepAccountsAll, <1>1, PTL DEF Spec

(* And for all of them, a learn step uses every minibatch once, also when  *)
(* the last window is not full or the loop breaks off.                     *)
THEOREM EveryMinibatchCountsOnceHolds == Spec => []EveryMinibatchCountsOnce
<1>1. AccountsInv => EveryMinibatchCountsOnce
  <2> SUFFICES ASSUME AccountsInv, pc = "learnt", NEW n \in Networks
               PROVE  /\ Disjoint(windows[n])
                      /\ UsedBy(windows[n]) = IF n \in Enabled THEN Seen ELSE {}
    BY DEF EveryMinibatchCountsOnce, Disjoint, UsedBy
  <2> QED
    BY NoWindows DEF AccountsInv, Accounts, Learning
<1> QED
  BY InitAccounts, StepAccountsAll, <1>1, PTL DEF Spec

-----------------------------------------------------------------------------
(* Counters.  A state and a checkpoint are in balance alike; the learn     *)
(* step under way is in the weights, but not among those that are          *)
(* complete; and FPO's copies are the weights of its model.                *)
Complete(weights, as, n) == {i \in weights[n] \ {Pretrained} : as[i].complete}
Expected(n, itrs) ==
  IF n = "critic" THEN itrs ELSE IF itrs <= WarmupItrs THEN 0 ELSE itrs - WarmupItrs
Balanced(weights, as, itrs, sched) ==
  \A n \in Networks :
    /\ IsFiniteSet(Complete(weights, as, n))
    /\ Cardinality(Complete(weights, as, n)) = Expected(n, itrs)
    /\ algo = "dppo" => sched[n] = Expected(n, itrs)
    /\ Pretrained \in weights[n] <=> Pretrained \in _restore_from[n]
Count ==
  /\ algo = "fpo" => master_weights = model
  /\ Learning =>
       /\ ~attempts[Len(attempts)].complete
       /\ \A n \in Networks :
            /\ UsedBy(windows[n]) # {} => Len(attempts) \in model[n]
            /\ n \notin Enabled => Len(attempts) \notin model[n]
  /\ Balanced(model, attempts, curr_train_itrs, schedules)
  /\ checkpoint # None =>
       Balanced(checkpoint.model, checkpoint.attempts, checkpoint.train_itrs,
                checkpoint.schedules)
CountInv == AccountsInv /\ Count

LEMMA FreshBalanced == Balanced(_restore_from, <<>>, 0, Nets(0))
<1>1. \A n \in Networks : Complete(_restore_from, <<>>, n) = {}
  BY DEF Complete, _restore_from, Pretrained
<1>2. \A n \in Networks : Expected(n, 0) = 0
  BY DEF Expected
<1> QED
  BY <1>1, <1>2, FS_EmptySet DEF Balanced

LEMMA SameBalance ==
  ASSUME UNCHANGED <<algo, restore>>
  PROVE  /\ Balanced(model', attempts', curr_train_itrs', schedules')
              => Balanced(model, attempts, curr_train_itrs, schedules)'
         /\ Balanced(checkpoint'.model, checkpoint'.attempts, checkpoint'.train_itrs,
                     checkpoint'.schedules)
              => Balanced(checkpoint.model, checkpoint.attempts, checkpoint.train_itrs,
                          checkpoint.schedules)'
BY DEF Balanced, _restore_from

LEMMA InitCount == Init => CountInv
<1> SUFFICES ASSUME Init PROVE CountInv
  OBVIOUS
<1>1. AccountsInv /\ ~Learning /\ checkpoint = None
  BY InitAccounts DEF Init, Learning
<1>2. algo = "fpo" => master_weights = model
  BY DEF Init, sync_from_model
<1>3. Balanced(model, attempts, curr_train_itrs, schedules)
  BY FreshBalanced DEF Init
<1> QED
  BY <1>1, <1>2, <1>3 DEF CountInv, Count

(* The minibatch loop adds the learn step under way, where it may. *)
LEMMA LoopCount ==
  ASSUME CountInv, LoopStep
  PROVE  Count'
<1>0. /\ TypeInv /\ AccountsInv /\ Count /\ Learning /\ attempts # <<>>
      /\ UNCHANGED <<algo, restore, curr_train_itrs, schedules, checkpoint, attempts>>
      /\ \/ no_step
         \/ \E g \in OwnGradients, d \in Nat : optimizer_step(Enabled, g, d)
  BY LoopSteps DEF CountInv, AccountsInv
<1>1. Enabled' = Enabled /\ Enabled \subseteq Networks
  BY <1>0 DEF Enabled, in_critic_warmup
<1>2. CASE no_step
  <2>1. UNCHANGED <<model, master_weights, windows>>
    BY <1>2 DEF no_step
  <2>2. Balanced(model, attempts, curr_train_itrs, schedules)'
    BY <1>0, <2>1, SameBalance DEF Count
  <2>3. checkpoint' # None =>
          Balanced(checkpoint.model, checkpoint.attempts, checkpoint.train_itrs,
                   checkpoint.schedules)'
    BY <1>0, SameBalance DEF Count
  <2> QED
    BY <1>0, <1>1, <2>1, <2>2, <2>3 DEF Count
<1>3. ASSUME NEW g \in OwnGradients, NEW d \in Nat, optimizer_step(Enabled, g, d)
      PROVE  Count'
  <2>0. Len(attempts) # Pretrained /\ ~attempts[Len(attempts)].complete
    BY <1>0, AttemptsType DEF Count, Pretrained
  <2>1. ASSUME NEW n \in Networks
        PROVE  /\ model[n] \subseteq model'[n] /\ model'[n] \subseteq model[n] \cup {Len(attempts)}
               /\ n \notin Enabled => model'[n] = model[n]
               /\ n \in Enabled /\ g[n] # {} => Len(attempts) \in model'[n]
               /\ master_weights' = IF algo = "fpo" THEN model' ELSE master_weights
    BY <1>0, <1>3, StepWeights DEF Count
  <2>2. ASSUME NEW n \in Networks, UsedBy(windows'[n]) # {}
        PROVE  Len(attempts) \in model'[n]
    <3>1. CASE n \in Enabled
      <4> DEFINE w == [batches |-> g[n], divisor |-> d]
      <4>1. w \in Window /\ windows[n] \in Seq(Window) /\ w.batches = g[n]
        BY <1>0 DEF Window, OwnGradients, TypeInv
      <4>2. windows'[n] = Append(windows[n], w)
        BY <1>3, <3>1 DEF optimizer_step
      <4> HIDE DEF w
      <4>3. UsedBy(windows'[n]) = UsedBy(windows[n]) \cup g[n]
        BY <4>1, <4>2, AppendedWindow
      <4> QED
        BY <1>0, <2>1, <2>2, <3>1, <4>3 DEF Count
    <3>2. CASE n \notin Enabled
      <4>1. windows'[n] = windows[n]
        BY <1>3, <3>2 DEF optimizer_step
      <4> QED
        BY <1>0, <2>1, <2>2, <4>1 DEF Count
    <3> QED
      BY <3>1, <3>2
  <2>3. \A n \in Networks : Complete(model', attempts, n) = Complete(model, attempts, n)
    BY <2>0, <2>1 DEF Complete
  <2>4. \A n \in Networks : Pretrained \in model'[n] <=> Pretrained \in model[n]
    BY <2>0, <2>1
  <2>5. Balanced(model', attempts, curr_train_itrs, schedules)
    BY <1>0, <2>3, <2>4 DEF Count, Balanced
  <2>6. Balanced(model, attempts, curr_train_itrs, schedules)'
    BY <1>0, <2>5, SameBalance
  <2>7. checkpoint' # None =>
          Balanced(checkpoint.model, checkpoint.attempts, checkpoint.train_itrs,
                   checkpoint.schedules)'
    BY <1>0, SameBalance DEF Count
  <2>8. algo' = "fpo" => master_weights' = model'
    BY <1>0, <2>1
  <2>9. \A n \in Networks : n \notin Enabled => Len(attempts) \notin model'[n]
    BY <1>0, <2>1 DEF Count
  <2> QED
    BY <1>0, <1>1, <2>0, <2>2, <2>6, <2>7, <2>8, <2>9 DEF Count
<1> QED
  BY <1>0, <1>2, <1>3

(* The end of the learn step completes it in every network that learned,   *)
(* which by the accounts of its minibatches are the enabled ones.          *)
LEMMA FinishComplete ==
  ASSUME CountInv, FinishLearn
  PROVE  /\ Len(attempts) \in Nat \ {0}
         /\ \A i \in 1 .. Len(attempts) : attempts'[i].frames = attempts[i].frames
         /\ \A n \in Networks :
              /\ Len(attempts) \notin Complete(model, attempts, n)
              /\ Complete(model, attempts', n) =
                   Complete(model, attempts, n) \cup
                     (IF n \in Enabled THEN {Len(attempts)} ELSE {})
<1>0. /\ TypeInv /\ Accounts /\ Count /\ pc = "learnt" /\ Learning /\ attempts # <<>>
      /\ curr_train_itrs \in Nat /\ schedules \in [Networks -> Nat]
  BY DEF CountInv, AccountsInv, FinishLearn, TypeInv, TypeOK, Under, Learning
<1> DEFINE k == Len(attempts)
<1>1. /\ k \in 1 .. k /\ k \in Nat /\ attempts \in Seq(Attempt)
      /\ k # Pretrained
      /\ \A n \in Networks : k \notin Complete(model, attempts, n)
      /\ \A n \in Networks : model[n] \subseteq 0 .. k
  BY <1>0, AttemptsType DEF Count, Complete, Pretrained
<1>2. /\ \A i \in 1 .. k : i # k => attempts'[i] = attempts[i]
      /\ attempts'[k].complete /\ attempts'[k].frames = attempts[k].frames
  <2>1. attempts' = [attempts EXCEPT ![k] = [attempts[k] EXCEPT !.complete = TRUE]]
    BY DEF FinishLearn
  <2>2. DOMAIN attempts = 1 .. k /\ attempts[k] \in Attempt
    BY <1>1, LenProperties, ElementOfSeq
  <2> QED
    BY <1>1, <2>1, <2>2 DEF Attempt
<1>3. \A n \in Networks : k \in model[n] <=> n \in Enabled
  <2>1. Seen # {}
    <3> DEFINE b == [attempt |-> k, epoch |-> loop.epoch, index |-> 1]
    <3>1. loop.epoch \in 1 .. Epochs /\ loop.index > 1
      BY <1>0, AttemptsType DEF Loop, Accounts
    <3>2. b \in Seen
      BY <3>1, Small DEF Seen
    <3> QED
      BY <3>2
  <2>2. \A n \in Enabled : UsedBy(windows[n]) # {}
    BY <1>0, <2>1 DEF Accounts
  <2> QED
    BY <1>0, <2>2 DEF Count
<1> HIDE DEF k
<1>4. ASSUME NEW n \in Networks
      PROVE  Complete(model, attempts', n) =
               Complete(model, attempts, n) \cup (IF n \in Enabled THEN {k} ELSE {})
  <2>1. \A i \in model[n] \ {Pretrained} : i \in 1 .. k
    BY <1>1 DEF Pretrained
  <2> QED
    BY <1>1, <1>2, <1>3, <2>1 DEF Complete
<1>5. \A i \in 1 .. k : attempts'[i].frames = attempts[i].frames
  BY <1>2
<1> QED
  BY <1>1, <1>4, <1>5 DEF k

LEMMA StartComplete ==
  ASSUME CountInv, StartLearn
  PROVE  /\ Len(attempts) \in Nat /\ Len(attempts') = Len(attempts) + 1
         /\ \A i \in 1 .. Len(attempts) : attempts'[i] = attempts[i]
         /\ attempts'[Len(attempts')] =
              [frames |-> frames, warmup |-> in_critic_warmup, complete |-> FALSE]
         /\ \A n \in Networks :
              /\ model[n] \subseteq 0 .. Len(attempts)
              /\ Complete(model, attempts', n) = Complete(model, attempts, n)
<1>0. TypeInv
  BY DEF CountInv, AccountsInv
<1> DEFINE k == Len(attempts)
           new == [frames |-> frames, warmup |-> in_critic_warmup, complete |-> FALSE]
<1>1. new \in Attempt
  BY <1>0 DEF TypeInv, TypeOK, Attempt, in_critic_warmup
<1>2. /\ k \in Nat /\ Len(attempts') = k + 1 /\ attempts'[k + 1] = new
      /\ \A i \in 1 .. k : attempts'[i] = attempts[i]
      /\ \A n \in Networks : model[n] \subseteq 0 .. k
  <2>1. attempts' = Append(attempts, new)
    BY DEF StartLearn
  <2> HIDE DEF new
  <2> QED
    BY <1>0, <1>1, <2>1, AttemptsType, AppendProperties
<1>3. \A n \in Networks : Complete(model, attempts', n) = Complete(model, attempts, n)
  <2>1. \A n \in Networks : \A i \in model[n] \ {Pretrained} : i \in 1 .. k
    BY <1>2 DEF Pretrained
  <2> HIDE DEF k, new
  <2> QED
    BY <1>2, <2>1 DEF Complete
<1> HIDE DEF new
<1> QED
  BY <1>2, <1>3 DEF new

LEMMA FinishCount ==
  ASSUME CountInv, FinishLearn
  PROVE  Count'
<1>0. /\ TypeInv /\ Count /\ curr_train_itrs \in Nat /\ schedules \in [Networks -> Nat]
  BY DEF CountInv, AccountsInv, TypeInv, TypeOK
<1> DEFINE k == Len(attempts)
<1>1. \A n \in Networks :
        /\ k \notin Complete(model, attempts, n)
        /\ Complete(model, attempts', n) =
             Complete(model, attempts, n) \cup (IF n \in Enabled THEN {k} ELSE {})
  BY FinishComplete
<1> HIDE DEF k
<1>2. ASSUME NEW n \in Networks
      PROVE  Expected(n, curr_train_itrs + 1) =
               Expected(n, curr_train_itrs) + (IF n \in Enabled THEN 1 ELSE 0)
  BY <1>0 DEF Expected, Enabled, in_critic_warmup
<1>3. ASSUME NEW n \in Networks
      PROVE  /\ IsFiniteSet(Complete(model, attempts', n))
             /\ Cardinality(Complete(model, attempts', n)) = Expected(n, curr_train_itrs + 1)
  <2> DEFINE S == Complete(model, attempts, n)
  <2>1. IsFiniteSet(S) /\ Cardinality(S) = Expected(n, curr_train_itrs) /\ k \notin S
    BY <1>0, <1>1 DEF Count, Balanced
  <2>2. IsFiniteSet(S \cup {k}) /\ Cardinality(S \cup {k}) = Expected(n, curr_train_itrs) + 1
    BY <2>1, FS_AddElement
  <2>3. Expected(n, curr_train_itrs) \in Nat
    BY <1>0 DEF Expected
  <2> HIDE DEF S
  <2>4. CASE n \in Enabled
    <3>1. Complete(model, attempts', n) = S \cup {k}
      BY <1>1, <2>4 DEF S
    <3>2. Expected(n, curr_train_itrs + 1) = Expected(n, curr_train_itrs) + 1
      BY <1>2, <2>4
    <3> QED
      BY <2>2, <3>1, <3>2
  <2>5. CASE n \notin Enabled
    <3>1. Complete(model, attempts', n) = S
      BY <1>1, <2>5 DEF S
    <3>2. Expected(n, curr_train_itrs + 1) = Expected(n, curr_train_itrs)
      BY <1>2, <2>3, <2>5
    <3> QED
      BY <2>1, <3>1, <3>2
  <2> QED
    BY <2>4, <2>5
<1>4. ASSUME NEW n \in Networks, algo = "dppo"
      PROVE  schedules'[n] = Expected(n, curr_train_itrs + 1)
  <2>1. schedules[n] = Expected(n, curr_train_itrs)
    BY <1>0, <1>4 DEF Count, Balanced
  <2>2. schedules'[n] = schedules[n] + (IF n \in Enabled THEN 1 ELSE 0)
    BY <1>4 DEF FinishLearn, scheduler_steps
  <2> QED
    BY <1>2, <2>1, <2>2
<1>5. /\ UNCHANGED <<algo, restore, model, master_weights, checkpoint>>
      /\ curr_train_itrs' = curr_train_itrs + 1 /\ pc' = "save_section"
  BY DEF FinishLearn
<1>6. Balanced(model, attempts, curr_train_itrs, schedules)'
  <2>1. Balanced(model, attempts', curr_train_itrs + 1, schedules')
    BY <1>0, <1>3, <1>4 DEF Count, Balanced
  <2> QED
    BY <1>5, <2>1, SameBalance
<1>7. checkpoint' # None =>
         Balanced(checkpoint.model, checkpoint.attempts, checkpoint.train_itrs,
                  checkpoint.schedules)'
  BY <1>0, <1>5, SameBalance DEF Count
<1> QED
  BY <1>0, <1>5, <1>6, <1>7 DEF Count, Learning

LEMMA StartCount ==
  ASSUME CountInv, StartLearn
  PROVE  Count'
<1>0. TypeInv /\ Count
  BY DEF CountInv, AccountsInv
<1> DEFINE k == Len(attempts)
           new == [frames |-> frames, warmup |-> in_critic_warmup, complete |-> FALSE]
<1>1. new \in Attempt /\ ~new.complete
  BY <1>0 DEF TypeInv, TypeOK, Attempt, in_critic_warmup
<1>2. /\ k \in Nat /\ Len(attempts') = k + 1 /\ attempts'[k + 1] = new
      /\ \A n \in Networks : model[n] \subseteq 0 .. k
      /\ \A n \in Networks : Complete(model, attempts', n) = Complete(model, attempts, n)
  BY StartComplete
<1>3. /\ UNCHANGED <<algo, restore, model, master_weights, checkpoint, curr_train_itrs, schedules>>
      /\ windows' = Nets(<<>>)
  BY DEF StartLearn
<1> HIDE DEF k, new
<1>4. Balanced(model, attempts, curr_train_itrs, schedules)'
  <2>1. Balanced(model, attempts', curr_train_itrs, schedules)
    BY <1>0, <1>2 DEF Count, Balanced
  <2> QED
    BY <1>3, <2>1, SameBalance
<1>5. checkpoint' # None =>
        Balanced(checkpoint.model, checkpoint.attempts, checkpoint.train_itrs,
                 checkpoint.schedules)'
  BY <1>0, <1>3, SameBalance DEF Count
<1>6. \A n \in Networks : UsedBy(windows'[n]) = {} /\ k + 1 \notin model'[n]
  BY <1>2, <1>3, NoWindows
<1> QED
  BY <1>0, <1>1, <1>2, <1>3, <1>4, <1>5, <1>6 DEF Count

LEMMA StepCount ==
  ASSUME CountInv, [Next]_vars
  PROVE  CountInv'
<1>0. /\ TypeInv /\ AccountsInv /\ AccountsInv' /\ Count
  BY StepAccountsAll DEF CountInv, AccountsInv
<1>1. CASE LoopStep
  BY <1>0, <1>1, LoopCount DEF CountInv
<1>2. CASE StartLearn
  BY <1>0, <1>2, StartCount DEF CountInv
<1>3. CASE FinishLearn
  BY <1>0, <1>3, FinishCount DEF CountInv
<1>4. CASE SavedOnExit \/ Crash
  <2>1. /\ UNCHANGED <<algo, restore>> /\ pc' = "down"
        /\ model' = _restore_from /\ attempts' = <<>> /\ curr_train_itrs' = 0
        /\ schedules' = Nets(0) /\ (algo = "fpo" => master_weights' = model')
    BY <1>4 DEF SavedOnExit, Crash, Gone, sync_from_model
  <2>2. Balanced(model, attempts, curr_train_itrs, schedules)'
    BY <2>1, FreshBalanced, SameBalance
  <2>3. checkpoint' # None =>
          Balanced(checkpoint.model, checkpoint.attempts, checkpoint.train_itrs,
                   checkpoint.schedules)'
    <3>1. CASE SavedOnExit
      <4>1. /\ checkpoint'.model = model /\ checkpoint'.attempts = attempts
            /\ checkpoint'.train_itrs = curr_train_itrs /\ checkpoint'.schedules = schedules
        BY <3>1 DEF SavedOnExit, Snapshot
      <4> QED
        BY <1>0, <2>1, <4>1, SameBalance DEF Count
    <3>2. CASE Crash
      BY <1>0, <2>1, <3>2, SameBalance DEF Crash, Count
    <3> QED
      BY <1>4, <3>1, <3>2
  <2> QED
    BY <1>0, <2>1, <2>2, <2>3 DEF CountInv, Count, Learning
<1>5. CASE Saved
  <2>1. /\ UNCHANGED <<algo, restore, model, master_weights, attempts, curr_train_itrs, schedules>>
        /\ pc' \in {"stopped", "cycle"} /\ checkpoint' = Snapshot
    BY <1>5 DEF Saved
  <2>2. /\ checkpoint'.model = model /\ checkpoint'.attempts = attempts
        /\ checkpoint'.train_itrs = curr_train_itrs /\ checkpoint'.schedules = schedules
    BY <2>1 DEF Snapshot
  <2>3. Balanced(checkpoint.model, checkpoint.attempts, checkpoint.train_itrs,
                 checkpoint.schedules)'
    BY <1>0, <2>1, <2>2, SameBalance DEF Count
  <2>4. Balanced(model, attempts, curr_train_itrs, schedules)'
    BY <1>0, <2>1, SameBalance DEF Count
  <2> QED
    BY <1>0, <2>1, <2>3, <2>4 DEF CountInv, Count, Learning
<1>6. CASE Restart
  <2>1. UNCHANGED <<algo, restore, checkpoint>> /\ pc' = "cycle"
    BY <1>6 DEF Restart
  <2>2. checkpoint' # None =>
          Balanced(checkpoint.model, checkpoint.attempts, checkpoint.train_itrs,
                   checkpoint.schedules)'
    BY <1>0, <2>1, SameBalance DEF Count
  <2>3. CASE checkpoint # None /\ load_checkpoint(checkpoint)
    <3>1. /\ model' = checkpoint.model /\ attempts' = checkpoint.attempts
          /\ curr_train_itrs' = checkpoint.train_itrs /\ schedules' = checkpoint.schedules
          /\ algo = "fpo" => master_weights' = model'
      BY <2>3 DEF load_checkpoint, sync_from_model, _load_scheduler_states
    <3>2. Balanced(model, attempts, curr_train_itrs, schedules)'
      BY <1>0, <2>1, <2>3, <3>1, SameBalance DEF Count
    <3> QED
      BY <1>0, <2>1, <2>2, <3>1, <3>2 DEF CountInv, Count, Learning
  <2>4. CASE UNCHANGED <<curr_train_itrs, model, master_weights, schedules, attempts>>
    <3>1. Balanced(model, attempts, curr_train_itrs, schedules)'
      BY <1>0, <2>1, <2>4, SameBalance DEF Count
    <3> QED
      BY <1>0, <2>1, <2>2, <2>4, <3>1 DEF CountInv, Count, Learning
  <2> QED
    BY <1>6, <2>3, <2>4 DEF Restart
<1>7. CASE \/ feedback \/ StartSave \/ NothingToSave \/ RequestStop \/ SaveOnExit
           \/ UNCHANGED vars
  <2>1. /\ UNCHANGED <<algo, restore, curr_train_itrs, model, master_weights, schedules, attempts,
                      checkpoint, windows>>
        /\ Learning' => Learning
    BY <1>7 DEF feedback, StartSave, NothingToSave, RequestStop, SaveOnExit,
                create_checkpoint, Learning
  <2>2. Balanced(model, attempts, curr_train_itrs, schedules)'
    BY <1>0, <2>1, SameBalance DEF Count
  <2>3. checkpoint' # None =>
          Balanced(checkpoint.model, checkpoint.attempts, checkpoint.train_itrs,
                   checkpoint.schedules)'
    BY <1>0, <2>1, SameBalance DEF Count
  <2>4. Enabled' = Enabled
    BY <2>1 DEF Enabled, in_critic_warmup
  <2> QED
    BY <1>0, <2>1, <2>2, <2>3, <2>4 DEF CountInv, Count
<1> QED
  BY <1>1, <1>2, <1>3, <1>4, <1>5, <1>6, <1>7 DEF Next, LoopStep

(* Whatever a run goes through, its iteration counter and its schedules    *)
(* say what is in its weights, and it builds on those that it restored     *)
(* (post_learn, load_checkpoint, sync_from_model, _restore_from).          *)
THEOREM CountersDescribeWeightsHolds == Spec => []CountersDescribeWeights
<1>1. CountInv => CountersDescribeWeights
  <2> SUFFICES ASSUME CountInv PROVE CountersDescribeWeights
    OBVIOUS
  <2>1. Balanced(model, attempts, curr_train_itrs, schedules)
    BY DEF CountInv, Count
  <2>2. \A n \in Networks : Finished(n) = Complete(model, attempts, n)
    BY DEF Finished, Complete
  <2>3. /\ Expected("critic", curr_train_itrs) = curr_train_itrs
        /\ Expected("actor", curr_train_itrs) = AfterWarmup
    BY DEF Expected, AfterWarmup
  <2>4. "critic" \in Networks /\ "actor" \in Networks
    OBVIOUS
  <2>5. IterationsInTheWeights
    BY <2>1, <2>2, <2>3, <2>4 DEF IterationsInTheWeights, Whole, Balanced
  <2>6. SchedulesFollowIterations
    BY <2>1, <2>3, <2>4 DEF SchedulesFollowIterations, Balanced
  <2>7. BuildsOnRestored
    BY <2>1 DEF BuildsOnRestored, Balanced
  <2> QED
    BY <2>5, <2>6, <2>7 DEF CountersDescribeWeights
<1> QED
  BY InitCount, StepCount, <1>1, PTL DEF Spec

-----------------------------------------------------------------------------
(* The sum over a set that StepsLostOnlyOnRestart takes: the fold of the   *)
(* library chooses the elements in an order of its own, here shown not to  *)
(* matter.                                                                 *)
SumFrames(as, S) == MapThenSumSet(LAMBDA i : as[i].frames, S)
Some(s) == CHOOSE x \in s : TRUE
Fold(as, it, s) == IF s = {} THEN 0 ELSE as[Some(s)].frames + it[s \ {Some(s)}]
FoldOn(as, D, it) == it = [s \in D |-> Fold(as, it, s)]
IsFold(as, S, f) == \A s \in SUBSET S : f[s] = Fold(as, f, s)
UpTo(S, n) == {s \in SUBSET S : Cardinality(s) <= n}

LEMMA SumIsFold ==
  ASSUME NEW as, NEW S
  PROVE  SumFrames(as, S) = (CHOOSE it : FoldOn(as, SUBSET S, it))[S]
BY DEF SumFrames, MapThenSumSet, MapThenFoldSet, FoldOn, Fold, Some

LEMMA SomeOf ==
  ASSUME NEW S, IsFiniteSet(S), NEW s \in SUBSET S, s # {}
  PROVE  /\ Some(s) \in s /\ s \ {Some(s)} \in SUBSET S
         /\ IsFiniteSet(s) /\ Cardinality(s) \in Nat \ {0}
         /\ Cardinality(s \ {Some(s)}) = Cardinality(s) - 1
<1>1. Some(s) \in s
  BY DEF Some
<1>2. IsFiniteSet(s) /\ Cardinality(s) \in Nat /\ Cardinality(s) # 0
  BY FS_Subset, FS_CardinalityType, FS_EmptySet
<1>3. Cardinality(s \ {Some(s)}) = Cardinality(s) - 1
  BY <1>1, <1>2, FS_RemoveElement
<1> QED
  BY <1>1, <1>2, <1>3

LEMMA FoldExists ==
  ASSUME NEW as, NEW S, IsFiniteSet(S)
  PROVE  \E it : FoldOn(as, SUBSET S, it)
<1> DEFINE bad == {n \in Nat : ~\E it : FoldOn(as, UpTo(S, n), it)}
<1>1. bad = {}
  <2> SUFFICES ASSUME bad # {} PROVE FALSE
    OBVIOUS
  <2>1. PICK n \in bad : \A j \in bad : n <= j
    BY SmallestNumber
  <2>2. n # 0
    <3> DEFINE it == [s \in UpTo(S, 0) |-> 0]
    <3>1. \A s \in UpTo(S, 0) : s = {}
      <4> TAKE s \in UpTo(S, 0)
      <4> SUFFICES ASSUME s # {} PROVE FALSE
        OBVIOUS
      <4>1. s \in SUBSET S /\ Cardinality(s) <= 0
        BY DEF UpTo
      <4>2. Cardinality(s) \in Nat \ {0}
        BY <4>1, SomeOf
      <4> QED
        BY <4>1, <4>2
    <3>2. \A s \in UpTo(S, 0) : Fold(as, it, s) = 0
      BY <3>1 DEF Fold
    <3>3. it = [s \in UpTo(S, 0) |-> Fold(as, it, s)]
      BY <3>2
    <3> HIDE DEF it
    <3> QED
      BY <3>3 DEF FoldOn
  <2>3. n \in Nat /\ n - 1 \in Nat
    BY <2>1, <2>2
  <2>4. ~(n <= n - 1) /\ n - 1 \notin bad
    <3>1. ~(n <= n - 1)
      BY <2>3
    <3> HIDE DEF bad
    <3> QED
      BY <2>1, <3>1
  <2>4a. PICK h : FoldOn(as, UpTo(S, n - 1), h)
    BY <2>3, <2>4
  <2> DEFINE it == [s \in UpTo(S, n) |-> Fold(as, h, s)]
  <2>5. ASSUME NEW s \in UpTo(S, n) PROVE it[s] = Fold(as, it, s)
    <3>1. CASE s = {}
      BY <3>1 DEF Fold
    <3>2. CASE s # {}
      <4> DEFINE t == s \ {Some(s)}
      <4>1. t \in UpTo(S, n - 1) /\ t \in UpTo(S, n)
        <5>1. s \in SUBSET S /\ Cardinality(s) <= n
          BY DEF UpTo
        <5>2. /\ t \in SUBSET S /\ Cardinality(s) \in Nat \ {0}
              /\ Cardinality(t) = Cardinality(s) - 1
          BY <3>2, <5>1, SomeOf
        <5> HIDE DEF t
        <5> QED
          BY <2>3, <5>1, <5>2 DEF UpTo
      <4>2. h[t] = Fold(as, h, t)
        BY <2>4a, <4>1 DEF FoldOn
      <4>3. it[t] = Fold(as, h, t)
        BY <4>1
      <4> HIDE DEF it
      <4>4. Fold(as, h, s) = Fold(as, it, s)
        BY <4>2, <4>3 DEF Fold
      <4> QED
        BY <4>4 DEF it
    <3> QED
      BY <3>1, <3>2
  <2>6. it = [s \in UpTo(S, n) |-> Fold(as, it, s)]
    BY <2>5
  <2> HIDE DEF it
  <2>7. FoldOn(as, UpTo(S, n), it)
    BY <2>6 DEF FoldOn
  <2> QED
    BY <2>1, <2>7
<1>2. UpTo(S, Cardinality(S)) = SUBSET S
  <2>1. ASSUME NEW s \in SUBSET S PROVE Cardinality(s) <= Cardinality(S)
    BY FS_Subset
  <2> QED
    BY <2>1 DEF UpTo
<1>3. Cardinality(S) \in Nat
  BY FS_CardinalityType
<1>4. ~(Cardinality(S) \in bad)
  BY <1>1
<1> HIDE DEF UpTo
<1>5. \E it : FoldOn(as, UpTo(S, Cardinality(S)), it)
  BY <1>3, <1>4
<1> QED
  BY <1>2, <1>5

LEMMA SumOfFold ==
  ASSUME NEW as, NEW S, IsFiniteSet(S)
  PROVE  \E it :
           SumFrames(as, S) = it[S] /\ IsFold(as, S, it)
<1> DEFINE it == CHOOSE f : FoldOn(as, SUBSET S, f)
<1>1. FoldOn(as, SUBSET S, it)
  BY FoldExists
<1>2. SumFrames(as, S) = it[S]
  BY SumIsFold
<1> HIDE DEF it
<1> WITNESS it
<1>3. \A s \in SUBSET S : it[s] = Fold(as, it, s)
  <2> DEFINE f == [s \in SUBSET S |-> Fold(as, it, s)]
  <2>1. it = f
    BY <1>1 DEF FoldOn
  <2>2. \A s \in SUBSET S : f[s] = Fold(as, it, s)
    OBVIOUS
  <2> QED
    BY <2>1, <2>2
<1> QED
  BY <1>2, <1>3 DEF IsFold

(* A finite set whose subsets include one that is bad has a smallest bad   *)
(* subset.                                                                 *)
LEMMA SmallestSubset ==
  ASSUME NEW S, IsFiniteSet(S), NEW B \in SUBSET (SUBSET S), B # {}
  PROVE  \E s \in B : \A t \in B : Cardinality(s) <= Cardinality(t)
<1> DEFINE N == {Cardinality(s) : s \in B}
<1>1. N \in SUBSET Nat /\ N # {}
  BY FS_Subset, FS_CardinalityType
<1>2. PICK n \in N : \A m \in N : n <= m
  <2> HIDE DEF N
  <2> QED
    BY <1>1, SmallestNumber
<1> QED
  BY <1>2

FramesOf(as, S) == \A i \in S : as[i].frames \in Nat
Agree(as, bs, S) == \A i \in S : as[i].frames = bs[i].frames

(* Two folds of the same numbers come to the same sum. *)
LEMMA FoldsAgree ==
  ASSUME NEW S, IsFiniteSet(S), NEW as, NEW bs, NEW f, NEW g,
         FramesOf(as, S), Agree(as, bs, S),
         IsFold(as, S, f), IsFold(bs, S, g)
  PROVE  \A s \in SUBSET S : f[s] = g[s] /\ f[s] \in Nat
<1> DEFINE bad == {s \in SUBSET S : ~(f[s] = g[s] /\ f[s] \in Nat)}
<1> SUFFICES ASSUME bad # {} PROVE FALSE
  OBVIOUS
<1>1. PICK s \in bad : \A t \in bad : Cardinality(s) <= Cardinality(t)
  BY SmallestSubset
<1>2. s # {}
  <2> SUFFICES ASSUME s = {} PROVE FALSE
    OBVIOUS
  <2>1. s \in SUBSET S /\ f[s] = Fold(as, f, s) /\ g[s] = Fold(bs, g, s)
    BY <1>1 DEF IsFold
  <2>2. Fold(as, f, s) = 0 /\ Fold(bs, g, s) = 0
    BY DEF Fold
  <2>3. f[s] = 0 /\ g[s] = 0
    BY <2>1, <2>2
  <2>4. ~(f[s] = g[s] /\ f[s] \in Nat)
    BY <1>1
  <2> QED
    BY <2>3, <2>4
<1> DEFINE x == Some(s)
           t == s \ {x}
<1>3. /\ s \in SUBSET S /\ x \in s /\ t \in SUBSET S /\ Cardinality(s) \in Nat
      /\ Cardinality(t) = Cardinality(s) - 1
  BY <1>1, <1>2, SomeOf
<1>4. f[s] = as[x].frames + f[t] /\ g[s] = bs[x].frames + g[t]
  BY <1>2, <1>3 DEF Fold, IsFold
<1> HIDE DEF x, t
<1>5. f[t] = g[t] /\ f[t] \in Nat
  BY <1>1, <1>3
<1>6. as[x].frames = bs[x].frames /\ as[x].frames \in Nat
  BY <1>3 DEF FramesOf, Agree
<1> QED
  BY <1>1, <1>4, <1>5, <1>6

(* Whichever element is taken out first. *)
Splits(as, f, s, x) == f[s] = as[x].frames + f[s \ {x}]
LEMMA FoldAny ==
  ASSUME NEW S, IsFiniteSet(S), NEW as, NEW f, FramesOf(as, S), IsFold(as, S, f)
  PROVE  \A s \in SUBSET S : \A x \in s : Splits(as, f, s, x)
<1> DEFINE bad == {s \in SUBSET S : ~\A x \in s : Splits(as, f, s, x)}
<1> SUFFICES ASSUME bad # {} PROVE FALSE
  OBVIOUS
<1>0. \A s \in SUBSET S : f[s] \in Nat
  <2>1. Agree(as, as, S)
    BY DEF Agree
  <2> HIDE DEF bad
  <2> QED
    BY <2>1, FoldsAgree
<1>1. PICK s \in bad : \A t \in bad : Cardinality(s) <= Cardinality(t)
  BY SmallestSubset
<1>2. PICK x \in s : ~Splits(as, f, s, x)
  BY <1>1
<1> DEFINE y == Some(s)
<1>3. s \in SUBSET S /\ s # {} /\ IsFiniteSet(s) /\ Cardinality(s) \in Nat
  BY <1>1, <1>2, SomeOf
<1>4. y \in s /\ f[s] = as[y].frames + f[s \ {y}]
  BY <1>3, SomeOf DEF Fold, IsFold
<1> HIDE DEF y
<1>5. x # y
  BY <1>2, <1>4 DEF Splits
<1>6. \A z \in s : s \ {z} \in SUBSET S /\ s \ {z} \notin bad
  <2> TAKE z \in s
  <2>1. Cardinality(s \ {z}) = Cardinality(s) - 1
    BY <1>3, FS_RemoveElement
  <2> HIDE DEF bad
  <2>2. ~(Cardinality(s) <= Cardinality(s \ {z}))
    BY <1>3, <2>1
  <2> QED
    BY <1>1, <1>3, <2>2
<1>7. \A z \in s : \A w \in s \ {z} : Splits(as, f, s \ {z}, w)
  BY <1>6
<1>8. /\ f[s \ {y}] = as[x].frames + f[(s \ {y}) \ {x}]
      /\ f[s \ {x}] = as[y].frames + f[(s \ {x}) \ {y}]
  BY <1>2, <1>4, <1>5, <1>7 DEF Splits
<1>9. (s \ {y}) \ {x} = (s \ {x}) \ {y} /\ (s \ {y}) \ {x} \in SUBSET S
  BY <1>3
<1>10. as[x].frames \in Nat /\ as[y].frames \in Nat /\ f[(s \ {y}) \ {x}] \in Nat
  BY <1>0, <1>2, <1>3, <1>4, <1>9 DEF FramesOf
<1> HIDE DEF bad
<1>11. f[s] = as[y].frames + (as[x].frames + f[(s \ {y}) \ {x}])
  BY <1>4, <1>8
<1>12. f[s \ {x}] = as[y].frames + f[(s \ {y}) \ {x}]
  BY <1>8, <1>9
<1>13. f[s] = as[x].frames + f[s \ {x}]
  <2> DEFINE a == as[x].frames
             b == as[y].frames
             c == f[(s \ {y}) \ {x}]
  <2>1. a \in Nat /\ b \in Nat /\ c \in Nat
    BY <1>10
  <2>2. f[s] = b + (a + c) /\ f[s \ {x}] = b + c
    BY <1>11, <1>12
  <2> HIDE DEF a, b, c
  <2>3. f[s] = a + f[s \ {x}]
    BY <2>1, <2>2
  <2> QED
    BY <2>3 DEF a
<1> QED
  BY <1>2, <1>13 DEF Splits

LEMMA SumEmpty == ASSUME NEW as PROVE SumFrames(as, {}) = 0
<1>1. IsFiniteSet({})
  BY FS_EmptySet
<1>2. PICK f : SumFrames(as, {}) = f[{}] /\ IsFold(as, {}, f)
  BY <1>1, SumOfFold
<1>3. f[{}] = Fold(as, f, {})
  BY <1>2 DEF IsFold
<1>4. Fold(as, f, {}) = 0
  BY DEF Fold
<1> QED
  BY <1>2, <1>3, <1>4

LEMMA SumSame ==
  ASSUME NEW S, IsFiniteSet(S), NEW as, NEW bs, FramesOf(as, S), Agree(as, bs, S)
  PROVE  SumFrames(as, S) = SumFrames(bs, S) /\ SumFrames(as, S) \in Nat
<1>1. PICK f : SumFrames(as, S) = f[S] /\ IsFold(as, S, f)
  BY SumOfFold
<1>2. PICK g : SumFrames(bs, S) = g[S] /\ IsFold(bs, S, g)
  BY SumOfFold
<1>3. \A s \in SUBSET S : f[s] = g[s] /\ f[s] \in Nat
  BY <1>1, <1>2, FoldsAgree
<1>4. f[S] = g[S] /\ f[S] \in Nat
  BY <1>3
<1> QED
  BY <1>1, <1>2, <1>4

LEMMA FoldSame ==
  ASSUME NEW S, IsFiniteSet(S), NEW as, NEW f, NEW g, FramesOf(as, S),
         IsFold(as, S, f), IsFold(as, S, g)
  PROVE  f[S] = g[S] /\ f[S] \in Nat
<1>1. Agree(as, as, S)
  BY DEF Agree
<1>2. \A s \in SUBSET S : f[s] = g[s] /\ f[s] \in Nat
  BY <1>1, FoldsAgree
<1> QED
  BY <1>2

LEMMA SumAdd ==
  ASSUME NEW S, IsFiniteSet(S), NEW k, k \notin S, NEW as, FramesOf(as, S \cup {k})
  PROVE  SumFrames(as, S \cup {k}) = SumFrames(as, S) + as[k].frames
<1> DEFINE T == S \cup {k}
<1>1. IsFiniteSet(T) /\ S \in SUBSET T /\ T \ {k} = S /\ k \in T
  BY FS_AddElement
<1>2. FramesOf(as, T) /\ FramesOf(as, S)
  BY DEF FramesOf
<1> HIDE DEF T
<1>3. PICK f : SumFrames(as, T) = f[T] /\ IsFold(as, T, f)
  BY <1>1, SumOfFold
<1>4. PICK g : SumFrames(as, S) = g[S] /\ IsFold(as, S, g)
  BY SumOfFold
<1>5. f[T] = as[k].frames + f[S]
  <2>1. Splits(as, f, T, k)
    BY <1>1, <1>2, <1>3, FoldAny
  <2> QED
    BY <1>1, <2>1 DEF Splits
<1>6. f[S] = g[S] /\ f[S] \in Nat
  <2>1. IsFold(as, S, f)
    BY <1>1, <1>3 DEF IsFold
  <2> QED
    BY <1>2, <1>4, <2>1, FoldSame
<1>7. as[k].frames \in Nat
  BY <1>1, <1>2 DEF FramesOf
<1>8. SumFrames(as, T) = as[k].frames + SumFrames(as, S) /\ SumFrames(as, S) \in Nat
  BY <1>3, <1>4, <1>5, <1>6
<1>9. SumFrames(as, T) = SumFrames(as, S) + as[k].frames
  <2> DEFINE a == as[k].frames
             b == SumFrames(as, S)
  <2>1. a \in Nat /\ b \in Nat /\ SumFrames(as, T) = a + b
    BY <1>7, <1>8
  <2> HIDE DEF a, b
  <2>2. SumFrames(as, T) = b + a
    BY <2>1
  <2> QED
    BY <2>2 DEF a, b
<1> QED
  BY <1>9 DEF T

-----------------------------------------------------------------------------
LEMMA LoopComplete ==
  ASSUME CountInv, LoopStep
  PROVE  Complete(model', attempts, "critic") = Complete(model, attempts, "critic")
<1>0. /\ TypeInv /\ Count /\ Learning /\ attempts # <<>>
      /\ \/ no_step
         \/ \E g \in OwnGradients, d \in Nat : optimizer_step(Enabled, g, d)
  BY LoopSteps DEF CountInv, AccountsInv
<1>1. CASE no_step
  BY <1>1 DEF no_step, Complete
<1>2. ASSUME NEW g \in OwnGradients, NEW d \in Nat, optimizer_step(Enabled, g, d)
      PROVE  Complete(model', attempts, "critic") = Complete(model, attempts, "critic")
  <2>0. ~attempts[Len(attempts)].complete /\ Enabled \subseteq Networks
    BY <1>0 DEF Count, Enabled
  <2>1. /\ model["critic"] \subseteq model'["critic"]
        /\ model'["critic"] \subseteq model["critic"] \cup {Len(attempts)}
    BY <1>0, <1>2, <2>0, StepWeights DEF Count
  <2> QED
    BY <2>0, <2>1 DEF Complete
<1> QED
  BY <1>0, <1>1, <1>2

(* Each step counted is in the buffer, in the weights, or gone with a      *)
(* process, here and in the checkpoint; the learn step under way learns    *)
(* from the whole buffer.                                                  *)
Accounted(step, buffered, gone, weights, as) ==
  step = buffered + gone + SumFrames(as, Complete(weights, as, "critic"))
Ledger ==
  /\ Learning => attempts[Len(attempts)].frames = frames
  /\ ~Up => frames = 0
  /\ Accounted(global_step, frames, lost, model, attempts)
  /\ checkpoint # None =>
       Accounted(checkpoint.step, 0, checkpoint.lost, checkpoint.model, checkpoint.attempts)
LedgerInv == CountInv /\ Ledger

LEMMA CompleteFrames ==
  ASSUME CountInv
  PROVE  LET S == Complete(model, attempts, "critic") IN
         /\ IsFiniteSet(S) /\ S \subseteq 1 .. Len(attempts)
         /\ FramesOf(attempts, S) /\ SumFrames(attempts, S) \in Nat
<1> DEFINE S == Complete(model, attempts, "critic")
<1>0. TypeInv /\ Count
  BY DEF CountInv, AccountsInv
<1>1. IsFiniteSet(S)
  BY <1>0 DEF Count, Balanced
<1>2. /\ model["critic"] \subseteq 0 .. Len(attempts) /\ Len(attempts) \in Nat
      /\ attempts \in Seq(Attempt)
  BY <1>0, AttemptsType
<1>3. S \subseteq 1 .. Len(attempts)
  BY <1>2 DEF Complete, Pretrained
<1> HIDE DEF S
<1>4. \A i \in 1 .. Len(attempts) : attempts[i] \in Attempt
  BY <1>2, ElementOfSeq
<1>5. FramesOf(attempts, S)
  BY <1>3, <1>4 DEF FramesOf, Attempt
<1>6. Agree(attempts, attempts, S)
  BY DEF Agree
<1>7. SumFrames(attempts, S) \in Nat
  BY <1>1, <1>5, <1>6, SumSame
<1> QED
  BY <1>1, <1>3, <1>5, <1>7 DEF S

LEMMA NothingAccounted == Accounted(0, 0, 0, _restore_from, <<>>)
<1>1. Complete(_restore_from, <<>>, "critic") = {}
  BY DEF Complete, _restore_from, Pretrained
<1>2. SumFrames(<<>>, {}) = 0
  BY SumEmpty
<1> DEFINE s == SumFrames(<<>>, Complete(_restore_from, <<>>, "critic"))
<1>3. s = 0
  BY <1>1, <1>2
<1> HIDE DEF s
<1>4. 0 = 0 + 0 + s
  BY <1>3
<1> QED
  BY <1>4 DEF Accounted, s

LEMMA InitLedger == Init => LedgerInv
<1> SUFFICES ASSUME Init PROVE LedgerInv
  OBVIOUS
<1>1. CountInv /\ ~Learning /\ Up /\ checkpoint = None
  BY InitCount DEF Init, Learning, Up
<1>2. Accounted(global_step, frames, lost, model, attempts)
  BY NothingAccounted DEF Init
<1> QED
  BY <1>1, <1>2 DEF LedgerInv, Ledger

(* A learn step that ends moves the frames of the buffer into the weights. *)
LEMMA FinishLedger ==
  ASSUME LedgerInv, FinishLearn
  PROVE  Ledger'
<1> DEFINE S == Complete(model, attempts, "critic")
           k == Len(attempts)
<1>0. CountInv /\ Ledger /\ Learning /\ TypeInv
  BY DEF LedgerInv, CountInv, AccountsInv, FinishLearn, Learning
<1>1. /\ IsFiniteSet(S) /\ S \subseteq 1 .. k /\ FramesOf(attempts, S)
      /\ SumFrames(attempts, S) \in Nat
  BY <1>0, CompleteFrames
<1>2. /\ k \in Nat \ {0} /\ k \notin S
      /\ \A i \in 1 .. k : attempts'[i].frames = attempts[i].frames
      /\ Complete(model, attempts', "critic") = S \cup {k}
  <2>1. "critic" \in Enabled /\ "critic" \in Networks
    BY DEF Enabled
  <2> QED
    BY <1>0, <2>1, FinishComplete
<1>3. attempts[k].frames = frames /\ frames \in Nat /\ lost \in Nat
  BY <1>0 DEF Ledger, TypeInv, TypeOK
<1>4. /\ frames' = 0 /\ UNCHANGED <<global_step, lost, model, checkpoint>> /\ pc' = "save_section"
  BY DEF FinishLearn
<1> HIDE DEF S, k
<1>5. PICK now : now = attempts'
  OBVIOUS
<1>6. /\ FramesOf(now, S \cup {k}) /\ Agree(attempts, now, S) /\ now[k].frames = frames
  BY <1>1, <1>2, <1>3, <1>5 DEF FramesOf, Agree
<1>7. SumFrames(now, S \cup {k}) = SumFrames(now, S) + frames
  BY <1>1, <1>2, <1>6, SumAdd
<1>8. SumFrames(attempts, S) = SumFrames(now, S)
  BY <1>1, <1>6, SumSame
<1>9. global_step = frames + lost + SumFrames(attempts, S)
  BY <1>0 DEF Ledger, Accounted, S
<1>10. global_step = 0 + lost + SumFrames(now, S \cup {k})
  BY <1>1, <1>3, <1>7, <1>8, <1>9
<1>11. Accounted(global_step, frames, lost, model, attempts)'
  BY <1>2, <1>4, <1>5, <1>10 DEF Accounted
<1> QED
  BY <1>0, <1>4, <1>11 DEF Ledger, Learning, Up

LEMMA StartLedger ==
  ASSUME LedgerInv, StartLearn
  PROVE  Ledger'
<1> DEFINE S == Complete(model, attempts, "critic")
<1>0. CountInv /\ Ledger
  BY DEF LedgerInv
<1>1. IsFiniteSet(S) /\ S \subseteq 1 .. Len(attempts) /\ FramesOf(attempts, S)
  BY <1>0, CompleteFrames
<1>2. /\ \A i \in 1 .. Len(attempts) : attempts'[i] = attempts[i]
      /\ attempts'[Len(attempts')].frames = frames
      /\ Complete(model, attempts', "critic") = S
  BY <1>0, StartComplete
<1>3. UNCHANGED <<global_step, frames, lost, model, checkpoint>> /\ pc = "cycle" /\ pc' = "learning"
  BY DEF StartLearn
<1> HIDE DEF S
<1>4. PICK now : now = attempts'
  OBVIOUS
<1>5. SumFrames(attempts, S) = SumFrames(now, S)
  <2>1. Agree(attempts, now, S)
    BY <1>1, <1>2, <1>4 DEF Agree
  <2> QED
    BY <1>1, <2>1, SumSame
<1>6. Accounted(global_step, frames, lost, model, attempts)'
  BY <1>0, <1>2, <1>3, <1>4, <1>5 DEF Ledger, Accounted, S
<1> QED
  BY <1>0, <1>2, <1>3, <1>6 DEF Ledger, Up

LEMMA StepLedger ==
  ASSUME LedgerInv, [Next]_vars
  PROVE  LedgerInv'
<1>0. CountInv /\ CountInv' /\ Ledger /\ TypeInv
  BY StepCount DEF LedgerInv, CountInv, AccountsInv
<1>1. CASE LoopStep
  <2>1. /\ UNCHANGED <<global_step, frames, lost, attempts, checkpoint>>
        /\ Learning /\ pc' # "down"
    BY <1>0, <1>1, LoopSteps
  <2>2. Complete(model', attempts, "critic") = Complete(model, attempts, "critic")
    BY <1>0, <1>1, LoopComplete
  <2>3. Accounted(global_step, frames, lost, model, attempts)'
    BY <1>0, <2>1, <2>2 DEF Ledger, Accounted
  <2> QED
    BY <1>0, <2>1, <2>3 DEF LedgerInv, Ledger, Up
<1>2. CASE StartLearn
  BY <1>0, <1>2, StartLedger DEF LedgerInv
<1>3. CASE FinishLearn
  BY <1>0, <1>3, FinishLedger DEF LedgerInv
<1>4. CASE Saved \/ SavedOnExit \/ Crash
  <2>1. checkpoint' # None =>
          Accounted(checkpoint.step, 0, checkpoint.lost, checkpoint.model, checkpoint.attempts)'
    <3>1. CASE checkpoint' = checkpoint
      BY <1>0, <3>1 DEF Ledger, Accounted
    <3>2. CASE checkpoint' = Snapshot
      <4>1. /\ checkpoint'.step = global_step /\ checkpoint'.lost = lost + frames
            /\ checkpoint'.model = model /\ checkpoint'.attempts = attempts
        BY <3>2 DEF Snapshot
      <4> DEFINE s == SumFrames(attempts, Complete(model, attempts, "critic"))
      <4>2. s \in Nat /\ frames \in Nat /\ lost \in Nat /\ global_step = frames + lost + s
        BY <1>0, CompleteFrames DEF Ledger, Accounted, TypeInv, TypeOK
      <4> HIDE DEF s
      <4>3. global_step = 0 + (lost + frames) + s
        BY <4>2
      <4> QED
        BY <4>1, <4>3 DEF Accounted, s
    <3> QED
      BY <1>4, <3>1, <3>2 DEF Saved, SavedOnExit, Crash
  <2>2. CASE Saved
    <3>1. UNCHANGED <<global_step, frames, lost, model, attempts>> /\ pc' \in {"stopped", "cycle"}
      BY <2>2 DEF Saved
    <3>2. Accounted(global_step, frames, lost, model, attempts)'
      BY <1>0, <3>1 DEF Ledger, Accounted
    <3> QED
      BY <1>0, <2>1, <3>1, <3>2 DEF LedgerInv, Ledger, Learning, Up
  <2>3. CASE SavedOnExit \/ Crash
    <3>1. /\ global_step' = 0 /\ frames' = 0 /\ lost' = 0 /\ model' = _restore_from
          /\ attempts' = <<>> /\ pc' = "down"
      BY <2>3 DEF SavedOnExit, Crash, Gone
    <3>2. Accounted(global_step, frames, lost, model, attempts)'
      BY <3>1, NothingAccounted DEF Accounted
    <3> QED
      BY <1>0, <2>1, <3>1, <3>2 DEF LedgerInv, Ledger, Learning, Up
  <2> QED
    BY <1>4, <2>2, <2>3
<1>5. CASE Restart
  <2>1. UNCHANGED <<checkpoint, frames>> /\ pc = "down" /\ pc' = "cycle"
    BY <1>5 DEF Restart
  <2>2. frames = 0
    BY <1>0, <2>1 DEF Ledger, Up
  <2>3. CASE checkpoint # None /\ load_checkpoint(checkpoint)
    <3>1. /\ model' = checkpoint.model /\ attempts' = checkpoint.attempts
          /\ global_step' = checkpoint.step /\ lost' = checkpoint.lost
      BY <2>3 DEF load_checkpoint, checkpoint_step
    <3>2. Accounted(global_step, frames, lost, model, attempts)'
      BY <1>0, <2>1, <2>2, <2>3, <3>1 DEF Ledger, Accounted
    <3> QED
      BY <1>0, <2>1, <3>2 DEF LedgerInv, Ledger, Learning, Up, Accounted
  <2>4. CASE UNCHANGED <<global_step, model, attempts, lost>>
    BY <1>0, <2>1, <2>4 DEF LedgerInv, Ledger, Learning, Up, Accounted
  <2> QED
    BY <1>5, <2>3, <2>4 DEF Restart
<1>6. CASE feedback
  <2>1. /\ UNCHANGED <<lost, model, attempts, checkpoint, pc>> /\ ~Learning /\ Up
        /\ frames' = frames + 1 /\ global_step' = global_step + 1
    BY <1>6 DEF feedback, Learning, Up
  <2> DEFINE s == SumFrames(attempts, Complete(model, attempts, "critic"))
  <2>2. s \in Nat /\ frames \in Nat /\ lost \in Nat /\ global_step = frames + lost + s
    BY <1>0, CompleteFrames DEF Ledger, Accounted, TypeInv, TypeOK
  <2>3. s' = s
    BY <2>1
  <2> HIDE DEF s
  <2>4. global_step' = frames' + lost' + s'
    BY <2>1, <2>2, <2>3
  <2>5. Accounted(global_step, frames, lost, model, attempts)'
    BY <2>4 DEF Accounted, s
  <2> QED
    BY <1>0, <2>1, <2>5 DEF LedgerInv, Ledger, Learning, Up, Accounted
<1>7. CASE StartSave \/ NothingToSave \/ RequestStop \/ SaveOnExit \/ UNCHANGED vars
  <2>1. /\ UNCHANGED <<global_step, frames, lost, model, attempts, checkpoint>>
        /\ Learning' => Learning
        /\ ~Up' => ~Up
    BY <1>7 DEF StartSave, NothingToSave, RequestStop, SaveOnExit, create_checkpoint, Learning, Up
  <2> QED
    BY <1>0, <2>1 DEF LedgerInv, Ledger, Accounted
<1> QED
  BY <1>1, <1>2, <1>3, <1>4, <1>5, <1>6, <1>7 DEF Next, LoopStep

(* global_step is the frames of the learn steps in the weights and of the  *)
(* buffer, and else only the buffers of processes that saved and were      *)
(* resumed, for any sizes and any interruptions, kills and resumes.        *)
THEOREM StepsLostOnlyOnRestartHolds == Spec => []StepsLostOnlyOnRestart
<1>1. LedgerInv => StepsLostOnlyOnRestart
  <2>1. Finished("critic") = Complete(model, attempts, "critic")
    BY DEF Finished, Complete
  <2> QED
    BY <2>1 DEF LedgerInv, Ledger, Accounted, SumFrames, StepsLostOnlyOnRestart
<1> QED
  BY InitLedger, StepLedger, <1>1, PTL DEF Spec

=============================================================================
