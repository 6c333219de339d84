----------------------- MODULE AgentServerCorrectness -----------------------
(***************************************************************************)
(* What the agent server promises: the safety and liveness properties of   *)
(* AgentServer, each about a hazard of the code it names.                  *)
(***************************************************************************)
EXTENDS AgentServer

(* A buffer holds frames of one policy, the one now collecting: whatever   *)
(* the order in which infers, feedback and the learn step take the lock,   *)
(* no frame sampled before the last learn step enters the buffer           *)
(* (_trains_on, the version captured by _process_infer and bumped by       *)
(* _run_control_cycle).  The exception is a learn step that stopped short: *)
(* it leaves its buffer behind, and nothing is added to it any more.       *)
OnPolicyBuffer ==
  \E w \in 0 .. weights :
    /\ \A i \in DOMAIN buffer : buffer[i].sampledBy = w
    /\ w = weights \/ (stop /\ should_learn)

(* global_step counts exactly the frames that were learned from and those  *)
(* in the buffer: a frame that a full buffer refuses, or that is           *)
(* discarded, is not counted (feedback, discard_feedback).  With a step    *)
(* budget only the last buffer may be short.                               *)
StepsAccounted ==
  LET learned == globalStep - Len(buffer)
  IN  IF StepBudget /\ trainItrs * BufferSize > GlobalSteps
      THEN learned = GlobalSteps
      ELSE learned = trainItrs * BufferSize

(* The node a handler holds for an environment, as the buffer understands  *)
(* it, is the frame of that environment's preceding step on the same       *)
(* connection, or none if that step was discarded, went to an earlier      *)
(* filling of the buffer or to an earlier connection (prev_node_map and    *)
(* buffer_signature).  No frame is the predecessor of two.                 *)
ChainsFollowSteps ==
  /\ \A c \in Conns, e \in Envs : ChainedTo(prevNode[c][e]) = lastFrame[c][e]
  /\ \A i \in DOMAIN buffer : buffer[i].prev < i
  /\ \A i, j \in DOMAIN buffer :
       i # j /\ buffer[i].prev # 0 => buffer[i].prev # buffer[j].prev

(* Until the shutdown aborts them, a request that waits for its answer is  *)
(* in the queue or in the scheduler's batch, once; and nothing else is     *)
(* queued (InferenceCoordinator, _process_infer).                          *)
RequestsAccounted ==
  LET underWay == queue \o batch
  IN  main \notin {"closing", "done"} =>
        \A c \in Conns :
          Cardinality({i \in DOMAIN underWay : underWay[i] = c})
            = IF futures[c] = "pending" THEN 1 ELSE 0

(* The model is learned from or written to disk only by the task at the    *)
(* head of the model lock, however the other tasks queue up for it or are  *)
(* cancelled (process_learn, process_save under _model_lock).              *)
LockDiscipline ==
  /\ sched \in {"learning", "learnt", "saving"} => Holds("scheduler")
  /\ main = "exit_saving" => Holds("main")

(* The connection count that sets the size of the next batch is the number *)
(* of handlers at work: an exit on any path gives its place up once.       *)
ConnectionsCounted ==
  totalConnections = Cardinality({c \in Conns : pc[c] # "off"})

(* Clients are told that training is over only when a checkpoint of the    *)
(* final iteration is on disk ("an exact signal that a save has just       *)
(* happened", _save_on_exit).                                              *)
StopMeansSaved ==
  closeReason = "STOP" =>
    /\ saved.itr = trainItrs
    /\ StepBudget => saved.step >= GlobalSteps

(* A run that clients are told is over has learned from every frame it     *)
(* counted: FPO learns from a last, partly filled buffer before it stops   *)
(* (should_learn, should_stop).  True of a server that infers for all its  *)
(* connections at once and meets neither fault nor signal; with mini       *)
(* batches a frame can slip into the buffer between the two sections of    *)
(* the control cycle (_run_control_cycle).                                 *)
StopMeansTrained == closeReason = "STOP" => ~should_learn

(* A server that stops without a fatal error leaves everything it learned  *)
(* on disk, unless it gave the save up: no learn step completes after the  *)
(* checkpoint of the shutdown (_save_on_exit, report_learn_progress).      *)
ShutdownLosesNoLearning ==
  main = "done" /\ ~fatal /\ ~gaveUp /\ writing = {} => saved.itr = trainItrs

(* Two threads never write checkpoints at the same time - they would share *)
(* a temporary directory - unless the shutdown abandoned its own write.    *)
OneWriter == gaveUp \/ Cardinality(writing) <= 1

(* A request is answered, refused or failed, whatever the other tasks do,  *)
(* unless the process ends first.                                          *)
RequestsAnswered ==
  \A c \in Conns :
    futures[c] = "pending" ~> (futures[c] # "pending" \/ main = "done")

(* A requested stop ends the server: no lock, thread or wait hangs it.     *)
ShutdownTerminates == stop ~> main = "done"

(* Training reaches its budget and stops the server itself, though every   *)
(* learn step costs the frames in flight and clients go, misbehave and     *)
(* come back; only a server that all of them have left for good waits.     *)
TrainingCompletes ==
  \/ accepted > 0 ~> (main = "done" /\ closeReason = "STOP" /\ saved.itr = trainItrs)
  \/ <>[](totalConnections = 0)

=============================================================================
