----------------------------- MODULE AgentServer ----------------------------
(***************************************************************************)
(* The WebSocket agent server (server/websocket_agent_server.py with       *)
(* runtime_scheduler.py, lifecycle.py and training_backend.py): one        *)
(* asyncio task per connection, the scheduler task that infers, learns and *)
(* saves, and the main task that shuts the server down.  They share one    *)
(* model lock.                                                             *)
(*                                                                         *)
(* The lock is asyncio's, which is fair: lockQueue holds the tasks that    *)
(* want it in order, and its head is the task that holds it or takes it    *)
(* next.  Taking a free lock does not suspend the task, nor does waiting   *)
(* for an event that is set: running is the task that goes on at once, and *)
(* no other task's step comes before its next one.  Learning and writing a *)
(* checkpoint run in a thread while their task keeps the lock.             *)
(***************************************************************************)
EXTENDS InferenceCoordinator, OnPolicyAlgorithm, Integers

CONSTANTS
  MiniInferBatchSize,   \* mini_infer_batch_size, 0 for None
  IdleTimeout,          \* whether the scheduler's idle wait times out
  MaxConnects,          \* bound: connections accepted in a run
  Disturbances          \* what may go wrong: see the guards that name them

Disturbance == {"drop", "resync", "silence", "fault", "signal", "giveup"}

ASSUME ServerAssumption ==
  /\ MiniInferBatchSize \in Nat
  /\ IdleTimeout \in BOOLEAN
  /\ MaxConnects \in Nat
  /\ Disturbances \subseteq Disturbance
  /\ Conns \cap {"scheduler", "main", "nobody"} = {}

VARIABLES
  \* each connection's handler
  pc,                 \* where the handler is suspended
  alive,              \* whether its socket is open
  answer,             \* what the result in its future was sampled by
  sampledBy,          \* sampled_by_map
  prevNode,           \* prev_node_map
  todo,               \* environments of its feedback not yet processed
  lastFrame,          \* history: the frame of each env's preceding step
  accepted,           \* how many connections were accepted so far
  \* the server
  totalConnections,   \* _total_connections
  policyVersion,      \* _policy_version
  weights,            \* history: how many learn steps changed the policy
  lockQueue,          \* who holds _model_lock, and who waits for it
  running,            \* the task that has not suspended yet, or nobody
  \* the scheduler task
  sched,              \* where the scheduler is suspended
  wake,               \* the _wake event
  batch,              \* the requests drained for the inference under way
  \* the main task and the lifecycle
  main,               \* how far the shutdown has come
  stop,               \* stop_event
  fatal,              \* fatal_reported
  closeReason,        \* close_reason
  \* checkpoints
  writing,            \* which tasks have a save_checkpoint thread running
  snapshot,           \* what each of those threads writes
  saved,              \* of the checkpoints written, the one a resume takes
  gaveUp              \* history: the shutdown's own save was abandoned

handlerVars == <<pc, alive, answer, sampledBy, prevNode, todo,
                 lastFrame, accepted>>
lifecycleVars == <<main, stop, fatal, closeReason>>
policyVars == <<policyVersion, weights>>
saveVars == <<writing, snapshot, saved, gaveUp>>
vars == <<coordinatorVars, algorithmVars, handlerVars, totalConnections,
          policyVars, lockQueue, running, sched, wake, batch,
          lifecycleVars, saveVars>>

Savers == {"scheduler", "main"}
Tasks == Conns \cup Savers
Nobody == "nobody"

(* What an action was sampled by: the version the server attaches to it,   *)
(* and the weights that really did it, which no code reads.                *)
Sample == [version : Nat, weights : Nat]
NoSample == [version |-> -1, weights |-> 0]
Checkpoint == [itr : Nat, step : Nat]

HandlerState == {"off", "recv_infer", "await_response", "recv_feedback",
                 "await_lock", "closing", "failing"}
SchedulerState == {"top", "infer", "may_learn", "learning", "learnt",
                   "may_save", "saving", "idle", "dead"}
MainState == {"serving", "exit_save", "exit_saving", "closing", "done"}

HandlersTypeOK ==
  /\ pc \in [Conns -> HandlerState]
  /\ alive \in [Conns -> BOOLEAN]
  /\ answer \in [Conns -> Sample]
  /\ sampledBy \in [Conns -> [Envs -> Sample \cup {NoSample}]]
  /\ prevNode \in [Conns -> [Envs -> Node]]
  /\ todo \in [Conns -> Seq(Envs)]
  /\ lastFrame \in [Conns -> [Envs -> 0 .. BufferSize]]
  /\ accepted \in Nat

ServerTypeOK ==
  /\ totalConnections \in Nat
  /\ policyVersion \in Nat
  /\ weights \in Nat
  /\ lockQueue \in Seq(Tasks)
  /\ running \in Tasks \cup {Nobody}

ControlTypeOK ==
  /\ sched \in SchedulerState
  /\ wake \in BOOLEAN
  /\ batch \in Seq(Conns)
  /\ main \in MainState
  /\ stop \in BOOLEAN
  /\ fatal \in BOOLEAN
  /\ closeReason \in {"", "STOP"}

SaveTypeOK ==
  /\ writing \in SUBSET Savers
  /\ snapshot \in [Savers -> Checkpoint]
  /\ saved \in Checkpoint
  /\ gaveUp \in BOOLEAN

TypeOK ==
  /\ CoordinatorTypeOK
  /\ AlgorithmTypeOK
  /\ HandlersTypeOK
  /\ ServerTypeOK
  /\ ControlTypeOK
  /\ SaveTypeOK

Init ==
  /\ CoordinatorInit
  /\ AlgorithmInit
  /\ pc = [c \in Conns |-> "off"]
  /\ alive = [c \in Conns |-> FALSE]
  /\ answer = [c \in Conns |-> [version |-> 0, weights |-> 0]]
  /\ sampledBy = [c \in Conns |-> [e \in Envs |-> NoSample]]
  /\ prevNode = [c \in Conns |-> [e \in Envs |-> NoNode]]
  /\ todo = [c \in Conns |-> <<>>]
  /\ lastFrame = [c \in Conns |-> [e \in Envs |-> 0]]
  /\ accepted = 0
  /\ totalConnections = 0
  /\ policyVersion = 0
  /\ weights = 0
  /\ lockQueue = <<>>
  /\ running = Nobody
  /\ sched = "top"
  /\ wake = FALSE
  /\ batch = <<>>
  /\ main = "serving"
  /\ stop = FALSE
  /\ fatal = FALSE
  /\ closeReason = ""
  /\ writing = {}
  /\ snapshot = [s \in Savers |-> [itr |-> 0, step |-> 0]]
  /\ saved = [itr |-> 0, step |-> 0]
  /\ gaveUp = FALSE

-----------------------------------------------------------------------------
(* The model lock, the lifecycle and the helpers of the decisions.         *)

Holds(t) == lockQueue # <<>> /\ Head(lockQueue) = t
Released == Tail(lockQueue)

(* A cancelled task gives up the lock, or its place among the waiters. *)
Withdraw_releases(t) ==                                         \* mutant
  lockQueue' = IF lockQueue = <<>> THEN <<>> ELSE Tail(lockQueue)
Withdraw(t) ==
  LET places == {i \in DOMAIN lockQueue : lockQueue[i] = t}
  IN  lockQueue' = IF places = {} THEN lockQueue
                   ELSE RemoveAt(lockQueue, CHOOSE i \in places : TRUE)

(* t asks for the lock, when q are the tasks that hold it or wait for it. *)
Acquire(t, q) ==
  /\ lockQueue' = Append(q, t)
  /\ running' = IF q = <<>> THEN t ELSE Nobody

handle_fatal ==
  /\ fatal' = TRUE
  /\ closeReason' = ""
  /\ stop' = TRUE
  /\ UNCHANGED main

infer_threshold ==
  IF MiniInferBatchSize # 0 THEN MiniInferBatchSize ELSE totalConnections
ready_count ==
  IF MiniInferBatchSize # 0 THEN queued_env_count ELSE Len(queue)

should_infer ==
  /\ ~should_learn
  /\ ready_count >= infer_threshold
  /\ totalConnections > 0

trains_on_any_version(sample) ==                                \* mutant
  sample # NoSample /\ ~should_learn
trains_on_when_full(sample) ==                                  \* mutant
  sample # NoSample /\ sample.version = policyVersion
trains_on(sample) ==
  /\ sample # NoSample
  /\ sample.version = policyVersion
  /\ ~should_learn

(* A handler's finally clause. *)
Leave_still_counted(c) ==                                       \* mutant
  /\ pc' = [pc EXCEPT ![c] = "off"]
  /\ alive' = [alive EXCEPT ![c] = FALSE]
  /\ wake' = TRUE
  /\ UNCHANGED totalConnections
Leave_unnoticed(c) ==                                           \* mutant
  /\ pc' = [pc EXCEPT ![c] = "off"]
  /\ alive' = [alive EXCEPT ![c] = FALSE]
  /\ totalConnections' = totalConnections - 1
  /\ UNCHANGED wake
Leave(c) ==
  /\ pc' = [pc EXCEPT ![c] = "off"]
  /\ alive' = [alive EXCEPT ![c] = FALSE]
  /\ totalConnections' =
       IF totalConnections > 0 THEN totalConnections - 1 ELSE 0
  /\ wake' = TRUE

-----------------------------------------------------------------------------
(* The connection handlers.                                                *)

mapVars == <<sampledBy, prevNode, lastFrame>>

(* _handler up to its first recv: the metadata has been sent, the          *)
(* connection counts, and its maps are empty.                              *)
Connect(c) ==
  /\ pc[c] = "off"
  /\ accepted < MaxConnects
  /\ pc' = [pc EXCEPT ![c] = "recv_infer"]
  /\ alive' = [alive EXCEPT ![c] = TRUE]
  /\ sampledBy' = [sampledBy EXCEPT ![c] = [e \in Envs |-> NoSample]]
  /\ prevNode' = [prevNode EXCEPT ![c] = [e \in Envs |-> NoNode]]
  /\ lastFrame' = [lastFrame EXCEPT ![c] = [e \in Envs |-> 0]]
  /\ accepted' = accepted + 1
  /\ totalConnections' = totalConnections + 1
  /\ wake' = TRUE
  /\ UNCHANGED <<coordinatorVars, algorithmVars, answer, todo,
                 policyVars, lockQueue, sched, batch, lifecycleVars,
                 saveVars>>

(* An infer message arrives: register, enqueue, wake the scheduler. *)
RecvInfer_unnoticed(c) ==                                       \* mutant
  /\ pc[c] = "recv_infer" /\ alive[c]
  /\ \E envs \in Batches : Submit(c, envs)
  /\ pc' = [pc EXCEPT ![c] = "await_response"]
  /\ UNCHANGED <<algorithmVars, alive, answer, mapVars, todo, accepted,
                 totalConnections, policyVars, lockQueue, sched, wake, batch,
                 lifecycleVars, saveVars>>
RecvInfer(c) ==
  /\ pc[c] = "recv_infer" /\ alive[c]
  /\ \E envs \in Batches : Submit(c, envs)
  /\ pc' = [pc EXCEPT ![c] = "await_response"]
  /\ wake' = TRUE
  /\ UNCHANGED <<algorithmVars, alive, answer, mapVars, todo, accepted,
                 totalConnections, policyVars, lockQueue, sched, batch,
                 lifecycleVars, saveVars>>

(* The future has its result: fill the maps and send the action.  A socket *)
(* that has gone makes the send fail, and the handler leaves.              *)
SendAction(c) ==
  /\ pc[c] = "await_response" /\ futures[c] = "answered"
  /\ pop_request(c)
  /\ sampledBy' = [sampledBy EXCEPT ![c] =
                     [e \in Envs |-> IF e \in ToSet(requested[c])
                                     THEN answer[c] ELSE @[e]]]
  /\ IF alive[c]
     THEN /\ pc' = [pc EXCEPT ![c] = "recv_feedback"]
          /\ UNCHANGED <<alive, totalConnections, wake>>
     ELSE Leave(c)
  /\ UNCHANGED <<queue, requested, algorithmVars, answer, prevNode,
                 todo, lastFrame, accepted, policyVars, lockQueue, sched,
                 batch, lifecycleVars, saveVars>>

(* A feedback message arrives; its frames need the model lock. *)
RecvFeedback(c) ==
  /\ pc[c] = "recv_feedback" /\ alive[c]
  /\ pc' = [pc EXCEPT ![c] = "await_lock"]
  /\ \E envs \in Batches : todo' = [todo EXCEPT ![c] = envs]
  /\ Acquire(c, lockQueue)
  /\ UNCHANGED <<coordinatorVars, algorithmVars, alive, answer, mapVars,
                 accepted, totalConnections, policyVars, sched, wake, batch,
                 lifecycleVars, saveVars>>

(* One environment's frame, under the lock: stored, or discarded and its   *)
(* chain cut.  Nothing else runs between the frames of one message.        *)
Store(c, e) ==
  /\ trains_on(sampledBy[c][e])
  /\ feedback(sampledBy[c][e].weights, prevNode[c][e])
  /\ prevNode' = [prevNode EXCEPT ![c][e] = NextNode]
  /\ lastFrame' = [lastFrame EXCEPT ![c][e] = NextNode.idx]

Discard(c, e) ==
  /\ ~trains_on(sampledBy[c][e])
  /\ prevNode' = [prevNode EXCEPT ![c][e] = NoNode]
  /\ lastFrame' = [lastFrame EXCEPT ![c][e] = 0]
  /\ UNCHANGED algorithmVars

Feed(c) ==
  /\ pc[c] = "await_lock" /\ Holds(c)
  /\ Store(c, Head(todo[c])) \/ Discard(c, Head(todo[c]))
  /\ todo' = [todo EXCEPT ![c] = Tail(@)]
  /\ IF Len(todo[c]) > 1
     THEN /\ running' = c
          /\ UNCHANGED <<pc, lockQueue, wake>>
     ELSE /\ running' = Nobody
          /\ pc' = [pc EXCEPT ![c] = "recv_infer"]
          /\ lockQueue' = Released
          /\ wake' = TRUE
  /\ UNCHANGED <<coordinatorVars, alive, answer, sampledBy, accepted,
                 totalConnections, policyVars, sched, batch, lifecycleVars,
                 saveVars>>

(* The handler awaits websocket.close before it leaves ("closing"), or     *)
(* before it also reports a fatal error ("failing").                       *)
CloseSocket(c, state) ==
  /\ pc' = [pc EXCEPT ![c] = state]
  /\ alive' = [alive EXCEPT ![c] = FALSE]
  /\ UNCHANGED <<totalConnections, wake>>

(* The shutdown aborted this request: ServerStoppingError.  The client is  *)
(* told the close reason if there is one.                                  *)
StopInFlight(c) ==
  /\ pc[c] = "await_response" /\ futures[c] = "stopping"
  /\ pop_request(c)
  /\ IF closeReason # "" THEN CloseSocket(c, "closing") ELSE Leave(c)
  /\ UNCHANGED <<queue, requested, algorithmVars, answer, mapVars, todo,
                 accepted, policyVars, lockQueue, sched, batch,
                 lifecycleVars, saveVars>>

(* The batch of this request failed. *)
InferenceFailed(c) ==
  /\ pc[c] = "await_response" /\ futures[c] = "failed"
  /\ CloseSocket(c, "failing")
  /\ UNCHANGED <<coordinatorVars, algorithmVars, answer, mapVars, todo,
                 accepted, policyVars, lockQueue, sched, batch,
                 lifecycleVars, saveVars>>

(* The handler's recv raises ConnectionClosed, or its close has ended. *)
ConnectionClosed(c) ==
  /\ \/ pc[c] \in {"recv_infer", "recv_feedback"} /\ ~alive[c]
     \/ pc[c] = "closing"
  /\ Leave(c)
  /\ UNCHANGED <<coordinatorVars, algorithmVars, answer, mapVars, todo,
                 accepted, policyVars, lockQueue, sched, batch,
                 lifecycleVars, saveVars>>

(* The except clause for any other exception, once the socket is closed. *)
HandlerFailed(c) ==
  /\ pc[c] = "failing"
  /\ Leave(c)
  /\ handle_fatal
  /\ UNCHANGED <<coordinatorVars, algorithmVars, answer, mapVars, todo,
                 accepted, policyVars, lockQueue, sched, batch, saveVars>>

(* _close_for_protocol_error: a message of the wrong shape costs its own   *)
(* connection only.                                                        *)
Resync(c) ==
  /\ "resync" \in Disturbances
  /\ pc[c] \in {"recv_infer", "recv_feedback"} /\ alive[c]
  /\ CloseSocket(c, "closing")
  /\ UNCHANGED <<coordinatorVars, algorithmVars, answer, mapVars, todo,
                 accepted, policyVars, lockQueue, sched, batch,
                 lifecycleVars, saveVars>>

(* _recv_feedback gives a silent client up, but not during a learn step. *)
FeedbackTimeout(c) ==
  /\ "silence" \in Disturbances
  /\ pc[c] = "recv_feedback"
  /\ sched \notin {"learning", "learnt"}
  /\ CloseSocket(c, "closing")
  /\ UNCHANGED <<coordinatorVars, algorithmVars, answer, mapVars, todo,
                 accepted, policyVars, lockQueue, sched, batch,
                 lifecycleVars, saveVars>>

(* Any other exception: of a message that cannot be processed, or of a     *)
(* frame, when the frames before it stay and those after it are lost.      *)
MessageFault(c) ==
  /\ "fault" \in Disturbances
  /\ pc[c] \in {"recv_infer", "recv_feedback"} /\ alive[c]
  /\ CloseSocket(c, "failing")
  /\ UNCHANGED <<coordinatorVars, algorithmVars, answer, mapVars, todo,
                 accepted, policyVars, lockQueue, sched, batch,
                 lifecycleVars, saveVars>>

FeedFault(c) ==
  /\ "fault" \in Disturbances
  /\ pc[c] = "await_lock" /\ Holds(c)
  /\ lockQueue' = Released
  /\ running' = Nobody
  /\ CloseSocket(c, "failing")
  /\ UNCHANGED <<coordinatorVars, algorithmVars, answer, mapVars, todo,
                 accepted, policyVars, sched, batch, lifecycleVars,
                 saveVars>>

(* The client goes away, or the shutdown closes the connection.  Only a    *)
(* handler in a recv notices.                                              *)
Vanish(c) ==
  /\ alive[c]
  /\ "drop" \in Disturbances \/ main = "closing"
  /\ alive' = [alive EXCEPT ![c] = FALSE]
  /\ UNCHANGED <<coordinatorVars, algorithmVars, pc, answer, mapVars,
                 todo, accepted, totalConnections, policyVars, lockQueue,
                 sched, wake, batch, lifecycleVars, saveVars>>

-----------------------------------------------------------------------------
(* The scheduler task: RuntimeScheduler.run, _process_infer and            *)
(* _run_control_cycle.                                                     *)

(* The top of the loop: stop, or infer when a batch is ready; either way   *)
(* the control cycle follows.                                              *)
LoopExit ==
  /\ sched = "top" /\ stop
  /\ sched' = "dead"
  /\ running' = Nobody
  /\ UNCHANGED <<coordinatorVars, algorithmVars, handlerVars, totalConnections,
                 policyVars, lockQueue, wake, batch, lifecycleVars,
                 saveVars>>

StartInfer ==
  /\ sched = "top" /\ ~stop /\ should_infer
  /\ batch' = queue
  /\ drain_batch
  /\ Acquire("scheduler", lockQueue)
  /\ sched' = "infer"
  /\ UNCHANGED <<futures, requested, algorithmVars, handlerVars,
                 totalConnections, policyVars, wake, lifecycleVars,
                 saveVars>>

SkipInfer ==
  /\ sched = "top" /\ ~stop /\ ~should_infer
  /\ Acquire("scheduler", lockQueue)
  /\ sched' = "may_learn"
  /\ UNCHANGED <<coordinatorVars, algorithmVars, handlerVars, totalConnections,
                 policyVars, wake, batch, lifecycleVars, saveVars>>

(* One inference for the whole batch; every answer carries the version of  *)
(* the policy that made it.                                                *)
Infer ==
  /\ sched = "infer" /\ Holds("scheduler")
  /\ Resolve(batch, "answered")
  /\ answer' = [c \in Conns |->
                  IF c \in ToSet(batch)
                  THEN [version |-> policyVersion, weights |-> weights]
                  ELSE answer[c]]
  /\ batch' = <<>>
  /\ Acquire("scheduler", Released)
  /\ sched' = "may_learn"
  /\ UNCHANGED <<queue, requested, algorithmVars, pc, alive, mapVars, todo,
                 accepted, totalConnections, policyVars, wake,
                 lifecycleVars, saveVars>>

(* A failing inference fails its batch, and the scheduler dies of it. *)
InferFails ==
  /\ "fault" \in Disturbances
  /\ sched = "infer" /\ Holds("scheduler")
  /\ Resolve(batch, "failed")
  /\ batch' = <<>>
  /\ lockQueue' = Released
  /\ sched' = "dead"
  /\ running' = Nobody
  /\ handle_fatal
  /\ UNCHANGED <<queue, requested, algorithmVars, handlerVars,
                 totalConnections, policyVars, wake, saveVars>>

(* The control cycle's first section: learn if the buffer is ready. *)
NothingToLearn_unasked ==                                       \* mutant
  /\ sched = "may_learn" /\ Holds("scheduler")
  /\ Acquire("scheduler", Released)
  /\ sched' = "may_save"
  /\ UNCHANGED <<coordinatorVars, algorithmVars, handlerVars, totalConnections,
                 policyVars, wake, batch, lifecycleVars, saveVars>>
NothingToLearn ==
  /\ sched = "may_learn" /\ Holds("scheduler") /\ ~should_learn
  /\ Acquire("scheduler", Released)
  /\ sched' = "may_save"
  /\ UNCHANGED <<coordinatorVars, algorithmVars, handlerVars, totalConnections,
                 policyVars, wake, batch, lifecycleVars, saveVars>>

StartLearn ==
  /\ sched = "may_learn" /\ Holds("scheduler") /\ should_learn
  /\ sched' = "learning"
  /\ running' = Nobody
  /\ UNCHANGED <<coordinatorVars, algorithmVars, handlerVars, totalConnections,
                 policyVars, lockQueue, wake, batch, lifecycleVars,
                 saveVars>>

(* report_learn_progress, the last time in this learn step: no stop has    *)
(* been requested, so nothing will interrupt it any more.                  *)
LastReport ==
  /\ sched = "learning" /\ ~stop
  /\ sched' = "learnt"
  /\ running' = Nobody
  /\ UNCHANGED <<coordinatorVars, algorithmVars, handlerVars, totalConnections,
                 policyVars, lockQueue, wake, batch, lifecycleVars,
                 saveVars>>

(* The finally clause around process_learn, run however the learn ended. *)
bump_version == policyVersion' = policyVersion + 1
EndLearn == bump_version /\ weights' = weights + 1

FinishLearn ==
  /\ sched = "learnt"
  /\ learn
  /\ EndLearn
  /\ lastFrame' = [c \in Conns |-> [e \in Envs |-> 0]]
  /\ Acquire("scheduler", Released)
  /\ sched' = "may_save"
  /\ UNCHANGED <<coordinatorVars, pc, alive, answer, sampledBy,
                 prevNode, todo, accepted, totalConnections, wake, batch,
                 lifecycleVars, saveVars>>

(* LearnInterrupted: no post_learn, the buffer and the iteration stay. *)
InterruptLearn ==
  /\ sched = "learning" /\ stop
  /\ EndLearn
  /\ Acquire("scheduler", Released)
  /\ sched' = "may_save"
  /\ UNCHANGED <<coordinatorVars, algorithmVars, handlerVars, totalConnections,
                 wake, batch, lifecycleVars, saveVars>>

LearnFails_lock_kept ==                                         \* mutant
  /\ "fault" \in Disturbances
  /\ sched = "learning"
  /\ EndLearn
  /\ sched' = "dead"
  /\ running' = Nobody
  /\ handle_fatal
  /\ UNCHANGED <<coordinatorVars, algorithmVars, handlerVars, totalConnections,
                 lockQueue, wake, batch, saveVars>>
LearnFails_logged ==                                            \* mutant
  /\ "fault" \in Disturbances
  /\ sched = "learning"
  /\ EndLearn
  /\ Acquire("scheduler", Released)
  /\ sched' = "may_save"
  /\ UNCHANGED <<coordinatorVars, algorithmVars, handlerVars, totalConnections,
                 wake, batch, lifecycleVars, saveVars>>
LearnFails ==
  /\ "fault" \in Disturbances
  /\ sched = "learning"
  /\ EndLearn
  /\ lockQueue' = Released
  /\ sched' = "dead"
  /\ running' = Nobody
  /\ handle_fatal
  /\ UNCHANGED <<coordinatorVars, algorithmVars, handlerVars, totalConnections,
                 wake, batch, saveVars>>

(* The end of an iteration: go round again at once if a batch is ready,    *)
(* wait otherwise.  The scheduler suspends only if nothing woke it.        *)
AfterControl ==
  /\ sched' = IF should_infer THEN "top" ELSE "idle"
  /\ running' = IF should_infer \/ wake' THEN "scheduler" ELSE Nobody

(* The control cycle's second section: save when the algorithm asks for it *)
(* or stops.                                                               *)
NothingToSave ==
  /\ sched = "may_save" /\ Holds("scheduler")
  /\ ~should_save /\ ~should_stop
  /\ lockQueue' = Released
  /\ UNCHANGED wake
  /\ AfterControl
  /\ UNCHANGED <<coordinatorVars, algorithmVars, handlerVars, totalConnections,
                 policyVars, batch, lifecycleVars, saveVars>>

StartWrite(t) ==
  /\ create_checkpoint
  /\ writing' = writing \cup {t}
  /\ snapshot' = [snapshot EXCEPT ![t] = Snapshot]
  /\ UNCHANGED <<saved, gaveUp>>

(* A checkpoint is filed under its step, and a resume takes the largest.   *)
FinishWrite(t) ==
  /\ t \in writing
  /\ saved' = IF snapshot[t].step >= saved.step THEN snapshot[t] ELSE saved
  /\ writing' = writing \ {t}
  /\ UNCHANGED snapshot

StartSave ==
  /\ sched = "may_save" /\ Holds("scheduler")
  /\ should_save \/ should_stop
  /\ StartWrite("scheduler")
  /\ sched' = "saving"
  /\ running' = Nobody
  /\ UNCHANGED <<coordinatorVars, handlerVars, totalConnections, policyVars,
                 lockQueue, wake, batch, lifecycleVars>>

(* The checkpoint is written.  An algorithm that has finished asks for the *)
(* shutdown, with the reason that tells clients not to come back; it is    *)
(* recorded even when a shutdown is already under way.                     *)
FinishSave ==
  /\ sched = "saving"
  /\ FinishWrite("scheduler")
  /\ lockQueue' = Released
  /\ IF should_stop
     THEN /\ closeReason' = "STOP"
          /\ stop' = TRUE
          /\ wake' = TRUE
          /\ UNCHANGED <<main, fatal>>
     ELSE UNCHANGED <<lifecycleVars, wake>>
  /\ AfterControl
  /\ UNCHANGED <<coordinatorVars, algorithmVars, handlerVars, totalConnections,
                 policyVars, batch, gaveUp>>

SaveFails_ignored ==                                            \* mutant
  /\ "fault" \in Disturbances
  /\ sched = "saving" /\ "scheduler" \in writing
  /\ writing' = writing \ {"scheduler"}
  /\ lockQueue' = Released
  /\ IF should_stop
     THEN /\ closeReason' = "STOP"
          /\ stop' = TRUE
          /\ UNCHANGED <<main, fatal>>
     ELSE UNCHANGED lifecycleVars
  /\ UNCHANGED wake
  /\ AfterControl
  /\ UNCHANGED <<coordinatorVars, algorithmVars, handlerVars, totalConnections,
                 policyVars, batch, snapshot, saved, gaveUp>>
SaveFails ==
  /\ "fault" \in Disturbances
  /\ sched = "saving" /\ "scheduler" \in writing
  /\ writing' = writing \ {"scheduler"}
  /\ lockQueue' = Released
  /\ sched' = "dead"
  /\ running' = Nobody
  /\ handle_fatal
  /\ UNCHANGED <<coordinatorVars, algorithmVars, handlerVars, totalConnections,
                 policyVars, wake, batch, snapshot, saved, gaveUp>>

Wake ==
  /\ sched = "idle"
  /\ wake \/ IdleTimeout
  /\ wake' = FALSE
  /\ sched' = "top"
  /\ running' = "scheduler"
  /\ UNCHANGED <<coordinatorVars, algorithmVars, handlerVars, totalConnections,
                 policyVars, lockQueue, batch, lifecycleVars, saveVars>>

-----------------------------------------------------------------------------
(* The main task: run, _shutdown, _save_on_exit and lifecycle.shutdown.    *)

(* SIGINT or SIGTERM: request_shutdown without a close reason. *)
Signal ==
  /\ "signal" \in Disturbances
  /\ ~stop
  /\ stop' = TRUE
  /\ UNCHANGED <<coordinatorVars, algorithmVars, handlerVars, totalConnections,
                 policyVars, lockQueue, sched, wake, batch, main, fatal,
                 closeReason, saveVars>>

(* What follows the shutdown's own save: abort the pending requests, then  *)
(* close the connections.                                                  *)
BeginClosing ==
  /\ abort_pending_requests
  /\ main' = "closing"
  /\ UNCHANGED <<requested, stop, fatal, closeReason>>

(* _save_on_exit decides against a save after a fatal error, and when the  *)
(* algorithm itself has stopped the server.                                *)
ShutdownWithoutSave ==
  /\ main = "serving" /\ stop
  /\ fatal \/ closeReason = "STOP"
  /\ BeginClosing
  /\ UNCHANGED <<algorithmVars, handlerVars, totalConnections, policyVars,
                 lockQueue, sched, wake, batch, saveVars>>

ShutdownWithSave ==
  /\ main = "serving" /\ stop
  /\ ~fatal /\ closeReason # "STOP"
  /\ Acquire("main", lockQueue)
  /\ main' = "exit_save"
  /\ UNCHANGED <<coordinatorVars, algorithmVars, handlerVars, totalConnections,
                 policyVars, sched, wake, batch, stop, fatal, closeReason,
                 saveVars>>

StartExitSave_without_lock ==                                   \* mutant
  /\ main = "exit_save"
  /\ StartWrite("main")
  /\ main' = "exit_saving"
  /\ running' = Nobody
  /\ UNCHANGED <<coordinatorVars, handlerVars, totalConnections, policyVars,
                 lockQueue, sched, wake, batch, stop, fatal, closeReason>>
StartExitSave ==
  /\ main = "exit_save" /\ Holds("main")
  /\ StartWrite("main")
  /\ main' = "exit_saving"
  /\ running' = Nobody
  /\ UNCHANGED <<coordinatorVars, handlerVars, totalConnections, policyVars,
                 lockQueue, sched, wake, batch, stop, fatal, closeReason>>

FinishExitSave ==
  /\ main = "exit_saving"
  /\ FinishWrite("main")
  /\ lockQueue' = Released
  /\ BeginClosing
  /\ UNCHANGED <<algorithmVars, handlerVars, totalConnections, policyVars,
                 sched, wake, batch, gaveUp>>

(* The save fails: a warning, and the shutdown goes on. *)
ExitSaveFails ==
  /\ "fault" \in Disturbances
  /\ main = "exit_saving" /\ "main" \in writing
  /\ writing' = writing \ {"main"}
  /\ gaveUp' = TRUE
  /\ lockQueue' = Released
  /\ BeginClosing
  /\ UNCHANGED <<algorithmVars, handlerVars, totalConnections, policyVars,
                 sched, wake, batch, snapshot, saved>>

(* wait_for's timeout cancels the save, waiting for the lock or under way. *)
(* A thread that is already writing goes on, but no longer under the lock. *)
GiveUpExitSave ==
  /\ "giveup" \in Disturbances
  /\ main \in {"exit_save", "exit_saving"}
  /\ Withdraw("main")
  /\ gaveUp' = TRUE
  /\ BeginClosing
  /\ UNCHANGED <<algorithmVars, handlerVars, totalConnections, policyVars,
                 sched, wake, batch, writing, snapshot, saved>>

(* The end of lifecycle.shutdown: the connections have been closed or      *)
(* their closing timed out, and the scheduler is cancelled wherever it is. *)
CancelScheduler ==
  /\ main = "closing"
  /\ main' = "done"
  /\ sched' = "dead"
  /\ Withdraw("scheduler")
  /\ IF sched \in {"learning", "learnt"} THEN EndLearn
                                           ELSE UNCHANGED policyVars
  /\ UNCHANGED <<coordinatorVars, algorithmVars, handlerVars, totalConnections,
                 wake, batch, stop, fatal, closeReason, saveVars>>

(* A write whose task was cancelled: the thread runs to its end. *)
FinishDetachedWrite(t) ==
  /\ \/ t = "scheduler" /\ sched # "saving"
     \/ t = "main" /\ main # "exit_saving"
  /\ FinishWrite(t)
  /\ UNCHANGED <<coordinatorVars, algorithmVars, handlerVars, totalConnections,
                 policyVars, lockQueue, running, sched, wake, batch,
                 lifecycleVars, gaveUp>>

-----------------------------------------------------------------------------
(* The steps of each task, grouped by what makes them happen.  The steps   *)
(* that take the lock, or have it, say who runs on; the others suspend.    *)
ClientStep(c) ==
  /\ running = Nobody
  /\ (RecvInfer(c) /\ UNCHANGED running) \/ RecvFeedback(c)

HandlerStep(c) ==
  \/ running \in {Nobody, c} /\ Feed(c)
  \/ /\ running = Nobody
     /\ \/ SendAction(c) \/ StopInFlight(c) \/ InferenceFailed(c)
        \/ ConnectionClosed(c) \/ HandlerFailed(c)
     /\ UNCHANGED running

HandlerTrouble(c) ==
  \/ running \in {Nobody, c} /\ FeedFault(c)
  \/ /\ running = Nobody
     /\ Resync(c) \/ FeedbackTimeout(c) \/ MessageFault(c) \/ Vanish(c)
     /\ UNCHANGED running

NewConnection(c) == running = Nobody /\ Connect(c) /\ UNCHANGED running

SchedulerStep ==
  /\ running \in {Nobody, "scheduler"}
  /\ \/ LoopExit \/ StartInfer \/ SkipInfer \/ Infer
     \/ NothingToLearn \/ StartLearn \/ LastReport \/ FinishLearn
     \/ InterruptLearn \/ NothingToSave \/ StartSave \/ FinishSave \/ Wake

SchedulerTrouble ==
  /\ running \in {Nobody, "scheduler"}
  /\ InferFails \/ LearnFails \/ SaveFails

MainStep ==
  \/ running \in {Nobody, "main"} /\ StartExitSave
  \/ running = Nobody /\ ShutdownWithSave
  \/ /\ running = Nobody
     /\ ShutdownWithoutSave \/ FinishExitSave \/ CancelScheduler
     /\ UNCHANGED running

MainTrouble ==
  /\ running = Nobody
  /\ Signal \/ ExitSaveFails \/ GiveUpExitSave
  /\ UNCHANGED running

Next ==
  \/ /\ main # "done"
     /\ \/ \E c \in Conns : \/ NewConnection(c) \/ ClientStep(c)
                            \/ HandlerStep(c) \/ HandlerTrouble(c)
        \/ SchedulerStep \/ SchedulerTrouble
        \/ MainStep \/ MainTrouble
  \/ \E t \in Savers : FinishDetachedWrite(t)

Spec == Init /\ [][Next]_vars

(* The event loop runs every task that can run, and threads end.  Nothing  *)
(* is assumed of clients here.                                             *)
ServerFairness ==
  /\ \A c \in Conns : WF_vars(main # "done" /\ HandlerStep(c))
  /\ WF_vars(main # "done" /\ SchedulerStep)
  /\ WF_vars(main # "done" /\ MainStep)
  /\ \A t \in Savers : WF_vars(FinishDetachedWrite(t))

(* Connected clients keep playing: they send the next message they owe.    *)
ClientFairness == \A c \in Conns : WF_vars(main # "done" /\ ClientStep(c))

ServerSpec == Spec /\ ServerFairness
FairSpec == ServerSpec /\ ClientFairness

=============================================================================
