# A formal model of plugrl-server

`plugrl_server` trains a reinforcement-learning policy from environment clients
that play over WebSocket connections. A client sends observations and gets
actions; it steps its environments and sends the outcome back; the server
stores the frames, learns when its buffer is full, writes checkpoints and stops
when the training budget is used up. This directory holds TLA+ models of the
server's control logic, the configurations that check them with TLC, and proofs
checked by TLAPS. Paths below are relative to `src/plugrl_server/` in the
repository unless they start with `examples/` or `harness/`.

## 1. Inventory

### Core: one asyncio process

| Part | State | Operations | Correct when |
|---|---|---|---|
| **Connection handlers** `server/websocket_agent_server.py:274-517` | per connection: `sampled_by_map`, `prev_node_map`, step-state maps; `_total_connections` | send metadata, receive infer, await response, send action, receive feedback (with timeout), feed frames under the lock, close | frames are stored only if sampled by the collecting policy; each handler is counted exactly while it runs; chains link successive steps |
| **InferenceCoordinator** `server/inference_coordinator.py` | queue of requests, response futures, queued env count | register, enqueue, drain, resolve, fail, pop, abort | a request is answered once, or refused; none is lost between queue and batch |
| **RuntimeScheduler** `server/runtime_scheduler.py` with `_process_infer`, `_run_control_cycle` (`websocket_agent_server.py:571-684`) | `_wake` event, `_policy_version`, the batch in hand | infer when a batch is ready, learn when the buffer is, save when asked, stop when done, wait | no lost wake; no state in which clients wait and nothing is done |
| **ServerLifecycle** `server/lifecycle.py`, `run`, `_shutdown`, `_save_on_exit` | `stop_event`, `close_reason`, `fatal_reported` | signals, fatal errors, shutdown sequence, its own save with a timeout | ends; loses no completed learning; says STOP only if training is over and saved |
| **LocalTrainingBackend** `server/training_backend.py:27-100` | callbacks | learn in a thread, interrupt it, save in a thread | one thread at a time touches the model |
| **On-policy algorithms** `algorithm/ppo`, `algorithm/dppo`, `algorithm/fpo`, `algorithm/base_algorithm.py` | `global_step`, `curr_train_itrs`, `last_saved_itr`, buffer | feedback, learn, `should_learn`/`should_save`/`should_stop`, create and load checkpoints | counters agree with what was learned |
| **Rollout buffer, GAE** `buffer/rollout_buffer.py`, `ppo_buffer.py`, `dppo_buffer.py` | frames, `next_indices`, `buffer_signature`, bootstrap requests, running returns | add_frame, reset, compute advantages, as/load dict | each chain is one environment's consecutive steps; advantages follow it |
| **Minibatch loops** `learn_impl` of the three, `algorithm/train_utils.py`, `algorithm/master_weights.py` | weights, accumulated gradients, float32 copies, learning-rate schedules | accumulate, step, flush, break, warm up, restore, resume | a step is the mean of its window; weights, counters and schedules agree |
| **CheckpointManager** `common/checkpoint_manager.py` | numbered directories on disk | save via a temporary directory and rename, find the latest, load | a crash leaves something to resume from |

The parts interact through one asyncio lock on the model (`_model_lock`), the
request queue and its futures, the wake event, the stop event, and two kinds of
threads (learn, save) that the scheduler or the shutdown awaits while it holds
the lock.

### Around the core

- **SAC and the replay buffer** (`examples/sac/sac.py`, `buffer/replay_buffer.py`):
  an off-policy algorithm that the same server runs. State: a ring buffer,
  three counters, an update counter that paces actor and target networks. It must
  sample recent frames, learn as fast as clients play, and survive a restart.
- **The sweep harness** (`harness/plugrl_sweep/`): runs a matrix of environments,
  policies and seeds, a server process and a client process for each cell, and
  appends outcomes to `results.jsonl`. State: that file, the cells' directories, the
  processes. It must come to one honest verdict per cell, however often it is interrupted.
- **The Ray server and learner** (`server/ray_agent_server.py`, `ray_learner.py`, the
  second half of `training_backend.py`, `algorithm/dppo/dppo_dist.py`), the evaluation and
  dummy algorithms, the command line, protocol validation and metadata, metrics
  and progress, the policies. `PROJECT.json` lists each with its status.

### What is hard here

- The server infers for all clients in one batch, so a full buffer finds
  actions in flight. The order in which feedback, inference and the learn step
  take the lock must not decide what is trained on.
- The feedback handler keeps per-environment state across messages, learn steps
  and buffer fillings; a handle into an old filling must not chain into a new one.
- A learn step can be interrupted (by a shutdown), fail, or outlive its
  cancelled task; a save thread can outlive its cancelled task too.
- The algorithm may finish, a signal may arrive and a fatal error may happen in
  any order; each of them writes `close_reason`.
- A batch waits for as many clients as are connected: the count must follow
  every way in which a handler can end.
- The scheduler sleeps on an event which it clears itself.
- GAE walks backwards over an array in which several environments' frames are
  interleaved, with 0 as "no next frame" and arrays that keep old contents.
- Gradient accumulation windows end early, warm-ups leave gradients behind, master
  weights overwrite the model, and all of it is interrupted, killed and resumed.
- A checkpoint holds some of the state (counters) and not the rest (buffers).
- A killed sweep leaves processes that write into the directories of the next one.

## 2. The modules

| Module | Models | Uses |
|---|---|---|
| `InferenceCoordinator` | queue and futures; operators that are parts of the server's actions | `SequencesExt` |
| `OnPolicyAlgorithm` | buffer with chains, counters and decisions of PPO/DPPO (`StepBudget = FALSE`) and FPO (`TRUE`) | |
| `AgentServer` | the whole server: handlers, scheduler, main task, lock, threads | both of the above |
| `AgentServerCorrectness` | the properties | `AgentServer` |
| `MCAgentServer`, `MCAgentServer_*.cfg` | TLC instances | `AgentServerCorrectness` |
| `AgentServerProofs` | theorems: types, lock, policies | `AgentServerCorrectness`, TLAPS |
| `AgentServerAccountProofs` | theorems: what is counted, chained, learned and saved | `AgentServerProofs` |
| `RolloutBuffer` | the buffer object: chains, bootstrap requests, GAE, running returns, statistics; its properties | |
| `MCRolloutBuffer` and `.cfg` | TLC instance | `RolloutBuffer` |
| `RolloutBufferProofs` | theorems | `RolloutBuffer`, `NumberLemmas`, TLAPS |
| `Training`, `Training.cfg` | minibatch loops of PPO, DPPO and FPO, and runs that are interrupted, killed and resumed; its properties and its TLC instance | |
| `TrainingProofs` | theorems | `Training`, `NumberLemmas`, TLAPS |
| `OffPolicyTraining`, `OffPolicyTraining_*.cfg` | SAC, replay buffer, control cycle, resume; its properties and TLC instances | |
| `OffPolicyProofs` | theorems | `OffPolicyTraining`, `NumberLemmas`, TLAPS |
| `NumberLemmas` | quotients and remainders, smallest numbers; for the proofs | TLAPS |
| `Sweep` | the harness, its processes and files; its properties | |
| `MCSweep`, `MCSweep_*.cfg` | TLC instances | `Sweep` |
| `SweepProofs` | theorems | `Sweep`, `NumberLemmas`, TLAPS |
| `CheckpointStore` | `save_checkpoint` by file operations, kills, resume from the latest; its properties | `CheckpointRegister` |
| `CheckpointRegister` | abstract: a save is made ready, takes its place at the newest step, and is read by a resume; the checkpoint it replaces may be broken before, no other is touched | |
| `MCCheckpointStore`, `MCCheckpointStore_*.cfg` | TLC instances | `CheckpointStore` |
| `CheckpointStoreProofs` | theorems | `CheckpointStore`, TLAPS |

### How state corresponds to the code

- `pc[c]` is the `await` at which connection `c`'s handler is suspended:
  `recv_infer` (line 295), `await_response` (329), `recv_feedback` (497),
  `await_lock` (388), `closing` and `failing` (a `websocket.close` it awaits).
  `alive[c]` is whether the socket is open; only a handler in a `recv` or a send notices
  that it is not. A slot may be connected again, which is a new connection.
- `sched` is where the scheduler stands in one iteration: `top`, `infer` (waiting for the lock with a batch), `may_learn` and `may_save` (the two
  lock sections of the control cycle), `learning`, `learnt` (the learn thread,
  before and after its last look at the stop event), `saving`, `idle`, `dead`.
- `main` is the shutdown: `exit_save` waits for the lock, `exit_saving` has the
  thread running, `closing` has aborted the requests and closes connections.
- `lockQueue` is the model lock: asyncio's lock is fair, so the queue's
  head holds it or will take it next.
- `running` makes steps as atomic as the code: taking a free lock or
  waiting for a set event does not suspend a task, so the task that did goes on
  before any other one. `Nobody` means the event loop chooses.
- `buffer[i].prev` turns `next_indices` round: it names the frame whose
  next-index points at frame `i`, 0 for none. Buffer indices start at 1 and 0 is the code's -1.
- `signature` counts where the code draws a fresh uuid.
- `weights`, `lastFrame`, `gaveUp` and the `weights` field of a sample are
  history: no guard reads them, properties do.

The queue's env count is derived from the queue instead of kept. Actions, observations, rewards and neural networks are left out: a frame is
what sampled it and what it is chained to. The frames of one message are fed
one step at a time, but with `running` set, so nothing comes between them,
as in the code's loop under the lock; a fault may strike between two of them.

A learn step is three events: its start, the last progress report at
which no stop was requested (after which nothing can interrupt it), and its end.
It assumes that a learn step reports at least once, true whenever the buffer
is not empty. `post_learn` and the end of `learn_impl` are one step, as the lock
is held throughout; a failure between them is a `LearnFails` that changes no
counter, which only matters for a server that is stopping fatally anyway.

`CheckpointStore` looks inside what `AgentServer` calls one write. A directory
maps each of the four files to the save that wrote it (0 if missing), so that a
mixture of two saves can be told from a whole one. `writer[w]` is how far a
save thread has come in `save_checkpoint`; `shutil.rmtree` is one step per
file, in any order. `Kill` ends the process between any two
steps, and `SaveError` ends one thread (a full disk, or a directory that
another thread has removed). `Resume` is `cli.py --resume`: it takes the directory
with the largest number, and whatever files are in it. A step that has a checkpoint may be
saved again, as `_save_on_exit` does after a periodic save. `completed`, `replacing` and `retried`
are history: the last completed save of each step, the steps whose checkpoint a save began to remove, and
those of them that were saved anew after that save broke off. One constant connects the
module to the server: `Overlap` (a save starts while another runs, which `OneWriter` allows only
after `gaveUp`). The model weights a file holds are not modelled, only whose they are.

`RolloutBuffer` is the detailed buffer of which `OnPolicyAlgorithm` keeps only
what the server's interleavings need. `buffer` is the code's object with its 0-based indices;
a row is one index of all its arrays. Numbers are symbolic: the reward, the
value and the observation of an environment's k-th step are the step `<<env, k>>`, an
advantage is the sequence of the deltas it sums, and an array cell that was
not written in this filling is `Stale`. So two advantages are equal exactly if they add up
the same terms. FPO by default recomputes them in every epoch of a learn step (`algorithm/fpo/fpo.py:339-343`), over
the same chains; the model has that as the one walk of `pre_learn`. `node` and `outcome` are the server's `prev_node_map`,
`terminated_map` and `truncated_map`. `story` is history: what each environment did,
from which the reference definition `EpisodeAdvantage` is computed without any chain.

`Training` takes a buffer as its number of frames and a network as the set of
learn steps (`attempts`) that have changed it. One action is one minibatch; `loop` is
`learn_impl`'s local variables, `gradients` what is in `.grad`, `windows` the optimizer steps of
the learn step under way, with what went into each. `pc` is the control cycle,
without locks, as `AgentServer` has those. `Restart` is `--resume`.
`Pretrained` stands for the weights that `restore` takes from another run.

`OffPolicyTraining` has the same control cycle around SAC. A frame is its number, a
network the number of its steps. `in_flight` counts actions sent whose outcome is not
stored; a client answers (`feedback`) whenever the lock is free, which includes between
the two sections of the cycle.

In `Sweep` the disk (`results`, `marked`, `summaries`) survives what happens to
processes. `pc` is where `run_sweep` and `run_cell` are, `pending` the cells to come.
`ClientEnds` is how a client ends: exit code 0, an error that names a missing
dependency, any other error, or killed at its time limit. `orphans` are the processes of
a killed sweep which still have something to write into a cell's directory. `completed` is history: the
cells of which the client of the latest attempt has finished its episodes.

### Disturbances

The constant `Disturbances` says what may go wrong in an instance: `drop` (a
client goes away), `resync` (a message is malformed), `silence` (a client sends no feedback
until the timeout), `fault` (an exception in a handler, inference, learning or a
save), `signal` (SIGINT/SIGTERM), `giveup` (the shutdown's save runs into its
timeout). Without any of them the clients are perfect.

## 3. Properties

Each module has a type invariant `TypeOK`; that of `Sweep` is not part of a run, as it is proved.
Safety of the server, in `AgentServerCorrectness`:

- `OnPolicyBuffer`: the buffer never mixes policies. Only a learn step that was
  stopped short leaves a buffer of the policy before, to which nothing is added.
- `StepsAccounted`: `global_step` is exactly the frames learned from plus those
  in the buffer.
- `ChainsFollowSteps`: a handler's node for an environment is that
  environment's previous stored step on this connection, or none, across
  learn steps, discarded frames and reconnects.
- `RequestsAccounted`, `ConnectionsCounted`: no request is lost or doubled, no
  connection is leaked or counted twice.
- `LockDiscipline`, `OneWriter`: who learns or writes has the lock; two save
  threads overlap only after the shutdown abandoned one.
- `StopMeansSaved`, `ShutdownLosesNoLearning`: what the server has told its
  clients, or learned, is on disk.
- `StopMeansTrained`: a run that clients are told is over has learned from every frame
  it counted. It holds with batches of every connection, no fault and no signal, and
  not in general (sections 4 and 5).

Of the checkpoint store, in `CheckpointStore`:

- `CheckpointsWhole`: under a step's name stands one whole completed save, or
  nothing, unless a save is replacing that step.
- `TmpIsThisSave`: a save never finds files of another in its temporary directory.
- `StaysRecoverable`: wherever a save breaks off, also one that replaces a checkpoint, the last completed
  save of the step still stands whole under its name, or the newer one whole in `tmp_<step>`. What the code
  cannot keep is excepted by name: a step that is saved anew (`retried`) after the old checkpoint went, since
  that begins by clearing `tmp_<step>`.
- `RegisterSpec`: the store refines `CheckpointRegister`: checkpoints appear whole and at the newest step, no
  earlier one is touched again, and the newest is taken away only for a newer save that is whole.
- `StaysResumable`: once a checkpoint was completed, a kill at any moment leaves
  a whole one as the latest. The code does not keep this (section 5).

Of the rollout buffer, in `RolloutBuffer`:

- `AdvantagesPerEpisode`: the backward walk over the array gives each frame the
  deltas of its own episode, computed forwards from what its environment did.
- `RunningReturns`: the same for the running return, per episode (PPO) or per unbroken run (DPPO).
- `ChainsSound`: chains lead forward, never meet, and each end has a bootstrap
  request; so the loop never reads what is not yet computed or written.
- `StatisticsSeeTheFilling`: the observation statistics that the next filling is collected under have taken in
  every frame of the last, and nothing else; PPO and DPPO move them after learning, FPO before.

Of training, in `Training`:

- `StepsAreMeans`, `EveryMinibatchCountsOnce`: with partial windows at the end of an
  epoch and at an early stop, each step is the mean of its minibatches, and each minibatch
  is in one step.
- `WarmupKeepsActor`: no gradient of a critic warm-up reaches the actor, ever.
- `CountersDescribeWeights`: iterations, schedules and weights agree across
  interruptions, kills, resumes and restored weights.
- `StepsLostOnlyOnRestart`: `global_step` is the frames learned from, those in
  the buffer, and those that were in the buffer of a process that was resumed from.
- `KillCostsAtMostAnInterval`: a kill undoes at most `save_interval` iterations.

Of SAC, in `OffPolicyTraining`: `ReplayIsRecent` (what it samples from is exactly the
latest frames), `NetworksInStep` (frequencies hold across kills and resumes),
`BacklogBounded` (clients cannot outrun learning by more than what is in flight),
`KillCostsAtMostAnInterval` (the interval and two rounds of the clients).

Of the sweep, in `Sweep`: `OneVerdictPerCell`; `MatrixHonest` (each recorded seed of a combination that reads ok was
unavailable, or is ok and has the summary of a client that completed the cell in some attempt, and one at least is ok);
`OkWasCompleted` (a cell is ok only if the client that was run for it completed its episodes), which the code does not
keep (section 5).

Liveness: `RequestsAnswered`, `ShutdownTerminates`, `TrainingCompletes` of the server,
`RunEnds` of SAC, `SweepCompletes`.

### Runs

| Run | Instance | Shows |
|---|---|---|
| `learning` | 2 slots, 2 environments each, mini batch 2, buffer 3, 2 learn steps, drops | the on-policy and chaining properties where they are hard: frames in flight around a learn step, partial batches, messages naming other environments |
| `fpo` | step budget 3 with a buffer of 2, 3 connections, drops, malformed messages, silence, no idle timeout; with fairness | FPO counts and learns from everything, answers every request, and reaches its budget unless all clients leave for good |
| `trouble` | every disturbance, 2 connections, buffer 2, 2 learn steps, no idle timeout; server fairness | requests, connection count, lock, saves and stop reason under all failures together; nothing is added to a buffer whose learn step was interrupted or failed; a stop always ends the server |
| `ckpt_store` | 1 writer, 3 steps, 4 saves, 3 kills, steps saved again | checkpoints are whole, temporary directories clean, a replaced checkpoint goes only for a whole one; refinement of the register |
| `rollout` | 2 environments, buffer 3, 2 fillings, 1 lost step per filling, all three algorithms | advantages, returns and statistics |
| `training` | 2 frames, 4 minibatches, 2 epochs, windows of 3, 2 warm-up iterations, 5 iterations (7 steps for FPO), 3 restarts, all three algorithms | what is in the weights |
| `off_policy` | ring of 3, start after 5 steps, learn every 2 with 2 updates, 9 steps, 2 clients, 2 restarts | sampling, pacing, saving and ending |
| `sweep` | one combination, two seeds, 3 interruptions, kills or repetitions | verdicts survive whatever happens to the harness |
| `fpo_mini_batches`, `ckpt_replaced`, `off_policy_resumed`, `sweep_stale_summary` | violations | see section 5 |

**Bounds.** Two connections are the fewest at which one can wait while another
acts, and a third accepted connection makes one of them a reconnect. The buffer
sizes (1 to 3) leave frames in flight when it fills; two learn steps let a
frame survive one and meet the next. `MaxConnects` bounds the connections
accepted in a run; every other counter is bounded by the training budget, as in the code,
because a server that has reached it stops.
`SYMMETRY` permutes connections in safety runs only. Deadlock checking is off
because a server that is done has stopped, as has a store whose process is down
with nothing to resume from. Three steps and four saves let a save be killed, its step
be saved again and a later one follow; the theorems of section 4 have no bounds.

A rollout buffer of 3 is the smallest in which two environments' chains interleave and
one of them goes on past the other; its second filling finds the first one's contents. In `training` 4 minibatches
in windows of 3 leave a partial window in every epoch, two epochs let it meet the
next, and a `save_interval` of 2 leaves an iteration unsaved; 5 iterations go past the warm-up on either side of a restart. The ring of 3 wraps
before SAC starts to learn, and an interval of 2 with 2 clients lets in-flight frames
pass it. `MaxRestarts`, `MaxLost` and `MaxStops` bound only the adversary. Two seeds are
the fewest a verdict has to fold.

**Fairness.** `ServerFairness` is what the asyncio loop and the operating system give:
every task that can run does, threads end, the shutdown's steps are taken. It says nothing of
clients, connections or disturbances. `trouble` assumes only that.
`ClientFairness` adds, in `fpo`, that a connected client sends the message it owes;
without it one silent client rightly holds up everyone until the feedback
timeout, and an idle client that never sends an infer holds up the batch for ever: the
code waits for it on purpose. Connections that come and go without end could
also keep a batch from ever being complete, which `MaxConnects` excludes; and
`TrainingCompletes` excepts a server whose clients have all left for good.
Both runs set `IdleTimeout = FALSE`, so that a lost wake
would be seen as a hang and not as a delay.
`OffPolicyTraining` assumes that the scheduler goes on, that clients answer and that the
shutdown takes its steps; `Sweep` that the harness goes on, whose waits all have
timeouts: of the two processes and of the operator it assumes nothing.

## 4. Proofs

`AgentServerProofs` proves for all values of the constants:

- `TypeCorrectness`: `TypeOK` is invariant. `TypeOK` is not inductive by
  itself: `Tail(lockQueue)` and `Head(todo[c])` need the queue not to
  be empty. The inductive invariant `TypeInv` adds that a handler waiting
  with a message has frames left, and `LockDiscipline`.
- `LockDisciplineHolds`, from the same invariant. The lemmas `AcquireQueue`,
  `ReleaseQueue` and `WithdrawQueue` say what each lock operator does to the
  queue and its head.
- `OneWriterHolds`: strengthened by `WritersSaving`, which says that until the shutdown
  gives up a save thread belongs to a task in its saving state; two such tasks would both be the head of the lock.
- `OnPolicyBufferHolds`: strengthened by `PolicyInv`. The version the
  server compares equals the true version of the weights, every label is true,
  a learn step under way was asked for, and a shutdown under way
  has set the stop event. The last two show that an interrupted or failed learn
  leaves `should_learn` true, and so a buffer that takes no more frames.

`AgentServerAccountProofs` goes on from there, also for all values of the constants. Each
theorem has an inductive invariant of its own, on top of `TypeInv` and where needed `PolicyInv`:

- `ConnectionsCountedHolds`, by `CountInv`: the count is the cardinality of `AtWork`, the handlers
  between their first and last line. It is inductive because a handler enters and leaves
  that set exactly where it counts itself in and out.
- `RequestsAccountedHolds`, by `RequestInv`. `RequestsAccounted` says who waits; what makes
  it inductive is where a request is: `Tracked` has each waiting request once in the queue or
  in the batch, and `AppendOnce`, `OnePlace` say that registering, draining and
  popping keep it so.
- `ChainsFollowStepsHolds`, by `ChainsInv`. A node of this filling is the end of its chain, no
  two maps hold the same end, and nodes of earlier fillings are told apart by the signature.
- `StopMeansSavedHolds` and `ShutdownLosesNoLearningHolds`, by `SaveInv`. It follows what each
  writing thread has taken a snapshot of: a checkpoint on disk is never ahead of the counters, a
  write whose task still waits for it holds the lock and so snapshots the state as it is, and once the
  shutdown is past its save no learn step completes (`NoLearnAfterStop`), because the last look at the stop
  event comes after the event was set. A write that the shutdown gave up may end later; it
  cannot replace a later step, as a resume takes the largest.
- `StepsAccountedHolds`, by `StepsInv`. Frames and steps agree trivially as long as nothing is
  refused; the hard part is that FPO's last, partly filled buffer leaves samples out. Once
  the budget is used up and learned, every sample is stale and the server can only stop (`NothingAfterBudget`), so none
  of them is counted. `VersionsPast` says no sample is of a version to come. Assumes `GlobalSteps > 0` for
  FPO: with a budget of zero the server stops at its first look, for a reason this
  invariant does not give (TLC finds the property to hold there too).
- `StopMeansTrainedHolds`, by `TrainedInv`, assuming `MiniInferBatchSize = 0`, no `fault` and no
  `signal`, and a positive budget. The argument is about who can be queued for the lock between the
  two sections of the control cycle. `LockClaims` says that the lock's queue holds each task that wants or has
  it once. A batch of every connection means that whoever
  counts is in the batch (from `CountInv` and `RequestInv`), so nobody sends feedback while it is inferred
  (`InferAtOnce`); feedback can only wait behind a learn step, whose version change makes it stale
  (`ContendedStale`). So nothing is stored between the sections, and a save that stops the run finds `should_learn` as the first
  section left it. Clients may go, be cut off and return: no condition on `drop`, `resync` or `silence`.
  The three conditions are each needed: TLC violates the property with mini batches alone (`fpo_mini_batches`),
  with `signal` alone, and with `fault` alone.

`CheckpointStoreProofs` proves, for any steps, saves and kills:

- `StoreTypeCorrectness`. `step' = Latest` is typed only if there is a largest
  checkpoint, so the invariant adds `BoundedSteps`, and `BoundedHasMaximum` derives the
  largest element of a bounded set of numbers from the well-foundedness of `<`.
- `TmpIsThisSaveHolds` and `CheckpointsWholeHolds`, assuming `~Overlap`: the
  two are inductive together with `OneSave`, as a rename publishes what the temporary
  directory holds.
- `StaysRecoverableHolds` and `ImplementsRegister`, also assuming no more than `~Overlap`: steps are saved again,
  and replacements broken off, without bound. The invariant `ReplaceInv` says that no checkpoint is ahead of
  the training (`NoneAhead`) and a running save is of the step at hand (`SavingNow`), so what is removed is the newest; that
  the new save stands whole beside a step whose removal has begun, unless the step was saved anew (`NewStandsBy`,
  `RetryNoted`); and that such a directory holds parts of the last completed save and of no other (`PartsOfLast`), so that
  a broken checkpoint never reads as a whole one. Each action then maps to a step of
  the register (`WriteFilePrepares`, `ClearTmpDiscards`, `ClearFinalBreaks`, `RenameCompletes`, `ResumeReads`) or to none.

`Overlap` has to be excluded: two overlapping saves of one step share a temporary directory, of which one removes what
the other then renames. It is FALSE for the server until it has given up a shutdown
save, which `OneWriterHolds` proves.

`TrainingProofs` proves, for all sizes, windows, warm-ups, intervals and any number of
interruptions, kills and resumes:

- `TrainingTypeCorrectness`. That a network holds only learn steps which were begun needs
  `Under`: while a learn step is under way, all gradients there come from it. `LoopSteps` and `StepWeights` say
  once what the actions of the minibatch loop do to the weights, for the proofs below.
- `WarmupKeepsActorHolds`: strengthened by `Warm`, which holds of the model, of the master weights and of the
  checkpoint, and says that the learn step under way is remembered with the warm-up it began in.
- `KillCostHolds`: strengthened by `Cost`. PPO and DPPO save at multiples of the interval, FPO when the
  interval has passed since the last save, which may have been a shutdown's at any iteration. `Quiet` says for
  either that no save is due between the last one and now, and `Due` that the scheduler is about to look;
  `QuietUnlessDue` takes one to the other over an iteration, by `DivUnique`.
- `StepsAreMeansHolds` and `EveryMinibatchCountsOnceHolds`: the invariant `Accounts` divides what the
  loop has seen (`Seen`) among closed windows and waiting gradients, whose number is `loop.pending`.
- `CountersDescribeWeightsHolds`: strengthened by `Count`. A state and a checkpoint are `Balanced` alike, and the
  learn step under way is in the weights but not complete. That each enabled network has it in the end
  (`FinishComplete`) follows from the accounts of its minibatches.
- `StepsLostOnlyOnRestartHolds`: strengthened by `Ledger`, where a checkpoint is `Accounted` for as a state
  is, and the learn step under way learns from the whole buffer. The sum is a fold of the library over a set, in an order that
  `CHOOSE` picks. `FoldExists` shows that it is defined, `FoldAny` that any element may be taken out first, and
  so `SumAdd` and `SumSame` follow it when a learn step completes or another is begun.

`OffPolicyProofs` proves, for all frequencies, sizes and numbers of clients:

- `OffPolicyTypeCorrectness`, where a checkpoint is typed too, as it comes back.
- `ReplayIsRecentHolds`: `Ring` says which frame each slot holds, before and after the index first wraps.
- `BacklogBoundedHolds`: `Backlog` adds the frames in flight to those not learned from, and bounds what a checkpoint
  may bring back.
- `KillCostHolds`: `Cost` follows `last_save_step` through the control cycle; at its top a round of
  the clients less is possible than below it.
- `NetworksInStepHolds`: `Pace` counts the periods that the update counter has begun, of the networks
  and of the checkpoint; `OneMoreUpdate` is the arithmetic.

`SweepProofs` proves, for any matrix and any number of interruptions and kills:

- `SweepTypeCorrectness`, with `Busy`: a cell is at hand while processes run. `SmallestNumber` shows that there is
  a first one among those left.
- `OneVerdictPerCellHolds`, with `PendingOpen`: no cell that is left has a line, so a new line is the cell's first.
- `MatrixHonestHolds`, with `SummaryInv`: a line that says ok found a summary of all episodes in the cell's directory
  (`OkHasSummary`), and no summary is ever taken away.

`RolloutBufferProofs` proves, for all three algorithms, any number of environments, any size of the buffer and
any order of stored, discarded and interrupted steps:

- `ChainsSoundHolds`: strengthened by `ChainInv`. A handler's node of this filling is the end of a chain
  (`NodesAreEnds`) that no other handler holds (`NodesDistinct`), so linking a frame extends one chain and
  joins none; a node of an earlier filling has a smaller signature. `Unanswered` says that dropping answered
  requests from the front of the queue loses no request of an open end.
- `StatisticsSeeTheFillingHolds`, by `StoredSteps`: the rows below `idx` are the stored steps of the
  environments' stories and each of those is in its row; FPO's statistics saw the rows before the learn step.
- `RunningReturnsHold`, by `Continued`: a handler holds a chain exactly if the last step of
  its environment is stored, in the row of its node, and remembers how that step ended. A return then starts at
  one step (`FirstIsOne`) and grows by one (`StepsGrow`).

- `RolloutTypeCorrectness`. The backward loop is a recursive function over the rows (`Backwards`). The library's
  rules for such functions take an operator, which no installed prover can instantiate, so `WalkExists` shows that
  there is one by the smallest number of rows for which there is none (`SmallestNumber`), and
  `BackwardsWalks` gives its equation. By `BackwardsTyped` it leaves numbers of frames in the
  array, whatever it walks over.
- `AdvantagesPerEpisodeHolds`: strengthened by `AdvantagesInv`. `BackwardsSolves` says that after the walk each
  row has its own error and what its link says of the next row, as rows link forwards; `LinksFollow` and
  `RequestsFollow`, that links and bootstrap requests are those of the environment's story.
  The advantage of the last step of an episode is then its own error (`LastIsLast`), and of any other,
  its own and that of the next (`SumGrows`, `AdvantageOf`); so no step is the last to differ.

The assumptions are those of the modules: `BufferAssumption`, `ServerAssumption`,
`AlgorithmAssumption`, `BatchesAssumption`, `StoreAssumption`, `TrainingAssumption`, `OffPolicyAssumption`,
`SweepAssumption`, which TLC evaluates in every run.

Every safety property that a passing run checks is proved, where this section names conditions, under those, which the run meets.
Checked by TLC only: the five liveness properties, as TLAPS has no rule for fairness here.

## 5. Where code and documentation differ

- **`fpo_mini_batches`**. The control cycle asks `should_learn` in one lock section and
  `should_stop` in the next. With mini batches, feedback can arrive during an inference and be
  queued for the lock ahead of the second section. If that frame reaches FPO's budget, `should_stop`
  is true and `should_learn` was not asked: the server saves, announces the end of training, and the last
  frames are never learned from, although "FPO learns when its rollout buffer fills *or* when the run reaches its last
  step" (`README.md:225-226` of the repository). It takes four connections, a mini batch of one and no disturbance.
- **`ckpt_replaced`**. A server that is stopped before it stores another frame after a
  periodic save writes the same step again. `save_checkpoint` then removes the
  good directory before it renames the new one, and a kill in between leaves
  the run with an incomplete latest checkpoint, which loads without an error, or with none.
- **`off_policy_resumed`**. SAC decides to learn from counters that are in the
  checkpoint, and learns from a replay buffer that is not. A run that was stopped
  with frames it had not learned from resumes by sampling from an empty buffer, and dies of it,
  at every attempt.
- **`sweep_stale_summary`**. A cell's directory is kept between attempts, and `find_client_summary` takes any
  `summary.json` below it (`harness/plugrl_sweep/runner.py:64-72`). If a sweep is interrupted after a client wrote a full summary
  and before the cell has its line, or is repeated with `--no-resume`, a client of the next attempt that exits 0 having
  completed nothing is recorded as ok by the earlier one's episodes, although "a run is only OK if the client's own summary
  says it finished the episodes it was asked for" (`harness/plugrl_sweep/runner.py:6-7`).

Seen while modelling, and not checked by a run:

- Signals and fatal errors set the stop event without the wake event
  (`server/lifecycle.py:22-61`), against the docstring of `server/runtime_scheduler.py:15-17`.
  An idle scheduler notices up to `idle_timeout` later; the shutdown cancels it anyway.
- A signal during the algorithm's own final save makes the shutdown write the
  same checkpoint a second time, which the docstring of `_save_on_exit` excludes: it decides
  before `close_reason` is set.
- `StopMeansTrained` fails with a signal or a fault during FPO's last learn step, too: the buffer
  stays unlearned, but `should_stop` looks at `global_step` alone (`algorithm/fpo/fpo.py:220`), so the
  server saves, announces the end of training, and a resumed run stops at once.
- When the shutdown gives up on its save, the thread goes on but the lock is free; a
  scheduler that was about to save writes the same step through the same `tmp_<step>`. Which files survive depends
  on the order of the two; no run looks at it, as nothing says what should hold then.
- `FPO.pre_learn` takes statistics over the whole storage, stale rows included,
  when its last buffer is partly filled (`algorithm/fpo/fpo.py:191`).
- FPO's master weights are not in the checkpoint: what they hold beyond the
  model's precision is lost at a resume.
- SAC's temperature (`log_alpha`) is not in its checkpoint, only the optimizer's state
  for it. Its `update_to_data_ratio` counts per `update_every` frames, so frames in
  flight at a learn step are learned from less often.
- The harness finds a free port before the server binds it (`harness/plugrl_sweep/runner.py:34-39`), and
  reports a server that did not start, or not in time, as FAILED, which the outcome's comment calls "a real
  result about the combination" (`harness/plugrl_sweep/outcome.py:25`).
- `load_results` raises on a line that a crash cut short, and a sweep then does not resume.

## 6. Not modelled

- The Ray server, its learner and distributed DPPO. The code itself calls the path
  deferred (`server/ray_agent_server.py:16-18`), and it does not get past the first
  feedback: line 285 calls `log` without the `progress_snapshot` that
  `server/training_backend.py:202` requires.
- Time. How long a wait for feedback overlapped a learn step
  (`server/websocket_agent_server.py:490-517`) decides whether its timeout counts; `FeedbackTimeout` may strike at any moment.
- Numerics: losses, neural networks, annealing, the KL estimate (a nondeterministic
  `drift`), reward scaling, precision.
- Buffers as dictionaries and their schema migration, which nothing in the server calls.
- Metrics, progress and logging; the observation cache (`reuse` of feedback
  observations); message validation, of which only the result matters (`resync`).
- Cancellation of the `run` task itself and an exception of
  `serve`; the learn thread that survives a cancelled scheduler (the process ends
  once the shutdown returns and waits for it, and nothing reads the model again).
- The evaluation and dummy algorithms, the LeRobot example, the scripts under `experiments/` and `figures/`.

## 7. Plan

1. *(done)* `InferenceCoordinator`, `OnPolicyAlgorithm`, `AgentServer`, runs, first theorems.
2. *(done)* `CheckpointStore` and `CheckpointRegister`, with their proofs.
3. *(done)* `RolloutBuffer`, `Training`, `OffPolicyTraining`, `Sweep`.
4. *(done)* Proofs of `Training`, `OffPolicyTraining`, `Sweep` and `RolloutBuffer`.
5. *(done)* Proofs of the server: connections, requests, chains, steps, saves and stops.
6. *(done)* Proofs of what is computed by recursion: `AdvantagesPerEpisode`, `StepsLostOnlyOnRestart`.
7. `FeedbackWait`: the feedback timeout against learn steps, in time.
