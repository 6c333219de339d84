------------------------- MODULE OffPolicyTraining -------------------------
(***************************************************************************)
(* An off-policy algorithm under the server: the repository's SAC example  *)
(* with the replay buffer it learns from, the control cycle that makes it  *)
(* learn, save and stop, and runs that are stopped or killed and resumed.  *)
(* A frame is the number of frames that the process has stored, a network  *)
(* the number of its optimizer steps.                                      *)
(***************************************************************************)
EXTENDS Integers, FiniteSets, FiniteSetsExt

CONSTANTS
  BufferSize, LearningStarts, UpdateEvery, GlobalSteps, SaveInterval,
  Updates,          \* num_updates: update_to_data_ratio * update_every
  PolicyFrequency, TargetNetworkFrequency,
  Clients,          \* connected environments
  MaxRestarts,      \* bound: how often the run is started again
  MaxLost           \* bound: actions whose outcome never comes

ASSUME OffPolicyAssumption ==
  /\ \A n \in {BufferSize, LearningStarts, UpdateEvery, GlobalSteps, SaveInterval, Updates,
               PolicyFrequency, TargetNetworkFrequency, Clients} : n \in Nat \ {0}
  /\ MaxRestarts \in Nat /\ MaxLost \in Nat

VARIABLES
  global_step, last_learn_step, last_save_step, update_counter,
  networks,         \* network -> steps that are in its weights
  storage, idx, _full,          \* the replay buffer
  in_flight,        \* actions sent whose feedback is not stored yet
  pc,               \* where the scheduler, and at last the shutdown, is
  remaining,        \* updates of the learn step still to do
  stop,             \* has a shutdown been requested?
  checkpoint,       \* the latest on disk
  restarts, losses, \* bounds
  stored            \* history: frames this process has stored

counterVars == <<global_step, last_learn_step, last_save_step, update_counter>>
bufferVars == <<storage, idx, _full, stored>>
vars == <<counterVars, networks, bufferVars, in_flight, pc, remaining, stop, checkpoint,
          restarts, losses>>

Slots == 0 .. BufferSize - 1
Network == {"critic", "actor", "target"}

TypeOK ==
  /\ {global_step, last_learn_step, last_save_step, update_counter, stored} \subseteq Nat
  /\ networks \in [Network -> Nat]
  /\ storage \in [Slots -> Nat] /\ idx \in Slots /\ _full \in BOOLEAN
  /\ in_flight \in 0 .. Clients
  /\ pc \in {"top", "cycle", "learning", "save_section", "saving", "exit_saving", "stopped",
             "down"}
  /\ remaining \in 0 .. Updates /\ stop \in BOOLEAN
  /\ restarts \in 0 .. MaxRestarts /\ losses \in 0 .. MaxLost

None == [step |-> -1]
(* What a process is built with. *)
Fresh(p) ==
  /\ storage' = [i \in Slots |-> 0] /\ idx' = 0 /\ _full' = FALSE /\ stored' = 0
  /\ in_flight' = 0 /\ remaining' = 0 /\ stop' = FALSE
  /\ pc' = p
Init ==
  /\ global_step = 0 /\ last_learn_step = 0 /\ last_save_step = 0 /\ update_counter = 0
  /\ networks = [n \in Network |-> 0]
  /\ storage = [i \in Slots |-> 0] /\ idx = 0 /\ _full = FALSE /\ stored = 0
  /\ in_flight = 0 /\ pc = "top" /\ remaining = 0 /\ stop = FALSE
  /\ checkpoint = None /\ restarts = 0 /\ losses = 0

-----------------------------------------------------------------------------
should_learn ==
  /\ global_step >= LearningStarts
  /\ global_step - last_learn_step >= UpdateEvery
should_stop == global_step >= GlobalSteps
should_save_late == global_step - last_save_step > SaveInterval          \* mutant
should_save == global_step - last_save_step >= SaveInterval

(* A batch waits for every client with nothing in flight, or for some of   *)
(* them (mini batches, clients that connect), and for the learn step.  The *)
(* control cycle always comes next.                                        *)
should_infer_regardless == in_flight < Clients                          \* mutant
should_infer_once_learnt ==                                             \* mutant
  in_flight < Clients /\ (global_step < LearningStarts \/ global_step = last_learn_step)
should_infer == in_flight < Clients /\ ~should_learn
Infer ==
  /\ pc = "top" /\ ~stop
  /\ should_infer
  /\ in_flight' \in in_flight + 1 .. Clients
  /\ pc' = "cycle"
  /\ UNCHANGED <<counterVars, networks, bufferVars, remaining, stop, checkpoint,
                 restarts, losses>>

(* ReplayBuffer.add_frame *)
advanced_past_the_end == idx + 1                                         \* mutant
advanced == IF idx + 1 = BufferSize THEN 0 ELSE idx + 1
add_frame ==
  /\ storage' = [storage EXCEPT ![idx] = stored + 1]
  /\ idx' = advanced
  /\ _full' = (_full \/ idx + 1 = BufferSize)
  /\ stored' = stored + 1

(* SAC is given every frame (_trains_on), while the lock is free.          *)
feedback ==
  /\ in_flight > 0
  /\ pc \in {"top", "cycle", "save_section"}
  /\ add_frame
  /\ global_step' = global_step + 1
  /\ in_flight' = in_flight - 1
  /\ UNCHANGED <<last_learn_step, last_save_step, update_counter, networks, pc, remaining,
                 stop, checkpoint, restarts, losses>>
(* A client is lost, and the outcome of its action with it. *)
Disconnect ==
  /\ in_flight > 0
  /\ losses < MaxLost
  /\ losses' = losses + 1
  /\ in_flight' = in_flight - 1
  /\ UNCHANGED <<counterVars, networks, bufferVars, pc, remaining, stop, checkpoint, restarts>>

-----------------------------------------------------------------------------
Cycle == pc = "cycle" \/ (pc = "top" /\ ~stop)
StartLearn ==
  /\ Cycle
  /\ should_learn
  /\ last_learn_step' = global_step
  /\ pc' = "learning"
  /\ remaining' = Updates
  /\ UNCHANGED <<global_step, last_save_step, update_counter, networks, bufferVars,
                 in_flight, stop, checkpoint, restarts, losses>>

(* The slots that sample may draw from. *)
sampled_unless_full == 0 .. idx - 1                                      \* mutant
sampled == 0 .. (IF _full THEN BufferSize ELSE idx) - 1

(* One sample and one update: the critics every time, the actor and the    *)
(* targets at their own frequencies, the actor as often as it was skipped. *)
update ==
  /\ pc = "learning" /\ remaining > 0
  /\ sampled # {}
  /\ networks' = [networks EXCEPT
       !["critic"] = @ + 1,
       !["actor"] = @ + (IF update_counter % PolicyFrequency = 0 THEN PolicyFrequency ELSE 0),
       !["target"] = @ + (IF update_counter % TargetNetworkFrequency = 0 THEN 1 ELSE 0)]
  /\ update_counter' = update_counter + 1
  /\ remaining' = remaining - 1
  /\ UNCHANGED <<global_step, last_learn_step, last_save_step, bufferVars, in_flight, pc, stop,
                 checkpoint, restarts, losses>>
FinishLearn ==
  /\ pc = "learning" /\ remaining = 0
  /\ pc' = "save_section"
  /\ UNCHANGED <<counterVars, networks, bufferVars, in_flight, remaining, stop, checkpoint,
                 restarts, losses>>

(* The process ends; what it knew and did not save is gone. *)
Gone ==
  /\ Fresh("down")
  /\ global_step' = 0 /\ last_learn_step' = 0 /\ last_save_step' = 0 /\ update_counter' = 0
  /\ networks' = [n \in Network |-> 0]

(* numpy refuses to draw from an empty range.  The error ends the          *)
(* scheduler and the server, without a checkpoint.                         *)
SampleFails ==
  /\ pc = "learning" /\ remaining > 0
  /\ sampled = {}
  /\ Gone
  /\ UNCHANGED <<checkpoint, restarts, losses>>

-----------------------------------------------------------------------------
(* The second section of the control cycle, also with nothing to learn.    *)
EntersSaveSection == pc = "save_section" \/ (Cycle /\ ~should_learn)
create_checkpoint ==
  /\ last_save_step' = global_step
  /\ UNCHANGED <<global_step, last_learn_step, update_counter, networks, bufferVars,
                 in_flight, remaining, stop, checkpoint, restarts, losses>>
StartSave ==
  /\ EntersSaveSection
  /\ should_save \/ should_stop
  /\ pc' = "saving"
  /\ create_checkpoint
NothingToSave ==
  /\ pc # "top" /\ EntersSaveSection
  /\ ~should_save /\ ~should_stop
  /\ pc' = "top"
  /\ UNCHANGED <<counterVars, networks, bufferVars, in_flight, remaining, stop, checkpoint,
                 restarts, losses>>
Snapshot ==
  [step |-> global_step, networks |-> networks, last_learn_step |-> last_learn_step,
   last_save_step |-> last_save_step, update_counter |-> update_counter]
Saved ==
  /\ pc = "saving"
  /\ checkpoint' = Snapshot
  /\ pc' = IF should_stop THEN "stopped" ELSE "top"
  /\ UNCHANGED <<counterVars, networks, bufferVars, in_flight, remaining, stop, restarts, losses>>

RequestStop ==
  /\ pc \notin {"exit_saving", "stopped", "down"}
  /\ ~stop
  /\ restarts < MaxRestarts
  /\ stop' = TRUE
  /\ UNCHANGED <<counterVars, networks, bufferVars, in_flight, pc, remaining, checkpoint,
                 restarts, losses>>
(* The shutdown's own checkpoint, before or after the scheduler's section. *)
SaveOnExit ==
  /\ pc \in {"top", "cycle", "save_section"} /\ stop
  /\ pc' = "exit_saving"
  /\ create_checkpoint
SavedOnExit ==
  /\ pc = "exit_saving"
  /\ checkpoint' = Snapshot
  /\ Gone
  /\ UNCHANGED <<restarts, losses>>
Crash ==
  /\ pc \notin {"stopped", "down"}
  /\ restarts < MaxRestarts
  /\ Gone
  /\ UNCHANGED <<checkpoint, restarts, losses>>

(* --resume, or a fresh start when there is nothing to resume.  The replay *)
(* buffer is not part of a checkpoint.                                     *)
meta_counter_default(c) == 0                                             \* mutant
meta_counter(c) == c.update_counter
load_checkpoint(c) ==
  /\ global_step' = c.step
  /\ networks' = c.networks
  /\ last_learn_step' = c.last_learn_step
  /\ last_save_step' = c.last_save_step
  /\ update_counter' = meta_counter(c)
Restart ==
  /\ pc = "down"
  /\ restarts < MaxRestarts
  /\ restarts' = restarts + 1
  /\ Fresh("top")
  /\ \/ checkpoint # None /\ load_checkpoint(checkpoint)
     \/ checkpoint = None /\ UNCHANGED <<counterVars, networks>>
  /\ UNCHANGED <<checkpoint, losses>>

SchedulerStep ==
  \/ Infer \/ StartLearn \/ update \/ FinishLearn \/ SampleFails
  \/ StartSave \/ NothingToSave \/ Saved
Next ==
  \/ SchedulerStep \/ feedback \/ Disconnect
  \/ RequestStop \/ SaveOnExit \/ SavedOnExit \/ Crash \/ Restart

Spec == Init /\ [][Next]_vars
(* The scheduler goes on, clients answer, the shutdown saves. *)
FairSpec ==
  Spec /\ WF_vars(SchedulerStep) /\ WF_vars(feedback) /\ WF_vars(SaveOnExit \/ SavedOnExit)

-----------------------------------------------------------------------------
(* What a learn step samples from are the latest frames, each of them      *)
(* once, as many as the buffer holds: none that was overwritten, none that *)
(* was never written (ReplayBuffer.add_frame, sample).                     *)
ReplayIsRecent ==
  /\ {storage[i] : i \in sampled} = {f \in 1 .. stored : f > stored - BufferSize}
  /\ Cardinality(sampled) = Cardinality({storage[i] : i \in sampled})

(* The networks keep to their frequencies over all updates of a run,       *)
(* through kills and resumes: the actor makes up for what it skips and is  *)
(* at most one period ahead (update, load_checkpoint).                     *)
Periods(frequency) == (update_counter + frequency - 1) \div frequency
NetworksInStep ==
  pc # "down" =>
    /\ networks["critic"] = update_counter
    /\ networks["actor"] = PolicyFrequency * Periods(PolicyFrequency)
    /\ networks["target"] = Periods(TargetNetworkFrequency)

(* Past its start SAC learns at least once for every round of its clients: *)
(* what is in flight when it asks to learn is all that can be stored       *)
(* before it does ("the server learns once per batch of feedback that      *)
(* arrives together", tests/test_examples.py).                             *)
FirstLearn == Max({LearningStarts, UpdateEvery})
BacklogBounded ==
  global_step - last_learn_step <
    (IF last_learn_step = 0 THEN FirstLearn ELSE UpdateEvery) + Clients

(* A kill at any moment costs at most the save interval and two rounds of  *)
(* the clients: one in flight when the scheduler looks, one it starts      *)
(* before it looks again (should_save, _run_control_cycle).                *)
KillCostsAtMostAnInterval ==
  pc # "down" =>
    global_step - (IF checkpoint = None THEN 0 ELSE checkpoint.step)
      < SaveInterval + 2 * Clients

(* A run that is neither stopped nor killed reaches its budget: learning   *)
(* holds inference up, but not for ever.                                   *)
RunEnds == [](pc # "down" => <>(pc \in {"stopped", "down"}))

(* A learn step has something to learn from, whatever run it resumes ("A   *)
(* run that is stopped early must still be resumable").                    *)
LearnsFromFrames == pc = "learning" => sampled # {}

=============================================================================
