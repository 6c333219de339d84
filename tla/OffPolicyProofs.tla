-------------------------- MODULE OffPolicyProofs --------------------------
(***************************************************************************)
(* Proofs about OffPolicyTraining, for every configuration and any number  *)
(* of stops, kills and lost clients: its types; that SAC samples the       *)
(* latest frames; that clients cannot outrun learning; what a kill costs;  *)
(* and that the networks keep to their frequencies.                        *)
(***************************************************************************)
EXTENDS OffPolicyTraining, NumberLemmas, FiniteSetTheorems, TLAPS

USE DEF vars, counterVars, bufferVars

-----------------------------------------------------------------------------
LEMMA Constants ==
  /\ BufferSize \in Nat \ {0} /\ LearningStarts \in Nat \ {0} /\ UpdateEvery \in Nat \ {0}
  /\ GlobalSteps \in Nat \ {0} /\ SaveInterval \in Nat \ {0} /\ Updates \in Nat \ {0}
  /\ PolicyFrequency \in Nat \ {0} /\ TargetNetworkFrequency \in Nat \ {0}
  /\ Clients \in Nat \ {0} /\ MaxRestarts \in Nat /\ MaxLost \in Nat
BY OffPolicyAssumption

USE Constants

(* Types.  A checkpoint has the types of what it is a snapshot of. *)
Checkpoint ==
  [step : Nat, networks : [Network -> Nat], last_learn_step : Nat,
   last_save_step : Nat, update_counter : Nat]
TypeInv == TypeOK /\ checkpoint \in Checkpoint \cup {None}

LEMMA Zeros ==
  /\ 0 \in Slots /\ [i \in Slots |-> 0] \in [Slots -> Nat]
  /\ 0 \in 0 .. Clients /\ 0 \in 0 .. Updates
  /\ 0 \in 0 .. MaxRestarts /\ 0 \in 0 .. MaxLost
BY DEF Slots

LEMMA InitTypes == Init => TypeInv
BY Zeros DEF Init, TypeInv, TypeOK

LEMMA FreshTypes ==
  ASSUME NEW p, Fresh(p)
  PROVE  /\ storage' \in [Slots -> Nat] /\ idx' \in Slots /\ _full' \in BOOLEAN
         /\ stored' \in Nat /\ in_flight' \in 0 .. Clients /\ remaining' \in 0 .. Updates
         /\ stop' \in BOOLEAN
BY Zeros DEF Fresh

LEMMA GoneTypes ==
  ASSUME TypeInv, Gone, UNCHANGED <<restarts, losses>>
  PROVE  TypeOK'
<1>1. Fresh("down")
  BY DEF Gone
<1>2. pc' = "down"
  BY <1>1 DEF Fresh
<1> QED
  BY <1>1, <1>2, FreshTypes DEF Gone, TypeInv, TypeOK

LEMMA SnapshotType == TypeOK => Snapshot \in Checkpoint
BY DEF TypeOK, Snapshot, Checkpoint

LEMMA StepTypes ==
  ASSUME TypeInv, [Next]_vars
  PROVE  TypeInv'
<1>0. TypeOK
  BY DEF TypeInv
<1> USE DEF TypeInv, TypeOK
<1>1. CASE Infer
  <2>1. in_flight' \in 0 .. Clients
    BY <1>1 DEF Infer
  <2> QED
    BY <1>1, <2>1 DEF Infer
<1>2. CASE feedback
  <2>1. storage' \in [Slots -> Nat] /\ stored' \in Nat
    BY <1>2 DEF feedback, add_frame
  <2>2. idx' \in Slots
    BY <1>2 DEF feedback, add_frame, advanced, Slots
  <2>3. _full' \in BOOLEAN
    BY <1>2 DEF feedback, add_frame
  <2>4. in_flight' \in 0 .. Clients /\ global_step' \in Nat
    BY <1>2 DEF feedback
  <2> QED
    BY <1>2, <2>1, <2>2, <2>3, <2>4 DEF feedback
<1>3. CASE Disconnect
  BY <1>3 DEF Disconnect
<1>4. CASE StartLearn
  BY <1>4 DEF StartLearn
<1>5. CASE update
  <2>1. networks' \in [Network -> Nat]
    BY <1>5 DEF update, Network
  <2> QED
    BY <1>5, <2>1 DEF update
<1>6. CASE FinishLearn \/ NothingToSave \/ RequestStop
  BY <1>6 DEF FinishLearn, NothingToSave, RequestStop
<1>7. CASE SampleFails \/ Crash
  BY <1>7, GoneTypes DEF SampleFails, Crash
<1>8. CASE StartSave \/ SaveOnExit
  BY <1>8 DEF StartSave, SaveOnExit, create_checkpoint
<1>9. CASE Saved
  <2>1. Snapshot \in Checkpoint
    BY <1>0, SnapshotType
  <2> QED
    BY <1>9, <2>1 DEF Saved
<1>10. CASE SavedOnExit
  <2>1. Snapshot \in Checkpoint
    BY <1>0, SnapshotType
  <2> QED
    BY <1>10, <2>1, GoneTypes DEF SavedOnExit
<1>11. CASE Restart
  <2>1. restarts' \in 0 .. MaxRestarts /\ pc' = "top"
    BY <1>11 DEF Restart, Fresh
  <2>2. CASE checkpoint # None /\ load_checkpoint(checkpoint)
    <3>1. checkpoint \in Checkpoint
      BY <2>2
    <3> QED
      BY <1>11, <2>1, <2>2, <3>1, FreshTypes
      DEF Restart, load_checkpoint, meta_counter, Checkpoint
  <2>3. CASE checkpoint = None /\ UNCHANGED <<counterVars, networks>>
    BY <1>11, <2>1, <2>3, FreshTypes DEF Restart
  <2> QED
    BY <1>11, <2>2, <2>3 DEF Restart
<1>12. CASE UNCHANGED vars
  BY <1>12
<1> QED
  BY <1>1, <1>2, <1>3, <1>4, <1>5, <1>6, <1>7, <1>8, <1>9, <1>10, <1>11, <1>12
  DEF Next, SchedulerStep

(* Every variable keeps its type, across restarts: the ring's index never  *)
(* leaves the ring (ReplayBuffer.add_frame), no more actions are in flight *)
(* than there are clients.                                                 *)
THEOREM OffPolicyTypeCorrectness == Spec => []TypeOK
<1>1. TypeInv => TypeOK
  BY DEF TypeInv
<1> QED
  BY InitTypes, StepTypes, <1>1, PTL DEF Spec

-----------------------------------------------------------------------------
(* The ring buffer.  Until it is full its slots are the frames in order;   *)
(* from then on the slots before idx hold the latest frames and those from *)
(* idx on the ones before these.                                           *)
Ring ==
  /\ ~_full => idx = stored /\ \A i \in Slots : i < idx => storage[i] = i + 1
  /\ _full =>
       /\ stored >= BufferSize
       /\ \A i \in Slots :
            storage[i] = stored - idx + i + 1 - (IF i < idx THEN 0 ELSE BufferSize)
RingInv == TypeInv /\ Ring

LEMMA FreshRing ==
  ASSUME NEW p, Fresh(p)
  PROVE  Ring'
BY DEF Fresh, Ring, Slots

LEMMA AddedRing ==
  ASSUME RingInv, add_frame
  PROVE  Ring'
<1>0. /\ idx \in Nat /\ idx < BufferSize /\ stored \in Nat /\ _full \in BOOLEAN
      /\ storage \in [Slots -> Nat] /\ Ring /\ idx \in Slots
  BY DEF RingInv, TypeInv, TypeOK, Slots
<1>1. /\ stored' = stored + 1
      /\ storage'[idx] = stored + 1
      /\ \A i \in Slots : i # idx => storage'[i] = storage[i]
  BY <1>0 DEF add_frame
<1>2. \A i \in Slots : i \in Nat /\ i < BufferSize
  BY DEF Slots
<1>3. CASE idx + 1 = BufferSize
  <2>1. idx' = 0 /\ _full'
    BY <1>3 DEF add_frame, advanced
  <2>2. stored' >= BufferSize
    BY <1>0, <1>1, <1>3 DEF Ring
  <2>3. ASSUME NEW i \in Slots PROVE storage'[i] = stored' - 0 + i + 1 - BufferSize
    <3>1. CASE i = idx
      BY <1>0, <1>1, <1>3, <3>1
    <3>2. CASE i # idx
      <4>1. i < idx /\ i \in Nat
        BY <1>0, <1>2, <1>3, <3>2
      <4>2. storage[i] = stored - idx + i + 1
        BY <1>0, <4>1 DEF Ring
      <4> QED
        BY <1>0, <1>1, <1>3, <3>2, <4>1, <4>2
    <3> QED
      BY <3>1, <3>2
  <2> QED
    BY <1>2, <2>1, <2>2, <2>3 DEF Ring
<1>4. CASE idx + 1 # BufferSize
  <2>1. idx' = idx + 1 /\ _full' = _full
    BY <1>0, <1>4 DEF add_frame, advanced
  <2>2. CASE ~_full
    <3>1. ASSUME NEW i \in Slots, i < idx' PROVE storage'[i] = i + 1
      BY <1>0, <1>1, <1>2, <2>1, <2>2, <3>1 DEF Ring
    <3> QED
      BY <1>0, <1>1, <2>1, <2>2, <3>1 DEF Ring
  <2>3. CASE _full
    <3>1. stored' >= BufferSize
      BY <1>0, <1>1, <2>3 DEF Ring
    <3>2. ASSUME NEW i \in Slots
          PROVE  storage'[i] = stored' - idx' + i + 1 - (IF i < idx' THEN 0 ELSE BufferSize)
      <4>1. storage[i] = stored - idx + i + 1 - (IF i < idx THEN 0 ELSE BufferSize)
        BY <1>0, <2>3 DEF Ring
      <4> QED
        BY <1>0, <1>1, <1>2, <2>1, <4>1
    <3> QED
      BY <2>1, <2>3, <3>1, <3>2 DEF Ring
  <2> QED
    BY <1>0, <2>2, <2>3
<1> QED
  BY <1>3, <1>4

LEMMA StepRing ==
  ASSUME RingInv, [Next]_vars
  PROVE  RingInv'
<1>0. TypeInv' /\ Ring
  BY StepTypes DEF RingInv
<1>1. CASE feedback
  BY <1>0, <1>1, AddedRing DEF feedback, RingInv
<1>2. CASE UNCHANGED bufferVars
  BY <1>0, <1>2 DEF RingInv, Ring
<1>3. CASE SampleFails \/ Crash \/ SavedOnExit
  BY <1>0, <1>3, FreshRing DEF SampleFails, Crash, SavedOnExit, Gone, RingInv
<1>4. CASE Restart
  BY <1>0, <1>4, FreshRing DEF Restart, RingInv
<1>5. CASE \/ Infer \/ StartLearn \/ update \/ FinishLearn \/ StartSave \/ NothingToSave
           \/ Saved \/ Disconnect \/ RequestStop \/ SaveOnExit
  BY <1>2, <1>5 DEF Infer, StartLearn, update, FinishLearn, StartSave, NothingToSave, Saved,
                    Disconnect, RequestStop, SaveOnExit, create_checkpoint
<1> QED
  BY <1>1, <1>2, <1>3, <1>4, <1>5 DEF Next, SchedulerStep

(* Then the slots that sample may draw from are the latest frames, and no  *)
(* two of them are the same.                                               *)
LEMMA SampledAreRecent ==
  ASSUME RingInv
  PROVE  ReplayIsRecent
<1> DEFINE Recent == {f \in 1 .. stored : f > stored - BufferSize}
           Drawn == {storage[i] : i \in sampled}
<1>0. /\ idx \in Nat /\ idx < BufferSize /\ stored \in Nat /\ _full \in BOOLEAN
      /\ storage \in [Slots -> Nat] /\ Ring
  BY DEF RingInv, TypeInv, TypeOK, Slots
<1>1. sampled \subseteq Slots /\ \A i \in sampled : i \in Nat /\ i < BufferSize
  BY <1>0 DEF sampled, Slots
<1>2. Drawn \subseteq Recent
  <2> SUFFICES ASSUME NEW i \in sampled PROVE storage[i] \in Recent
    OBVIOUS
  <2>1. CASE _full
    BY <1>0, <1>1, <2>1 DEF Ring
  <2>2. CASE ~_full
    <3>1. i < idx /\ idx = stored /\ i \in Nat
      BY <1>0, <1>1, <2>2 DEF sampled, Ring
    <3> QED
      BY <1>0, <1>1, <2>2, <3>1 DEF Ring
  <2> QED
    BY <2>1, <2>2
<1>3. Recent \subseteq Drawn
  <2> SUFFICES ASSUME NEW f \in Recent PROVE \E i \in sampled : storage[i] = f
    OBVIOUS
  <2>0. f \in Nat /\ f >= 1 /\ f <= stored /\ f > stored - BufferSize
    BY <1>0
  <2>1. CASE ~_full
    <3>1. f - 1 \in sampled /\ f - 1 \in Slots /\ f - 1 < idx
      BY <1>0, <2>0, <2>1 DEF sampled, Slots, Ring
    <3>2. storage[f - 1] = f
      BY <1>0, <2>0, <2>1, <3>1 DEF Ring
    <3> QED
      BY <3>1, <3>2
  <2>2. CASE _full /\ f > stored - idx
    <3> DEFINE i == f - 1 - stored + idx
    <3>1. i \in sampled /\ i \in Slots /\ i < idx
      BY <1>0, <2>0, <2>2 DEF sampled, Slots
    <3>2. storage[i] = stored - idx + i + 1
      BY <1>0, <2>2, <3>1 DEF Ring
    <3> QED
      BY <1>0, <2>0, <3>1, <3>2
  <2>3. CASE _full /\ f <= stored - idx
    <3> DEFINE i == f - 1 - stored + idx + BufferSize
    <3>1. i \in sampled /\ i \in Slots /\ ~(i < idx)
      BY <1>0, <2>0, <2>3 DEF sampled, Slots
    <3>2. storage[i] = stored - idx + i + 1 - BufferSize
      BY <1>0, <2>3, <3>1 DEF Ring
    <3> QED
      BY <1>0, <2>0, <3>1, <3>2
  <2> QED
    BY <1>0, <2>0, <2>1, <2>2, <2>3
<1>4. \A i, j \in sampled : storage[i] = storage[j] => i = j
  BY <1>0, <1>1 DEF sampled, Ring
<1>5. Cardinality(sampled) = Cardinality(Drawn)
  <2> DEFINE g == [i \in sampled |-> storage[i]]
  <2>1. g \in Bijection(sampled, Drawn)
    BY <1>4 DEF Bijection, Injection, Surjection, IsInjective
  <2>2. IsFiniteSet(sampled)
    BY <1>0, FS_Interval DEF sampled
  <2> QED
    BY <2>1, <2>2, FS_Bijection DEF ExistsBijection
<1> QED
  BY <1>2, <1>3, <1>5 DEF ReplayIsRecent

(* At any moment and for any size, SAC learns from the latest frames, each *)
(* of them once (ReplayBuffer.add_frame, sample).               *)
THEOREM ReplayIsRecentHolds == Spec => []ReplayIsRecent
<1>1. Init => RingInv
  BY InitTypes DEF Init, RingInv, Ring, Slots
<1> QED
  BY <1>1, StepRing, SampledAreRecent, PTL DEF Spec

-----------------------------------------------------------------------------
(* Learning keeps up.  What is in flight is on its way to being a backlog, *)
(* so the sum of both has the bound; once SAC has learned it is past its   *)
(* start, and only the interval counts.                                    *)
Bound(learnt) == (IF learnt = 0 THEN FirstLearn ELSE UpdateEvery) + Clients
Kept(step, learnt) ==
  /\ step - learnt < Bound(learnt)
  /\ learnt # 0 => LearningStarts <= learnt
  /\ learnt <= step
Backlog ==
  /\ Kept(global_step, last_learn_step)
  /\ global_step - last_learn_step + in_flight < Bound(last_learn_step)
  /\ checkpoint # None => Kept(checkpoint.step, checkpoint.last_learn_step)
BacklogInv == TypeInv /\ Backlog

LEMMA FirstLearnBound ==
  /\ FirstLearn \in Nat /\ FirstLearn >= LearningStarts /\ FirstLearn >= UpdateEvery
  /\ FirstLearn > 0
<1>1. \E m \in {LearningStarts, UpdateEvery} :
        \A n \in {LearningStarts, UpdateEvery} : m >= n
  OBVIOUS
<1>2. /\ FirstLearn \in {LearningStarts, UpdateEvery}
      /\ \A n \in {LearningStarts, UpdateEvery} : FirstLearn >= n
  BY <1>1 DEF FirstLearn, Max
<1> QED
  BY <1>2

LEMMA BoundType == \A n \in Nat : Bound(n) \in Nat /\ Bound(n) > Clients
BY FirstLearnBound DEF Bound

LEMMA InitBacklog == Init => BacklogInv
BY InitTypes, BoundType DEF Init, BacklogInv, Backlog, Kept

LEMMA GoneBacklog ==
  ASSUME Gone, checkpoint' # None => Kept(checkpoint'.step, checkpoint'.last_learn_step)
  PROVE  Backlog'
<1>1. global_step' = 0 /\ last_learn_step' = 0 /\ in_flight' = 0
  BY DEF Gone, Fresh
<1>2. 0 < Bound(0)
  BY BoundType
<1> QED
  BY <1>1, <1>2 DEF Backlog, Kept

LEMMA StepBacklog ==
  ASSUME BacklogInv, [Next]_vars
  PROVE  BacklogInv'
<1>0. /\ TypeInv' /\ Backlog
      /\ global_step \in Nat /\ last_learn_step \in Nat /\ in_flight \in 0 .. Clients
      /\ checkpoint \in Checkpoint \cup {None}
  BY StepTypes DEF BacklogInv, TypeInv, TypeOK
<1>b. Bound(last_learn_step) \in Nat /\ Bound(last_learn_step) > Clients
  BY <1>0, BoundType
<1>1. CASE Infer
  <2>1. in_flight' \in 0 .. Clients
    BY <1>0, <1>1 DEF Infer
  <2>2. global_step - last_learn_step < Bound(last_learn_step) - Clients
    <3>1. CASE last_learn_step = 0
      BY <1>0, <1>1, <3>1, FirstLearnBound DEF Infer, should_infer, should_learn, Bound
    <3>2. CASE last_learn_step # 0
      BY <1>0, <1>1, <3>2 DEF Infer, should_infer, should_learn, Bound, Backlog, Kept
    <3> QED
      BY <3>1, <3>2
  <2> QED
    BY <1>0, <1>1, <1>b, <2>1, <2>2 DEF Infer, BacklogInv, Backlog
<1>2. CASE feedback
  BY <1>0, <1>2, <1>b DEF feedback, BacklogInv, Backlog, Kept
<1>3. CASE Disconnect
  BY <1>0, <1>3, <1>b DEF Disconnect, BacklogInv, Backlog
<1>4. CASE StartLearn
  <2>1. last_learn_step' = global_step /\ global_step >= LearningStarts
    BY <1>4 DEF StartLearn, should_learn
  <2>2. Bound(global_step) \in Nat /\ Bound(global_step) > Clients
    BY <1>0, BoundType
  <2> QED
    BY <1>0, <1>4, <2>1, <2>2 DEF StartLearn, BacklogInv, Backlog, Kept
<1>5. CASE Saved \/ SavedOnExit
  <2>1. checkpoint' # None => Kept(checkpoint'.step, checkpoint'.last_learn_step)
    BY <1>0, <1>5 DEF Saved, SavedOnExit, Snapshot, Backlog
  <2>2. CASE Saved
    BY <1>0, <2>1, <2>2 DEF Saved, BacklogInv, Backlog
  <2>3. CASE SavedOnExit
    BY <1>0, <2>1, <2>3, GoneBacklog DEF SavedOnExit, BacklogInv
  <2> QED
    BY <1>5, <2>2, <2>3
<1>6. CASE SampleFails \/ Crash
  BY <1>0, <1>6, GoneBacklog DEF SampleFails, Crash, BacklogInv, Backlog
<1>7. CASE Restart
  <2>1. in_flight' = 0
    BY <1>7 DEF Restart, Fresh
  <2>2. CASE checkpoint # None /\ load_checkpoint(checkpoint)
    <3>1. /\ global_step' = checkpoint.step /\ last_learn_step' = checkpoint.last_learn_step
          /\ checkpoint' = checkpoint
      BY <1>7, <2>2 DEF Restart, load_checkpoint
    <3>2. checkpoint.step \in Nat /\ checkpoint.last_learn_step \in Nat
      BY <1>0, <2>2 DEF Checkpoint
    <3>3. Kept(checkpoint.step, checkpoint.last_learn_step)
      BY <1>0, <2>2 DEF Backlog
    <3>4. global_step' - last_learn_step' + 0 = global_step' - last_learn_step'
      BY <3>1, <3>2
    <3> QED
      BY <1>0, <2>1, <3>1, <3>2, <3>3, <3>4 DEF BacklogInv, Backlog, Kept
  <2>3. CASE checkpoint = None /\ UNCHANGED <<counterVars, networks>>
    BY <1>0, <1>7, <1>b, <2>1, <2>3 DEF Restart, BacklogInv, Backlog, Kept
  <2> QED
    BY <1>7, <2>2, <2>3 DEF Restart
<1>8. CASE UNCHANGED <<global_step, last_learn_step, in_flight, checkpoint>>
  BY <1>0, <1>8 DEF BacklogInv, Backlog
<1>9. CASE \/ update \/ FinishLearn \/ StartSave \/ NothingToSave \/ RequestStop \/ SaveOnExit
           \/ UNCHANGED vars
  BY <1>8, <1>9 DEF update, FinishLearn, StartSave, NothingToSave, RequestStop, SaveOnExit,
                    create_checkpoint
<1> QED
  BY <1>1, <1>2, <1>3, <1>4, <1>5, <1>6, <1>7, <1>9 DEF Next, SchedulerStep

(* Inference gives way to learning, so that clients are never ahead of it  *)
(* by more than a round (should_infer, should_learn), resumed runs included.*)
THEOREM BacklogBoundedHolds == Spec => []BacklogBounded
<1>1. BacklogInv => BacklogBounded
  BY DEF BacklogInv, Backlog, Kept, Bound, BacklogBounded
<1> QED
  BY InitBacklog, StepBacklog, <1>1, PTL DEF Spec

-----------------------------------------------------------------------------
(* What a kill costs.  Between checkpoints last_save_step is the step of   *)
(* the latest one, so a glance that finds nothing to save bounds what was  *)
(* stored by then; to that come the round that is in flight and, once the  *)
(* scheduler has inferred, another one, and no more before it looks again. *)
SavedStep(c) == IF c = None THEN 0 ELSE c.step
SaveStates == {"saving", "exit_saving"}
Cost ==
  /\ checkpoint # None => checkpoint.last_save_step = checkpoint.step
  /\ pc = "down" => global_step = 0 /\ last_save_step = 0
  /\ pc \in SaveStates => last_save_step = global_step
  /\ pc \notin SaveStates \cup {"down"} => last_save_step = SavedStep(checkpoint)
  /\ pc # "down" =>
       global_step + in_flight - SavedStep(checkpoint) < SaveInterval + 2 * Clients
  /\ pc = "top" => global_step + in_flight - last_save_step < SaveInterval + Clients
CostInv == TypeInv /\ Cost

LEMMA SavedStepType ==
  ASSUME NEW c \in Checkpoint \cup {None}
  PROVE  SavedStep(c) \in Nat
BY DEF SavedStep, Checkpoint

LEMMA InitCost == Init => CostInv
BY InitTypes DEF Init, CostInv, Cost, SavedStep, SaveStates

LEMMA StepCost ==
  ASSUME CostInv, [Next]_vars
  PROVE  CostInv'
<1>0. /\ TypeInv' /\ Cost
      /\ global_step \in Nat /\ last_save_step \in Nat /\ in_flight \in 0 .. Clients
      /\ checkpoint \in Checkpoint \cup {None}
      /\ SavedStep(checkpoint) \in Nat
  BY StepTypes, SavedStepType DEF CostInv, TypeInv, TypeOK
<1>1. CASE Infer
  <2>1. in_flight' \in 0 .. Clients /\ pc = "top" /\ pc' = "cycle"
    BY <1>0, <1>1 DEF Infer
  <2>2. UNCHANGED <<checkpoint, SavedStep(checkpoint), global_step, last_save_step>>
    BY <1>1 DEF Infer
  <2> QED
    BY <1>0, <2>1, <2>2 DEF CostInv, Cost, SaveStates
<1>2. CASE feedback
  BY <1>0, <1>2 DEF feedback, CostInv, Cost, SaveStates, SavedStep
<1>3. CASE Disconnect
  BY <1>0, <1>3 DEF Disconnect, CostInv, Cost, SaveStates, SavedStep
<1>4. CASE StartLearn \/ FinishLearn
  BY <1>0, <1>4 DEF StartLearn, FinishLearn, Cycle, CostInv, Cost, SaveStates, SavedStep
<1>5. CASE StartSave \/ SaveOnExit
  BY <1>0, <1>5 DEF StartSave, SaveOnExit, EntersSaveSection, Cycle, create_checkpoint,
                    CostInv, Cost, SaveStates, SavedStep
<1>6. CASE NothingToSave
  <2>1. /\ pc \in {"cycle", "save_section"} /\ pc' = "top"
        /\ global_step - last_save_step < SaveInterval
    BY <1>0, <1>6 DEF NothingToSave, EntersSaveSection, Cycle, should_save
  <2> QED
    BY <1>0, <1>6, <2>1 DEF NothingToSave, CostInv, Cost, SaveStates, SavedStep
<1>7. CASE Saved
  <2>1. /\ pc = "saving" /\ pc' \in {"stopped", "top"} /\ checkpoint' = Snapshot
        /\ last_save_step = global_step
        /\ UNCHANGED <<global_step, last_save_step, in_flight>>
    BY <1>0, <1>7 DEF Saved, Cost, SaveStates
  <2>2. /\ Snapshot # None /\ Snapshot.step = global_step
        /\ Snapshot.last_save_step = last_save_step
    BY <1>0 DEF Snapshot, None
  <2> QED
    BY <1>0, <2>1, <2>2 DEF CostInv, Cost, SaveStates, SavedStep
<1>8. CASE SavedOnExit
  <2>1. /\ checkpoint' = Snapshot /\ last_save_step = global_step
    BY <1>0, <1>8 DEF SavedOnExit, Cost, SaveStates
  <2>2. Snapshot.step = global_step /\ Snapshot.last_save_step = last_save_step
    BY DEF Snapshot
  <2>3. pc' = "down" /\ global_step' = 0 /\ last_save_step' = 0
    BY <1>8 DEF SavedOnExit, Gone, Fresh
  <2> QED
    BY <1>0, <2>1, <2>2, <2>3 DEF CostInv, Cost, SaveStates
<1>9. CASE SampleFails \/ Crash
  <2>1. pc' = "down" /\ global_step' = 0 /\ last_save_step' = 0 /\ checkpoint' = checkpoint
    BY <1>9 DEF SampleFails, Crash, Gone, Fresh
  <2> QED
    BY <1>0, <2>1 DEF CostInv, Cost, SaveStates
<1>10. CASE Restart
  <2>1. in_flight' = 0 /\ pc' = "top" /\ pc = "down" /\ checkpoint' = checkpoint
    BY <1>10 DEF Restart, Fresh
  <2>2. global_step' = SavedStep(checkpoint) /\ last_save_step' = SavedStep(checkpoint)
    BY <1>0, <1>10, <2>1 DEF Restart, load_checkpoint, Cost, SavedStep
  <2> QED
    BY <1>0, <2>1, <2>2 DEF CostInv, Cost, SaveStates
<1>11. CASE update \/ RequestStop \/ UNCHANGED vars
  BY <1>0, <1>11 DEF update, RequestStop, CostInv, Cost, SaveStates, SavedStep
<1> QED
  BY <1>1, <1>2, <1>3, <1>4, <1>5, <1>6, <1>7, <1>8, <1>9, <1>10, <1>11
  DEF Next, SchedulerStep

(* Whenever the process is killed, at most a save interval and two rounds  *)
(* of the clients are gone (should_save, _run_control_cycle).              *)
THEOREM KillCostHolds == Spec => []KillCostsAtMostAnInterval
<1>1. CostInv => KillCostsAtMostAnInterval
  <2> SUFFICES ASSUME CostInv, pc # "down"
               PROVE  global_step - SavedStep(checkpoint) < SaveInterval + 2 * Clients
    BY DEF KillCostsAtMostAnInterval, SavedStep
  <2> QED
    BY SavedStepType DEF CostInv, Cost, TypeInv, TypeOK
<1> QED
  BY InitCost, StepCost, <1>1, PTL DEF Spec

-----------------------------------------------------------------------------
(* Frequencies. *)
(* One more update begins a period exactly if the number of updates before *)
(* it is a multiple of the frequency.                                      *)
LEMMA OneMoreUpdate ==
  ASSUME NEW p \in Nat \ {0}, NEW n \in Nat
  PROVE  (n + 1 + p - 1) \div p = (n + p - 1) \div p + (IF n % p = 0 THEN 1 ELSE 0)
<1> DEFINE q == n \div p
           r == n % p
<1>1. q \in Nat /\ r \in 0 .. p - 1 /\ n = p * q + r
  BY DivMod
<1>2. n + p - 1 \in Nat /\ n + 1 + p - 1 \in Nat
  OBVIOUS
<1> DEFINE u == (n + p - 1) \div p
           v == (n + 1 + p - 1) \div p
<1>3. /\ u \in Nat /\ (n + p - 1) % p \in 0 .. p - 1
      /\ n + p - 1 = p * u + ((n + p - 1) % p)
  BY <1>2, DivMod
<1>4. /\ v \in Nat /\ (n + 1 + p - 1) % p \in 0 .. p - 1
      /\ n + 1 + p - 1 = p * v + ((n + 1 + p - 1) % p)
  BY <1>2, DivMod
<1> HIDE DEF q, r, u, v
<1>5. p * (q + 1) = p * q + p /\ q + 1 \in Int
  BY <1>1
<1>6. v = q + 1
  <2>1. n + 1 + p - 1 = p * (q + 1) + r
    BY <1>1, <1>5
  <2> QED
    BY <1>1, <1>4, <2>1, <1>5, DivUnique
<1>7. CASE r = 0
  <2>1. n + p - 1 = p * q + (p - 1) /\ p - 1 \in 0 .. p - 1
    BY <1>1, <1>7
  <2>2. u = q
    BY <1>1, <1>3, <2>1, DivUnique
  <2> QED
    BY <1>1, <1>6, <1>7, <2>2 DEF r, u, v
<1>8. CASE r # 0
  <2>1. n + p - 1 = p * (q + 1) + (r - 1) /\ r - 1 \in 0 .. p - 1
    BY <1>1, <1>5, <1>8
  <2> DEFINE t == (n + p - 1) % p
  <2>2. t \in 0 .. p - 1 /\ p * u + t = p * (q + 1) + (r - 1) /\ u \in Int
    BY <1>3, <2>1
  <2> HIDE DEF t
  <2>3. u = q + 1
    BY <1>5, <2>1, <2>2, DivUnique
  <2> QED
    BY <1>1, <1>6, <1>8, <2>3 DEF r, u, v
<1> QED
  BY <1>7, <1>8

Begun(u, f) == (u + f - 1) \div f
Paced(n, u) ==
  /\ n["critic"] = u
  /\ n["actor"] = PolicyFrequency * Begun(u, PolicyFrequency)
  /\ n["target"] = Begun(u, TargetNetworkFrequency)
Pace ==
  /\ Paced(networks, update_counter)
  /\ checkpoint # None => Paced(checkpoint.networks, checkpoint.update_counter)
PaceInv == TypeInv /\ Pace

LEMMA BegunNothing ==
  ASSUME NEW f \in Nat \ {0}
  PROVE  Begun(0, f) = 0
<1>1. 0 + f - 1 \in Nat /\ f - 1 \in 0 .. f - 1 /\ 0 + f - 1 = f * 0 + (f - 1)
  OBVIOUS
<1>2. /\ Begun(0, f) \in Nat /\ (0 + f - 1) % f \in 0 .. f - 1
      /\ 0 + f - 1 = f * Begun(0, f) + ((0 + f - 1) % f)
  BY <1>1, DivMod DEF Begun
<1> QED
  BY <1>1, <1>2, DivUnique

LEMMA FreshPaced == Paced([n \in Network |-> 0], 0)
BY BegunNothing DEF Paced, Network

LEMMA UpdatePaced ==
  ASSUME PaceInv, update
  PROVE  Paced(networks', update_counter')
<1> DEFINE u == update_counter
<1>0. u \in Nat /\ networks \in [Network -> Nat] /\ Paced(networks, u)
  BY DEF PaceInv, Pace, TypeInv, TypeOK
<1>1. /\ update_counter' = u + 1
      /\ networks'["critic"] = networks["critic"] + 1
      /\ networks'["actor"] = networks["actor"] +
           (IF u % PolicyFrequency = 0 THEN PolicyFrequency ELSE 0)
      /\ networks'["target"] = networks["target"] +
           (IF u % TargetNetworkFrequency = 0 THEN 1 ELSE 0)
  BY <1>0 DEF update, Network
<1>2. \A f \in {PolicyFrequency, TargetNetworkFrequency} :
        /\ Begun(u, f) \in Nat
        /\ Begun(u + 1, f) = Begun(u, f) + (IF u % f = 0 THEN 1 ELSE 0)
  <2> SUFFICES ASSUME NEW f \in Nat \ {0}
               PROVE  /\ Begun(u, f) \in Nat
                      /\ Begun(u + 1, f) = Begun(u, f) + (IF u % f = 0 THEN 1 ELSE 0)
    OBVIOUS
  <2>1. u + f - 1 \in Nat
    BY <1>0
  <2> QED
    BY <1>0, <2>1, DivMod, OneMoreUpdate DEF Begun
<1>3. PolicyFrequency * (Begun(u, PolicyFrequency) + 1)
        = PolicyFrequency * Begun(u, PolicyFrequency) + PolicyFrequency
  BY <1>2
<1> HIDE DEF u
<1> QED
  BY <1>0, <1>1, <1>2, <1>3 DEF Paced

LEMMA StepPace ==
  ASSUME PaceInv, [Next]_vars
  PROVE  PaceInv'
<1>0. TypeInv' /\ Pace
  BY StepTypes DEF PaceInv
<1>1. CASE update
  BY <1>0, <1>1, UpdatePaced DEF update, PaceInv, Pace
<1>2. ASSUME Gone PROVE Paced(networks', update_counter')
  BY <1>2, FreshPaced DEF Gone
<1>3. CASE SampleFails \/ Crash
  BY <1>0, <1>2, <1>3 DEF SampleFails, Crash, PaceInv, Pace
<1>4. CASE Saved \/ SavedOnExit
  <2>1. Paced(checkpoint'.networks, checkpoint'.update_counter)
    BY <1>0, <1>4 DEF Saved, SavedOnExit, Snapshot, Pace
  <2>2. Paced(networks', update_counter')
    BY <1>0, <1>2, <1>4 DEF Saved, SavedOnExit, Pace
  <2> QED
    BY <1>0, <2>1, <2>2 DEF PaceInv, Pace
<1>5. CASE Restart
  BY <1>0, <1>5 DEF Restart, load_checkpoint, meta_counter, PaceInv, Pace
<1>6. CASE UNCHANGED <<networks, update_counter, checkpoint>>
  BY <1>0, <1>6 DEF PaceInv, Pace
<1>7. CASE \/ Infer \/ StartLearn \/ FinishLearn \/ StartSave \/ NothingToSave \/ feedback
           \/ Disconnect \/ RequestStop \/ SaveOnExit \/ UNCHANGED vars
  BY <1>6, <1>7 DEF Infer, StartLearn, FinishLearn, StartSave, NothingToSave, feedback,
                    Disconnect, RequestStop, SaveOnExit, create_checkpoint
<1> QED
  BY <1>1, <1>3, <1>4, <1>5, <1>7 DEF Next, SchedulerStep

(* For all frequencies, the actor has as many steps as updates it was due  *)
(* and those it makes up for, the targets one per period, whatever the     *)
(* process went through (update, create_checkpoint, load_checkpoint).      *)
THEOREM NetworksInStepHolds == Spec => []NetworksInStep
<1>1. Init => PaceInv
  BY InitTypes, FreshPaced DEF Init, PaceInv, Pace
<1>2. PaceInv => NetworksInStep
  BY DEF PaceInv, Pace, Paced, Begun, NetworksInStep, Periods
<1> QED
  BY <1>1, <1>2, StepPace, PTL DEF Spec

=============================================================================
