--------------------------- MODULE CheckpointStore --------------------------
(***************************************************************************)
(* Checkpoints on disk (common/checkpoint_manager.py) and the resume of a  *)
(* server from the latest (cli.py): a save fills a temporary directory,    *)
(* removes a checkpoint of the same step and renames the directory; a kill *)
(* may come between any two of these steps.  rmtree is as many steps as    *)
(* there are files, in any order.                                          *)
(*                                                                         *)
(* The training step only grows within a run.  A step that has a           *)
(* checkpoint is saved once more when a run is stopped right after a       *)
(* periodic save.  Two saves overlap (Overlap) only when the shutdown      *)
(* gives up waiting for its own and the scheduler goes on: the state in    *)
(* which OneWriter of AgentServer makes an exception.                      *)
(***************************************************************************)
EXTENDS Naturals, FiniteSets

CONSTANTS
  Writers,      \* the save threads that may run at a time
  Steps,        \* training steps at which a save may be asked for
  Overlap,      \* whether a save may start while another one runs
  MaxSaves,     \* bound: saves begun
  MaxKills      \* bound: kills of the process

ASSUME StoreAssumption ==
  /\ Steps \subseteq Nat /\ 0 \in Steps
  /\ Overlap \in BOOLEAN
  /\ MaxSaves \in Nat
  /\ MaxKills \in Nat

VARIABLES
  final,        \* the directory named after each step
  tmp,          \* the directory tmp_<step>
  writer,       \* how far each save thread has come
  step,         \* the step at which the next checkpoint is taken
  up,           \* whether the process runs
  resumed,      \* what the process has resumed from
  saves,        \* how many saves were begun: names their content
  kills,        \* how often the process was killed
  completed,    \* history: the save that was completed last for each step
  replacing,    \* history: steps whose checkpoint a save began to remove
  retried       \* history: steps saved again after such a save broke off

history == <<completed, replacing, retried>>
vars == <<final, tmp, writer, step, up, resumed, saves, kills, history>>

(* A directory maps each file to the save that wrote it, 0 if it is missing *)
(* or was cut short.                                                       *)
File == {"model", "optimizer", "metadata", "config"}
Directory == [there : BOOLEAN, files : [File -> 0 .. MaxSaves]]
Empty == [there |-> TRUE, files |-> [f \in File |-> 0]]
Gone == [there |-> FALSE, files |-> [f \in File |-> 0]]
Written(save) == [there |-> TRUE, files |-> [f \in File |-> save]]

Stage == {"idle", "clear_tmp", "clear_final"} \cup File
Idle == [at |-> "idle", step |-> 0, save |-> 0]

TypeOK ==
  /\ final \in [Steps -> Directory]
  /\ tmp \in [Steps -> Directory]
  /\ writer \in [Writers -> [at : Stage, step : Steps, save : 0 .. MaxSaves]]
  /\ step \in Steps
  /\ up \in BOOLEAN
  /\ resumed \in Directory
  /\ saves \in 0 .. MaxSaves
  /\ kills \in 0 .. MaxKills
  /\ completed \in [Steps -> 0 .. MaxSaves]
  /\ replacing \subseteq Steps
  /\ retried \subseteq Steps

Init ==
  /\ final = [s \in Steps |-> Gone]
  /\ tmp = [s \in Steps |-> Gone]
  /\ writer = [w \in Writers |-> Idle]
  /\ step = 0
  /\ up = TRUE
  /\ resumed = Gone
  /\ saves = 0
  /\ kills = 0
  /\ completed = [s \in Steps |-> 0]
  /\ replacing = {}
  /\ retried = {}

-----------------------------------------------------------------------------
Busy(w) == writer[w].at # "idle"

(* get_latest_checkpoint_step: only the name of a directory counts. *)
checkpoint_steps == {s \in Steps : final[s].there}
Latest == CHOOSE s \in checkpoint_steps : \A t \in checkpoint_steps : t <= s

(* rmtree: the files one by one, then the directory. *)
Removals(dir) ==
  IF dir = Empty THEN {Gone}
  ELSE {[dir EXCEPT !.files[f] = 0] : f \in {g \in File : dir.files[g] # 0}}

(* The order in which save_checkpoint writes the files. *)
NextStage_without_metadata(at) ==                               \* mutant
  CASE at = "model" -> "optimizer"
    [] at = "optimizer" -> "config"
    [] at \in {"metadata", "config"} -> "clear_final"
NextStage(at) ==
  CASE at = "model" -> "optimizer"
    [] at = "optimizer" -> "metadata"
    [] at = "metadata" -> "config"
    [] at = "config" -> "clear_final"

Goto(w, stage) == writer' = [writer EXCEPT ![w].at = stage]

-----------------------------------------------------------------------------
(* The server stores frames; the model lock keeps it from doing so while   *)
(* it waits for a save.                                                    *)
Train ==
  /\ up
  /\ Overlap \/ \A w \in Writers : ~Busy(w)
  /\ \E s \in Steps : s > step /\ step' = s
  /\ UNCHANGED <<final, tmp, writer, up, resumed, saves, kills, history>>

BeginSave(w) ==
  /\ up /\ ~Busy(w)
  /\ Overlap \/ \A v \in Writers : ~Busy(v)
  /\ saves < MaxSaves
  /\ saves' = saves + 1
  /\ writer' = [writer EXCEPT ![w] = [at |-> "clear_tmp", step |-> step,
                                      save |-> saves + 1]]
  /\ retried' = retried \cup ({step} \cap replacing)
  /\ UNCHANGED <<final, tmp, step, up, resumed, kills, completed, replacing>>

(* What an earlier, unfinished save of this step left behind goes first. *)
ClearTmp(w) ==
  LET s == writer[w].step
  IN  /\ writer[w].at = "clear_tmp"
      /\ tmp[s].there
      /\ \E d \in Removals(tmp[s]) : tmp' = [tmp EXCEPT ![s] = d]
      /\ UNCHANGED <<final, writer, step, up, resumed, saves, kills,
                     history>>

MakeTmp_exist_ok(w) ==                                          \* mutant
  LET s == writer[w].step
  IN  /\ writer[w].at = "clear_tmp"
      /\ tmp' = [tmp EXCEPT ![s].there = TRUE]
      /\ Goto(w, "model")
      /\ UNCHANGED <<final, step, up, resumed, saves, kills, history>>
MakeTmp(w) ==
  LET s == writer[w].step
  IN  /\ writer[w].at = "clear_tmp"
      /\ ~tmp[s].there
      /\ tmp' = [tmp EXCEPT ![s] = Empty]
      /\ Goto(w, "model")
      /\ UNCHANGED <<final, step, up, resumed, saves, kills, history>>

WriteFile(w) ==
  LET s == writer[w].step
      f == writer[w].at
  IN  /\ f \in File
      /\ tmp[s].there
      /\ tmp' = [tmp EXCEPT ![s].files[f] = writer[w].save]
      /\ Goto(w, NextStage(f))
      /\ UNCHANGED <<final, step, up, resumed, saves, kills, history>>

(* An older checkpoint of the same step goes before the rename. *)
ClearFinal_previous(w) ==                                       \* mutant
  /\ writer[w].at = "clear_final"
  /\ checkpoint_steps # {}
  /\ \E d \in Removals(final[Latest]) : final' = [final EXCEPT ![Latest] = d]
  /\ replacing' = replacing \cup {writer[w].step}
  /\ UNCHANGED <<tmp, writer, step, up, resumed, saves, kills, completed,
                 retried>>
ClearFinal(w) ==
  LET s == writer[w].step
  IN  /\ writer[w].at = "clear_final"
      /\ final[s].there
      /\ \E d \in Removals(final[s]) : final' = [final EXCEPT ![s] = d]
      /\ replacing' = replacing \cup {s}
      /\ UNCHANGED <<tmp, writer, step, up, resumed, saves, kills, completed,
                 retried>>

Rename(w) ==
  LET s == writer[w].step
  IN  /\ writer[w].at = "clear_final"
      /\ ~final[s].there
      /\ tmp[s].there
      /\ final' = [final EXCEPT ![s] = tmp[s]]
      /\ tmp' = [tmp EXCEPT ![s] = Gone]
      /\ completed' = [completed EXCEPT ![s] = writer[w].save]
      /\ replacing' = replacing \ {s}
      /\ retried' = retried \ {s}
      /\ writer' = [writer EXCEPT ![w] = Idle]
      /\ UNCHANGED <<step, up, resumed, saves, kills>>

(* An error of the file system, or one that another save causes by working *)
(* in the same directory, ends the thread where it is.                     *)
SaveError_cleans_up(w) ==                                       \* mutant
  /\ Busy(w)
  /\ writer' = [writer EXCEPT ![w] = Idle]
  /\ tmp' = [tmp EXCEPT ![writer[w].step] = Gone]
  /\ UNCHANGED <<final, step, up, resumed, saves, kills, history>>
SaveError(w) ==
  /\ Busy(w)
  /\ writer' = [writer EXCEPT ![w] = Idle]
  /\ UNCHANGED <<final, tmp, step, up, resumed, saves, kills, history>>

Kill ==
  /\ up
  /\ kills < MaxKills
  /\ kills' = kills + 1
  /\ up' = FALSE
  /\ writer' = [w \in Writers |-> Idle]
  /\ UNCHANGED <<final, tmp, step, resumed, saves, history>>

(* A start with --resume: load_checkpoint takes the files that are there,  *)
(* and no checkpoint at all is an error.                                   *)
Resume ==
  /\ ~up
  /\ checkpoint_steps # {}
  /\ up' = TRUE
  /\ step' = Latest
  /\ resumed' = final[Latest]
  /\ UNCHANGED <<final, tmp, writer, saves, kills, history>>

Next ==
  \/ Train \/ Kill \/ Resume
  \/ \E w \in Writers :
       \/ BeginSave(w) \/ ClearTmp(w) \/ MakeTmp(w) \/ WriteFile(w)
       \/ ClearFinal(w) \/ Rename(w) \/ SaveError(w)

Spec == Init /\ [][Next]_vars

-----------------------------------------------------------------------------
(* A step has a checkpoint directory exactly if a save of it was           *)
(* completed, and that directory holds all the files of one save - the     *)
(* last: nothing that was killed, failed or left over shows under a        *)
(* checkpoint's name.  A save that replaces a checkpoint takes its own     *)
(* step out of this, from the first file it removes to its rename.         *)
CheckpointsWhole ==
  \A s \in Steps \ replacing :
    final[s] = IF completed[s] = 0 THEN Gone ELSE Written(completed[s])

(* Once a checkpoint was completed a run can resume from a whole one, at   *)
(* whatever moment it is killed ("a run that is stopped early must still   *)
(* be resumable").                                                         *)
StaysResumable ==
  (\E s \in Steps : completed[s] # 0) =>
    \E c \in 1 .. MaxSaves : checkpoint_steps # {} /\ final[Latest] = Written(c)

(* The save that a directory holds, 0 if none of it or not all of it.      *)
WholeSave(dir) ==
  IF dir = Written(dir.files["model"]) THEN dir.files["model"] ELSE 0

(* Replacing a checkpoint may break off, by a kill or by an error, after   *)
(* any of its steps: the step's directory then holds a part of the old     *)
(* save or nothing, but the new save stands whole in tmp_<step>.  It is    *)
(* lost only if the step is saved anew over it, which begins by clearing   *)
(* tmp_<step> while the old save is gone already.                          *)
StaysRecoverable ==
  \A s \in Steps \ retried : completed[s] # 0 =>
    \/ final[s] = Written(completed[s])
    \/ WholeSave(tmp[s]) > completed[s]

(* The temporary directory of a save holds the files that this save has    *)
(* written so far and nothing of an earlier save that was killed or failed *)
(* - also when it begins, fails and begins again at the same step.         *)
WrittenSoFar(at) ==
  CASE at = "model" -> {}
    [] at = "optimizer" -> {"model"}
    [] at = "metadata" -> {"model", "optimizer"}
    [] at = "config" -> {"model", "optimizer", "metadata"}
    [] at = "clear_final" -> File
TmpIsThisSave ==
  \A w \in Writers : writer[w].at \notin {"idle", "clear_tmp"} =>
    tmp[writer[w].step] =
      [there |-> TRUE,
       files |-> [f \in File |-> IF f \in WrittenSoFar(writer[w].at)
                                 THEN writer[w].save ELSE 0]]

(* The directories keep the promise of CheckpointRegister: saves appear    *)
(* whole and at the newest step, a checkpoint of an earlier step is never  *)
(* touched again, the newest one is taken away only when the save that     *)
(* replaces it is whole, and a start reads the newest.                     *)
Slot(dir) == [there |-> dir.there, save |-> WholeSave(dir)]
Register == INSTANCE CheckpointRegister WITH
  stored <- [s \in Steps |-> Slot(final[s])],
  waiting <- [s \in Steps |-> WholeSave(tmp[s])],
  loaded <- Slot(resumed)
RegisterSpec == Register!Spec

=============================================================================
