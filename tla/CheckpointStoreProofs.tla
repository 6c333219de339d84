------------------------ MODULE CheckpointStoreProofs -----------------------
(***************************************************************************)
(* Proofs about CheckpointStore: its types; and that, as long as saves do  *)
(* not overlap, checkpoints are whole, what a broken replacement removes   *)
(* can be recovered, and the directories implement CheckpointRegister.     *)
(***************************************************************************)
EXTENDS CheckpointStore, WellFoundedInduction, TLAPS

USE DEF vars, history

-----------------------------------------------------------------------------
(* Types. *)

LEMMA DirectoryTypes ==
  /\ Gone \in Directory /\ Empty \in Directory
  /\ Gone.there = FALSE /\ Empty.there = TRUE
  /\ \A c \in 1 .. MaxSaves : Written(c).there
BY StoreAssumption DEF Gone, Empty, Written, Directory

LEMMA FilesTypes ==
  ASSUME NEW d \in Directory, NEW f \in File, NEW c \in 0 .. MaxSaves
  PROVE  [d EXCEPT !.files[f] = c] \in Directory
BY DEF Directory

(* Writing a file changes this file only. *)
LEMMA FileWritten ==
  ASSUME NEW d \in Directory, NEW f \in File, NEW c \in 0 .. MaxSaves
  PROVE  [d EXCEPT !.files[f] = c]
           = [there |-> d.there, files |-> [d.files EXCEPT ![f] = c]]
BY DEF Directory

LEMMA RemovalsTypes ==
  ASSUME NEW d \in Directory
  PROVE  Removals(d) \subseteq Directory
<1>1. CASE d = Empty
  BY <1>1, DirectoryTypes DEF Removals
<1>2. CASE d # Empty
  <2>1. 0 \in 0 .. MaxSaves
    BY StoreAssumption
  <2> QED
    BY <1>2, <2>1, FilesTypes DEF Removals
<1> QED
  BY <1>1, <1>2

LEMMA NextStageType ==
  /\ NextStage("model") = "optimizer"
  /\ NextStage("optimizer") = "metadata"
  /\ NextStage("metadata") = "config"
  /\ NextStage("config") = "clear_final"
  /\ \A f \in File : NextStage(f) \in Stage \ {"idle", "clear_tmp", "model"}
<1>1. /\ NextStage("model") = "optimizer"
      /\ NextStage("optimizer") = "metadata"
      /\ NextStage("metadata") = "config"
      /\ NextStage("config") = "clear_final"
  BY DEF NextStage
<1> QED
  BY <1>1 DEF File, Stage

(* A set of numbers with a bound has a largest element. *)
LEMMA BoundedHasMaximum ==
  ASSUME NEW T \in SUBSET Nat, T # {}, NEW b \in Nat, \A t \in T : t <= b
  PROVE  \E m \in T : \A t \in T : t <= m
<1> DEFINE R == {p \in Nat \X Nat : p[1] < p[2]}
           D == {b - t : t \in T}
<1>1. IsWellFoundedOn(R, Nat)
  BY NatLessThanWellFounded DEF OpToRel
<1>0. \A t \in T : t \in Nat /\ t <= b /\ b - t \in Nat
  OBVIOUS
<1>2. D \subseteq Nat /\ D # {}
  BY <1>0
<1> HIDE DEF R
<1>3. \E x \in D : \A y \in D : <<y, x>> \notin R
  BY <1>1, <1>2, WFMin
<1>4. PICK m \in T : \A y \in D : <<y, b - m>> \notin R
  BY <1>3
<1>5. ASSUME NEW t \in T PROVE t <= m
  <2>1. /\ t \in Nat /\ b - t \in Nat /\ b - t \in D
        /\ m \in Nat /\ b - m \in Nat
    BY <1>0
  <2>2. <<b - t, b - m>> \notin R
    BY <1>4, <2>1
  <2>3. ~(b - t < b - m)
    BY <2>1, <2>2 DEF R
  <2> QED
    BY <2>1, <2>3
<1> QED
  BY <1>5

(* There are never checkpoints of ever larger steps. *)
BoundedSteps == \E b \in Nat : \A s \in checkpoint_steps : s <= b

(* With a bound on the steps, the latest checkpoint is one of them. *)
LEMMA LatestIsMaximum ==
  ASSUME checkpoint_steps # {}, BoundedSteps
  PROVE  /\ Latest \in checkpoint_steps
         /\ \A t \in checkpoint_steps : t <= Latest
<1>1. checkpoint_steps \subseteq Nat
  BY StoreAssumption DEF checkpoint_steps
<1>2. \E m \in checkpoint_steps : \A t \in checkpoint_steps : t <= m
  BY <1>1, BoundedHasMaximum DEF BoundedSteps
<1> QED
  BY <1>2 DEF Latest

TypeInv == TypeOK /\ BoundedSteps

LEMMA TypeInit == Init => TypeInv
<1> SUFFICES ASSUME Init PROVE TypeInv
  OBVIOUS
<1>1. Idle \in [at : Stage, step : Steps, save : 0 .. MaxSaves]
  BY StoreAssumption DEF Idle, Stage
<1>2. TypeOK
  BY <1>1, DirectoryTypes, StoreAssumption DEF Init, TypeOK
<1>3. checkpoint_steps = {}
  BY DirectoryTypes DEF Init, checkpoint_steps
<1> QED
  BY <1>2, <1>3 DEF TypeInv, BoundedSteps

(* Only a rename adds a checkpoint. *)
LEMMA BoundFrame ==
  ASSUME BoundedSteps, checkpoint_steps' \subseteq checkpoint_steps
  PROVE  BoundedSteps'
BY DEF BoundedSteps

LEMMA TypeNext == TypeInv /\ [Next]_vars => TypeInv'
<1> SUFFICES ASSUME TypeInv, [Next]_vars PROVE TypeInv'
  OBVIOUS
<1> USE StoreAssumption
<1>0. TypeOK /\ BoundedSteps
  BY DEF TypeInv
<1>1. CASE UNCHANGED vars
  BY <1>0, <1>1, BoundFrame DEF TypeOK, TypeInv, checkpoint_steps
<1>2. CASE Train \/ Kill
  <2>1. Idle \in [at : Stage, step : Steps, save : 0 .. MaxSaves]
    BY DEF Idle, Stage
  <2>2. ASSUME Train PROVE TypeOK'
    BY <1>0, <2>2 DEF TypeOK, Train
  <2>3. ASSUME Kill PROVE TypeOK'
    <3>1. kills' \in 0 .. MaxKills
      BY <1>0, <2>3 DEF TypeOK, Kill
    <3> QED
      BY <1>0, <2>1, <2>3, <3>1 DEF TypeOK, Kill
  <2>4. TypeOK'
    BY <1>2, <2>2, <2>3
  <2> QED
    BY <1>0, <1>2, <2>4, BoundFrame
       DEF Train, Kill, TypeInv, checkpoint_steps
<1>3. CASE Resume
  <2>1. Latest \in Steps
    BY <1>0, <1>3, LatestIsMaximum DEF Resume, checkpoint_steps
  <2>2. TypeOK'
    BY <1>0, <1>3, <2>1 DEF TypeOK, Resume
  <2> QED
    BY <1>0, <1>3, <2>2, BoundFrame DEF Resume, TypeInv, checkpoint_steps
<1>4. ASSUME NEW w \in Writers,
             \/ BeginSave(w) \/ ClearTmp(w) \/ MakeTmp(w) \/ WriteFile(w)
             \/ ClearFinal(w) \/ Rename(w) \/ SaveError(w)
      PROVE  TypeInv'
  <2>0. writer[w].step \in Steps /\ writer[w].save \in 0 .. MaxSaves
    BY <1>0 DEF TypeOK
  <2>1. CASE BeginSave(w)
    <3>1. saves + 1 \in 0 .. MaxSaves
      BY <1>0, <2>1 DEF BeginSave, TypeOK
    <3>2. TypeOK'
      BY <1>0, <2>1, <3>1 DEF BeginSave, TypeOK, Stage
    <3> QED
      BY <1>0, <2>1, <3>2, BoundFrame DEF BeginSave, TypeInv, checkpoint_steps
  <2>2. CASE ClearTmp(w)
    <3>1. tmp[writer[w].step] \in Directory
      BY <1>0, <2>0 DEF TypeOK
    <3>2. TypeOK'
      BY <1>0, <2>0, <2>2, <3>1, RemovalsTypes DEF ClearTmp, TypeOK
    <3> QED
      BY <1>0, <2>2, <3>2, BoundFrame DEF ClearTmp, TypeInv, checkpoint_steps
  <2>3. CASE MakeTmp(w)
    <3>1. TypeOK'
      BY <1>0, <2>0, <2>3, DirectoryTypes DEF MakeTmp, Goto, TypeOK, Stage, File
    <3> QED
      BY <1>0, <2>3, <3>1, BoundFrame DEF MakeTmp, TypeInv, checkpoint_steps
  <2>4. CASE WriteFile(w)
    <3> DEFINE s == writer[w].step
               f == writer[w].at
               d == [tmp[s] EXCEPT !.files[f] = writer[w].save]
    <3>1. d \in Directory
      BY <1>0, <2>0, <2>4, FilesTypes DEF WriteFile, TypeOK
    <3>2. tmp' = [tmp EXCEPT ![s] = d]
      BY <2>4 DEF WriteFile
    <3>3. NextStage(f) \in Stage
      BY <2>4, NextStageType DEF WriteFile
    <3> HIDE DEF d
    <3>4. TypeOK'
      BY <1>0, <2>0, <2>4, <3>1, <3>2, <3>3 DEF WriteFile, Goto, TypeOK
    <3> QED
      BY <1>0, <2>4, <3>4, BoundFrame DEF WriteFile, TypeInv, checkpoint_steps
  <2>5. CASE ClearFinal(w)
    <3> DEFINE s == writer[w].step
    <3>1. final[s] \in Directory /\ final[s].there
      BY <1>0, <2>0, <2>5 DEF TypeOK, ClearFinal
    <3>2. TypeOK'
      BY <1>0, <2>0, <2>5, <3>1, RemovalsTypes DEF ClearFinal, TypeOK
    <3>3. \A t \in Steps : t # s => final'[t] = final[t]
      BY <1>0, <2>5 DEF ClearFinal, TypeOK
    <3>4. checkpoint_steps' \subseteq checkpoint_steps
      BY <2>0, <3>1, <3>3 DEF checkpoint_steps
    <3> QED
      BY <1>0, <3>2, <3>4, BoundFrame DEF TypeInv
  <2>6. CASE Rename(w)
    <3> DEFINE s == writer[w].step
    <3>1. Idle \in [at : Stage, step : Steps, save : 0 .. MaxSaves]
      BY DEF Idle, Stage
    <3>2. TypeOK'
      BY <1>0, <2>0, <2>6, <3>1, DirectoryTypes DEF Rename, TypeOK
    <3>3. checkpoint_steps' \subseteq checkpoint_steps \cup {s}
      BY <1>0, <2>6 DEF Rename, TypeOK, checkpoint_steps
    <3>4. PICK b \in Nat : \A t \in checkpoint_steps : t <= b
      BY <1>0 DEF BoundedSteps
    <3>5. s \in Nat /\ checkpoint_steps \subseteq Nat
      BY <2>0 DEF checkpoint_steps
    <3>6. b + s \in Nat /\ \A t \in checkpoint_steps' : t <= b + s
      BY <3>3, <3>4, <3>5
    <3>7. BoundedSteps'
      BY <3>6 DEF BoundedSteps
    <3> QED
      BY <3>2, <3>7 DEF TypeInv
  <2>7. CASE SaveError(w)
    <3>1. Idle \in [at : Stage, step : Steps, save : 0 .. MaxSaves]
      BY DEF Idle, Stage
    <3>2. TypeOK'
      BY <1>0, <2>7, <3>1 DEF SaveError, TypeOK
    <3> QED
      BY <1>0, <2>7, <3>2, BoundFrame DEF SaveError, TypeInv, checkpoint_steps
  <2> QED
    BY <1>4, <2>1, <2>2, <2>3, <2>4, <2>5, <2>6, <2>7
<1> QED
  BY <1>1, <1>2, <1>3, <1>4 DEF Next

LEMMA TypeInvariance == Spec => []TypeInv
BY TypeInit, TypeNext, PTL DEF Spec

(* Every variable keeps its type; in particular a start that finds a       *)
(* checkpoint finds a latest one.                                          *)
THEOREM StoreTypeCorrectness == Spec => []TypeOK
<1>1. TypeInv => TypeOK
  BY DEF TypeInv
<1> QED
  BY <1>1, TypeInvariance, PTL

-----------------------------------------------------------------------------
(* Whole checkpoints, when saves do not overlap. *)

(* At most one save runs, and a save has a number. *)
OneSave ==
  /\ \A v, w \in Writers : Busy(v) /\ Busy(w) => v = w
  /\ \A w \in Writers : Busy(w) => writer[w].save > 0

SafetyInv == OneSave /\ TmpIsThisSave /\ CheckpointsWhole

(* Steps that leave the directories alone and start no save. *)
LEMMA SafetyFrame ==
  ASSUME SafetyInv, UNCHANGED <<final, tmp, completed, replacing>>,
         \A w \in Writers : writer'[w] = writer[w] \/ writer'[w].at = "idle"
  PROVE  SafetyInv'
<1>1. OneSave'
  BY DEF SafetyInv, OneSave, Busy
<1>2. TmpIsThisSave'
  BY DEF SafetyInv, TmpIsThisSave, WrittenSoFar
<1>3. CheckpointsWhole'
  BY DEF SafetyInv, CheckpointsWhole
<1> QED
  BY <1>1, <1>2, <1>3 DEF SafetyInv

(* Steps of the one save that is running: no other has a temporary         *)
(* directory to look after.                                                *)
LEMMA OnlyThisSave ==
  ASSUME NEW w \in Writers, OneSave, Busy(w),
         \A v \in Writers \ {w} : writer'[v] = writer[v]
  PROVE  \A v \in Writers \ {w} : writer[v].at = "idle" /\ writer'[v].at = "idle"
BY DEF OneSave, Busy

LEMMA WriteFileKeepsTmp ==
  ASSUME NEW w \in Writers, TypeOK, OneSave, TmpIsThisSave, WriteFile(w)
  PROVE  TmpIsThisSave'
<1> DEFINE s == writer[w].step
           f == writer[w].at
           c == writer[w].save
<1>1. /\ f \in File /\ Busy(w)
      /\ tmp' = [tmp EXCEPT ![s].files[f] = c]
      /\ writer' = [writer EXCEPT ![w].at = NextStage(f)]
  BY DEF WriteFile, Goto, File, Busy
<1>2. /\ writer'[w].at = NextStage(f) /\ writer'[w].step = s
      /\ writer'[w].save = c
      /\ \A v \in Writers \ {w} : writer'[v] = writer[v]
      /\ s \in Steps
  BY <1>1 DEF TypeOK
<1>3. \A v \in Writers \ {w} : writer'[v].at = "idle"
  BY <1>1, <1>2, OnlyThisSave
<1> DEFINE h == [g \in File |-> IF g \in WrittenSoFar(f) THEN c ELSE 0]
           d == [there |-> TRUE, files |-> [h EXCEPT ![f] = c]]
<1>4. tmp[s] = [there |-> TRUE, files |-> h]
  BY <1>1 DEF TmpIsThisSave, File
<1>5. WrittenSoFar(NextStage(f)) = WrittenSoFar(f) \cup {f}
  <2>1. /\ WrittenSoFar("model") = {}
        /\ WrittenSoFar("optimizer") = {"model"}
        /\ WrittenSoFar("metadata") = {"model", "optimizer"}
        /\ WrittenSoFar("config") = {"model", "optimizer", "metadata"}
        /\ WrittenSoFar("clear_final") = File
    BY DEF WrittenSoFar
  <2> QED
    BY <1>1, <2>1, NextStageType DEF File
<1>6. [tmp[s] EXCEPT !.files[f] = c] = d
  <2>1. tmp[s] \in Directory /\ f \in File /\ c \in 0 .. MaxSaves
    BY <1>1, <1>2 DEF TypeOK
  <2>2. [tmp[s] EXCEPT !.files[f] = c]
          = [there |-> tmp[s].there, files |-> [tmp[s].files EXCEPT ![f] = c]]
    <3> HIDE DEF s, f, c
    <3> QED
      BY <2>1, FileWritten
  <2>3. tmp[s].there = TRUE /\ tmp[s].files = h
    BY <1>4
  <2> HIDE DEF h
  <2> QED
    BY <2>2, <2>3, Zenon
<1>7. tmp'[s] = d
  <2> HIDE DEF d
  <2>1. tmp' = [tmp EXCEPT ![s] = d]
    BY <1>1, <1>6
  <2> QED
    BY <1>2, <2>1 DEF TypeOK
<1>8. d = [there |-> TRUE,
           files |-> [g \in File |-> IF g \in WrittenSoFar(NextStage(f))
                                     THEN c ELSE 0]]
  <2>1. [h EXCEPT ![f] = c]
          = [g \in File |-> IF g \in WrittenSoFar(f) \cup {f} THEN c ELSE 0]
    BY <1>1
  <2> QED
    BY <1>5, <2>1
<1> HIDE DEF d
<1> QED
  BY <1>2, <1>3, <1>7, <1>8 DEF TmpIsThisSave

LEMMA SafetyNext ==
  ASSUME ~Overlap, TypeOK, SafetyInv, [Next]_vars
  PROVE  SafetyInv'
<1>0. OneSave /\ TmpIsThisSave /\ CheckpointsWhole
  BY DEF SafetyInv
<1>1. CASE UNCHANGED vars
  BY <1>1, SafetyFrame
<1>2. CASE Train \/ Resume
  BY <1>2, SafetyFrame DEF Train, Resume
<1>3. CASE Kill
  BY <1>3, SafetyFrame DEF Kill, Idle
<1>4. ASSUME NEW w \in Writers, SaveError(w) PROVE SafetyInv'
  BY <1>4, SafetyFrame DEF SaveError, Idle, TypeOK
<1>5. ASSUME NEW w \in Writers, BeginSave(w) PROVE SafetyInv'
  <2>1. /\ \A v \in Writers : ~Busy(v)
        /\ \A v \in Writers \ {w} : writer'[v] = writer[v]
        /\ writer'[w].at = "clear_tmp" /\ writer'[w].save = saves + 1
        /\ saves \in Nat
        /\ UNCHANGED <<final, tmp, completed, replacing>>
    BY <1>5, StoreAssumption DEF BeginSave, TypeOK
  <2>2. OneSave'
    BY <2>1 DEF OneSave, Busy
  <2>3. TmpIsThisSave'
    BY <2>1 DEF TmpIsThisSave, Busy
  <2>4. CheckpointsWhole'
    BY <1>0, <2>1 DEF CheckpointsWhole
  <2> QED
    BY <2>2, <2>3, <2>4 DEF SafetyInv
<1>6. ASSUME NEW w \in Writers, ClearTmp(w) PROVE SafetyInv'
  <2>1. Busy(w) /\ writer[w].at = "clear_tmp"
        /\ UNCHANGED <<final, writer, completed, replacing>>
    BY <1>6 DEF ClearTmp, Busy
  <2>2. \A v \in Writers \ {w} : writer[v].at = "idle"
    BY <1>0, <2>1 DEF OneSave, Busy
  <2>3. TmpIsThisSave'
    BY <2>1, <2>2 DEF TmpIsThisSave
  <2> QED
    BY <1>0, <2>1, <2>3 DEF SafetyInv, OneSave, Busy, CheckpointsWhole
<1>7. ASSUME NEW w \in Writers, MakeTmp(w) PROVE SafetyInv'
  <2> DEFINE s == writer[w].step
  <2>1. /\ Busy(w) /\ s \in Steps
        /\ \A v \in Writers \ {w} : writer'[v] = writer[v]
        /\ writer'[w].at = "model" /\ writer'[w].step = s
        /\ writer'[w].save = writer[w].save
        /\ tmp'[s] = Empty
        /\ UNCHANGED <<final, completed, replacing>>
    BY <1>7 DEF MakeTmp, Goto, TypeOK, Busy
  <2>2. OneSave'
    BY <1>0, <2>1 DEF OneSave, Busy
  <2>3. \A v \in Writers \ {w} : writer'[v].at = "idle"
    BY <1>0, <2>1, OnlyThisSave
  <2>4. WrittenSoFar("model") = {}
    BY DEF WrittenSoFar
  <2>5. TmpIsThisSave'
    BY <2>1, <2>3, <2>4 DEF TmpIsThisSave, Empty
  <2> QED
    BY <1>0, <2>1, <2>2, <2>5 DEF SafetyInv, CheckpointsWhole
<1>8. ASSUME NEW w \in Writers, WriteFile(w) PROVE SafetyInv'
  <2>1. /\ Busy(w) /\ writer'[w].save = writer[w].save
        /\ \A v \in Writers \ {w} : writer'[v] = writer[v]
        /\ UNCHANGED <<final, completed, replacing>>
    BY <1>8 DEF WriteFile, Goto, TypeOK, File, Busy
  <2>2. OneSave'
    BY <1>0, <2>1 DEF OneSave, Busy
  <2>3. TmpIsThisSave'
    BY <1>0, <1>8, WriteFileKeepsTmp
  <2> QED
    BY <1>0, <2>1, <2>2, <2>3 DEF SafetyInv, CheckpointsWhole
<1>9. ASSUME NEW w \in Writers, ClearFinal(w) PROVE SafetyInv'
  <2> DEFINE s == writer[w].step
  <2>1. /\ s \in Steps /\ replacing' = replacing \cup {s}
        /\ \A t \in Steps \ {s} : final'[t] = final[t]
        /\ UNCHANGED <<tmp, writer, completed>>
    BY <1>9 DEF ClearFinal, TypeOK
  <2>2. CheckpointsWhole'
    BY <1>0, <2>1 DEF CheckpointsWhole
  <2> QED
    BY <1>0, <2>1, <2>2 DEF SafetyInv, OneSave, Busy, TmpIsThisSave
<1>10. ASSUME NEW w \in Writers, Rename(w) PROVE SafetyInv'
  <2> DEFINE s == writer[w].step
             c == writer[w].save
  <2>1. /\ Busy(w) /\ s \in Steps /\ c \in 0 .. MaxSaves
        /\ writer[w].at = "clear_final"
        /\ \A v \in Writers \ {w} : writer'[v] = writer[v]
        /\ writer'[w].at = "idle"
        /\ final' = [final EXCEPT ![s] = tmp[s]]
        /\ completed' = [completed EXCEPT ![s] = c]
        /\ replacing' = replacing \ {s}
    BY <1>10 DEF Rename, Idle, TypeOK, Busy
  <2>2. c > 0
    BY <1>0, <2>1 DEF OneSave
  <2>3. tmp[s] = Written(c)
    <3>1. WrittenSoFar("clear_final") = File
      BY DEF WrittenSoFar
    <3> QED
      BY <1>0, <2>1, <3>1 DEF TmpIsThisSave, Written
  <2>4. CheckpointsWhole'
    BY <1>0, <2>1, <2>2, <2>3 DEF CheckpointsWhole, TypeOK
  <2>5. \A v \in Writers \ {w} : writer'[v].at = "idle"
    BY <1>0, <2>1, OnlyThisSave
  <2>6. OneSave' /\ TmpIsThisSave'
    BY <2>1, <2>5 DEF OneSave, TmpIsThisSave, Busy
  <2> QED
    BY <2>4, <2>6 DEF SafetyInv
<1> QED
  BY <1>1, <1>2, <1>3, <1>4, <1>5, <1>6, <1>7, <1>8, <1>9, <1>10 DEF Next

LEMMA SafetyInit == Init => SafetyInv
BY DEF Init, SafetyInv, OneSave, TmpIsThisSave, CheckpointsWhole, Busy, Idle

LEMMA SafetyInvariance == ASSUME ~Overlap PROVE Spec => []SafetyInv
<1>1. TypeInv /\ SafetyInv /\ [Next]_vars => SafetyInv'
  BY SafetyNext DEF TypeInv
<1> QED
  BY <1>1, SafetyInit, TypeInvariance, PTL DEF Spec

(* A save never finds files of another in its temporary directory, however *)
(* many saves were killed or failed at any moment before.                  *)
THEOREM TmpIsThisSaveHolds == ASSUME ~Overlap PROVE Spec => []TmpIsThisSave
<1>1. SafetyInv => TmpIsThisSave
  BY DEF SafetyInv
<1> QED
  BY <1>1, SafetyInvariance, PTL

(* What stands under a step's name is one whole completed save, but for a  *)
(* step whose checkpoint is being replaced.                                *)
THEOREM CheckpointsWholeHolds ==
  ASSUME ~Overlap PROVE Spec => []CheckpointsWhole
<1>1. SafetyInv => CheckpointsWhole
  BY DEF SafetyInv
<1> QED
  BY <1>1, SafetyInvariance, PTL

-----------------------------------------------------------------------------
(* What a directory holds. *)

LEMMA WholeSaveFacts ==
  ASSUME NEW d \in Directory
  PROVE  /\ WholeSave(d) \in 0 .. MaxSaves
         /\ WholeSave(d) # 0 =>
              d.there /\ \A f \in File : d.files[f] = WholeSave(d)
<1>1. d.files["model"] \in 0 .. MaxSaves /\ 0 \in 0 .. MaxSaves
  BY StoreAssumption DEF Directory, File
<1>2. CASE d = Written(d.files["model"])
  <2> DEFINE m == d.files["model"]
  <2>1. WholeSave(d) = m
    BY <1>2 DEF WholeSave
  <2>2. Written(m).there /\ \A f \in File : Written(m).files[f] = m
    BY DEF Written
  <2> QED
    BY <1>1, <1>2, <2>1, <2>2
<1>3. CASE d # Written(d.files["model"])
  BY <1>1, <1>3 DEF WholeSave
<1> QED
  BY <1>2, <1>3

LEMMA WrittenIsWhole == \A c \in 0 .. MaxSaves : WholeSave(Written(c)) = c
BY DEF WholeSave, Written, File

(* A directory that lacks a file holds no save. *)
LEMMA LackingIsNotWhole ==
  ASSUME NEW d \in Directory, NEW f \in File, d.files[f] = 0
  PROVE  WholeSave(d) = 0
BY WholeSaveFacts

LEMMA NothingIsNotWhole == WholeSave(Gone) = 0 /\ WholeSave(Empty) = 0
<1>1. "model" \in File
  BY DEF File
<1>2. Gone.files["model"] = 0 /\ Empty.files["model"] = 0
  BY <1>1 DEF Gone, Empty
<1> QED
  BY <1>1, <1>2, DirectoryTypes, LackingIsNotWhole

(* rmtree leaves nothing whole from its first step on. *)
LEMMA RemovalsAreNotWhole ==
  ASSUME NEW dir \in Directory, NEW d \in Removals(dir)
  PROVE  /\ WholeSave(d) = 0
         /\ \A f \in File : d.files[f] \in {0, dir.files[f]}
         /\ d \in Directory
<1>0. d \in Directory
  BY RemovalsTypes
<1>1. CASE dir = Empty
  <2>1. d = Gone
    BY <1>1 DEF Removals
  <2>2. \A f \in File : Gone.files[f] = 0
    BY DEF Gone
  <2> QED
    BY <1>0, <2>1, <2>2, NothingIsNotWhole
<1>2. CASE dir # Empty
  <2>1. PICK f \in File : d = [dir EXCEPT !.files[f] = 0]
    BY <1>2 DEF Removals
  <2>2. d = [there |-> dir.there, files |-> [dir.files EXCEPT ![f] = 0]]
    BY <2>1, FileWritten, StoreAssumption
  <2>3. d.files = [dir.files EXCEPT ![f] = 0] /\ dir.files \in [File -> 0 .. MaxSaves]
    BY <2>2 DEF Directory
  <2>4. d.files[f] = 0 /\ \A g \in File : d.files[g] \in {0, dir.files[g]}
    BY <2>3
  <2> QED
    BY <1>0, <2>4, LackingIsNotWhole
<1> QED
  BY <1>1, <1>2

(* While a save still has files to write its directory is not whole, and   *)
(* afterwards it is.                                                       *)
LEMMA SaveSoFar ==
  ASSUME NEW at \in Stage, NEW c \in 0 .. MaxSaves, NEW d \in Directory,
         d = [there |-> TRUE,
              files |-> [f \in File |-> IF f \in WrittenSoFar(at) THEN c ELSE 0]]
  PROVE  /\ at \in File => WholeSave(d) = 0
         /\ at = "clear_final" => d = Written(c)
<1>1. ASSUME at \in File PROVE WholeSave(d) = 0
  <2>1. "config" \in File /\ "config" \notin WrittenSoFar(at)
    BY <1>1 DEF File, WrittenSoFar
  <2>2. d.files["config"] = 0
    BY <2>1
  <2> QED
    BY <2>1, <2>2, LackingIsNotWhole
<1>2. ASSUME at = "clear_final" PROVE d = Written(c)
  <2>1. WrittenSoFar("clear_final") = File
    BY DEF WrittenSoFar
  <2> QED
    BY <1>2, <2>1 DEF Written
<1> QED
  BY <1>1, <1>2

LEMMA TmpOfThisSave ==
  ASSUME NEW w \in Writers, TypeOK, TmpIsThisSave
  PROVE  /\ writer[w].at \in File => WholeSave(tmp[writer[w].step]) = 0
         /\ writer[w].at = "clear_final" =>
              tmp[writer[w].step] = Written(writer[w].save)
<1>1. /\ writer[w].step \in Steps /\ writer[w].save \in 0 .. MaxSaves
      /\ writer[w].at \in Stage /\ tmp[writer[w].step] \in Directory
  BY DEF TypeOK
<1>2. CASE writer[w].at \notin {"idle", "clear_tmp"}
  BY <1>1, <1>2, SaveSoFar DEF TmpIsThisSave
<1>3. CASE writer[w].at \in {"idle", "clear_tmp"}
  BY <1>3 DEF File
<1> QED
  BY <1>2, <1>3

-----------------------------------------------------------------------------
(* Replacing a checkpoint. *)

(* No checkpoint is ahead of the training, and a running save is of the    *)
(* step at which the training stands and has the highest number.           *)
NoneAhead ==
  /\ \A s \in checkpoint_steps : s <= step
  /\ \A s \in Steps : completed[s] <= saves
SavingNow ==
  \A w \in Writers : Busy(w) =>
    /\ up
    /\ writer[w].step = step
    /\ writer[w].save = saves
    /\ \A s \in Steps : completed[s] < saves

(* Where a replacement broke off, the new save stands by until the step is *)
(* saved again; and a save that clears its temporary directory or fills it *)
(* while the step's checkpoint is broken is such another one.              *)
NewStandsBy == \A s \in replacing \ retried : completed[s] < WholeSave(tmp[s])
RetryNoted ==
  \A w \in Writers :
    Busy(w) /\ writer[w].at # "clear_final" /\ writer[w].step \in replacing
      => writer[w].step \in retried

(* Under the name of a step are files of its last completed save only. *)
PartsOfLast == \A s \in Steps, f \in File : final[s].files[f] \in {0, completed[s]}

ReplaceInv == NoneAhead /\ SavingNow /\ NewStandsBy /\ RetryNoted /\ PartsOfLast

LEMMA ReplaceInit == Init => ReplaceInv
<1>1. \A f \in File : Gone.files[f] = 0
  BY DEF Gone
<1> QED
  BY <1>1, StoreAssumption, DirectoryTypes
     DEF Init, ReplaceInv, NoneAhead, SavingNow, NewStandsBy, RetryNoted,
         PartsOfLast, Busy, Idle, checkpoint_steps

(* Steps that leave alone what is being replaced. *)
LEMMA ReplaceFrame ==
  ASSUME ReplaceInv, UNCHANGED <<final, step, up, saves, history>>,
         \A s \in replacing \ retried : tmp'[s] = tmp[s],
         \A w \in Writers :
           \/ writer'[w].at = "idle"
           \/ /\ Busy(w)
              /\ writer'[w].step = writer[w].step
              /\ writer'[w].save = writer[w].save
              /\ writer[w].at = "clear_final" => writer'[w].at = "clear_final"
  PROVE  ReplaceInv'
<1>1. NoneAhead' /\ PartsOfLast'
  BY DEF ReplaceInv, NoneAhead, PartsOfLast, checkpoint_steps
<1>2. SavingNow'
  BY DEF ReplaceInv, SavingNow, Busy
<1>3. RetryNoted'
  BY DEF ReplaceInv, RetryNoted, Busy
<1>4. NewStandsBy'
  <2>1. \A s \in replacing \ retried : completed[s] < WholeSave(tmp[s])
    BY DEF ReplaceInv, NewStandsBy
  <2>2. \A s \in replacing \ retried : completed[s] < WholeSave(tmp'[s])
    BY <2>1
  <2> QED
    BY <2>2 DEF NewStandsBy
<1> QED
  BY <1>1, <1>2, <1>3, <1>4 DEF ReplaceInv

(* A save that is not yet to put its directory in place works in a         *)
(* temporary directory on which nothing depends.                           *)
LEMMA FillingFrame ==
  ASSUME NEW w \in Writers, TypeOK, ReplaceInv, Busy(w),
         writer[w].at # "clear_final",
         NEW d, tmp' = [tmp EXCEPT ![writer[w].step] = d],
         NEW stage,
         writer' = writer \/ writer' = [writer EXCEPT ![w].at = stage],
         UNCHANGED <<final, step, up, saves, history>>
  PROVE  ReplaceInv'
<1>1. writer[w].step \notin replacing \ retried
  BY DEF ReplaceInv, RetryNoted
<1>2. \A s \in replacing \ retried : tmp'[s] = tmp[s]
  BY <1>1 DEF TypeOK
<1>3. \A v \in Writers :
        \/ writer'[v].at = "idle"
        \/ /\ Busy(v)
           /\ writer'[v].step = writer[v].step
           /\ writer'[v].save = writer[v].save
           /\ writer[v].at = "clear_final" => writer'[v].at = "clear_final"
  BY DEF TypeOK, Busy
<1> QED
  BY <1>2, <1>3, ReplaceFrame

LEMMA ReplaceNext ==
  ASSUME ~Overlap, TypeInv, SafetyInv, ReplaceInv, [Next]_vars
  PROVE  ReplaceInv'
<1> USE StoreAssumption
<1>0. /\ TypeOK /\ BoundedSteps /\ OneSave /\ TmpIsThisSave /\ CheckpointsWhole
      /\ NoneAhead /\ SavingNow /\ NewStandsBy /\ RetryNoted /\ PartsOfLast
  BY DEF TypeInv, SafetyInv, ReplaceInv
<1>1. CASE UNCHANGED vars
  BY <1>1, ReplaceFrame DEF Busy
<1>2. CASE Train \/ Resume
  <2>1. /\ \A w \in Writers : ~Busy(w)
        /\ UNCHANGED <<final, tmp, writer, saves, completed, replacing, retried>>
    BY <1>0, <1>2 DEF Train, Resume, SavingNow
  <2>2. checkpoint_steps' = checkpoint_steps /\ checkpoint_steps \subseteq Nat
    BY <2>1 DEF checkpoint_steps
  <2>3. \A s \in checkpoint_steps : s <= step'
    <3>1. CASE Train
      <4>1. step' \in Nat /\ step \in Nat /\ step' > step
        BY <1>0, <3>1 DEF Train, TypeOK
      <4> QED
        BY <1>0, <2>2, <4>1 DEF NoneAhead
    <3>2. CASE Resume
      BY <1>0, <3>2, LatestIsMaximum DEF Resume
    <3> QED
      BY <1>2, <3>1, <3>2
  <2>4. NoneAhead'
    BY <1>0, <2>1, <2>2, <2>3 DEF NoneAhead
  <2>5. NewStandsBy'
    <3>1. \A s \in replacing \ retried : completed[s] < WholeSave(tmp'[s])
      BY <1>0, <2>1 DEF NewStandsBy
    <3> QED
      BY <2>1, <3>1 DEF NewStandsBy
  <2> QED
    BY <1>0, <2>1, <2>4, <2>5
       DEF ReplaceInv, SavingNow, RetryNoted, PartsOfLast, Busy
<1>3. CASE Kill
  <2>1. /\ \A w \in Writers : writer'[w].at = "idle"
        /\ UNCHANGED <<final, tmp, step, saves, completed, replacing, retried>>
    BY <1>3 DEF Kill, Idle
  <2>2. NewStandsBy'
    <3>1. \A s \in replacing \ retried : completed[s] < WholeSave(tmp'[s])
      BY <1>0, <2>1 DEF NewStandsBy
    <3> QED
      BY <2>1, <3>1 DEF NewStandsBy
  <2> QED
    BY <1>0, <2>1, <2>2
       DEF ReplaceInv, NoneAhead, SavingNow, RetryNoted, PartsOfLast, Busy,
           checkpoint_steps
<1>4. ASSUME NEW w \in Writers, BeginSave(w) PROVE ReplaceInv'
  <2>1. /\ \A v \in Writers : ~Busy(v)
        /\ \A v \in Writers \ {w} : writer'[v] = writer[v]
        /\ writer'[w].step = step /\ writer'[w].save = saves + 1
        /\ up /\ saves' = saves + 1
        /\ saves \in Nat /\ step \in Steps
        /\ completed \in [Steps -> Nat]
        /\ retried' = retried \cup ({step} \cap replacing)
        /\ UNCHANGED <<final, tmp, step, up, completed, replacing>>
    BY <1>0, <1>4 DEF BeginSave, TypeOK
  <2>2. checkpoint_steps' = checkpoint_steps
    BY <2>1 DEF checkpoint_steps
  <2>3. \A s \in Steps : completed[s] <= saves + 1 /\ completed[s] < saves + 1
    BY <1>0, <2>1 DEF NoneAhead
  <2>4. NoneAhead'
    BY <1>0, <2>1, <2>2, <2>3 DEF NoneAhead
  <2>5. SavingNow'
    BY <2>1, <2>3 DEF SavingNow, Busy
  <2>6. NewStandsBy'
    <3>1. \A s \in replacing \ retried' : completed[s] < WholeSave(tmp'[s])
      BY <1>0, <2>1 DEF NewStandsBy
    <3> QED
      BY <2>1, <3>1 DEF NewStandsBy
  <2>7. RetryNoted'
    BY <2>1 DEF RetryNoted, Busy
  <2> QED
    BY <1>0, <2>1, <2>4, <2>5, <2>6, <2>7 DEF ReplaceInv, PartsOfLast
<1>5. ASSUME NEW w \in Writers, ClearTmp(w) PROVE ReplaceInv'
  BY <1>0, <1>5, FillingFrame DEF ClearTmp, Busy
<1>6. ASSUME NEW w \in Writers, MakeTmp(w) PROVE ReplaceInv'
  BY <1>0, <1>6, FillingFrame DEF MakeTmp, Goto, Busy
<1>7. ASSUME NEW w \in Writers, WriteFile(w) PROVE ReplaceInv'
  <2> DEFINE d == [tmp[writer[w].step] EXCEPT !.files[writer[w].at] = writer[w].save]
  <2>1. /\ Busy(w) /\ writer[w].at # "clear_final"
        /\ tmp' = [tmp EXCEPT ![writer[w].step] = d]
        /\ writer' = [writer EXCEPT ![w].at = NextStage(writer[w].at)]
        /\ UNCHANGED <<final, step, up, saves, completed, replacing, retried>>
    BY <1>7 DEF WriteFile, Goto, Busy, File
  <2> HIDE DEF d
  <2> QED
    BY <1>0, <2>1, FillingFrame
<1>8. ASSUME NEW w \in Writers, SaveError(w) PROVE ReplaceInv'
  <2>1. \A v \in Writers :
          \/ writer'[v].at = "idle"
          \/ Busy(v) /\ writer'[v] = writer[v]
    BY <1>0, <1>8 DEF SaveError, Idle, Busy, TypeOK
  <2> QED
    BY <1>8, <2>1, ReplaceFrame DEF SaveError
<1>9. ASSUME NEW w \in Writers, ClearFinal(w) PROVE ReplaceInv'
  <2> DEFINE s == writer[w].step
             c == writer[w].save
  <2>1. /\ Busy(w) /\ s \in Steps /\ writer[w].at = "clear_final"
        /\ final[s].there /\ final[s] \in Directory
        /\ \A t \in Steps \ {s} : final'[t] = final[t]
        /\ final'[s] \in Removals(final[s])
        /\ replacing' = replacing \cup {s}
        /\ UNCHANGED <<tmp, writer, step, up, saves, completed, retried>>
    BY <1>0, <1>9 DEF ClearFinal, TypeOK, Busy
  <2>2. checkpoint_steps' \subseteq checkpoint_steps
    BY <2>1 DEF checkpoint_steps
  <2>3. NoneAhead'
    BY <1>0, <2>1, <2>2 DEF NoneAhead
  <2>4. WholeSave(tmp[s]) = c
    <3>1. tmp[s] = Written(c) /\ c \in 0 .. MaxSaves
      BY <1>0, <2>1, TmpOfThisSave DEF TypeOK
    <3> QED
      BY <3>1, WrittenIsWhole
  <2>5. completed[s] < c
    BY <1>0, <2>1 DEF SavingNow
  <2>6. NewStandsBy'
    <3>1. \A t \in replacing' \ retried : completed[t] < WholeSave(tmp'[t])
      BY <1>0, <2>1, <2>4, <2>5 DEF NewStandsBy
    <3> QED
      BY <2>1, <3>1 DEF NewStandsBy
  <2>7. RetryNoted'
    <3>1. \A v \in Writers : Busy(v) => v = w
      BY <1>0, <2>1 DEF OneSave
    <3> QED
      BY <2>1, <3>1 DEF RetryNoted, Busy
  <2>8. PartsOfLast'
    <3>1. \A f \in File : final'[s].files[f] \in {0, final[s].files[f]}
      BY <2>1, RemovalsAreNotWhole
    <3> QED
      BY <1>0, <2>1, <3>1 DEF PartsOfLast
  <2> QED
    BY <1>0, <2>1, <2>3, <2>6, <2>7, <2>8 DEF ReplaceInv, SavingNow, Busy
<1>10. ASSUME NEW w \in Writers, Rename(w) PROVE ReplaceInv'
  <2> DEFINE s == writer[w].step
             c == writer[w].save
  <2>1. /\ Busy(w) /\ s \in Steps /\ writer[w].at = "clear_final"
        /\ c \in 0 .. MaxSaves
        /\ \A v \in Writers \ {w} : writer'[v] = writer[v]
        /\ writer'[w].at = "idle"
        /\ final'[s] = tmp[s]
        /\ \A t \in Steps \ {s} : final'[t] = final[t] /\ tmp'[t] = tmp[t]
        /\ completed' = [completed EXCEPT ![s] = c]
        /\ completed \in [Steps -> Nat] /\ saves \in Nat /\ step \in Nat
        /\ replacing' = replacing \ {s} /\ replacing \subseteq Steps
        /\ retried' = retried \ {s}
        /\ UNCHANGED <<step, up, saves>>
    BY <1>0, <1>10 DEF Rename, Idle, TypeOK, Busy
  <2>2. s = step /\ c = saves
    BY <1>0, <2>1 DEF SavingNow
  <2>3. checkpoint_steps' \subseteq checkpoint_steps \cup {s}
    BY <2>1 DEF checkpoint_steps
  <2>4. NoneAhead'
    BY <1>0, <2>1, <2>2, <2>3 DEF NoneAhead
  <2>5. \A v \in Writers : ~Busy(v)'
    BY <1>0, <2>1, OnlyThisSave DEF Busy
  <2>6. NewStandsBy'
    <3>1. \A t \in replacing' \ retried' : completed'[t] < WholeSave(tmp'[t])
      BY <1>0, <2>1 DEF NewStandsBy
    <3> QED
      BY <3>1 DEF NewStandsBy
  <2>7. PartsOfLast'
    <3>1. tmp[s] = Written(c)
      BY <1>0, <2>1, TmpOfThisSave
    <3>2. \A f \in File : tmp[s].files[f] = c
      BY <3>1 DEF Written
    <3> QED
      BY <1>0, <2>1, <3>2 DEF PartsOfLast
  <2> QED
    BY <2>4, <2>5, <2>6, <2>7 DEF ReplaceInv, SavingNow, RetryNoted
<1> QED
  BY <1>1, <1>2, <1>3, <1>4, <1>5, <1>6, <1>7, <1>8, <1>9, <1>10 DEF Next

LEMMA ReplaceInvariance ==
  ASSUME ~Overlap PROVE Spec => [](TypeInv /\ SafetyInv /\ ReplaceInv)
<1>1. TypeInv /\ SafetyInv /\ ReplaceInv /\ [Next]_vars => ReplaceInv'
  BY ReplaceNext
<1> QED
  BY <1>1, ReplaceInit, TypeInvariance, SafetyInvariance, PTL DEF Spec

(* Whatever kill or error breaks off a save, the last completed save of    *)
(* each step stands whole under the step's name, or the one that was about *)
(* to replace it in the temporary directory, until the step is saved once  *)
(* more (save_checkpoint).                                                 *)
THEOREM StaysRecoverableHolds ==
  ASSUME ~Overlap PROVE Spec => []StaysRecoverable
<1>1. ASSUME SafetyInv, ReplaceInv,
             NEW s \in Steps \ retried, completed[s] # 0
      PROVE  \/ final[s] = Written(completed[s])
             \/ WholeSave(tmp[s]) > completed[s]
  <2>1. CASE s \in replacing
    <3>1. completed[s] < WholeSave(tmp[s])
      BY <1>1, <2>1 DEF ReplaceInv, NewStandsBy
    <3> QED
      BY <3>1
  <2>2. CASE s \notin replacing
    BY <1>1, <2>2 DEF SafetyInv, CheckpointsWhole
  <2> QED
    BY <2>1, <2>2
<1>2. SafetyInv /\ ReplaceInv => StaysRecoverable
  BY <1>1 DEF StaysRecoverable
<1> QED
  BY <1>2, ReplaceInvariance, PTL

-----------------------------------------------------------------------------
(* The register.  Names for what the instance substitutes. *)
Stored == [s \in Steps |-> Slot(final[s])]
Waiting == [s \in Steps |-> WholeSave(tmp[s])]
Loaded == Slot(resumed)

RegisterInv == TypeInv /\ SafetyInv /\ ReplaceInv

(* What is in the way of a save that is running: nothing is of a later     *)
(* step, and all is older.                                                 *)
LEMMA SaveIsNewest ==
  ASSUME RegisterInv, NEW w \in Writers, Busy(w)
  PROVE  /\ writer[w].step \in Steps /\ writer[w].save \in 1 .. MaxSaves
         /\ \A t \in Steps : Stored[t].there => t <= writer[w].step
         /\ \A t \in Steps : Stored[t].save < writer[w].save
<1> DEFINE c == writer[w].save
<1>1. /\ writer[w].step \in Steps /\ writer[w].step = step
      /\ c \in 1 .. MaxSaves
  BY StoreAssumption
     DEF RegisterInv, TypeInv, TypeOK, SafetyInv, OneSave, ReplaceInv, SavingNow
<1>2. \A t \in Steps : Stored[t].there => t <= step
  BY DEF Stored, Slot, RegisterInv, ReplaceInv, NoneAhead, checkpoint_steps
<1>3. ASSUME NEW t \in Steps PROVE Stored[t].save < c
  <2>1. completed[t] < c /\ completed[t] \in Nat /\ final[t] \in Directory
    BY DEF RegisterInv, TypeInv, TypeOK, ReplaceInv, SavingNow
  <2>2. final[t].files["model"] \in {0, completed[t]}
    BY DEF RegisterInv, ReplaceInv, PartsOfLast, File
  <2>3. WholeSave(final[t]) \in {0, completed[t]}
    BY <2>2 DEF WholeSave
  <2>4. Stored[t].save = WholeSave(final[t])
    BY DEF Stored, Slot
  <2> QED
    BY <1>1, <2>1, <2>3, <2>4
<1> QED
  BY <1>1, <1>2, <1>3

(* Clearing the temporary directory, making it and writing all files but   *)
(* the last leave nothing ready.                                           *)
LEMMA FillingDiscards ==
  ASSUME RegisterInv, NEW s \in Steps, NEW d, WholeSave(d) = 0,
         tmp' = [tmp EXCEPT ![s] = d], UNCHANGED <<final, resumed>>
  PROVE  Register!Discard(s)
<1>1. Waiting' = [Waiting EXCEPT ![s] = 0]
  <2>1. tmp \in [Steps -> Directory]
    BY DEF RegisterInv, TypeInv, TypeOK
  <2>2. \A t \in Steps : WholeSave(tmp'[t]) = IF t = s THEN 0 ELSE WholeSave(tmp[t])
    BY <2>1
  <2>3. Waiting' = [t \in Steps |-> WholeSave(tmp'[t])]
    BY DEF Waiting
  <2> QED
    BY <2>2, <2>3 DEF Waiting
<1>2. UNCHANGED <<Stored, Loaded>>
  BY DEF Stored, Loaded
<1> QED
  BY <1>1, <1>2 DEF Register!Discard, Stored, Waiting, Loaded

LEMMA ClearTmpDiscards ==
  ASSUME RegisterInv, NEW w \in Writers, ClearTmp(w)
  PROVE  Register!Next
<1> DEFINE s == writer[w].step
<1>1. s \in Steps /\ tmp[s] \in Directory
  BY DEF RegisterInv, TypeInv, TypeOK
<1>2. PICK d \in Removals(tmp[s]) : tmp' = [tmp EXCEPT ![s] = d]
  BY DEF ClearTmp
<1>3. WholeSave(d) = 0
  BY <1>1, RemovalsAreNotWhole
<1> QED
  BY <1>1, <1>2, <1>3, FillingDiscards DEF ClearTmp, Register!Next

LEMMA MakeTmpDiscards ==
  ASSUME RegisterInv, NEW w \in Writers, MakeTmp(w)
  PROVE  Register!Next
<1>1. writer[w].step \in Steps
  BY DEF RegisterInv, TypeInv, TypeOK
<1> QED
  BY <1>1, NothingIsNotWhole, FillingDiscards DEF MakeTmp, Register!Next

(* The last file makes the save ready. *)
LEMMA WriteFilePrepares ==
  ASSUME RegisterInv, RegisterInv', NEW w \in Writers, WriteFile(w)
  PROVE  Register!Next
<1> DEFINE s == writer[w].step
           f == writer[w].at
           c == writer[w].save
           d == [tmp[s] EXCEPT !.files[f] = c]
<1>0. /\ TypeOK /\ tmp \in [Steps -> Directory]
      /\ TypeOK' /\ TmpIsThisSave'
  BY DEF RegisterInv, TypeInv, TypeOK, SafetyInv
<1>1. /\ Busy(w) /\ f \in File /\ s \in Steps
      /\ tmp' = [tmp EXCEPT ![s] = d]
      /\ tmp'[s] = d
      /\ writer'[w].at = NextStage(f) /\ writer'[w].step = s /\ writer'[w].save = c
      /\ UNCHANGED <<final, resumed>>
  BY <1>0 DEF WriteFile, Goto, Busy, File, TypeOK
<1> HIDE DEF d
<1>2. /\ NextStage(f) \in File => WholeSave(d) = 0
      /\ NextStage(f) = "clear_final" => d = Written(c)
  <2> DEFINE h == [g \in File |-> IF g \in WrittenSoFar(NextStage(f)) THEN c ELSE 0]
  <2>1. /\ NextStage(f) \in Stage /\ NextStage(f) \notin {"idle", "clear_tmp"}
        /\ c \in 0 .. MaxSaves /\ d \in Directory
    BY <1>0, <1>1, NextStageType DEF TypeOK
  <2>2. d = [there |-> TRUE, files |-> h]
    BY <1>0, <1>1, <2>1 DEF TmpIsThisSave
  <2> QED
    BY <2>1, <2>2, SaveSoFar
<1>3. CASE f # "config"
  <2>1. NextStage(f) \in File
    BY <1>1, <1>3, NextStageType DEF File
  <2> QED
    BY <1>1, <1>2, <2>1, FillingDiscards DEF Register!Next
<1>4. CASE f = "config"
  <2>1. NextStage(f) = "clear_final"
    BY <1>4, NextStageType
  <2>2. /\ c \in 1 .. MaxSaves
        /\ \A t \in Steps : Stored[t].there => t <= s
        /\ \A t \in Steps : Stored[t].save < c
    BY <1>1, SaveIsNewest
  <2>3. WholeSave(d) = c
    BY <1>2, <2>1, <2>2, WrittenIsWhole
  <2>4. Waiting' = [Waiting EXCEPT ![s] = c]
    <3>1. \A t \in Steps : WholeSave(tmp'[t]) = IF t = s THEN c ELSE WholeSave(tmp[t])
      BY <1>0, <1>1, <2>3
    <3>2. Waiting' = [t \in Steps |-> WholeSave(tmp'[t])]
      BY DEF Waiting
    <3> QED
      BY <3>1, <3>2 DEF Waiting
  <2>5. UNCHANGED <<Stored, Loaded>>
    BY <1>1 DEF Stored, Loaded
  <2>6. Register!Prepare(s, c)
    BY <2>2, <2>4, <2>5
       DEF Register!Prepare, Register!NoneAfter, Stored, Waiting, Loaded
  <2> QED
    BY <1>1, <2>2, <2>6 DEF Register!Next
<1> QED
  BY <1>3, <1>4

(* rmtree breaks the newest checkpoint, with the new save ready. *)
LEMMA ClearFinalBreaks ==
  ASSUME RegisterInv, NEW w \in Writers, ClearFinal(w)
  PROVE  Register!Next
<1> DEFINE s == writer[w].step
           c == writer[w].save
<1>0. /\ TypeOK /\ TmpIsThisSave /\ final \in [Steps -> Directory]
  BY DEF RegisterInv, TypeInv, TypeOK, SafetyInv
<1>1. /\ Busy(w) /\ writer[w].at = "clear_final" /\ s \in Steps
      /\ final[s].there /\ UNCHANGED <<tmp, resumed>>
  BY <1>0 DEF ClearFinal, Busy, TypeOK
<1>2. PICK d \in Removals(final[s]) : final' = [final EXCEPT ![s] = d]
  BY DEF ClearFinal
<1>3. /\ c \in 1 .. MaxSaves
      /\ \A t \in Steps : Stored[t].there => t <= s
      /\ \A t \in Steps : Stored[t].save < c
  BY <1>1, SaveIsNewest
<1>4. Waiting[s] = c
  <2>1. WholeSave(tmp[s]) = c
    BY <1>0, <1>1, <1>3, TmpOfThisSave, WrittenIsWhole
  <2> QED
    BY <1>1, <2>1 DEF Waiting
<1>5. Slot(d) \in {[there |-> TRUE, save |-> 0], [there |-> FALSE, save |-> 0]}
  <2>1. final[s] \in Directory
    BY <1>0, <1>1
  <2>2. WholeSave(d) = 0 /\ d \in Directory
    BY <2>1, RemovalsAreNotWhole
  <2>3. d.there \in BOOLEAN
    BY <2>2 DEF Directory
  <2> QED
    BY <2>2, <2>3 DEF Slot
<1>6. Stored' = [Stored EXCEPT ![s] = Slot(d)]
  <2>1. \A t \in Steps : Slot(final'[t]) = IF t = s THEN Slot(d) ELSE Slot(final[t])
    BY <1>0, <1>2
  <2>2. Stored' = [t \in Steps |-> Slot(final'[t])]
    BY DEF Stored
  <2> QED
    BY <2>1, <2>2 DEF Stored
<1>7. UNCHANGED <<Waiting, Loaded>>
  BY <1>1 DEF Waiting, Loaded
<1>8. Stored[s].there /\ Stored[s].save < Waiting[s]
  BY <1>1, <1>3, <1>4 DEF Stored, Slot
<1>9. Register!Break(s)
  BY <1>3, <1>5, <1>6, <1>7, <1>8
     DEF Register!Break, Register!NoneAfter, Register!Broken, Register!Nothing,
         Stored, Waiting, Loaded
<1> QED
  BY <1>1, <1>9 DEF Register!Next

(* The rename puts it in place. *)
LEMMA RenameCompletes ==
  ASSUME RegisterInv, NEW w \in Writers, Rename(w)
  PROVE  Register!Next
<1> DEFINE s == writer[w].step
           c == writer[w].save
<1>0. /\ TypeOK /\ TmpIsThisSave
      /\ final \in [Steps -> Directory] /\ tmp \in [Steps -> Directory]
  BY DEF RegisterInv, TypeInv, TypeOK, SafetyInv
<1>1. /\ Busy(w) /\ writer[w].at = "clear_final" /\ s \in Steps
      /\ ~final[s].there /\ tmp[s].there /\ UNCHANGED resumed
      /\ final' = [final EXCEPT ![s] = tmp[s]]
      /\ tmp' = [tmp EXCEPT ![s] = Gone]
  BY <1>0 DEF Rename, Busy, TypeOK
<1>2. /\ c \in 1 .. MaxSaves
      /\ \A t \in Steps : Stored[t].there => t <= s
      /\ \A t \in Steps : Stored[t].save < c
  BY <1>1, SaveIsNewest
<1>3. tmp[s] = Written(c) /\ WholeSave(tmp[s]) = c
  BY <1>0, <1>1, <1>2, TmpOfThisSave, WrittenIsWhole
<1>4. Waiting[s] = c
  BY <1>1, <1>3 DEF Waiting
<1>5. Stored' = [Stored EXCEPT ![s] = [there |-> TRUE, save |-> Waiting[s]]]
  <2>1. Slot(tmp[s]) = [there |-> TRUE, save |-> c]
    <3>1. tmp[s].there = TRUE
      BY <1>3 DEF Written
    <3> QED
      BY <1>3, <3>1 DEF Slot
  <2>2. \A t \in Steps :
          Slot(final'[t]) = IF t = s THEN [there |-> TRUE, save |-> c]
                            ELSE Slot(final[t])
    BY <1>0, <1>1, <2>1
  <2>3. Stored' = [t \in Steps |-> Slot(final'[t])]
    BY DEF Stored
  <2> QED
    BY <1>4, <2>2, <2>3 DEF Stored
<1>6. Waiting' = [Waiting EXCEPT ![s] = 0]
  <2>1. \A t \in Steps : WholeSave(tmp'[t]) = IF t = s THEN 0 ELSE WholeSave(tmp[t])
    BY <1>0, <1>1, NothingIsNotWhole
  <2>2. Waiting' = [t \in Steps |-> WholeSave(tmp'[t])]
    BY DEF Waiting
  <2> QED
    BY <2>1, <2>2 DEF Waiting
<1>7. UNCHANGED Loaded
  BY <1>1 DEF Loaded
<1>8. ~Stored[s].there /\ \A t \in Steps : Stored[t].save < Waiting[s]
  BY <1>1, <1>2, <1>4 DEF Stored, Slot
<1>9. Register!Complete(s)
  BY <1>2, <1>5, <1>6, <1>7, <1>8
     DEF Register!Complete, Register!NoneAfter, Stored, Waiting, Loaded
<1> QED
  BY <1>1, <1>9 DEF Register!Next

(* A start with --resume reads the newest. *)
LEMMA ResumeReads ==
  ASSUME RegisterInv, Resume
  PROVE  Register!Next
<1>1. /\ Latest \in checkpoint_steps
      /\ \A t \in checkpoint_steps : t <= Latest
  BY LatestIsMaximum DEF RegisterInv, TypeInv, Resume
<1>2. Latest \in Steps /\ final[Latest].there
  BY <1>1 DEF checkpoint_steps
<1>3. /\ Stored[Latest].there
      /\ \A t \in Steps : Stored[t].there => t <= Latest
  BY <1>1, <1>2 DEF Stored, Slot, checkpoint_steps
<1>4. Loaded' = Stored[Latest] /\ UNCHANGED <<Stored, Waiting>>
  BY <1>2 DEF Resume, Loaded, Stored, Waiting
<1>5. \E s \in Steps :
        /\ Stored[s].there /\ \A t \in Steps : Stored[t].there => t <= s
        /\ Loaded' = Stored[s] /\ UNCHANGED <<Stored, Waiting>>
  BY <1>2, <1>3, <1>4
<1>6. \E s \in Steps : Register!Resume(s)
  BY <1>5 DEF Register!Resume, Register!NoneAfter, Stored, Waiting, Loaded
<1> QED
  BY <1>6 DEF Register!Next

LEMMA RegisterStep ==
  ASSUME [Next]_vars, RegisterInv, RegisterInv'
  PROVE  [Register!Next]_(Register!vars)
<1>1. CASE \/ Train \/ Kill \/ UNCHANGED vars
           \/ \E w \in Writers : BeginSave(w) \/ SaveError(w)
  <2>1. UNCHANGED <<final, tmp, resumed>>
    BY <1>1 DEF Train, Kill, BeginSave, SaveError
  <2>2. UNCHANGED <<Stored, Waiting, Loaded>>
    BY <2>1 DEF Stored, Waiting, Loaded
  <2> QED
    BY <2>2 DEF Register!vars, Stored, Waiting, Loaded
<1>2. CASE Resume
  BY <1>2, ResumeReads
<1>3. ASSUME NEW w \in Writers,
             ClearTmp(w) \/ MakeTmp(w) \/ WriteFile(w) \/ ClearFinal(w) \/ Rename(w)
      PROVE  Register!Next
  BY <1>3, ClearTmpDiscards, MakeTmpDiscards, WriteFilePrepares,
     ClearFinalBreaks, RenameCompletes
<1> QED
  BY <1>1, <1>2, <1>3 DEF Next

(* Killed and failing saves included, and saves that replace a checkpoint: *)
(* a checkpoint appears whole and at the newest step, the newest one only  *)
(* is ever taken away, for a newer save that is ready, and it is the       *)
(* newest that a resuming run reads (CheckpointManager).                   *)
THEOREM ImplementsRegister ==
  ASSUME ~Overlap PROVE Spec => RegisterSpec
<1>1. Init => Register!Init
  <2> SUFFICES ASSUME Init PROVE Register!Init
    OBVIOUS
  <2>1. /\ \A s \in Steps : final[s] = Gone /\ tmp[s] = Gone
        /\ resumed = Gone
    BY DEF Init
  <2>2. Slot(Gone) = [there |-> FALSE, save |-> 0] /\ WholeSave(Gone) = 0
    BY NothingIsNotWhole, DirectoryTypes DEF Slot
  <2> QED
    BY <2>1, <2>2 DEF Register!Init, Register!Nothing
<1>2. [Next]_vars /\ RegisterInv /\ RegisterInv' => [Register!Next]_(Register!vars)
  BY RegisterStep
<1>3. TypeInv /\ SafetyInv /\ ReplaceInv <=> RegisterInv
  BY DEF RegisterInv
<1> QED
  BY <1>1, <1>2, <1>3, ReplaceInvariance, PTL
     DEF Spec, RegisterSpec, Register!Spec

=============================================================================
