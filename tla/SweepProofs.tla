---------------------------- MODULE SweepProofs ----------------------------
(***************************************************************************)
(* Proofs about Sweep, for every matrix and any number of interruptions:   *)
(* its types; that there is one verdict per cell; and that the matrix says *)
(* ok only of what was completed.                                          *)
(***************************************************************************)
EXTENDS Sweep, NumberLemmas, SequenceTheorems, TLAPS

USE DEF vars, diskVars

-----------------------------------------------------------------------------
(* The cell at hand is one of those left. *)
LEMMA CurrentIsPending ==
  ASSUME pending \subseteq DOMAIN Matrix, pending # {}
  PROVE  /\ current \in pending
         /\ cell \in Cells
<1>1. pending \in SUBSET Nat
  BY SweepAssumption
<1>2. current \in pending
  BY <1>1, SmallestNumber DEF current
<1> QED
  BY <1>2 DEF cell, Cells

(* While a cell is run it is among those left, its client runs only once   *)
(* the server is up, and has ended when the outcome is taken.              *)
Busy ==
  /\ pc \in {"waiting", "client", "stopped"} => pending # {}
  /\ pc \notin {"waiting", "client"} => server = "none"
  /\ pc \notin {"client", "stopped"} => client = "none"
  /\ pc = "stopped" => client \in {"none"} \cup ClientEnds
TypeInv == TypeOK /\ Busy

LEMMA InitTypes == Init => TypeInv
BY SweepAssumption, EmptySeq DEF Init, TypeInv, TypeOK, Busy, Cells

LEMMA ClassifyType ==
  ASSUME NEW how \in ClientEnds, NEW episodes
  PROVE  classify(how, episodes) \in Outcomes
BY DEF ClientEnds, classify, Outcomes

LEMMA VerdictsType ==
  ASSUME client \in {"none"} \cup ClientEnds
  PROVE  Verdicts \subseteq Outcomes
<1>1. CASE client = "none"
  BY <1>1 DEF Verdicts, Outcomes
<1>2. CASE client # "none" /\ Found = {}
  BY <1>2, ClassifyType DEF Verdicts
<1>3. CASE client # "none" /\ Found # {}
  <2>1. \A s \in Found : classify(client, episodes_completed(s)) \in Outcomes
    BY <1>3, ClassifyType
  <2> QED
    BY <1>3, <2>1 DEF Verdicts
<1> QED
  BY <1>1, <1>2, <1>3

LEMMA StepTypes ==
  ASSUME TypeInv, [Next]_vars
  PROVE  TypeInv'
<1> USE DEF TypeInv, TypeOK, Busy
<1>0. pending # {} => current \in pending /\ cell \in Cells
  BY CurrentIsPending
<1>1. CASE StartSweep
  BY <1>1 DEF StartSweep, remaining
<1>2. ASSUME NEW resume \in BOOLEAN, StartAgain(resume) PROVE TypeInv'
  <2>1. results' \in Seq([cell : Cells, outcome : Outcomes])
    BY <1>2, EmptySeq DEF StartAgain
  <2>2. stops' \in 0 .. MaxStops
    BY <1>2, SweepAssumption DEF StartAgain
  <2> QED
    BY <1>2, <2>1, <2>2 DEF StartAgain, remaining
<1>3. CASE StartCell
  <2>1. completed' \subseteq Cells
    BY <1>3 DEF StartCell
  <2> QED
    BY <1>0, <1>3, <2>1 DEF StartCell
<1>4. CASE ServerReady \/ ServerDied \/ ServerTimeout \/ StopServer \/ Finish
  BY <1>4 DEF ServerReady, ServerDied, ServerTimeout, StopServer, Finish
<1>5. CASE ClientTimeout \/ ServerFails
  BY <1>5 DEF ClientTimeout, ServerFails, ClientEnds
<1>6. CASE AppendResult
  <2>1. PICK v \in Verdicts : results' = Append(results, [cell |-> cell, outcome |-> v])
    BY <1>6 DEF AppendResult
  <2>2. v \in Outcomes /\ cell \in Cells
    BY <1>0, <1>6, VerdictsType DEF AppendResult
  <2>3. results' \in Seq([cell : Cells, outcome : Outcomes])
    BY <2>1, <2>2, AppendProperties
  <2> QED
    BY <1>6, <2>3 DEF AppendResult
<1>7. CASE ServerListens
  <2>1. marked' \in [Cells -> BOOLEAN]
    BY <1>7 DEF ServerListens
  <2> QED
    BY <1>7, <2>1 DEF ServerListens
<1>8. ASSUME NEW full \in BOOLEAN, ClientSummary(full) PROVE TypeInv'
  <2>1. pc = "client" /\ cell \in Cells
    BY <1>0, <1>8 DEF ClientSummary, ClientEnds
  <2>2. [cell |-> cell, full |-> full] \in [cell : Cells, full : BOOLEAN]
    BY <2>1
  <2>3. summaries' \subseteq [cell : Cells, full : BOOLEAN] /\ completed' \subseteq Cells
    BY <1>8, <2>1, <2>2 DEF ClientSummary
  <2> QED
    BY <1>8, <2>1, <2>3 DEF ClientSummary
<1>9. ASSUME NEW how \in {"exit0", "unavailable", "failed"}, ClientExit(how) PROVE TypeInv'
  BY <1>9 DEF ClientExit, ClientEnds
<1>10. CASE Interrupt
  BY <1>10, SweepAssumption DEF Interrupt
<1>11. CASE Kill
  <2>1. server # "none" => pending # {}
    OBVIOUS
  <2>2. Survivors \subseteq [process : {"server", "client"}, cell : Cells]
    BY <1>0, <2>1 DEF Survivors
  <2>3. orphans' \subseteq [process : {"server", "client"}, cell : Cells]
    BY <1>11, <2>2 DEF Kill
  <2> QED
    BY <1>11, <2>3, SweepAssumption DEF Kill
<1>12. ASSUME NEW o \in orphans, OrphanListens(o) PROVE TypeInv'
  BY <1>12 DEF OrphanListens
<1>13. ASSUME NEW o \in orphans, NEW full \in BOOLEAN, OrphanSummary(o, full) PROVE TypeInv'
  <2>1. o.cell \in Cells
    BY <1>13
  <2>2. [cell |-> o.cell, full |-> full] \in [cell : Cells, full : BOOLEAN]
    BY <2>1
  <2>3. summaries' \subseteq [cell : Cells, full : BOOLEAN]
    BY <1>13, <2>1, <2>2 DEF OrphanSummary
  <2> QED
    BY <1>13, <2>3 DEF OrphanSummary
<1>14. CASE UNCHANGED vars
  BY <1>14
<1> QED
  BY <1>1, <1>2, <1>3, <1>4, <1>5, <1>6, <1>7, <1>8, <1>9, <1>10, <1>11, <1>12, <1>13, <1>14
  DEF Next, HarnessStep, ProcessStep, Operator

(* Whatever becomes of the processes and the sweep, every variable keeps   *)
(* its type (run_sweep, run_cell).                                         *)
THEOREM SweepTypeCorrectness == Spec => []TypeOK
<1>1. TypeInv => TypeOK
  BY DEF TypeInv
<1> QED
  BY InitTypes, StepTypes, <1>1, PTL DEF Spec

-----------------------------------------------------------------------------
(* One verdict per cell.  The inductive invariant says of the cells left   *)
(* that none of them has a line yet; as they are different cells, it stays *)
(* true of the others when one of them gets its line.                      *)
PendingOpen == \A i \in pending : Matrix[i] \notin already_done(results)
VerdictInv == TypeInv /\ PendingOpen /\ OneVerdictPerCell

LEMMA InitVerdicts == Init => VerdictInv
BY InitTypes DEF Init, VerdictInv, PendingOpen, OneVerdictPerCell

LEMMA LineAdded ==
  ASSUME VerdictInv, pending # {}, NEW v \in Outcomes,
         results' = Append(results, [cell |-> cell, outcome |-> v]),
         pending' = pending \ {current}
  PROVE  PendingOpen' /\ OneVerdictPerCell'
<1> DEFINE n == Len(results)
<1>0. /\ TypeOK /\ PendingOpen /\ OneVerdictPerCell
      /\ pending \subseteq DOMAIN Matrix
      /\ results \in Seq([cell : Cells, outcome : Outcomes])
  BY DEF VerdictInv, TypeInv, TypeOK
<1>1. current \in pending /\ cell = Matrix[current] /\ cell \in Cells
  BY <1>0, CurrentIsPending DEF cell
<1>2. /\ n \in Nat /\ DOMAIN results = 1 .. n /\ DOMAIN results' = 1 .. n + 1
      /\ \A i \in 1 .. n : results'[i] = results[i]
      /\ results'[n + 1] = [cell |-> cell, outcome |-> v]
  <2>1. [cell |-> cell, outcome |-> v] \in [cell : Cells, outcome : Outcomes]
    BY <1>1
  <2> QED
    BY <1>0, <2>1, AppendProperties, LenProperties
<1>3. \A i \in 1 .. n : results[i].cell # cell
  BY <1>0, <1>1, <1>2 DEF PendingOpen, already_done
<1>4. results'[n + 1].cell = cell
  BY <1>2
<1> HIDE DEF n
<1>5. OneVerdictPerCell'
  <2> SUFFICES ASSUME NEW i \in 1 .. n + 1, NEW j \in 1 .. n + 1,
                      results'[i].cell = results'[j].cell
               PROVE  i = j
    BY <1>2 DEF OneVerdictPerCell
  <2>1. CASE i = n + 1 \/ j = n + 1
    BY <1>2, <1>3, <1>4, <2>1
  <2>2. CASE i \in 1 .. n /\ j \in 1 .. n
    BY <1>0, <1>2, <2>2 DEF OneVerdictPerCell
  <2> QED
    BY <1>2, <2>1, <2>2
<1>6. PendingOpen'
  <2> SUFFICES ASSUME NEW i \in pending', NEW k \in 1 .. n + 1
               PROVE  Matrix[i] # results'[k].cell
    BY <1>2 DEF PendingOpen, already_done
  <2>1. i \in pending /\ i # current
    OBVIOUS
  <2>2. Matrix[i] # cell
    BY <1>0, <1>1, <2>1, SweepAssumption
  <2>3. CASE k = n + 1
    BY <1>4, <2>2, <2>3
  <2>4. CASE k \in 1 .. n
    BY <1>0, <1>2, <2>1, <2>4 DEF PendingOpen, already_done
  <2> QED
    BY <1>2, <2>3, <2>4
<1> QED
  BY <1>5, <1>6

LEMMA StepVerdicts ==
  ASSUME VerdictInv, [Next]_vars
  PROVE  VerdictInv'
<1>0. TypeInv /\ TypeInv' /\ PendingOpen /\ OneVerdictPerCell
  BY StepTypes DEF VerdictInv
<1>1. CASE StartSweep
  BY <1>0, <1>1 DEF StartSweep, remaining, VerdictInv, PendingOpen, OneVerdictPerCell
<1>2. ASSUME NEW resume \in BOOLEAN, StartAgain(resume) PROVE VerdictInv'
  <2>1. PendingOpen'
    BY <1>2 DEF StartAgain, remaining, PendingOpen
  <2>2. OneVerdictPerCell'
    BY <1>0, <1>2 DEF StartAgain, OneVerdictPerCell
  <2> QED
    BY <1>0, <2>1, <2>2 DEF VerdictInv
<1>3. CASE AppendResult
  <2>1. PICK v \in Verdicts : results' = Append(results, [cell |-> cell, outcome |-> v])
    BY <1>3 DEF AppendResult
  <2>2. v \in Outcomes /\ pending # {} /\ pending' = pending \ {current}
    BY <1>0, <1>3, VerdictsType DEF AppendResult, TypeInv, Busy
  <2> QED
    BY <1>0, <2>1, <2>2, LineAdded DEF VerdictInv
<1>4. CASE Interrupt \/ Kill
  BY <1>0, <1>4 DEF Interrupt, Kill, VerdictInv, PendingOpen, OneVerdictPerCell
<1>5. CASE UNCHANGED <<results, pending>>
  BY <1>0, <1>5 DEF VerdictInv, PendingOpen, OneVerdictPerCell
<1>6. CASE ProcessStep
  BY <1>5, <1>6 DEF ProcessStep, ServerListens, ServerFails, ClientSummary, ClientExit,
                    OrphanListens, OrphanSummary
<1>7. CASE StartCell \/ ServerReady \/ ServerDied \/ ServerTimeout \/ ClientTimeout
           \/ StopServer \/ Finish
  BY <1>5, <1>7 DEF StartCell, ServerReady, ServerDied, ServerTimeout, ClientTimeout,
                    StopServer, Finish
<1> QED
  BY <1>1, <1>2, <1>3, <1>4, <1>5, <1>6, <1>7 DEF Next, HarnessStep, Operator

(* A sweep that is interrupted, killed and run again any number of times   *)
(* never writes two lines for a cell (already_done, run_sweep).            *)
THEOREM OneVerdictPerCellHolds == Spec => []OneVerdictPerCell
<1>1. VerdictInv => OneVerdictPerCell
  BY DEF VerdictInv
<1> QED
  BY InitVerdicts, StepVerdicts, <1>1, PTL DEF Spec

-----------------------------------------------------------------------------
(* Ok means that a client has completed the cell: only a full summary      *)
(* makes a cell ok, and none is ever removed.                              *)
OkHasSummary ==
  \A i \in DOMAIN results :
    results[i].outcome = "ok" => CompletedOnce(results[i].cell)
SummaryInv == TypeInv /\ OkHasSummary

LEMMA InitSummaries == Init => SummaryInv
BY InitTypes DEF Init, SummaryInv, OkHasSummary

LEMMA OkNeedsSummary ==
  ASSUME TypeInv, pc = "stopped", "ok" \in Verdicts
  PROVE  CompletedOnce(cell)
<1>1. client \in {"none"} \cup ClientEnds
  BY DEF TypeInv, Busy
<1>2. client # "none"
  BY DEF Verdicts
<1>3. Found # {}
  BY <1>1, <1>2 DEF Verdicts, classify, ClientEnds
<1>4. PICK s \in Found : classify(client, episodes_completed(s)) = "ok"
  BY <1>2, <1>3 DEF Verdicts
<1>5. s.full
  BY <1>1, <1>2, <1>4 DEF classify, episodes_completed, ClientEnds
<1>6. s \in summaries /\ s.cell = cell /\ s \in [cell : Cells, full : BOOLEAN]
  BY <1>4 DEF Found, TypeInv, TypeOK
<1>7. s = [cell |-> cell, full |-> TRUE]
  BY <1>5, <1>6
<1> QED
  BY <1>6, <1>7 DEF CompletedOnce

LEMMA StepSummaries ==
  ASSUME SummaryInv, [Next]_vars
  PROVE  SummaryInv'
<1>0. /\ TypeInv /\ TypeInv' /\ OkHasSummary
      /\ results \in Seq([cell : Cells, outcome : Outcomes])
  BY StepTypes DEF SummaryInv, TypeInv, TypeOK
<1>1. CASE AppendResult
  <2>1. PICK v \in Verdicts : results' = Append(results, [cell |-> cell, outcome |-> v])
    BY <1>1 DEF AppendResult
  <2>2. v = "ok" => CompletedOnce(cell)
    BY <1>0, <1>1, OkNeedsSummary DEF AppendResult
  <2>3. [cell |-> cell, outcome |-> v] \in [cell : Cells, outcome : Outcomes]
    BY <1>0, <1>1, VerdictsType, CurrentIsPending DEF AppendResult, TypeInv, TypeOK, Busy
  <2>4. \A i \in DOMAIN results' :
          \/ i \in DOMAIN results /\ results'[i] = results[i]
          \/ results'[i] = [cell |-> cell, outcome |-> v]
    BY <1>0, <2>1, <2>3, AppendProperties, LenProperties
  <2>5. OkHasSummary'
    <3> SUFFICES ASSUME NEW i \in DOMAIN results', results'[i].outcome = "ok"
                 PROVE  [cell |-> results'[i].cell, full |-> TRUE] \in summaries
      BY <1>1 DEF AppendResult, OkHasSummary, CompletedOnce
    <3>1. CASE i \in DOMAIN results /\ results'[i] = results[i]
      BY <1>0, <3>1 DEF OkHasSummary, CompletedOnce
    <3>2. CASE results'[i] = [cell |-> cell, outcome |-> v]
      BY <2>2, <3>2 DEF CompletedOnce
    <3> QED
      BY <2>4, <3>1, <3>2
  <2> QED
    BY <1>0, <2>5 DEF SummaryInv
<1>2. ASSUME NEW resume \in BOOLEAN, StartAgain(resume) PROVE SummaryInv'
  BY <1>0, <1>2 DEF StartAgain, SummaryInv, OkHasSummary, CompletedOnce
<1>3. CASE results' = results /\ summaries \subseteq summaries'
  BY <1>0, <1>3 DEF SummaryInv, OkHasSummary, CompletedOnce
<1>4. CASE ProcessStep
  BY <1>3, <1>4 DEF ProcessStep, ServerListens, ServerFails, ClientSummary, ClientExit,
                    OrphanListens, OrphanSummary
<1>5. CASE \/ StartSweep \/ StartCell \/ ServerReady \/ ServerDied \/ ServerTimeout
           \/ ClientTimeout \/ StopServer \/ Finish \/ Interrupt \/ Kill \/ UNCHANGED vars
  BY <1>3, <1>5 DEF StartSweep, StartCell, ServerReady, ServerDied, ServerTimeout,
                    ClientTimeout, StopServer, Finish, Interrupt, Kill
<1> QED
  BY <1>1, <1>2, <1>4, <1>5 DEF Next, HarnessStep, Operator

(* What the matrix calls ok: no seed that says otherwise, and one that is  *)
(* ok itself.                                                              *)
LEMMA OkCombination ==
  ASSUME SummaryInv, NEW combo, combine_seeds(Seen(combo)) = "ok"
  PROVE  /\ \A i \in Seeds(combo) :
              \/ results[i].outcome = "unavailable"
              \/ results[i].outcome = "ok" /\ CompletedOnce(results[i].cell)
         /\ \E i \in Seeds(combo) : results[i].outcome = "ok"
<1>0. /\ \A i \in DOMAIN results : results[i].outcome \in Outcomes
      /\ OkHasSummary
  <2>1. results \in Seq([cell : Cells, outcome : Outcomes]) /\ OkHasSummary
    BY DEF SummaryInv, TypeInv, TypeOK
  <2>2. \A i \in DOMAIN results : results[i] \in [cell : Cells, outcome : Outcomes]
    BY <2>1, ElementOfSeq, LenProperties
  <2> QED
    BY <2>1, <2>2
<1>1. /\ "failed" \notin Seen(combo) /\ "timeout" \notin Seen(combo)
      /\ "incomplete" \notin Seen(combo) /\ ~(Seen(combo) \subseteq {"unavailable"})
  BY DEF combine_seeds
<1>2. \A i \in Seeds(combo) : i \in DOMAIN results /\ results[i].outcome \in Seen(combo)
  BY DEF Seen, Seeds
<1>3. \A i \in Seeds(combo) : results[i].outcome \in {"ok", "unavailable"}
  BY <1>0, <1>1, <1>2 DEF Outcomes
<1>4. \E i \in Seeds(combo) : results[i].outcome # "unavailable"
  BY <1>1 DEF Seen, Seeds
<1> QED
  BY <1>0, <1>2, <1>3, <1>4 DEF OkHasSummary

(* A combination that reads ok in the matrix has no seed that failed, hung *)
(* or fell short: each was unavailable or ok, with the summary of a client *)
(* that completed it in some attempt, and one of them at least is ok       *)
(* (find_client_summary, classify, combine_seeds).                         *)
THEOREM MatrixHonestHolds == Spec => []MatrixHonest
<1>1. SummaryInv => MatrixHonest
  BY OkCombination DEF MatrixHonest
<1> QED
  BY InitSummaries, StepSummaries, <1>1, PTL DEF Spec

=============================================================================
