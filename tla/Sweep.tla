-------------------------------- MODULE Sweep -------------------------------
(***************************************************************************)
(* The sweep harness: it runs the cells of a matrix one after another,     *)
(* each as a server process and a client process, classifies what          *)
(* happened, appends a line to results.jsonl, and folds the seeds of a     *)
(* combination into one verdict.  A sweep can be interrupted or killed at  *)
(* any point and is then run again over the same directory; a kill leaves  *)
(* the two processes behind.                                               *)
(***************************************************************************)
EXTENDS Naturals, Sequences

CONSTANTS
  Matrix,        \* the cells in the order build_matrix gives: [combo, seed]
  MaxStops       \* bound: interruptions, kills and repeated sweeps together

ASSUME SweepAssumption ==
  /\ Len(Matrix) \in Nat /\ DOMAIN Matrix = 1 .. Len(Matrix)
  /\ \A i, j \in DOMAIN Matrix : Matrix[i] = Matrix[j] => i = j
  /\ MaxStops \in Nat

Cells == {Matrix[i] : i \in DOMAIN Matrix}
Outcomes == {"ok", "unavailable", "failed", "timeout", "incomplete"}

VARIABLES
  results,       \* results.jsonl
  marked,        \* does the cell's server.log hold the ready marker?
  summaries,     \* the summary.json files under the cell's directory
  pc,            \* where run_sweep is
  pending,       \* the positions in Matrix of the cells left to run
  server,        \* the server process of the current cell
  client,        \* the client process of the current cell, or how it ended
  orphans,       \* processes a killed sweep has left behind
  stops,         \* bound
  completed      \* history: cells of which the client of the latest attempt
                 \* has finished its episodes

diskVars == <<results, marked, summaries>>
vars == <<diskVars, pc, pending, server, client, orphans, stops, completed>>

ClientEnds == {"exit0", "unavailable", "failed", "timeout"}

TypeOK ==
  /\ results \in Seq([cell : Cells, outcome : Outcomes])
  /\ marked \in [Cells -> BOOLEAN]
  /\ summaries \subseteq [cell : Cells, full : BOOLEAN]
  /\ pc \in {"off", "next", "waiting", "client", "stopped", "finished"}
  /\ pending \subseteq DOMAIN Matrix
  /\ server \in {"none", "starting", "up", "dead"}
  /\ client \in {"none", "running", "done"} \cup ClientEnds
  /\ orphans \subseteq [process : {"server", "client"}, cell : Cells]
  /\ stops \in 0 .. MaxStops
  /\ completed \subseteq Cells

Init ==
  /\ results = <<>> /\ marked = [c \in Cells |-> FALSE] /\ summaries = {}
  /\ pc = "off" /\ pending = {} /\ server = "none" /\ client = "none"
  /\ orphans = {} /\ stops = 0
  /\ completed = {}

(* The loop takes them in the order of the matrix. *)
current == CHOOSE i \in pending : \A j \in pending : i <= j
cell == Matrix[current]

-----------------------------------------------------------------------------
already_done_if_ok(lines) ==                                            \* mutant
  {lines[i].cell : i \in {j \in DOMAIN lines : lines[j].outcome = "ok"}}
already_done(lines) == {lines[i].cell : i \in DOMAIN lines}
remaining(lines) == {i \in DOMAIN Matrix : Matrix[i] \notin already_done(lines)}

StartSweep ==
  /\ pc = "off"
  /\ pc' = "next"
  /\ pending' = remaining(results)
  /\ UNCHANGED <<diskVars, server, client, orphans, stops, completed>>

(* The sweep is run once more, or with --no-resume, which unlinks the      *)
(* results but not what the cells have left in their directories.          *)
StartAgain(resume) ==
  /\ pc = "finished"
  /\ stops < MaxStops
  /\ stops' = stops + 1
  /\ pc' = "next"
  /\ results' = IF resume THEN results ELSE <<>>
  /\ pending' = remaining(results')
  /\ UNCHANGED <<marked, summaries, server, client, orphans, completed>>

(* The cell's directory is there already if it was started before; only    *)
(* server.log and client.log are opened anew.                              *)
StartCell ==
  /\ pc = "next"
  /\ pending # {}
  /\ marked' = [marked EXCEPT ![cell] = FALSE]
  /\ server' = "starting"
  /\ pc' = "waiting"
  /\ completed' = completed \ {cell}
  /\ UNCHANGED <<results, summaries, pending, client, orphans, stops>>

ServerListens ==
  /\ server = "starting"
  /\ server' = "up"
  /\ marked' = [marked EXCEPT ![cell] = TRUE]
  /\ UNCHANGED <<results, summaries, pc, pending, client, orphans, stops, completed>>

(* Its own failure, or somebody else has bound the port since free_port.   *)
ServerFails ==
  /\ server \in {"starting", "up"}
  /\ server' = "dead"
  /\ UNCHANGED <<diskVars, pc, pending, client, orphans, stops, completed>>

(* wait_for_server: a dead process is seen before its log is read.         *)
ServerReady ==
  /\ pc = "waiting"
  /\ server # "dead"
  /\ marked[cell]
  /\ client' = "running"
  /\ pc' = "client"
  /\ UNCHANGED <<diskVars, pending, server, orphans, stops, completed>>

ServerDied ==
  /\ pc = "waiting"
  /\ server = "dead"
  /\ server' = "none"
  /\ pc' = "stopped"
  /\ UNCHANGED <<diskVars, pending, client, orphans, stops, completed>>

(* A server that stays silent for server_start_timeout is held against the *)
(* combination, too.                                                       *)
ServerTimeout_never == FALSE /\ UNCHANGED vars                         \* mutant
ServerTimeout ==
  /\ pc = "waiting"
  /\ server = "starting"
  /\ ~marked[cell]
  /\ server' = "none"
  /\ pc' = "stopped"
  /\ UNCHANGED <<diskVars, pending, client, orphans, stops, completed>>

(* The client: it writes its summary and ends, by itself or by force.      *)
ClientSummary(full) ==
  /\ client = "running"
  /\ server = "up"
  /\ client' = "done"
  /\ summaries' = summaries \cup {[cell |-> cell, full |-> full]}
  /\ completed' = IF full THEN completed \cup {cell} ELSE completed
  /\ UNCHANGED <<results, marked, pc, pending, server, orphans, stops>>

ClientExit(how) ==
  /\ client \in {"running", "done"}
  /\ how \in {"exit0", "unavailable"} => server # "starting"
  /\ client' = how
  /\ UNCHANGED <<diskVars, pc, pending, server, orphans, stops, completed>>

ClientTimeout ==
  /\ client \in {"running", "done"}
  /\ client' = "timeout"
  /\ UNCHANGED <<diskVars, pc, pending, server, orphans, stops, completed>>

StopServer ==
  /\ pc = "client"
  /\ client \in ClientEnds
  /\ server' = "none"
  /\ pc' = "stopped"
  /\ UNCHANGED <<diskVars, pending, client, orphans, stops, completed>>

(* find_client_summary takes the first file it finds under the directory,  *)
(* and their names say nothing: any of them, if there is one.              *)
Found == {s \in summaries : s.cell = cell}
episodes_completed(s) == IF s.full THEN "all" ELSE "some"

classify_by_exit_code(how, episodes) ==                                 \* mutant
  IF how = "exit0" THEN "ok" ELSE how
classify(how, episodes) ==
  IF how = "exit0" THEN IF episodes = "all" THEN "ok" ELSE "incomplete"
  ELSE how

Verdicts ==
  IF client = "none" THEN {"failed"}                   \* server did not start
  ELSE IF Found = {} THEN {classify(client, "none")}
  ELSE {classify(client, episodes_completed(s)) : s \in Found}

AppendResult ==
  /\ pc = "stopped"
  /\ \E v \in Verdicts :
       results' = Append(results, [cell |-> cell, outcome |-> v])
  /\ client' = "none"
  /\ pending' = pending \ {current}
  /\ pc' = "next"
  /\ UNCHANGED <<marked, summaries, server, orphans, stops, completed>>

Finish ==
  /\ pc = "next"
  /\ pending = {}
  /\ pc' = "finished"
  /\ UNCHANGED <<diskVars, pending, server, client, orphans, stops, completed>>

(* Ctrl-C: the client gets the signal as well and the finally clause stops *)
(* the server.                                                             *)
Interrupt ==
  /\ pc \in {"next", "waiting", "client", "stopped"}
  /\ stops < MaxStops
  /\ stops' = stops + 1
  /\ pc' = "off" /\ server' = "none" /\ client' = "none" /\ pending' = {}
  /\ UNCHANGED <<diskVars, orphans, completed>>

(* What a killed sweep leaves behind that still writes something.          *)
Survivors ==
  IF server = "starting" THEN {[process |-> "server", cell |-> cell]}
  ELSE IF server = "up" /\ client = "running" THEN {[process |-> "client", cell |-> cell]}
  ELSE {}

(* SIGKILL: nothing is cleaned up, the two processes go on.                *)
Kill ==
  /\ pc \in {"next", "waiting", "client", "stopped"}
  /\ stops < MaxStops
  /\ stops' = stops + 1
  /\ orphans' = orphans \cup Survivors
  /\ pc' = "off" /\ server' = "none" /\ client' = "none" /\ pending' = {}
  /\ UNCHANGED <<diskVars, completed>>

(* An orphan writes into the directory that the next attempt uses.         *)
OrphanListens(o) ==
  /\ o.process = "server"
  /\ orphans' = orphans \ {o}
  /\ marked' = [marked EXCEPT ![o.cell] = TRUE]
  /\ UNCHANGED <<results, summaries, pc, pending, server, client, stops, completed>>
OrphanSummary(o, full) ==
  /\ o.process = "client"
  /\ orphans' = orphans \ {o}
  /\ summaries' = summaries \cup {[cell |-> o.cell, full |-> full]}
  /\ UNCHANGED <<results, marked, pc, pending, server, client, stops, completed>>

HarnessStep == \/ StartSweep \/ StartCell \/ ServerReady \/ ServerDied
               \/ ServerTimeout \/ ClientTimeout \/ StopServer
               \/ AppendResult \/ Finish
ProcessStep ==
  \/ ServerListens \/ ServerFails
  \/ \E full \in BOOLEAN : ClientSummary(full)
  \/ \E how \in {"exit0", "unavailable", "failed"} : ClientExit(how)
  \/ \E o \in orphans : OrphanListens(o)
  \/ \E o \in orphans, full \in BOOLEAN : OrphanSummary(o, full)
Operator ==
  \/ \E resume \in BOOLEAN : StartAgain(resume)
  \/ Interrupt
  \/ Kill

Next == HarnessStep \/ ProcessStep \/ Operator

Spec == Init /\ [][Next]_vars
(* The harness and its timeouts go on; the server, the client and whoever  *)
(* interrupts the sweep owe nothing.                                       *)
FairSpec == Spec /\ WF_vars(HarnessStep)

-----------------------------------------------------------------------------
(* aggregate.py: one verdict for all seeds of a combination.               *)
Seen(combo) == {results[i].outcome :
                  i \in {j \in DOMAIN results : results[j].cell.combo = combo}}
combine_seeds_any_ok(outcomes) ==                                       \* mutant
  IF "ok" \in outcomes THEN "ok" ELSE CHOOSE o \in outcomes \cup {"unavailable"} : TRUE
combine_seeds(outcomes) ==
  IF outcomes \subseteq {"unavailable"} THEN "unavailable"
  ELSE IF "failed" \in outcomes THEN "failed"
  ELSE IF "timeout" \in outcomes THEN "timeout"
  ELSE IF "incomplete" \in outcomes THEN "incomplete"
  ELSE "ok"

(* However often a sweep is interrupted and resumed, results.jsonl has at  *)
(* most one line per cell (already_done, run_sweep).                       *)
OneVerdictPerCell ==
  \A i, j \in DOMAIN results :
    results[i].cell = results[j].cell => i = j

(* "ok" says of a cell that the client that was run for it has completed   *)
(* the episodes that it was asked for (run_cell, Outcome.OK).              *)
OkWasCompleted ==
  \A i \in DOMAIN results : results[i].outcome = "ok" => results[i].cell \in completed

(* A combination reads "ok" in the printed matrix only if every line of it *)
(* is of a cell that could not be attempted or of one that a client has    *)
(* completed, in whatever attempt, and there is one of these: none failed, *)
(* hung, fell short or ended without a summary, in any order of seeds.     *)
Seeds(combo) == {i \in DOMAIN results : results[i].cell.combo = combo}
CompletedOnce(c) == [cell |-> c, full |-> TRUE] \in summaries
MatrixHonest ==
  pc = "finished" => \A c \in Cells : combine_seeds(Seen(c.combo)) = "ok" =>
    /\ \A i \in Seeds(c.combo) :
         \/ results[i].outcome = "unavailable"
         \/ results[i].outcome = "ok" /\ CompletedOnce(results[i].cell)
    /\ \E i \in Seeds(c.combo) : results[i].outcome = "ok"

(* A sweep that is run again after every interruption comes to an end with *)
(* a verdict for each cell, whatever servers and clients do.               *)
SweepCompletes ==
  <>[](/\ pc = "finished"
       /\ already_done(results) = Cells)

=============================================================================
