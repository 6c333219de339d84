---------------------------- MODULE RolloutBuffer ---------------------------
(***************************************************************************)
(* The rollout buffer with what it computes: frames of several             *)
(* environments arrive interleaved and are chained through next_indices;   *)
(* when the buffer is full (or FPO's step budget is used up) GAE runs      *)
(* backwards over the array along these chains, bootstrapping where a      *)
(* chain ends.  PPOBuffer and DPPOBuffer also keep a running return.       *)
(*                                                                         *)
(* Indices are the code's: 0-based, with next_index 0 for "no next frame"  *)
(* and node index -1 for "no frame".  Numbers are symbolic: the reward, the*)
(* stored value and the observation of an environment's k-th step are all  *)
(* the step <<env, k>>, and an advantage is the sequence of the deltas it  *)
(* sums, the n-th of them discounted n-1 times.                            *)
(***************************************************************************)
EXTENDS Integers, Sequences, FiniteSets

CONSTANTS
  Envs,           \* environment ids
  BufferSize,     \* config.buffer_size
  Stale,          \* what an array holds from np.empty or an earlier filling
  None,           \* the value that a finished episode contributes
  Kinds,          \* the algorithms: a subset of {"ppo", "dppo", "fpo"}
  MaxFillings,    \* bound: how often the buffer is filled
  MaxLost         \* bound: steps per filling whose feedback is not stored

ASSUME BufferAssumption ==
  /\ BufferSize \in Nat \ {0}
  /\ Kinds \subseteq {"ppo", "dppo", "fpo"}
  /\ MaxFillings \in Nat
  /\ MaxLost \in Nat
  /\ None # Stale /\ {None, Stale} \cap (Envs \X Nat) = {}

VARIABLES
  kind,           \* which algorithm's buffer this is
  treatTruncatedAsDone,  \* only FPO's configuration may clear it
  buffer,         \* the buffer object
  node,           \* prev_node_map of the server, per environment
  outcome,        \* terminated_map and truncated_map: the last step's outcome
  normalised,     \* the steps of the last update_obs_stats
  phase,          \* "collect", or "learn" between pre_learn and post_learn
  story           \* history: what each environment did in this filling

vars == <<kind, treatTruncatedAsDone, buffer, node, outcome,
          normalised, phase, story>>

Indices == 0 .. BufferSize - 1
Outcomes == {"running", "terminated", "truncated"}
Step == Envs \X (Nat \ {0})
Value == Step \cup {Stale, None}

Node == [idx : Indices \cup {-1}, signature : Nat]
NoNode == [idx |-> -1, signature |-> 0]

(* One delta: the step it is for, and the state whose value it bootstraps. *)
Delta == [step : Value, next : Value]
Row == [step : Value, last_value : Value, next_index : Indices,
        begins : BOOLEAN, ends : Outcomes,
        ret : Seq(Value), advantage : Seq(Delta)]
Request == [obs : Step, end_node : Node]

EmptyRow == [step |-> Stale, last_value |-> Stale, next_index |-> 0,
             begins |-> FALSE, ends |-> "running", ret |-> <<>>, advantage |-> <<>>]

-----------------------------------------------------------------------------
(* Operations on the buffer object. *)
full(b) == b.idx >= BufferSize

(* A node of an earlier filling is ignored. *)
chained_any_filling(b, prevNode) == prevNode.idx                        \* mutant
chained(b, prevNode) == IF prevNode.signature = b.signature THEN prevNode.idx ELSE -1
linked_past_the_frame(b, prevIdx) ==                                    \* mutant
  IF prevIdx = -1 THEN b.rows
  ELSE [b.rows EXCEPT ![prevIdx].next_index = b.idx + 1]
linked(b, prevIdx) ==
  IF prevIdx = -1 THEN b.rows ELSE [b.rows EXCEPT ![prevIdx].next_index = b.idx]

(* The running return of PPOBuffer restarts with each episode, that of     *)
(* DPPOBuffer goes on along the chain; both restart where a chain does.    *)
dppo_return(b, prevIdx) == IF prevIdx = -1 THEN <<>> ELSE b.rows[prevIdx].ret
ppo_return_over_episodes(b, prevIdx, begins) == dppo_return(b, prevIdx) \* mutant
ppo_return(b, prevIdx, begins) ==
  IF prevIdx = -1 \/ begins THEN <<>> ELSE b.rows[prevIdx].ret
running_return(b, prevIdx, begins) ==
  CASE kind = "ppo"  -> ppo_return(b, prevIdx, begins)
    [] kind = "dppo" -> dppo_return(b, prevIdx)

(* add_frame: `began` says how the step before this one ended, `ends` how  *)
(* this one did.  last_values is only written at learning time.            *)
add_frame(b, prevNode, step, began, ends) ==
  IF full(b) THEN b
  ELSE LET prevIdx == chained(b, prevNode)
           begins == began # "running"
           row == [linked(b, prevIdx)[b.idx] EXCEPT
                     !.step = step, !.begins = begins, !.ends = ends,
                     !.ret = IF kind = "fpo" THEN <<>>
                             ELSE Append(running_return(b, prevIdx, begins), step)]
       IN [b EXCEPT !.rows = [linked(b, prevIdx) EXCEPT ![b.idx] = row],
                    !.idx = @ + 1]

NodeOf(b) == [idx |-> IF full(b) THEN -1 ELSE b.idx, signature |-> b.signature]

(* Requests whose frame has been given a successor are dropped from the    *)
(* front of the queue only, as far as they reach.                          *)
Answered(b, request) == b.rows[request.end_node.idx].next_index # 0
WithoutAnswered(b, queue) ==
  LET from == CHOOSE n \in 1 .. Len(queue) + 1 :
                /\ \A i \in 1 .. n - 1 : Answered(b, queue[i])
                /\ n <= Len(queue) => ~Answered(b, queue[n])
  IN SubSeq(queue, from, Len(queue))

add_next_obs_value_request(b, obs, endNode) ==
  IF endNode.idx = -1 THEN b
  ELSE [b EXCEPT !.requests =
          WithoutAnswered(b, Append(@, [obs |-> obs, end_node |-> endNode]))]

(* reset leaves the other arrays as they are: their contents are Stale.    *)
reset(b) ==
  [b EXCEPT !.idx = 0, !.signature = @ + 1, !.requests = <<>>,
            !.rows = [i \in Indices |-> EmptyRow]]

(* The values of the observations that follow the ends of the chains.      *)
Open(b) == {i \in DOMAIN b.requests :
              /\ b.requests[i].end_node.signature = b.signature
              /\ ~Answered(b, b.requests[i])}
bootstrapped(b) ==
  [s \in Indices |->
     LET mine == {i \in Open(b) : b.requests[i].end_node.idx = s}
     IN IF mine = {} THEN b.rows[s]
        ELSE [b.rows[s] EXCEPT !.last_value = b.requests[CHOOSE i \in mine : TRUE].obs]]

(* One round of the backward loop: the delta of frame s and, discounted,   *)
(* the advantage of the frame after it, as the array has it by then.       *)
advantage_one_step_late(rows, advantages, s) ==                         \* mutant
  LET row == rows[s]
      n == row.next_index
      next == IF row.begins THEN None
              ELSE IF n = 0 THEN row.last_value ELSE rows[n].step
  IN <<[step |-> row.step, next |-> next]>>
     \o (IF row.begins \/ n = 0 THEN <<>> ELSE advantages[n])
advantage(rows, advantages, s) ==
  LET row == rows[s]
      n == row.next_index
      terminated == \/ row.ends = "terminated"
                    \/ row.ends = "truncated" /\ treatTruncatedAsDone
      masked == row.ends = "truncated" /\ ~treatTruncatedAsDone
      next == IF terminated THEN None
              ELSE IF n = 0 THEN row.last_value ELSE rows[n].step
  IN IF masked THEN <<>>
     ELSE <<[step |-> row.step, next |-> next]>>
          \o (IF terminated \/ n = 0 THEN <<>> ELSE advantages[n])

Backwards(rows, size) ==
  LET after[k \in 0 .. size] ==
        IF k = 0 THEN [s \in Indices |-> rows[s].advantage]
        ELSE [after[k - 1] EXCEPT ![size - k] = advantage(rows, after[k - 1], size - k)]
  IN after[size]
compute_advantages_and_returns(b) ==
  LET rows == bootstrapped(b)
      advantages == Backwards(rows, b.idx)
  IN [b EXCEPT !.rows =
        [s \in Indices |-> [rows[s] EXCEPT !.advantage = advantages[s]]]]

-----------------------------------------------------------------------------
TypeOK ==
  /\ kind \in Kinds
  /\ treatTruncatedAsDone \in BOOLEAN
  /\ buffer \in [rows : [Indices -> Row], idx : 0 .. BufferSize,
                 signature : Nat, requests : Seq(Request)]
  /\ node \in [Envs -> Node]
  /\ outcome \in [Envs -> Outcomes]
  /\ normalised \subseteq Value
  /\ phase \in {"collect", "learn"}
  /\ story \in [Envs -> Seq([ends : Outcomes \cup {"lost"}, at : Indices \cup {-1}])]

Init ==
  /\ kind \in Kinds
  /\ treatTruncatedAsDone \in IF kind = "fpo" THEN BOOLEAN ELSE {TRUE}
  /\ buffer = [rows |-> [i \in Indices |-> EmptyRow], idx |-> 0,
               signature |-> 1, requests |-> <<>>]
  /\ node = [e \in Envs |-> NoNode]
  /\ outcome = [e \in Envs |-> "running"]
  /\ normalised = {}
  /\ phase = "collect"
  /\ story = [e \in Envs |-> <<>>]

Now(e) == <<e, Len(story[e]) + 1>>
After(e) == <<e, Len(story[e]) + 2>>
Record(e, ends, at) ==
  story' = [story EXCEPT ![e] = Append(@, [ends |-> ends, at |-> at])]

Lost == {x \in Envs \X (1 .. BufferSize + MaxLost) :
           /\ x[2] \in DOMAIN story[x[1]]
           /\ story[x[1]][x[2]].at = -1}

(* feedback of an environment's step whose frame is stored. *)
feedback(e, ends) ==
  /\ phase = "collect"
  /\ ~full(buffer)
  /\ LET stored == add_frame(buffer, node[e], Now(e), outcome[e], ends)
     IN buffer' = add_next_obs_value_request(stored, After(e), NodeOf(buffer))
  /\ node' = [node EXCEPT ![e] = NodeOf(buffer)]
  /\ outcome' = [outcome EXCEPT ![e] = ends]
  /\ Record(e, ends, buffer.idx)
  /\ UNCHANGED <<kind, treatTruncatedAsDone, normalised, phase>>

(* A step whose feedback the server discards, as stale or for lack of room:*)
(* the environment goes on, its chain does not.                            *)
discard_feedback(e, ends) ==
  /\ phase = "collect"
  /\ Cardinality(Lost) < MaxLost
  /\ node' = [node EXCEPT ![e] = NoNode]
  /\ outcome' = [outcome EXCEPT ![e] = ends]
  /\ Record(e, ends, -1)
  /\ UNCHANGED <<kind, treatTruncatedAsDone, buffer, normalised, phase>>

(* The connection is replaced: the step in flight is lost, and the new     *)
(* handler starts with empty maps.                                         *)
Reconnect(e) ==
  /\ phase = "collect"
  /\ Cardinality(Lost) < MaxLost
  /\ node' = [node EXCEPT ![e] = NoNode]
  /\ outcome' = [outcome EXCEPT ![e] = "running"]
  /\ Record(e, "lost", -1)
  /\ UNCHANGED <<kind, treatTruncatedAsDone, buffer, normalised, phase>>

(* The observations the policy's running statistics take in: FPO's of the  *)
(* whole storage, the others' of the frames that are stored.               *)
whole_storage(b) == {b.rows[i].step : i \in Indices}
stored_observations_after_reset(b) == {}                                \* mutant
stored_observations(b) == {b.rows[i].step : i \in 0 .. b.idx - 1}

(* pre_learn, of a full buffer, or of FPO's last and partly filled one.    *)
(* FPO by default (fpo_playground_trick) walks over it once in each epoch  *)
(* of learn_impl instead, with new values and the same chains: that is     *)
(* this one walk, as an advantage here is which deltas it sums.            *)
pre_learn ==
  /\ phase = "collect"
  /\ full(buffer) \/ (kind = "fpo" /\ buffer.idx > 0)
  /\ buffer' = compute_advantages_and_returns(buffer)
  /\ normalised' = IF kind = "fpo" THEN whole_storage(buffer) ELSE normalised
  /\ phase' = "learn"
  /\ UNCHANGED <<kind, treatTruncatedAsDone, node, outcome, story>>

(* post_learn: the statistics of PPO and DPPO move before the reset, while *)
(* the frames are there, and after learning, so that collecting and        *)
(* learning see the same ones; FPO's moved in pre_learn, where its learner *)
(* sees the new ones.  After FPO's partly filled buffer nothing is         *)
(* collected.                                                              *)
post_learn ==
  /\ phase = "learn"
  /\ full(buffer)
  /\ buffer.signature < MaxFillings
  /\ normalised' = IF kind = "fpo" THEN normalised ELSE stored_observations(buffer)
  /\ buffer' = reset(buffer)
  /\ phase' = "collect"
  /\ story' = [e \in Envs |-> <<>>]
  /\ UNCHANGED <<kind, treatTruncatedAsDone, node, outcome>>

Next ==
  \/ \E e \in Envs, ends \in Outcomes : feedback(e, ends)
  \/ \E e \in Envs, ends \in Outcomes : discard_feedback(e, ends)
  \/ \E e \in Envs : Reconnect(e)
  \/ pre_learn
  \/ post_learn

Spec == Init /\ [][Next]_vars

-----------------------------------------------------------------------------
(* The reference: what the environments did, without the buffer's chains.  *)
Stored(e, p) == p \in DOMAIN story[e] /\ story[e][p].at # -1
Ends(e, p) == story[e][p].ends # "running"

(* The first step of a run of stored steps, and the last one of an episode *)
(* that can be followed from step p.                                       *)
RunStart(e, p) == CHOOSE f \in 1 .. p : /\ \A q \in f .. p : Stored(e, q)
                                        /\ f = 1 \/ ~Stored(e, f - 1)
EpisodeStart(e, p) == CHOOSE f \in 1 .. p :
                        /\ \A q \in f .. p - 1 : Stored(e, q) /\ ~Ends(e, q)
                        /\ f = 1 \/ ~Stored(e, f - 1) \/ Ends(e, f - 1)
LastStep(e, p) == CHOOSE l \in p .. Len(story[e]) :
                    /\ \A q \in p .. l - 1 : ~Ends(e, q) /\ Stored(e, q + 1)
                    /\ Ends(e, l) \/ ~Stored(e, l + 1)

DeltaOf(e, q) == [step |-> <<e, q>>,
                  next |-> IF Ends(e, q) THEN None ELSE <<e, q + 1>>]
EpisodeAdvantage(e, p) ==
  LET last == LastStep(e, p)
      masked == story[e][last].ends = "truncated" /\ ~treatTruncatedAsDone
  IN [n \in 1 .. (last - p) + (IF masked THEN 0 ELSE 1) |-> DeltaOf(e, p + n - 1)]

(* Whatever the order in which the environments' frames arrived and        *)
(* wherever chains broke, the advantage of a frame sums the deltas of its  *)
(* own environment's steps up to the end of its episode or of what is      *)
(* stored of it; every delta bootstraps from the observation that followed *)
(* its step, none across the end of an episode                             *)
(* (GAEBuffer.compute_advantages_and_returns).                             *)
AdvantagesPerEpisode ==
  phase = "learn" =>
    \A e \in Envs : \A p \in DOMAIN story[e] :
      Stored(e, p) =>
        buffer.rows[story[e][p].at].advantage = EpisodeAdvantage(e, p)

(* The running return of a frame discounts the rewards of exactly its own  *)
(* environment's stored steps before it: those of its episode in           *)
(* PPOBuffer, those of its unbroken run in DPPOBuffer.                     *)
RunningReturns ==
  kind # "fpo" => \A e \in Envs : \A p \in DOMAIN story[e] :
    Stored(e, p) =>
      LET first == IF kind = "ppo" THEN EpisodeStart(e, p) ELSE RunStart(e, p)
      IN buffer.rows[story[e][p].at].ret
           = [n \in 1 .. p - first + 1 |-> <<e, first + n - 1>>]

(* The statistics that the next filling is collected under have taken in   *)
(* every frame of the one that was learned from, and nothing else: they    *)
(* moved before the reset took the frames away (post_learn of PPO and      *)
(* DPPO, pre_learn of FPO).                                                *)
StatisticsSeeTheFilling ==
  [][phase = "learn" /\ phase' = "collect" =>
       normalised' = UNION {{<<e, p>> : p \in {q \in DOMAIN story[e] : Stored(e, q)}} :
                            e \in Envs}]_vars

(* Chains lead forwards within what is stored, no two of them meet, a free *)
(* slot has no successor (the assertion of add_next_obs_value_request),    *)
(* and every end of a chain has a request for the value it bootstraps from:*)
(* the backward loop never reads an advantage it has not yet computed, nor *)
(* a last_value that nobody wrote.                                         *)
ChainsForward ==
  \A i \in Indices : LET n == buffer.rows[i].next_index IN
    n # 0 => i < n /\ n < buffer.idx
ChainsDisjoint ==
  \A i, j \in Indices :
    /\ buffer.rows[i].next_index # 0
    /\ buffer.rows[i].next_index = buffer.rows[j].next_index
    => i = j
EndsRequested ==
  \A i \in 0 .. buffer.idx - 1 :
    buffer.rows[i].next_index = 0 =>
      \E r \in DOMAIN buffer.requests :
        buffer.requests[r].end_node = [idx |-> i, signature |-> buffer.signature]
ChainsSound == ChainsForward /\ ChainsDisjoint /\ EndsRequested

=============================================================================
