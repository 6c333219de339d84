------------------------ MODULE InferenceCoordinator ------------------------
(***************************************************************************)
(* The queue of inference requests and the futures their connections wait  *)
(* on (server/inference_coordinator.py).  A connection has at most one     *)
(* request outstanding, so a request is identified by its connection; the  *)
(* uuid in the code's request id only tells successive requests apart.     *)
(*                                                                         *)
(* The coordinator's own lock is never held across a suspension, so each   *)
(* of its coroutines is one step.  The operators below are the parts of    *)
(* the server's actions that touch the coordinator's state.                *)
(***************************************************************************)
EXTENDS Naturals, SequencesExt

CONSTANTS
  Conns,      \* connections: slots that clients connect through
  Envs,       \* environment indices a connection's client may name
  Batches     \* the env lists a message may carry: sequences over Envs

ASSUME BatchesAssumption ==
  /\ Batches # {}
  /\ Batches \subseteq (Seq(Envs) \ {<<>>})

VARIABLES
  queue,      \* the asyncio.Queue of requests
  futures,    \* the state of each connection's response future
  requested   \* the env_ids of each connection's last request

coordinatorVars == <<queue, futures, requested>>

FutureState == {"none", "pending", "answered", "stopping", "failed"}

CoordinatorTypeOK ==
  /\ queue \in Seq(Conns)
  /\ futures \in [Conns -> FutureState]
  /\ requested \in [Conns -> Batches]

CoordinatorInit ==
  /\ queue = <<>>
  /\ futures = [c \in Conns |-> "none"]
  /\ requested \in [Conns -> {CHOOSE b \in Batches : TRUE}]

-----------------------------------------------------------------------------
(* _queued_env_count, which the code keeps incrementally as requests enter *)
(* and leave the queue.                                                    *)
queued_env_count ==
  FoldSeq(LAMBDA c, n : n + Len(requested[c]), 0, queue)

(* register_request followed by enqueue_request. *)
Submit(c, envs) ==
  /\ futures' = [futures EXCEPT ![c] = "pending"]
  /\ requested' = [requested EXCEPT ![c] = envs]
  /\ queue' = Append(queue, c)

pop_request(c) == futures' = [futures EXCEPT ![c] = "none"]

(* resolve_request over a whole batch: only a future that is still         *)
(* registered and not done takes the outcome.                              *)
Resolve(batch, outcome) ==
  futures' = [c \in Conns |->
                IF c \in ToSet(batch) /\ futures[c] = "pending"
                THEN outcome ELSE futures[c]]

(* drain_batch leaves the queue empty; the caller keeps what was in it. *)
drain_batch_one_short == queue' = Tail(queue)                   \* mutant
drain_batch == queue' = <<>>

(* abort_pending_requests fails every undone future with the stopping      *)
(* error and throws the queued requests away.                              *)
abort_pending_requests ==
  /\ futures' = [c \in Conns |->
                   IF futures[c] = "pending" THEN "stopping" ELSE futures[c]]
  /\ queue' = <<>>

=============================================================================
