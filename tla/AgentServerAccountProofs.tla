---------------------- MODULE AgentServerAccountProofs ----------------------
(***************************************************************************)
(* Proofs that the agent server keeps its accounts: of connections, of     *)
(* requests, of the chains of frames and the steps they count, and of what *)
(* is trained and on disk when it stops.                                   *)
(***************************************************************************)
EXTENDS AgentServerProofs

USE DEF vars, coordinatorVars, algorithmVars, handlerVars, mapVars,
        policyVars, lifecycleVars, saveVars

(* What a step of a connection's handler leaves alone; only a message      *)
(* under the lock and the end of a failed handler do more.                 *)
LEMMA HandlerFrame ==
  ASSUME NEW c \in Conns,
         \/ NewConnection(c) \/ ClientStep(c) \/ HandlerTrouble(c)
         \/ SendAction(c) \/ StopInFlight(c) \/ InferenceFailed(c)
         \/ ConnectionClosed(c)
  PROVE  UNCHANGED <<algorithmVars, policyVars, answer, sched, batch,
                     lifecycleVars, saveVars>>
<1>1. CASE NewConnection(c) \/ ClientStep(c)
  BY <1>1 DEF NewConnection, ClientStep, Connect, RecvInfer, RecvFeedback
<1>2. CASE HandlerTrouble(c)
  BY <1>2
     DEF HandlerTrouble, FeedFault, Resync, FeedbackTimeout, MessageFault,
         Vanish
<1>3. CASE SendAction(c) \/ StopInFlight(c)
  BY <1>3, Zenon DEF SendAction, StopInFlight
<1>4. CASE InferenceFailed(c) \/ ConnectionClosed(c)
  BY <1>4 DEF InferenceFailed, ConnectionClosed
<1> QED
  BY <1>1, <1>2, <1>3, <1>4

LEMMA HandlerFailedFrame ==
  ASSUME NEW c \in Conns, HandlerFailed(c)
  PROVE  /\ UNCHANGED <<coordinatorVars, algorithmVars, policyVars, answer,
                        mapVars, sched, batch, main, lockQueue, saveVars>>
         /\ fatal' = TRUE /\ stop' = TRUE /\ closeReason' = ""
BY DEF HandlerFailed, handle_fatal

(* Scheduler and main task leave the handlers alone. *)
LEMMA ServerFrame ==
  ASSUME \/ SchedulerStep \/ SchedulerTrouble \/ MainStep \/ MainTrouble
         \/ \E t \in Savers : FinishDetachedWrite(t)
  PROVE  UNCHANGED <<pc, alive, sampledBy, prevNode, todo, accepted,
                     totalConnections, requested>>
<1>1. CASE SchedulerStep
  BY <1>1
     DEF SchedulerStep, LoopExit, StartInfer, SkipInfer, Infer,
         NothingToLearn, StartLearn, LastReport, FinishLearn,
         InterruptLearn, NothingToSave, StartSave, FinishSave, Wake
<1>2. CASE SchedulerTrouble
  BY <1>2 DEF SchedulerTrouble, InferFails, LearnFails, SaveFails
<1>3. CASE MainStep \/ MainTrouble
  BY <1>3
     DEF MainStep, MainTrouble, StartExitSave, ShutdownWithSave,
         ShutdownWithoutSave, FinishExitSave, CancelScheduler, Signal,
         ExitSaveFails, GiveUpExitSave, BeginClosing
<1>4. CASE \E t \in Savers : FinishDetachedWrite(t)
  BY <1>4 DEF FinishDetachedWrite
<1> QED
  BY <1>1, <1>2, <1>3, <1>4

-----------------------------------------------------------------------------
(* Connections.                                                            *)
AtWork == {c \in Conns : pc[c] # "off"}
CountInv == IsFiniteSet(AtWork) /\ totalConnections = Cardinality(AtWork)

(* A handler that goes from one state to another stays at work. *)
LEMMA StaysAtWork ==
  ASSUME HandlersTypeOK, CountInv, NEW c \in Conns, pc[c] # "off",
         NEW s, s # "off", pc' = [pc EXCEPT ![c] = s],
         UNCHANGED totalConnections
  PROVE  CountInv'
<1>1. AtWork' = AtWork
  BY DEF AtWork, HandlersTypeOK
<1> QED
  BY <1>1 DEF CountInv

(* A handler that leaves was counted, and is so no more. *)
LEMMA LeavesWork ==
  ASSUME HandlersTypeOK, CountInv, NEW c \in Conns, pc[c] # "off", Leave(c)
  PROVE  CountInv'
<1>1. AtWork' = AtWork \ {c} /\ c \in AtWork
  BY DEF AtWork, HandlersTypeOK, Leave
<1>2. /\ IsFiniteSet(AtWork \ {c})
      /\ Cardinality(AtWork \ {c}) = Cardinality(AtWork) - 1
  BY <1>1, FS_RemoveElement DEF CountInv
<1>3. Cardinality(AtWork \ {c}) \in Nat /\ Cardinality(AtWork) \in Nat
  BY <1>2, FS_CardinalityType DEF CountInv
<1>4. totalConnections' = Cardinality(AtWork \ {c})
  BY <1>2, <1>3 DEF Leave, CountInv
<1> QED
  BY <1>1, <1>2, <1>4 DEF CountInv

LEMMA CountNext == TypeInv /\ CountInv /\ [Next]_vars => CountInv'
<1> SUFFICES ASSUME TypeInv, CountInv, [Next]_vars
             PROVE  CountInv'
  OBVIOUS
<1> USE DEF TypeInv, TypeOK
<1>1. CASE UNCHANGED <<pc, totalConnections>>
  BY <1>1 DEF CountInv, AtWork
<1>2. ASSUME NEW c \in Conns, Connect(c)
      PROVE  CountInv'
  <2>1. AtWork' = AtWork \cup {c} /\ c \notin AtWork
    BY <1>2 DEF AtWork, HandlersTypeOK, Connect
  <2>2. /\ IsFiniteSet(AtWork \cup {c})
        /\ Cardinality(AtWork \cup {c}) = Cardinality(AtWork) + 1
    BY <2>1, FS_AddElement DEF CountInv
  <2> QED
    BY <1>2, <2>1, <2>2 DEF CountInv, Connect
<1>3. ASSUME NEW c \in Conns, ClientStep(c)
      PROVE  CountInv'
  <2>1. CASE RecvInfer(c)
    BY <2>1, StaysAtWork DEF RecvInfer
  <2>2. CASE RecvFeedback(c)
    BY <2>2, StaysAtWork DEF RecvFeedback
  <2> QED
    BY <1>3, <2>1, <2>2 DEF ClientStep
<1>4. ASSUME NEW c \in Conns, Feed(c)
      PROVE  CountInv'
  <2>1. CASE UNCHANGED pc
    BY <1>1, <1>4, <2>1 DEF Feed
  <2>2. CASE pc' = [pc EXCEPT ![c] = "recv_infer"]
    BY <1>4, <2>2, StaysAtWork DEF Feed
  <2> QED
    BY <1>4, <2>1, <2>2 DEF Feed
<1>5. ASSUME NEW c \in Conns,
             \/ SendAction(c) \/ StopInFlight(c) \/ InferenceFailed(c)
             \/ ConnectionClosed(c) \/ HandlerFailed(c)
      PROVE  CountInv'
  <2>1. pc[c] # "off"
    BY <1>5
       DEF SendAction, StopInFlight, InferenceFailed, ConnectionClosed,
           HandlerFailed
  <2>2. \/ Leave(c)
        \/ UNCHANGED totalConnections /\ pc' = [pc EXCEPT ![c] = "recv_feedback"]
        \/ CloseSocket(c, "closing")
        \/ CloseSocket(c, "failing")
    BY <1>5
       DEF SendAction, StopInFlight, InferenceFailed, ConnectionClosed,
           HandlerFailed
  <2> QED
    BY <2>1, <2>2, StaysAtWork, LeavesWork DEF CloseSocket
<1>6. ASSUME NEW c \in Conns, HandlerTrouble(c)
      PROVE  CountInv'
  <2>1. CASE Vanish(c)
    BY <1>1, <2>1 DEF Vanish
  <2>2. CASE FeedFault(c) \/ Resync(c) \/ FeedbackTimeout(c) \/ MessageFault(c)
    <3>1. pc[c] # "off"
      BY <2>2 DEF FeedFault, Resync, FeedbackTimeout, MessageFault
    <3>2. CloseSocket(c, "closing") \/ CloseSocket(c, "failing")
      BY <2>2 DEF FeedFault, Resync, FeedbackTimeout, MessageFault
    <3> QED
      BY <3>1, <3>2, StaysAtWork DEF CloseSocket
  <2> QED
    BY <1>6, <2>1, <2>2 DEF HandlerTrouble
<1>7. CASE \/ SchedulerStep \/ SchedulerTrouble \/ MainStep \/ MainTrouble
           \/ \E t \in Savers : FinishDetachedWrite(t)
           \/ UNCHANGED vars
  BY <1>1, <1>7, ServerFrame
<1> QED
  BY <1>2, <1>3, <1>4, <1>5, <1>6, <1>7
     DEF Next, NewConnection, HandlerStep

LEMMA CountInit == Init => CountInv
<1> SUFFICES ASSUME Init PROVE CountInv
  OBVIOUS
<1>1. AtWork = {}
  BY DEF Init, AtWork
<1> QED
  BY <1>1, FS_EmptySet DEF CountInv, Init

(* The connection count that sets the size of the next batch is, in every  *)
(* state, the number of handlers at work: none of the ways in which one    *)
(* can end leaves it counted, or gives its place up twice.                 *)
THEOREM ConnectionsCountedHolds == Spec => []ConnectionsCounted
<1>1. Spec => []CountInv
  BY CountInit, CountNext, TypeInvariance, PTL DEF Spec
<1>2. CountInv => ConnectionsCounted
  BY DEF CountInv, AtWork, ConnectionsCounted
<1> QED
  BY <1>1, <1>2, PTL

-----------------------------------------------------------------------------
(* Requests.  Those under way are in the queue or in the batch that the    *)
(* scheduler drained, each in one place; they are what the futures that    *)
(* are pending stand for.                                                  *)
Once(s) == \A i, j \in DOMAIN s : s[i] = s[j] => i = j

Waiting == \A c \in Conns : futures[c] = "pending" => pc[c] = "await_response"

Tracked ==
  /\ batch # <<>> => sched = "infer"
  /\ Once(queue) /\ Once(batch)
  /\ \A c \in Conns : c \notin ToSet(queue) \cap ToSet(batch)
  /\ \A c \in Conns :
       futures[c] = "pending" <=> c \in ToSet(queue) \cup ToSet(batch)

RequestInv == Waiting /\ (main \notin {"closing", "done"} => Tracked)

LEMMA AppendOnce ==
  ASSUME NEW S, NEW s \in Seq(S), NEW x \in S, Once(s), x \notin ToSet(s)
  PROVE  Once(Append(s, x)) /\ ToSet(Append(s, x)) = ToSet(s) \cup {x}
<1> DEFINE t == Append(s, x)
<1>1. /\ Len(s) \in Nat /\ DOMAIN s = 1 .. Len(s)
      /\ DOMAIN t = 1 .. Len(s) + 1
      /\ \A i \in 1 .. Len(s) : t[i] = s[i]
      /\ t[Len(s) + 1] = x
  BY AppendProperties, LenProperties
<1> HIDE DEF t
<1>2. Once(t)
  BY <1>1 DEF Once, ToSet
<1>3. ToSet(t) = ToSet(s) \cup {x}
  <2>1. ASSUME NEW y \in ToSet(t)
        PROVE  y \in ToSet(s) \cup {x}
    <3>1. PICK i \in DOMAIN t : y = t[i]
      BY DEF ToSet
    <3> QED
      BY <1>1, <3>1 DEF ToSet
  <2>2. ASSUME NEW y \in ToSet(s)
        PROVE  y \in ToSet(t)
    <3>1. PICK i \in DOMAIN s : y = s[i]
      BY DEF ToSet
    <3> QED
      BY <1>1, <3>1 DEF ToSet
  <2>3. x \in ToSet(t)
    BY <1>1 DEF ToSet
  <2> QED
    BY <2>1, <2>2, <2>3
<1> QED
  BY <1>2, <1>3 DEF t

(* In how many places of two sequences together something stands that is   *)
(* in at most one of them, and there once.                                 *)
LEMMA OnePlace ==
  ASSUME NEW S, NEW s \in Seq(S), NEW t \in Seq(S), NEW x,
         Once(s), Once(t), x \notin ToSet(s) \cap ToSet(t)
  PROVE  Cardinality({i \in DOMAIN (s \o t) : (s \o t)[i] = x})
           = IF x \in ToSet(s) \cup ToSet(t) THEN 1 ELSE 0
<1> DEFINE u == s \o t
           places == {i \in DOMAIN u : u[i] = x}
<1>1. /\ Len(s) \in Nat /\ DOMAIN s = 1 .. Len(s)
      /\ Len(t) \in Nat /\ DOMAIN t = 1 .. Len(t)
  BY LenProperties
<1>2. /\ DOMAIN u = 1 .. Len(s) + Len(t)
      /\ \A i \in 1 .. Len(s) + Len(t) :
           u[i] = IF i <= Len(s) THEN s[i] ELSE t[i - Len(s)]
  BY ConcatProperties, LenProperties
<1> HIDE DEF u
<1>3. ASSUME NEW i \in places
      PROVE  \/ /\ i \in DOMAIN s /\ s[i] = x
                /\ x \in ToSet(s)
             \/ /\ i - Len(s) \in DOMAIN t /\ t[i - Len(s)] = x
                /\ x \in ToSet(t)
  <2>1. i \in 1 .. Len(s) + Len(t) /\ u[i] = x
    BY <1>2
  <2>2. CASE i <= Len(s)
    <3>1. i \in DOMAIN s /\ s[i] = x
      BY <1>1, <1>2, <2>1, <2>2
    <3> QED
      BY <3>1 DEF ToSet
  <2>3. CASE i > Len(s)
    <3>1. i - Len(s) \in DOMAIN t /\ t[i - Len(s)] = x
      BY <1>1, <1>2, <2>1, <2>3
    <3> QED
      BY <3>1 DEF ToSet
  <2> QED
    BY <1>1, <2>1, <2>2, <2>3
<1>4. ASSUME NEW i \in places, NEW j \in places
      PROVE  i = j
  <2>1. CASE x \in ToSet(s)
    BY <1>3, <2>1 DEF Once
  <2>2. CASE x \notin ToSet(s)
    <3>1. i - Len(s) = j - Len(s)
      BY <1>3, <2>2 DEF Once
    <3>2. i \in Int /\ j \in Int
      BY <1>1, <1>2
    <3> QED
      BY <1>1, <3>1, <3>2
  <2> QED
    BY <2>1, <2>2
<1>5. CASE x \in ToSet(s) \cup ToSet(t)
  <2>1. \E i : i \in places
    <3>1. CASE x \in ToSet(s)
      BY <1>1, <1>2, <3>1 DEF ToSet
    <3>2. CASE x \in ToSet(t)
      <4>1. PICK j \in DOMAIN t : x = t[j]
        BY <3>2 DEF ToSet
      <4>2. Len(s) + j \in DOMAIN u /\ u[Len(s) + j] = x
        BY <1>1, <1>2, <4>1
      <4> QED
        BY <4>2
    <3> QED
      BY <1>5, <3>1, <3>2
  <2>2. PICK i : places = {i}
    BY <1>4, <2>1
  <2>3. Cardinality({i}) = 1
    BY FS_Singleton
  <2> QED
    BY <1>5, <2>2, <2>3 DEF u
<1>6. CASE x \notin ToSet(s) \cup ToSet(t)
  <2>1. places = {}
    BY <1>3, <1>6
  <2> QED
    BY <1>6, <2>1, FS_EmptySet DEF u
<1> QED
  BY <1>5, <1>6

(* A step that touches no request, nor a handler that waits for one. *)
LEMMA RequestFrame ==
  ASSUME RequestInv,
         UNCHANGED <<futures, queue, batch>>,
         main \in {"closing", "done"} => main' \in {"closing", "done"},
         sched = "infer" /\ main' \notin {"closing", "done"} => sched' = "infer",
         \A c \in Conns : futures[c] = "pending" => pc'[c] = pc[c]
  PROVE  RequestInv'
<1>1. Waiting'
  BY DEF RequestInv, Waiting
<1>2. ASSUME main' \notin {"closing", "done"}
      PROVE  Tracked'
  BY <1>2 DEF RequestInv, Tracked
<1> QED
  BY <1>1, <1>2 DEF RequestInv

(* A request whose future is no longer pending is not under way. *)
LEMMA PopFrame ==
  ASSUME RequestInv, HandlersTypeOK, CoordinatorTypeOK, NEW c \in Conns,
         futures[c] # "pending", pop_request(c),
         UNCHANGED <<queue, batch, main, sched>>,
         \A d \in Conns \ {c} : pc'[d] = pc[d]
  PROVE  RequestInv'
<1>1. /\ futures'[c] = "none"
      /\ \A d \in Conns \ {c} : futures'[d] = futures[d]
  BY DEF pop_request, CoordinatorTypeOK
<1>2. Waiting'
  BY <1>1 DEF RequestInv, Waiting
<1>3. ASSUME main' \notin {"closing", "done"}
      PROVE  Tracked'
  BY <1>1, <1>3 DEF RequestInv, Tracked
<1> QED
  BY <1>2, <1>3 DEF RequestInv

(* The whole batch gets its outcome; what is in the queue goes on waiting. *)
LEMMA ResolveFrame ==
  ASSUME RequestInv, CoordinatorTypeOK, NEW outcome, outcome # "pending",
         Resolve(batch, outcome), batch' = <<>>,
         UNCHANGED <<queue, pc, main>>
  PROVE  RequestInv'
<1>1. \A c \in Conns :
        futures'[c] = IF c \in ToSet(batch) /\ futures[c] = "pending"
                      THEN outcome ELSE futures[c]
  BY DEF Resolve
<1>2. Waiting'
  BY <1>1 DEF RequestInv, Waiting
<1>3. ASSUME main \notin {"closing", "done"}
      PROVE  Tracked'
  <2>1. ToSet(batch') = {} /\ Once(batch')
    BY DEF ToSet, Once
  <2>2. \A c \in Conns : futures'[c] = "pending" <=> c \in ToSet(queue')
    BY <1>1, <1>3 DEF RequestInv, Tracked
  <2> QED
    BY <1>3, <2>1, <2>2 DEF RequestInv, Tracked
<1> QED
  BY <1>2, <1>3 DEF RequestInv

(* The shutdown leaves no future pending. *)
LEMMA AbortFrame ==
  ASSUME BeginClosing
  PROVE  RequestInv'
BY DEF BeginClosing, abort_pending_requests, RequestInv, Waiting

LEMMA RequestNext == TypeInv /\ RequestInv /\ [Next]_vars => RequestInv'
<1> SUFFICES ASSUME TypeInv, RequestInv, [Next]_vars
             PROVE  RequestInv'
  OBVIOUS
<1> USE DEF TypeInv, TypeOK
<1>1. ASSUME NEW c \in Conns, RecvInfer(c)
      PROVE  RequestInv'
  <2>1. futures[c] # "pending"
    BY <1>1 DEF RecvInfer, RequestInv, Waiting
  <2>2. /\ pc' = [pc EXCEPT ![c] = "await_response"]
        /\ futures' = [futures EXCEPT ![c] = "pending"]
        /\ queue' = Append(queue, c)
        /\ UNCHANGED <<batch, main, sched>>
    BY <1>1 DEF RecvInfer, Submit
  <2>3. Waiting'
    BY <2>2 DEF RequestInv, Waiting, HandlersTypeOK, CoordinatorTypeOK
  <2>4. ASSUME main \notin {"closing", "done"}
        PROVE  Tracked'
    <3>1. c \notin ToSet(queue) /\ c \notin ToSet(batch)
      BY <2>1, <2>4 DEF RequestInv, Tracked
    <3>2. Once(queue') /\ ToSet(queue') = ToSet(queue) \cup {c}
      BY <2>2, <2>4, <3>1, AppendOnce DEF RequestInv, Tracked, CoordinatorTypeOK
    <3>3. \A d \in Conns :
            futures'[d] = "pending" <=> d \in ToSet(queue') \cup ToSet(batch')
      BY <2>2, <2>4, <3>2 DEF RequestInv, Tracked, CoordinatorTypeOK
    <3> QED
      BY <2>2, <2>4, <3>1, <3>2, <3>3 DEF RequestInv, Tracked
  <2> QED
    BY <2>2, <2>3, <2>4 DEF RequestInv
<1>2. ASSUME NEW c \in Conns, SendAction(c) \/ StopInFlight(c)
      PROVE  RequestInv'
  <2>1. /\ futures[c] # "pending"
        /\ pop_request(c)
        /\ UNCHANGED <<queue, batch, main, sched>>
    BY <1>2 DEF SendAction, StopInFlight
  <2>2. \A d \in Conns \ {c} : pc'[d] = pc[d]
    BY <1>2 DEF SendAction, StopInFlight, Leave, CloseSocket, HandlersTypeOK
  <2> QED
    BY <2>1, <2>2, PopFrame
<1>3. ASSUME NEW c \in Conns,
             \/ NewConnection(c) \/ RecvFeedback(c) \/ Feed(c)
             \/ InferenceFailed(c) \/ ConnectionClosed(c) \/ HandlerFailed(c)
             \/ HandlerTrouble(c)
      PROVE  RequestInv'
  <2>1. UNCHANGED <<futures, queue, batch, main, sched>>
    BY <1>3
       DEF NewConnection, Connect, RecvFeedback, Feed, InferenceFailed,
           ConnectionClosed, HandlerFailed, HandlerTrouble, FeedFault,
           Resync, FeedbackTimeout, MessageFault, Vanish, handle_fatal
  <2>2. /\ futures[c] # "pending" \/ UNCHANGED pc
        /\ \A d \in Conns \ {c} : pc'[d] = pc[d]
    <3>1. CASE NewConnection(c) \/ RecvFeedback(c) \/ Feed(c)
      BY <3>1
         DEF NewConnection, Connect, RecvFeedback, Feed, RequestInv, Waiting,
             HandlersTypeOK
    <3>2. CASE InferenceFailed(c) \/ ConnectionClosed(c) \/ HandlerFailed(c)
      BY <3>2
         DEF InferenceFailed, ConnectionClosed, HandlerFailed, Leave,
             CloseSocket, RequestInv, Waiting, HandlersTypeOK
    <3>3. CASE HandlerTrouble(c)
      BY <3>3
         DEF HandlerTrouble, FeedFault, Resync, FeedbackTimeout,
             MessageFault, Vanish, CloseSocket, RequestInv, Waiting,
             HandlersTypeOK
    <3> QED
      BY <1>3, <3>1, <3>2, <3>3
  <2> QED
    BY <2>1, <2>2, RequestFrame
<1>4. CASE StartInfer
  <2>1. /\ batch' = queue /\ queue' = <<>>
        /\ sched = "top" /\ sched' = "infer"
        /\ UNCHANGED <<futures, pc, main>>
    BY <1>4 DEF StartInfer, drain_batch
  <2>2. Waiting'
    BY <2>1 DEF RequestInv, Waiting
  <2>3. ASSUME main \notin {"closing", "done"}
        PROVE  Tracked'
    <3>1. batch = <<>>
      BY <2>1, <2>3 DEF RequestInv, Tracked
    <3>2. ToSet(batch) = {} /\ ToSet(queue') = {} /\ Once(queue')
      BY <2>1, <3>1 DEF ToSet, Once
    <3> QED
      BY <2>1, <2>3, <3>2 DEF RequestInv, Tracked
  <2> QED
    BY <2>1, <2>2, <2>3 DEF RequestInv
<1>5. CASE Infer
  BY <1>5, ResolveFrame DEF Infer
<1>6. CASE InferFails
  BY <1>6, ResolveFrame DEF InferFails, handle_fatal
<1>7. CASE \/ LoopExit \/ SkipInfer \/ NothingToLearn \/ StartLearn
           \/ LastReport \/ FinishLearn \/ InterruptLearn \/ NothingToSave
           \/ StartSave \/ FinishSave \/ Wake \/ LearnFails \/ SaveFails
  <2>1. /\ UNCHANGED <<futures, queue, batch, pc, main>>
        /\ sched # "infer"
    BY <1>7
       DEF LoopExit, SkipInfer, NothingToLearn, StartLearn, LastReport,
           FinishLearn, InterruptLearn, NothingToSave, StartSave, FinishSave,
           Wake, LearnFails, SaveFails, handle_fatal
  <2> QED
    BY <2>1, RequestFrame
<1>8. CASE ShutdownWithoutSave \/ FinishExitSave \/ ExitSaveFails \/ GiveUpExitSave
  BY <1>8, AbortFrame
     DEF ShutdownWithoutSave, FinishExitSave, ExitSaveFails, GiveUpExitSave
<1>9. CASE \/ StartExitSave \/ ShutdownWithSave \/ CancelScheduler \/ Signal
           \/ \E t \in Savers : FinishDetachedWrite(t)
           \/ UNCHANGED vars
  <2>1. /\ UNCHANGED <<futures, queue, batch, pc>>
        /\ main \in {"closing", "done"} => main' \in {"closing", "done"}
        /\ sched' = sched \/ main' = "done"
    BY <1>9
       DEF StartExitSave, ShutdownWithSave, CancelScheduler, Signal,
           FinishDetachedWrite
  <2> QED
    BY <2>1, RequestFrame
<1> QED
  BY <1>1, <1>2, <1>3, <1>4, <1>5, <1>6, <1>7, <1>8, <1>9
     DEF Next, ClientStep, HandlerStep, SchedulerStep, SchedulerTrouble,
         MainStep, MainTrouble

LEMMA RequestInit == Init => RequestInv
<1> SUFFICES ASSUME Init PROVE RequestInv
  OBVIOUS
<1>1. /\ queue = <<>> /\ batch = <<>>
      /\ \A c \in Conns : futures[c] = "none"
  BY DEF Init, CoordinatorInit
<1>2. Once(<<>>) /\ ToSet(<<>>) = {}
  BY DEF Once, ToSet
<1> QED
  BY <1>1, <1>2 DEF RequestInv, Waiting, Tracked

(* Until the shutdown aborts them, every request that waits for its answer *)
(* is in the queue or in the batch being inferred, in one place, and       *)
(* nothing else is: none is dropped between the two, or answered twice,    *)
(* however clients leave and come back.                                    *)
THEOREM RequestsAccountedHolds == Spec => []RequestsAccounted
<1>1. Spec => []RequestInv
  BY RequestInit, RequestNext, TypeInvariance, PTL DEF Spec
<1>2. TypeInv /\ RequestInv => RequestsAccounted
  <2> SUFFICES ASSUME TypeInv, RequestInv, main \notin {"closing", "done"},
                      NEW c \in Conns
               PROVE  Cardinality({i \in DOMAIN (queue \o batch) :
                                     (queue \o batch)[i] = c})
                        = IF futures[c] = "pending" THEN 1 ELSE 0
    BY DEF RequestsAccounted
  <2>1. queue \in Seq(Conns) /\ batch \in Seq(Conns)
    BY DEF TypeInv, TypeOK, CoordinatorTypeOK, ControlTypeOK
  <2>2. /\ Once(queue) /\ Once(batch)
        /\ c \notin ToSet(queue) \cap ToSet(batch)
        /\ futures[c] = "pending" <=> c \in ToSet(queue) \cup ToSet(batch)
    BY DEF RequestInv, Tracked
  <2> QED
    BY <2>1, <2>2, OnePlace
<1> QED
  BY <1>1, <1>2, TypeInvariance, PTL

-----------------------------------------------------------------------------
(* Chains.  The frame a handler would chain an environment's next step to  *)
(* is the end of a chain, which no other environment has; so linking a     *)
(* frame to it makes no frame the predecessor of two.  A node of an        *)
(* earlier filling has an older signature than the buffer.                 *)
EndsApart ==
  \A c, d \in Conns, e, f \in Envs :
    lastFrame[c][e] # 0 /\ lastFrame[c][e] = lastFrame[d][f] => c = d /\ e = f

EndsAreEnds ==
  \A c \in Conns, e \in Envs :
    /\ lastFrame[c][e] <= Len(buffer)
    /\ \A i \in DOMAIN buffer :
         buffer[i].prev # 0 => buffer[i].prev # lastFrame[c][e]

NodesOfBuffer == \A c \in Conns, e \in Envs : prevNode[c][e].sig <= signature

ChainsInv == ChainsFollowSteps /\ EndsApart /\ EndsAreEnds /\ NodesOfBuffer

LEMMA ChainsFrame ==
  ASSUME ChainsInv, UNCHANGED <<buffer, signature, prevNode, lastFrame>>
  PROVE  ChainsInv'
<1>1. ChainsFollowSteps'
  BY DEF ChainsInv, ChainsFollowSteps, ChainedTo
<1>2. EndsApart' /\ EndsAreEnds' /\ NodesOfBuffer'
  BY DEF ChainsInv, EndsApart, EndsAreEnds, NodesOfBuffer
<1> QED
  BY <1>1, <1>2 DEF ChainsInv

(* Environments that lose their chain. *)
LEMMA ChainsCut ==
  ASSUME TypeInv, ChainsInv, UNCHANGED <<buffer, signature>>,
         \A c \in Conns, e \in Envs :
           \/ prevNode'[c][e] = NoNode /\ lastFrame'[c][e] = 0
           \/ prevNode'[c][e] = prevNode[c][e] /\ lastFrame'[c][e] = lastFrame[c][e]
  PROVE  ChainsInv'
<1>1. Len(buffer) \in Nat /\ signature \in Nat /\ signature # 0
  BY LenProperties DEF TypeInv, TypeOK, AlgorithmTypeOK
<1>2. ChainsFollowSteps'
  BY <1>1 DEF ChainsInv, ChainsFollowSteps, ChainedTo, NoNode
<1>3. EndsApart'
  BY DEF ChainsInv, EndsApart
<1>4. EndsAreEnds'
  BY <1>1 DEF ChainsInv, EndsAreEnds
<1>5. NodesOfBuffer'
  BY <1>1 DEF ChainsInv, NodesOfBuffer, NoNode
<1> QED
  BY <1>2, <1>3, <1>4, <1>5 DEF ChainsInv

(* A stored frame extends the chain of its environment. *)
LEMMA ChainsExtended ==
  ASSUME TypeInv, ChainsInv, NEW c \in Conns, NEW e \in Envs, Store(c, e)
  PROVE  ChainsInv'
<1> DEFINE l == lastFrame[c][e]
           frame == [sampledBy |-> sampledBy[c][e].weights, prev |-> l]
<1>1. ~full
  BY DEF Store, trains_on, should_learn
<1>2. PICK n \in Nat : n = Len(buffer)
  BY LenProperties DEF TypeInv, TypeOK, AlgorithmTypeOK
<1>3. /\ signature' = signature
      /\ prevNode' = [prevNode EXCEPT ![c][e] = [idx |-> n + 1, sig |-> signature]]
      /\ lastFrame' = [lastFrame EXCEPT ![c][e] = n + 1]
  BY <1>1, <1>2 DEF Store, feedback, NextNode
<1>4. buffer' = Append(buffer, frame)
  BY <1>1 DEF Store, feedback, ChainsInv, ChainsFollowSteps
<1>5. /\ l \in Nat /\ l <= n
      /\ signature \in Nat
      /\ \A d \in Conns, f \in Envs : lastFrame[d][f] \in Nat
  BY <1>2, AlgorithmAssumption
     DEF TypeInv, TypeOK, HandlersTypeOK, AlgorithmTypeOK, ChainsInv, EndsAreEnds
<1>6. /\ DOMAIN buffer = 1 .. n /\ DOMAIN buffer' = 1 .. n + 1
      /\ Len(buffer') = n + 1
      /\ \A i \in 1 .. n : buffer'[i] = buffer[i]
      /\ buffer'[n + 1].prev = l
  <2> HIDE DEF l
  <2>1. DOMAIN buffer = 1 .. n
    BY <1>2 DEF TypeInv, TypeOK, AlgorithmTypeOK
  <2> QED
    BY <1>2, <1>4, <2>1 DEF TypeInv, TypeOK, AlgorithmTypeOK
<1>7. \A i \in 1 .. n : buffer[i].prev \in Nat /\ buffer[i].prev < i
  <2>1. \A i \in 1 .. n : buffer[i] \in Frame
    BY <1>6 DEF TypeInv, TypeOK, AlgorithmTypeOK
  <2>2. \A i \in 1 .. n : buffer[i].prev \in Nat
    BY <2>1, AlgorithmAssumption DEF Frame
  <2> QED
    BY <1>6, <2>2 DEF ChainsInv, ChainsFollowSteps
<1>8. /\ lastFrame'[c][e] = n + 1
      /\ prevNode'[c][e] = [idx |-> n + 1, sig |-> signature]
      /\ \A d \in Conns, f \in Envs :
           ~(d = c /\ f = e) =>
             lastFrame'[d][f] = lastFrame[d][f] /\ prevNode'[d][f] = prevNode[d][f]
  BY <1>3 DEF TypeInv, TypeOK, HandlersTypeOK
<1>9. \A d \in Conns, f \in Envs : lastFrame[d][f] <= n
  BY <1>2 DEF ChainsInv, EndsAreEnds
<1> HIDE DEF l
<1>10. ChainsFollowSteps'
  <2>1. \A d \in Conns, f \in Envs : ChainedTo(prevNode[d][f])' = lastFrame'[d][f]
    BY <1>3, <1>8 DEF ChainsInv, ChainsFollowSteps, ChainedTo
  <2>2. \A i \in DOMAIN buffer' : buffer'[i].prev < i
    BY <1>2, <1>5, <1>6, <1>7
  <2>3. \A i \in 1 .. n : buffer[i].prev # 0 => buffer[i].prev # l
    BY <1>6 DEF ChainsInv, EndsAreEnds, l
  <2>4. \A i, j \in DOMAIN buffer' :
          i # j /\ buffer'[i].prev # 0 => buffer'[i].prev # buffer'[j].prev
    <3>1. \A i, j \in 1 .. n :
            i # j /\ buffer[i].prev # 0 => buffer[i].prev # buffer[j].prev
      BY <1>6 DEF ChainsInv, ChainsFollowSteps
    <3> QED
      BY <1>2, <1>6, <2>3, <3>1
  <2> QED
    BY <2>1, <2>2, <2>4 DEF ChainsFollowSteps
<1>11. EndsApart'
  BY <1>2, <1>5, <1>8, <1>9 DEF ChainsInv, EndsApart
<1>12. EndsAreEnds'
  <2>1. ASSUME NEW d \in Conns, NEW f \in Envs, NEW i \in 1 .. n + 1,
               buffer'[i].prev # 0
        PROVE  buffer'[i].prev # lastFrame'[d][f]
    <3>1. CASE d = c /\ f = e
      <4>1. lastFrame'[d][f] = n + 1
        BY <1>8, <3>1
      <4>2. buffer'[i].prev \in Nat /\ buffer'[i].prev <= n
        <5>1. CASE i = n + 1
          BY <1>5, <1>6, <5>1
        <5>2. CASE i # n + 1
          <6>1. i \in 1 .. n
            BY <1>2, <5>2
          <6>2. buffer[i].prev < i /\ buffer[i].prev \in Nat
            BY <1>7, <6>1
          <6> QED
            BY <1>2, <1>6, <6>1, <6>2
        <5> QED
          BY <5>1, <5>2
      <4> QED
        BY <1>2, <4>1, <4>2
    <3>2. CASE ~(d = c /\ f = e) /\ i = n + 1
      BY <1>6, <1>8, <2>1, <3>2 DEF ChainsInv, EndsApart, l
    <3>3. CASE ~(d = c /\ f = e) /\ i # n + 1
      <4>1. i \in DOMAIN buffer
        BY <1>2, <1>6, <3>3
      <4> QED
        BY <1>6, <1>8, <2>1, <3>3, <4>1 DEF ChainsInv, EndsAreEnds
    <3> QED
      BY <3>1, <3>2, <3>3
  <2>2. \A d \in Conns, f \in Envs : lastFrame'[d][f] <= Len(buffer')
    BY <1>2, <1>5, <1>6, <1>8, <1>9
  <2> QED
    BY <1>6, <2>1, <2>2 DEF EndsAreEnds
<1>13. NodesOfBuffer'
  BY <1>3, <1>5, <1>8 DEF ChainsInv, NodesOfBuffer
<1> QED
  BY <1>10, <1>11, <1>12, <1>13 DEF ChainsInv

LEMMA ChainsNext == TypeInv /\ ChainsInv /\ [Next]_vars => ChainsInv'
<1> SUFFICES ASSUME TypeInv, ChainsInv, [Next]_vars
             PROVE  ChainsInv'
  OBVIOUS
<1>1. ASSUME NEW c \in Conns, NewConnection(c)
      PROVE  ChainsInv'
  <2>1. /\ prevNode' = [prevNode EXCEPT ![c] = [e \in Envs |-> NoNode]]
        /\ lastFrame' = [lastFrame EXCEPT ![c] = [e \in Envs |-> 0]]
        /\ UNCHANGED <<buffer, signature>>
    BY <1>1 DEF NewConnection, Connect
  <2>2. \A d \in Conns, e \in Envs :
          \/ prevNode'[d][e] = NoNode /\ lastFrame'[d][e] = 0
          \/ prevNode'[d][e] = prevNode[d][e] /\ lastFrame'[d][e] = lastFrame[d][e]
    BY <2>1 DEF TypeInv, TypeOK, HandlersTypeOK
  <2> QED
    BY <2>1, <2>2, ChainsCut
<1>2. ASSUME NEW c \in Conns, Feed(c)
      PROVE  ChainsInv'
  <2> DEFINE e == Head(todo[c])
  <2>1. e \in Envs
    BY <1>2, HeadTailProperties
       DEF Feed, TypeInv, TypeOK, FramesLeft, HandlersTypeOK
  <2>2. CASE Store(c, e)
    BY <2>1, <2>2, ChainsExtended
  <2>3. CASE Discard(c, e)
    <3> HIDE DEF e
    <3>1. /\ prevNode' = [prevNode EXCEPT ![c][e] = NoNode]
          /\ lastFrame' = [lastFrame EXCEPT ![c][e] = 0]
          /\ UNCHANGED <<buffer, signature>>
      BY <2>3 DEF Discard
    <3>2. \A d \in Conns, f \in Envs :
            \/ prevNode'[d][f] = NoNode /\ lastFrame'[d][f] = 0
            \/ prevNode'[d][f] = prevNode[d][f] /\ lastFrame'[d][f] = lastFrame[d][f]
      BY <3>1 DEF TypeInv, TypeOK, HandlersTypeOK
    <3> QED
      BY <3>1, <3>2, ChainsCut
  <2> QED
    BY <1>2, <2>2, <2>3 DEF Feed
<1>3. CASE FinishLearn
  <2>1. /\ buffer' = <<>> /\ signature' = signature + 1
        /\ lastFrame' = [c \in Conns |-> [e \in Envs |-> 0]]
        /\ prevNode' = prevNode
    BY <1>3 DEF FinishLearn, learn
  <2>2. \A c \in Conns, e \in Envs :
          /\ prevNode[c][e].sig <= signature
          /\ prevNode[c][e].sig \in Nat
    BY DEF TypeInv, TypeOK, HandlersTypeOK, Node, ChainsInv, NodesOfBuffer
  <2>3. signature \in Nat
    BY DEF TypeInv, TypeOK, AlgorithmTypeOK
  <2>4. NodesOfBuffer'
    BY <2>1, <2>2, <2>3 DEF NodesOfBuffer
  <2>5. ChainsFollowSteps'
    <3>1. \A c \in Conns, e \in Envs : prevNode[c][e].sig # signature + 1
      BY <2>2, <2>3
    <3> QED
      BY <2>1, <3>1 DEF ChainsFollowSteps, ChainedTo
  <2>6. EndsApart' /\ EndsAreEnds'
    BY <2>1 DEF EndsApart, EndsAreEnds
  <2> QED
    BY <2>4, <2>5, <2>6 DEF ChainsInv
<1>4. CASE UNCHANGED <<buffer, signature, prevNode, lastFrame>>
  BY <1>4, ChainsFrame
<1>5. ASSUME NEW c \in Conns,
             \/ ClientStep(c) \/ HandlerTrouble(c) \/ SendAction(c)
             \/ StopInFlight(c) \/ InferenceFailed(c) \/ ConnectionClosed(c)
             \/ HandlerFailed(c)
      PROVE  UNCHANGED <<buffer, signature, prevNode, lastFrame>>
  <2>1. CASE ClientStep(c) \/ HandlerTrouble(c)
    BY <2>1
       DEF ClientStep, RecvInfer, RecvFeedback, HandlerTrouble, FeedFault,
           Resync, FeedbackTimeout, MessageFault, Vanish
  <2>2. CASE SendAction(c) \/ StopInFlight(c)
    BY <2>2, Zenon DEF SendAction, StopInFlight
  <2>3. CASE InferenceFailed(c) \/ ConnectionClosed(c) \/ HandlerFailed(c)
    BY <2>3 DEF InferenceFailed, ConnectionClosed, HandlerFailed
  <2> QED
    BY <1>5, <2>1, <2>2, <2>3
<1>6. CASE \/ LoopExit \/ StartInfer \/ SkipInfer \/ Infer \/ NothingToLearn
           \/ StartLearn \/ LastReport \/ InterruptLearn \/ NothingToSave
           \/ StartSave \/ FinishSave \/ Wake \/ SchedulerTrouble
           \/ MainStep \/ MainTrouble
           \/ \E t \in Savers : FinishDetachedWrite(t)
           \/ UNCHANGED vars
  <2>1. UNCHANGED <<buffer, signature, prevNode, lastFrame>>
    <3>1. CASE StartSave \/ FinishSave \/ SchedulerTrouble
      BY <3>1
         DEF StartSave, FinishSave, StartWrite, create_checkpoint,
             SchedulerTrouble, InferFails, LearnFails, SaveFails
    <3>2. CASE MainStep \/ MainTrouble
      BY <3>2
         DEF MainStep, MainTrouble, StartExitSave, StartWrite,
             create_checkpoint, ShutdownWithSave, ShutdownWithoutSave,
             FinishExitSave, CancelScheduler, Signal, ExitSaveFails,
             GiveUpExitSave
    <3>3. CASE \/ LoopExit \/ StartInfer \/ SkipInfer \/ Infer
               \/ NothingToLearn \/ StartLearn \/ LastReport
               \/ InterruptLearn \/ NothingToSave \/ Wake
               \/ \E t \in Savers : FinishDetachedWrite(t)
               \/ UNCHANGED vars
      BY <3>3
         DEF LoopExit, StartInfer, SkipInfer, Infer, NothingToLearn,
             StartLearn, LastReport, InterruptLearn, NothingToSave, Wake,
             FinishDetachedWrite
    <3> QED
      BY <1>6, <3>1, <3>2, <3>3
  <2> QED
    BY <2>1, ChainsFrame
<1> QED
  BY <1>1, <1>2, <1>3, <1>4, <1>5, <1>6
     DEF Next, HandlerStep, SchedulerStep

(* Whatever a handler holds for an environment is, to the buffer, the      *)
(* frame of that environment's preceding step or nothing - across learn    *)
(* steps, discarded frames and reconnects - and no two frames follow the   *)
(* same one.                                                               *)
THEOREM ChainsFollowStepsHolds == Spec => []ChainsFollowSteps
<1>1. Init => ChainsInv
  <2> SUFFICES ASSUME Init PROVE ChainsInv
    OBVIOUS
  <2>1. /\ buffer = <<>> /\ signature = 1
        /\ prevNode = [c \in Conns |-> [e \in Envs |-> NoNode]]
        /\ lastFrame = [c \in Conns |-> [e \in Envs |-> 0]]
    BY DEF Init, AlgorithmInit
  <2>2. ChainsFollowSteps
    BY <2>1 DEF ChainsFollowSteps, ChainedTo, NoNode
  <2>3. EndsApart /\ EndsAreEnds /\ NodesOfBuffer
    BY <2>1 DEF EndsApart, EndsAreEnds, NodesOfBuffer, NoNode
  <2> QED
    BY <2>2, <2>3 DEF ChainsInv
<1>2. Spec => []ChainsInv
  BY <1>1, ChainsNext, TypeInvariance, PTL DEF Spec
<1>3. ChainsInv => ChainsFollowSteps
  BY DEF ChainsInv
<1> QED
  BY <1>2, <1>3, PTL

-----------------------------------------------------------------------------
(* Checkpoints.  No step taken and no iteration completed is missing from  *)
(* a checkpoint being written, except steps that arrive after its thread   *)
(* has outlived its task; no learn step completes once a shutdown's write  *)
(* has begun, or clients have been told that training is over.             *)
SavedBehind == saved.step <= globalStep

WritesCurrent ==
  \A t \in writing : snapshot[t].itr = trainItrs /\ snapshot[t].step <= globalStep

SavesWhatIs ==
  /\ sched = "saving" => snapshot["scheduler"] = Snapshot
  /\ main = "exit_saving" => snapshot["main"] = Snapshot

WritersStopped ==
  /\ "main" \in writing => stop /\ sched # "learnt"
  /\ "scheduler" \in writing =>
       sched = "saving" \/ (sched = "dead" /\ main = "done")

NoLearnAfterStop == closeReason = "STOP" => stop /\ sched # "learnt"

NothingLost ==
  main \in {"closing", "done"} /\ ~fatal /\ ~gaveUp =>
    saved.itr = trainItrs /\ sched # "learnt"

SaveInv ==
  /\ StopMeansSaved /\ SavedBehind /\ WritesCurrent /\ SavesWhatIs
  /\ WritersStopped /\ NoLearnAfterStop /\ NothingLost

(* A step that neither writes a checkpoint nor learns. *)
LEMMA SaveFrame ==
  ASSUME SaveInv, StopsForGood,
         UNCHANGED <<trainItrs, globalStep, writing, snapshot, saved>>,
         gaveUp => gaveUp', fatal => fatal', stop => stop',
         closeReason' \in {closeReason, ""},
         sched' = "saving" => sched = "saving",
         sched' = "learnt" =>
           sched = "learnt" \/ (~stop /\ UNCHANGED lifecycleVars),
         \/ sched' = sched
         \/ "scheduler" \notin writing
         \/ sched' = "dead" /\ main' = "done",
         main' = "exit_saving" => main = "exit_saving",
         main = "done" => main' = "done",
         main' \in {"closing", "done"} /\ ~fatal' /\ ~gaveUp' =>
           main \in {"closing", "done"} \/ closeReason = "STOP"
  PROVE  SaveInv'
<1> USE DEF SaveInv
<1>1. StopMeansSaved' /\ SavedBehind' /\ WritesCurrent'
  BY DEF StopMeansSaved, SavedBehind, WritesCurrent
<1>2. SavesWhatIs' /\ WritersStopped'
  BY DEF SavesWhatIs, Snapshot, WritersStopped
<1>3. NoLearnAfterStop'
  BY DEF NoLearnAfterStop
<1>4. NothingLost'
  BY DEF NothingLost, NoLearnAfterStop, StopMeansSaved, StopsForGood
<1> QED
  BY <1>1, <1>2, <1>3, <1>4

(* The end of a write whose snapshot is of the iteration now reached. *)
LEMMA WriteEnds ==
  ASSUME TypeInv, SaveInv, NEW t \in Savers, FinishWrite(t),
         UNCHANGED <<trainItrs, globalStep>>
  PROVE  /\ SavedBehind' /\ WritesCurrent'
         /\ saved'.step \in Nat /\ saved'.step >= saved.step
         /\ saved.itr = trainItrs => saved'.itr = trainItrs
         /\ snapshot[t] = Snapshot => saved' = Snapshot
<1>1. /\ t \in writing
      /\ saved' = IF snapshot[t].step >= saved.step THEN snapshot[t] ELSE saved
      /\ writing' = writing \ {t}
      /\ snapshot' = snapshot
  BY DEF FinishWrite
<1>2. /\ saved.step \in Nat /\ snapshot[t].step \in Nat /\ globalStep \in Nat
  BY DEF TypeInv, TypeOK, SaveTypeOK, AlgorithmTypeOK, Checkpoint
<1>3. /\ snapshot[t].itr = trainItrs
      /\ snapshot[t].step <= globalStep
      /\ saved.step <= globalStep
  BY <1>1 DEF SaveInv, WritesCurrent, SavedBehind
<1>4. SavedBehind' /\ WritesCurrent'
  BY <1>1, <1>3 DEF SaveInv, WritesCurrent, SavedBehind
<1>5. /\ saved'.step \in Nat /\ saved'.step >= saved.step
      /\ saved.itr = trainItrs => saved'.itr = trainItrs
  BY <1>1, <1>2, <1>3
<1>6. ASSUME snapshot[t] = Snapshot
      PROVE  saved' = Snapshot
  BY <1>1, <1>2, <1>3, <1>6 DEF Snapshot
<1> QED
  BY <1>4, <1>5, <1>6

(* ... keeps the promise made with the close reason. *)
LEMMA WriteKeepsPromise ==
  ASSUME TypeInv, SaveInv, NEW t \in Savers, FinishWrite(t),
         UNCHANGED <<trainItrs, globalStep>>, closeReason' = closeReason
  PROVE  StopMeansSaved'
<1>1. /\ saved'.step \in Nat /\ saved'.step >= saved.step
      /\ saved.itr = trainItrs => saved'.itr = trainItrs
  BY WriteEnds
<1>2. saved.step \in Nat /\ GlobalSteps \in Nat
  BY AlgorithmAssumption DEF TypeInv, TypeOK, SaveTypeOK, Checkpoint
<1> QED
  BY <1>1, <1>2 DEF SaveInv, StopMeansSaved

LEMMA SaveNext ==
  TypeInv /\ StopsForGood /\ SaveInv /\ [Next]_vars => SaveInv'
<1> SUFFICES ASSUME TypeInv, StopsForGood, SaveInv, [Next]_vars
             PROVE  SaveInv'
  OBVIOUS
<1>1. ASSUME NEW c \in Conns,
             \/ NewConnection(c) \/ ClientStep(c) \/ HandlerTrouble(c)
             \/ SendAction(c) \/ StopInFlight(c) \/ InferenceFailed(c)
             \/ ConnectionClosed(c) \/ HandlerFailed(c)
      PROVE  SaveInv'
  <2>1. CASE HandlerFailed(c)
    <3>1. /\ UNCHANGED <<trainItrs, globalStep, writing, snapshot, saved, gaveUp,
                          sched, main>>
          /\ fatal' = TRUE /\ closeReason' = "" /\ stop' = TRUE
      BY <2>1, HandlerFailedFrame
    <3> QED
      BY <3>1, SaveFrame, Zenon
  <2>2. CASE ~HandlerFailed(c)
    <3>1. UNCHANGED <<trainItrs, globalStep, sched, lifecycleVars, saveVars>>
      BY <1>1, <2>2, HandlerFrame
    <3> QED
      BY <3>1, SaveFrame, Zenon
  <2> QED
    BY <2>1, <2>2
<1>2. ASSUME NEW c \in Conns, Feed(c)
      PROVE  SaveInv'
  <2>1. /\ UNCHANGED <<trainItrs, sched, lifecycleVars, saveVars>>
        /\ globalStep' \in {globalStep, globalStep + 1}
    BY <1>2 DEF Feed, Store, Discard, feedback
  <2>2. globalStep \in Nat
    BY DEF TypeInv, TypeOK, AlgorithmTypeOK
  <2>3. sched # "saving" /\ main # "exit_saving"
    <3>1. Holds(c) /\ c \notin {"scheduler", "main"}
      BY <1>2, ServerAssumption DEF Feed
    <3> QED
      BY <3>1 DEF TypeInv, LockDiscipline, Holds
  <2>4. SavedBehind' /\ WritesCurrent'
    <3>1. saved.step \in Nat /\ \A t \in writing : snapshot[t].step \in Nat
      BY DEF TypeInv, TypeOK, SaveTypeOK, Checkpoint
    <3> QED
      BY <2>1, <2>2, <3>1 DEF SaveInv, SavedBehind, WritesCurrent
  <2>5. StopMeansSaved' /\ SavesWhatIs' /\ WritersStopped'
    BY <2>1, <2>3 DEF SaveInv, StopMeansSaved, SavesWhatIs, WritersStopped
  <2>6. NoLearnAfterStop' /\ NothingLost'
    BY <2>1 DEF SaveInv, NoLearnAfterStop, NothingLost
  <2> QED
    BY <2>4, <2>5, <2>6 DEF SaveInv
<1>3. CASE FinishLearn
  <2>1. /\ sched = "learnt" /\ sched' = "may_save"
        /\ UNCHANGED <<globalStep, lifecycleVars, saveVars>>
    BY <1>3 DEF FinishLearn, learn
  <2>2. writing = {} /\ closeReason # "STOP"
    BY <2>1
       DEF SaveInv, WritersStopped, NoLearnAfterStop, TypeInv, TypeOK,
           SaveTypeOK, Savers
  <2>3. /\ main # "exit_saving"
        /\ main \in {"closing", "done"} => fatal \/ gaveUp
    BY <2>1 DEF SaveInv, NothingLost, TypeInv, LockDiscipline, Holds
  <2>4. StopMeansSaved' /\ SavedBehind' /\ WritesCurrent'
    BY <2>1, <2>2 DEF SaveInv, StopMeansSaved, SavedBehind, WritesCurrent
  <2>5. /\ SavesWhatIs' /\ WritersStopped' /\ NoLearnAfterStop'
        /\ NothingLost'
    BY <2>1, <2>2, <2>3
       DEF SaveInv, SavesWhatIs, WritersStopped, NoLearnAfterStop, NothingLost
  <2> QED
    BY <2>4, <2>5 DEF SaveInv
<1>4. CASE StartSave \/ StartExitSave
  <2> PICK t \in Savers :
        \/ t = "scheduler" /\ StartSave
        \/ t = "main" /\ StartExitSave
    BY <1>4 DEF Savers
  <2>1. /\ StartWrite(t)
        /\ UNCHANGED <<trainItrs, globalStep, saved, gaveUp, stop, fatal,
                       closeReason>>
        /\ t = "scheduler" => sched = "may_save" /\ sched' = "saving"
                              /\ UNCHANGED main
        /\ t = "main" => main = "exit_save" /\ main' = "exit_saving"
                         /\ UNCHANGED sched /\ Holds("main")
    BY DEF StartSave, StartExitSave, StartWrite, create_checkpoint
  <2>2. /\ writing' = writing \cup {t}
        /\ snapshot'[t] = Snapshot
        /\ \A s \in Savers \ {t} : snapshot'[s] = snapshot[s]
        /\ Snapshot' = Snapshot
        /\ Snapshot.itr = trainItrs /\ Snapshot.step = globalStep
        /\ globalStep \in Nat
    BY <2>1
       DEF StartWrite, create_checkpoint, Snapshot, TypeInv, TypeOK,
           SaveTypeOK, AlgorithmTypeOK
  <2>3. StopMeansSaved' /\ SavedBehind'
    BY <2>1 DEF SaveInv, StopMeansSaved, SavedBehind
  <2>4. WritesCurrent'
    <3>1. writing \subseteq Savers
      BY DEF TypeInv, TypeOK, SaveTypeOK
    <3> QED
      BY <2>1, <2>2, <3>1 DEF SaveInv, WritesCurrent
  <2>5. SavesWhatIs'
    BY <2>1, <2>2 DEF SaveInv, SavesWhatIs, Savers
  <2>6. sched # "learnt" /\ t = "main" => stop
    BY <2>1 DEF StopsForGood, TypeInv, LockDiscipline, Holds
  <2>7. WritersStopped'
    BY <2>1, <2>2, <2>6 DEF SaveInv, WritersStopped, Savers, TypeInv, LockDiscipline, Holds
  <2>8. NoLearnAfterStop' /\ NothingLost'
    BY <2>1 DEF SaveInv, NoLearnAfterStop, NothingLost
  <2> QED
    BY <2>3, <2>4, <2>5, <2>7, <2>8 DEF SaveInv
<1>5. CASE FinishSave
  <2>1. /\ sched = "saving" /\ FinishWrite("scheduler")
        /\ sched' \in {"top", "idle"}
        /\ UNCHANGED <<trainItrs, globalStep, gaveUp, main, fatal>>
        /\ \/ should_stop /\ closeReason' = "STOP" /\ stop' = TRUE
           \/ ~should_stop /\ UNCHANGED <<closeReason, stop>>
    BY <1>5 DEF FinishSave, AfterControl
  <2>2. "scheduler" \in Savers
    BY DEF Savers
  <2>3. saved' = Snapshot /\ SavedBehind' /\ WritesCurrent'
    BY <2>1, <2>2, WriteEnds DEF SaveInv, SavesWhatIs
  <2>4. StopMeansSaved'
    <3>1. CASE should_stop
      BY <2>1, <2>3, <3>1 DEF StopMeansSaved, Snapshot, should_stop
    <3>2. CASE ~should_stop
      BY <2>1, <2>2, <3>2, WriteKeepsPromise
    <3> QED
      BY <3>1, <3>2
  <2>5. writing' = writing \ {"scheduler"} /\ snapshot' = snapshot
    BY <2>1 DEF FinishWrite
  <2>6. SavesWhatIs' /\ WritersStopped'
    BY <2>1, <2>5
       DEF SaveInv, SavesWhatIs, WritersStopped, TypeInv, LockDiscipline, Holds
  <2>7. NoLearnAfterStop' /\ NothingLost'
    BY <2>1, <2>3 DEF SaveInv, NoLearnAfterStop, NothingLost, Snapshot
  <2> QED
    BY <2>3, <2>4, <2>6, <2>7 DEF SaveInv
<1>6. CASE FinishExitSave
  <2>1. /\ main = "exit_saving" /\ main' = "closing" /\ FinishWrite("main")
        /\ UNCHANGED <<trainItrs, globalStep, gaveUp, sched, stop, fatal,
                       closeReason>>
    BY <1>6 DEF FinishExitSave, BeginClosing
  <2>2. "main" \in Savers /\ sched \notin {"learnt", "saving"}
    BY <2>1 DEF Savers, TypeInv, LockDiscipline, Holds
  <2>3. /\ saved' = Snapshot /\ SavedBehind' /\ WritesCurrent'
        /\ StopMeansSaved'
    BY <2>1, <2>2, WriteEnds, WriteKeepsPromise DEF SaveInv, SavesWhatIs
  <2>4. writing' = writing \ {"main"} /\ snapshot' = snapshot
    BY <2>1 DEF FinishWrite
  <2>5. SavesWhatIs' /\ WritersStopped'
    BY <2>1, <2>2, <2>4 DEF SaveInv, SavesWhatIs, WritersStopped
  <2>6. NoLearnAfterStop' /\ NothingLost'
    BY <2>1, <2>2, <2>3 DEF SaveInv, NoLearnAfterStop, NothingLost, Snapshot
  <2> QED
    BY <2>3, <2>5, <2>6 DEF SaveInv
<1>7. ASSUME NEW t \in Savers, FinishDetachedWrite(t)
      PROVE  SaveInv'
  <2>1. /\ FinishWrite(t)
        /\ UNCHANGED <<trainItrs, globalStep, gaveUp, sched, lifecycleVars>>
    BY <1>7 DEF FinishDetachedWrite
  <2>2. /\ SavedBehind' /\ WritesCurrent' /\ StopMeansSaved'
        /\ saved.itr = trainItrs => saved'.itr = trainItrs
    BY <2>1, WriteEnds, WriteKeepsPromise
  <2>3. writing' = writing \ {t} /\ snapshot' = snapshot
    BY <2>1 DEF FinishWrite
  <2>4. SavesWhatIs' /\ WritersStopped'
    BY <2>1, <2>3 DEF SaveInv, SavesWhatIs, WritersStopped, Snapshot
  <2>5. NoLearnAfterStop' /\ NothingLost'
    BY <2>1, <2>2 DEF SaveInv, NoLearnAfterStop, NothingLost
  <2> QED
    BY <2>2, <2>4, <2>5 DEF SaveInv
<1>8. CASE SaveFails
  <2>1. /\ sched = "saving" /\ sched' = "dead"
        /\ writing' = writing \ {"scheduler"}
        /\ fatal' = TRUE /\ closeReason' = "" /\ stop' = TRUE
        /\ UNCHANGED <<trainItrs, globalStep, snapshot, saved, main>>
    BY <1>8 DEF SaveFails, handle_fatal
  <2>2. StopMeansSaved' /\ SavedBehind' /\ WritesCurrent'
    BY <2>1 DEF SaveInv, StopMeansSaved, SavedBehind, WritesCurrent
  <2>3. /\ SavesWhatIs' /\ WritersStopped' /\ NoLearnAfterStop'
        /\ NothingLost'
    BY <2>1
       DEF SaveInv, SavesWhatIs, Snapshot, WritersStopped, NoLearnAfterStop,
           NothingLost
  <2> QED
    BY <2>2, <2>3 DEF SaveInv
<1>9. CASE ExitSaveFails
  <2>1. /\ main' = "closing" /\ gaveUp' = TRUE
        /\ writing' = writing \ {"main"}
        /\ UNCHANGED <<trainItrs, globalStep, snapshot, saved, sched, stop,
                       fatal, closeReason>>
        /\ main = "exit_saving"
    BY <1>9 DEF ExitSaveFails, BeginClosing
  <2>2. StopMeansSaved' /\ SavedBehind' /\ WritesCurrent'
    BY <2>1 DEF SaveInv, StopMeansSaved, SavedBehind, WritesCurrent
  <2>3. /\ SavesWhatIs' /\ WritersStopped' /\ NoLearnAfterStop'
        /\ NothingLost'
    BY <2>1
       DEF SaveInv, SavesWhatIs, Snapshot, WritersStopped, NoLearnAfterStop,
           NothingLost
  <2> QED
    BY <2>2, <2>3 DEF SaveInv
<1>10. CASE \/ LoopExit \/ StartInfer \/ SkipInfer \/ Infer
            \/ NothingToLearn \/ StartLearn \/ LastReport
            \/ InterruptLearn \/ NothingToSave \/ Wake
            \/ InferFails \/ LearnFails
  <2>1. /\ UNCHANGED <<trainItrs, globalStep, saveVars, main>>
        /\ sched # "saving" /\ sched' # "saving"
        /\ sched' = "learnt" => ~stop /\ UNCHANGED lifecycleVars
        /\ \/ UNCHANGED lifecycleVars
           \/ fatal' = TRUE /\ closeReason' = "" /\ stop' = TRUE
    BY <1>10
       DEF LoopExit, StartInfer, SkipInfer, Infer, NothingToLearn,
           StartLearn, LastReport, InterruptLearn, NothingToSave, Wake,
           InferFails, LearnFails, handle_fatal, AfterControl
  <2>2. "scheduler" \in writing => sched' = "dead" /\ main' = "done"
    BY <1>10, <2>1
       DEF LoopExit, StartInfer, SkipInfer, Infer, NothingToLearn,
           StartLearn, LastReport, InterruptLearn, NothingToSave, Wake,
           InferFails, LearnFails, SaveInv, WritersStopped
  <2> QED
    <3>1. CASE UNCHANGED lifecycleVars
      BY <2>1, <2>2, <3>1, SaveFrame, Zenon
    <3>2. CASE fatal' = TRUE /\ closeReason' = "" /\ stop' = TRUE
      BY <2>1, <2>2, <3>2, SaveFrame, Zenon
    <3> QED
      BY <2>1, <3>1, <3>2, Zenon
<1>11. CASE ShutdownWithSave \/ ShutdownWithoutSave \/ CancelScheduler
            \/ Signal \/ GiveUpExitSave \/ UNCHANGED vars
  <2>1. /\ UNCHANGED <<trainItrs, globalStep, writing, snapshot, saved,
                       fatal, closeReason>>
        /\ gaveUp => gaveUp'
        /\ stop => stop'
        /\ sched' = sched \/ (sched' = "dead" /\ main' = "done")
        /\ main' = "exit_saving" => main = "exit_saving"
        /\ main = "done" => main' = "done"
        /\ main' \in {"closing", "done"} /\ ~fatal' /\ ~gaveUp' =>
             main \in {"closing", "done"} \/ closeReason = "STOP"
    BY <1>11
       DEF ShutdownWithSave, ShutdownWithoutSave, CancelScheduler, Signal,
           GiveUpExitSave, BeginClosing
  <2> QED
    BY <2>1, SaveFrame
<1> QED
  BY <1>1, <1>2, <1>3, <1>4, <1>5, <1>6, <1>7, <1>8, <1>9, <1>10, <1>11
     DEF Next, HandlerStep, SchedulerStep, SchedulerTrouble, MainStep,
         MainTrouble

LEMMA SaveInvariance == Spec => []SaveInv
<1>1. Init => SaveInv
  <2> SUFFICES ASSUME Init PROVE SaveInv
    OBVIOUS
  <2>1. saved.step = 0 /\ globalStep = 0 /\ writing = {}
    BY DEF Init, AlgorithmInit
  <2>2. SavedBehind /\ WritesCurrent
    BY <2>1 DEF SavedBehind, WritesCurrent
  <2>3. StopMeansSaved
    BY DEF Init, StopMeansSaved
  <2>4. /\ SavesWhatIs /\ WritersStopped /\ NoLearnAfterStop
        /\ NothingLost
    BY DEF Init, SavesWhatIs, WritersStopped, NoLearnAfterStop, NothingLost
  <2> QED
    BY <2>2, <2>3, <2>4 DEF SaveInv
<1>2. PolicyInv => StopsForGood
  BY DEF PolicyInv
<1> QED
  BY <1>1, <1>2, SaveNext, TypeInvariance, PolicyInvariance, PTL DEF Spec

(* Clients that are told training is over can rely on it: whatever fails   *)
(* or is interrupted, a checkpoint of the iteration now reached, and of    *)
(* the whole step budget, is the one a resume takes, and stays so.         *)
THEOREM StopMeansSavedHolds == Spec => []StopMeansSaved
<1>1. SaveInv => StopMeansSaved
  BY DEF SaveInv
<1> QED
  BY <1>1, SaveInvariance, PTL

(* A server that ends without a fatal error, and without giving its last   *)
(* save up, has every iteration it learned on disk: the learn step that    *)
(* the shutdown finds under way either ends before the save or never.      *)
THEOREM ShutdownLosesNoLearningHolds == Spec => []ShutdownLosesNoLearning
<1>1. SaveInv => ShutdownLosesNoLearning
  BY DEF SaveInv, NothingLost, ShutdownLosesNoLearning
<1> QED
  BY <1>1, SaveInvariance, PTL

-----------------------------------------------------------------------------
(* Samples.  No answer or sample is of a later policy than the one now     *)
(* collecting; when all are of earlier ones, none can be trained on until  *)
(* the next inference.                                                     *)
VersionsPast ==
  /\ \A c \in Conns : answer[c].version <= policyVersion
  /\ \A c \in Conns, e \in Envs : sampledBy[c][e].version <= policyVersion

Stale ==
  /\ \A c \in Conns :
       futures[c] = "answered" => answer[c].version # policyVersion
  /\ \A c \in Conns, e \in Envs : sampledBy[c][e].version # policyVersion

LEMMA SampleTypes ==
  ASSUME TypeInv
  PROVE  /\ policyVersion \in Nat
         /\ \A c \in Conns : answer[c].version \in Nat
         /\ \A c \in Conns, e \in Envs : sampledBy[c][e].version \in Int
<1>1. \A c \in Conns : answer[c] \in Sample
  BY DEF TypeInv, TypeOK, HandlersTypeOK
<1>2. \A c \in Conns, e \in Envs : sampledBy[c][e] \in Sample \cup {NoSample}
  BY DEF TypeInv, TypeOK, HandlersTypeOK
<1> QED
  BY <1>1, <1>2 DEF TypeInv, TypeOK, ServerTypeOK, Sample, NoSample

(* The end of a learn step makes every sample stale. *)
LEMMA SamplesBumped ==
  ASSUME TypeInv, VersionsPast, bump_version, UNCHANGED <<answer, sampledBy>>
  PROVE  VersionsPast' /\ Stale'
<1>1. policyVersion' = policyVersion + 1
  BY DEF bump_version
<1>2. VersionsPast'
  BY <1>1, SampleTypes DEF VersionsPast
<1>3. Stale'
  BY <1>1, SampleTypes DEF VersionsPast, Stale
<1> QED
  BY <1>2, <1>3

LEMMA SamplesFrame ==
  ASSUME VersionsPast, UNCHANGED <<answer, sampledBy, policyVersion>>,
         \A c \in Conns : futures'[c] = "answered" => futures[c] = "answered"
  PROVE  VersionsPast' /\ (Stale => Stale')
BY DEF VersionsPast, Stale

LEMMA SamplesNext ==
  ASSUME TypeInv, VersionsPast, [Next]_vars
  PROVE  /\ VersionsPast'
         /\ Stale => Infer \/ Stale'
         /\ policyVersion' # policyVersion => Stale'
<1> DEFINE Goal == /\ VersionsPast'
                   /\ Stale => Infer \/ Stale'
                   /\ policyVersion' # policyVersion => Stale'
<1>1. ASSUME NEW c \in Conns, Connect(c)
      PROVE  Goal
  <2>1. /\ UNCHANGED <<answer, policyVersion, futures>>
        /\ \A d \in Conns, e \in Envs :
             sampledBy'[d][e] = IF d = c THEN NoSample ELSE sampledBy[d][e]
    BY <1>1 DEF Connect, TypeInv, TypeOK, HandlersTypeOK
  <2>2. NoSample.version = -1
    BY DEF NoSample
  <2>3. VersionsPast'
    BY <2>1, <2>2, SampleTypes DEF VersionsPast
  <2>4. Stale => Stale'
    BY <2>1, <2>2, SampleTypes DEF Stale
  <2> QED
    BY <2>1, <2>3, <2>4
<1>2. ASSUME NEW c \in Conns, SendAction(c)
      PROVE  Goal
  <2>1. /\ UNCHANGED <<answer, policyVersion>>
        /\ futures[c] = "answered"
        /\ futures' = [futures EXCEPT ![c] = "none"]
        /\ \A d \in Conns, e \in Envs :
             \/ sampledBy'[d][e] = sampledBy[d][e]
             \/ d = c /\ sampledBy'[d][e] = answer[c]
    BY <1>2 DEF SendAction, pop_request, TypeInv, TypeOK, HandlersTypeOK
  <2>2. VersionsPast'
    BY <2>1 DEF VersionsPast
  <2>3. \A d \in Conns : futures'[d] = "answered" => futures[d] = "answered"
    BY <2>1 DEF TypeInv, TypeOK, CoordinatorTypeOK
  <2>4. Stale => Stale'
    BY <2>1, <2>3 DEF Stale
  <2> QED
    BY <2>1, <2>2, <2>4
<1>3. ASSUME NEW c \in Conns,
             \/ ClientStep(c) \/ HandlerTrouble(c) \/ Feed(c)
             \/ StopInFlight(c) \/ InferenceFailed(c)
             \/ ConnectionClosed(c) \/ HandlerFailed(c)
      PROVE  Goal
  <2>1. UNCHANGED <<answer, sampledBy, policyVersion>>
    <3>1. CASE ClientStep(c) \/ HandlerTrouble(c) \/ Feed(c)
      BY <3>1
         DEF ClientStep, RecvInfer, RecvFeedback, HandlerTrouble, FeedFault,
             Resync, FeedbackTimeout, MessageFault, Vanish, Feed
    <3>2. CASE StopInFlight(c)
      BY <3>2, Zenon DEF StopInFlight
    <3>3. CASE InferenceFailed(c) \/ ConnectionClosed(c) \/ HandlerFailed(c)
      BY <3>3 DEF InferenceFailed, ConnectionClosed, HandlerFailed
    <3> QED
      BY <1>3, <3>1, <3>2, <3>3
  <2>2. \A d \in Conns : futures'[d] = "answered" => futures[d] = "answered"
    <3>1. CASE RecvInfer(c)
      BY <3>1 DEF RecvInfer, Submit, TypeInv, TypeOK, CoordinatorTypeOK
    <3>2. CASE StopInFlight(c)
      BY <3>2
         DEF StopInFlight, pop_request, TypeInv, TypeOK, CoordinatorTypeOK
    <3>3. CASE ~RecvInfer(c) /\ ~StopInFlight(c)
      BY <1>3, <3>3
         DEF ClientStep, RecvFeedback, HandlerTrouble, FeedFault, Resync,
             FeedbackTimeout, MessageFault, Vanish, Feed, InferenceFailed,
             ConnectionClosed, HandlerFailed
    <3> QED
      BY <3>1, <3>2, <3>3
  <2> QED
    BY <2>1, <2>2, SamplesFrame
<1>4. CASE Infer
  <2>1. /\ UNCHANGED <<sampledBy, policyVersion>>
        /\ \A c \in Conns :
             \/ answer'[c] = answer[c]
             \/ answer'[c].version = policyVersion
    BY <1>4 DEF Infer
  <2>2. VersionsPast'
    BY <2>1, SampleTypes DEF VersionsPast
  <2> QED
    BY <1>4, <2>1, <2>2
<1>5. CASE FinishLearn \/ InterruptLearn \/ LearnFails
  BY <1>5, SamplesBumped DEF FinishLearn, InterruptLearn, LearnFails, EndLearn
<1>6. CASE CancelScheduler
  <2>1. CASE bump_version
    BY <1>6, <2>1, SamplesBumped DEF CancelScheduler
  <2>2. CASE UNCHANGED policyVars
    BY <1>6, <2>2, SamplesFrame DEF CancelScheduler
  <2> QED
    BY <1>6, <2>1, <2>2 DEF CancelScheduler, EndLearn
<1>7. CASE \/ LoopExit \/ StartInfer \/ SkipInfer \/ NothingToLearn
           \/ StartLearn \/ LastReport \/ NothingToSave \/ StartSave
           \/ FinishSave \/ Wake \/ InferFails \/ SaveFails
  <2>1. UNCHANGED <<answer, sampledBy, policyVersion>>
    BY <1>7
       DEF LoopExit, StartInfer, SkipInfer, NothingToLearn, StartLearn,
           LastReport, NothingToSave, StartSave, FinishSave, Wake,
           InferFails, SaveFails
  <2>2. \A d \in Conns : futures'[d] = "answered" => futures[d] = "answered"
    BY <1>7
       DEF LoopExit, StartInfer, SkipInfer, NothingToLearn, StartLearn,
           LastReport, NothingToSave, StartSave, FinishSave, Wake,
           InferFails, SaveFails, Resolve
  <2> QED
    BY <2>1, <2>2, SamplesFrame
<1>8. CASE \/ StartExitSave \/ ShutdownWithSave \/ ShutdownWithoutSave
           \/ FinishExitSave \/ Signal \/ ExitSaveFails \/ GiveUpExitSave
           \/ \E t \in Savers : FinishDetachedWrite(t)
           \/ UNCHANGED vars
  <2>1. /\ UNCHANGED <<answer, sampledBy, policyVersion>>
        /\ UNCHANGED futures \/ abort_pending_requests
    BY <1>8
       DEF StartExitSave, ShutdownWithSave, ShutdownWithoutSave,
           FinishExitSave, Signal, ExitSaveFails, GiveUpExitSave,
           BeginClosing, FinishDetachedWrite
  <2>2. \A d \in Conns : futures'[d] = "answered" => futures[d] = "answered"
    BY <2>1 DEF abort_pending_requests
  <2> QED
    BY <2>1, <2>2, SamplesFrame
<1> QED
  BY <1>1, <1>2, <1>3, <1>4, <1>5, <1>6, <1>7, <1>8
     DEF Next, NewConnection, HandlerStep, SchedulerStep, SchedulerTrouble,
         MainStep, MainTrouble

LEMMA SamplesInit == Init => VersionsPast
<1> SUFFICES ASSUME Init PROVE VersionsPast
  OBVIOUS
<1>1. /\ policyVersion = 0
      /\ \A c \in Conns : answer[c].version = 0
  BY DEF Init
<1>2. \A c \in Conns, e \in Envs : sampledBy[c][e].version = -1
  BY DEF Init, NoSample
<1> QED
  BY <1>1, <1>2 DEF VersionsPast

-----------------------------------------------------------------------------
(* Steps.  A budget of steps is not exceeded: once it is spent and the     *)
(* last buffer learned from, every sample is stale and the server does     *)
(* nothing but save and stop.                                              *)
Over == StepBudget /\ globalStep >= GlobalSteps /\ Len(buffer) = 0

OnlyStops ==
  \/ sched \in {"may_save", "saving", "dead"}
  \/ stop /\ sched \in {"top", "idle"}

WithinBudget == StepBudget => globalStep <= GlobalSteps

NothingAfterBudget == Over => Stale /\ OnlyStops

StepsInv ==
  VersionsPast /\ StepsAccounted /\ WithinBudget /\ NothingAfterBudget

LEMMA Successor ==
  ASSUME NEW k \in Nat, NEW b \in Nat
  PROVE  k * b \in Nat /\ (k + 1) * b = k * b + b
OBVIOUS

LEMMA StepTypes ==
  ASSUME TypeInv
  PROVE  /\ Len(buffer) \in Nat /\ Len(buffer) <= BufferSize
         /\ globalStep \in Nat /\ trainItrs \in Nat
         /\ BufferSize \in Nat /\ BufferSize # 0
         /\ GlobalSteps \in Nat /\ TrainItrs \in Nat
         /\ trainItrs * BufferSize \in Nat
         /\ (trainItrs + 1) * BufferSize = trainItrs * BufferSize + BufferSize
<1>1. /\ Len(buffer) \in Nat /\ Len(buffer) <= BufferSize
      /\ globalStep \in Nat /\ trainItrs \in Nat
      /\ BufferSize \in Nat /\ BufferSize # 0
      /\ GlobalSteps \in Nat /\ TrainItrs \in Nat
  BY LenProperties, AlgorithmAssumption DEF TypeInv, TypeOK, AlgorithmTypeOK
<1> QED
  BY <1>1, Successor

(* The scheduler, once the budget is spent and learned from. *)
LEMMA OnlyStopsStays ==
  ASSUME OnlyStops, Over, UNCHANGED <<buffer, globalStep>>, [Next]_vars
  PROVE  OnlyStops'
<1>1. should_stop
  BY DEF Over, should_stop
<1>2. ASSUME NEW c \in Conns,
             \/ NewConnection(c) \/ ClientStep(c) \/ HandlerTrouble(c)
             \/ SendAction(c) \/ StopInFlight(c) \/ InferenceFailed(c)
             \/ ConnectionClosed(c) \/ HandlerFailed(c)
      PROVE  OnlyStops'
  <2>1. CASE HandlerFailed(c)
    BY <2>1, HandlerFailedFrame DEF OnlyStops
  <2>2. CASE ~HandlerFailed(c)
    BY <1>2, <2>2, HandlerFrame DEF OnlyStops
  <2> QED
    BY <2>1, <2>2
<1>3. ASSUME NEW c \in Conns, Feed(c)
      PROVE  OnlyStops'
  BY <1>3 DEF Feed, OnlyStops
<1>4. CASE SchedulerStep
  <2>1. CASE LoopExit \/ StartInfer \/ SkipInfer \/ Wake
    BY <2>1 DEF LoopExit, StartInfer, SkipInfer, Wake, OnlyStops
  <2>2. CASE \/ Infer \/ NothingToLearn \/ StartLearn \/ LastReport
             \/ FinishLearn \/ InterruptLearn
    BY <2>2
       DEF Infer, NothingToLearn, StartLearn, LastReport, FinishLearn,
           InterruptLearn, OnlyStops
  <2>3. CASE NothingToSave \/ StartSave \/ FinishSave
    BY <1>1, <2>3
       DEF NothingToSave, StartSave, FinishSave, AfterControl, OnlyStops
  <2> QED
    BY <1>4, <2>1, <2>2, <2>3 DEF SchedulerStep
<1>5. CASE SchedulerTrouble
  BY <1>5 DEF SchedulerTrouble, InferFails, LearnFails, SaveFails, OnlyStops
<1>6. CASE \/ MainStep \/ MainTrouble
           \/ \E t \in Savers : FinishDetachedWrite(t)
           \/ UNCHANGED vars
  <2>1. /\ sched' = sched \/ sched' = "dead"
        /\ stop => stop'
    BY <1>6
       DEF MainStep, MainTrouble, StartExitSave, ShutdownWithSave,
           ShutdownWithoutSave, FinishExitSave, CancelScheduler, Signal,
           ExitSaveFails, GiveUpExitSave, BeginClosing, FinishDetachedWrite
  <2> QED
    BY <2>1 DEF OnlyStops
<1> QED
  BY <1>2, <1>3, <1>4, <1>5, <1>6 DEF Next, HandlerStep

LEMMA StepsFrame ==
  ASSUME TypeInv, StepsInv, [Next]_vars,
         UNCHANGED <<buffer, globalStep, trainItrs>>
  PROVE  StepsInv'
<1>1. StepsAccounted' /\ WithinBudget'
  BY DEF StepsInv, StepsAccounted, WithinBudget
<1>2. VersionsPast' /\ (Stale => Infer \/ Stale')
  BY SamplesNext DEF StepsInv
<1>3. ASSUME Over PROVE Stale' /\ OnlyStops'
  <2>1. ~Infer
    BY <1>3 DEF StepsInv, NothingAfterBudget, OnlyStops, Infer
  <2> QED
    BY <1>2, <1>3, <2>1, OnlyStopsStays DEF StepsInv, NothingAfterBudget
<1>4. Over' => Over
  BY DEF Over
<1> QED
  BY <1>1, <1>2, <1>3, <1>4 DEF StepsInv, NothingAfterBudget

LEMMA StepsNext == TypeInv /\ PolicyInv /\ StepsInv /\ [Next]_vars => StepsInv'
<1> SUFFICES ASSUME TypeInv, PolicyInv, StepsInv, [Next]_vars
             PROVE  StepsInv'
  OBVIOUS
<1> DEFINE n == Len(buffer)
           m == trainItrs * BufferSize
<1>1. ASSUME NEW c \in Conns, Feed(c)
      PROVE  StepsInv'
  <2> DEFINE e == Head(todo[c])
  <2>1. CASE Discard(c, e)
    <3>1. UNCHANGED <<buffer, globalStep, trainItrs>>
      BY <2>1 DEF Discard
    <3> QED
      BY <3>1, StepsFrame
  <2>2. CASE Store(c, e)
    <3>1. e \in Envs
      BY <1>1, HeadTailProperties
         DEF Feed, TypeInv, TypeOK, FramesLeft, HandlersTypeOK
    <3> HIDE DEF e
    <3>2. /\ ~full /\ ~should_learn
          /\ sampledBy[c][e].version = policyVersion
          /\ Len(buffer') = n + 1 /\ globalStep' = globalStep + 1
          /\ trainItrs' = trainItrs
      <4>1. /\ ~full /\ ~should_learn
            /\ sampledBy[c][e].version = policyVersion
            /\ globalStep' = globalStep + 1 /\ trainItrs' = trainItrs
        BY <2>2 DEF Store, trains_on, should_learn, feedback
      <4>2. PICK f : buffer' = Append(buffer, f)
        BY <2>2, <4>1 DEF Store, feedback
      <4>3. Len(buffer') = n + 1
        BY <4>2, AppendProperties DEF TypeInv, TypeOK, AlgorithmTypeOK
      <4> QED
        BY <4>1, <4>3
    <3>3. ~Over
      BY <3>1, <3>2 DEF StepsInv, NothingAfterBudget, Stale
    <3>4. StepBudget => globalStep < GlobalSteps
      BY <3>2, <3>3, StepTypes DEF Over, should_learn
    <3>5. WithinBudget' /\ StepsAccounted'
      BY <3>2, <3>4, StepTypes DEF StepsInv, WithinBudget, StepsAccounted
    <3>6. NothingAfterBudget'
      <4>1. Len(buffer') # 0
        BY <3>2, StepTypes
      <4> QED
        BY <4>1 DEF NothingAfterBudget, Over
    <3>7. VersionsPast'
      BY SamplesNext DEF StepsInv
    <3> QED
      BY <3>5, <3>6, <3>7 DEF StepsInv
  <2> QED
    BY <1>1, <2>1, <2>2 DEF Feed
<1>2. CASE FinishLearn
  <2>1. /\ sched = "learnt" /\ sched' = "may_save"
        /\ buffer' = <<>> /\ trainItrs' = trainItrs + 1
        /\ globalStep' = globalStep
        /\ policyVersion' = policyVersion + 1
    BY <1>2 DEF FinishLearn, learn, EndLearn, bump_version
  <2>2. Len(buffer') = 0
    BY <2>1
  <2>3. should_learn
    BY <2>1 DEF PolicyInv, LearnsWhenAsked
  <2>4. /\ n > 0
        /\ n = BufferSize \/ (StepBudget /\ globalStep >= GlobalSteps)
    BY <2>3, StepTypes DEF should_learn, full
  <2>5. WithinBudget'
    BY <2>1 DEF StepsInv, WithinBudget
  <2>6. StepsAccounted'
    <3>1. trainItrs' * BufferSize = m + BufferSize
      BY <2>1, StepTypes
    <3> HIDE DEF m
    <3>2. m \in Nat
      BY StepTypes DEF m
    <3>3. globalStep - n = IF StepBudget /\ m > GlobalSteps
                           THEN GlobalSteps ELSE m
      BY DEF StepsInv, StepsAccounted, m
    <3>4. /\ n \in Nat /\ n <= BufferSize /\ BufferSize \in Nat
          /\ globalStep \in Nat /\ GlobalSteps \in Nat
          /\ StepBudget => globalStep <= GlobalSteps
      BY StepTypes DEF StepsInv, WithinBudget
    <3> HIDE DEF n
    <3>5. globalStep = IF StepBudget /\ m + BufferSize > GlobalSteps
                       THEN GlobalSteps ELSE m + BufferSize
      BY <2>4, <3>2, <3>3, <3>4
    <3>6. globalStep' - Len(buffer') = globalStep
      BY <2>1, <2>2, <3>4
    <3> QED
      BY <3>1, <3>5, <3>6 DEF StepsAccounted
  <2>7. VersionsPast' /\ Stale'
    BY <2>1, SampleTypes, SamplesNext DEF StepsInv
  <2>8. NothingAfterBudget'
    BY <2>1, <2>7 DEF NothingAfterBudget, OnlyStops
  <2> QED
    BY <2>5, <2>6, <2>7, <2>8 DEF StepsInv
<1>3. ASSUME NEW c \in Conns,
             \/ NewConnection(c) \/ ClientStep(c) \/ HandlerTrouble(c)
             \/ SendAction(c) \/ StopInFlight(c) \/ InferenceFailed(c)
             \/ ConnectionClosed(c) \/ HandlerFailed(c)
      PROVE  UNCHANGED <<buffer, globalStep, trainItrs>>
  <2>1. CASE HandlerFailed(c)
    BY <2>1, HandlerFailedFrame
  <2>2. CASE ~HandlerFailed(c)
    BY <1>3, <2>2, HandlerFrame
  <2> QED
    BY <2>1, <2>2
<1>4. CASE \/ LoopExit \/ StartInfer \/ SkipInfer \/ Infer \/ NothingToLearn
           \/ StartLearn \/ LastReport \/ InterruptLearn \/ NothingToSave
           \/ StartSave \/ FinishSave \/ Wake \/ SchedulerTrouble
           \/ MainStep \/ MainTrouble
           \/ \E t \in Savers : FinishDetachedWrite(t)
           \/ UNCHANGED vars
  <2>1. UNCHANGED <<buffer, globalStep, trainItrs>>
    <3>1. CASE StartSave \/ FinishSave \/ SchedulerTrouble
      BY <3>1
         DEF StartSave, FinishSave, StartWrite, create_checkpoint,
             SchedulerTrouble, InferFails, LearnFails, SaveFails
    <3>2. CASE MainStep \/ MainTrouble
      BY <3>2
         DEF MainStep, MainTrouble, StartExitSave, StartWrite,
             create_checkpoint, ShutdownWithSave, ShutdownWithoutSave,
             FinishExitSave, CancelScheduler, Signal, ExitSaveFails,
             GiveUpExitSave
    <3>3. CASE \/ LoopExit \/ StartInfer \/ SkipInfer \/ Infer
               \/ NothingToLearn \/ StartLearn \/ LastReport
               \/ InterruptLearn \/ NothingToSave \/ Wake
               \/ \E t \in Savers : FinishDetachedWrite(t)
               \/ UNCHANGED vars
      BY <3>3
         DEF LoopExit, StartInfer, SkipInfer, Infer, NothingToLearn,
             StartLearn, LastReport, InterruptLearn, NothingToSave, Wake,
             FinishDetachedWrite
    <3> QED
      BY <1>4, <3>1, <3>2, <3>3
  <2> QED
    BY <2>1, StepsFrame
<1> QED
  BY <1>1, <1>2, <1>3, <1>4, StepsFrame DEF Next, HandlerStep, SchedulerStep

(* A run with a budget of steps has one to take. *)
LEMMA StepsInvariance ==
  ASSUME StepBudget => GlobalSteps > 0
  PROVE  Spec => []StepsInv
<1>1. Init => StepsInv
  <2> SUFFICES ASSUME Init PROVE StepsInv
    OBVIOUS
  <2>1. buffer = <<>> /\ globalStep = 0 /\ trainItrs = 0
    BY DEF Init, AlgorithmInit
  <2>2. Len(buffer) = 0 /\ trainItrs * BufferSize = 0
    BY <2>1, AlgorithmAssumption
  <2>3. GlobalSteps \in Nat
    BY AlgorithmAssumption
  <2>4. ~Over
    BY <2>1, <2>3 DEF Over
  <2>5. WithinBudget /\ NothingAfterBudget
    BY <2>1, <2>3, <2>4 DEF WithinBudget, NothingAfterBudget
  <2>6. StepsAccounted
    BY <2>1, <2>2, <2>3 DEF StepsAccounted
  <2> QED
    BY <2>5, <2>6, SamplesInit DEF StepsInv
<1> QED
  BY <1>1, StepsNext, TypeInvariance, PolicyInvariance, PTL DEF Spec

(* Every step counted was learned from or is in the buffer, in whichever   *)
(* order frames, learn steps and interruptions come; and a run with a      *)
(* budget of steps counts no step beyond it: after the last learn step no  *)
(* sample that is still out can be trained on.                             *)
THEOREM StepsAccountedHolds ==
  ASSUME StepBudget => GlobalSteps > 0
  PROVE  Spec => []StepsAccounted
<1>1. StepsInv => StepsAccounted
  BY DEF StepsInv
<1> QED
  BY <1>1, StepsInvariance, PTL

-----------------------------------------------------------------------------
(* A run that nobody interrupts and where nothing fails: the only stop is  *)
(* the one that the algorithm asks for.                                    *)
Calm ==
  /\ ~fatal /\ main \in {"serving", "closing", "done"}
  /\ stop <=> closeReason = "STOP"
  /\ \A c \in Conns : pc[c] # "failing" /\ futures[c] # "failed"

LEMMA CalmFrame ==
  ASSUME Calm, UNCHANGED <<stop, fatal, closeReason>>,
         main' \in {"serving", "closing", "done"},
         \A c \in Conns : pc'[c] # "failing" /\ futures'[c] # "failed"
  PROVE  Calm'
BY DEF Calm

LEMMA CalmNext ==
  ASSUME "signal" \notin Disturbances, "fault" \notin Disturbances,
         TypeInv, Calm, [Next]_vars
  PROVE  Calm'
<1>1. ASSUME NEW c \in Conns,
             \/ NewConnection(c) \/ ClientStep(c) \/ HandlerTrouble(c)
             \/ SendAction(c) \/ StopInFlight(c) \/ InferenceFailed(c)
             \/ ConnectionClosed(c) \/ HandlerFailed(c)
      PROVE  Calm'
  <2>1. ~InferenceFailed(c) /\ ~HandlerFailed(c)
    BY DEF Calm, InferenceFailed, HandlerFailed
  <2>2. ~FeedFault(c) /\ ~MessageFault(c)
    BY DEF FeedFault, MessageFault
  <2>3. \A d \in Conns : pc'[d] # "failing" /\ futures'[d] # "failed"
    <3>1. CASE NewConnection(c) \/ ClientStep(c)
      BY <3>1
         DEF NewConnection, Connect, ClientStep, RecvInfer, RecvFeedback,
             Submit, Calm, TypeInv, TypeOK, HandlersTypeOK, CoordinatorTypeOK
    <3>2. CASE HandlerTrouble(c)
      BY <2>2, <3>2
         DEF HandlerTrouble, Resync, FeedbackTimeout, Vanish, CloseSocket,
             Calm, TypeInv, TypeOK, HandlersTypeOK
    <3>3. CASE SendAction(c) \/ StopInFlight(c)
      <4>1. /\ futures' = [futures EXCEPT ![c] = "none"]
            /\ \E s \in {"off", "recv_feedback", "closing"} :
                 pc' = [pc EXCEPT ![c] = s]
        BY <3>3 DEF SendAction, StopInFlight, pop_request, Leave, CloseSocket
      <4> QED
        BY <4>1 DEF Calm, TypeInv, TypeOK, HandlersTypeOK, CoordinatorTypeOK
    <3>4. CASE ConnectionClosed(c)
      BY <3>4
         DEF ConnectionClosed, Leave, Calm, TypeInv, TypeOK, HandlersTypeOK
    <3> QED
      BY <1>1, <2>1, <3>1, <3>2, <3>3, <3>4
  <2>4. UNCHANGED lifecycleVars
    BY <1>1, <2>1, HandlerFrame
  <2> QED
    BY <2>3, <2>4, CalmFrame DEF Calm
<1>2. ASSUME NEW c \in Conns, Feed(c)
      PROVE  Calm'
  <2>1. UNCHANGED <<futures, lifecycleVars>>
    BY <1>2 DEF Feed
  <2>2. \A d \in Conns : pc'[d] # "failing"
    BY <1>2 DEF Feed, Calm, TypeInv, TypeOK, HandlersTypeOK
  <2> QED
    BY <2>1, <2>2, CalmFrame DEF Calm
<1>3. CASE \/ LoopExit \/ StartInfer \/ SkipInfer \/ NothingToLearn
           \/ StartLearn \/ LastReport \/ FinishLearn \/ InterruptLearn
           \/ NothingToSave \/ StartSave \/ Wake
  <2>1. UNCHANGED <<pc, futures, lifecycleVars>>
    BY <1>3
       DEF LoopExit, StartInfer, SkipInfer, NothingToLearn, StartLearn,
           LastReport, FinishLearn, InterruptLearn, NothingToSave,
           StartSave, Wake
  <2> QED
    BY <2>1, CalmFrame DEF Calm
<1>4. CASE Infer
  <2>1. /\ UNCHANGED <<pc, lifecycleVars>>
        /\ \A c \in Conns : futures'[c] \in {"answered", futures[c]}
    BY <1>4 DEF Infer, Resolve
  <2> QED
    BY <2>1, CalmFrame DEF Calm
<1>5. CASE FinishSave
  <2>1. /\ UNCHANGED <<pc, futures, main, fatal>>
        /\ \/ closeReason' = "STOP" /\ stop' = TRUE
           \/ UNCHANGED <<closeReason, stop>>
    BY <1>5 DEF FinishSave
  <2> QED
    BY <2>1 DEF Calm
<1>6. ~SchedulerTrouble
  BY DEF SchedulerTrouble, InferFails, LearnFails, SaveFails
<1>7. CASE MainStep \/ MainTrouble
  <2>1. CASE ShutdownWithoutSave \/ CancelScheduler
    <3>1. /\ UNCHANGED <<pc, stop, fatal, closeReason>>
          /\ main' \in {"closing", "done"}
          /\ \A c \in Conns : futures'[c] \in {"stopping", futures[c]}
      BY <2>1
         DEF ShutdownWithoutSave, CancelScheduler, BeginClosing,
             abort_pending_requests
    <3> QED
      BY <3>1, CalmFrame DEF Calm
  <2>2. CASE \/ StartExitSave \/ ShutdownWithSave \/ FinishExitSave
             \/ Signal \/ ExitSaveFails \/ GiveUpExitSave
    BY <2>2
       DEF StartExitSave, ShutdownWithSave, FinishExitSave, Signal,
           ExitSaveFails, GiveUpExitSave, Calm
  <2> QED
    BY <1>7, <2>1, <2>2 DEF MainStep, MainTrouble
<1>8. CASE (\E t \in Savers : FinishDetachedWrite(t)) \/ UNCHANGED vars
  <2>1. UNCHANGED <<pc, futures, lifecycleVars>>
    BY <1>8 DEF FinishDetachedWrite
  <2> QED
    BY <2>1, CalmFrame DEF Calm
<1> QED
  BY <1>1, <1>2, <1>3, <1>4, <1>5, <1>6, <1>7, <1>8
     DEF Next, HandlerStep, SchedulerStep

LEMMA CalmInit == Init => Calm
BY DEF Init, CoordinatorInit, Calm

-----------------------------------------------------------------------------
(* Who holds the lock or waits for it, in a calm run that has not ended:   *)
(* the handlers with a message to process, and the scheduler from asking   *)
(* for the lock to releasing it for good, each once.                       *)
LockStates == {"infer", "may_learn", "learning", "learnt", "may_save", "saving"}

Claimants ==
  {c \in Conns : pc[c] = "await_lock"}
    \cup {t \in {"scheduler"} : sched \in LockStates}

LockClaims == main # "done" => Once(lockQueue) /\ ToSet(lockQueue) = Claimants

LEMMA TailOnce ==
  ASSUME NEW S, NEW s \in Seq(S), s # <<>>, Once(s)
  PROVE  /\ Tail(s) \in Seq(S) /\ Once(Tail(s))
         /\ ToSet(Tail(s)) = ToSet(s) \ {Head(s)}
<1>1. /\ Len(s) \in Nat /\ Len(s) # 0 /\ DOMAIN s = 1 .. Len(s)
      /\ Head(s) = s[1] /\ Tail(s) \in Seq(S)
      /\ DOMAIN Tail(s) = 1 .. Len(s) - 1
      /\ \A i \in 1 .. Len(s) - 1 : Tail(s)[i] = s[i + 1]
  BY LenProperties, HeadTailProperties, EmptySeq
<1>2. ASSUME NEW i \in DOMAIN Tail(s)
      PROVE  /\ i + 1 \in DOMAIN s /\ i + 1 # 1
             /\ Tail(s)[i] = s[i + 1] /\ i \in Int
  BY <1>1
<1>3. Once(Tail(s))
  <2>1. ASSUME NEW i \in DOMAIN Tail(s), NEW j \in DOMAIN Tail(s),
               Tail(s)[i] = Tail(s)[j]
        PROVE  i = j
    <3>1. i + 1 = j + 1
      BY <1>2, <2>1 DEF Once
    <3> QED
      BY <1>2, <3>1
  <2> QED
    BY <2>1 DEF Once
<1>4. ASSUME NEW x \in ToSet(Tail(s))
      PROVE  x \in ToSet(s) \ {Head(s)}
  <2>1. PICK i \in DOMAIN Tail(s) : x = Tail(s)[i]
    BY DEF ToSet
  <2>2. x \in ToSet(s)
    BY <1>2, <2>1 DEF ToSet
  <2>3. x # s[1]
    BY <1>1, <1>2, <2>1 DEF Once
  <2> QED
    BY <1>1, <2>2, <2>3
<1>5. ASSUME NEW x \in ToSet(s) \ {Head(s)}
      PROVE  x \in ToSet(Tail(s))
  <2>1. PICK i \in DOMAIN s : x = s[i]
    BY DEF ToSet
  <2>2. i - 1 \in DOMAIN Tail(s) /\ Tail(s)[i - 1] = x
    BY <1>1, <2>1
  <2> QED
    BY <2>2 DEF ToSet
<1> QED
  BY <1>1, <1>3, <1>4, <1>5

LEMMA ClaimsFrame ==
  ASSUME LockClaims, UNCHANGED lockQueue, Claimants' = Claimants,
         main' # "done" => main # "done"
  PROVE  LockClaims'
BY DEF LockClaims

LEMMA ClaimAdded ==
  ASSUME TypeInv, LockClaims, NEW t \in Tasks, t \notin Claimants,
         lockQueue' = Append(lockQueue, t), Claimants' = Claimants \cup {t},
         UNCHANGED main
  PROVE  LockClaims'
<1>1. lockQueue \in Seq(Tasks)
  BY DEF TypeInv, TypeOK, ServerTypeOK
<1> QED
  BY <1>1, AppendOnce DEF LockClaims

LEMMA ClaimReleased ==
  ASSUME TypeInv, LockClaims, NEW t, Holds(t), lockQueue' = Released,
         Claimants' = Claimants \ {t}, UNCHANGED main
  PROVE  LockClaims'
<1>1. lockQueue \in Seq(Tasks)
  BY DEF TypeInv, TypeOK, ServerTypeOK
<1> QED
  BY <1>1, TailOnce DEF LockClaims, Holds, Released

(* The holder goes to the end of the queue. *)
LEMMA ClaimRenewed ==
  ASSUME TypeInv, LockClaims, NEW t \in Tasks, Holds(t),
         lockQueue' = Append(Released, t), Claimants' = Claimants,
         t \in Claimants, UNCHANGED main
  PROVE  LockClaims'
<1>1. lockQueue \in Seq(Tasks)
  BY DEF TypeInv, TypeOK, ServerTypeOK
<1>2. ASSUME main # "done"
      PROVE  Once(lockQueue') /\ ToSet(lockQueue') = Claimants
  <2>1. /\ Released \in Seq(Tasks) /\ Once(Released)
        /\ ToSet(Released) = ToSet(lockQueue) \ {t}
    BY <1>1, <1>2, TailOnce DEF LockClaims, Holds, Released
  <2> HIDE DEF Released
  <2>2. /\ Once(lockQueue')
        /\ ToSet(lockQueue') = ToSet(Released) \cup {t}
    BY <2>1, AppendOnce
  <2>3. ToSet(lockQueue) = Claimants
    BY <1>2 DEF LockClaims
  <2> QED
    BY <2>1, <2>2, <2>3
<1> QED
  BY <1>2 DEF LockClaims


LEMMA ClaimsNext ==
  ASSUME "fault" \notin Disturbances, TypeInv, Calm, LockClaims, [Next]_vars
  PROVE  LockClaims'
<1>1. ASSUME NEW c \in Conns, RecvFeedback(c)
      PROVE  LockClaims'
  <2>1. /\ pc[c] = "recv_feedback" /\ pc' = [pc EXCEPT ![c] = "await_lock"]
        /\ lockQueue' = Append(lockQueue, c) /\ UNCHANGED <<sched, main>>
    BY <1>1 DEF RecvFeedback, Acquire
  <2>2. c \notin Claimants /\ Claimants' = Claimants \cup {c}
    BY <2>1, ServerAssumption
       DEF Claimants, TypeInv, TypeOK, HandlersTypeOK
  <2> QED
    BY <2>1, <2>2, ClaimAdded DEF Tasks
<1>2. ASSUME NEW c \in Conns, Feed(c)
      PROVE  LockClaims'
  <2>1. CASE UNCHANGED <<pc, lockQueue>>
    <3>1. UNCHANGED <<sched, main>>
      BY <1>2 DEF Feed
    <3> QED
      BY <2>1, <3>1, ClaimsFrame DEF Claimants
  <2>2. CASE pc' = [pc EXCEPT ![c] = "recv_infer"] /\ lockQueue' = Released
    <3>1. UNCHANGED <<sched, main>> /\ Holds(c)
      BY <1>2 DEF Feed
    <3>2. Claimants' = Claimants \ {c}
      BY <2>2, <3>1, ServerAssumption
         DEF Claimants, TypeInv, TypeOK, HandlersTypeOK
    <3> QED
      BY <2>2, <3>1, <3>2, ClaimReleased
  <2> QED
    BY <1>2, <2>1, <2>2 DEF Feed
<1>3. ASSUME NEW c \in Conns,
             \/ NewConnection(c) \/ RecvInfer(c) \/ HandlerTrouble(c)
             \/ SendAction(c) \/ StopInFlight(c) \/ InferenceFailed(c)
             \/ ConnectionClosed(c) \/ HandlerFailed(c)
      PROVE  LockClaims'
  <2>1. UNCHANGED <<lockQueue, sched, main>>
    <3>1. CASE NewConnection(c) \/ RecvInfer(c)
      BY <3>1 DEF NewConnection, Connect, RecvInfer
    <3>2. CASE HandlerTrouble(c)
      BY <3>2
         DEF HandlerTrouble, FeedFault, Resync, FeedbackTimeout,
             MessageFault, Vanish
    <3>3. CASE SendAction(c) \/ StopInFlight(c)
      BY <3>3, Zenon DEF SendAction, StopInFlight
    <3>4. CASE InferenceFailed(c) \/ ConnectionClosed(c) \/ HandlerFailed(c)
      BY <3>4 DEF InferenceFailed, ConnectionClosed, HandlerFailed, handle_fatal
    <3> QED
      BY <1>3, <3>1, <3>2, <3>3, <3>4
  <2>2. /\ pc[c] # "await_lock" \/ UNCHANGED pc
        /\ \E s \in HandlerState \ {"await_lock"} : pc' = [pc EXCEPT ![c] = s]
           \/ UNCHANGED pc
    <3>1. CASE NewConnection(c) \/ RecvInfer(c)
      BY <3>1 DEF NewConnection, Connect, RecvInfer, HandlerState
    <3>2. CASE HandlerTrouble(c)
      BY <3>2
         DEF HandlerTrouble, FeedFault, Resync, FeedbackTimeout,
             MessageFault, Vanish, CloseSocket, HandlerState
    <3>3. CASE SendAction(c) \/ StopInFlight(c)
      BY <3>3 DEF SendAction, StopInFlight, Leave, CloseSocket, HandlerState
    <3>4. CASE InferenceFailed(c) \/ ConnectionClosed(c) \/ HandlerFailed(c)
      BY <3>4
         DEF InferenceFailed, ConnectionClosed, HandlerFailed, Leave,
             CloseSocket, HandlerState
    <3> QED
      BY <1>3, <3>1, <3>2, <3>3, <3>4
  <2>3. \A d \in Conns : pc'[d] = "await_lock" <=> pc[d] = "await_lock"
    BY <2>2 DEF TypeInv, TypeOK, HandlersTypeOK
  <2>4. Claimants' = Claimants
    BY <2>1, <2>3 DEF Claimants
  <2> QED
    BY <2>1, <2>4, ClaimsFrame
<1>4. "scheduler" \in Tasks /\ "scheduler" \notin Conns
  BY ServerAssumption DEF Tasks, Savers
<1>5. CASE StartInfer \/ SkipInfer
  <2>1. /\ sched = "top" /\ sched' \in LockStates
        /\ lockQueue' = Append(lockQueue, "scheduler")
        /\ UNCHANGED <<pc, main>>
    BY <1>5 DEF StartInfer, SkipInfer, Acquire, LockStates
  <2>2. /\ "scheduler" \notin Claimants
        /\ Claimants' = Claimants \cup {"scheduler"}
    BY <1>4, <2>1 DEF Claimants, LockStates
  <2> QED
    BY <1>4, <2>1, <2>2, ClaimAdded
<1>6. CASE Infer \/ NothingToLearn \/ FinishLearn \/ InterruptLearn
  <2>1. /\ sched \in LockStates /\ sched' \in LockStates
        /\ lockQueue' = Append(Released, "scheduler")
        /\ UNCHANGED <<pc, main>>
    BY <1>6
       DEF Infer, NothingToLearn, FinishLearn, InterruptLearn, Acquire,
           LockStates
  <2>2. Holds("scheduler")
    BY <1>6
       DEF Infer, NothingToLearn, FinishLearn, InterruptLearn, TypeInv,
           LockDiscipline
  <2>3. "scheduler" \in Claimants /\ Claimants' = Claimants
    BY <2>1 DEF Claimants
  <2> QED
    BY <1>4, <2>1, <2>2, <2>3, ClaimRenewed
<1>7. CASE NothingToSave \/ FinishSave
  <2>1. /\ sched \in LockStates /\ sched' \notin LockStates
        /\ lockQueue' = Released
        /\ UNCHANGED <<pc, main>>
    BY <1>7 DEF NothingToSave, FinishSave, AfterControl, LockStates
  <2>2. Holds("scheduler")
    BY <1>7 DEF NothingToSave, FinishSave, TypeInv, LockDiscipline
  <2>3. Claimants' = Claimants \ {"scheduler"}
    BY <1>4, <2>1 DEF Claimants
  <2> QED
    BY <2>1, <2>2, <2>3, ClaimReleased
<1>8. CASE \/ LoopExit \/ Wake \/ StartLearn \/ LastReport \/ StartSave
           \/ ShutdownWithoutSave
           \/ \E t \in Savers : FinishDetachedWrite(t)
           \/ UNCHANGED vars
  <2>1. /\ UNCHANGED <<pc, lockQueue>>
        /\ sched \in LockStates <=> sched' \in LockStates
        /\ main' # "done" => main # "done"
    BY <1>8
       DEF LoopExit, Wake, StartLearn, LastReport, StartSave,
           ShutdownWithoutSave, BeginClosing, FinishDetachedWrite, LockStates
  <2>2. Claimants' = Claimants
    BY <2>1 DEF Claimants
  <2> QED
    BY <2>1, <2>2, ClaimsFrame
<1>9. CASE CancelScheduler
  BY <1>9 DEF CancelScheduler, LockClaims
<1>10. ~SchedulerTrouble
  BY DEF SchedulerTrouble, InferFails, LearnFails, SaveFails
<1>11. CASE Signal
  <2>1. UNCHANGED <<pc, lockQueue, sched, main>>
    BY <1>11 DEF Signal
  <2> QED
    BY <2>1, ClaimsFrame DEF Claimants
<1>12. ~(\/ StartExitSave \/ ShutdownWithSave \/ FinishExitSave
         \/ ExitSaveFails \/ GiveUpExitSave)
  BY DEF StartExitSave, ShutdownWithSave, FinishExitSave, ExitSaveFails,
         GiveUpExitSave, Calm
<1> QED
  BY <1>1, <1>2, <1>3, <1>5, <1>6, <1>7, <1>8, <1>9, <1>10, <1>11, <1>12
     DEF Next, ClientStep, HandlerStep, SchedulerStep, MainStep, MainTrouble

(* When every connection waits for its answer, nobody claims the lock but  *)
(* the scheduler: it infers for a batch that leaves no handler out.        *)
LEMMA InfersAlone ==
  ASSUME TypeInv, CountInv, RequestInv, LockClaims,
         MiniInferBatchSize = 0, main \notin {"closing", "done"},
         sched = "top", should_infer
  PROVE  lockQueue = <<>>
<1> DEFINE T == ToSet(queue)
           n == Len(queue)
<1>1. /\ n \in Nat /\ queue \in [1 .. n -> T] /\ Once(queue)
      /\ \A c \in T : \E i \in 1 .. n : queue[i] = c
  BY LenProperties
     DEF TypeInv, TypeOK, CoordinatorTypeOK, RequestInv, Tracked, ToSet
<1>2. Cardinality(T) = n
  <2> HIDE DEF n, T
  <2>1. queue \in Bijection(1 .. n, T)
    BY <1>1 DEF Bijection, Injection, Surjection, IsInjective, Once
  <2>2. ExistsBijection(1 .. n, T)
    BY <2>1 DEF ExistsBijection
  <2> QED
    BY <1>1, <2>2, FS_CountingElements
<1>3. n >= totalConnections
  BY DEF should_infer, ready_count, infer_threshold
<1>4. \A c \in T : c \in Conns /\ pc[c] = "await_response"
  <2>1. T \subseteq Conns
    BY DEF TypeInv, TypeOK, CoordinatorTypeOK, ToSet
  <2> QED
    BY <2>1 DEF RequestInv, Waiting, Tracked
<1>5. T \subseteq AtWork
  BY <1>4 DEF AtWork
<1>6. T = AtWork
  <2>1. /\ IsFiniteSet(AtWork) /\ totalConnections = Cardinality(AtWork)
        /\ Cardinality(AtWork) \in Nat
    BY FS_CardinalityType DEF CountInv
  <2> HIDE DEF T, n
  <2>2. /\ Cardinality(T) <= Cardinality(AtWork)
        /\ Cardinality(AtWork) = Cardinality(T) => AtWork = T
    BY <1>5, <2>1, FS_Subset
  <2> QED
    BY <1>1, <1>2, <1>3, <2>1, <2>2
<1>7. Claimants = {}
  <2> HIDE DEF T
  <2>1. \A c \in Conns : pc[c] # "await_lock"
    BY <1>4, <1>6 DEF AtWork
  <2> QED
    BY <2>1 DEF Claimants, LockStates
<1>8. ToSet(lockQueue) = {}
  BY <1>7 DEF LockClaims
<1>9. lockQueue \in Seq(Tasks)
  BY DEF TypeInv, TypeOK, ServerTypeOK
<1>10. DOMAIN lockQueue = {}
  BY <1>8 DEF ToSet
<1> QED
  BY <1>9, <1>10, LenProperties, EmptySeq

-----------------------------------------------------------------------------
(* Why a calm run with full batches is trained on when it stops.  The lock *)
(* is contended only because frames came in during a learn step or a save, *)
(* and these frames are stale; so between the two sections of a control    *)
(* cycle none is stored.  A save is due only right after a learn step.     *)
Contended == lockQueue \notin {<<>>, <<running>>}

Due == should_save \/ (should_stop /\ ~should_learn)

Stopped ==
  stop => Stale /\ ~should_learn /\ sched \in {"top", "idle", "dead"}

InferAtOnce ==
  sched = "infer" => lockQueue = <<"scheduler">> /\ running = "scheduler"

ContendedStale == Contended /\ sched \notin {"learning", "learnt"} => Stale

SavesTrained ==
  /\ sched \in {"may_save", "saving"} => ~should_learn
  /\ sched = "saving" => Stale /\ ~should_save

DueAtOnce ==
  /\ Due => Stale
  /\ Due /\ ~stop => sched \in {"may_save", "saving"}

TrainedInv ==
  /\ Stopped
  /\ main # "done" =>
       InferAtOnce /\ ContendedStale /\ SavesTrained /\ DueAtOnce

LEMMA DecisionsFrame ==
  ASSUME UNCHANGED <<buffer, globalStep, trainItrs, lastSavedItr>>
  PROVE  /\ should_learn' <=> should_learn
         /\ should_stop' <=> should_stop
         /\ should_save' <=> should_save
         /\ Due' <=> Due
<1>1. /\ should_learn' <=> should_learn
      /\ should_stop' <=> should_stop
      /\ should_save' <=> should_save
  BY DEF should_learn, full, should_stop, should_save
<1> QED
  BY <1>1 DEF Due

LEMMA LockShapes ==
  ASSUME TypeInv
  PROVE  /\ lockQueue # <<Nobody>>
         /\ \A x : lockQueue = <<x>> => Released = <<>>
         /\ \A x, t : lockQueue = <<x>> /\ Holds(t) => x = t
<1>1. ASSUME lockQueue = <<Nobody>> PROVE FALSE
  <2>1. lockQueue[1] \in Tasks
    BY <1>1 DEF TypeInv, TypeOK, ServerTypeOK
  <2>2. Nobody \notin Tasks
    BY ServerAssumption DEF Nobody, Tasks, Savers
  <2> QED
    BY <1>1, <2>1, <2>2
<1>2. ASSUME NEW x, lockQueue = <<x>>
      PROVE  Released = <<>> /\ Head(lockQueue) = x
  BY <1>2 DEF Released
<1> QED
  BY <1>1, <1>2 DEF Holds

LEMMA TrainedFrame ==
  ASSUME TrainedInv, Stale => Stale',
         UNCHANGED <<buffer, globalStep, trainItrs, lastSavedItr>>,
         UNCHANGED <<sched, stop, lockQueue, running>>,
         main' # "done" => main # "done"
  PROVE  TrainedInv'
<1>1. Stopped'
  BY DecisionsFrame DEF TrainedInv, Stopped
<1>2. ASSUME main' # "done"
      PROVE  InferAtOnce' /\ ContendedStale' /\ SavesTrained' /\ DueAtOnce'
  BY <1>2, DecisionsFrame
     DEF TrainedInv, InferAtOnce, ContendedStale, Contended, SavesTrained,
         DueAtOnce
<1> QED
  BY <1>1, <1>2 DEF TrainedInv

(* The frames of one message. *)
LEMMA TrainedFeed ==
  ASSUME TypeInv, LockClaims, TrainedInv, Stale => Stale', main # "done",
         NEW c \in Conns, running \in {Nobody, c}, Feed(c)
  PROVE  TrainedInv'
<1> DEFINE e == Head(todo[c])
<1>1. /\ Holds(c) /\ c # "scheduler" /\ c # Nobody
      /\ UNCHANGED <<sched, stop, main>>
      /\ \/ running' = c /\ lockQueue' = lockQueue
         \/ running' = Nobody /\ lockQueue' = Released
  BY ServerAssumption DEF Feed, Nobody
<1>2. InferAtOnce' /\ sched # "infer"
  BY <1>1, ServerAssumption DEF TrainedInv, InferAtOnce, Holds
<1>3. Contended' => Contended
  <2>1. lockQueue # <<>>
    BY <1>1 DEF Holds
  <2> QED
    BY <1>1, <2>1, LockShapes DEF Contended
<1>4. CASE Discard(c, e)
  <2>1. UNCHANGED <<buffer, globalStep, trainItrs, lastSavedItr>>
    BY <1>4 DEF Discard
  <2>2. Stopped' /\ SavesTrained' /\ DueAtOnce'
    BY <1>1, <2>1, DecisionsFrame
       DEF TrainedInv, Stopped, SavesTrained, DueAtOnce
  <2>3. ContendedStale'
    BY <1>1, <1>3 DEF TrainedInv, ContendedStale
  <2> QED
    BY <1>2, <2>2, <2>3 DEF TrainedInv
<1>5. CASE Store(c, e)
  <2>1. e \in Envs
    BY HeadTailProperties
       DEF Feed, TypeInv, TypeOK, FramesLeft, HandlersTypeOK
  <2> HIDE DEF e
  <2>2. ~Stale /\ ~full
    BY <1>5, <2>1 DEF Store, trains_on, Stale, should_learn
  <2>3. ~stop /\ ~Due
    BY <2>2 DEF TrainedInv, Stopped, DueAtOnce
  <2>4. lockQueue = <<c>>
    <3>1. sched \notin {"learning", "learnt"}
      BY <1>1 DEF TypeInv, LockDiscipline, Holds
    <3>2. ~Contended /\ lockQueue # <<>>
      BY <1>1, <2>2, <3>1 DEF TrainedInv, ContendedStale, Holds
    <3> QED
      BY <1>1, <3>2, LockShapes DEF Contended
  <2>5. sched \notin LockStates
    <3>1. ToSet(lockQueue) = {c}
      BY <2>4 DEF ToSet
    <3>2. "scheduler" \notin Claimants
      BY <1>1, <3>1 DEF LockClaims
    <3> QED
      BY <3>2 DEF Claimants
  <2>6. ~Contended'
    BY <1>1, <2>4, LockShapes DEF Contended
  <2>7. ~Due'
    <3>1. /\ globalStep' = globalStep + 1
          /\ UNCHANGED <<trainItrs, lastSavedItr>>
          /\ \E f : buffer' = Append(buffer, f)
      BY <1>5, <2>2 DEF Store, feedback
    <3>2. Len(buffer') > 0
      <4>1. Len(buffer') = Len(buffer) + 1
        BY <3>1, AppendProperties DEF TypeInv, TypeOK, AlgorithmTypeOK
      <4> QED
        BY <4>1, StepTypes
    <3>3. ~should_save'
      BY <2>3, <3>1 DEF Due, should_save
    <3>4. CASE StepBudget
      BY <3>2, <3>3, <3>4 DEF Due, should_stop, should_learn
    <3>5. CASE ~StepBudget
      <4>1. ~should_learn
        BY <1>5 DEF Store, trains_on
      <4>2. ~should_stop
        BY <2>3, <4>1 DEF Due
      <4> QED
        BY <3>1, <3>3, <3>5, <4>2 DEF Due, should_stop
    <3> QED
      BY <3>4, <3>5
  <2>8. /\ Stopped' /\ ContendedStale' /\ DueAtOnce'
    BY <1>1, <2>3, <2>6, <2>7 DEF Stopped, ContendedStale, DueAtOnce
  <2>9. SavesTrained'
    BY <1>1, <2>5 DEF SavesTrained, LockStates
  <2> QED
    BY <1>2, <2>8, <2>9 DEF TrainedInv
<1> QED
  BY <1>4, <1>5 DEF Feed

LEMMA TrainedNext ==
  ASSUME "signal" \notin Disturbances, "fault" \notin Disturbances,
         MiniInferBatchSize = 0,
         TypeInv, StopsForGood, LearnsWhenAsked, VersionsPast, Calm,
         LockClaims, CountInv, RequestInv, TrainedInv, [Next]_vars
  PROVE  TrainedInv'
<1>1. Stale => Infer \/ Stale'
  BY SamplesNext
<1>2. lockQueue \in Seq(Tasks)
  BY DEF TypeInv, TypeOK, ServerTypeOK
<1>3. ASSUME main # "done", NEW c \in Conns, running = Nobody, RecvFeedback(c)
      PROVE  TrainedInv'
  <2>1. /\ UNCHANGED <<algorithmVars, sched, stop, main>>
        /\ lockQueue' = Append(lockQueue, c)
        /\ running' = IF lockQueue = <<>> THEN c ELSE Nobody
    BY <1>3 DEF RecvFeedback, Acquire
  <2>2. Stale => Stale'
    BY <1>1, <1>3 DEF Infer, RecvFeedback, Holds, TrainedInv, InferAtOnce, Nobody
  <2>3. Stopped' /\ SavesTrained' /\ DueAtOnce'
    BY <1>3, <2>1, <2>2, DecisionsFrame
       DEF TrainedInv, Stopped, SavesTrained, DueAtOnce
  <2>4. InferAtOnce'
    BY <1>3, <2>1 DEF TrainedInv, InferAtOnce, Nobody
  <2>5. ContendedStale'
    <3>1. CASE lockQueue = <<>>
      <4>1. lockQueue' = <<c>> /\ running' = c
        BY <2>1, <3>1
      <4> QED
        BY <4>1 DEF ContendedStale, Contended
    <3>2. CASE lockQueue # <<>>
      <4>1. Contended
        BY <1>3, <3>2, LockShapes DEF Contended
      <4> QED
        BY <1>3, <2>1, <2>2, <4>1 DEF TrainedInv, ContendedStale
    <3> QED
      BY <3>1, <3>2
  <2> QED
    BY <2>3, <2>4, <2>5 DEF TrainedInv
<1>4. ASSUME main # "done", NEW c \in Conns, running \in {Nobody, c}, Feed(c)
      PROVE  TrainedInv'
  <2>1. ~Infer
    BY <1>4, ServerAssumption DEF Feed, Infer, Holds
  <2> QED
    BY <1>1, <1>4, <2>1, TrainedFeed
<1>5. ASSUME NEW c \in Conns, running' = running,
             \/ NewConnection(c) \/ RecvInfer(c) \/ HandlerTrouble(c)
             \/ SendAction(c) \/ StopInFlight(c) \/ InferenceFailed(c)
             \/ ConnectionClosed(c) \/ HandlerFailed(c)
      PROVE  TrainedInv'
  <2>1. ~HandlerFailed(c) /\ ~FeedFault(c) /\ ~MessageFault(c)
    BY DEF Calm, HandlerFailed, FeedFault, MessageFault
  <2>2. UNCHANGED <<lockQueue, sched, algorithmVars, lifecycleVars>>
    <3>1. CASE NewConnection(c) \/ RecvInfer(c)
      BY <3>1 DEF NewConnection, Connect, RecvInfer
    <3>2. CASE HandlerTrouble(c)
      BY <2>1, <3>2 DEF HandlerTrouble, Resync, FeedbackTimeout, Vanish
    <3>3. CASE SendAction(c) \/ StopInFlight(c)
      BY <3>3, Zenon DEF SendAction, StopInFlight
    <3>4. CASE InferenceFailed(c) \/ ConnectionClosed(c)
      BY <3>4 DEF InferenceFailed, ConnectionClosed
    <3> QED
      BY <1>5, <2>1, <3>1, <3>2, <3>3, <3>4
  <2>3. ~Infer
    BY <2>2 DEF Infer
  <2> QED
    BY <1>1, <1>5, <2>2, <2>3, TrainedFrame
<1>6. CASE main # "done" /\ LoopExit
  <2>1. /\ sched = "top" /\ stop /\ sched' = "dead" /\ stop' = stop
        /\ UNCHANGED <<algorithmVars, lockQueue, main>>
    BY <1>6 DEF LoopExit
  <2>2. Stale' /\ ~should_learn
    BY <1>1, <2>1 DEF Infer, TrainedInv, Stopped
  <2> QED
    BY <2>1, <2>2, DecisionsFrame
       DEF TrainedInv, Stopped, InferAtOnce, ContendedStale, SavesTrained,
           DueAtOnce
<1>7. CASE /\ main # "done" /\ running \in {Nobody, "scheduler"}
           /\ StartInfer \/ SkipInfer
  <2>1. /\ sched = "top" /\ ~stop /\ sched' \in {"infer", "may_learn"}
        /\ lockQueue' = Append(lockQueue, "scheduler")
        /\ running' = IF lockQueue = <<>> THEN "scheduler" ELSE Nobody
        /\ UNCHANGED <<algorithmVars, stop, main>>
    BY <1>7 DEF StartInfer, SkipInfer, Acquire
  <2>2. Stale => Stale'
    BY <1>1, <2>1 DEF Infer
  <2>3. ~Due /\ ~Due'
    BY <1>7, <2>1, DecisionsFrame DEF TrainedInv, DueAtOnce
  <2>4. lockQueue = <<>> => ~Contended' /\ lockQueue' = <<"scheduler">>
    BY <2>1 DEF Contended
  <2>5. lockQueue # <<>> => Contended
    <3>1. "scheduler" \notin ToSet(lockQueue)
      BY <1>7, <2>1, ServerAssumption DEF LockClaims, Claimants, LockStates
    <3>2. lockQueue # <<"scheduler">>
      BY <3>1 DEF ToSet
    <3> QED
      BY <1>7, <3>2, LockShapes DEF Contended
  <2>6. InferAtOnce'
    <3>1. CASE StartInfer
      <4>1. main \notin {"closing", "done"}
        BY <1>7, <2>1 DEF StopsForGood
      <4>2. lockQueue = <<>>
        BY <3>1, <4>1, InfersAlone DEF StartInfer
      <4> QED
        BY <2>1, <2>4, <4>2 DEF InferAtOnce
    <3>2. CASE SkipInfer
      BY <3>2 DEF SkipInfer, InferAtOnce
    <3> QED
      BY <1>7, <3>1, <3>2
  <2>7. ContendedStale'
    BY <1>7, <2>1, <2>2, <2>4, <2>5 DEF TrainedInv, ContendedStale
  <2> QED
    BY <2>1, <2>3, <2>6, <2>7 DEF TrainedInv, Stopped, SavesTrained, DueAtOnce
<1>8. CASE main # "done" /\ Infer
  <2>1. /\ sched = "infer" /\ sched' = "may_learn"
        /\ lockQueue' = Append(Released, "scheduler")
        /\ running' = IF Released = <<>> THEN "scheduler" ELSE Nobody
        /\ UNCHANGED <<algorithmVars, stop, main>>
    BY <1>8 DEF Infer, Acquire
  <2>2. Released = <<>>
    BY <1>8, <2>1, LockShapes DEF TrainedInv, InferAtOnce
  <2>3. ~Contended'
    BY <2>1, <2>2 DEF Contended
  <2>4. ~stop /\ ~Due'
    BY <1>8, <2>1, DecisionsFrame DEF TrainedInv, Stopped, DueAtOnce
  <2> QED
    BY <2>1, <2>3, <2>4
       DEF TrainedInv, Stopped, InferAtOnce, ContendedStale, SavesTrained,
           DueAtOnce
<1>9. CASE main # "done" /\ NothingToLearn
  <2>1. /\ sched = "may_learn" /\ sched' = "may_save" /\ ~should_learn
        /\ lockQueue' = Append(Released, "scheduler")
        /\ running' = IF Released = <<>> THEN "scheduler" ELSE Nobody
        /\ UNCHANGED <<algorithmVars, stop, main>>
    BY <1>9 DEF NothingToLearn, Acquire
  <2>2. ~stop /\ (Stale => Stale')
    BY <1>1, <2>1 DEF Infer, TrainedInv, Stopped
  <2>3. ContendedStale'
    <3>1. CASE Released = <<>>
      <4>1. ~Contended'
        BY <2>1, <3>1 DEF Contended
      <4> QED
        BY <4>1 DEF ContendedStale
    <3>2. CASE Released # <<>>
      <4>1. Contended
        BY <1>9, <3>2, LockShapes DEF Contended, NothingToLearn, Holds
      <4> QED
        BY <1>9, <2>1, <2>2, <4>1 DEF TrainedInv, ContendedStale
    <3> QED
      BY <3>1, <3>2
  <2>4. Due => Stale'
    BY <1>9, <2>2 DEF TrainedInv, DueAtOnce
  <2> QED
    BY <2>1, <2>2, <2>3, <2>4, DecisionsFrame
       DEF TrainedInv, Stopped, InferAtOnce, SavesTrained, DueAtOnce
<1>10. CASE main # "done" /\ (StartLearn \/ LastReport)
  <2>1. /\ sched \in {"may_learn", "learning"}
        /\ sched' \in {"learning", "learnt"}
        /\ UNCHANGED <<algorithmVars, stop, main>>
    BY <1>10 DEF StartLearn, LastReport
  <2>2. ~stop /\ ~Due
    BY <1>10, <2>1 DEF TrainedInv, Stopped, DueAtOnce
  <2> QED
    BY <2>1, <2>2, DecisionsFrame
       DEF TrainedInv, Stopped, InferAtOnce, ContendedStale, SavesTrained,
           DueAtOnce
<1>11. CASE main # "done" /\ FinishLearn
  <2>1. /\ sched = "learnt" /\ sched' = "may_save" /\ buffer' = <<>>
        /\ policyVersion' = policyVersion + 1
        /\ UNCHANGED <<stop, main>>
    BY <1>11 DEF FinishLearn, learn, EndLearn, bump_version
  <2>2. ~stop /\ Stale'
    BY <2>1, SamplesNext, SampleTypes DEF TrainedInv, Stopped
  <2>3. ~should_learn'
    <3>1. Len(buffer') = 0
      BY <2>1
    <3> QED
      BY <3>1, StepTypes DEF should_learn, full
  <2> QED
    BY <2>1, <2>2, <2>3
       DEF TrainedInv, Stopped, InferAtOnce, ContendedStale, SavesTrained,
           DueAtOnce
<1>12. ~InterruptLearn
  BY DEF InterruptLearn, TrainedInv, Stopped
<1>13. CASE main # "done" /\ NothingToSave
  <2>1. /\ sched = "may_save" /\ sched' \in {"top", "idle"}
        /\ ~should_save /\ ~should_stop
        /\ lockQueue' = Released
        /\ UNCHANGED <<algorithmVars, stop, main>>
    BY <1>13 DEF NothingToSave, AfterControl
  <2>2. ~stop /\ (Stale => Stale')
    BY <1>1, <2>1 DEF Infer, TrainedInv, Stopped
  <2>3. Contended' => Contended
    BY <1>13, <2>1, LockShapes DEF Contended, NothingToSave, Holds
  <2>4. ContendedStale'
    BY <1>13, <2>1, <2>2, <2>3 DEF TrainedInv, ContendedStale
  <2>5. ~Due'
    BY <2>1, DecisionsFrame DEF Due
  <2> QED
    BY <2>1, <2>2, <2>4, <2>5
       DEF TrainedInv, Stopped, InferAtOnce, SavesTrained, DueAtOnce
<1>14. CASE main # "done" /\ StartSave
  <2>1. /\ sched = "may_save" /\ sched' = "saving"
        /\ should_save \/ should_stop
        /\ lastSavedItr' = trainItrs
        /\ UNCHANGED <<buffer, globalStep, trainItrs, stop, main>>
    BY <1>14 DEF StartSave, StartWrite, create_checkpoint
  <2>2. ~should_learn /\ Due
    BY <1>14, <2>1 DEF TrainedInv, SavesTrained, Due
  <2>3. ~stop /\ Stale'
    BY <1>1, <1>14, <2>1, <2>2 DEF Infer, TrainedInv, Stopped, DueAtOnce
  <2>4. ~should_save'
    <3>1. trainItrs \in Nat /\ SaveInterval \in Nat \ {0}
      BY StepTypes, AlgorithmAssumption
    <3> QED
      BY <2>1, <3>1 DEF should_save
  <2>5. ~should_learn'
    BY <2>1, <2>2 DEF should_learn, full
  <2> QED
    BY <2>1, <2>3, <2>4, <2>5
       DEF TrainedInv, Stopped, InferAtOnce, ContendedStale, SavesTrained,
           DueAtOnce
<1>15. CASE main # "done" /\ FinishSave
  <2>1. /\ sched = "saving" /\ sched' \in {"top", "idle"}
        /\ should_stop \/ stop' = stop
        /\ UNCHANGED <<algorithmVars, main>>
        /\ stop' \/ ~should_stop
    BY <1>15 DEF FinishSave, AfterControl
  <2>2. ~should_learn /\ ~should_save /\ Stale'
    BY <1>1, <1>15, <2>1 DEF Infer, TrainedInv, SavesTrained
  <2>3. Due' => stop'
    BY <2>1, <2>2, DecisionsFrame DEF Due
  <2> QED
    BY <2>1, <2>2, <2>3, DecisionsFrame
       DEF TrainedInv, Stopped, InferAtOnce, ContendedStale, SavesTrained,
           DueAtOnce
<1>16. CASE main # "done" /\ Wake /\ running \in {Nobody, "scheduler"}
  <2>1. /\ sched = "idle" /\ sched' = "top" /\ running' = "scheduler"
        /\ UNCHANGED <<algorithmVars, lockQueue, stop, main>>
    BY <1>16 DEF Wake
  <2>2. Stale => Stale'
    BY <1>1, <2>1 DEF Infer
  <2>3. Contended' => Contended
    <3>1. "scheduler" \notin ToSet(lockQueue)
      BY <1>16, <2>1, ServerAssumption DEF LockClaims, Claimants, LockStates
    <3>2. lockQueue # <<"scheduler">>
      BY <3>1 DEF ToSet
    <3> QED
      BY <1>16, <2>1, <3>2, LockShapes DEF Contended
  <2>4. ContendedStale'
    BY <1>16, <2>1, <2>2, <2>3 DEF TrainedInv, ContendedStale
  <2> QED
    BY <1>16, <2>1, <2>2, <2>4, DecisionsFrame
       DEF TrainedInv, Stopped, InferAtOnce, SavesTrained, DueAtOnce
<1>17. ~SchedulerTrouble
  BY DEF SchedulerTrouble, InferFails, LearnFails, SaveFails
<1>18. CASE CancelScheduler
  <2>1. /\ main' = "done" /\ sched' = "dead"
        /\ UNCHANGED <<algorithmVars, stop>> /\ main = "closing"
    BY <1>18 DEF CancelScheduler
  <2>2. stop /\ Stale'
    BY <1>1, <2>1 DEF StopsForGood, TrainedInv, Stopped, Infer
  <2>3. Stopped'
    BY <2>1, <2>2, DecisionsFrame DEF TrainedInv, Stopped
  <2> QED
    BY <2>1, <2>3 DEF TrainedInv
<1>19. CASE ShutdownWithoutSave /\ running' = running
  <2>1. UNCHANGED <<algorithmVars, sched, stop, lockQueue>> /\ main = "serving"
    BY <1>19 DEF ShutdownWithoutSave, BeginClosing
  <2> QED
    BY <1>1, <1>19, <2>1, TrainedFrame DEF Infer
<1>20. ~(\/ StartExitSave \/ ShutdownWithSave \/ FinishExitSave
         \/ Signal \/ ExitSaveFails \/ GiveUpExitSave)
  BY DEF StartExitSave, ShutdownWithSave, FinishExitSave, Signal,
         ExitSaveFails, GiveUpExitSave, Calm
<1>21. CASE (\E t \in Savers : FinishDetachedWrite(t)) \/ UNCHANGED vars
  <2>1. UNCHANGED <<algorithmVars, sched, stop, lockQueue, running, main>>
    BY <1>21 DEF FinishDetachedWrite
  <2> QED
    BY <1>1, <2>1, TrainedFrame DEF Infer
<1>22. ASSUME main # "done", NEW c \in Conns,
              \/ NewConnection(c) \/ ClientStep(c)
              \/ HandlerStep(c) \/ HandlerTrouble(c)
       PROVE  TrainedInv'
  <2>1. CASE NewConnection(c)
    BY <1>5, <2>1 DEF NewConnection
  <2>2. CASE ClientStep(c)
    BY <1>3, <1>5, <1>22, <2>2 DEF ClientStep
  <2>3. CASE HandlerStep(c)
    BY <1>4, <1>5, <1>22, <2>3 DEF HandlerStep
  <2>4. CASE HandlerTrouble(c)
    <3>1. ~FeedFault(c)
      BY DEF FeedFault
    <3>2. running' = running
      BY <2>4, <3>1 DEF HandlerTrouble
    <3> QED
      BY <1>5, <2>4, <3>2
  <2> QED
    BY <1>22, <2>1, <2>2, <2>3, <2>4
<1>23. CASE main # "done" /\ SchedulerStep
  BY <1>6, <1>7, <1>8, <1>9, <1>10, <1>11, <1>12, <1>13, <1>14, <1>15,
     <1>16, <1>23 DEF SchedulerStep
<1>24. CASE MainStep \/ MainTrouble
  BY <1>18, <1>19, <1>20, <1>24 DEF MainStep, MainTrouble
<1> QED
  BY <1>17, <1>21, <1>22, <1>23, <1>24 DEF Next

LEMMA TrainedInit ==
  ASSUME IF StepBudget THEN GlobalSteps > 0 ELSE TrainItrs > 0,
         Init
  PROVE  Calm /\ LockClaims /\ TrainedInv
<1>1. /\ buffer = <<>> /\ globalStep = 0 /\ trainItrs = 0 /\ lastSavedItr = 0
      /\ lockQueue = <<>> /\ sched = "top" /\ ~stop
      /\ pc = [c \in Conns |-> "off"]
  BY DEF Init, AlgorithmInit
<1>2. LockClaims
  <2>1. Claimants = {}
    BY <1>1 DEF Claimants, LockStates
  <2> QED
    BY <1>1, <2>1 DEF LockClaims, Once, ToSet
<1>3. ~should_save /\ ~should_stop
  <2>1. SaveInterval \in Nat \ {0} /\ GlobalSteps \in Nat /\ TrainItrs \in Nat
    BY AlgorithmAssumption
  <2> QED
    BY <1>1, <2>1 DEF should_save, should_stop
<1>4. ~Due /\ ~Contended
  BY <1>1, <1>3 DEF Due, Contended
<1>5. TrainedInv
  BY <1>1, <1>4
     DEF TrainedInv, Stopped, InferAtOnce, ContendedStale, SavesTrained,
         DueAtOnce
<1> QED
  BY <1>2, <1>5, CalmInit

(* A run that clients are told is over has learned from every frame it     *)
(* counted, as long as inference waits for every connection, nothing fails *)
(* and nobody stops the server from outside: clients may go, be cut off    *)
(* and come back as they like.  Each of the three conditions is needed.    *)
THEOREM StopMeansTrainedHolds ==
  ASSUME MiniInferBatchSize = 0,
         "signal" \notin Disturbances, "fault" \notin Disturbances,
         IF StepBudget THEN GlobalSteps > 0 ELSE TrainItrs > 0
  PROVE  Spec => []StopMeansTrained
<1> DEFINE Whole == /\ TypeInv /\ PolicyInv /\ VersionsPast /\ CountInv
                    /\ RequestInv /\ Calm /\ LockClaims /\ TrainedInv
<1>1. Init => Whole
  <2>1. Init => TypeInv /\ PolicyInv /\ CountInv /\ RequestInv
    BY TypeInit, PolicyInit, CountInit, RequestInit
  <2> QED
    BY <2>1, SamplesInit, TrainedInit
<1>2. Whole /\ [Next]_vars => Whole'
  <2> SUFFICES ASSUME Whole, [Next]_vars PROVE Whole'
    OBVIOUS
  <2>1. TypeInv' /\ PolicyInv' /\ CountInv' /\ RequestInv'
    BY TypeNext, PolicyNext, CountNext, RequestNext
  <2>2. VersionsPast'
    BY SamplesNext
  <2>3. Calm' /\ LockClaims'
    BY CalmNext, ClaimsNext
  <2>4. TrainedInv'
    BY TrainedNext DEF PolicyInv
  <2> QED
    BY <2>1, <2>2, <2>3, <2>4
<1>3. Whole => StopMeansTrained
  BY DEF TrainedInv, Stopped, Calm, StopMeansTrained
<1> QED
  BY <1>1, <1>2, <1>3, PTL DEF Spec

=============================================================================
