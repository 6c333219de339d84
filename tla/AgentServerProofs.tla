-------------------------- MODULE AgentServerProofs -------------------------
(***************************************************************************)
(* Proofs about AgentServer: type correctness, the discipline of the model *)
(* lock, that two threads never write checkpoints at once, and that the    *)
(* rollout buffer stays on-policy.                                         *)
(***************************************************************************)
EXTENDS AgentServerCorrectness, SequenceTheorems, FiniteSetTheorems, TLAPS

USE DEF vars, coordinatorVars, algorithmVars, handlerVars, mapVars,
        policyVars, lifecycleVars, saveVars

(* A handler that waits for the lock with a message has frames left in it. *)
FramesLeft == \A c \in Conns : pc[c] = "await_lock" => todo[c] # <<>>

TypeInv == TypeOK /\ FramesLeft /\ LockDiscipline

-----------------------------------------------------------------------------
(* What the lock operators do to a queue of tasks. *)

LEMMA AcquireQueue ==
  ASSUME NEW q \in Seq(Tasks), NEW t \in Tasks, Acquire(t, q)
  PROVE  /\ lockQueue' \in Seq(Tasks)
         /\ lockQueue' # <<>>
         /\ q # <<>> => Head(lockQueue') = Head(q)
         /\ running' \in Tasks \cup {Nobody}
BY AppendProperties, HeadTailAppend DEF Acquire

LEMMA WithdrawQueue ==
  ASSUME lockQueue \in Seq(Tasks), NEW t, Withdraw(t)
  PROVE  /\ lockQueue' \in Seq(Tasks)
         /\ lockQueue # <<>> /\ Head(lockQueue) # t =>
              lockQueue' # <<>> /\ Head(lockQueue') = Head(lockQueue)
<1> DEFINE places == {i \in DOMAIN lockQueue : lockQueue[i] = t}
<1>1. CASE places = {}
  BY <1>1 DEF Withdraw
<1>2. CASE places # {}
  <2> DEFINE i == CHOOSE j \in places : TRUE
             front == SubSeq(lockQueue, 1, i - 1)
             back == SubSeq(lockQueue, i + 1, Len(lockQueue))
  <2>1. i \in 1 .. Len(lockQueue) /\ lockQueue[i] = t
    BY <1>2
  <2> HIDE DEF i
  <2>2. lockQueue' = front \o back
    BY <1>2 DEF Withdraw, RemoveAt, i
  <2>3. /\ front \in Seq(Tasks)
        /\ Len(front) = i - 1
        /\ \A j \in 1 .. i - 1 : front[j] = lockQueue[j]
    BY <2>1, SubSeqProperties, ElementOfSeq
  <2>4. back \in Seq(Tasks)
    BY <2>1, SubSeqProperties, ElementOfSeq
  <2>5. /\ lockQueue' \in Seq(Tasks)
        /\ Len(lockQueue') = Len(front) + Len(back)
        /\ \A j \in 1 .. Len(front) : lockQueue'[j] = front[j]
    BY <2>2, <2>3, <2>4, ConcatProperties
  <2>6. ASSUME lockQueue # <<>>, Head(lockQueue) # t
        PROVE  lockQueue' # <<>> /\ Head(lockQueue') = Head(lockQueue)
    <3>1. i # 1 /\ i - 1 >= 1
      BY <2>1, <2>6
    <3> QED  BY <3>1, <2>1, <2>3, <2>5, <2>6
  <2> QED  BY <2>5, <2>6
<1> QED  BY <1>1, <1>2

(* What remains of a sequence with more than one element is not empty. *)
LEMMA TailNonempty ==
  ASSUME NEW S, NEW s \in Seq(S), Len(s) > 1
  PROVE  Tail(s) # <<>>
<1> DEFINE t == Tail(s)
<1>1. Len(s) \in Nat /\ Len(<<>>) = 0
  BY LenProperties, EmptySeq
<1>2. s # <<>>
  BY <1>1
<1>3. Len(t) = Len(s) - 1
  BY <1>2, HeadTailProperties
<1> HIDE DEF t
<1>4. t # <<>>
  BY <1>1, <1>3
<1> QED
  BY <1>4 DEF t

(* Leaving never makes the connection count negative. *)
LEMMA LeaveCount ==
  ASSUME ServerTypeOK, NEW c, Leave(c)
  PROVE  totalConnections' \in Nat
<1>1. totalConnections \in Nat
  BY DEF ServerTypeOK
<1>2. totalConnections' =
        IF totalConnections > 0 THEN totalConnections - 1 ELSE 0
  BY DEF Leave
<1> QED
  BY <1>1, <1>2

(* The queue that is left when its head releases the lock. *)
LEMMA ReleaseQueue ==
  ASSUME lockQueue \in Seq(Tasks), NEW t, Holds(t)
  PROVE  Released \in Seq(Tasks)
BY HeadTailProperties DEF Holds, Released

-----------------------------------------------------------------------------
LEMMA TypeInit == Init => TypeInv
<1> SUFFICES ASSUME Init PROVE TypeInv
  OBVIOUS
<1>1. CoordinatorTypeOK
  <2>1. CoordinatorInit
    BY DEF Init
  <2> QED
    BY <2>1, EmptySeq, BatchesAssumption DEF CoordinatorInit, CoordinatorTypeOK, FutureState
<1>2. AlgorithmTypeOK
  <2>1. AlgorithmInit
    BY DEF Init
  <2> QED
    BY <2>1, EmptySeq, AlgorithmAssumption DEF AlgorithmInit, AlgorithmTypeOK
<1>3. HandlersTypeOK
  <2>1. NoNode \in Node /\ [version |-> 0, weights |-> 0] \in Sample
    BY AlgorithmAssumption DEF NoNode, Node, Sample
  <2>2. <<>> \in Seq(Envs)
    BY EmptySeq
  <2>3. 0 \in 0 .. BufferSize
    BY AlgorithmAssumption
  <2>4. /\ pc \in [Conns -> HandlerState]
        /\ alive \in [Conns -> BOOLEAN]
        /\ todo \in [Conns -> Seq(Envs)]
        /\ accepted \in Nat
    BY <2>2 DEF Init, HandlerState
  <2>5. /\ answer \in [Conns -> Sample]
        /\ sampledBy \in [Conns -> [Envs -> Sample \cup {NoSample}]]
        /\ prevNode \in [Conns -> [Envs -> Node]]
        /\ lastFrame \in [Conns -> [Envs -> 0 .. BufferSize]]
    BY <2>1, <2>3 DEF Init
  <2> QED
    BY <2>4, <2>5 DEF HandlersTypeOK
<1>4. ServerTypeOK
  BY EmptySeq DEF Init, ServerTypeOK
<1>5. ControlTypeOK
  BY EmptySeq DEF Init, ControlTypeOK, SchedulerState, MainState
<1>6. SaveTypeOK
  BY DEF Init, SaveTypeOK, Savers, Checkpoint
<1>7. FramesLeft /\ LockDiscipline
  BY DEF Init, FramesLeft, LockDiscipline
<1> QED
  BY <1>1, <1>2, <1>3, <1>4, <1>5, <1>6, <1>7 DEF TypeInv, TypeOK

LEMMA TypeNext == TypeInv /\ [Next]_vars => TypeInv'
<1> SUFFICES ASSUME TypeInv, [Next]_vars
             PROVE  TypeInv'
  OBVIOUS
<1> USE DEF TypeInv, TypeOK
<1>1. ASSUME NEW c \in Conns, Connect(c), UNCHANGED running
      PROVE  TypeInv'
  <2>1. HandlersTypeOK'
    BY <1>1, AlgorithmAssumption, EmptySeq
       DEF Connect, HandlersTypeOK, HandlerState, Sample, NoSample, Node,
          NoNode
  <2>2. ServerTypeOK'
    BY <1>1, ServerAssumption
       DEF Connect, ServerTypeOK, Tasks, Savers, Nobody
  <2>3. ControlTypeOK'
    BY <1>1
       DEF Connect, ControlTypeOK, SchedulerState, MainState
  <2>4. FramesLeft'
    BY <1>1
       DEF Connect, FramesLeft, HandlersTypeOK
  <2>5. (CoordinatorTypeOK /\ AlgorithmTypeOK /\ SaveTypeOK /\ LockDiscipline)'
    BY <1>1
       DEF Connect, CoordinatorTypeOK, AlgorithmTypeOK, SaveTypeOK,
          LockDiscipline, Holds
  <2> QED
    BY <2>1, <2>2, <2>3, <2>4, <2>5
<1>2. ASSUME NEW c \in Conns, RecvInfer(c), UNCHANGED running
      PROVE  TypeInv'
  <2>1. CoordinatorTypeOK'
    BY <1>2
       DEF RecvInfer, Submit, CoordinatorTypeOK, FutureState
  <2>2. HandlersTypeOK'
    BY <1>2
       DEF RecvInfer, HandlersTypeOK, HandlerState, Sample, NoSample, Node,
          NoNode
  <2>3. ControlTypeOK'
    BY <1>2
       DEF RecvInfer, ControlTypeOK, SchedulerState, MainState
  <2>4. FramesLeft'
    BY <1>2
       DEF RecvInfer, FramesLeft, HandlersTypeOK
  <2>5. (AlgorithmTypeOK /\ ServerTypeOK /\ SaveTypeOK /\ LockDiscipline)'
    BY <1>2
       DEF RecvInfer, Submit, AlgorithmTypeOK, ServerTypeOK, SaveTypeOK,
          LockDiscipline, Holds
  <2> QED
    BY <2>1, <2>2, <2>3, <2>4, <2>5
<1>3. ASSUME NEW c \in Conns, SendAction(c), UNCHANGED running
      PROVE  TypeInv'
  <2>1. CoordinatorTypeOK'
    BY <1>3
       DEF SendAction, Leave, pop_request, CoordinatorTypeOK, FutureState
  <2>2. HandlersTypeOK'
    <3>1. sampledBy' \in [Conns -> [Envs -> Sample \cup {NoSample}]]
      BY <1>3 DEF SendAction, HandlersTypeOK
    <3>2. pc' \in [Conns -> HandlerState] /\ alive' \in [Conns -> BOOLEAN]
      BY <1>3 DEF SendAction, Leave, HandlersTypeOK, HandlerState
    <3> QED
      BY <1>3, <3>1, <3>2 DEF SendAction, HandlersTypeOK
  <2>3. ServerTypeOK'
    BY <1>3, ServerAssumption
       DEF SendAction, Leave, ServerTypeOK, Tasks, Savers, Nobody
  <2>4. ControlTypeOK'
    BY <1>3
       DEF SendAction, Leave, ControlTypeOK, SchedulerState, MainState
  <2>5. FramesLeft'
    BY <1>3
       DEF SendAction, Leave, FramesLeft, HandlersTypeOK
  <2>6. (AlgorithmTypeOK /\ SaveTypeOK /\ LockDiscipline)'
    BY <1>3
       DEF SendAction, Leave, pop_request, AlgorithmTypeOK, SaveTypeOK,
          LockDiscipline, Holds
  <2> QED
    BY <2>1, <2>2, <2>3, <2>4, <2>5, <2>6
<1>4. ASSUME NEW c \in Conns, StopInFlight(c), UNCHANGED running
      PROVE  TypeInv'
  <2>1. CoordinatorTypeOK'
    BY <1>4
       DEF StopInFlight, Leave, CloseSocket, pop_request, CoordinatorTypeOK,
          FutureState
  <2>2. HandlersTypeOK'
    BY <1>4
       DEF StopInFlight, Leave, CloseSocket, HandlersTypeOK, HandlerState,
          Sample, NoSample, Node, NoNode
  <2>3. ServerTypeOK'
    <3>1. CASE CloseSocket(c, "closing")
      BY <1>4, <3>1 DEF StopInFlight, CloseSocket, ServerTypeOK
    <3>2. CASE Leave(c)
      BY <1>4, <3>2, LeaveCount DEF StopInFlight, ServerTypeOK
    <3> QED
      BY <1>4, <3>1, <3>2 DEF StopInFlight
  <2>4. ControlTypeOK'
    BY <1>4
       DEF StopInFlight, Leave, CloseSocket, ControlTypeOK, SchedulerState,
          MainState
  <2>5. FramesLeft'
    BY <1>4
       DEF StopInFlight, Leave, CloseSocket, FramesLeft, HandlersTypeOK
  <2>6. (AlgorithmTypeOK /\ SaveTypeOK /\ LockDiscipline)'
    BY <1>4
       DEF StopInFlight, Leave, CloseSocket, pop_request, AlgorithmTypeOK,
          SaveTypeOK, LockDiscipline, Holds
  <2> QED
    BY <2>1, <2>2, <2>3, <2>4, <2>5, <2>6
<1>5. ASSUME NEW c \in Conns, InferenceFailed(c), UNCHANGED running
      PROVE  TypeInv'
  <2>1. HandlersTypeOK'
    BY <1>5
       DEF InferenceFailed, CloseSocket, HandlersTypeOK, HandlerState,
          Sample, NoSample, Node, NoNode
  <2>2. FramesLeft'
    BY <1>5
       DEF InferenceFailed, CloseSocket, FramesLeft, HandlersTypeOK
  <2>3. (CoordinatorTypeOK /\ AlgorithmTypeOK /\ ServerTypeOK /\ ControlTypeOK /\ SaveTypeOK /\ LockDiscipline)'
    BY <1>5
       DEF InferenceFailed, CloseSocket, CoordinatorTypeOK, AlgorithmTypeOK,
          ServerTypeOK, ControlTypeOK, SaveTypeOK, LockDiscipline, Holds
  <2> QED
    BY <2>1, <2>2, <2>3
<1>6. ASSUME NEW c \in Conns, ConnectionClosed(c), UNCHANGED running
      PROVE  TypeInv'
  <2>1. HandlersTypeOK'
    BY <1>6
       DEF ConnectionClosed, Leave, HandlersTypeOK, HandlerState, Sample,
          NoSample, Node, NoNode
  <2>2. ServerTypeOK'
    BY <1>6, ServerAssumption
       DEF ConnectionClosed, Leave, ServerTypeOK, Tasks, Savers, Nobody
  <2>3. ControlTypeOK'
    BY <1>6
       DEF ConnectionClosed, Leave, ControlTypeOK, SchedulerState, MainState
  <2>4. FramesLeft'
    BY <1>6
       DEF ConnectionClosed, Leave, FramesLeft, HandlersTypeOK
  <2>5. (CoordinatorTypeOK /\ AlgorithmTypeOK /\ SaveTypeOK /\ LockDiscipline)'
    BY <1>6
       DEF ConnectionClosed, Leave, CoordinatorTypeOK, AlgorithmTypeOK,
          SaveTypeOK, LockDiscipline, Holds
  <2> QED
    BY <2>1, <2>2, <2>3, <2>4, <2>5
<1>7. ASSUME NEW c \in Conns, HandlerFailed(c), UNCHANGED running
      PROVE  TypeInv'
  <2>1. HandlersTypeOK'
    BY <1>7
       DEF HandlerFailed, Leave, handle_fatal, HandlersTypeOK, HandlerState,
          Sample, NoSample, Node, NoNode
  <2>2. ServerTypeOK'
    BY <1>7, LeaveCount DEF HandlerFailed, ServerTypeOK
  <2>3. ControlTypeOK'
    BY <1>7
       DEF HandlerFailed, Leave, handle_fatal, ControlTypeOK,
          SchedulerState, MainState
  <2>4. FramesLeft'
    BY <1>7
       DEF HandlerFailed, Leave, handle_fatal, FramesLeft, HandlersTypeOK
  <2>5. (CoordinatorTypeOK /\ AlgorithmTypeOK /\ SaveTypeOK /\ LockDiscipline)'
    BY <1>7
       DEF HandlerFailed, Leave, handle_fatal, CoordinatorTypeOK,
          AlgorithmTypeOK, SaveTypeOK, LockDiscipline, Holds
  <2> QED
    BY <2>1, <2>2, <2>3, <2>4, <2>5
<1>8. ASSUME NEW c \in Conns, Resync(c), UNCHANGED running
      PROVE  TypeInv'
  <2>1. HandlersTypeOK'
    BY <1>8
       DEF Resync, CloseSocket, HandlersTypeOK, HandlerState, Sample,
          NoSample, Node, NoNode
  <2>2. FramesLeft'
    BY <1>8
       DEF Resync, CloseSocket, FramesLeft, HandlersTypeOK
  <2>3. (CoordinatorTypeOK /\ AlgorithmTypeOK /\ ServerTypeOK /\ ControlTypeOK /\ SaveTypeOK /\ LockDiscipline)'
    BY <1>8
       DEF Resync, CloseSocket, CoordinatorTypeOK, AlgorithmTypeOK,
          ServerTypeOK, ControlTypeOK, SaveTypeOK, LockDiscipline, Holds
  <2> QED
    BY <2>1, <2>2, <2>3
<1>9. ASSUME NEW c \in Conns, FeedbackTimeout(c), UNCHANGED running
      PROVE  TypeInv'
  <2>1. HandlersTypeOK'
    BY <1>9
       DEF FeedbackTimeout, CloseSocket, HandlersTypeOK, HandlerState,
          Sample, NoSample, Node, NoNode
  <2>2. FramesLeft'
    BY <1>9
       DEF FeedbackTimeout, CloseSocket, FramesLeft, HandlersTypeOK
  <2>3. (CoordinatorTypeOK /\ AlgorithmTypeOK /\ ServerTypeOK /\ ControlTypeOK /\ SaveTypeOK /\ LockDiscipline)'
    BY <1>9
       DEF FeedbackTimeout, CloseSocket, CoordinatorTypeOK, AlgorithmTypeOK,
          ServerTypeOK, ControlTypeOK, SaveTypeOK, LockDiscipline, Holds
  <2> QED
    BY <2>1, <2>2, <2>3
<1>10. ASSUME NEW c \in Conns, MessageFault(c), UNCHANGED running
      PROVE  TypeInv'
  <2>1. HandlersTypeOK'
    BY <1>10
       DEF MessageFault, CloseSocket, HandlersTypeOK, HandlerState, Sample,
          NoSample, Node, NoNode
  <2>2. FramesLeft'
    BY <1>10
       DEF MessageFault, CloseSocket, FramesLeft, HandlersTypeOK
  <2>3. (CoordinatorTypeOK /\ AlgorithmTypeOK /\ ServerTypeOK /\ ControlTypeOK /\ SaveTypeOK /\ LockDiscipline)'
    BY <1>10
       DEF MessageFault, CloseSocket, CoordinatorTypeOK, AlgorithmTypeOK,
          ServerTypeOK, ControlTypeOK, SaveTypeOK, LockDiscipline, Holds
  <2> QED
    BY <2>1, <2>2, <2>3
<1>11. ASSUME NEW c \in Conns, Vanish(c), UNCHANGED running
      PROVE  TypeInv'
  <2>1. HandlersTypeOK'
    BY <1>11
       DEF Vanish, HandlersTypeOK, HandlerState, Sample, NoSample, Node,
          NoNode
  <2>2. (CoordinatorTypeOK /\ AlgorithmTypeOK /\ ServerTypeOK /\ ControlTypeOK /\ SaveTypeOK /\ FramesLeft /\ LockDiscipline)'
    BY <1>11
       DEF Vanish, CoordinatorTypeOK, AlgorithmTypeOK, ServerTypeOK,
          ControlTypeOK, SaveTypeOK, FramesLeft, LockDiscipline, Holds
  <2> QED
    BY <2>1, <2>2
<1>12. ASSUME NEW c \in Conns, RecvFeedback(c)
      PROVE  TypeInv'
  <2>1. HandlersTypeOK'
    BY <1>12, BatchesAssumption
       DEF RecvFeedback, HandlersTypeOK, HandlerState, Sample, NoSample,
          Node, NoNode
  <2>2. ServerTypeOK'
    BY <1>12, BatchesAssumption, AcquireQueue, ServerAssumption
       DEF RecvFeedback, ServerTypeOK, Tasks, Savers, Nobody
  <2>3. FramesLeft'
    BY <1>12, BatchesAssumption
       DEF RecvFeedback, FramesLeft, HandlersTypeOK
  <2>4. LockDiscipline'
    BY <1>12, BatchesAssumption, AcquireQueue, ServerAssumption
       DEF RecvFeedback, LockDiscipline, Holds, ServerTypeOK, ControlTypeOK,
          Tasks, Savers, Nobody
  <2>5. (CoordinatorTypeOK /\ AlgorithmTypeOK /\ ControlTypeOK /\ SaveTypeOK)'
    BY <1>12
       DEF RecvFeedback, CoordinatorTypeOK, AlgorithmTypeOK, ControlTypeOK,
          SaveTypeOK
  <2> QED
    BY <2>1, <2>2, <2>3, <2>4, <2>5
<1>13. ASSUME NEW c \in Conns, Feed(c)
      PROVE  TypeInv'
  <2>1. AlgorithmTypeOK'
    <3> DEFINE e == Head(todo[c])
    <3>1. e \in Envs
      BY <1>13, HeadTailProperties DEF Feed, FramesLeft, HandlersTypeOK
    <3>2. CASE Store(c, e)
      <4>1. /\ ChainedTo(prevNode[c][e]) \in 0 .. BufferSize
            /\ sampledBy[c][e].weights \in Nat
        <5>1. sampledBy[c][e] \in Sample
          BY <3>1, <3>2 DEF Store, trains_on, HandlersTypeOK
        <5>2. prevNode[c][e] \in Node
          BY <3>1 DEF HandlersTypeOK
        <5> QED
          BY <5>1, <5>2, AlgorithmAssumption DEF ChainedTo, Node, Sample
      <4> DEFINE f == [sampledBy |-> sampledBy[c][e].weights,
                       prev |-> ChainedTo(prevNode[c][e])]
      <4>2. f \in Frame
        BY <4>1 DEF Frame
      <4> HIDE DEF f
      <4>3. Append(buffer, f) \in Seq(Frame) /\ Len(Append(buffer, f)) = Len(buffer) + 1
        BY <4>2, AppendProperties DEF AlgorithmTypeOK
      <4>4. buffer' = IF full THEN buffer ELSE Append(buffer, f)
        BY <3>2 DEF Store, feedback, f
      <4>5. buffer' \in Seq(Frame) /\ Len(buffer') <= BufferSize
        BY <4>3, <4>4, LenProperties, AlgorithmAssumption DEF full, AlgorithmTypeOK
      <4> QED
        BY <3>2, <4>5 DEF Store, feedback, AlgorithmTypeOK
    <3>3. CASE Discard(c, e)
      BY <3>3 DEF Discard, AlgorithmTypeOK
    <3> QED
      BY <1>13, <3>2, <3>3 DEF Feed
  <2>2. HandlersTypeOK'
    <3> DEFINE e == Head(todo[c])
    <3>1. e \in Envs /\ Tail(todo[c]) \in Seq(Envs)
      BY <1>13, HeadTailProperties DEF Feed, FramesLeft, HandlersTypeOK
    <3>2. NextNode \in Node /\ NoNode \in Node
      BY LenProperties, AlgorithmAssumption
         DEF NextNode, NoNode, Node, full, AlgorithmTypeOK
    <3>3. /\ prevNode' \in [Conns -> [Envs -> Node]]
          /\ lastFrame' \in [Conns -> [Envs -> 0 .. BufferSize]]
      <4>1. CASE Store(c, e)
        <5>1. NextNode.idx \in 0 .. BufferSize
          BY <3>2 DEF Node
        <5> QED
          BY <4>1, <5>1, <3>1, <3>2 DEF Store, HandlersTypeOK
      <4>2. CASE Discard(c, e)
        BY <4>2, <3>1, <3>2, AlgorithmAssumption DEF Discard, HandlersTypeOK
      <4> QED
        BY <1>13, <4>1, <4>2 DEF Feed
    <3>4. todo' \in [Conns -> Seq(Envs)] /\ pc' \in [Conns -> HandlerState]
      BY <1>13, <3>1 DEF Feed, HandlersTypeOK, HandlerState
    <3> QED
      BY <1>13, <3>3, <3>4 DEF Feed, HandlersTypeOK
  <2>3. ServerTypeOK'
    BY <1>13, ReleaseQueue DEF Feed, ServerTypeOK, Tasks
  <2>4. ControlTypeOK'
    BY <1>13
       DEF Feed, Released, Holds, feedback, ChainedTo, full, NextNode,
          trains_on, ControlTypeOK, SchedulerState, MainState
  <2>5. FramesLeft'
    <3>1. todo[c] \in Seq(Envs) /\ todo[c] # <<>>
      BY <1>13 DEF Feed, FramesLeft, HandlersTypeOK
    <3>3. Len(todo[c]) > 1 => Tail(todo[c]) # <<>>
      BY <3>1, TailNonempty
    <3> QED
      BY <1>13, <3>3 DEF Feed, FramesLeft, HandlersTypeOK
  <2>6. LockDiscipline'
    BY <1>13, ReleaseQueue, ServerAssumption
       DEF Feed, Released, Holds, feedback, ChainedTo, full, NextNode,
          trains_on, LockDiscipline, ServerTypeOK, ControlTypeOK, Tasks,
          Savers, Nobody
  <2>7. (CoordinatorTypeOK /\ SaveTypeOK)'
    BY <1>13
       DEF Feed, Released, Holds, Store, feedback, ChainedTo, full,
          NextNode, trains_on, Discard, CoordinatorTypeOK, SaveTypeOK
  <2> QED
    BY <2>1, <2>2, <2>3, <2>4, <2>5, <2>6, <2>7
<1>14. ASSUME NEW c \in Conns, FeedFault(c)
      PROVE  TypeInv'
  <2>1. HandlersTypeOK'
    BY <1>14
       DEF FeedFault, CloseSocket, Released, Holds, HandlersTypeOK,
          HandlerState, Sample, NoSample, Node, NoNode
  <2>2. ServerTypeOK'
    BY <1>14, ReleaseQueue, ServerAssumption
       DEF FeedFault, CloseSocket, Released, Holds, ServerTypeOK, Tasks,
          Savers, Nobody, LockDiscipline
  <2>3. FramesLeft'
    BY <1>14
       DEF FeedFault, CloseSocket, Released, Holds, FramesLeft,
          HandlersTypeOK
  <2>4. LockDiscipline'
    BY <1>14, ReleaseQueue, ServerAssumption
       DEF FeedFault, CloseSocket, Released, Holds, LockDiscipline,
          ServerTypeOK, ControlTypeOK, Tasks, Savers, Nobody
  <2>5. (CoordinatorTypeOK /\ AlgorithmTypeOK /\ ControlTypeOK /\ SaveTypeOK)'
    BY <1>14
       DEF FeedFault, CloseSocket, Released, Holds, CoordinatorTypeOK,
          AlgorithmTypeOK, ControlTypeOK, SaveTypeOK
  <2> QED
    BY <2>1, <2>2, <2>3, <2>4, <2>5
<1>15. CASE LoopExit
  <2>1. ServerTypeOK'
    BY <1>15, ServerAssumption
       DEF LoopExit, ServerTypeOK, Tasks, Savers, Nobody
  <2>2. ControlTypeOK'
    BY <1>15
       DEF LoopExit, ControlTypeOK, SchedulerState, MainState
  <2>3. LockDiscipline'
    BY <1>15, ServerAssumption
       DEF LoopExit, LockDiscipline, Holds, ServerTypeOK, ControlTypeOK,
          Tasks, Savers, Nobody
  <2>4. (CoordinatorTypeOK /\ AlgorithmTypeOK /\ HandlersTypeOK /\ SaveTypeOK /\ FramesLeft)'
    BY <1>15
       DEF LoopExit, CoordinatorTypeOK, AlgorithmTypeOK, HandlersTypeOK,
          SaveTypeOK, FramesLeft
  <2> QED
    BY <2>1, <2>2, <2>3, <2>4
<1>16. CASE StartInfer
  <2>1. CoordinatorTypeOK'
    BY <1>16
       DEF StartInfer, drain_batch, CoordinatorTypeOK, FutureState
  <2>2. ServerTypeOK'
    BY <1>16, AcquireQueue, ServerAssumption
       DEF StartInfer, ServerTypeOK, Tasks, Savers, Nobody
  <2>3. ControlTypeOK'
    BY <1>16 DEF StartInfer, ControlTypeOK, SchedulerState, CoordinatorTypeOK
  <2>4. LockDiscipline'
    BY <1>16, AcquireQueue, ServerAssumption
       DEF StartInfer, LockDiscipline, Holds, ServerTypeOK, ControlTypeOK,
          Tasks, Savers, Nobody
  <2>5. (AlgorithmTypeOK /\ HandlersTypeOK /\ SaveTypeOK /\ FramesLeft)'
    BY <1>16
       DEF StartInfer, drain_batch, AlgorithmTypeOK, HandlersTypeOK,
          SaveTypeOK, FramesLeft
  <2> QED
    BY <2>1, <2>2, <2>3, <2>4, <2>5
<1>17. CASE SkipInfer
  <2>1. ServerTypeOK'
    BY <1>17, AcquireQueue, ServerAssumption
       DEF SkipInfer, ServerTypeOK, Tasks, Savers, Nobody
  <2>2. ControlTypeOK'
    BY <1>17
       DEF SkipInfer, ControlTypeOK, SchedulerState, MainState
  <2>3. LockDiscipline'
    BY <1>17, AcquireQueue, ServerAssumption
       DEF SkipInfer, LockDiscipline, Holds, ServerTypeOK, ControlTypeOK,
          Tasks, Savers, Nobody
  <2>4. (CoordinatorTypeOK /\ AlgorithmTypeOK /\ HandlersTypeOK /\ SaveTypeOK /\ FramesLeft)'
    BY <1>17
       DEF SkipInfer, CoordinatorTypeOK, AlgorithmTypeOK, HandlersTypeOK,
          SaveTypeOK, FramesLeft
  <2> QED
    BY <2>1, <2>2, <2>3, <2>4
<1>18. CASE Infer
  <2>1. CoordinatorTypeOK'
    BY <1>18
       DEF Infer, Released, Holds, Resolve, CoordinatorTypeOK, FutureState
  <2>2. HandlersTypeOK'
    <3>1. [version |-> policyVersion, weights |-> weights] \in Sample
      BY DEF ServerTypeOK, Sample
    <3> QED
      BY <1>18, <3>1 DEF Infer, HandlersTypeOK
  <2>3. ServerTypeOK'
    BY <1>18, AcquireQueue, ReleaseQueue, ServerAssumption
       DEF Infer, Released, Holds, ServerTypeOK, Tasks, Savers, Nobody,
          LockDiscipline
  <2>4. ControlTypeOK'
    BY <1>18, EmptySeq DEF Infer, handle_fatal, ControlTypeOK, SchedulerState
  <2>5. LockDiscipline'
    BY <1>18, AcquireQueue, ReleaseQueue, ServerAssumption
       DEF Infer, Released, Holds, LockDiscipline, ServerTypeOK,
          ControlTypeOK, Tasks, Savers, Nobody
  <2>6. (AlgorithmTypeOK /\ SaveTypeOK /\ FramesLeft)'
    BY <1>18
       DEF Infer, Released, Holds, Resolve, AlgorithmTypeOK, SaveTypeOK,
          FramesLeft
  <2> QED
    BY <2>1, <2>2, <2>3, <2>4, <2>5, <2>6
<1>19. CASE NothingToLearn
  <2>1. ServerTypeOK'
    BY <1>19, AcquireQueue, ReleaseQueue, ServerAssumption
       DEF NothingToLearn, Released, Holds, ServerTypeOK, Tasks, Savers,
          Nobody, LockDiscipline
  <2>2. ControlTypeOK'
    BY <1>19
       DEF NothingToLearn, Released, Holds, ControlTypeOK, SchedulerState,
          MainState
  <2>3. LockDiscipline'
    BY <1>19, AcquireQueue, ReleaseQueue, ServerAssumption
       DEF NothingToLearn, Released, Holds, LockDiscipline, ServerTypeOK,
          ControlTypeOK, Tasks, Savers, Nobody
  <2>4. (CoordinatorTypeOK /\ AlgorithmTypeOK /\ HandlersTypeOK /\ SaveTypeOK /\ FramesLeft)'
    BY <1>19
       DEF NothingToLearn, Released, Holds, CoordinatorTypeOK,
          AlgorithmTypeOK, HandlersTypeOK, SaveTypeOK, FramesLeft
  <2> QED
    BY <2>1, <2>2, <2>3, <2>4
<1>20. CASE StartLearn
  <2>1. ServerTypeOK'
    BY <1>20, ServerAssumption
       DEF StartLearn, Holds, ServerTypeOK, Tasks, Savers, Nobody
  <2>2. ControlTypeOK'
    BY <1>20
       DEF StartLearn, Holds, ControlTypeOK, SchedulerState, MainState
  <2>3. LockDiscipline'
    BY <1>20, ServerAssumption
       DEF StartLearn, Holds, LockDiscipline, ServerTypeOK, ControlTypeOK,
          Tasks, Savers, Nobody
  <2>4. (CoordinatorTypeOK /\ AlgorithmTypeOK /\ HandlersTypeOK /\ SaveTypeOK /\ FramesLeft)'
    BY <1>20
       DEF StartLearn, Holds, CoordinatorTypeOK, AlgorithmTypeOK,
          HandlersTypeOK, SaveTypeOK, FramesLeft
  <2> QED
    BY <2>1, <2>2, <2>3, <2>4
<1>21. CASE LastReport
  <2>1. ServerTypeOK'
    BY <1>21, ServerAssumption
       DEF LastReport, ServerTypeOK, Tasks, Savers, Nobody
  <2>2. ControlTypeOK'
    BY <1>21
       DEF LastReport, ControlTypeOK, SchedulerState, MainState
  <2>3. LockDiscipline'
    BY <1>21, ServerAssumption
       DEF LastReport, LockDiscipline, Holds, ServerTypeOK, ControlTypeOK,
          Tasks, Savers, Nobody
  <2>4. (CoordinatorTypeOK /\ AlgorithmTypeOK /\ HandlersTypeOK /\ SaveTypeOK /\ FramesLeft)'
    BY <1>21
       DEF LastReport, CoordinatorTypeOK, AlgorithmTypeOK, HandlersTypeOK,
          SaveTypeOK, FramesLeft
  <2> QED
    BY <2>1, <2>2, <2>3, <2>4
<1>22. CASE FinishLearn
  <2>1. AlgorithmTypeOK'
    BY <1>22, AlgorithmAssumption, EmptySeq
       DEF FinishLearn, Released, bump_version, learn, AlgorithmTypeOK,
          Frame
  <2>2. HandlersTypeOK'
    BY <1>22, AlgorithmAssumption, EmptySeq
       DEF FinishLearn, Released, bump_version, HandlersTypeOK,
          HandlerState, Sample, NoSample, Node, NoNode
  <2>3. ServerTypeOK'
    <3>1. Released \in Seq(Tasks)
      BY <1>22, ReleaseQueue DEF FinishLearn, LockDiscipline, ServerTypeOK
    <3>2. lockQueue' \in Seq(Tasks) /\ running' \in Tasks \cup {Nobody}
      BY <1>22, <3>1, AcquireQueue DEF FinishLearn, Tasks, Savers
    <3> QED
      BY <1>22, <3>2 DEF FinishLearn, EndLearn, bump_version, ServerTypeOK
  <2>4. ControlTypeOK'
    BY <1>22
       DEF FinishLearn, Released, bump_version, ControlTypeOK,
          SchedulerState, MainState
  <2>5. LockDiscipline'
    BY <1>22, AcquireQueue, ReleaseQueue, ServerAssumption
       DEF FinishLearn, Released, bump_version, LockDiscipline, Holds,
          ServerTypeOK, ControlTypeOK, Tasks, Savers, Nobody
  <2>6. (CoordinatorTypeOK /\ SaveTypeOK /\ FramesLeft)'
    BY <1>22
       DEF FinishLearn, Released, EndLearn, bump_version, learn,
          CoordinatorTypeOK, SaveTypeOK, FramesLeft
  <2> QED
    BY <2>1, <2>2, <2>3, <2>4, <2>5, <2>6
<1>23. CASE InterruptLearn
  <2>1. ServerTypeOK'
    <3>1. Released \in Seq(Tasks)
      BY <1>23, ReleaseQueue DEF InterruptLearn, LockDiscipline, ServerTypeOK
    <3>2. lockQueue' \in Seq(Tasks) /\ running' \in Tasks \cup {Nobody}
      BY <1>23, <3>1, AcquireQueue DEF InterruptLearn, Tasks, Savers
    <3> QED
      BY <1>23, <3>2 DEF InterruptLearn, EndLearn, bump_version, ServerTypeOK
  <2>2. ControlTypeOK'
    BY <1>23
       DEF InterruptLearn, Released, bump_version, ControlTypeOK,
          SchedulerState, MainState
  <2>3. LockDiscipline'
    BY <1>23, AcquireQueue, ReleaseQueue, ServerAssumption
       DEF InterruptLearn, Released, bump_version, LockDiscipline, Holds,
          ServerTypeOK, ControlTypeOK, Tasks, Savers, Nobody
  <2>4. (CoordinatorTypeOK /\ AlgorithmTypeOK /\ HandlersTypeOK /\ SaveTypeOK /\ FramesLeft)'
    BY <1>23
       DEF InterruptLearn, Released, EndLearn, bump_version,
          CoordinatorTypeOK, AlgorithmTypeOK, HandlersTypeOK, SaveTypeOK,
          FramesLeft
  <2> QED
    BY <2>1, <2>2, <2>3, <2>4
<1>24. CASE NothingToSave
  <2>1. ServerTypeOK'
    BY <1>24, ReleaseQueue, ServerAssumption
       DEF NothingToSave, Released, Holds, AfterControl, ServerTypeOK,
          Tasks, Savers, Nobody, LockDiscipline
  <2>2. ControlTypeOK'
    BY <1>24
       DEF NothingToSave, Released, Holds, AfterControl, ControlTypeOK,
          SchedulerState, MainState
  <2>3. LockDiscipline'
    BY <1>24, ReleaseQueue, ServerAssumption
       DEF NothingToSave, Released, Holds, AfterControl, LockDiscipline,
          ServerTypeOK, ControlTypeOK, Tasks, Savers, Nobody
  <2>4. (CoordinatorTypeOK /\ AlgorithmTypeOK /\ HandlersTypeOK /\ SaveTypeOK /\ FramesLeft)'
    BY <1>24
       DEF NothingToSave, Released, Holds, AfterControl, CoordinatorTypeOK,
          AlgorithmTypeOK, HandlersTypeOK, SaveTypeOK, FramesLeft
  <2> QED
    BY <2>1, <2>2, <2>3, <2>4
<1>25. CASE StartSave
  <2>1. AlgorithmTypeOK'
    BY <1>25
       DEF StartSave, Holds, StartWrite, create_checkpoint, Snapshot,
          AlgorithmTypeOK, Frame
  <2>2. ServerTypeOK'
    BY <1>25, ServerAssumption
       DEF StartSave, Holds, StartWrite, create_checkpoint, Snapshot,
          ServerTypeOK, Tasks, Savers, Nobody
  <2>3. ControlTypeOK'
    BY <1>25
       DEF StartSave, Holds, StartWrite, create_checkpoint, Snapshot,
          ControlTypeOK, SchedulerState, MainState
  <2>4. SaveTypeOK'
    <3>1. Snapshot \in Checkpoint
      BY DEF Snapshot, Checkpoint, AlgorithmTypeOK
    <3> QED
      BY <1>25, <3>1 DEF StartSave, StartWrite, SaveTypeOK, Savers
  <2>5. LockDiscipline'
    BY <1>25, ServerAssumption
       DEF StartSave, Holds, StartWrite, create_checkpoint, Snapshot,
          LockDiscipline, ServerTypeOK, ControlTypeOK, Tasks, Savers, Nobody
  <2>6. (CoordinatorTypeOK /\ HandlersTypeOK /\ FramesLeft)'
    BY <1>25
       DEF StartSave, Holds, StartWrite, create_checkpoint, Snapshot,
          CoordinatorTypeOK, HandlersTypeOK, FramesLeft
  <2> QED
    BY <2>1, <2>2, <2>3, <2>4, <2>5, <2>6
<1>26. CASE FinishSave
  <2>1. ServerTypeOK'
    BY <1>26, ReleaseQueue, ServerAssumption
       DEF FinishSave, Released, AfterControl, ServerTypeOK, Tasks, Savers,
          Nobody, LockDiscipline
  <2>2. ControlTypeOK'
    BY <1>26
       DEF FinishSave, Released, AfterControl, ControlTypeOK,
          SchedulerState, MainState
  <2>3. SaveTypeOK'
    BY <1>26
       DEF FinishSave, Released, FinishWrite, SaveTypeOK, Savers, Checkpoint
  <2>4. LockDiscipline'
    BY <1>26, ReleaseQueue, ServerAssumption
       DEF FinishSave, Released, AfterControl, LockDiscipline, Holds,
          ServerTypeOK, ControlTypeOK, Tasks, Savers, Nobody
  <2>5. (CoordinatorTypeOK /\ AlgorithmTypeOK /\ HandlersTypeOK /\ FramesLeft)'
    BY <1>26
       DEF FinishSave, Released, FinishWrite, AfterControl,
          CoordinatorTypeOK, AlgorithmTypeOK, HandlersTypeOK, FramesLeft
  <2> QED
    BY <2>1, <2>2, <2>3, <2>4, <2>5
<1>27. CASE Wake
  <2>1. ServerTypeOK'
    BY <1>27, ServerAssumption
       DEF Wake, ServerTypeOK, Tasks, Savers, Nobody
  <2>2. ControlTypeOK'
    BY <1>27
       DEF Wake, ControlTypeOK, SchedulerState, MainState
  <2>3. LockDiscipline'
    BY <1>27, ServerAssumption
       DEF Wake, LockDiscipline, Holds, ServerTypeOK, ControlTypeOK, Tasks,
          Savers, Nobody
  <2>4. (CoordinatorTypeOK /\ AlgorithmTypeOK /\ HandlersTypeOK /\ SaveTypeOK /\ FramesLeft)'
    BY <1>27
       DEF Wake, CoordinatorTypeOK, AlgorithmTypeOK, HandlersTypeOK,
          SaveTypeOK, FramesLeft
  <2> QED
    BY <2>1, <2>2, <2>3, <2>4
<1>28. CASE InferFails
  <2>1. CoordinatorTypeOK'
    BY <1>28
       DEF InferFails, handle_fatal, Released, Holds, Resolve,
          CoordinatorTypeOK, FutureState
  <2>2. ServerTypeOK'
    BY <1>28, ReleaseQueue, ServerAssumption
       DEF InferFails, handle_fatal, Released, Holds, ServerTypeOK, Tasks,
          Savers, Nobody, LockDiscipline
  <2>3. ControlTypeOK'
    BY <1>28, EmptySeq DEF InferFails, handle_fatal, ControlTypeOK, SchedulerState
  <2>4. LockDiscipline'
    BY <1>28, ReleaseQueue, ServerAssumption
       DEF InferFails, handle_fatal, Released, Holds, LockDiscipline,
          ServerTypeOK, ControlTypeOK, Tasks, Savers, Nobody
  <2>5. (AlgorithmTypeOK /\ HandlersTypeOK /\ SaveTypeOK /\ FramesLeft)'
    BY <1>28
       DEF InferFails, handle_fatal, Released, Holds, Resolve,
          AlgorithmTypeOK, HandlersTypeOK, SaveTypeOK, FramesLeft
  <2> QED
    BY <2>1, <2>2, <2>3, <2>4, <2>5
<1>29. CASE LearnFails
  <2>1. ServerTypeOK'
    <3>1. lockQueue' \in Seq(Tasks)
      BY <1>29, ReleaseQueue DEF LearnFails, LockDiscipline, ServerTypeOK
    <3> QED
      BY <1>29, <3>1 DEF LearnFails, EndLearn, bump_version, ServerTypeOK
  <2>2. ControlTypeOK'
    BY <1>29
       DEF LearnFails, handle_fatal, Released, bump_version, ControlTypeOK,
          SchedulerState, MainState
  <2>3. LockDiscipline'
    BY <1>29, ReleaseQueue, ServerAssumption
       DEF LearnFails, handle_fatal, Released, bump_version, LockDiscipline,
          Holds, ServerTypeOK, ControlTypeOK, Tasks, Savers, Nobody
  <2>4. (CoordinatorTypeOK /\ AlgorithmTypeOK /\ HandlersTypeOK /\ SaveTypeOK /\ FramesLeft)'
    BY <1>29
       DEF LearnFails, handle_fatal, Released, EndLearn, bump_version,
          CoordinatorTypeOK, AlgorithmTypeOK, HandlersTypeOK, SaveTypeOK,
          FramesLeft
  <2> QED
    BY <2>1, <2>2, <2>3, <2>4
<1>30. CASE SaveFails
  <2>1. ServerTypeOK'
    BY <1>30, ReleaseQueue, ServerAssumption
       DEF SaveFails, handle_fatal, Released, ServerTypeOK, Tasks, Savers,
          Nobody, LockDiscipline
  <2>2. ControlTypeOK'
    BY <1>30
       DEF SaveFails, handle_fatal, Released, ControlTypeOK, SchedulerState,
          MainState
  <2>3. SaveTypeOK'
    BY <1>30
       DEF SaveFails, handle_fatal, Released, SaveTypeOK, Savers, Checkpoint
  <2>4. LockDiscipline'
    BY <1>30, ReleaseQueue, ServerAssumption
       DEF SaveFails, handle_fatal, Released, LockDiscipline, Holds,
          ServerTypeOK, ControlTypeOK, Tasks, Savers, Nobody
  <2>5. (CoordinatorTypeOK /\ AlgorithmTypeOK /\ HandlersTypeOK /\ FramesLeft)'
    BY <1>30
       DEF SaveFails, handle_fatal, Released, CoordinatorTypeOK,
          AlgorithmTypeOK, HandlersTypeOK, FramesLeft
  <2> QED
    BY <2>1, <2>2, <2>3, <2>4, <2>5
<1>31. CASE StartExitSave
  <2>1. AlgorithmTypeOK'
    BY <1>31
       DEF StartExitSave, Holds, StartWrite, create_checkpoint, Snapshot,
          AlgorithmTypeOK, Frame
  <2>2. ServerTypeOK'
    BY <1>31, ServerAssumption
       DEF StartExitSave, Holds, StartWrite, create_checkpoint, Snapshot,
          ServerTypeOK, Tasks, Savers, Nobody
  <2>3. ControlTypeOK'
    BY <1>31
       DEF StartExitSave, Holds, StartWrite, create_checkpoint, Snapshot,
          ControlTypeOK, SchedulerState, MainState
  <2>4. SaveTypeOK'
    <3>1. Snapshot \in Checkpoint
      BY DEF Snapshot, Checkpoint, AlgorithmTypeOK
    <3> QED
      BY <1>31, <3>1 DEF StartExitSave, StartWrite, SaveTypeOK, Savers
  <2>5. LockDiscipline'
    BY <1>31, ServerAssumption
       DEF StartExitSave, Holds, StartWrite, create_checkpoint, Snapshot,
          LockDiscipline, ServerTypeOK, ControlTypeOK, Tasks, Savers, Nobody
  <2>6. (CoordinatorTypeOK /\ HandlersTypeOK /\ FramesLeft)'
    BY <1>31
       DEF StartExitSave, Holds, StartWrite, create_checkpoint, Snapshot,
          CoordinatorTypeOK, HandlersTypeOK, FramesLeft
  <2> QED
    BY <2>1, <2>2, <2>3, <2>4, <2>5, <2>6
<1>32. CASE ShutdownWithSave
  <2>1. ServerTypeOK'
    BY <1>32, AcquireQueue, ServerAssumption
       DEF ShutdownWithSave, ServerTypeOK, Tasks, Savers, Nobody
  <2>2. ControlTypeOK'
    BY <1>32
       DEF ShutdownWithSave, ControlTypeOK, SchedulerState, MainState
  <2>3. LockDiscipline'
    BY <1>32, AcquireQueue, ServerAssumption
       DEF ShutdownWithSave, LockDiscipline, Holds, ServerTypeOK,
          ControlTypeOK, Tasks, Savers, Nobody
  <2>4. (CoordinatorTypeOK /\ AlgorithmTypeOK /\ HandlersTypeOK /\ SaveTypeOK /\ FramesLeft)'
    BY <1>32
       DEF ShutdownWithSave, CoordinatorTypeOK, AlgorithmTypeOK,
          HandlersTypeOK, SaveTypeOK, FramesLeft
  <2> QED
    BY <2>1, <2>2, <2>3, <2>4
<1>33. CASE ShutdownWithoutSave /\ UNCHANGED running
  <2>1. CoordinatorTypeOK'
    BY <1>33
       DEF ShutdownWithoutSave, BeginClosing, abort_pending_requests,
          CoordinatorTypeOK, FutureState
  <2>2. ControlTypeOK'
    BY <1>33
       DEF ShutdownWithoutSave, BeginClosing, abort_pending_requests,
          ControlTypeOK, SchedulerState, MainState
  <2>3. LockDiscipline'
    BY <1>33, ServerAssumption
       DEF ShutdownWithoutSave, BeginClosing, abort_pending_requests,
          LockDiscipline, Holds, ServerTypeOK, ControlTypeOK, Tasks, Savers,
          Nobody
  <2>4. (AlgorithmTypeOK /\ HandlersTypeOK /\ ServerTypeOK /\ SaveTypeOK /\ FramesLeft)'
    BY <1>33
       DEF ShutdownWithoutSave, BeginClosing, abort_pending_requests,
          AlgorithmTypeOK, HandlersTypeOK, ServerTypeOK, SaveTypeOK,
          FramesLeft
  <2> QED
    BY <2>1, <2>2, <2>3, <2>4
<1>34. CASE FinishExitSave /\ UNCHANGED running
  <2>1. CoordinatorTypeOK'
    BY <1>34
       DEF FinishExitSave, Released, BeginClosing, abort_pending_requests,
          CoordinatorTypeOK, FutureState
  <2>2. ServerTypeOK'
    BY <1>34, ReleaseQueue, ServerAssumption
       DEF FinishExitSave, Released, BeginClosing, abort_pending_requests,
          ServerTypeOK, Tasks, Savers, Nobody, LockDiscipline
  <2>3. ControlTypeOK'
    BY <1>34
       DEF FinishExitSave, Released, BeginClosing, abort_pending_requests,
          ControlTypeOK, SchedulerState, MainState
  <2>4. SaveTypeOK'
    BY <1>34
       DEF FinishExitSave, Released, FinishWrite, BeginClosing,
          abort_pending_requests, SaveTypeOK, Savers, Checkpoint
  <2>5. LockDiscipline'
    BY <1>34, ReleaseQueue, ServerAssumption
       DEF FinishExitSave, Released, BeginClosing, abort_pending_requests,
          LockDiscipline, Holds, ServerTypeOK, ControlTypeOK, Tasks, Savers,
          Nobody
  <2>6. (AlgorithmTypeOK /\ HandlersTypeOK /\ FramesLeft)'
    BY <1>34
       DEF FinishExitSave, Released, FinishWrite, BeginClosing,
          abort_pending_requests, AlgorithmTypeOK, HandlersTypeOK,
          FramesLeft
  <2> QED
    BY <2>1, <2>2, <2>3, <2>4, <2>5, <2>6
<1>35. CASE CancelScheduler /\ UNCHANGED running
  <2>1. ServerTypeOK'
    BY <1>35, WithdrawQueue, ServerAssumption
       DEF CancelScheduler, EndLearn, bump_version, ServerTypeOK, Tasks,
          Savers, Nobody
  <2>2. ControlTypeOK'
    BY <1>35
       DEF CancelScheduler, bump_version, ControlTypeOK, SchedulerState,
          MainState
  <2>3. LockDiscipline'
    BY <1>35, WithdrawQueue, ServerAssumption
       DEF CancelScheduler, bump_version, LockDiscipline, Holds,
          ServerTypeOK, ControlTypeOK, Tasks, Savers, Nobody
  <2>4. (CoordinatorTypeOK /\ AlgorithmTypeOK /\ HandlersTypeOK /\ SaveTypeOK /\ FramesLeft)'
    BY <1>35
       DEF CancelScheduler, EndLearn, bump_version, CoordinatorTypeOK,
          AlgorithmTypeOK, HandlersTypeOK, SaveTypeOK, FramesLeft
  <2> QED
    BY <2>1, <2>2, <2>3, <2>4
<1>36. CASE Signal /\ UNCHANGED running
  <2>1. ControlTypeOK'
    BY <1>36
       DEF Signal, ControlTypeOK, SchedulerState, MainState
  <2>2. (CoordinatorTypeOK /\ AlgorithmTypeOK /\ HandlersTypeOK /\ ServerTypeOK /\ SaveTypeOK /\ FramesLeft /\ LockDiscipline)'
    BY <1>36
       DEF Signal, CoordinatorTypeOK, AlgorithmTypeOK, HandlersTypeOK,
          ServerTypeOK, SaveTypeOK, FramesLeft, LockDiscipline, Holds
  <2> QED
    BY <2>1, <2>2
<1>37. CASE ExitSaveFails /\ UNCHANGED running
  <2>1. CoordinatorTypeOK'
    BY <1>37
       DEF ExitSaveFails, Released, BeginClosing, abort_pending_requests,
          CoordinatorTypeOK, FutureState
  <2>2. ServerTypeOK'
    BY <1>37, ReleaseQueue, ServerAssumption
       DEF ExitSaveFails, Released, BeginClosing, abort_pending_requests,
          ServerTypeOK, Tasks, Savers, Nobody, LockDiscipline
  <2>3. ControlTypeOK'
    BY <1>37
       DEF ExitSaveFails, Released, BeginClosing, abort_pending_requests,
          ControlTypeOK, SchedulerState, MainState
  <2>4. SaveTypeOK'
    BY <1>37
       DEF ExitSaveFails, Released, BeginClosing, abort_pending_requests,
          SaveTypeOK, Savers, Checkpoint
  <2>5. LockDiscipline'
    BY <1>37, ReleaseQueue, ServerAssumption
       DEF ExitSaveFails, Released, BeginClosing, abort_pending_requests,
          LockDiscipline, Holds, ServerTypeOK, ControlTypeOK, Tasks, Savers,
          Nobody
  <2>6. (AlgorithmTypeOK /\ HandlersTypeOK /\ FramesLeft)'
    BY <1>37
       DEF ExitSaveFails, Released, BeginClosing, abort_pending_requests,
          AlgorithmTypeOK, HandlersTypeOK, FramesLeft
  <2> QED
    BY <2>1, <2>2, <2>3, <2>4, <2>5, <2>6
<1>38. CASE GiveUpExitSave /\ UNCHANGED running
  <2>1. CoordinatorTypeOK'
    BY <1>38
       DEF GiveUpExitSave, BeginClosing, abort_pending_requests,
          CoordinatorTypeOK, FutureState
  <2>2. ServerTypeOK'
    BY <1>38, WithdrawQueue, ServerAssumption
       DEF GiveUpExitSave, BeginClosing, abort_pending_requests,
          ServerTypeOK, Tasks, Savers, Nobody
  <2>3. ControlTypeOK'
    BY <1>38
       DEF GiveUpExitSave, BeginClosing, abort_pending_requests,
          ControlTypeOK, SchedulerState, MainState
  <2>4. SaveTypeOK'
    BY <1>38
       DEF GiveUpExitSave, BeginClosing, abort_pending_requests, SaveTypeOK,
          Savers, Checkpoint
  <2>5. LockDiscipline'
    BY <1>38, WithdrawQueue, ServerAssumption
       DEF GiveUpExitSave, BeginClosing, abort_pending_requests,
          LockDiscipline, Holds, ServerTypeOK, ControlTypeOK, Tasks, Savers,
          Nobody
  <2>6. (AlgorithmTypeOK /\ HandlersTypeOK /\ FramesLeft)'
    BY <1>38
       DEF GiveUpExitSave, BeginClosing, abort_pending_requests,
          AlgorithmTypeOK, HandlersTypeOK, FramesLeft
  <2> QED
    BY <2>1, <2>2, <2>3, <2>4, <2>5, <2>6
<1>39. ASSUME NEW t \in Savers, FinishDetachedWrite(t)
      PROVE  TypeInv'
  <2>1. SaveTypeOK'
    BY <1>39
       DEF FinishDetachedWrite, FinishWrite, SaveTypeOK, Savers, Checkpoint
  <2>2. (CoordinatorTypeOK /\ AlgorithmTypeOK /\ HandlersTypeOK /\ ServerTypeOK /\ ControlTypeOK /\ FramesLeft /\ LockDiscipline)'
    BY <1>39
       DEF FinishDetachedWrite, FinishWrite, CoordinatorTypeOK,
          AlgorithmTypeOK, HandlersTypeOK, ServerTypeOK, ControlTypeOK,
          FramesLeft, LockDiscipline, Holds
  <2> QED
    BY <2>1, <2>2
<1>40. CASE UNCHANGED vars
  <2>1. TypeOK'
    BY <1>40 
       DEF CoordinatorTypeOK, AlgorithmTypeOK, HandlersTypeOK, ServerTypeOK,
          ControlTypeOK, SaveTypeOK
  <2>2. FramesLeft' /\ LockDiscipline'
    BY <1>40 DEF FramesLeft, LockDiscipline, Holds
  <2> QED
    BY <2>1, <2>2
<1> QED
  BY <1>1, <1>2, <1>3, <1>4, <1>5, <1>6, <1>7, <1>8, <1>9, <1>10, <1>11,
     <1>12, <1>13, <1>14, <1>15, <1>16, <1>17, <1>18, <1>19, <1>20, <1>21,
     <1>22, <1>23, <1>24, <1>25, <1>26, <1>27, <1>28, <1>29, <1>30, <1>31,
     <1>32, <1>33, <1>34, <1>35, <1>36, <1>37, <1>38, <1>39, <1>40
     DEF Next, NewConnection, ClientStep, HandlerStep, HandlerTrouble,
         SchedulerStep, SchedulerTrouble, MainStep, MainTrouble

(* Every variable keeps to its type, each handler that waits for the lock  *)
(* has frames left, and the lock is held by whoever learns or saves.       *)
THEOREM TypeInvariance == Spec => []TypeInv
<1>1. Init => TypeInv
  BY TypeInit
<1>2. TypeInv /\ [Next]_vars => TypeInv'
  BY TypeNext
<1> QED
  BY <1>1, <1>2, PTL DEF Spec

(* The type invariant of the server. *)
THEOREM TypeCorrectness == Spec => []TypeOK
<1>1. TypeInv => TypeOK
  BY DEF TypeInv
<1> QED
  BY <1>1, TypeInvariance, PTL

(* Learning and saving happen under the model lock only. *)
THEOREM LockDisciplineHolds == Spec => []LockDiscipline
<1>1. TypeInv => LockDiscipline
  BY DEF TypeInv
<1> QED
  BY <1>1, TypeInvariance, PTL

-----------------------------------------------------------------------------
(* A task writes a checkpoint only while it is in its saving state, as     *)
(* long as the shutdown has not abandoned a write.                         *)
WritersSaving ==
  ~gaveUp => /\ "main" \in writing => main = "exit_saving"
             /\ "scheduler" \in writing => sched = "saving" \/ main = "done"

LEMMA WritersNext == WritersSaving /\ [Next]_vars => WritersSaving'
<1> SUFFICES ASSUME WritersSaving, [Next]_vars
             PROVE  WritersSaving'
  OBVIOUS
<1> USE DEF WritersSaving
<1>1. ASSUME NEW c \in Conns,
             NewConnection(c) \/ ClientStep(c) \/ HandlerStep(c) \/ HandlerTrouble(c)
      PROVE  WritersSaving'
  <2>1. UNCHANGED <<gaveUp, writing, main, sched>>
    BY <1>1
       DEF NewConnection, ClientStep, HandlerStep, HandlerTrouble, Connect,
           RecvInfer, RecvFeedback, Feed, FeedFault, SendAction,
           StopInFlight, InferenceFailed, ConnectionClosed, HandlerFailed,
           Resync, FeedbackTimeout, MessageFault, Vanish, handle_fatal
  <2> QED
    BY <2>1
<1>2. CASE main # "done" /\ (SchedulerStep \/ SchedulerTrouble)
  <2>1. CASE StartSave
    BY <2>1 DEF StartSave, StartWrite
  <2>2. CASE FinishSave
    BY <2>2 DEF FinishSave, FinishWrite
  <2>3. CASE SaveFails
    BY <2>3 DEF SaveFails, handle_fatal
  <2>4. CASE \/ LoopExit \/ StartInfer \/ SkipInfer \/ Infer \/ NothingToLearn
             \/ StartLearn \/ LastReport \/ FinishLearn \/ InterruptLearn
             \/ NothingToSave \/ Wake \/ InferFails \/ LearnFails
    <3>1. sched # "saving" /\ UNCHANGED <<gaveUp, writing, main>>
      BY <2>4
         DEF LoopExit, StartInfer, SkipInfer, Infer, NothingToLearn,
             StartLearn, LastReport, FinishLearn, InterruptLearn,
             NothingToSave, Wake, InferFails, LearnFails, handle_fatal
    <3> QED
      BY <1>2, <3>1
  <2> QED
    BY <1>2, <2>1, <2>2, <2>3, <2>4 DEF SchedulerStep, SchedulerTrouble
<1>3. CASE main # "done" /\ (MainStep \/ MainTrouble)
  BY <1>3
     DEF MainStep, MainTrouble, StartExitSave, ShutdownWithSave,
         ShutdownWithoutSave, FinishExitSave, CancelScheduler, Signal,
         ExitSaveFails, GiveUpExitSave, BeginClosing, StartWrite, FinishWrite
<1>4. ASSUME NEW t \in Savers, FinishDetachedWrite(t)
      PROVE  WritersSaving'
  BY <1>4 DEF FinishDetachedWrite, FinishWrite
<1>5. CASE UNCHANGED vars
  BY <1>5
<1> QED
  BY <1>1, <1>2, <1>3, <1>4, <1>5 DEF Next

(* Two threads write checkpoints at once only after the shutdown has given *)
(* a write of its own up: the lock keeps the scheduler and the main task   *)
(* apart.                                                                  *)
THEOREM OneWriterHolds == Spec => []OneWriter
<1>1. Init => WritersSaving
  BY DEF Init, WritersSaving
<1>2. Spec => []WritersSaving
  BY <1>1, WritersNext, PTL DEF Spec
<1>3. TypeInv /\ WritersSaving => OneWriter
  <2> SUFFICES ASSUME TypeInv, WritersSaving, ~gaveUp
               PROVE  Cardinality(writing) <= 1
    BY DEF OneWriter
  <2>1. writing \subseteq {"scheduler", "main"}
    BY DEF TypeInv, TypeOK, SaveTypeOK, Savers
  <2>2. ~("main" \in writing /\ "scheduler" \in writing)
    BY DEF WritersSaving, TypeInv, LockDiscipline, Holds
  <2>3. writing = {} \/ \E t : writing = {t}
    BY <2>1, <2>2
  <2>4. CASE writing = {}
    BY <2>4, FS_EmptySet
  <2>5. ASSUME NEW t, writing = {t}
        PROVE  Cardinality(writing) <= 1
    <3>1. Cardinality({t}) = 1
      BY FS_Singleton
    <3> QED
      BY <2>5, <3>1
  <2> QED
    BY <2>3, <2>4, <2>5
<1> QED
  BY <1>2, <1>3, TypeInvariance, PTL

-----------------------------------------------------------------------------
(* Why the buffer stays on-policy: the version that the server compares is *)
(* the version of the weights, every sample was labelled with it, and a    *)
(* learn step that stops short leaves a buffer that takes no more frames.  *)
LabelsTrue ==
  /\ policyVersion = weights
  /\ \A c \in Conns : answer[c].version = answer[c].weights
  /\ \A c \in Conns, e \in Envs :
       sampledBy[c][e] # NoSample =>
         sampledBy[c][e].version = sampledBy[c][e].weights

LearnsWhenAsked == sched \in {"learning", "learnt"} => should_learn
StopsForGood == main # "serving" => stop

PolicyInv == LabelsTrue /\ LearnsWhenAsked /\ StopsForGood /\ OnPolicyBuffer

(* A step that touches neither the buffer nor the weights, begins no learn *)
(* step and takes no stop back keeps the buffer on-policy.                 *)
LEMMA PolicyFrame ==
  ASSUME LearnsWhenAsked, StopsForGood, OnPolicyBuffer,
         UNCHANGED <<buffer, globalStep, weights>>,
         sched' \in {"learning", "learnt"} => sched \in {"learning", "learnt"},
         stop => stop',
         main' # main => stop'
  PROVE  LearnsWhenAsked' /\ StopsForGood' /\ OnPolicyBuffer'
<1>1. should_learn' = should_learn
  BY DEF should_learn, full
<1>2. LearnsWhenAsked' /\ StopsForGood'
  BY <1>1 DEF LearnsWhenAsked, StopsForGood
<1>3. PICK w \in 0 .. weights :
        /\ \A i \in DOMAIN buffer : buffer[i].sampledBy = w
        /\ w = weights \/ (stop /\ should_learn)
  BY DEF OnPolicyBuffer
<1>4. OnPolicyBuffer'
  BY <1>1, <1>3 DEF OnPolicyBuffer
<1> QED
  BY <1>2, <1>4

LEMMA PolicyNext == TypeInv /\ PolicyInv /\ [Next]_vars => PolicyInv'
<1> SUFFICES ASSUME TypeInv, PolicyInv, [Next]_vars
             PROVE  PolicyInv'
  OBVIOUS
<1> USE DEF PolicyInv
<1>1. ASSUME NEW c \in Conns,
             \/ NewConnection(c) \/ ClientStep(c) \/ HandlerTrouble(c)
             \/ SendAction(c) \/ StopInFlight(c) \/ InferenceFailed(c)
             \/ ConnectionClosed(c) \/ HandlerFailed(c)
      PROVE  PolicyInv'
  <2>1. /\ UNCHANGED <<buffer, globalStep, weights, policyVersion, answer,
                       sched, main>>
        /\ stop => stop'
    <3>1. CASE HandlerFailed(c)
      BY <3>1 DEF HandlerFailed, handle_fatal
    <3>2. CASE SendAction(c) \/ StopInFlight(c)
      <4>1. UNCHANGED <<algorithmVars, answer, policyVars, sched,
                        lifecycleVars>>
        BY <3>2, Zenon DEF SendAction, StopInFlight
      <4> QED
        BY <4>1
    <3>5. CASE InferenceFailed(c) \/ ConnectionClosed(c)
      BY <3>5 DEF InferenceFailed, ConnectionClosed
    <3>3. CASE HandlerTrouble(c)
      BY <3>3
         DEF HandlerTrouble, FeedFault, Resync, FeedbackTimeout,
             MessageFault, Vanish
    <3>4. CASE NewConnection(c) \/ ClientStep(c)
      BY <3>4
         DEF NewConnection, ClientStep, Connect, RecvInfer, RecvFeedback
    <3> QED
      BY <1>1, <3>1, <3>2, <3>3, <3>4, <3>5
  <2>2. CASE UNCHANGED sampledBy
    <3>1. LabelsTrue'
      BY <2>1, <2>2 DEF LabelsTrue
    <3> QED
      BY <2>1, <3>1, PolicyFrame
  <2>3. CASE NewConnection(c)
    <3>1. sampledBy' = [sampledBy EXCEPT ![c] = [e \in Envs |-> NoSample]]
      BY <2>3 DEF NewConnection, Connect
    <3>2. \A d \in Conns, e \in Envs :
            sampledBy'[d][e] = sampledBy[d][e] \/ sampledBy'[d][e] = NoSample
      BY <3>1 DEF TypeInv, TypeOK, HandlersTypeOK
    <3>3. LabelsTrue'
      BY <2>1, <3>2 DEF LabelsTrue
    <3> QED
      BY <2>1, <3>3, PolicyFrame
  <2>4. CASE SendAction(c)
    <3>1. sampledBy' = [sampledBy EXCEPT ![c] =
                          [e \in Envs |-> IF e \in ToSet(requested[c])
                                          THEN answer[c] ELSE @[e]]]
      BY <2>4 DEF SendAction
    <3>2. \A d \in Conns, e \in Envs :
            sampledBy'[d][e] = sampledBy[d][e] \/ sampledBy'[d][e] = answer[c]
      BY <3>1 DEF TypeInv, TypeOK, HandlersTypeOK
    <3>3. LabelsTrue'
      BY <2>1, <3>2 DEF LabelsTrue
    <3> QED
      BY <2>1, <3>3, PolicyFrame
  <2>5. CASE \/ ClientStep(c) \/ HandlerTrouble(c) \/ StopInFlight(c)
             \/ InferenceFailed(c) \/ ConnectionClosed(c) \/ HandlerFailed(c)
    <3>1. UNCHANGED sampledBy
      BY <2>5
         DEF ClientStep, HandlerTrouble, RecvInfer, RecvFeedback, FeedFault,
             StopInFlight, InferenceFailed, ConnectionClosed, HandlerFailed,
             Resync, FeedbackTimeout, MessageFault, Vanish
    <3> QED
      BY <2>2, <3>1
  <2> QED
    BY <1>1, <2>3, <2>4, <2>5
<1>2. ASSUME NEW c \in Conns, Feed(c)
      PROVE  PolicyInv'
  <2> DEFINE e == Head(todo[c])
  <2>1. e \in Envs
    BY <1>2, HeadTailProperties
       DEF Feed, TypeInv, TypeOK, FramesLeft, HandlersTypeOK
  <2>2. UNCHANGED <<weights, policyVersion, answer, sampledBy, sched, main, stop>>
    BY <1>2 DEF Feed
  <2>3. LabelsTrue' /\ StopsForGood'
    BY <2>2 DEF LabelsTrue, StopsForGood
  <2>4. CASE Discard(c, e)
    <3>1. UNCHANGED <<buffer, globalStep>>
      BY <2>4 DEF Discard
    <3> QED
      BY <2>2, <2>3, <3>1, PolicyFrame
  <2>5. CASE Store(c, e)
    <3> DEFINE f == [sampledBy |-> sampledBy[c][e].weights,
                     prev |-> ChainedTo(prevNode[c][e])]
    <3>1. sampledBy[c][e].weights = weights /\ ~should_learn /\ ~full
      BY <2>1, <2>5 DEF Store, trains_on, LabelsTrue, should_learn
    <3>2. \A i \in DOMAIN buffer : buffer[i].sampledBy = weights
      BY <3>1 DEF OnPolicyBuffer
    <3>3. f.sampledBy = weights
      BY <3>1
    <3> HIDE DEF f
    <3>4. buffer' = Append(buffer, f)
      BY <2>5, <3>1 DEF Store, feedback, f
    <3>5. \A i \in DOMAIN buffer' : buffer'[i].sampledBy = weights
      BY <3>2, <3>3, <3>4 DEF TypeInv, TypeOK, AlgorithmTypeOK
    <3>6. OnPolicyBuffer'
      BY <2>2, <3>5 DEF OnPolicyBuffer, TypeInv, TypeOK, ServerTypeOK
    <3>7. LearnsWhenAsked'
      BY <2>2, <3>1 DEF LearnsWhenAsked
    <3> QED
      BY <2>3, <3>6, <3>7
  <2> QED
    BY <1>2, <2>4, <2>5 DEF Feed
<1>3. CASE StartLearn
  <2>1. /\ UNCHANGED <<buffer, globalStep, weights, policyVersion, answer,
                       sampledBy, main, stop>>
        /\ should_learn
    BY <1>3 DEF StartLearn
  <2>2. should_learn'
    BY <2>1 DEF should_learn, full
  <2> QED
    BY <2>1, <2>2
       DEF LabelsTrue, LearnsWhenAsked, StopsForGood, OnPolicyBuffer
<1>4. CASE FinishLearn
  <2>1. /\ buffer' = <<>>
        /\ weights' = weights + 1
        /\ policyVersion' = policyVersion + 1
        /\ sched' = "may_save"
        /\ UNCHANGED <<answer, sampledBy, main, stop>>
    BY <1>4 DEF FinishLearn, learn, EndLearn, bump_version
  <2>2. LabelsTrue' /\ LearnsWhenAsked' /\ StopsForGood'
    BY <2>1 DEF LabelsTrue, LearnsWhenAsked, StopsForGood
  <2>3. weights' \in 0 .. weights' /\ DOMAIN buffer' = {}
    BY <2>1 DEF TypeInv, TypeOK, ServerTypeOK
  <2>4. OnPolicyBuffer'
    BY <2>3 DEF OnPolicyBuffer
  <2> QED
    BY <2>2, <2>4
<1>5. CASE \/ InterruptLearn \/ LearnFails
           \/ CancelScheduler /\ sched \in {"learning", "learnt"}
  <2>1. /\ weights' = weights + 1
        /\ policyVersion' = policyVersion + 1
        /\ sched' \notin {"learning", "learnt"}
        /\ stop'
        /\ sched \in {"learning", "learnt"}
        /\ UNCHANGED <<buffer, globalStep, answer, sampledBy>>
    BY <1>5
       DEF InterruptLearn, LearnFails, CancelScheduler, EndLearn,
           bump_version, handle_fatal, StopsForGood
  <2>2. LabelsTrue' /\ LearnsWhenAsked' /\ StopsForGood'
    BY <2>1 DEF LabelsTrue, LearnsWhenAsked, StopsForGood
  <2>3. should_learn'
    BY <2>1 DEF LearnsWhenAsked, should_learn, full
  <2>4. PICK w \in 0 .. weights :
          \A i \in DOMAIN buffer : buffer[i].sampledBy = w
    BY DEF OnPolicyBuffer
  <2>5. w \in 0 .. weights'
    BY <2>1 DEF TypeInv, TypeOK, ServerTypeOK
  <2>6. OnPolicyBuffer'
    BY <2>1, <2>3, <2>4, <2>5 DEF OnPolicyBuffer
  <2> QED
    BY <2>2, <2>6
<1>6. CASE Infer
  <2>1. /\ UNCHANGED <<buffer, globalStep, weights, policyVersion, sampledBy,
                       main, stop>>
        /\ sched' = "may_learn"
        /\ answer' = [c \in Conns |->
                        IF c \in ToSet(batch)
                        THEN [version |-> policyVersion, weights |-> weights]
                        ELSE answer[c]]
    BY <1>6 DEF Infer
  <2>2. LabelsTrue'
    BY <2>1 DEF LabelsTrue
  <2> QED
    BY <2>1, <2>2, PolicyFrame
<1>7. CASE \/ LoopExit \/ StartInfer \/ SkipInfer \/ NothingToLearn \/ LastReport
           \/ NothingToSave \/ StartSave \/ FinishSave \/ Wake
           \/ InferFails \/ SaveFails
  <2>1. UNCHANGED <<buffer, globalStep, weights, policyVersion, answer,
                    sampledBy, main>>
    <3>1. CASE StartSave \/ FinishSave \/ SaveFails \/ InferFails
      BY <3>1
         DEF StartSave, FinishSave, SaveFails, InferFails, StartWrite,
             create_checkpoint, handle_fatal
    <3>2. CASE \/ LoopExit \/ StartInfer \/ SkipInfer \/ NothingToLearn
               \/ LastReport \/ NothingToSave \/ Wake
      BY <3>2
         DEF LoopExit, StartInfer, SkipInfer, NothingToLearn, LastReport,
             NothingToSave, Wake
    <3> QED
      BY <1>7, <3>1, <3>2
  <2>2. stop => stop'
    BY <1>7
       DEF LoopExit, StartInfer, SkipInfer, NothingToLearn, LastReport,
           NothingToSave, StartSave, FinishSave, Wake, InferFails, SaveFails,
           handle_fatal
  <2>3. sched' \in {"learning", "learnt"} => sched \in {"learning", "learnt"}
    <3>1. CASE LastReport
      BY <3>1 DEF LastReport
    <3>2. CASE NothingToSave \/ FinishSave
      BY <3>2 DEF NothingToSave, FinishSave, AfterControl
    <3>3. CASE \/ LoopExit \/ StartInfer \/ SkipInfer \/ NothingToLearn
               \/ StartSave \/ Wake \/ InferFails \/ SaveFails
      BY <3>3
         DEF LoopExit, StartInfer, SkipInfer, NothingToLearn, StartSave,
             Wake, InferFails, SaveFails
    <3> QED
      BY <1>7, <3>1, <3>2, <3>3
  <2>4. LabelsTrue'
    BY <2>1 DEF LabelsTrue
  <2> QED
    BY <2>1, <2>2, <2>3, <2>4, PolicyFrame
<1>8. CASE \/ StartExitSave \/ ShutdownWithSave \/ ShutdownWithoutSave
           \/ FinishExitSave \/ Signal \/ ExitSaveFails \/ GiveUpExitSave
           \/ CancelScheduler /\ sched \notin {"learning", "learnt"}
           \/ \E t \in Savers : FinishDetachedWrite(t)
           \/ UNCHANGED vars
  <2>1. /\ UNCHANGED <<buffer, globalStep, weights, policyVersion, answer,
                       sampledBy>>
        /\ stop => stop'
        /\ main' # main => stop'
        /\ sched' \in {"learning", "learnt"} => sched \in {"learning", "learnt"}
    BY <1>8
       DEF StartExitSave, ShutdownWithSave, ShutdownWithoutSave,
           FinishExitSave, Signal, ExitSaveFails, GiveUpExitSave,
           CancelScheduler, FinishDetachedWrite, BeginClosing, StartWrite,
           create_checkpoint, StopsForGood
  <2>2. LabelsTrue'
    BY <2>1 DEF LabelsTrue
  <2> QED
    BY <2>1, <2>2, PolicyFrame
<1> QED
  BY <1>1, <1>2, <1>3, <1>4, <1>5, <1>6, <1>7, <1>8
     DEF Next, HandlerStep, SchedulerStep, SchedulerTrouble, MainStep,
         MainTrouble

LEMMA PolicyInit == Init => PolicyInv
<1> SUFFICES ASSUME Init PROVE PolicyInv
  OBVIOUS
<1>1. LabelsTrue /\ LearnsWhenAsked /\ StopsForGood
  BY DEF Init, LabelsTrue, LearnsWhenAsked, StopsForGood
<1>2. buffer = <<>> /\ weights = 0
  BY DEF Init, AlgorithmInit
<1>3. OnPolicyBuffer
  BY <1>2 DEF OnPolicyBuffer
<1> QED
  BY <1>1, <1>3 DEF PolicyInv

(* The strengthening of the on-policy buffer holds in every state. *)
THEOREM PolicyInvariance == Spec => []PolicyInv
BY PolicyInit, TypeInvariance, PolicyNext, PTL DEF Spec

(* Whatever the order of inferences, feedback and learn steps, and however *)
(* learn steps end, the buffer holds frames of a single policy, which is   *)
(* the one now collecting unless the server is stopping.                   *)
THEOREM OnPolicyBufferHolds == Spec => []OnPolicyBuffer
<1>1. PolicyInv => OnPolicyBuffer
  BY DEF PolicyInv
<1> QED
  BY <1>1, PolicyInvariance, PTL

=============================================================================
