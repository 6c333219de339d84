------------------------ MODULE RolloutBufferProofs ------------------------
(***************************************************************************)
(* Proofs about RolloutBuffer, for any number of environments and any size *)
(* of the buffer: the chains the backward loop follows are sound, what it  *)
(* computes along them is each episode's advantage, running returns are of *)
(* one episode or run, and the statistics see exactly the filling that was *)
(* learned from.                                                           *)
(***************************************************************************)
EXTENDS RolloutBuffer, NumberLemmas, SequenceTheorems, TLAPS

USE DEF vars

-----------------------------------------------------------------------------
(* The shape of the buffer object, without the contents of its arrays.     *)
RowsShape(rows) ==
  /\ rows = [i \in Indices |-> rows[i]]
  /\ \A i \in Indices : /\ {"step", "next_index", "ret"} \subseteq DOMAIN rows[i]
                        /\ rows[i].next_index \in Indices
Shape(b) ==
  /\ b = [rows |-> b.rows, idx |-> b.idx, signature |-> b.signature,
          requests |-> b.requests]
  /\ RowsShape(b.rows)
  /\ b.idx \in 0 .. BufferSize
  /\ b.signature \in Nat
  /\ b.requests \in Seq(Request)

(* The invariant under ChainsSound: a request is for a frame of this       *)
(* filling, and a handler's node that is current is the end of a chain, of *)
(* which no other handler holds the end.                                   *)
RequestsCurrent ==
  \A r \in DOMAIN buffer.requests :
    LET end == buffer.requests[r].end_node
    IN end.signature = buffer.signature /\ end.idx \in 0 .. buffer.idx - 1
Held(e) == node[e].signature = buffer.signature /\ node[e].idx # -1
NodesAreEnds ==
  \A e \in Envs :
    /\ node[e].signature <= buffer.signature
    /\ Held(e) => /\ node[e].idx < buffer.idx
                  /\ buffer.rows[node[e].idx].next_index = 0
NodesDistinct ==
  \A e, f \in Envs : Held(e) /\ Held(f) /\ node[e].idx = node[f].idx => e = f

TypeInv ==
  /\ Shape(buffer)
  /\ node \in [Envs -> Node]
  /\ story \in [Envs -> Seq([ends : Outcomes \cup {"lost"}, at : Indices \cup {-1}])]
ChainInv == TypeInv /\ RequestsCurrent /\ NodesAreEnds /\ NodesDistinct /\ ChainsSound

-----------------------------------------------------------------------------
(* What linking and storing a frame do to the chains and the steps.        *)
LEMMA LinkedRows ==
  ASSUME NEW b, Shape(b), NEW p \in Indices \cup {-1}, b.idx \in Indices
  PROVE  /\ RowsShape(linked(b, p))
         /\ \A i \in Indices :
              /\ linked(b, p)[i].next_index = IF i = p THEN b.idx ELSE b.rows[i].next_index
              /\ linked(b, p)[i].step = b.rows[i].step
              /\ linked(b, p)[i].ret = b.rows[i].ret
<1> USE DEF linked, RowsShape, Shape
<1>1. CASE p = -1
  BY <1>1, BufferAssumption DEF Indices
<1>2. CASE p # -1
  BY <1>2
<1> QED
  BY <1>1, <1>2

LEMMA AddFrame ==
  ASSUME NEW b, Shape(b), ~full(b), NEW prev \in Node, NEW step, NEW began, NEW ends,
         NEW c, c = add_frame(b, prev, step, began, ends)
  PROVE  /\ Shape(c)
         /\ c.idx = b.idx + 1
         /\ c.signature = b.signature
         /\ c.requests = b.requests
         /\ \A i \in Indices :
              /\ c.rows[i].next_index
                   = IF i = chained(b, prev) THEN b.idx ELSE b.rows[i].next_index
              /\ c.rows[i].step = IF i = b.idx THEN step ELSE b.rows[i].step
              /\ c.rows[i].ret
                   = IF i # b.idx THEN b.rows[i].ret
                     ELSE IF kind = "fpo" THEN <<>>
                     ELSE Append(running_return(b, chained(b, prev), began # "running"),
                                 step)
<1> DEFINE p == chained(b, prev)
           begins == began # "running"
           ret == IF kind = "fpo" THEN <<>>
                  ELSE Append(running_return(b, p, begins), step)
           row == [linked(b, p)[b.idx] EXCEPT !.step = step, !.begins = begins,
                                              !.ends = ends, !.ret = ret]
           rows == [linked(b, p) EXCEPT ![b.idx] = row]
<1>1. p \in Indices \cup {-1} /\ b.idx \in Indices
  BY BufferAssumption DEF chained, Node, full, Shape, Indices
<1>2. c = [b EXCEPT !.rows = rows, !.idx = @ + 1]
  BY DEF add_frame
<1> HIDE DEF p, begins, ret
<1>3. RowsShape(linked(b, p))
      /\ \A i \in Indices :
           /\ linked(b, p)[i].next_index = IF i = p THEN b.idx ELSE b.rows[i].next_index
           /\ linked(b, p)[i].step = b.rows[i].step
           /\ linked(b, p)[i].ret = b.rows[i].ret
  BY <1>1, LinkedRows
<1>4. /\ {"step", "next_index", "ret"} \subseteq DOMAIN row
      /\ row.step = step /\ row.ret = ret
      /\ row.next_index = linked(b, p)[b.idx].next_index
  BY <1>1, <1>3 DEF RowsShape
<1> HIDE DEF row
<1>5. /\ RowsShape(rows)
      /\ \A i \in Indices :
           /\ rows[i].next_index = IF i = p THEN b.idx ELSE b.rows[i].next_index
           /\ rows[i].step = IF i = b.idx THEN step ELSE b.rows[i].step
           /\ rows[i].ret = IF i = b.idx THEN ret ELSE b.rows[i].ret
  BY <1>1, <1>3, <1>4 DEF RowsShape
<1> HIDE DEF rows
<1>6. /\ c.rows = rows /\ c.idx = b.idx + 1
      /\ c.signature = b.signature /\ c.requests = b.requests
      /\ c = [rows |-> c.rows, idx |-> c.idx, signature |-> c.signature,
              requests |-> c.requests]
  BY <1>2 DEF Shape
<1>7. b.idx + 1 \in 0 .. BufferSize
  BY <1>1, BufferAssumption DEF Indices
<1>8. Shape(c)
  BY <1>5, <1>6, <1>7 DEF Shape
<1> QED
  BY <1>5, <1>6, <1>8 DEF p, ret, begins

(* Dropping answered requests from the front keeps every other one.        *)
LEMMA Unanswered ==
  ASSUME NEW b, NEW queue \in Seq(Request),
         NEW left, left = WithoutAnswered(b, queue)
  PROVE  /\ left \in Seq(Request)
         /\ \A r \in DOMAIN left : \E q \in DOMAIN queue : left[r] = queue[q]
         /\ \A q \in DOMAIN queue :
              ~Answered(b, queue[q]) => \E r \in DOMAIN left : left[r] = queue[q]
<1> DEFINE First(n) == /\ \A i \in 1 .. n - 1 : Answered(b, queue[i])
                       /\ n <= Len(queue) => ~Answered(b, queue[n])
           open == {n \in 1 .. Len(queue) + 1 :
                      n <= Len(queue) => ~Answered(b, queue[n])}
           from == CHOOSE n \in 1 .. Len(queue) + 1 : First(n)
<1>1. Len(queue) \in Nat /\ DOMAIN queue = 1 .. Len(queue)
  OBVIOUS
<1>2. \E n \in 1 .. Len(queue) + 1 : First(n)
  <2>1. Len(queue) + 1 \in open
    BY <1>1
  <2>2. open \in SUBSET Nat
    BY <1>1
  <2> HIDE DEF open
  <2>3. PICK n \in open : \A m \in open : n <= m
    BY <2>1, <2>2, SmallestNumber
  <2>4. n \in 1 .. Len(queue) + 1 /\ (n <= Len(queue) => ~Answered(b, queue[n]))
    BY DEF open
  <2>5. ASSUME NEW i \in 1 .. n - 1 PROVE Answered(b, queue[i])
    <3>1. i \in 1 .. Len(queue) /\ i < n
      BY <2>4, <1>1
    <3>2. i \notin open
      BY <2>3, <2>4, <3>1
    <3> QED
      BY <3>1, <3>2, <1>1 DEF open
  <2> QED
    BY <2>4, <2>5
<1>3. from \in 1 .. Len(queue) + 1 /\ First(from)
  BY <1>2
<1>4. left = SubSeq(queue, from, Len(queue))
  BY DEF WithoutAnswered
<1> HIDE DEF from
<1>5. \A i \in from .. Len(queue) : queue[i] \in Request
  BY <1>1, <1>3
<1>6. /\ left \in Seq(Request)
      /\ Len(left) = Len(queue) - from + 1
      /\ \A i \in 1 .. Len(queue) - from + 1 : left[i] = queue[from + i - 1]
  BY <1>1, <1>3, <1>4, <1>5, SubSeqProperties
<1>7. DOMAIN left = 1 .. Len(queue) - from + 1
  BY <1>6
<1>8. ASSUME NEW r \in DOMAIN left
      PROVE  \E q \in DOMAIN queue : left[r] = queue[q]
  <2>1. from + r - 1 \in DOMAIN queue /\ left[r] = queue[from + r - 1]
    BY <1>1, <1>3, <1>6, <1>7
  <2> QED
    BY <2>1
<1>9. ASSUME NEW q \in DOMAIN queue, ~Answered(b, queue[q])
      PROVE  \E r \in DOMAIN left : left[r] = queue[q]
  <2>1. from <= q
    BY <1>1, <1>3, <1>9
  <2> DEFINE r == q - from + 1
  <2>2. r \in 1 .. Len(queue) - from + 1 /\ from + r - 1 = q
    BY <2>1, <1>1, <1>3
  <2>3. r \in DOMAIN left /\ left[r] = queue[q]
    BY <2>2, <1>6, <1>7
  <2> QED
    BY <2>3
<1> QED
  BY <1>6, <1>8, <1>9

(* What the learn step computes leaves chains and steps as they are.       *)
LEMMA ComputeKeeps ==
  ASSUME NEW b, Shape(b),
         NEW c, c = compute_advantages_and_returns(b)
  PROVE  /\ Shape(c)
         /\ c.idx = b.idx /\ c.signature = b.signature /\ c.requests = b.requests
         /\ \A i \in Indices : /\ c.rows[i].next_index = b.rows[i].next_index
                               /\ c.rows[i].step = b.rows[i].step
                               /\ c.rows[i].ret = b.rows[i].ret
<1> DEFINE rows == bootstrapped(b)
           advantages == Backwards(rows, b.idx)
           computed == [s \in Indices |-> [rows[s] EXCEPT !.advantage = advantages[s]]]
<1>1. c = [b EXCEPT !.rows = computed]
  BY DEF compute_advantages_and_returns
<1>2. ASSUME NEW i \in Indices
      PROVE  /\ {"step", "next_index", "ret"} \subseteq DOMAIN rows[i]
             /\ rows[i].next_index = b.rows[i].next_index
             /\ rows[i].step = b.rows[i].step
             /\ rows[i].ret = b.rows[i].ret
  <2> DEFINE mine == {q \in Open(b) : b.requests[q].end_node.idx = i}
             obs == b.requests[CHOOSE q \in mine : TRUE].obs
  <2>1. rows[i] = IF mine = {} THEN b.rows[i] ELSE [b.rows[i] EXCEPT !.last_value = obs]
    BY DEF bootstrapped
  <2> HIDE DEF mine, obs, rows
  <2>2. {"step", "next_index", "ret"} \subseteq DOMAIN b.rows[i]
    BY DEF Shape, RowsShape
  <2> QED
    BY <2>1, <2>2
<1> HIDE DEF rows, advantages
<1>3. /\ RowsShape(computed)
      /\ \A i \in Indices : /\ computed[i].next_index = b.rows[i].next_index
                            /\ computed[i].step = b.rows[i].step
                            /\ computed[i].ret = b.rows[i].ret
  BY <1>2 DEF Shape, RowsShape
<1> HIDE DEF computed
<1>4. /\ c.rows = computed /\ c.idx = b.idx
      /\ c.signature = b.signature /\ c.requests = b.requests
      /\ c = [rows |-> c.rows, idx |-> c.idx, signature |-> c.signature,
              requests |-> c.requests]
  BY <1>1 DEF Shape
<1> QED
  BY <1>3, <1>4 DEF Shape

LEMMA ResetShape ==
  ASSUME NEW b, Shape(b), NEW c, c = reset(b)
  PROVE  /\ Shape(c)
         /\ c.idx = 0 /\ c.signature = b.signature + 1 /\ c.requests = <<>>
         /\ \A i \in Indices : c.rows[i].next_index = 0
<1> DEFINE rows == [i \in Indices |-> EmptyRow]
<1>1. /\ {"step", "next_index", "ret"} \subseteq DOMAIN EmptyRow
      /\ EmptyRow.next_index = 0
      /\ 0 \in Indices
  BY BufferAssumption DEF EmptyRow, Indices
<1>2. RowsShape(rows) /\ \A i \in Indices : rows[i].next_index = 0
  BY <1>1 DEF RowsShape
<1>3. c = [b EXCEPT !.idx = 0, !.signature = @ + 1, !.requests = <<>>, !.rows = rows]
  BY DEF reset
<1> HIDE DEF rows
<1>4. /\ c.rows = rows /\ c.idx = 0
      /\ c.signature = b.signature + 1 /\ c.requests = <<>>
      /\ c = [rows |-> c.rows, idx |-> c.idx, signature |-> c.signature,
              requests |-> c.requests]
  BY <1>3 DEF Shape
<1> QED
  BY <1>2, <1>4, EmptySeq, BufferAssumption DEF Shape

-----------------------------------------------------------------------------
(* The chains. *)
LEMMA ChainInit == Init => ChainInv
<1> SUFFICES ASSUME Init PROVE ChainInv
  OBVIOUS
<1>1. {"step", "next_index", "ret"} \subseteq DOMAIN EmptyRow /\ EmptyRow.next_index = 0
  BY DEF EmptyRow
<1>2. 0 \in Indices
  BY BufferAssumption DEF Indices
<1>3. /\ buffer = [rows |-> [i \in Indices |-> EmptyRow], idx |-> 0,
                   signature |-> 1, requests |-> <<>>]
      /\ node = [e \in Envs |-> NoNode]
      /\ story = [e \in Envs |-> <<>>]
  BY DEF Init
<1>4. \A i \in Indices : buffer.rows[i] = EmptyRow
  BY <1>3
<1>5. Shape(buffer)
  BY <1>1, <1>2, <1>3, EmptySeq, BufferAssumption DEF Shape, RowsShape
<1>6. TypeInv
  BY <1>3, <1>5, EmptySeq DEF TypeInv, NoNode, Node
<1>7. RequestsCurrent /\ NodesAreEnds /\ NodesDistinct
  BY <1>3 DEF RequestsCurrent, NodesAreEnds, NodesDistinct, Held, NoNode
<1>8. ChainsSound
  BY <1>1, <1>3, <1>4 DEF ChainsSound, ChainsForward, ChainsDisjoint, EndsRequested
<1> QED
  BY <1>6, <1>7, <1>8 DEF ChainInv

LEMMA RecordType ==
  ASSUME TypeInv, NEW e \in Envs, NEW ends \in Outcomes \cup {"lost"},
         NEW at \in Indices \cup {-1}, Record(e, ends, at)
  PROVE  story' \in [Envs -> Seq([ends : Outcomes \cup {"lost"}, at : Indices \cup {-1}])]
<1>1. [ends |-> ends, at |-> at] \in [ends : Outcomes \cup {"lost"}, at : Indices \cup {-1}]
  OBVIOUS
<1> QED
  BY <1>1, AppendProperties DEF TypeInv, Record

(* The feedback of a step whose frame is stored: its handler's chain grows *)
(* by the frame, and the others stay as they are.                          *)
LEMMA ChainFeedback ==
  ASSUME ChainInv, NEW e \in Envs, NEW ends \in Outcomes, feedback(e, ends)
  PROVE  ChainInv'
<1> DEFINE b == buffer
           s == b.idx
           p == chained(b, node[e])
           stored == add_frame(b, node[e], Now(e), outcome[e], ends)
           here == [idx |-> s, signature |-> b.signature]
           mine == [obs |-> After(e), end_node |-> here]
           queue == Append(b.requests, mine)
           left == WithoutAnswered(stored, queue)
<1> USE DEF ChainInv, TypeInv
<1>1. /\ Shape(b) /\ ~full(b) /\ node[e] \in Node
      /\ s \in Nat /\ s \in Indices /\ s + 1 \in 0 .. BufferSize
      /\ \A i \in Indices : b.rows[i].next_index \in Indices
  BY BufferAssumption DEF feedback, full, Shape, RowsShape, Indices
<1>2. /\ Shape(stored)
      /\ stored.idx = s + 1
      /\ stored.signature = b.signature
      /\ stored.requests = b.requests
      /\ \A i \in Indices : stored.rows[i].next_index
                              = IF i = p THEN s ELSE b.rows[i].next_index
  BY <1>1, AddFrame
<1>3. NodeOf(b) = here /\ here.idx # -1
  BY <1>1 DEF NodeOf, Indices
<1>4. /\ buffer' = [stored EXCEPT !.requests = left]
      /\ node' = [node EXCEPT ![e] = here]
  BY <1>2, <1>3 DEF feedback, add_next_obs_value_request
<1>5. /\ p \in Indices \cup {-1}
      /\ p # -1 => p < s /\ b.rows[p].next_index = 0 /\ Held(e) /\ p = node[e].idx
  BY <1>1 DEF chained, Node, NodesAreEnds, Held
<1> HIDE DEF p, stored
<1>6. mine \in Request /\ queue \in Seq(Request)
  <2>1. Len(story[e]) + 2 \in Nat \ {0}
    BY LenProperties
  <2>2. After(e) \in Step
    BY <2>1 DEF After, Step
  <2>3. here \in Node
    BY <1>1 DEF Node, Shape
  <2>4. mine \in Request
    BY <2>2, <2>3 DEF Request
  <2> QED
    BY <2>4, <1>1, AppendProperties DEF Shape
<1> HIDE DEF mine
<1>7. /\ DOMAIN queue = 1 .. Len(b.requests) + 1
      /\ \A r \in DOMAIN b.requests : r \in DOMAIN queue /\ queue[r] = b.requests[r]
      /\ queue[Len(b.requests) + 1] = mine
  BY <1>1, <1>6, AppendProperties DEF Shape, mine
<1> HIDE DEF queue
<1>8. /\ left \in Seq(Request)
      /\ \A r \in DOMAIN left : \E q \in DOMAIN queue : left[r] = queue[q]
      /\ \A q \in DOMAIN queue :
           ~Answered(stored, queue[q]) => \E r \in DOMAIN left : left[r] = queue[q]
  BY <1>6, Unanswered
<1> HIDE DEF left
<1>9. /\ buffer'.rows = stored.rows /\ buffer'.idx = s + 1
      /\ buffer'.signature = b.signature /\ buffer'.requests = left
      /\ buffer' = [rows |-> buffer'.rows, idx |-> buffer'.idx,
                    signature |-> buffer'.signature, requests |-> buffer'.requests]
  BY <1>2, <1>4 DEF Shape
<1>10. \A i \in Indices : buffer'.rows[i].next_index
                            = IF i = p THEN s ELSE b.rows[i].next_index
  BY <1>2, <1>9
<1>11. TypeInv'
  <2>1. Shape(buffer')
    BY <1>2, <1>8, <1>9 DEF Shape
  <2>2. here \in Node
    BY <1>1 DEF Node, Shape
  <2>3. node' \in [Envs -> Node]
    BY <1>4, <2>2
  <2>4. Record(e, ends, s)
    BY DEF feedback
  <2> QED
    BY <2>1, <2>3, <2>4, <1>1, RecordType
<1>12. RequestsCurrent'
  <2> SUFFICES ASSUME NEW r \in DOMAIN left
               PROVE  /\ left[r].end_node.signature = b.signature
                      /\ left[r].end_node.idx \in 0 .. s
    BY <1>9, <1>1 DEF RequestsCurrent, Indices
  <2>1. PICK q \in DOMAIN queue : left[r] = queue[q]
    BY <1>8
  <2>2. CASE q = Len(b.requests) + 1
    BY <2>1, <2>2, <1>7, <1>1 DEF mine
  <2>3. CASE q # Len(b.requests) + 1
    <3>1. q \in DOMAIN b.requests
      BY <2>3, <1>7, <1>1, LenProperties DEF Shape
    <3> QED
      BY <3>1, <2>1, <1>7, <1>1 DEF RequestsCurrent
  <2> QED
    BY <2>2, <2>3
<1>13. b.rows[s].next_index = 0 /\ s # p
  <2>1. s # p
    BY <1>1, <1>5
  <2>2. b.rows[s].next_index # 0 => s < s
    BY <1>1 DEF ChainsSound, ChainsForward, Indices
  <2> QED
    BY <2>1, <2>2, <1>1
<1>14. NodesAreEnds'
  <2> SUFFICES ASSUME NEW f \in Envs
               PROVE  /\ node'[f].signature <= b.signature
                      /\ node'[f].signature = b.signature /\ node'[f].idx # -1
                         => /\ node'[f].idx < s + 1
                            /\ buffer'.rows[node'[f].idx].next_index = 0
    BY <1>9 DEF NodesAreEnds, Held
  <2>1. CASE f = e
    BY <2>1, <1>4, <1>10, <1>13, <1>1 DEF Shape
  <2>2. CASE f # e
    <3>1. node'[f] = node[f] /\ node[f] \in Node
      BY <2>2, <1>4
    <3>2. node[f].signature <= b.signature
      BY DEF NodesAreEnds
    <3>3. ASSUME Held(f)
          PROVE  /\ node[f].idx < s + 1
                 /\ buffer'.rows[node[f].idx].next_index = 0
      <4>1. node[f].idx < s /\ b.rows[node[f].idx].next_index = 0
        BY <3>3 DEF NodesAreEnds
      <4>2. node[f].idx \in Indices
        BY <3>1, <3>3 DEF Node, Held
      <4>3. node[f].idx # p
        BY <2>2, <3>3, <4>2, <1>5 DEF NodesDistinct, Indices
      <4> QED
        BY <4>1, <4>2, <4>3, <1>10, <1>1 DEF Indices
    <3> QED
      BY <3>1, <3>2, <3>3 DEF Held
  <2> QED
    BY <2>1, <2>2
<1>15. NodesDistinct'
  <2> SUFFICES ASSUME NEW f \in Envs, NEW g \in Envs, Held(f)', Held(g)',
                      node'[f].idx = node'[g].idx, f # g
               PROVE  FALSE
    BY DEF NodesDistinct
  <2>1. \A h \in Envs : h # e => node'[h] = node[h] /\ (Held(h)' => Held(h))
    BY <1>4, <1>9 DEF Held
  <2>2. \A h \in Envs : h # e /\ Held(h)' => node'[h].idx < s
    BY <2>1 DEF NodesAreEnds
  <2>3. node'[e].idx = s
    BY <1>4
  <2>4. f # e /\ g # e
    BY <2>2, <2>3, <1>1
  <2> QED
    BY <2>1, <2>4 DEF NodesDistinct
<1>16. ChainsForward' /\ ChainsDisjoint'
  <2>1. \A i \in Indices : b.rows[i].next_index # 0 =>
          i < b.rows[i].next_index /\ b.rows[i].next_index < s
    BY DEF ChainsSound, ChainsForward
  <2>2. \A i \in Indices : i \in Nat /\ b.rows[i].next_index \in Nat
    BY <1>1 DEF Indices
  <2>3. ASSUME NEW i \in Indices, buffer'.rows[i].next_index # 0
        PROVE  i < buffer'.rows[i].next_index /\ buffer'.rows[i].next_index < s + 1
    BY <2>1, <2>2, <2>3, <1>1, <1>5, <1>10
  <2>4. ChainsForward'
    BY <2>3, <1>9 DEF ChainsForward
  <2>5. ASSUME NEW i \in Indices, NEW j \in Indices,
               buffer'.rows[i].next_index # 0,
               buffer'.rows[i].next_index = buffer'.rows[j].next_index
        PROVE  i = j
    <3>1. i # p => b.rows[i].next_index < s
      BY <2>1, <2>5, <1>10
    <3>2. j # p => b.rows[j].next_index < s
      BY <2>1, <2>5, <1>10
    <3>3. i = p <=> j = p
      BY <3>1, <3>2, <2>2, <2>5, <1>1, <1>10
    <3> QED
      BY <3>3, <2>5, <1>10 DEF ChainsSound, ChainsDisjoint
  <2> QED
    BY <2>4, <2>5 DEF ChainsDisjoint
<1>17. EndsRequested'
  <2> SUFFICES ASSUME NEW i \in 0 .. s, buffer'.rows[i].next_index = 0
               PROVE  \E r \in DOMAIN left :
                        left[r].end_node = [idx |-> i, signature |-> b.signature]
    BY <1>9, <1>1 DEF EndsRequested
  <2>1. i \in Indices
    BY <1>1, BufferAssumption DEF Indices
  <2>2. \E q \in DOMAIN queue :
          queue[q].end_node = [idx |-> i, signature |-> b.signature]
    <3>1. CASE i = s
      <4>1. Len(b.requests) + 1 \in DOMAIN queue
        BY <1>7, <1>1, LenProperties DEF Shape
      <4> QED
        BY <3>1, <4>1, <1>7 DEF mine
    <3>2. CASE i # s
      <4>1. i \in 0 .. s - 1
        BY <3>2, <1>1
      <4>2. b.rows[i].next_index = 0
        BY <2>1, <4>1, <1>10, <1>5, <1>13
      <4>3. PICK r \in DOMAIN b.requests :
              b.requests[r].end_node = [idx |-> i, signature |-> b.signature]
        BY <4>1, <4>2 DEF ChainsSound, EndsRequested
      <4> QED
        BY <4>3, <1>7
    <3> QED
      BY <3>1, <3>2
  <2>3. PICK q \in DOMAIN queue :
          queue[q].end_node = [idx |-> i, signature |-> b.signature]
    BY <2>2
  <2>4. ~Answered(stored, queue[q])
    BY <2>3, <1>9 DEF Answered
  <2> QED
    BY <2>3, <2>4, <1>8
<1> QED
  BY <1>11, <1>12, <1>14, <1>15, <1>16, <1>17 DEF ChainsSound

(* A handler that lost its step holds no chain any more. *)
LEMMA ChainLost ==
  ASSUME ChainInv, NEW e \in Envs, NEW ends \in Outcomes \cup {"lost"},
         Record(e, ends, -1), node' = [node EXCEPT ![e] = NoNode],
         UNCHANGED buffer
  PROVE  ChainInv'
<1> USE DEF ChainInv, TypeInv
<1>1. NoNode \in Node /\ NoNode.idx = -1 /\ NoNode.signature = 0
  BY DEF NoNode, Node
<1>2. TypeInv'
  BY <1>1, RecordType
<1>3. buffer.signature \in Nat
  BY DEF Shape
<1>4. \A f \in Envs : node'[f] = IF f = e THEN NoNode ELSE node[f]
  OBVIOUS
<1>5. NodesAreEnds' /\ NodesDistinct'
  BY <1>1, <1>3, <1>4 DEF NodesAreEnds, NodesDistinct, Held
<1>6. RequestsCurrent' /\ ChainsSound'
  BY DEF RequestsCurrent, ChainsSound, ChainsForward, ChainsDisjoint, EndsRequested
<1> QED
  BY <1>2, <1>5, <1>6

LEMMA ChainPreLearn ==
  ASSUME ChainInv, pre_learn
  PROVE  ChainInv'
<1> USE DEF ChainInv, TypeInv
<1>1. /\ buffer' = compute_advantages_and_returns(buffer)
      /\ UNCHANGED <<node, story>>
  BY DEF pre_learn
<1>2. /\ Shape(buffer')
      /\ buffer'.idx = buffer.idx /\ buffer'.signature = buffer.signature
      /\ buffer'.requests = buffer.requests
      /\ \A i \in Indices : buffer'.rows[i].next_index = buffer.rows[i].next_index
  BY <1>1, ComputeKeeps
<1>3. TypeInv' /\ RequestsCurrent' /\ NodesDistinct'
  BY <1>1, <1>2 DEF RequestsCurrent, NodesDistinct, Held
<1>4. NodesAreEnds'
  <2> SUFFICES ASSUME NEW e \in Envs
               PROVE  /\ node[e].signature <= buffer.signature
                      /\ Held(e) => /\ node[e].idx < buffer.idx
                                    /\ buffer'.rows[node[e].idx].next_index = 0
    BY <1>1, <1>2 DEF NodesAreEnds, Held
  <2>1. Held(e) => node[e].idx \in Indices
    BY DEF Held, Node
  <2> QED
    BY <1>2, <2>1 DEF NodesAreEnds
<1>5. ChainsForward' /\ ChainsDisjoint'
  BY <1>2 DEF ChainsSound, ChainsForward, ChainsDisjoint
<1>6. EndsRequested'
  <2>1. \A i \in 0 .. buffer.idx - 1 : i \in Indices
    BY BufferAssumption DEF Indices, Shape
  <2> QED
    BY <1>2, <2>1 DEF ChainsSound, EndsRequested
<1> QED
  BY <1>3, <1>4, <1>5, <1>6 DEF ChainsSound

LEMMA ChainPostLearn ==
  ASSUME ChainInv, post_learn
  PROVE  ChainInv'
<1> USE DEF ChainInv, TypeInv
<1>1. /\ buffer' = reset(buffer) /\ UNCHANGED node
      /\ story' = [e \in Envs |-> <<>>]
  BY DEF post_learn
<1>2. /\ Shape(buffer')
      /\ buffer'.idx = 0 /\ buffer'.signature = buffer.signature + 1
      /\ buffer'.requests = <<>>
      /\ \A i \in Indices : buffer'.rows[i].next_index = 0
  BY <1>1, ResetShape
<1>3. TypeInv'
  BY <1>1, <1>2, EmptySeq
<1>4. \A e \in Envs : node'[e].signature < buffer'.signature
  BY <1>1, <1>2 DEF NodesAreEnds, Node, Shape
<1>5. \A e \in Envs : node'[e].signature \in Nat
  BY <1>1 DEF Node
<1>6. buffer'.signature \in Nat
  BY <1>2 DEF Shape
<1>7. NodesAreEnds' /\ NodesDistinct'
  BY <1>4, <1>5, <1>6 DEF NodesAreEnds, NodesDistinct, Held
<1>8. RequestsCurrent' /\ ChainsSound'
  BY <1>2 DEF RequestsCurrent, ChainsSound, ChainsForward, ChainsDisjoint, EndsRequested
<1> QED
  BY <1>3, <1>7, <1>8

LEMMA ChainStep ==
  ASSUME ChainInv, [Next]_vars
  PROVE  ChainInv'
<1>1. ASSUME NEW e \in Envs, NEW ends \in Outcomes, feedback(e, ends) PROVE ChainInv'
  BY <1>1, ChainFeedback
<1>2. ASSUME NEW e \in Envs, NEW ends \in Outcomes, discard_feedback(e, ends)
      PROVE  ChainInv'
  BY <1>2, ChainLost DEF discard_feedback
<1>3. ASSUME NEW e \in Envs, Reconnect(e) PROVE ChainInv'
  BY <1>3, ChainLost DEF Reconnect
<1>4. CASE pre_learn
  BY <1>4, ChainPreLearn
<1>5. CASE post_learn
  BY <1>5, ChainPostLearn
<1>6. CASE UNCHANGED vars
  BY <1>6 DEF ChainInv, TypeInv, RequestsCurrent, NodesAreEnds, NodesDistinct, Held,
              ChainsSound, ChainsForward, ChainsDisjoint, EndsRequested
<1> QED
  BY <1>1, <1>2, <1>3, <1>4, <1>5, <1>6 DEF Next

LEMMA ChainInvariant == Spec => []ChainInv
<1>1. Init => ChainInv
  BY ChainInit
<1>2. ChainInv /\ [Next]_vars => ChainInv'
  BY ChainStep
<1> QED
  BY <1>1, <1>2, PTL DEF Spec

(* Whatever the order of the frames, and wherever feedback is discarded or *)
(* a connection replaced: chains lead forwards within what is stored, no   *)
(* two meet, and every end has a request for the value it bootstraps from  *)
(* (GAEBuffer.add_frame and add_next_obs_value_request).                   *)
THEOREM ChainsSoundHolds == Spec => []ChainsSound
<1>1. ChainInv => ChainsSound
  BY DEF ChainInv
<1> QED
  BY <1>1, ChainInvariant, PTL

-----------------------------------------------------------------------------
(* The statistics.  The steps of the rows are those that the environments' *)
(* stories say are stored; FPO's statistics saw them before the learn step.*)
StoredSteps ==
  /\ \A e \in Envs : \A p \in DOMAIN story[e] :
       Stored(e, p) => /\ story[e][p].at < buffer.idx
                       /\ buffer.rows[story[e][p].at].step = <<e, p>>
  /\ \A i \in 0 .. buffer.idx - 1 :
       \E e \in Envs : \E p \in DOMAIN story[e] : Stored(e, p) /\ story[e][p].at = i
StatisticsInv ==
  /\ ChainInv
  /\ StoredSteps
  /\ phase = "learn" /\ kind = "fpo" => normalised = whole_storage(buffer)

StepsOf(e) == {<<e, p>> : p \in {q \in DOMAIN story[e] : Stored(e, q)}}

LEMMA StoryEntry ==
  ASSUME TypeInv, NEW e \in Envs, NEW p \in DOMAIN story[e]
  PROVE  story[e][p].at \in Indices \cup {-1}
<1> DEFINE S == [ends : Outcomes \cup {"lost"}, at : Indices \cup {-1}]
<1>1. story[e] \in Seq(S)
  BY DEF TypeInv
<1> HIDE DEF S
<1>2. story[e][p] \in S
  BY <1>1, ElementOfSeq, LenProperties
<1> QED
  BY <1>2 DEF S

LEMMA RowsAreSteps ==
  ASSUME StatisticsInv
  PROVE  {buffer.rows[i].step : i \in 0 .. buffer.idx - 1}
           = UNION {StepsOf(e) : e \in Envs}
<1> USE DEF StatisticsInv, ChainInv, TypeInv
<1>1. ASSUME NEW e \in Envs, NEW p \in DOMAIN story[e], Stored(e, p)
      PROVE  /\ story[e][p].at \in 0 .. buffer.idx - 1
             /\ buffer.rows[story[e][p].at].step = <<e, p>>
  <2>1. story[e][p].at \in Indices
    BY <1>1, StoryEntry DEF Stored
  <2> QED
    BY <1>1, <2>1, BufferAssumption DEF StoredSteps, Indices, Shape
<1>2. ASSUME NEW i \in 0 .. buffer.idx - 1
      PROVE  \E e \in Envs : buffer.rows[i].step \in StepsOf(e)
  <2>1. PICK e \in Envs : \E p \in DOMAIN story[e] : Stored(e, p) /\ story[e][p].at = i
    BY DEF StoredSteps
  <2>2. PICK p \in DOMAIN story[e] : Stored(e, p) /\ story[e][p].at = i
    BY <2>1
  <2>3. buffer.rows[i].step = <<e, p>>
    BY <2>2, <1>1
  <2> QED
    BY <2>2, <2>3 DEF StepsOf
<1>3. ASSUME NEW e \in Envs, NEW x \in StepsOf(e)
      PROVE  \E i \in 0 .. buffer.idx - 1 : x = buffer.rows[i].step
  <2>1. PICK p \in DOMAIN story[e] : Stored(e, p) /\ x = <<e, p>>
    BY DEF StepsOf
  <2> QED
    BY <2>1, <1>1
<1> QED
  BY <1>2, <1>3

LEMMA StatisticsInit == Init => StatisticsInv
<1> SUFFICES ASSUME Init PROVE StatisticsInv
  OBVIOUS
<1>1. ChainInv
  BY ChainInit
<1>2. StoredSteps
  BY DEF Init, StoredSteps
<1>3. phase = "collect"
  BY DEF Init
<1> QED
  BY <1>1, <1>2, <1>3 DEF StatisticsInv

(* A story grows at its end.                                               *)
LEMMA StoryGrows ==
  ASSUME TypeInv, NEW e \in Envs, NEW ends, NEW at, Record(e, ends, at)
  PROVE  /\ \A f \in Envs : \A p : f # e \/ p # Len(story[e]) + 1 =>
              /\ p \in DOMAIN story'[f] <=> p \in DOMAIN story[f]
              /\ p \in DOMAIN story[f] => story'[f][p] = story[f][p]
         /\ Len(story'[e]) = Len(story[e]) + 1 /\ Len(story[e]) \in Nat
         /\ \A f \in Envs : f # e => story'[f] = story[f]
         /\ Len(story[e]) + 1 \in DOMAIN story'[e]
         /\ story'[e][Len(story[e]) + 1] = [ends |-> ends, at |-> at]
<1> DEFINE S == [ends : Outcomes \cup {"lost"}, at : Indices \cup {-1}]
           entry == [ends |-> ends, at |-> at]
<1>1. story[e] \in Seq(S) /\ story' = [story EXCEPT ![e] = Append(@, entry)]
  BY DEF TypeInv, Record
<1> HIDE DEF S, entry
<1>2. /\ Len(story[e]) \in Nat /\ DOMAIN story[e] = 1 .. Len(story[e])
      /\ story'[e] = Append(story[e], entry)
      /\ \A f \in Envs : f # e => story'[f] = story[f]
  BY <1>1 DEF TypeInv
<1>3. /\ DOMAIN story'[e] = 1 .. Len(story[e]) + 1
      /\ Len(story'[e]) = Len(story[e]) + 1
      /\ \A p \in 1 .. Len(story[e]) : story'[e][p] = story[e][p]
      /\ story'[e][Len(story[e]) + 1] = entry
  BY <1>1, <1>2
<1> QED
  BY <1>2, <1>3 DEF entry

LEMMA StatisticsFeedback ==
  ASSUME StatisticsInv, NEW e \in Envs, NEW ends \in Outcomes, feedback(e, ends)
  PROVE  StatisticsInv'
<1> DEFINE b == buffer
           s == b.idx
           now == Len(story[e]) + 1
           stored == add_frame(b, node[e], Now(e), outcome[e], ends)
<1> USE DEF StatisticsInv, ChainInv, TypeInv
<1>1. ChainInv'
  BY ChainFeedback
<1>2. Shape(b) /\ ~full(b) /\ node[e] \in Node /\ s \in Nat /\ s \in Indices
  BY BufferAssumption DEF feedback, full, Shape, Indices
<1>3. /\ stored.idx = s + 1
      /\ \A i \in Indices : stored.rows[i].step = IF i = s THEN Now(e) ELSE b.rows[i].step
      /\ Shape(stored)
  BY <1>2, AddFrame
<1>4. \E left : buffer' = [stored EXCEPT !.requests = left]
  <2>1. buffer' = add_next_obs_value_request(stored, After(e), NodeOf(b))
    BY DEF feedback
  <2>2. NodeOf(b).idx = s /\ s # -1
    BY <1>2 DEF NodeOf
  <2> QED
    BY <2>1, <2>2 DEF add_next_obs_value_request
<1> HIDE DEF stored
<1>5. buffer'.rows = stored.rows /\ buffer'.idx = s + 1
  BY <1>3, <1>4 DEF Shape
<1>6. /\ \A f \in Envs : \A p : f # e \/ p # now =>
           /\ p \in DOMAIN story'[f] <=> p \in DOMAIN story[f]
           /\ p \in DOMAIN story[f] => story'[f][p] = story[f][p]
      /\ now \in DOMAIN story'[e]
      /\ story'[e][now] = [ends |-> ends, at |-> s]
  <2>1. Record(e, ends, s)
    BY DEF feedback
  <2>2. TypeInv
    OBVIOUS
  <2> HIDE DEF TypeInv, ChainInv, StatisticsInv
  <2>3. \A f \in Envs : \A p : f # e \/ p # now =>
           /\ p \in DOMAIN story'[f] <=> p \in DOMAIN story[f]
           /\ p \in DOMAIN story[f] => story'[f][p] = story[f][p]
    BY <2>1, <2>2, StoryGrows
  <2> QED
    BY <2>1, <2>2, <2>3, StoryGrows
<1>7. Now(e) = <<e, now>> /\ s # -1
  BY <1>2 DEF Now, Indices
<1> HIDE DEF now
<1>8. ASSUME NEW f \in Envs, NEW p \in DOMAIN story'[f], Stored(f, p)'
      PROVE  /\ story'[f][p].at < s + 1
             /\ buffer'.rows[story'[f][p].at].step = <<f, p>>
  <2>1. CASE f = e /\ p = now
    BY <2>1, <1>2, <1>3, <1>5, <1>6, <1>7
  <2>2. CASE f # e \/ p # now
    <3>1. p \in DOMAIN story[f] /\ story'[f][p] = story[f][p]
      BY <2>2, <1>6
    <3>2. Stored(f, p)
      BY <3>1, <1>8 DEF Stored
    <3>3. story[f][p].at \in Indices
      BY <3>1, <3>2, StoryEntry DEF Stored
    <3>4. story[f][p].at \in Int
      BY <3>3 DEF Indices
    <3>5. story[f][p].at < s /\ b.rows[story[f][p].at].step = <<f, p>>
      BY <3>1, <3>2 DEF StoredSteps
    <3> QED
      BY <3>1, <3>3, <3>4, <3>5, <1>2, <1>3, <1>5
  <2> QED
    BY <2>1, <2>2
<1>9. ASSUME NEW i \in 0 .. s
      PROVE  \E f \in Envs : \E p \in DOMAIN story'[f] : Stored(f, p)' /\ story'[f][p].at = i
  <2>1. CASE i = s
    BY <2>1, <1>6, <1>7 DEF Stored
  <2>2. CASE i # s
    <3>1. i \in 0 .. s - 1
      BY <2>2, <1>2
    <3>2. PICK f \in Envs : \E p \in DOMAIN story[f] : Stored(f, p) /\ story[f][p].at = i
      BY <3>1 DEF StoredSteps
    <3>3. PICK p \in DOMAIN story[f] : Stored(f, p) /\ story[f][p].at = i
      BY <3>2
    <3>4. f # e \/ p # now
      BY <3>3, LenProperties DEF now
    <3>5. p \in DOMAIN story'[f] /\ story'[f][p] = story[f][p]
      BY <3>3, <3>4, <1>6
    <3> QED
      BY <3>3, <3>5 DEF Stored
  <2> QED
    BY <2>1, <2>2
<1>10. StoredSteps'
  <2>1. (s + 1) - 1 = s
    BY <1>2
  <2> QED
    BY <2>1, <1>5, <1>8, <1>9 DEF StoredSteps
<1>11. phase' = "collect"
  BY DEF feedback
<1> QED
  BY <1>1, <1>10, <1>11

LEMMA StatisticsLost ==
  ASSUME StatisticsInv, NEW e \in Envs, NEW ends \in Outcomes \cup {"lost"},
         Record(e, ends, -1), phase = "collect", UNCHANGED <<buffer, phase>>,
         ChainInv'
  PROVE  StatisticsInv'
<1> DEFINE now == Len(story[e]) + 1
<1>1. /\ \A f \in Envs : \A p : f # e \/ p # now =>
           /\ p \in DOMAIN story'[f] <=> p \in DOMAIN story[f]
           /\ p \in DOMAIN story[f] => story'[f][p] = story[f][p]
      /\ now \in DOMAIN story'[e]
      /\ story'[e][now] = [ends |-> ends, at |-> -1]
  BY StoryGrows DEF StatisticsInv, ChainInv
<1> HIDE DEF now
<1>2. ASSUME NEW f \in Envs, NEW p
      PROVE  /\ Stored(f, p)' <=> Stored(f, p) /\ ~(f = e /\ p = now)
             /\ Stored(f, p)' => story'[f][p] = story[f][p]
  BY <1>1 DEF Stored
<1>3. ASSUME NEW f \in Envs, NEW p, Stored(f, p)
      PROVE  ~(f = e /\ p = now)
  <2>1. story[e] \in Seq([ends : Outcomes \cup {"lost"}, at : Indices \cup {-1}])
    BY DEF StatisticsInv, ChainInv, TypeInv
  <2>2. now \notin DOMAIN story[e]
    BY <2>1, LenProperties DEF now
  <2> QED
    BY <2>2, <1>3 DEF Stored
<1>4. \A f \in Envs : \A p : Stored(f, p) => p \in DOMAIN story[f] /\ p \in DOMAIN story'[f]
  BY <1>1, <1>3 DEF Stored
<1>5. StoredSteps'
  <2>1. ASSUME NEW f \in Envs, NEW p \in DOMAIN story'[f], Stored(f, p)'
        PROVE  /\ story'[f][p].at < buffer.idx
               /\ buffer.rows[story'[f][p].at].step = <<f, p>>
    <3>1. Stored(f, p) /\ p \in DOMAIN story[f] /\ story'[f][p] = story[f][p]
      BY <2>1, <1>2, <1>4
    <3>2. StoredSteps
      BY DEF StatisticsInv
    <3> HIDE DEF Stored
    <3>3. /\ story[f][p].at < buffer.idx
          /\ buffer.rows[story[f][p].at].step = <<f, p>>
      BY <3>1, <3>2 DEF StoredSteps
    <3> QED
      BY <3>1, <3>3
  <2>2. ASSUME NEW i \in 0 .. buffer.idx - 1
        PROVE  \E f \in Envs : \E p \in DOMAIN story'[f] :
                 Stored(f, p)' /\ story'[f][p].at = i
    <3>1. PICK f \in Envs : \E p \in DOMAIN story[f] : Stored(f, p) /\ story[f][p].at = i
      BY DEF StatisticsInv, StoredSteps
    <3>2. PICK p \in DOMAIN story[f] : Stored(f, p) /\ story[f][p].at = i
      BY <3>1
    <3> QED
      BY <3>2, <1>2, <1>3, <1>4
  <2> QED
    BY <2>1, <2>2 DEF StoredSteps
<1> QED
  BY <1>5 DEF StatisticsInv

LEMMA StatisticsPreLearn ==
  ASSUME StatisticsInv, pre_learn
  PROVE  StatisticsInv'
<1> USE DEF StatisticsInv, ChainInv, TypeInv
<1>1. ChainInv'
  BY ChainPreLearn
<1>2. /\ buffer' = compute_advantages_and_returns(buffer)
      /\ UNCHANGED <<kind, story>>
      /\ kind = "fpo" => normalised' = whole_storage(buffer)
  BY DEF pre_learn
<1>3. /\ buffer'.idx = buffer.idx
      /\ \A i \in Indices : buffer'.rows[i].step = buffer.rows[i].step
  BY <1>2, ComputeKeeps
<1>4. StoredSteps'
  <2>1. ASSUME NEW e \in Envs, NEW p \in DOMAIN story[e], Stored(e, p)
        PROVE  /\ story[e][p].at < buffer.idx
               /\ buffer'.rows[story[e][p].at].step = <<e, p>>
    <3>1. story[e][p].at \in Indices
      BY <2>1, StoryEntry DEF Stored
    <3> QED
      BY <2>1, <3>1, <1>3 DEF StoredSteps
  <2> QED
    BY <2>1, <1>2, <1>3 DEF StoredSteps, Stored
<1>5. whole_storage(buffer') = whole_storage(buffer)
  BY <1>3 DEF whole_storage
<1> QED
  BY <1>1, <1>2, <1>4, <1>5

LEMMA StatisticsPostLearn ==
  ASSUME StatisticsInv, post_learn
  PROVE  /\ StatisticsInv'
         /\ normalised' = UNION {StepsOf(e) : e \in Envs}
<1> USE DEF StatisticsInv, ChainInv, TypeInv
<1>1. ChainInv'
  BY ChainPostLearn
<1>2. buffer' = reset(buffer) /\ story' = [e \in Envs |-> <<>>] /\ phase' = "collect"
  BY DEF post_learn
<1>3. buffer'.idx = 0
  BY <1>2, ResetShape
<1>4. StoredSteps'
  BY <1>2, <1>3 DEF StoredSteps
<1>5. 0 .. buffer.idx - 1 = Indices
  BY BufferAssumption DEF post_learn, full, Shape, Indices
<1>6. normalised' = {buffer.rows[i].step : i \in 0 .. buffer.idx - 1}
  <2>1. CASE kind = "fpo"
    BY <2>1, <1>5 DEF post_learn, whole_storage
  <2>2. CASE kind # "fpo"
    BY <2>2 DEF post_learn, stored_observations
  <2> QED
    BY <2>1, <2>2
<1> QED
  BY <1>1, <1>2, <1>4, <1>6, RowsAreSteps

SeesTheFilling ==
  phase = "learn" /\ phase' = "collect" =>
    normalised' = UNION {{<<e, p>> : p \in {q \in DOMAIN story[e] : Stored(e, q)}} :
                         e \in Envs}

LEMMA StatisticsStep ==
  ASSUME StatisticsInv, [Next]_vars
  PROVE  StatisticsInv' /\ SeesTheFilling
<1> USE DEF SeesTheFilling, StepsOf
<1>1. ChainInv'
  BY ChainStep DEF StatisticsInv
<1>2. ASSUME NEW e \in Envs, NEW ends \in Outcomes, feedback(e, ends)
      PROVE  StatisticsInv' /\ phase = "collect"
  BY <1>2, StatisticsFeedback DEF feedback
<1>3. ASSUME NEW e \in Envs, NEW ends \in Outcomes, discard_feedback(e, ends)
      PROVE  StatisticsInv' /\ phase = "collect"
  BY <1>1, <1>3, StatisticsLost DEF discard_feedback
<1>4. ASSUME NEW e \in Envs, Reconnect(e)
      PROVE  StatisticsInv' /\ phase = "collect"
  BY <1>1, <1>4, StatisticsLost DEF Reconnect
<1>5. CASE pre_learn
  BY <1>5, StatisticsPreLearn DEF pre_learn
<1>6. CASE post_learn
  BY <1>6, StatisticsPostLearn
<1>7. CASE UNCHANGED vars
  <2>1. StoredSteps'
    BY <1>7 DEF StatisticsInv, StoredSteps, Stored
  <2> QED
    BY <1>1, <1>7, <2>1 DEF StatisticsInv, whole_storage
<1> QED
  BY <1>2, <1>3, <1>4, <1>5, <1>6, <1>7 DEF Next

(* Before the next filling is collected the statistics have taken in every *)
(* stored step of the one that was learned from, and nothing else, neither *)
(* discarded steps nor what np.empty or an earlier filling left in the     *)
(* arrays (post_learn of PPO and DPPO, pre_learn of FPO).                  *)
THEOREM StatisticsSeeTheFillingHolds == Spec => StatisticsSeeTheFilling
<1>1. Init => StatisticsInv
  BY StatisticsInit
<1>2. StatisticsInv /\ [Next]_vars => StatisticsInv'
  BY StatisticsStep
<1>3. StatisticsInv /\ [Next]_vars => [SeesTheFilling]_vars
  BY StatisticsStep
<1>4. Spec => [][SeesTheFilling]_vars
  BY <1>1, <1>2, <1>3, PTL DEF Spec
<1> QED
  BY <1>4, PTL DEF StatisticsSeeTheFilling, SeesTheFilling

-----------------------------------------------------------------------------
(* The running returns.  A handler holds a chain exactly if the last step  *)
(* of its environment is stored; it is the row of that step, and the       *)
(* handler remembers how the step ended.                                   *)
Steps(e, f, m) == [n \in 1 .. m |-> <<e, f + n - 1>>]
IsFirst(e, p, f) ==
  /\ f \in 1 .. p
  /\ \A q \in f .. p : Stored(e, q)
  /\ kind = "ppo" => \A q \in f .. p - 1 : ~Ends(e, q)
  /\ f = 1 \/ ~Stored(e, f - 1) \/ (kind = "ppo" /\ Ends(e, f - 1))

Returned(e, p) ==
  \E f \in Nat : /\ IsFirst(e, p, f)
                 /\ buffer.rows[story[e][p].at].ret = Steps(e, f, p - f + 1)
Continues(e) ==
  /\ Held(e) <=> Stored(e, Len(story[e]))
  /\ Held(e) => /\ story[e][Len(story[e])].at = node[e].idx
                /\ outcome[e] = story[e][Len(story[e])].ends
Continued == \A e \in Envs : Continues(e)
ReturnsInv ==
  /\ StatisticsInv
  /\ kind \in {"ppo", "dppo", "fpo"}
  /\ outcome \in [Envs -> Outcomes]
  /\ Continued
  /\ kind # "fpo" =>
       \A e \in Envs : \A p \in DOMAIN story[e] : Stored(e, p) => Returned(e, p)

LEMMA StepsGrow ==
  ASSUME NEW e, NEW f \in Nat, NEW m \in Nat
  PROVE  Append(Steps(e, f, m), <<e, f + m>>) = Steps(e, f, m + 1)
<1> DEFINE S == {e} \X Int
           here == Steps(e, f, m)
           after == Steps(e, f, m + 1)
           grown == Append(here, <<e, f + m>>)
<1>1. here \in [1 .. m -> S] /\ after \in [1 .. m + 1 -> S] /\ <<e, f + m>> \in S
  BY DEF Steps
<1>2. /\ \A n \in 1 .. m : here[n] = <<e, f + n - 1>>
      /\ \A n \in 1 .. m + 1 : after[n] = <<e, f + n - 1>>
  BY DEF Steps
<1> HIDE DEF S, here, after
<1>3. here \in Seq(S) /\ Len(here) = m /\ after \in Seq(S) /\ Len(after) = m + 1
  BY <1>1
<1>4. /\ grown \in Seq(S) /\ Len(grown) = m + 1
      /\ \A n \in 1 .. m : grown[n] = here[n]
      /\ grown[m + 1] = <<e, f + m>>
  BY <1>1, <1>3, AppendProperties
<1> HIDE DEF grown
<1>5. ASSUME NEW n \in 1 .. m + 1 PROVE grown[n] = after[n]
  <2>1. CASE n = m + 1
    <3>1. f + n - 1 = f + m
      BY <2>1
    <3> QED
      BY <2>1, <3>1, <1>2, <1>4
  <2>2. CASE n \in 1 .. m
    BY <2>2, <1>2, <1>4
  <2> QED
    BY <2>1, <2>2
<1>6. grown = after
  BY <1>3, <1>4, <1>5, SeqEqual
<1> QED
  BY <1>6 DEF grown, here, after

LEMMA NoSteps ==
  ASSUME NEW e, NEW f \in Nat
  PROVE  Steps(e, f, 0) = <<>>
BY DEF Steps

(* There is one first step to a return. *)
LEMMA FirstIsOne ==
  ASSUME NEW e, NEW p \in Nat, NEW f, NEW g, IsFirst(e, p, f), IsFirst(e, p, g)
  PROVE  f = g
<1>1. ASSUME NEW h, NEW i, IsFirst(e, p, h), IsFirst(e, p, i), h < i PROVE FALSE
  <2>1. h \in 1 .. p /\ i \in 1 .. p /\ i - 1 \in h .. p - 1 /\ i - 1 \in h .. p /\ i # 1
    BY <1>1 DEF IsFirst
  <2>2. Stored(e, i - 1) /\ (kind = "ppo" => ~Ends(e, i - 1))
    BY <1>1, <2>1 DEF IsFirst
  <2> QED
    BY <1>1, <2>1, <2>2 DEF IsFirst
<1>2. f \in 1 .. p /\ g \in 1 .. p
  BY DEF IsFirst
<1>3. ~(f < g) /\ ~(g < f)
  BY <1>1
<1> QED
  BY <1>2, <1>3

LEMMA FirstStarts ==
  ASSUME NEW e, NEW p \in Nat, NEW f, IsFirst(e, p, f)
  PROVE  f = IF kind = "ppo" THEN EpisodeStart(e, p) ELSE RunStart(e, p)
<1>1. CASE kind = "ppo"
  <2> DEFINE Start(g) == /\ \A q \in g .. p - 1 : Stored(e, q) /\ ~Ends(e, q)
                         /\ g = 1 \/ ~Stored(e, g - 1) \/ Ends(e, g - 1)
             start == CHOOSE g \in 1 .. p : Start(g)
  <2>1. f \in 1 .. p /\ Start(f) /\ Stored(e, p)
    BY <1>1 DEF IsFirst
  <2>2. start \in 1 .. p /\ Start(start)
    BY <2>1
  <2>3. start = EpisodeStart(e, p)
    BY DEF EpisodeStart
  <2> HIDE DEF start
  <2>4. \A q \in start .. p : q \in start .. p - 1 \/ q = p
    BY <2>2
  <2>5. IsFirst(e, p, start)
    BY <1>1, <2>1, <2>2, <2>4 DEF IsFirst
  <2> QED
    BY <1>1, <2>3, <2>5, FirstIsOne
<1>2. CASE kind # "ppo"
  <2> DEFINE Start(g) == /\ \A q \in g .. p : Stored(e, q)
                         /\ g = 1 \/ ~Stored(e, g - 1)
             start == CHOOSE g \in 1 .. p : Start(g)
  <2>1. f \in 1 .. p /\ Start(f)
    BY <1>2 DEF IsFirst
  <2>2. start \in 1 .. p /\ Start(start)
    BY <2>1
  <2>3. start = RunStart(e, p)
    BY DEF RunStart
  <2> HIDE DEF start
  <2>4. IsFirst(e, p, start)
    BY <1>2, <2>2 DEF IsFirst
  <2> QED
    BY <1>2, <2>3, <2>4, FirstIsOne
<1> QED
  BY <1>1, <1>2

LEMMA ReturnsInit == Init => ReturnsInv
<1> SUFFICES ASSUME Init PROVE ReturnsInv
  OBVIOUS
<1>1. StatisticsInv
  BY StatisticsInit
<1>2. /\ kind \in {"ppo", "dppo", "fpo"}
      /\ outcome = [e \in Envs |-> "running"] /\ story = [e \in Envs |-> <<>>]
      /\ node = [e \in Envs |-> NoNode]
  BY BufferAssumption DEF Init
<1>3. outcome \in [Envs -> Outcomes]
  BY <1>2 DEF Outcomes
<1>4. Continued
  BY <1>2 DEF Continued, Continues, Held, NoNode, Stored
<1> QED
  BY <1>1, <1>2, <1>3, <1>4 DEF ReturnsInv

(* What is stored stays, and so does where its return begins.              *)
LEMMA FirstKept ==
  ASSUME TypeInv, NEW e \in Envs, NEW ends, NEW at, Record(e, ends, at), kind' = kind,
         NEW f \in Envs, NEW p \in DOMAIN story[f], NEW g, IsFirst(f, p, g)
  PROVE  IsFirst(f, p, g)'
<1>1. /\ DOMAIN story[f] = 1 .. Len(story[f]) /\ Len(story[f]) \in Nat
      /\ DOMAIN story[e] = 1 .. Len(story[e]) /\ Len(story[e]) \in Nat
  BY LenProperties DEF TypeInv
<1>2. \A q \in 1 .. p : /\ q \in DOMAIN story[f] /\ q \in DOMAIN story'[f]
                        /\ story'[f][q] = story[f][q]
  <2>1. \A q \in 1 .. p : q \in DOMAIN story[f] /\ (f # e \/ q # Len(story[e]) + 1)
    BY <1>1
  <2> QED
    BY <2>1, StoryGrows
<1>3. \A q \in 1 .. p : (Stored(f, q)' <=> Stored(f, q)) /\ (Ends(f, q)' <=> Ends(f, q))
  BY <1>2 DEF Stored, Ends
<1>4. g \in 1 .. p /\ (g = 1 \/ g - 1 \in 1 .. p)
  BY <1>1 DEF IsFirst
<1>5. (\A q \in g .. p : q \in 1 .. p) /\ (\A q \in g .. p - 1 : q \in 1 .. p)
  BY <1>1, <1>4
<1> QED
  BY <1>3, <1>4, <1>5 DEF IsFirst

LEMMA ReturnsLost ==
  ASSUME ReturnsInv, NEW e \in Envs, NEW ends \in Outcomes \cup {"lost"},
         NEW end \in Outcomes, Record(e, ends, -1), node' = [node EXCEPT ![e] = NoNode],
         outcome' = [outcome EXCEPT ![e] = end], UNCHANGED <<kind, buffer>>,
         StatisticsInv'
  PROVE  ReturnsInv'
<1> DEFINE now == Len(story[e]) + 1
<1> USE DEF ReturnsInv
<1>1. TypeInv
  BY DEF StatisticsInv, ChainInv
<1>2. /\ \A f \in Envs : \A p : f # e \/ p # now =>
           /\ p \in DOMAIN story'[f] <=> p \in DOMAIN story[f]
           /\ p \in DOMAIN story[f] => story'[f][p] = story[f][p]
      /\ Len(story'[e]) = now
      /\ \A f \in Envs : f # e => story'[f] = story[f]
      /\ story'[e][now] = [ends |-> ends, at |-> -1]
  BY <1>1, StoryGrows
<1> HIDE DEF now
<1>3. /\ node'[e] = NoNode
      /\ \A f \in Envs : f # e => node'[f] = node[f] /\ outcome'[f] = outcome[f]
      /\ outcome' \in [Envs -> Outcomes]
  BY <1>1 DEF TypeInv
<1>4. Continued'
  <2>1. Continues(e)'
    BY <1>2, <1>3 DEF Continues, Held, NoNode, Stored
  <2>2. ASSUME NEW f \in Envs, f # e PROVE Continues(f)'
    <3>1. story'[f] = story[f] /\ node'[f] = node[f] /\ outcome'[f] = outcome[f]
      BY <2>2, <1>2, <1>3
    <3>2. Continues(f)
      BY DEF Continued
    <3> QED
      BY <3>1, <3>2 DEF Continues, Held, Stored
  <2> QED
    BY <2>1, <2>2 DEF Continued
<1>5. ASSUME kind # "fpo", NEW f \in Envs, NEW p \in DOMAIN story'[f], Stored(f, p)'
      PROVE  Returned(f, p)'
  <2>1. f # e \/ p # now
    BY <1>2, <1>5 DEF Stored
  <2>2. p \in DOMAIN story[f] /\ story'[f][p] = story[f][p]
    BY <2>1, <1>2, <1>5
  <2>3. Stored(f, p)
    BY <2>2, <1>5 DEF Stored
  <2>4. PICK g \in Nat : /\ IsFirst(f, p, g)
                         /\ buffer.rows[story[f][p].at].ret = Steps(f, g, p - g + 1)
    BY <2>2, <2>3, <1>5 DEF Returned
  <2>5. IsFirst(f, p, g)'
    BY <2>2, <2>4, <1>1, FirstKept
  <2> QED
    BY <2>2, <2>4, <2>5 DEF Returned, Steps
<1> QED
  BY <1>3, <1>4, <1>5

LEMMA ReturnsFeedback ==
  ASSUME ReturnsInv, NEW e \in Envs, NEW ends \in Outcomes, feedback(e, ends)
  PROVE  ReturnsInv'
<1> DEFINE b == buffer
           s == b.idx
           begins == outcome[e] # "running"
           p == chained(b, node[e])
           stored == add_frame(b, node[e], Now(e), outcome[e], ends)
<1> USE DEF ReturnsInv
<1>0. PICK last, now : last = Len(story[e]) /\ now = last + 1
  OBVIOUS
<1>1. TypeInv /\ StatisticsInv'
  BY StatisticsFeedback DEF StatisticsInv, ChainInv
<1>2. /\ Shape(b) /\ ~full(b) /\ node[e] \in Node /\ s \in Nat /\ s \in Indices
      /\ Record(e, ends, s) /\ kind' = kind
      /\ outcome' = [outcome EXCEPT ![e] = ends]
  BY <1>1, BufferAssumption DEF feedback, full, Shape, Indices, TypeInv
<1>3. /\ Shape(stored)
      /\ \A i \in Indices : stored.rows[i].ret
           = IF i # s THEN b.rows[i].ret
             ELSE IF kind = "fpo" THEN <<>>
             ELSE Append(running_return(b, p, begins), Now(e))
  BY <1>2, AddFrame
<1>4. NodeOf(b) = [idx |-> s, signature |-> b.signature] /\ s # -1
  BY <1>2 DEF NodeOf
<1>5. /\ buffer'.rows = stored.rows /\ buffer'.signature = b.signature
      /\ node' = [node EXCEPT ![e] = [idx |-> s, signature |-> b.signature]]
  <2>1. \E left : buffer' = [stored EXCEPT !.requests = left]
    <3>1. buffer' = add_next_obs_value_request(stored, After(e), NodeOf(b))
      BY DEF feedback
    <3>2. NodeOf(b).idx # -1
      BY <1>4
    <3> QED
      BY <3>1, <3>2 DEF add_next_obs_value_request
  <2>2. stored.signature = b.signature
    BY <1>2, AddFrame
  <2> HIDE DEF stored
  <2> QED
    BY <2>1, <2>2, <1>3, <1>4 DEF feedback, Shape
<1> HIDE DEF stored
<1>6. /\ \A f \in Envs : \A q : f # e \/ q # now =>
           /\ q \in DOMAIN story'[f] <=> q \in DOMAIN story[f]
           /\ q \in DOMAIN story[f] => story'[f][q] = story[f][q]
      /\ Len(story'[e]) = now /\ last \in Nat
      /\ \A f \in Envs : f # e => story'[f] = story[f]
      /\ now \in DOMAIN story'[e]
      /\ story'[e][now] = [ends |-> ends, at |-> s]
  BY <1>0, <1>1, <1>2, StoryGrows
<1>7. DOMAIN story[e] = 1 .. last
  BY <1>0, <1>1, LenProperties DEF TypeInv
<1>8. Now(e) = <<e, now>>
  BY <1>0 DEF Now
<1>9. Stored(e, last) <=> Held(e)
  BY <1>0 DEF Continued, Continues
<1>10. now = last + 1
  BY <1>0
<1>11. Continued'
  <2>1. Continues(e)'
    BY <1>1, <1>2, <1>4, <1>5, <1>6 DEF Continues, Held, Stored, TypeInv
  <2>2. ASSUME NEW f \in Envs, f # e PROVE Continues(f)'
    <3>1. story'[f] = story[f] /\ node'[f] = node[f] /\ outcome'[f] = outcome[f]
      BY <2>2, <1>1, <1>2, <1>5, <1>6 DEF TypeInv
    <3>2. Continues(f)
      BY DEF Continued
    <3> QED
      BY <3>1, <3>2, <1>5 DEF Continues, Held, Stored
  <2> QED
    BY <2>1, <2>2 DEF Continued
<1>12. ASSUME kind # "fpo", NEW f \in Envs, NEW q \in DOMAIN story'[f], Stored(f, q)',
              f # e \/ q # now
       PROVE  Returned(f, q)'
  <2>1. q \in DOMAIN story[f] /\ story'[f][q] = story[f][q]
    BY <1>6, <1>12
  <2>2. Stored(f, q)
    BY <2>1, <1>12 DEF Stored
  <2>3. PICK g \in Nat : /\ IsFirst(f, q, g)
                         /\ b.rows[story[f][q].at].ret = Steps(f, g, q - g + 1)
    BY <2>1, <2>2, <1>12 DEF Returned
  <2>4. IsFirst(f, q, g)'
    BY <2>1, <2>3, <1>1, <1>2, FirstKept
  <2>5. story[f][q].at \in Indices /\ story[f][q].at # s
    <3>1. story[f][q].at \in Indices
      BY <2>1, <2>2, <1>1, StoryEntry DEF Stored
    <3>2. story[f][q].at < s
      BY <2>1, <2>2 DEF StatisticsInv, StoredSteps
    <3> QED
      BY <3>1, <3>2, <1>2 DEF Indices
  <2>6. buffer'.rows[story'[f][q].at].ret = Steps(f, g, q - g + 1)
    BY <2>1, <2>3, <2>5, <1>3, <1>5
  <2> QED
    BY <2>4, <2>6 DEF Returned, Steps
<1>13. ASSUME kind # "fpo" PROVE Returned(e, now)'
  <2>1. Stored(e, now)' /\ story'[e][now].at = s
    BY <1>4, <1>6 DEF Stored
  <2>2. buffer'.rows[s].ret = Append(running_return(b, p, begins), <<e, now>>)
    BY <1>2, <1>3, <1>5, <1>8, <1>13
  <2>3. p = -1 <=> ~Held(e)
    BY <1>2 DEF chained, Held, Node, Indices
  <2>4. kind \in {"ppo", "dppo"}
    BY <1>13
  <2>5. now \in Nat /\ now \in 1 .. now
    BY <1>6, <1>10
  <2>6. CASE ~Held(e) \/ (kind = "ppo" /\ begins)
    <3>1. running_return(b, p, begins) = <<>>
      BY <2>3, <2>4, <2>6 DEF running_return, ppo_return, dppo_return
    <3>2. Append(Steps(e, now, 0), <<e, now + 0>>) = Steps(e, now, 0 + 1)
      BY <2>5, StepsGrow
    <3>3. buffer'.rows[s].ret = Steps(e, now, 1)
      BY <3>1, <3>2, <2>2, <2>5, NoSteps
    <3>4. ~Stored(e, last)' \/ (kind = "ppo" /\ Ends(e, last)')
      <4>1. CASE ~Held(e)
        <5>1. ~Stored(e, last)
          BY <4>1, <1>9
        <5> QED
          BY <5>1, <1>6, <1>10 DEF Stored
      <4>2. CASE Held(e) /\ kind = "ppo" /\ begins
        <5>1. last \in DOMAIN story[e] /\ outcome[e] = story[e][last].ends
          BY <1>0, <4>2, <1>9 DEF Continued, Continues, Stored
        <5>2. story'[e][last] = story[e][last]
          BY <5>1, <1>6, <1>10
        <5> QED
          BY <4>2, <5>1, <5>2 DEF Ends
      <4> QED
        BY <2>6, <4>1, <4>2
    <3>5. now - 1 = last /\ now - now + 1 = 1
      BY <1>6, <1>10
    <3>6. \A q \in now .. now : q = now
      BY <2>5
    <3>7. now .. now - 1 = {}
      BY <2>5
    <3>8. IsFirst(e, now, now)'
      BY <2>1, <2>5, <3>4, <3>5, <3>6, <3>7, <1>2 DEF IsFirst
    <3> QED
      BY <2>1, <2>5, <3>3, <3>5, <3>8 DEF Returned, Steps
  <2>7. CASE Held(e) /\ ~(kind = "ppo" /\ begins)
    <3>1. /\ last \in DOMAIN story[e] /\ Stored(e, last)
          /\ story[e][last].at = node[e].idx
          /\ outcome[e] = story[e][last].ends
      BY <1>0, <2>7, <1>9 DEF Continued, Continues, Stored
    <3>2. p = story[e][last].at /\ p # -1
      BY <2>3, <2>7, <3>1 DEF chained, Held
    <3>3. PICK g \in Nat : /\ IsFirst(e, last, g)
                           /\ b.rows[p].ret = Steps(e, g, last - g + 1)
      BY <3>1, <3>2, <1>13 DEF Returned
    <3>4. running_return(b, p, begins) = b.rows[p].ret
      BY <3>2, <2>4, <2>7 DEF running_return, ppo_return, dppo_return
    <3>5. g \in 1 .. last
      BY <3>3 DEF IsFirst
    <3>6. /\ last - g + 1 \in Nat /\ g + (last - g + 1) = now
          /\ (last - g + 1) + 1 = now - g + 1
      BY <3>5, <1>6, <1>10
    <3>7. buffer'.rows[s].ret = Steps(e, g, now - g + 1)
      BY <2>2, <3>3, <3>4, <3>6, StepsGrow
    <3>8. IsFirst(e, last, g)'
      BY <3>1, <3>3, <1>1, <1>2, FirstKept
    <3>9. kind = "ppo" => ~Ends(e, last)'
      <4>1. story'[e][last] = story[e][last]
        BY <3>1, <1>6, <1>10
      <4> QED
        BY <4>1, <3>1, <2>7 DEF Ends
    <3>10. /\ g \in 1 .. now
           /\ \A q \in g .. now : q \in g .. last \/ q = now
           /\ \A q \in g .. now - 1 : q \in g .. last - 1 \/ q = last
      BY <3>5, <1>6, <1>10
    <3>11. IsFirst(e, now, g)'
      BY <3>8, <3>9, <3>10, <2>1, <1>2 DEF IsFirst
    <3> QED
      BY <3>7, <3>11, <2>1 DEF Returned, Steps
  <2> QED
    BY <2>6, <2>7
<1> QED
  BY <1>1, <1>2, <1>11, <1>12, <1>13

LEMMA ReturnsPreLearn ==
  ASSUME ReturnsInv, pre_learn
  PROVE  ReturnsInv'
<1> USE DEF ReturnsInv
<1>1. TypeInv /\ StatisticsInv'
  BY StatisticsPreLearn DEF StatisticsInv, ChainInv
<1>2. /\ buffer' = compute_advantages_and_returns(buffer)
      /\ UNCHANGED <<kind, node, outcome, story>>
  BY DEF pre_learn
<1>3. /\ buffer'.signature = buffer.signature
      /\ \A i \in Indices : buffer'.rows[i].ret = buffer.rows[i].ret
  BY <1>1, <1>2, ComputeKeeps DEF TypeInv
<1>4. Continued'
  BY <1>2, <1>3 DEF Continued, Continues, Held, Stored
<1>5. ASSUME kind # "fpo", NEW e \in Envs, NEW p \in DOMAIN story[e], Stored(e, p)
      PROVE  Returned(e, p)'
  <2>1. story[e][p].at \in Indices
    BY <1>1, <1>5, StoryEntry DEF Stored
  <2>2. Returned(e, p)
    BY <1>5
  <2> QED
    BY <2>1, <2>2, <1>2, <1>3 DEF Returned, IsFirst, Stored, Ends
<1> QED
  BY <1>1, <1>2, <1>4, <1>5 DEF Stored

LEMMA ReturnsPostLearn ==
  ASSUME ReturnsInv, post_learn
  PROVE  ReturnsInv'
<1> USE DEF ReturnsInv
<1>1. TypeInv /\ StatisticsInv'
  BY StatisticsPostLearn DEF StatisticsInv, ChainInv
<1>2. /\ buffer' = reset(buffer) /\ UNCHANGED <<kind, node, outcome>>
      /\ story' = [e \in Envs |-> <<>>]
  BY DEF post_learn
<1>3. buffer'.signature = buffer.signature + 1
  BY <1>1, <1>2, ResetShape DEF TypeInv
<1>4. ASSUME NEW e \in Envs PROVE ~Held(e)'
  BY <1>1, <1>2, <1>3
     DEF Held, StatisticsInv, ChainInv, NodesAreEnds, TypeInv, Node, Shape
<1>5. Continued'
  BY <1>2, <1>4 DEF Continued, Continues, Stored
<1> QED
  BY <1>1, <1>2, <1>5

LEMMA ReturnsStep ==
  ASSUME ReturnsInv, [Next]_vars
  PROVE  ReturnsInv'
<1>1. StatisticsInv'
  BY StatisticsStep DEF ReturnsInv
<1>2. ASSUME NEW e \in Envs, NEW ends \in Outcomes, feedback(e, ends) PROVE ReturnsInv'
  BY <1>2, ReturnsFeedback
<1>3. ASSUME NEW e \in Envs, NEW ends \in Outcomes, discard_feedback(e, ends)
      PROVE  ReturnsInv'
  BY <1>1, <1>3, ReturnsLost DEF discard_feedback
<1>4. ASSUME NEW e \in Envs, Reconnect(e) PROVE ReturnsInv'
  BY <1>1, <1>4, ReturnsLost DEF Reconnect, Outcomes
<1>5. CASE pre_learn
  BY <1>5, ReturnsPreLearn
<1>6. CASE post_learn
  BY <1>6, ReturnsPostLearn
<1>7. CASE UNCHANGED vars
  <2>1. UNCHANGED <<kind, buffer, node, outcome, story>>
    BY <1>7
  <2>2. Continued'
    BY <2>1 DEF ReturnsInv, Continued, Continues, Held, Stored
  <2>3. \A e, p : (Stored(e, p)' <=> Stored(e, p)) /\ (Ends(e, p)' <=> Ends(e, p))
    BY <2>1 DEF Stored, Ends
  <2>4. \A e, p, f : IsFirst(e, p, f)' <=> IsFirst(e, p, f)
    BY <2>1, <2>3 DEF IsFirst
  <2>5. \A e, p : Returned(e, p)' <=> Returned(e, p)
    BY <2>1, <2>4 DEF Returned, Steps
  <2> QED
    BY <1>1, <2>1, <2>2, <2>3, <2>5 DEF ReturnsInv
<1> QED
  BY <1>2, <1>3, <1>4, <1>5, <1>6, <1>7 DEF Next

(* However the frames of the environments interleave, the running return   *)
(* of a frame discounts the rewards of exactly its own environment's       *)
(* stored steps before it: of its episode in PPOBuffer, of its unbroken    *)
(* run in DPPOBuffer (their add_frame).                                    *)
THEOREM RunningReturnsHold == Spec => []RunningReturns
<1>1. ReturnsInv => RunningReturns
  <2> SUFFICES ASSUME ReturnsInv, kind # "fpo",
                      NEW e \in Envs, NEW p \in DOMAIN story[e], Stored(e, p)
               PROVE  LET first == IF kind = "ppo" THEN EpisodeStart(e, p)
                                   ELSE RunStart(e, p)
                      IN buffer.rows[story[e][p].at].ret
                           = [n \in 1 .. p - first + 1 |-> <<e, first + n - 1>>]
    BY DEF RunningReturns
  <2>1. PICK f \in Nat : /\ IsFirst(e, p, f)
                         /\ buffer.rows[story[e][p].at].ret = Steps(e, f, p - f + 1)
    BY DEF ReturnsInv, Returned
  <2>2. p \in Nat
    BY LenProperties DEF ReturnsInv, StatisticsInv, ChainInv, TypeInv
  <2>3. f = IF kind = "ppo" THEN EpisodeStart(e, p) ELSE RunStart(e, p)
    BY <2>1, <2>2, FirstStarts
  <2> QED
    BY <2>1, <2>3 DEF Steps
<1>2. ReturnsInv /\ [Next]_vars => ReturnsInv'
  BY ReturnsStep
<1> QED
  BY ReturnsInit, <1>1, <1>2, PTL DEF Spec

-----------------------------------------------------------------------------
(* The backward loop, round by round.  A recursive function is a function  *)
(* that solves its equation: WalkExists shows that there is one.           *)
Round(rows, size, advantages, k) ==
  [advantages EXCEPT ![size - k] = advantage(rows, advantages, size - k)]
Walk(rows, size, m, g) ==
  g = [k \in 0 .. m |-> IF k = 0 THEN [s \in Indices |-> rows[s].advantage]
                        ELSE Round(rows, size, g[k - 1], k)]

LEMMA WalkExists ==
  ASSUME NEW rows, NEW size, NEW m \in Nat
  PROVE  \E g : Walk(rows, size, m, g)
<1> DEFINE bad == {n \in Nat : ~\E g : Walk(rows, size, n, g)}
<1>1. SUFFICES ASSUME bad # {} PROVE FALSE
  OBVIOUS
<1>2. PICK n \in bad : \A j \in bad : n <= j
  BY <1>1, SmallestNumber
<1>3. n # 0
  <2> DEFINE g == [k \in 0 .. 0 |-> [s \in Indices |-> rows[s].advantage]]
  <2>1. Walk(rows, size, 0, g)
    BY DEF Walk
  <2> QED
    BY <2>1
<1>4. n - 1 \in Nat /\ n - 1 \notin bad
  BY <1>2, <1>3
<1>5. PICK h : Walk(rows, size, n - 1, h)
  BY <1>4
<1> DEFINE g == [k \in 0 .. n |-> IF k = n THEN Round(rows, size, h[n - 1], n) ELSE h[k]]
<1>6. Walk(rows, size, n, g)
  <2> DEFINE start == [s \in Indices |-> rows[s].advantage]
             next(f, k) == IF k = 0 THEN start ELSE Round(rows, size, f[k - 1], k)
  <2>1. h = [k \in 0 .. n - 1 |-> next(h, k)]
    BY <1>5 DEF Walk
  <2>2. ASSUME NEW k \in 0 .. n PROVE g[k] = next(g, k)
    <3>1. CASE k = n
      BY <3>1, <1>3, <1>4
    <3>2. CASE k # n
      <4>1. k \in 0 .. n - 1 /\ (k # 0 => k - 1 \in 0 .. n - 1 /\ k - 1 # n /\ k - 1 \in 0 .. n)
        BY <3>2, <1>4
      <4>2. g[k] = h[k] /\ (k # 0 => g[k - 1] = h[k - 1])
        BY <3>2, <4>1
      <4>3. h[k] = next(h, k)
        BY <4>1, <2>1
      <4> QED
        BY <4>2, <4>3
    <3> QED
      BY <3>1, <3>2
  <2> HIDE DEF next
  <2>3. g = [k \in 0 .. n |-> next(g, k)]
    BY <2>2
  <2> QED
    BY <2>3 DEF Walk, next
<1> QED
  BY <1>2, <1>6

LEMMA BackwardsWalks ==
  ASSUME NEW rows, NEW size \in Nat
  PROVE  \E after :
           /\ Backwards(rows, size) = after[size]
           /\ after[0] = [s \in Indices |-> rows[s].advantage]
           /\ \A k \in 1 .. size : after[k] = Round(rows, size, after[k - 1], k)
<1> DEFINE after == CHOOSE g : Walk(rows, size, size, g)
<1>1. Walk(rows, size, size, after)
  BY WalkExists
<1>2. Backwards(rows, size) = after[size]
  BY DEF Backwards, Walk, Round
<1> HIDE DEF after
<1>3. \A k \in 0 .. size :
        after[k] = IF k = 0 THEN [s \in Indices |-> rows[s].advantage]
                   ELSE Round(rows, size, after[k - 1], k)
  <2> DEFINE next(k) == IF k = 0 THEN [s \in Indices |-> rows[s].advantage]
                        ELSE Round(rows, size, after[k - 1], k)
  <2>1. after = [k \in 0 .. size |-> next(k)]
    BY <1>1 DEF Walk
  <2> HIDE DEF next
  <2>2. \A k \in 0 .. size : after[k] = next(k)
    BY <2>1
  <2> QED
    BY <2>2 DEF next
<1> QED
  BY <1>2, <1>3

(* A round reads the advantage of the next frame only.                     *)
LEMMA AdvantageReads ==
  ASSUME NEW rows, NEW g, NEW h, NEW s,
         rows[s].next_index # 0 => g[rows[s].next_index] = h[rows[s].next_index]
  PROVE  advantage(rows, g, s) = advantage(rows, h, s)
BY DEF advantage

(* Where chains lead forwards, what the loop leaves is the solution of its *)
(* equation: each advantage is built on the one of the next frame, as that *)
(* is in the end.                                                          *)
LEMMA BackwardsSolves ==
  ASSUME NEW rows, NEW size \in 0 .. BufferSize,
         \A s \in 0 .. size - 1 : /\ rows[s].next_index \in Nat
                                  /\ rows[s].next_index # 0 =>
                                       s < rows[s].next_index /\ rows[s].next_index < size,
         NEW adv, adv = Backwards(rows, size)
  PROVE  \A s \in 0 .. size - 1 : adv[s] = advantage(rows, adv, s)
<1> USE BufferAssumption
<1>1. PICK after :
        /\ adv = after[size]
        /\ after[0] = [s \in Indices |-> rows[s].advantage]
        /\ \A k \in 1 .. size : after[k] = Round(rows, size, after[k - 1], k)
  BY BackwardsWalks
<1> DEFINE Settled(k) == /\ DOMAIN after[k] = Indices
                         /\ \A s \in size - k .. size - 1 :
                              after[k][s] = advantage(rows, after[k], s)
           bad == {k \in 0 .. size : ~Settled(k)}
<1>2. Settled(0)
  BY <1>1
<1>3. ASSUME NEW k \in 1 .. size, Settled(k - 1) PROVE Settled(k)
  <2> DEFINE old == after[k - 1]
             new == after[k]
             t == size - k
  <2>1. new = [old EXCEPT ![t] = advantage(rows, old, t)]
    BY <1>1 DEF Round
  <2>2. DOMAIN old = Indices /\ t \in Indices /\ t \in 0 .. size - 1
    BY <1>3 DEF Indices
  <2>3. /\ DOMAIN new = Indices /\ new[t] = advantage(rows, old, t)
        /\ \A s \in Indices : s # t => new[s] = old[s]
    BY <2>1, <2>2
  <2>4. \A s \in size - (k - 1) .. size - 1 : old[s] = advantage(rows, old, s)
    BY <1>3
  <2> HIDE DEF old, new, Settled
  <2>5. ASSUME NEW s \in t .. size - 1 PROVE new[s] = advantage(rows, new, s)
    <3>1. s \in 0 .. size - 1 /\ s \in Indices
      BY <2>2 DEF Indices
    <3>2. new[s] = advantage(rows, old, s)
      <4>1. CASE s = t
        BY <4>1, <2>3
      <4>2. CASE s # t
        <5>1. s \in size - (k - 1) .. size - 1
          BY <4>2
        <5> QED
          BY <4>2, <5>1, <3>1, <2>3, <2>4
      <4> QED
        BY <4>1, <4>2
    <3>3. rows[s].next_index # 0 => old[rows[s].next_index] = new[rows[s].next_index]
      <4>1. SUFFICES ASSUME rows[s].next_index # 0
                     PROVE  old[rows[s].next_index] = new[rows[s].next_index]
        OBVIOUS
      <4>2. rows[s].next_index \in Indices /\ rows[s].next_index # t
        BY <4>1, <3>1, <2>2 DEF Indices
      <4> QED
        BY <4>2, <2>3
    <3> QED
      BY <3>2, <3>3, AdvantageReads
  <2> QED
    BY <2>3, <2>5 DEF Settled, new
<1> HIDE DEF Settled
<1>4. bad = {}
  <2> SUFFICES ASSUME bad # {} PROVE FALSE
    OBVIOUS
  <2>1. bad \in SUBSET Nat
    OBVIOUS
  <2>2. PICK k \in bad : \A j \in bad : k <= j
    BY <2>1, SmallestNumber
  <2>3. k # 0
    BY <1>2, <2>2
  <2>4. k \in 1 .. size /\ k - 1 \in 0 .. size /\ k - 1 \notin bad
    BY <2>2, <2>3
  <2> QED
    BY <2>2, <2>4, <1>3
<1>5. Settled(size)
  BY <1>4
<1> QED
  BY <1>1, <1>5 DEF Settled

Typed(rows) == rows \in [Indices -> Row]

LEMMA AdvantageTyped ==
  ASSUME NEW rows, Typed(rows), NEW g \in [Indices -> Seq(Delta)], NEW s \in Indices
  PROVE  advantage(rows, g, s) \in Seq(Delta)
<1> DEFINE row == rows[s]
           n == row.next_index
           terminated == \/ row.ends = "terminated"
                         \/ row.ends = "truncated" /\ treatTruncatedAsDone
           masked == row.ends = "truncated" /\ ~treatTruncatedAsDone
           next == IF terminated THEN None
                   ELSE IF n = 0 THEN row.last_value ELSE rows[n].step
           delta == [step |-> row.step, next |-> next]
           rest == IF terminated \/ n = 0 THEN <<>> ELSE g[n]
<1>1. /\ row \in Row /\ n \in Indices /\ rows[n] \in Row
      /\ row.step \in Value /\ row.last_value \in Value /\ rows[n].step \in Value
  BY DEF Typed, Row
<1>2. next \in Value
  BY <1>1 DEF Value
<1>3. advantage(rows, g, s) = IF masked THEN <<>> ELSE <<delta>> \o rest
  BY DEF advantage
<1> HIDE DEF next
<1>4. delta \in Delta
  BY <1>1, <1>2 DEF Delta
<1>5. rest \in Seq(Delta)
  BY <1>1, EmptySeq
<1> HIDE DEF delta, rest, masked
<1>6. <<delta>> \in Seq(Delta)
  BY <1>4
<1>7. <<delta>> \o rest \in Seq(Delta)
  BY <1>5, <1>6, ConcatProperties
<1> QED
  BY <1>3, <1>7, EmptySeq

LEMMA BackwardsTyped ==
  ASSUME NEW rows, Typed(rows), NEW size \in 0 .. BufferSize
  PROVE  Backwards(rows, size) \in [Indices -> Seq(Delta)]
<1> USE BufferAssumption
<1>1. PICK after :
        /\ Backwards(rows, size) = after[size]
        /\ after[0] = [s \in Indices |-> rows[s].advantage]
        /\ \A k \in 1 .. size : after[k] = Round(rows, size, after[k - 1], k)
  BY BackwardsWalks
<1> DEFINE bad == {k \in 0 .. size : after[k] \notin [Indices -> Seq(Delta)]}
<1>2. after[0] \in [Indices -> Seq(Delta)]
  <2>1. \A s \in Indices : rows[s].advantage \in Seq(Delta)
    BY DEF Typed, Row
  <2> QED
    BY <1>1, <2>1
<1>3. ASSUME NEW k \in 1 .. size, after[k - 1] \in [Indices -> Seq(Delta)]
      PROVE  after[k] \in [Indices -> Seq(Delta)]
  <2>1. after[k] = [after[k - 1] EXCEPT ![size - k] = advantage(rows, after[k - 1], size - k)]
    BY <1>1 DEF Round
  <2>2. size - k \in Indices
    BY DEF Indices
  <2>3. advantage(rows, after[k - 1], size - k) \in Seq(Delta)
    BY <1>3, <2>2, AdvantageTyped
  <2> QED
    BY <1>3, <2>1, <2>3
<1>4. bad = {}
  <2> SUFFICES ASSUME bad # {} PROVE FALSE
    OBVIOUS
  <2>1. bad \in SUBSET Nat
    OBVIOUS
  <2>2. PICK k \in bad : \A j \in bad : k <= j
    BY <2>1, SmallestNumber
  <2>3. k # 0
    BY <1>2, <2>2
  <2>4. k \in 1 .. size /\ k - 1 \in 0 .. size /\ k - 1 \notin bad
    BY <2>2, <2>3
  <2> QED
    BY <2>2, <2>4, <1>3
<1> QED
  BY <1>1, <1>4

(* What a stored frame writes, as far as AddFrame does not say. *)
LEMMA AddFrameTyped ==
  ASSUME NEW b, Shape(b), Typed(b.rows), ~full(b), NEW prev \in Node,
         NEW step \in Step, NEW began, NEW ends \in Outcomes, kind \in {"ppo", "dppo", "fpo"},
         NEW c, c = add_frame(b, prev, step, began, ends)
  PROVE  /\ Typed(c.rows)
         /\ \A i \in Indices : c.rows[i].ends = IF i = b.idx THEN ends ELSE b.rows[i].ends
<1> DEFINE p == chained(b, prev)
           begins == began # "running"
           ret == IF kind = "fpo" THEN <<>>
                  ELSE Append(running_return(b, p, begins), step)
           links == linked(b, p)
           row == [links[b.idx] EXCEPT !.step = step, !.begins = begins,
                                       !.ends = ends, !.ret = ret]
           rows == [links EXCEPT ![b.idx] = row]
<1>1. p \in Indices \cup {-1} /\ b.idx \in Indices
  BY BufferAssumption DEF chained, Node, full, Shape, Indices
<1>2. c.rows = rows
  <2>1. c = [b EXCEPT !.rows = rows, !.idx = @ + 1]
    BY DEF add_frame
  <2> HIDE DEF rows
  <2> QED
    BY <2>1 DEF Shape
<1>3. Typed(links) /\ \A i \in Indices : links[i].ends = b.rows[i].ends
  <2>1. CASE p = -1
    BY <2>1 DEF linked
  <2>2. CASE p # -1
    <3>1. links = [b.rows EXCEPT ![p].next_index = b.idx]
      BY <2>2 DEF linked
    <3>2. p \in Indices /\ b.rows[p] \in Row
      BY <1>1, <2>2 DEF Typed
    <3>3. [b.rows[p] EXCEPT !.next_index = b.idx] \in Row
          /\ [b.rows[p] EXCEPT !.next_index = b.idx].ends = b.rows[p].ends
      BY <1>1, <3>2 DEF Row
    <3>4. links = [b.rows EXCEPT ![p] = [b.rows[p] EXCEPT !.next_index = b.idx]]
      BY <3>1
    <3> HIDE DEF links
    <3> QED
      BY <3>2, <3>3, <3>4 DEF Typed
  <2> QED
    BY <2>1, <2>2
<1>4. ret \in Seq(Value)
  <2>1. running_return(b, p, begins) \in Seq(Value) \/ kind = "fpo"
    <3>1. p # -1 => b.rows[p].ret \in Seq(Value)
      BY <1>1 DEF Typed, Row
    <3>2. dppo_return(b, p) \in Seq(Value) /\ ppo_return(b, p, begins) \in Seq(Value)
      BY <3>1, EmptySeq DEF dppo_return, ppo_return
    <3> QED
      BY <3>2 DEF running_return
  <2>2. step \in Value
    BY DEF Value
  <2> QED
    BY <2>1, <2>2, EmptySeq, AppendProperties
<1> HIDE DEF links, ret
<1>5. links[b.idx] \in Row
  BY <1>1, <1>3 DEF Typed
<1>6. row \in Row /\ row.ends = ends
  <2>1. step \in Value /\ begins \in BOOLEAN
    BY DEF Value
  <2> HIDE DEF begins
  <2> QED
    BY <1>4, <1>5, <2>1 DEF Row
<1> HIDE DEF row
<1> QED
  BY <1>1, <1>2, <1>3, <1>6 DEF Typed

(* What the learn step computes: types, and how frames ended.              *)
LEMMA ComputeTyped ==
  ASSUME NEW b, Shape(b), Typed(b.rows),
         NEW c, c = compute_advantages_and_returns(b)
  PROVE  /\ Typed(c.rows) /\ Typed(bootstrapped(b))
         /\ \A i \in Indices :
              /\ c.rows[i].ends = b.rows[i].ends
              /\ c.rows[i].advantage = Backwards(bootstrapped(b), b.idx)[i]
<1> DEFINE rows == bootstrapped(b)
           advantages == Backwards(rows, b.idx)
           computed == [s \in Indices |-> [rows[s] EXCEPT !.advantage = advantages[s]]]
<1>1. c.rows = computed
  <2>1. c = [b EXCEPT !.rows = computed]
    BY DEF compute_advantages_and_returns
  <2> HIDE DEF computed
  <2> QED
    BY <2>1 DEF Shape
<1>2. Typed(rows) /\ \A i \in Indices : rows[i].ends = b.rows[i].ends
  <2>1. ASSUME NEW i \in Indices
        PROVE  /\ i \in DOMAIN rows
               /\ rows[i] \in Row /\ rows[i].ends = b.rows[i].ends
    <3> DEFINE mine == {q \in Open(b) : b.requests[q].end_node.idx = i}
               obs == b.requests[CHOOSE q \in mine : TRUE].obs
    <3>1. rows[i] = IF mine = {} THEN b.rows[i] ELSE [b.rows[i] EXCEPT !.last_value = obs]
      BY DEF bootstrapped
    <3>2. mine # {} => obs \in Value
      <4>1. mine \subseteq DOMAIN b.requests
        BY DEF Open
      <4>2. \A q \in DOMAIN b.requests : b.requests[q] \in Request
        BY ElementOfSeq DEF Shape
      <4>3. \A q \in DOMAIN b.requests : b.requests[q].obs \in Value
        BY <4>2 DEF Request, Value
      <4> HIDE DEF mine
      <4> QED
        BY <4>1, <4>3
    <3>3. i \in DOMAIN rows
      BY DEF bootstrapped
    <3> HIDE DEF mine, obs, rows
    <3>4. b.rows[i] \in Row
      BY DEF Typed
    <3> QED
      BY <3>1, <3>2, <3>3, <3>4 DEF Row
  <2>2. rows = [i \in Indices |-> rows[i]]
    BY DEF bootstrapped
  <2> HIDE DEF rows
  <2> QED
    BY <2>1, <2>2 DEF Typed
<1>3. advantages \in [Indices -> Seq(Delta)]
  BY <1>2, BackwardsTyped DEF Shape
<1> HIDE DEF rows, advantages
<1>4. ASSUME NEW i \in Indices
      PROVE  /\ computed[i] \in Row /\ computed[i].ends = rows[i].ends
             /\ computed[i].advantage = advantages[i]
  <2>1. rows[i] \in Row /\ advantages[i] \in Seq(Delta)
    BY <1>2, <1>3 DEF Typed
  <2>2. computed[i] = [rows[i] EXCEPT !.advantage = advantages[i]]
    OBVIOUS
  <2> QED
    BY <2>1, <2>2 DEF Row
<1>5. computed \in [Indices -> Row]
  BY <1>4
<1> HIDE DEF computed
<1> QED
  BY <1>1, <1>2, <1>4, <1>5 DEF Typed, rows, advantages

-----------------------------------------------------------------------------
(* The types of the arrays. *)
ArraysTyped ==
  /\ Typed(buffer.rows)
  /\ kind \in Kinds
  /\ treatTruncatedAsDone \in BOOLEAN
  /\ outcome \in [Envs -> Outcomes]
  /\ normalised \subseteq Value
  /\ phase \in {"collect", "learn"}

LEMMA TypesTogether == TypeInv /\ ArraysTyped => TypeOK
<1> SUFFICES ASSUME TypeInv, ArraysTyped PROVE TypeOK
  OBVIOUS
<1>1. buffer \in [rows : [Indices -> Row], idx : 0 .. BufferSize,
                  signature : Nat, requests : Seq(Request)]
  BY DEF TypeInv, ArraysTyped, Shape, Typed
<1> QED
  BY <1>1 DEF TypeInv, ArraysTyped, TypeOK

LEMMA EmptyRowTyped == EmptyRow \in Row
<1>1. /\ Stale \in Value /\ 0 \in Indices /\ "running" \in Outcomes
  BY BufferAssumption DEF Value, Indices, Outcomes
<1>2. <<>> \in Seq(Value) /\ <<>> \in Seq(Delta)
  BY EmptySeq
<1> QED
  BY <1>1, <1>2 DEF EmptyRow, Row

LEMMA ArraysInit == Init => ArraysTyped
<1> SUFFICES ASSUME Init PROVE ArraysTyped
  OBVIOUS
<1>1. buffer.rows = [i \in Indices |-> EmptyRow]
  BY DEF Init
<1>2. Typed(buffer.rows)
  BY <1>1, EmptyRowTyped DEF Typed
<1>3. /\ kind \in Kinds /\ treatTruncatedAsDone \in BOOLEAN
      /\ outcome \in [Envs -> Outcomes] /\ normalised = {} /\ phase = "collect"
  BY DEF Init, Outcomes
<1> QED
  BY <1>2, <1>3 DEF ArraysTyped

(* The frame of a step, as the buffer has it after its feedback.           *)
LEMMA FeedbackRows ==
  ASSUME ChainInv, ArraysTyped, NEW e \in Envs, NEW ends \in Outcomes, feedback(e, ends)
  PROVE  /\ Typed(buffer'.rows)
         /\ \A i \in Indices :
              /\ buffer'.rows[i].ends
                   = IF i = buffer.idx THEN ends ELSE buffer.rows[i].ends
              /\ buffer'.rows[i].step
                   = IF i = buffer.idx THEN Now(e) ELSE buffer.rows[i].step
              /\ buffer'.rows[i].next_index
                   = IF i = chained(buffer, node[e]) THEN buffer.idx
                     ELSE buffer.rows[i].next_index
         /\ buffer'.idx = buffer.idx + 1 /\ buffer'.signature = buffer.signature
         /\ buffer.idx \in Indices /\ buffer.signature \in Nat /\ buffer.idx \in Nat
<1> DEFINE b == buffer
           stored == add_frame(b, node[e], Now(e), outcome[e], ends)
<1>1. Shape(b) /\ ~full(b) /\ node[e] \in Node /\ b.idx \in Indices /\ b.idx \in Nat
  BY BufferAssumption DEF feedback, full, Shape, Indices, ChainInv, TypeInv
<1>2. Now(e) \in Step
  BY LenProperties DEF Now, Step, ChainInv, TypeInv
<1>3. kind \in {"ppo", "dppo", "fpo"}
  BY BufferAssumption DEF ArraysTyped
<1>4. /\ Shape(stored) /\ stored.idx = b.idx + 1 /\ stored.signature = b.signature
      /\ \A i \in Indices :
           /\ stored.rows[i].next_index
                = IF i = chained(b, node[e]) THEN b.idx ELSE b.rows[i].next_index
           /\ stored.rows[i].step = IF i = b.idx THEN Now(e) ELSE b.rows[i].step
  BY <1>1, AddFrame
<1>5. /\ Typed(stored.rows)
      /\ \A i \in Indices : stored.rows[i].ends = IF i = b.idx THEN ends ELSE b.rows[i].ends
  BY <1>1, <1>2, <1>3, AddFrameTyped DEF ArraysTyped
<1>6. \E left : buffer' = [stored EXCEPT !.requests = left]
  <2>1. buffer' = add_next_obs_value_request(stored, After(e), NodeOf(b))
    BY DEF feedback
  <2>2. NodeOf(b).idx # -1
    BY <1>1 DEF NodeOf
  <2> QED
    BY <2>1, <2>2 DEF add_next_obs_value_request
<1> HIDE DEF stored
<1>7. /\ buffer'.rows = stored.rows /\ buffer'.idx = stored.idx
      /\ buffer'.signature = stored.signature
  BY <1>4, <1>6 DEF Shape
<1> QED
  BY <1>1, <1>4, <1>5, <1>7 DEF Shape

LEMMA ArraysStep ==
  ASSUME ChainInv, ArraysTyped, [Next]_vars
  PROVE  ArraysTyped'
<1>1. ASSUME NEW e \in Envs, NEW ends \in Outcomes, feedback(e, ends)
      PROVE  ArraysTyped'
  <2>1. Typed(buffer'.rows)
    BY <1>1, FeedbackRows
  <2> QED
    BY <1>1, <2>1 DEF feedback, ArraysTyped
<1>2. ASSUME NEW e \in Envs, NEW ends \in Outcomes, discard_feedback(e, ends)
      PROVE  ArraysTyped'
  BY <1>2 DEF discard_feedback, ArraysTyped
<1>3. ASSUME NEW e \in Envs, Reconnect(e) PROVE ArraysTyped'
  BY <1>3 DEF Reconnect, ArraysTyped, Outcomes
<1>4. \A i \in Indices : buffer.rows[i].step \in Value
  BY DEF ArraysTyped, Typed, Row
<1>5. CASE pre_learn
  <2>1. Typed(buffer'.rows)
    BY <1>5, ComputeTyped DEF pre_learn, ChainInv, TypeInv, ArraysTyped
  <2>2. whole_storage(buffer) \subseteq Value
    BY <1>4 DEF whole_storage
  <2> QED
    BY <1>5, <2>1, <2>2 DEF pre_learn, ArraysTyped
<1>6. CASE post_learn
  <2>1. buffer'.rows = [i \in Indices |-> EmptyRow]
    BY <1>6 DEF post_learn, reset, ChainInv, TypeInv, Shape
  <2>2. Typed(buffer'.rows)
    BY <2>1, EmptyRowTyped DEF Typed
  <2>3. \A i \in 0 .. buffer.idx - 1 : i \in Indices
    BY BufferAssumption DEF Indices, ChainInv, TypeInv, Shape
  <2>4. stored_observations(buffer) \subseteq Value
    BY <1>4, <2>3 DEF stored_observations
  <2> QED
    BY <1>6, <2>2, <2>4 DEF post_learn, ArraysTyped
<1>7. CASE UNCHANGED vars
  BY <1>7 DEF ArraysTyped
<1> QED
  BY <1>1, <1>2, <1>3, <1>5, <1>6, <1>7 DEF Next

LEMMA ArraysInvariant == Spec => [](ChainInv /\ ArraysTyped)
<1>1. Init => ChainInv /\ ArraysTyped
  BY ChainInit, ArraysInit
<1>2. ChainInv /\ ArraysTyped /\ [Next]_vars => (ChainInv /\ ArraysTyped)'
  BY ChainStep, ArraysStep
<1> QED
  BY <1>1, <1>2, PTL DEF Spec

(* Whatever is stored, discarded, learned from and reset, every array of   *)
(* the buffer holds what it is for, what the backward loop leaves in it    *)
(* included: the index never leaves the storage (GAEBuffer.add_frame), and *)
(* an advantage is a sum of deltas whatever the filling.                   *)
THEOREM RolloutTypeCorrectness == Spec => []TypeOK
<1>1. ChainInv /\ ArraysTyped => TypeOK
  BY TypesTogether DEF ChainInv
<1> QED
  BY <1>1, ArraysInvariant, PTL

-----------------------------------------------------------------------------
(* The advantages.  The rows of an environment's stored steps are linked   *)
(* as its story says, and a request asks for the observation after the     *)
(* step of the frame it ends at.                                           *)
LinksFollow ==
  \A e \in Envs : \A p \in DOMAIN story[e] : Stored(e, p) =>
    LET row == buffer.rows[story[e][p].at]
    IN /\ row.ends = story[e][p].ends
       /\ row.next_index = IF Stored(e, p + 1) THEN story[e][p + 1].at ELSE 0
       /\ Stored(e, p + 1) => story[e][p + 1].at # 0
RequestsFollow ==
  \A r \in DOMAIN buffer.requests :
    LET request == buffer.requests[r]
    IN \E e \in Envs, k \in Nat :
         buffer.rows[request.end_node.idx].step = <<e, k>> /\ request.obs = <<e, k + 1>>
AdvantagesInv ==
  ReturnsInv /\ ArraysTyped /\ LinksFollow /\ RequestsFollow /\ AdvantagesPerEpisode

(* The deltas that the advantage of step p sums when step l is the last of *)
(* its episode, or of what is stored of it.                                *)
Masked(e, l) == story[e][l].ends = "truncated" /\ ~treatTruncatedAsDone
Sum(e, p, l) ==
  [n \in 1 .. (l - p) + (IF Masked(e, l) THEN 0 ELSE 1) |-> DeltaOf(e, p + n - 1)]
IsLast(e, p, l) ==
  /\ l \in p .. Len(story[e])
  /\ \A q \in p .. l - 1 : ~Ends(e, q) /\ Stored(e, q + 1)
  /\ Ends(e, l) \/ ~Stored(e, l + 1)

LEMMA LastIsLast ==
  ASSUME NEW e, NEW p \in Nat, Len(story[e]) \in Nat, NEW l, IsLast(e, p, l)
  PROVE  EpisodeAdvantage(e, p) = Sum(e, p, l)
<1> DEFINE Last(k) == /\ \A q \in p .. k - 1 : ~Ends(e, q) /\ Stored(e, q + 1)
                      /\ Ends(e, k) \/ ~Stored(e, k + 1)
           last == CHOOSE k \in p .. Len(story[e]) : Last(k)
<1>1. ASSUME NEW h, NEW i, IsLast(e, p, h), IsLast(e, p, i), h < i PROVE FALSE
  <2>1. h \in p .. i - 1
    BY <1>1 DEF IsLast
  <2> QED
    BY <1>1, <2>1 DEF IsLast
<1>2. last \in p .. Len(story[e]) /\ Last(last)
  BY DEF IsLast
<1>3. last = LastStep(e, p)
  BY DEF LastStep
<1> HIDE DEF last
<1>4. IsLast(e, p, last)
  BY <1>2 DEF IsLast
<1>5. l \in Int /\ last \in Int
  BY <1>2 DEF IsLast
<1>6. ~(last < l) /\ ~(l < last)
  BY <1>1, <1>4
<1>7. last = l
  BY <1>5, <1>6
<1> QED
  BY <1>3, <1>7 DEF EpisodeAdvantage, Sum, Masked

LEMMA SumGrows ==
  ASSUME NEW e, NEW p \in Nat, NEW l \in Nat, p < l
  PROVE  <<DeltaOf(e, p)>> \o Sum(e, p + 1, l) = Sum(e, p, l)
<1> DEFINE S == {DeltaOf(e, q) : q \in Int}
           m == (l - p) + (IF Masked(e, l) THEN 0 ELSE 1)
           rest == Sum(e, p + 1, l)
           all == Sum(e, p, l)
           one == <<DeltaOf(e, p)>>
           joined == one \o rest
<1>1. m \in Nat \ {0}
  OBVIOUS
<1>2. (l - (p + 1)) + (IF Masked(e, l) THEN 0 ELSE 1) = m - 1
  OBVIOUS
<1> HIDE DEF m
<1>3. rest = [n \in 1 .. m - 1 |-> DeltaOf(e, (p + 1) + n - 1)]
  BY <1>2 DEF Sum
<1>4. all = [n \in 1 .. m |-> DeltaOf(e, p + n - 1)]
  BY DEF Sum, m
<1>5. \A q \in Int : DeltaOf(e, q) \in S
  OBVIOUS
<1> HIDE DEF S, rest, all
<1>6. /\ rest \in [1 .. m - 1 -> S] /\ all \in [1 .. m -> S]
      /\ one \in Seq(S) /\ Len(one) = 1 /\ one[1] = DeltaOf(e, p)
  BY <1>1, <1>3, <1>4, <1>5
<1>7. rest \in Seq(S) /\ Len(rest) = m - 1 /\ all \in Seq(S) /\ Len(all) = m
  BY <1>1, <1>6
<1> HIDE DEF one
<1>8. /\ joined \in Seq(S) /\ Len(joined) = m
      /\ \A i \in 1 .. m : joined[i] = IF i <= 1 THEN one[i] ELSE rest[i - 1]
  <2>1. /\ joined \in Seq(S) /\ Len(joined) = Len(one) + Len(rest)
        /\ \A i \in 1 .. Len(one) + Len(rest) :
             joined[i] = IF i <= Len(one) THEN one[i] ELSE rest[i - Len(one)]
    BY <1>6, <1>7, ConcatProperties
  <2>2. Len(one) = 1 /\ Len(one) + Len(rest) = m
    BY <1>1, <1>6, <1>7
  <2> QED
    BY <2>1, <2>2
<1> HIDE DEF joined
<1>9. ASSUME NEW i \in 1 .. m PROVE joined[i] = all[i]
  <2>1. CASE i = 1
    <3>1. p + i - 1 = p
      BY <2>1
    <3>2. all[i] = DeltaOf(e, p + i - 1)
      BY <1>4
    <3> QED
      BY <2>1, <3>1, <3>2, <1>6, <1>8
  <2>2. CASE i # 1
    <3>1. i - 1 \in 1 .. m - 1 /\ (p + 1) + (i - 1) - 1 = p + i - 1
      BY <2>2, <1>1
    <3>2. rest[i - 1] = DeltaOf(e, p + i - 1)
      BY <3>1, <1>3
    <3> QED
      BY <2>2, <3>2, <1>4, <1>8
  <2> QED
    BY <2>1, <2>2
<1>10. joined = all
  BY <1>1, <1>7, <1>8, <1>9, SeqEqual
<1> QED
  BY <1>10 DEF joined, all, one, rest

(* Every end of a chain gets the value of the observation after it.        *)
LEMMA BootstrappedRows ==
  ASSUME ChainInv, Typed(buffer.rows), RequestsFollow,
         NEW rows, rows = bootstrapped(buffer), NEW i \in Indices
  PROVE  /\ rows[i].step = buffer.rows[i].step
         /\ rows[i].ends = buffer.rows[i].ends
         /\ rows[i].next_index = buffer.rows[i].next_index
         /\ \A e, k : /\ i < buffer.idx /\ buffer.rows[i].next_index = 0
                      /\ buffer.rows[i].step = <<e, k>>
                      => rows[i].last_value = <<e, k + 1>>
<1> DEFINE mine == {q \in Open(buffer) : buffer.requests[q].end_node.idx = i}
           chosen == CHOOSE q \in mine : TRUE
           obs == buffer.requests[chosen].obs
<1>1. rows[i] = IF mine = {} THEN buffer.rows[i]
                ELSE [buffer.rows[i] EXCEPT !.last_value = obs]
  BY DEF bootstrapped
<1>2. buffer.rows[i] \in Row
  BY DEF Typed
<1>3. ASSUME i < buffer.idx, buffer.rows[i].next_index = 0 PROVE mine # {}
  <2>1. i \in 0 .. buffer.idx - 1
    BY <1>3 DEF Indices, ChainInv, TypeInv, Shape
  <2>2. PICK r \in DOMAIN buffer.requests :
          buffer.requests[r].end_node = [idx |-> i, signature |-> buffer.signature]
    BY <1>3, <2>1 DEF ChainInv, ChainsSound, EndsRequested
  <2>3. r \in Open(buffer)
    BY <1>3, <2>2 DEF Open, Answered
  <2> QED
    BY <2>2, <2>3
<1>4. ASSUME NEW e, NEW k, mine # {}, buffer.rows[i].step = <<e, k>>
      PROVE  obs = <<e, k + 1>>
  <2>1. chosen \in mine
    BY <1>4
  <2>2. chosen \in DOMAIN buffer.requests /\ buffer.requests[chosen].end_node.idx = i
    BY <2>1 DEF Open
  <2> HIDE DEF chosen
  <2>3. PICK f \in Envs, j \in Nat : buffer.rows[i].step = <<f, j>> /\ obs = <<f, j + 1>>
    BY <2>2 DEF RequestsFollow
  <2> QED
    BY <2>3, <1>4
<1> HIDE DEF mine, obs
<1>5. CASE mine = {}
  BY <1>1, <1>3, <1>5
<1>6. CASE mine # {}
  <2>1. rows[i] = [buffer.rows[i] EXCEPT !.last_value = obs]
    BY <1>1, <1>6
  <2>2. /\ rows[i].step = buffer.rows[i].step /\ rows[i].ends = buffer.rows[i].ends
        /\ rows[i].next_index = buffer.rows[i].next_index
        /\ rows[i].last_value = obs
    BY <2>1, <1>2 DEF Row
  <2> QED
    BY <2>2, <1>4, <1>6
<1> QED
  BY <1>5, <1>6

LEMMA SumOne ==
  ASSUME NEW e, NEW p \in Nat
  PROVE  Sum(e, p, p) = IF Masked(e, p) THEN <<>> ELSE <<DeltaOf(e, p)>>
<1>1. CASE Masked(e, p)
  BY <1>1 DEF Sum
<1>2. CASE ~Masked(e, p)
  <2> DEFINE one == <<DeltaOf(e, p)>>
  <2>1. Sum(e, p, p) = [n \in 1 .. 1 |-> DeltaOf(e, p + n - 1)]
    BY <1>2 DEF Sum
  <2>2. \A n \in 1 .. 1 : p + n - 1 = p
    OBVIOUS
  <2>3. Sum(e, p, p) = [n \in 1 .. 1 |-> DeltaOf(e, p)]
    BY <2>1, <2>2
  <2>4. [n \in 1 .. 1 |-> DeltaOf(e, p)] = <<DeltaOf(e, p)>>
    OBVIOUS
  <2> QED
    BY <2>3, <2>4, <1>2
<1> QED
  BY <1>1, <1>2

Good(e, p, adv) ==
  \E l \in Nat : IsLast(e, p, l) /\ adv[story[e][p].at] = Sum(e, p, l)

(* One frame: what the loop's equation says of it is what its              *)
(* environment's story says, given that this holds of the frame after it.  *)
LEMMA AdvantageOf ==
  ASSUME ChainInv, StoredSteps, ArraysTyped, LinksFollow, RequestsFollow,
         NEW rows, rows = bootstrapped(buffer), NEW adv,
         \A s \in 0 .. buffer.idx - 1 : adv[s] = advantage(rows, adv, s),
         NEW e \in Envs, NEW p \in DOMAIN story[e], Stored(e, p),
         Stored(e, p + 1) => Good(e, p + 1, adv)
  PROVE  Good(e, p, adv)
<1> DEFINE s == story[e][p].at
           t == story[e][p + 1].at
           ends == story[e][p].ends
           terminated == ends = "terminated" \/ (ends = "truncated" /\ treatTruncatedAsDone)
           masked == ends = "truncated" /\ ~treatTruncatedAsDone
           linked_on == Stored(e, p + 1)
           next == IF terminated THEN None ELSE <<e, p + 1>>
           delta == [step |-> <<e, p>>, next |-> next]
<1>1. /\ Len(story[e]) \in Nat /\ DOMAIN story[e] = 1 .. Len(story[e])
      /\ p \in Nat /\ p \in 1 .. Len(story[e])
  BY LenProperties DEF ChainInv, TypeInv
<1>2. s \in Indices /\ s \in 0 .. buffer.idx - 1 /\ s < buffer.idx
      /\ buffer.rows[s].step = <<e, p>>
  <2>1. s \in Indices
    BY StoryEntry DEF ChainInv, Stored
  <2>2. s < buffer.idx /\ buffer.rows[s].step = <<e, p>>
    BY DEF StoredSteps
  <2> QED
    BY <2>1, <2>2, BufferAssumption DEF Indices, ChainInv, TypeInv, Shape
<1>3. /\ rows[s].step = <<e, p>>
      /\ rows[s].ends = ends /\ ends \in Outcomes
      /\ rows[s].next_index = IF linked_on THEN t ELSE 0
      /\ linked_on => t # 0
      /\ ~linked_on => rows[s].last_value = <<e, p + 1>>
  <2>1. /\ buffer.rows[s].ends = ends
        /\ buffer.rows[s].next_index = IF linked_on THEN t ELSE 0
        /\ linked_on => t # 0
    BY DEF LinksFollow
  <2>2. /\ rows[s].step = buffer.rows[s].step
        /\ rows[s].ends = buffer.rows[s].ends
        /\ rows[s].next_index = buffer.rows[s].next_index
        /\ buffer.rows[s].next_index = 0 => rows[s].last_value = <<e, p + 1>>
    BY <1>2, BootstrappedRows DEF ArraysTyped
  <2>3. buffer.rows[s].ends \in Outcomes
    BY <1>2 DEF ArraysTyped, Typed, Row
  <2> QED
    BY <1>2, <2>1, <2>2, <2>3
<1>4. ASSUME linked_on PROVE rows[t].step = <<e, p + 1>>
  <2>1. p + 1 \in DOMAIN story[e]
    BY <1>4 DEF Stored
  <2>2. t \in Indices
    BY <1>4, <2>1, StoryEntry DEF ChainInv, Stored
  <2>3. buffer.rows[t].step = <<e, p + 1>>
    BY <1>4, <2>1 DEF StoredSteps
  <2> QED
    BY <2>2, <2>3, BootstrappedRows DEF ArraysTyped
<1>5. adv[s] = IF masked THEN <<>>
               ELSE <<delta>> \o (IF terminated \/ ~linked_on THEN <<>> ELSE adv[t])
  <2>1. adv[s] = advantage(rows, adv, s)
    BY <1>2
  <2> DEFINE n == rows[s].next_index
  <2>2. /\ n = 0 <=> ~linked_on
        /\ linked_on => n = t
    BY <1>3
  <2>3. (IF terminated THEN None
         ELSE IF n = 0 THEN rows[s].last_value ELSE rows[n].step) = next
    BY <1>3, <1>4, <2>2
  <2>4. advantage(rows, adv, s) =
          IF masked THEN <<>>
          ELSE <<[step |-> rows[s].step,
                  next |-> IF terminated THEN None
                           ELSE IF n = 0 THEN rows[s].last_value ELSE rows[n].step]>>
               \o (IF terminated \/ n = 0 THEN <<>> ELSE adv[n])
    BY <1>3 DEF advantage
  <2> HIDE DEF next, n, terminated, masked, linked_on
  <2>5. advantage(rows, adv, s) =
          IF masked THEN <<>>
          ELSE <<delta>> \o (IF terminated \/ n = 0 THEN <<>> ELSE adv[n])
    BY <1>3, <2>3, <2>4
  <2> QED
    BY <2>1, <2>2, <2>5
<1>6. Ends(e, p) <=> terminated \/ masked
  BY <1>3 DEF Ends, Outcomes
<1>7. masked <=> Masked(e, p)
  BY DEF Masked
<1>8. delta = DeltaOf(e, p) \/ masked
  BY <1>6 DEF DeltaOf
<1>9. CASE Ends(e, p) \/ ~linked_on
  <2>1. IsLast(e, p, p)
    BY <1>1, <1>9 DEF IsLast
  <2>2. adv[s] = IF masked THEN <<>> ELSE <<delta>> \o <<>>
    BY <1>5, <1>6, <1>9
  <2> DEFINE one == <<delta>>
  <2>3. one \o <<>> = one
    <3>1. one \in Seq({delta})
      OBVIOUS
    <3> HIDE DEF one
    <3> QED
      BY <3>1, ConcatEmptySeq
  <2>4. adv[s] = IF Masked(e, p) THEN <<>> ELSE <<DeltaOf(e, p)>>
    BY <1>7, <1>8, <2>2, <2>3
  <2>5. adv[s] = Sum(e, p, p)
    BY <1>1, <2>4, SumOne
  <2> QED
    BY <1>1, <2>1, <2>5 DEF Good
<1>10. CASE ~Ends(e, p) /\ linked_on
  <2>1. PICK l \in Nat : IsLast(e, p + 1, l) /\ adv[t] = Sum(e, p + 1, l)
    BY <1>10 DEF Good
  <2>2. l \in p + 1 .. Len(story[e])
    BY <2>1 DEF IsLast
  <2>3. IsLast(e, p, l)
    <3>1. ASSUME NEW q \in p .. l - 1 PROVE ~Ends(e, q) /\ Stored(e, q + 1)
      <4>1. q = p \/ q \in p + 1 .. l - 1
        BY <1>1
      <4> QED
        BY <4>1, <1>10, <2>1 DEF IsLast
    <3> QED
      BY <1>1, <2>1, <2>2, <3>1 DEF IsLast
  <2>4. adv[s] = <<DeltaOf(e, p)>> \o Sum(e, p + 1, l)
    BY <1>5, <1>6, <1>8, <1>10, <2>1
  <2>5. adv[s] = Sum(e, p, l)
    <3>1. p < l
      BY <1>1, <2>2
    <3> QED
      BY <1>1, <2>4, <3>1, SumGrows
  <2> QED
    BY <2>3, <2>5 DEF Good
<1> QED
  BY <1>9, <1>10

(* All frames, from the last step of each environment to its first.        *)
LEMMA AdvantagesComputed ==
  ASSUME ChainInv, StoredSteps, ArraysTyped, LinksFollow, RequestsFollow,
         NEW adv, adv = Backwards(bootstrapped(buffer), buffer.idx),
         NEW e \in Envs, NEW p \in DOMAIN story[e], Stored(e, p)
  PROVE  adv[story[e][p].at] = EpisodeAdvantage(e, p)
<1> DEFINE rows == bootstrapped(buffer)
           last == Len(story[e])
           Right(q) == q \in DOMAIN story[e] /\ Stored(e, q) => Good(e, q, adv)
           bad == {d \in 0 .. last : ~Right(last - d)}
<1>1. /\ last \in Nat /\ DOMAIN story[e] = 1 .. last /\ p \in 1 .. last
      /\ buffer.idx \in 0 .. BufferSize
  BY LenProperties DEF ChainInv, TypeInv, Shape
<1>2. ASSUME NEW i \in Indices
      PROVE  rows[i].next_index = buffer.rows[i].next_index
  BY BootstrappedRows DEF ArraysTyped
<1>3. \A i \in 0 .. buffer.idx - 1 :
        /\ rows[i].next_index \in Nat
        /\ rows[i].next_index # 0 => i < rows[i].next_index /\ rows[i].next_index < buffer.idx
  <2> TAKE i \in 0 .. buffer.idx - 1
  <2>1. i \in Indices
    BY <1>1, BufferAssumption DEF Indices
  <2>2. buffer.rows[i].next_index \in Indices
    BY <2>1 DEF ChainInv, TypeInv, Shape, RowsShape
  <2> QED
    BY <2>1, <2>2, <1>2 DEF Indices, ChainInv, ChainsSound, ChainsForward
<1> HIDE DEF rows
<1>4. \A i \in 0 .. buffer.idx - 1 : adv[i] = advantage(rows, adv, i)
  BY <1>1, <1>3, BackwardsSolves DEF rows
<1>5. ASSUME NEW q \in DOMAIN story[e], Stored(e, q), Right(q + 1) PROVE Good(e, q, adv)
  <2>1. Stored(e, q + 1) => Good(e, q + 1, adv)
    BY <1>5 DEF Stored
  <2> QED
    BY <1>4, <1>5, <2>1, AdvantageOf DEF rows
<1> HIDE DEF Right
<1>6. Right(last + 1)
  BY <1>1 DEF Right
<1>7. bad = {}
  <2> SUFFICES ASSUME bad # {} PROVE FALSE
    OBVIOUS
  <2>1. bad \in SUBSET Nat
    BY <1>1
  <2>2. PICK d \in bad : \A j \in bad : d <= j
    BY <2>1, SmallestNumber
  <2>3. Right(last - d + 1)
    <3>1. CASE d = 0
      <4>1. last - d + 1 = last + 1
        BY <3>1, <1>1
      <4> QED
        BY <4>1, <1>6
    <3>2. CASE d # 0
      <4>1. d - 1 \in 0 .. last /\ last - (d - 1) = last - d + 1 /\ d - 1 \notin bad
        BY <1>1, <2>2, <3>2
      <4> QED
        BY <4>1
    <3> QED
      BY <3>1, <3>2
  <2>4. ~Right(last - d)
    BY <2>2
  <2>5. last - d \in DOMAIN story[e] /\ Stored(e, last - d) /\ ~Good(e, last - d, adv)
    BY <2>4 DEF Right
  <2> QED
    BY <2>3, <2>5, <1>5
<1>8. Right(p)
  <2>1. last - p \in 0 .. last /\ last - (last - p) = p /\ last - p \notin bad
    BY <1>1, <1>7
  <2> QED
    BY <2>1
<1>9. PICK l \in Nat : IsLast(e, p, l) /\ adv[story[e][p].at] = Sum(e, p, l)
  BY <1>8 DEF Right, Good
<1> QED
  BY <1>1, <1>9, LastIsLast

LEMMA AdvantagesInit == Init => AdvantagesInv
<1> SUFFICES ASSUME Init PROVE AdvantagesInv
  OBVIOUS
<1>1. ReturnsInv /\ ArraysTyped
  BY ReturnsInit, ArraysInit
<1>2. LinksFollow /\ RequestsFollow /\ AdvantagesPerEpisode
  BY DEF Init, LinksFollow, RequestsFollow, AdvantagesPerEpisode
<1> QED
  BY <1>1, <1>2 DEF AdvantagesInv

(* A stored step is linked to the one stored before it, if the handler     *)
(* still holds that, and to nothing else.                                  *)
LEMMA LinksFeedback ==
  ASSUME AdvantagesInv, NEW e \in Envs, NEW ends \in Outcomes, feedback(e, ends)
  PROVE  LinksFollow'
<1> DEFINE b == buffer
           s == b.idx
           c == chained(b, node[e])
           Follows(f, p) ==
             /\ b.rows[story[f][p].at].ends = story[f][p].ends
             /\ b.rows[story[f][p].at].next_index
                  = IF Stored(f, p + 1) THEN story[f][p + 1].at ELSE 0
             /\ Stored(f, p + 1) => story[f][p + 1].at # 0
<1>0. PICK last, now : last = Len(story[e]) /\ now = last + 1
  OBVIOUS
<1>1. /\ ChainInv /\ ArraysTyped /\ StoredSteps /\ TypeInv /\ Continues(e)
      /\ node[e] \in Node /\ Shape(b)
  BY DEF AdvantagesInv, ReturnsInv, StatisticsInv, ChainInv, TypeInv, Continued
<1>2. /\ \A i \in Indices :
           /\ buffer'.rows[i].ends = IF i = s THEN ends ELSE b.rows[i].ends
           /\ buffer'.rows[i].next_index = IF i = c THEN s ELSE b.rows[i].next_index
      /\ s \in Indices /\ s \in Nat
  BY <1>1, FeedbackRows
<1>3. /\ \A f \in Envs : \A p : f # e \/ p # now =>
           /\ p \in DOMAIN story'[f] <=> p \in DOMAIN story[f]
           /\ p \in DOMAIN story[f] => story'[f][p] = story[f][p]
      /\ now \in DOMAIN story'[e] /\ last \in Nat
      /\ Len(story'[e]) = now
      /\ story'[e][now] = [ends |-> ends, at |-> s]
      /\ \A f \in Envs : f # e => story'[f] = story[f]
  <2>1. Record(e, ends, s)
    BY DEF feedback
  <2> QED
    BY <1>0, <1>1, <2>1, StoryGrows
<1>4. \A f \in Envs : \A p : f # e \/ p # now =>
        (Stored(f, p)' <=> Stored(f, p))
  BY <1>3 DEF Stored
<1>5. /\ Stored(e, now)' /\ ~Stored(e, now + 1)' /\ ~Stored(e, now)
      /\ DOMAIN story[e] = 1 .. last
  <2>1. DOMAIN story[e] = 1 .. last /\ now + 1 \notin DOMAIN story[e] /\ now \notin DOMAIN story[e]
    BY <1>0, <1>1, <1>3, LenProperties DEF TypeInv
  <2>2. now + 1 # now
    BY <1>0, <1>3
  <2>3. now + 1 \notin DOMAIN story'[e]
    BY <1>3, <2>1, <2>2
  <2> QED
    BY <2>1, <2>3, <1>2, <1>3 DEF Stored, Indices
<1>6. /\ c # -1 <=> Stored(e, last)
      /\ Stored(e, last) => story[e][last].at = c /\ c < s /\ c \in Indices
  <2>1. c = IF Held(e) THEN node[e].idx ELSE -1
    BY <1>1 DEF chained, Held, Node
  <2>2. Held(e) <=> Stored(e, last)
    BY <1>0, <1>1 DEF Continues
  <2>3. Held(e) => /\ story[e][last].at = node[e].idx
                   /\ node[e].idx < s /\ node[e].idx \in Indices
    BY <1>0, <1>1 DEF Continues, ChainInv, NodesAreEnds, Held, Node
  <2> QED
    BY <2>1, <2>2, <2>3 DEF Held
<1>7. ASSUME NEW f \in Envs, NEW p \in DOMAIN story[f], Stored(f, p)
      PROVE  /\ story[f][p].at \in Indices /\ story[f][p].at < s
             /\ b.rows[story[f][p].at].step = <<f, p>>
             /\ Follows(f, p)
  <2>1. story[f][p].at \in Indices
    BY <1>1, <1>7, StoryEntry DEF Stored
  <2>2. Follows(f, p)
    BY <1>7 DEF AdvantagesInv, LinksFollow
  <2> QED
    BY <1>1, <1>7, <2>1, <2>2 DEF StoredSteps
<1> HIDE DEF c, Follows
<1>8. ASSUME NEW f \in Envs, NEW p \in DOMAIN story'[f], Stored(f, p)'
      PROVE  LET row == buffer'.rows[story'[f][p].at]
             IN /\ row.ends = story'[f][p].ends
                /\ row.next_index = IF Stored(f, p + 1)' THEN story'[f][p + 1].at ELSE 0
                /\ Stored(f, p + 1)' => story'[f][p + 1].at # 0
  <2>1. CASE f = e /\ p = now
    <3>1. b.rows[s].next_index = 0
      <4>1. b.rows[s].next_index # 0 =>
              s < b.rows[s].next_index /\ b.rows[s].next_index < s
        BY <1>1, <1>2 DEF ChainInv, ChainsSound, ChainsForward
      <4>2. b.rows[s].next_index \in Nat
        BY <1>1, <1>2 DEF Shape, RowsShape, Indices
      <4> QED
        BY <4>1, <4>2, <1>2
    <3>2. s # c
      BY <1>2, <1>6 DEF Indices
    <3> QED
      BY <2>1, <3>1, <3>2, <1>2, <1>3, <1>5
  <2>2. CASE f = e /\ p = last
    <3>1. /\ p \in DOMAIN story[e] /\ story'[e][p] = story[e][p] /\ Stored(e, p)
      BY <2>2, <1>0, <1>3, <1>4, <1>8
    <3>2. Stored(e, p + 1)' /\ story'[e][p + 1].at = s
      BY <2>2, <1>0, <1>3, <1>5
    <3>3. story[e][p].at = c /\ c < s /\ c \in Indices
      BY <2>2, <3>1, <1>6
    <3>4. c # s /\ s # 0
      BY <3>3, <1>2 DEF Indices
    <3>5. b.rows[c].ends = story[e][p].ends
      BY <3>1, <3>3, <1>7 DEF Follows
    <3> QED
      BY <2>2, <3>1, <3>2, <3>3, <3>4, <3>5, <1>2
  <2>3. CASE f # e \/ (p # now /\ p # last)
    <3>1. p \in DOMAIN story[f] /\ story'[f][p] = story[f][p] /\ Stored(f, p)
      BY <2>3, <1>3, <1>4, <1>8
    <3>2. p \in Int
      BY <1>1, <3>1, LenProperties DEF TypeInv
    <3>3. f # e \/ p + 1 # now
      BY <2>3, <1>0, <1>3, <3>2
    <3>4. /\ Stored(f, p + 1)' <=> Stored(f, p + 1)
          /\ Stored(f, p + 1) => story'[f][p + 1] = story[f][p + 1]
      BY <3>3, <1>3, <1>4 DEF Stored
    <3>5. story[f][p].at \in Indices /\ story[f][p].at # s /\ Follows(f, p)
      BY <3>1, <1>2, <1>7 DEF Indices
    <3>6. story[f][p].at # c
      <4>1. SUFFICES ASSUME story[f][p].at = c PROVE FALSE
        OBVIOUS
      <4>2. c # -1
        BY <4>1, <3>5 DEF Indices
      <4>3. Stored(e, last) /\ story[e][last].at = c
        BY <4>2, <1>6
      <4>4. last \in DOMAIN story[e]
        BY <4>3 DEF Stored
      <4>5. b.rows[c].step = <<e, last>> /\ b.rows[c].step = <<f, p>>
        BY <4>1, <4>3, <4>4, <3>1, <1>7
      <4> QED
        BY <4>5, <2>3
    <3> QED
      BY <3>1, <3>4, <3>5, <3>6, <1>2 DEF Follows
  <2> QED
    BY <2>1, <2>2, <2>3
<1> QED
  BY <1>8 DEF LinksFollow

LEMMA RequestsFeedback ==
  ASSUME AdvantagesInv, NEW e \in Envs, NEW ends \in Outcomes, feedback(e, ends)
  PROVE  RequestsFollow'
<1> DEFINE b == buffer
           s == b.idx
           stored == add_frame(b, node[e], Now(e), outcome[e], ends)
           here == [idx |-> s, signature |-> b.signature]
           mine == [obs |-> After(e), end_node |-> here]
           queue == Append(b.requests, mine)
           left == WithoutAnswered(stored, queue)
<1>1. /\ ChainInv /\ ArraysTyped /\ Shape(b) /\ ~full(b) /\ node[e] \in Node
      /\ story[e] \in Seq([ends : Outcomes \cup {"lost"}, at : Indices \cup {-1}])
      /\ b.requests \in Seq(Request)
  BY DEF AdvantagesInv, ReturnsInv, StatisticsInv, ChainInv, TypeInv, feedback, Shape
<1>2. /\ \A i \in Indices : buffer'.rows[i].step = IF i = s THEN Now(e) ELSE b.rows[i].step
      /\ s \in Indices /\ s \in Nat
  BY <1>1, FeedbackRows
<1>3. Shape(stored) /\ stored.requests = b.requests
  BY <1>1, AddFrame
<1>4. NodeOf(b) = here /\ here.idx # -1
  BY <1>1, <1>2 DEF NodeOf
<1>5. buffer'.requests = left
  <2>1. buffer' = [stored EXCEPT !.requests = left]
    BY <1>3, <1>4 DEF feedback, add_next_obs_value_request
  <2> HIDE DEF stored, left
  <2> QED
    BY <2>1, <1>3 DEF Shape
<1> HIDE DEF stored
<1>6. /\ Now(e) = <<e, Len(story[e]) + 1>> /\ After(e) = <<e, (Len(story[e]) + 1) + 1>>
      /\ Len(story[e]) + 1 \in Nat \ {0}
  <2>1. Len(story[e]) \in Nat
    BY <1>1, LenProperties
  <2> QED
    BY <2>1 DEF Now, After
<1>7. mine \in Request
  <2>1. After(e) \in Step
    BY <1>6 DEF Step
  <2>2. here \in Node
    BY <1>1, <1>2 DEF Node, Shape
  <2> QED
    BY <2>1, <2>2 DEF Request
<1>8. mine.obs = After(e) /\ mine.end_node.idx = s
  OBVIOUS
<1> HIDE DEF mine
<1>9. queue \in Seq(Request) /\ \A q \in DOMAIN queue :
        queue[q] = mine \/ \E r \in DOMAIN b.requests : queue[q] = b.requests[r]
  BY <1>1, <1>7, AppendProperties
<1> HIDE DEF queue
<1>10. \A r \in DOMAIN left : \E q \in DOMAIN queue : left[r] = queue[q]
  BY <1>9, Unanswered
<1> HIDE DEF left
<1>11. ASSUME NEW r \in DOMAIN left
       PROVE  \E f \in Envs, k \in Nat :
                buffer'.rows[left[r].end_node.idx].step = <<f, k>> /\ left[r].obs = <<f, k + 1>>
  <2>1. CASE left[r] = mine
    BY <2>1, <1>2, <1>6, <1>8
  <2>2. CASE left[r] # mine
    <3>1. PICK q \in DOMAIN b.requests : left[r] = b.requests[q]
      BY <2>2, <1>9, <1>10
    <3>2. b.requests[q].end_node.idx \in 0 .. s - 1
      BY <1>1 DEF ChainInv, RequestsCurrent
    <3>3. b.requests[q].end_node.idx \in Indices /\ b.requests[q].end_node.idx # s
      BY <3>2, <1>2, BufferAssumption DEF Indices
    <3>4. PICK f \in Envs, k \in Nat :
            b.rows[b.requests[q].end_node.idx].step = <<f, k>> /\ b.requests[q].obs = <<f, k + 1>>
      BY DEF AdvantagesInv, RequestsFollow
    <3> QED
      BY <3>1, <3>3, <3>4, <1>2
  <2> QED
    BY <2>1, <2>2
<1> QED
  BY <1>5, <1>11 DEF RequestsFollow

(* A step that is not stored is followed by no link. *)
LEMMA AdvantagesLost ==
  ASSUME AdvantagesInv, ReturnsInv', ArraysTyped', phase' = "collect",
         NEW e \in Envs, NEW ends \in Outcomes \cup {"lost"},
         Record(e, ends, -1), UNCHANGED buffer
  PROVE  AdvantagesInv'
<1>0. PICK now : now = Len(story[e]) + 1
  OBVIOUS
<1>1. TypeInv
  BY DEF AdvantagesInv, ReturnsInv, StatisticsInv, ChainInv
<1>2. /\ \A f \in Envs : \A p : f # e \/ p # now =>
           /\ p \in DOMAIN story'[f] <=> p \in DOMAIN story[f]
           /\ p \in DOMAIN story[f] => story'[f][p] = story[f][p]
      /\ story'[e][now] = [ends |-> ends, at |-> -1]
  BY <1>0, <1>1, StoryGrows
<1>3. now \notin DOMAIN story[e]
  BY <1>0, <1>1, LenProperties DEF TypeInv
<1>4. ~Stored(e, now) /\ ~Stored(e, now)'
  BY <1>2, <1>3 DEF Stored
<1>5. \A f \in Envs : \A p : /\ Stored(f, p)' <=> Stored(f, p)
                             /\ Stored(f, p) => story'[f][p] = story[f][p]
  BY <1>2, <1>4 DEF Stored
<1>6. LinksFollow'
  <2> SUFFICES ASSUME NEW f \in Envs, NEW p \in DOMAIN story'[f], Stored(f, p)'
               PROVE  LET row == buffer.rows[story'[f][p].at]
                      IN /\ row.ends = story'[f][p].ends
                         /\ row.next_index
                              = IF Stored(f, p + 1)' THEN story'[f][p + 1].at ELSE 0
                         /\ Stored(f, p + 1)' => story'[f][p + 1].at # 0
    BY DEF LinksFollow
  <2>1. p \in DOMAIN story[f] /\ Stored(f, p) /\ story'[f][p] = story[f][p]
    BY <1>5 DEF Stored
  <2> QED
    BY <2>1, <1>5 DEF AdvantagesInv, LinksFollow
<1>7. RequestsFollow'
  BY DEF AdvantagesInv, RequestsFollow
<1>8. AdvantagesPerEpisode'
  BY DEF AdvantagesPerEpisode
<1> QED
  BY <1>6, <1>7, <1>8 DEF AdvantagesInv

LEMMA AdvantagesPreLearn ==
  ASSUME AdvantagesInv, ReturnsInv', ArraysTyped', pre_learn
  PROVE  AdvantagesInv'
<1>1. /\ ChainInv /\ StoredSteps /\ ArraysTyped /\ LinksFollow /\ RequestsFollow /\ TypeInv
      /\ Shape(buffer) /\ Typed(buffer.rows)
  BY DEF AdvantagesInv, ReturnsInv, StatisticsInv, ChainInv, TypeInv, ArraysTyped
<1>2. /\ buffer' = compute_advantages_and_returns(buffer)
      /\ UNCHANGED <<story, treatTruncatedAsDone>>
  BY DEF pre_learn
<1>3. /\ buffer'.requests = buffer.requests
      /\ \A i \in Indices : /\ buffer'.rows[i].next_index = buffer.rows[i].next_index
                            /\ buffer'.rows[i].step = buffer.rows[i].step
                            /\ buffer'.rows[i].ends = buffer.rows[i].ends
                            /\ buffer'.rows[i].advantage
                                 = Backwards(bootstrapped(buffer), buffer.idx)[i]
  BY <1>1, <1>2, ComputeKeeps, ComputeTyped
<1>4. \A e \in Envs : \A p \in DOMAIN story[e] :
        Stored(e, p) => story[e][p].at \in Indices
  BY <1>1, StoryEntry DEF Stored
<1>5. LinksFollow'
  BY <1>1, <1>2, <1>3, <1>4 DEF LinksFollow, Stored
<1>6. RequestsFollow'
  <2>1. \A r \in DOMAIN buffer.requests : buffer.requests[r].end_node.idx \in Indices
    BY <1>1, BufferAssumption DEF ChainInv, RequestsCurrent, Shape, Indices
  <2> QED
    BY <1>1, <1>3, <2>1 DEF RequestsFollow
<1>7. ASSUME NEW e \in Envs, NEW p \in DOMAIN story[e], Stored(e, p)
      PROVE  buffer'.rows[story[e][p].at].advantage = EpisodeAdvantage(e, p)
  BY <1>1, <1>3, <1>4, <1>7, AdvantagesComputed
<1>8. \A e \in Envs : \A p :
        EpisodeAdvantage(e, p)' = EpisodeAdvantage(e, p) /\ Stored(e, p)' = Stored(e, p)
  BY <1>2 DEF EpisodeAdvantage, LastStep, DeltaOf, Ends, Stored
<1>9. AdvantagesPerEpisode'
  BY <1>2, <1>7, <1>8 DEF AdvantagesPerEpisode
<1> QED
  BY <1>5, <1>6, <1>9 DEF AdvantagesInv

LEMMA AdvantagesPostLearn ==
  ASSUME AdvantagesInv, ReturnsInv', ArraysTyped', post_learn
  PROVE  AdvantagesInv'
<1>1. Shape(buffer)
  BY DEF AdvantagesInv, ReturnsInv, StatisticsInv, ChainInv, TypeInv
<1>2. buffer'.requests = <<>> /\ phase' = "collect" /\ story' = [e \in Envs |-> <<>>]
  BY <1>1, ResetShape DEF post_learn
<1> QED
  BY <1>2 DEF AdvantagesInv, LinksFollow, RequestsFollow, AdvantagesPerEpisode

LEMMA AdvantagesStep ==
  ASSUME AdvantagesInv, [Next]_vars
  PROVE  AdvantagesInv'
<1>1. ReturnsInv' /\ ArraysTyped'
  BY ReturnsStep, ArraysStep DEF AdvantagesInv, ReturnsInv, StatisticsInv
<1>2. ASSUME NEW e \in Envs, NEW ends \in Outcomes, feedback(e, ends)
      PROVE  AdvantagesInv'
  <2>1. LinksFollow' /\ RequestsFollow'
    BY <1>2, LinksFeedback, RequestsFeedback
  <2>2. phase' = "collect"
    BY <1>2 DEF feedback
  <2> QED
    BY <1>1, <2>1, <2>2 DEF AdvantagesInv, AdvantagesPerEpisode
<1>3. ASSUME NEW e \in Envs, NEW ends \in Outcomes, discard_feedback(e, ends)
      PROVE  AdvantagesInv'
  BY <1>1, <1>3, AdvantagesLost DEF discard_feedback
<1>4. ASSUME NEW e \in Envs, Reconnect(e) PROVE AdvantagesInv'
  BY <1>1, <1>4, AdvantagesLost DEF Reconnect
<1>5. CASE pre_learn
  BY <1>1, <1>5, AdvantagesPreLearn
<1>6. CASE post_learn
  BY <1>1, <1>6, AdvantagesPostLearn
<1>7. CASE UNCHANGED vars
  <2>1. LinksFollow' /\ RequestsFollow'
    BY <1>7 DEF AdvantagesInv, LinksFollow, RequestsFollow, Stored
  <2>2. \A e \in Envs : \A p : EpisodeAdvantage(e, p)' = EpisodeAdvantage(e, p)
    BY <1>7 DEF EpisodeAdvantage, LastStep, DeltaOf, Ends, Stored
  <2>3. AdvantagesPerEpisode'
    BY <1>7, <2>2 DEF AdvantagesInv, AdvantagesPerEpisode, Stored
  <2> QED
    BY <1>1, <2>1, <2>3 DEF AdvantagesInv
<1> QED
  BY <1>2, <1>3, <1>4, <1>5, <1>6, <1>7 DEF Next

(* GAE is right for every interleaving: the walk backwards over the array, *)
(* along chains that cross each other, gives every frame the sum of the    *)
(* deltas of its own environment's steps up to the end of its episode or   *)
(* of what is stored of it, for any number of environments, any buffer,    *)
(* any order of frames, and wherever feedback is discarded or a client     *)
(* replaced (GAEBuffer.compute_advantages_and_returns).                    *)
THEOREM AdvantagesPerEpisodeHolds == Spec => []AdvantagesPerEpisode
<1>1. Init => AdvantagesInv
  BY AdvantagesInit
<1>2. AdvantagesInv /\ [Next]_vars => AdvantagesInv'
  BY AdvantagesStep
<1>3. AdvantagesInv => AdvantagesPerEpisode
  BY DEF AdvantagesInv
<1> QED
  BY <1>1, <1>2, <1>3, PTL DEF Spec

=============================================================================
