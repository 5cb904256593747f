----------------------------- MODULE ExpiryHeap -----------------------------
(***************************************************************************)
(* The indexed min-heap by which the in-memory OIDC vault store keeps its  *)
(* DPoP proof reservations and logout tickets                              *)
(* (packages/express-oidc-vault-memory-store/src/dpop-replay.ts and        *)
(* logout-tickets.ts, which hold the same code).                           *)
(*                                                                         *)
(* A heap is a sequence of nodes with an ID and a deadline, the node at i  *)
(* above those at 2i and 2i + 1.  The code also has a Map from ID to node  *)
(* and the index of each node; here both are read off the sequence.        *)
(***************************************************************************)
EXTENDS Naturals, Sequences

CONSTANT CleanBatch   \* expired nodes one call may clean up, 64 in the code

ASSUME CleanAssumption == CleanBatch \in Nat \ {0}

\* A loop: the state after n turns, for a Turn that leaves a finished one alone.
Turns(Turn(_), start, n) ==
  LET after[k \in 0 .. n] == IF k = 0 THEN start ELSE Turn(after[k - 1]) IN after[n]

Later(heap, i, j) == heap[i].expiresAt > heap[j].expiresAt

swap(heap, i, j) == [heap EXCEPT ![i] = heap[j], ![j] = heap[i]]

(***************************************************************************)
(* moveUp and moveDown, on a heap and the position of the moving node.     *)
(***************************************************************************)
Rise(s) ==
  IF s.at > 1 /\ Later(s.heap, s.at \div 2, s.at)
  THEN [heap |-> swap(s.heap, s.at \div 2, s.at), at |-> s.at \div 2]
  ELSE s

moveUp(s) == Turns(Rise, s, Len(s.heap))

EarlierChild(heap, i) ==
  IF 2 * i < Len(heap) /\ Later(heap, 2 * i, 2 * i + 1) THEN 2 * i + 1 ELSE 2 * i

Sink(s) ==
  LET child == EarlierChild(s.heap, s.at) IN
  IF 2 * s.at <= Len(s.heap) /\ Later(s.heap, s.at, child)
  THEN [heap |-> swap(s.heap, s.at, child), at |-> child]
  ELSE s

moveDown(s) == Turns(Sink, s, Len(s.heap))

push(heap, node) == moveUp([heap |-> Append(heap, node), at |-> Len(heap) + 1]).heap

\* A faulty removal: the node that fills the gap only ever moves down.
RemoveAndSink(heap, i) ==
  LET rest == SubSeq(heap, 1, Len(heap) - 1) IN
  IF i = Len(heap) THEN rest
  ELSE moveDown([heap |-> [rest EXCEPT ![i] = heap[Len(heap)]], at |-> i]).heap

\* The last node fills the gap, and moves up or down from there.
remove(heap, i) ==
  LET rest == SubSeq(heap, 1, Len(heap) - 1) IN
  IF i = Len(heap) THEN rest
  ELSE moveDown(moveUp([heap |-> [rest EXCEPT ![i] = heap[Len(heap)]], at |-> i])).heap

(***************************************************************************)
(* The node of an ID, its removal, and the bounded clean-up from the top.  *)
(***************************************************************************)
IdsOf(heap) == {heap[i].id : i \in DOMAIN heap}

NodeOf(heap, id) == heap[CHOOSE i \in DOMAIN heap : heap[i].id = id]

RemoveId(heap, id) ==
  IF id \in IdsOf(heap)
  THEN remove(heap, CHOOSE i \in DOMAIN heap : heap[i].id = id)
  ELSE heap

cleanup(heap, time) ==
  LET CleanOne(h) == IF h # << >> /\ h[1].expiresAt <= time THEN remove(h, 1) ELSE h
  IN  Turns(CleanOne, heap, CleanBatch)

\* One node per ID, and none later than those below it.
InOrder(heap) ==
  /\ \A i, j \in DOMAIN heap : heap[i].id = heap[j].id => i = j
  /\ \A i \in DOMAIN heap \ {1} : ~Later(heap, i \div 2, i)
=============================================================================
