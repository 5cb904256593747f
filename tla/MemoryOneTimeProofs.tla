------------------------ MODULE MemoryOneTimeProofs ------------------------
(***************************************************************************)
(* Proofs about the one-time records of the in-memory vault store, for     *)
(* every set of IDs, records and matches, every limit and every size of a  *)
(* sweep and of a clean-up:                                                *)
(*                                                                         *)
(*   TypeCorrect   the type invariant, with the order of the heaps;        *)
(*   Implements    the store implements OneTimeStore.                      *)
(*                                                                         *)
(* The argument has four parts.  Loops: a property that every turn passes  *)
(* on holds when the loop ends, by the least turn that would break it.     *)
(* Heaps: while a node moves, the order is in doubt only around it, so     *)
(* push, remove and the clean-up keep a heap in order and do to its set of *)
(* nodes what they should.  Maps: what callers can obtain after a deletion *)
(* or a store, and of a heap read as a Map.  Steps: every call is one of   *)
(* the abstract store.                                                     *)
(***************************************************************************)
EXTENDS MemoryOneTime, WellFoundedInduction, FiniteSetTheorems, SequenceTheorems, TLAPS

\* A non-empty set of natural numbers has a least element.
LEMMA Least ==
  ASSUME NEW T, T \subseteq Nat, T # {}
  PROVE  \E x \in T : \A y \in T : ~(y < x)
<1> DEFINE R == {ss \in Nat \X Nat : ss[1] < ss[2]}
<1>1. R = OpToRel(<, Nat)  BY DEF OpToRel
<1>2. IsWellFoundedOn(R, Nat)  BY <1>1, NatLessThanWellFounded
<1>3. PICK x \in T : \A y \in T : ~(<<y, x>> \in R)  BY <1>2, WFMin
<1> QED BY <1>3

\* What holds at 0 and goes from one number to the next holds up to n.
LEMMA Induction ==
  ASSUME NEW n \in Nat, NEW T, 0 \in T, \A k \in 1 .. n : k - 1 \in T => k \in T
  PROVE  \A k \in 0 .. n : k \in T
<1> DEFINE Bad == (0 .. n) \ T
<1> SUFFICES ASSUME Bad # {} PROVE FALSE OBVIOUS
<1>1. Bad \subseteq Nat  OBVIOUS
<1>2. \A x \in Bad : x \in 1 .. n  OBVIOUS
<1>3. \A x \in Bad : x - 1 \in Bad  OBVIOUS
<1> HIDE DEF Bad
<1>4. PICK x \in Bad : \A y \in Bad : ~(y < x)  BY <1>1, Least
<1> QED BY <1>1, <1>2, <1>3, <1>4

(***************************************************************************)
(* A loop has a history: the states after each of its turns.               *)
(***************************************************************************)
IsHistory(after, S, turn, start, n) ==
  /\ after \in [0 .. n -> S]
  /\ after[0] = start
  /\ \A k \in 1 .. n : after[k] = turn[after[k - 1]]

\* A loop whose turn stays in S has a history.
LEMMA History ==
  ASSUME NEW S, NEW turn \in [S -> S], NEW start \in S, NEW n \in Nat
  PROVE  \E after : IsHistory(after, S, turn, start, n)
<1> DEFINE T == {k \in Nat : \E after \in [0 .. k -> S] :
                   /\ after[0] = start
                   /\ \A j \in 1 .. k : after[j] = turn[after[j - 1]]}
<1>1. 0 \in T
  <2> DEFINE after == [j \in 0 .. 0 |-> start]
  <2>1. after \in [0 .. 0 -> S] /\ after[0] = start  OBVIOUS
  <2>2. \A j \in 1 .. 0 : after[j] = turn[after[j - 1]]  OBVIOUS
  <2> HIDE DEF after
  <2> QED BY <2>1, <2>2
<1>2. ASSUME NEW k \in 1 .. n, k - 1 \in T  PROVE k \in T
  <2>1. PICK before \in [0 .. k - 1 -> S] :
          /\ before[0] = start
          /\ \A j \in 1 .. k - 1 : before[j] = turn[before[j - 1]]
    BY <1>2
  <2> DEFINE after == [j \in 0 .. k |-> IF j = k THEN turn[before[k - 1]] ELSE before[j]]
  <2>2. after \in [0 .. k -> S] /\ after[0] = start  BY <2>1
  <2>3. \A j \in 1 .. k : after[j] = turn[after[j - 1]]  BY <2>1
  <2> HIDE DEF after
  <2>4. k \in Nat  OBVIOUS
  <2> QED BY <2>2, <2>3, <2>4
<1> HIDE DEF T
<1>3. n \in T  BY <1>1, <1>2, Induction
<1> QED BY <1>3 DEF T, IsHistory

(***************************************************************************)
(* The rule for the three loops: what holds before the first turn and is   *)
(* carried from each turn to the next holds after the last.                *)
(***************************************************************************)
LEMMA RiseLoop ==
  ASSUME NEW S, NEW J, NEW n \in Nat, NEW start \in S, start \in J[0],
         \A s \in S : Rise(s) \in S,
         \A k \in 1 .. n : \A s \in S : s \in J[k - 1] => Rise(s) \in J[k]
  PROVE  Turns(Rise, start, n) \in S /\ Turns(Rise, start, n) \in J[n]
<1> DEFINE Is(g) == g = [k \in 0 .. n |-> IF k = 0 THEN start ELSE Rise(g[k - 1])]
<1>1. PICK turn \in [S -> S] : \A s \in S : turn[s] = Rise(s)
  <2> WITNESS [s \in S |-> Rise(s)] \in [S -> S]
  <2> QED OBVIOUS
<1>2. PICK first : IsHistory(first, S, turn, start, n)  BY History
<1>3. \A k \in 1 .. n : first[k] = Rise(first[k - 1])  BY <1>1, <1>2 DEF IsHistory
<1>4. Is(first)
  <2>1. \A k \in 0 .. n : first[k] = IF k = 0 THEN start ELSE Rise(first[k - 1])
    BY <1>2, <1>3 DEF IsHistory
  <2> QED BY <1>2, <2>1 DEF IsHistory
<1> DEFINE after == CHOOSE g : Is(g)
<1>5. Is(after)  BY <1>4
<1>6. Turns(Rise, start, n) = after[n]  BY DEF Turns
<1> HIDE DEF after
<1>7. after[0] = start /\ \A k \in 1 .. n : after[k] = Rise(after[k - 1])  BY <1>5
<1> DEFINE T == {k \in Nat : after[k] \in S /\ after[k] \in J[k]}
<1>8. 0 \in T  BY <1>7
<1>9. \A k \in 1 .. n : k - 1 \in T => k \in T  BY <1>7
<1> HIDE DEF T
<1>10. n \in T  BY <1>8, <1>9, Induction
<1> QED BY <1>6, <1>10 DEF T

\* The same for the turns of moveDown.
LEMMA SinkLoop ==
  ASSUME NEW S, NEW J, NEW n \in Nat, NEW start \in S, start \in J[0],
         \A s \in S : Sink(s) \in S,
         \A k \in 1 .. n : \A s \in S : s \in J[k - 1] => Sink(s) \in J[k]
  PROVE  Turns(Sink, start, n) \in S /\ Turns(Sink, start, n) \in J[n]
<1> DEFINE Is(g) == g = [k \in 0 .. n |-> IF k = 0 THEN start ELSE Sink(g[k - 1])]
<1>1. PICK turn \in [S -> S] : \A s \in S : turn[s] = Sink(s)
  <2> WITNESS [s \in S |-> Sink(s)] \in [S -> S]
  <2> QED OBVIOUS
<1>2. PICK first : IsHistory(first, S, turn, start, n)  BY History
<1>3. \A k \in 1 .. n : first[k] = Sink(first[k - 1])  BY <1>1, <1>2 DEF IsHistory
<1>4. Is(first)
  <2>1. \A k \in 0 .. n : first[k] = IF k = 0 THEN start ELSE Sink(first[k - 1])
    BY <1>2, <1>3 DEF IsHistory
  <2> QED BY <1>2, <2>1 DEF IsHistory
<1> DEFINE after == CHOOSE g : Is(g)
<1>5. Is(after)  BY <1>4
<1>6. Turns(Sink, start, n) = after[n]  BY DEF Turns
<1> HIDE DEF after
<1>7. after[0] = start /\ \A k \in 1 .. n : after[k] = Sink(after[k - 1])  BY <1>5
<1> DEFINE T == {k \in Nat : after[k] \in S /\ after[k] \in J[k]}
<1>8. 0 \in T  BY <1>7
<1>9. \A k \in 1 .. n : k - 1 \in T => k \in T  BY <1>7
<1> HIDE DEF T
<1>10. n \in T  BY <1>8, <1>9, Induction
<1> QED BY <1>6, <1>10 DEF T

CleanOne(time, heap) ==
  IF heap # << >> /\ heap[1].expiresAt <= time THEN remove(heap, 1) ELSE heap

\* The same for the turns of a clean-up, of which the code makes at most CleanBatch.
LEMMA CleanLoop ==
  ASSUME NEW S, NEW J, NEW n \in Nat, NEW start \in S, start \in J[0], NEW time, n = CleanBatch,
         \A s \in S : CleanOne(time, s) \in S,
         \A k \in 1 .. n : \A s \in S : s \in J[k - 1] => CleanOne(time, s) \in J[k]
  PROVE  cleanup(start, time) \in S /\ cleanup(start, time) \in J[n]
<1> DEFINE Is(g) == g = [k \in 0 .. n |-> IF k = 0 THEN start ELSE CleanOne(time, g[k - 1])]
<1>1. PICK turn \in [S -> S] : \A s \in S : turn[s] = CleanOne(time, s)
  <2> WITNESS [s \in S |-> CleanOne(time, s)] \in [S -> S]
  <2> QED OBVIOUS
<1>2. PICK first : IsHistory(first, S, turn, start, n)  BY History
<1>3. \A k \in 1 .. n : first[k] = CleanOne(time, first[k - 1])  BY <1>1, <1>2 DEF IsHistory
<1>4. Is(first)
  <2>1. \A k \in 0 .. n : first[k] = IF k = 0 THEN start ELSE CleanOne(time, first[k - 1])
    BY <1>2, <1>3 DEF IsHistory
  <2> QED BY <1>2, <2>1 DEF IsHistory
<1> DEFINE after == CHOOSE g : Is(g)
<1>5. Is(after)  BY <1>4
<1>6. cleanup(start, time) = after[n]  BY DEF Turns, cleanup, CleanOne
<1> HIDE DEF after
<1>7. after[0] = start /\ \A k \in 1 .. n : after[k] = CleanOne(time, after[k - 1])  BY <1>5
<1> DEFINE T == {k \in Nat : after[k] \in S /\ after[k] \in J[k]}
<1>8. 0 \in T  BY <1>7
<1>9. \A k \in 1 .. n : k - 1 \in T => k \in T  BY <1>7
<1> HIDE DEF T
<1>10. n \in T  BY <1>8, <1>9, Induction
<1> QED BY <1>6, <1>10 DEF T

----------------------------------------------------------------------------
(***************************************************************************)
(* The order of a heap, on the deadlines e of its m nodes.  A node at i    *)
(* has its parent at up[i].  While a node moves, only the order between it *)
(* and its neighbours is in doubt (Else), and its parent is not later than *)
(* its children (Across).                                                  *)
(***************************************************************************)
Else(e, up, m, at) == \A i \in 2 .. m : i # at /\ up[i] # at => e[up[i]] <= e[i]

Across(e, up, m, at) == at > 1 => \A i \in 2 .. m : up[i] = at => e[up[at]] <= e[i]

Above(e, up, at) == at > 1 => e[up[at]] <= e[at]

Below(e, up, m, at) == \A i \in 2 .. m : up[i] = at => e[at] <= e[i]

Exchanged(e, f, m, i, j) ==
  /\ f[i] = e[j] /\ f[j] = e[i]
  /\ \A k \in 1 .. m : k # i /\ k # j => f[k] = e[k]

\* The nodes' parents in a heap of m.
IsTree(up, m) == up \in [2 .. m -> 1 .. m] /\ \A i \in 2 .. m : up[i] < i

\* Three ascending positions differ.
LEMMA Ascending == \A i, j, k \in Nat : i < j /\ j < k => i # j /\ i # k /\ j # k
  OBVIOUS

\* The parent of a position is a lower position.
LEMMA Parent ==
  ASSUME NEW m \in Nat, NEW up, IsTree(up, m), NEW i \in 2 .. m
  PROVE  \E u \in 1 .. m : u = up[i] /\ u < i
  BY DEF IsTree

\* A place that the doubt does not touch is in order.
LEMMA ElseAt ==
  ASSUME NEW m \in Nat, NEW e, NEW up, NEW at, Else(e, up, m, at),
         NEW i \in 2 .. m, NEW u, u = up[i], i # at, u # at
  PROVE  e[u] <= e[i]
  BY DEF Else

(***************************************************************************)
(* One place up: the doubt moves with the node, and what it leaves behind  *)
(* and below it is in order.                                               *)
(***************************************************************************)
LEMMA RiseOrder ==
  ASSUME NEW m \in Nat, NEW up, IsTree(up, m),
         NEW e \in [1 .. m -> Nat], NEW f \in [1 .. m -> Nat],
         NEW at \in 2 .. m, NEW p \in 1 .. m, p = up[at],
         Else(e, up, m, at), Across(e, up, m, at), e[p] > e[at], Exchanged(e, f, m, p, at)
  PROVE  Else(f, up, m, p) /\ Across(f, up, m, p) /\ (Below(e, up, m, at) => Below(f, up, m, p))
<1>1. p < at  BY Parent
<1>2. f[p] = e[at] /\ f[at] = e[p] /\ \A k \in 1 .. m : k # p /\ k # at => f[k] = e[k]
  BY DEF Exchanged
<1>3. Else(f, up, m, p)
  <2> SUFFICES ASSUME NEW i \in 2 .. m, i # p, up[i] # p  PROVE f[up[i]] <= f[i]
    BY DEF Else
  <2>1. PICK u \in 1 .. m : u = up[i] /\ u < i  BY Parent
  <2>2. i # at /\ u # p  BY <2>1
  <2>3. f[i] = e[i]  BY <1>2, <2>2
  <2>4. CASE u = at
    <3>1. at > 1  OBVIOUS
    <3>2. e[p] <= e[i]  BY <2>1, <2>4, <3>1, Zenon DEF Across
    <3> QED BY <1>2, <2>1, <2>3, <2>4, <3>2, Zenon
  <2>5. CASE u # at
    <3>1. f[u] = e[u]  BY <1>2, <2>2, <2>5
    <3>2. e[u] <= e[i]  BY <2>1, <2>2, <2>5, ElseAt
    <3> QED BY <2>1, <2>3, <3>1, <3>2
  <2> QED BY <2>4, <2>5
<1>4. Across(f, up, m, p)
  <2> SUFFICES ASSUME p > 1, NEW i \in 2 .. m, up[i] = p  PROVE f[up[p]] <= f[i]
    BY DEF Across
  <2>1. p \in 2 .. m  OBVIOUS
  <2>2. PICK g \in 1 .. m : g = up[p] /\ g < p  BY <2>1, Parent
  <2>3. g # p /\ g # at /\ p # at
    <3>1. g < p  BY <2>2, Zenon
    <3>2. g \in Nat /\ p \in Nat /\ at \in Nat  OBVIOUS
    <3> QED BY <1>1, <3>1, <3>2, Ascending, Zenon
  <2>4. f[g] = e[g]  BY <1>2, <2>2, <2>3, Zenon
  <2>5. e[g] <= e[p]  BY <2>1, <2>2, <2>3, ElseAt, Zenon
  <2>6. f[g] <= f[i]
    <3>1. CASE i = at  BY <1>2, <2>4, <2>5, <3>1, Zenon
    <3>2. CASE i # at
      <4>1. i # p  BY Parent
      <4>2. f[i] = e[i]  BY <1>2, <3>2, <4>1
      <4>3. e[p] <= e[i]  BY <2>3, <3>2, ElseAt, Zenon
      <4>4. e[g] \in Nat /\ e[p] \in Nat /\ e[i] \in Nat  OBVIOUS
      <4> QED BY <2>4, <2>5, <4>2, <4>3, <4>4
    <3> QED BY <3>1, <3>2
  <2> QED BY <2>2, <2>6
<1>5. ASSUME Below(e, up, m, at)  PROVE Below(f, up, m, p)
  <2> SUFFICES ASSUME NEW i \in 2 .. m, up[i] = p  PROVE f[p] <= f[i]
    BY DEF Below
  <2>1. CASE i = at  BY <1>2, <2>1
  <2>2. CASE i # at
    <3>1. i # p  BY Parent
    <3>2. f[i] = e[i]  BY <1>2, <2>2, <3>1
    <3>3. p # at  BY <1>1
    <3>4. e[p] <= e[i]  BY <2>2, <3>3, ElseAt, Zenon
    <3> QED BY <1>2, <3>2, <3>4
  <2> QED BY <2>1, <2>2
<1> QED BY <1>3, <1>4, <1>5

(***************************************************************************)
(* One place down, to the earlier child.                                   *)
(***************************************************************************)
LEMMA SinkOrder ==
  ASSUME NEW m \in Nat, NEW up, IsTree(up, m),
         NEW e \in [1 .. m -> Nat], NEW f \in [1 .. m -> Nat],
         NEW at \in 1 .. m, NEW child \in 2 .. m, up[child] = at,
         \A i \in 2 .. m : up[i] = at => e[child] <= e[i],
         Else(e, up, m, at), Across(e, up, m, at), e[at] > e[child],
         Exchanged(e, f, m, at, child)
  PROVE  Else(f, up, m, child) /\ Across(f, up, m, child) /\ Above(f, up, child)
<1>1. at < child  BY Parent
<1>2. f[at] = e[child] /\ f[child] = e[at]
      /\ \A k \in 1 .. m : k # at /\ k # child => f[k] = e[k]
  BY DEF Exchanged
<1>3. Else(f, up, m, child)
  <2> SUFFICES ASSUME NEW i \in 2 .. m, i # child, up[i] # child  PROVE f[up[i]] <= f[i]
    BY DEF Else
  <2>1. PICK u \in 1 .. m : u = up[i] /\ u < i  BY Parent
  <2>2. f[u] <= f[i]
    <3>1. CASE i = at
      <4>1. f[u] = e[u]  BY <1>1, <1>2, <2>1, <3>1
      <4>2. e[u] <= e[child]  BY <2>1, <3>1 DEF Across
      <4> QED BY <1>2, <3>1, <4>1, <4>2
    <3>2. CASE i # at /\ u = at
      <4>1. f[i] = e[i]  BY <1>2, <3>2
      <4>2. e[child] <= e[i]  BY <2>1, <3>2
      <4> QED BY <1>2, <3>2, <4>1, <4>2
    <3>3. CASE i # at /\ u # at
      <4>1. f[i] = e[i]  BY <1>2, <3>3
      <4>2. f[u] = e[u]  BY <1>2, <2>1, <3>3
      <4>3. e[u] <= e[i]  BY <2>1, <3>3, ElseAt
      <4> QED BY <4>1, <4>2, <4>3
    <3> QED BY <3>1, <3>2, <3>3
  <2> QED BY <2>1, <2>2
<1>4. Across(f, up, m, child)
  <2> SUFFICES ASSUME NEW i \in 2 .. m, up[i] = child  PROVE f[at] <= f[i]
    BY DEF Across
  <2>1. child < i  BY Parent
  <2>2. f[i] = e[i]  BY <1>1, <1>2, <2>1
  <2>3. child # at /\ i # at  BY <1>1, <2>1
  <2>4. e[child] <= e[i]  BY <2>3, ElseAt, Zenon
  <2> QED BY <1>2, <2>2, <2>4, Zenon
<1>5. Above(f, up, child)  BY <1>2 DEF Above
<1> QED BY <1>3, <1>4, <1>5
----------------------------------------------------------------------------
(***************************************************************************)
(* Heaps of nodes with IDs in I.                                           *)
(***************************************************************************)
Node(I) == [id : I, expiresAt : Nat]

Heap(I, m) == {h \in Seq(Node(I)) : Len(h) = m}

Keys(h) == [i \in 1 .. Len(h) |-> h[i].expiresAt]

Parents(m) == [i \in 2 .. m |-> i \div 2]

Nodes(h) == {h[i] : i \in 1 .. Len(h)}

Distinct(h) == \A i, j \in 1 .. Len(h) : h[i].id = h[j].id => i = j

Whole(e, up, m) == \A i \in 2 .. m : e[up[i]] <= e[i]

\* The parents of a heap, i \div 2, make a tree.
LEMMA Tree == \A m \in Nat : IsTree(Parents(m), m)
<1> SUFFICES ASSUME NEW m \in Nat PROVE IsTree(Parents(m), m)  OBVIOUS
<1>1. \A i \in 2 .. m : i \div 2 \in 1 .. m /\ i \div 2 < i  BY SMT
<1> QED BY <1>1 DEF IsTree, Parents

\* The deadlines of a heap, by position.
LEMMA KeysType ==
  ASSUME NEW I, NEW m \in Nat, NEW h \in Heap(I, m)
  PROVE  /\ Keys(h) \in [1 .. m -> Nat]
         /\ \A i \in 1 .. m : Keys(h)[i] = h[i].expiresAt /\ h[i] \in Node(I)
         /\ DOMAIN h = 1 .. m /\ Len(h) = m
<1>1. h \in Seq(Node(I)) /\ Len(h) = m  BY DEF Heap
<1>2. \A i \in 1 .. m : h[i] \in Node(I)  BY <1>1
<1>3. \A i \in 1 .. m : h[i].expiresAt \in Nat  BY <1>2 DEF Node
<1> QED BY <1>1, <1>2, <1>3 DEF Keys

\* InOrder, in terms of the deadlines and the parents: nothing of the order is in doubt.
LEMMA OrderedHeap ==
  ASSUME NEW I, NEW m \in Nat, NEW h \in Heap(I, m)
  PROVE  InOrder(h) <=> Distinct(h) /\ Whole(Keys(h), Parents(m), m)
<1>1. /\ \A i \in 1 .. m : Keys(h)[i] = h[i].expiresAt /\ Keys(h)[i] \in Nat
      /\ DOMAIN h = 1 .. m /\ Len(h) = m
  BY KeysType
<1>2. (\A i, j \in DOMAIN h : h[i].id = h[j].id => i = j) <=> Distinct(h)
  BY <1>1 DEF Distinct
<1>3. \A i \in 2 .. m : i \div 2 \in 1 .. m /\ i \div 2 = Parents(m)[i] /\ i \in 1 .. m
  BY SMT DEF Parents
<1>4. DOMAIN h \ {1} = 2 .. m  BY <1>1
<1>5. \A i \in 2 .. m : ~Later(h, i \div 2, i) <=> Keys(h)[Parents(m)[i]] <= Keys(h)[i]
  <2> SUFFICES ASSUME NEW i \in 2 .. m
               PROVE  ~Later(h, i \div 2, i) <=> Keys(h)[Parents(m)[i]] <= Keys(h)[i]
    OBVIOUS
  <2>1. PICK u \in 1 .. m : u = i \div 2 /\ u = Parents(m)[i]  BY <1>3
  <2>2. Keys(h)[u] = h[u].expiresAt /\ Keys(h)[u] \in Nat  BY <1>1
  <2>3. Keys(h)[i] = h[i].expiresAt /\ Keys(h)[i] \in Nat  BY <1>1, <1>3
  <2>4. ~(h[u].expiresAt > h[i].expiresAt) <=> Keys(h)[u] <= Keys(h)[i]  BY <2>2, <2>3
  <2> QED BY <2>1, <2>4 DEF Later
<1>6. (\A i \in 2 .. m : ~Later(h, i \div 2, i)) <=> Whole(Keys(h), Parents(m), m)
  BY <1>5 DEF Whole
<1> QED BY <1>2, <1>4, <1>6 DEF InOrder

(***************************************************************************)
(* swap changes places, and keeps the nodes.                               *)
(***************************************************************************)
LEMMA Swapping ==
  ASSUME NEW I, NEW m \in Nat, NEW h \in Heap(I, m), NEW i \in 1 .. m, NEW j \in 1 .. m, i # j
  PROVE  /\ swap(h, i, j) \in Heap(I, m)
         /\ Nodes(swap(h, i, j)) = Nodes(h)
         /\ Distinct(h) => Distinct(swap(h, i, j))
         /\ Exchanged(Keys(h), Keys(swap(h, i, j)), m, i, j)
<1> DEFINE g == swap(h, i, j)
<1>1. h \in Seq(Node(I)) /\ Len(h) = m /\ DOMAIN h = 1 .. m  BY KeysType DEF Heap
<1>2. \A k \in 1 .. m : h[k] \in Node(I)  BY KeysType
<1>3. DOMAIN g = 1 .. m  BY <1>1 DEF swap
<1>4. g[i] = h[j] /\ g[j] = h[i] /\ \A k \in 1 .. m : k # i /\ k # j => g[k] = h[k]
  BY <1>1 DEF swap
<1>5. g \in Seq(Node(I)) /\ Len(g) = m
  <2>1. g = [k \in 1 .. m |-> g[k]]  BY <1>3 DEF swap
  <2>2. \A k \in 1 .. m : g[k] \in Node(I)  BY <1>2, <1>4
  <2> HIDE DEF g
  <2>3. g \in [1 .. m -> Node(I)]  BY <2>1, <2>2
  <2> QED BY <2>3
<1> HIDE DEF g
<1>6. g \in Heap(I, m)  BY <1>5 DEF Heap
<1>7. Nodes(g) = Nodes(h)
  <2>1. ASSUME NEW x \in Nodes(g) PROVE x \in Nodes(h)
    <3>1. PICK k \in 1 .. m : x = g[k]  BY <1>5 DEF Nodes
    <3>2. \E l \in 1 .. m : x = h[l]  BY <1>4, <3>1
    <3> QED BY <1>1, <3>2 DEF Nodes
  <2>2. ASSUME NEW x \in Nodes(h) PROVE x \in Nodes(g)
    <3>1. PICK k \in 1 .. m : x = h[k]  BY <1>1 DEF Nodes
    <3>2. \E l \in 1 .. m : x = g[l]  BY <1>4, <3>1
    <3> QED BY <1>5, <3>2 DEF Nodes
  <2> QED BY <2>1, <2>2
<1>8. ASSUME Distinct(h) PROVE Distinct(g)
  <2>1. \A k, l \in 1 .. m : h[k].id = h[l].id => k = l  BY <1>1, <1>8 DEF Distinct
  <2>2. \A k, l \in 1 .. m : g[k].id = g[l].id => k = l  BY <1>4, <2>1
  <2> QED BY <1>5, <2>2 DEF Distinct
<1>9. Exchanged(Keys(h), Keys(g), m, i, j)
  <2>1. \A k \in 1 .. m : Keys(h)[k] = h[k].expiresAt  BY KeysType
  <2>2. \A k \in 1 .. m : Keys(g)[k] = g[k].expiresAt  BY <1>6, KeysType
  <2> QED BY <1>4, <2>1, <2>2 DEF Exchanged
<1> QED BY <1>6, <1>7, <1>8, <1>9 DEF g
----------------------------------------------------------------------------
(***************************************************************************)
(* A heap with a node on the move, and the order of its nodes.             *)
(***************************************************************************)
Moving(I, m) == [heap : Heap(I, m), at : 1 .. m]

\* The nodes are those of h, in order but for the moving one.
Loose(s, h, m) ==
  /\ Nodes(s.heap) = Nodes(h)
  /\ Distinct(s.heap)
  /\ Else(Keys(s.heap), Parents(m), m, s.at)
  /\ Across(Keys(s.heap), Parents(m), m, s.at)

UpDone(s, m) == Above(Keys(s.heap), Parents(m), s.at)

DownDone(s, m) == Below(Keys(s.heap), Parents(m), m, s.at)

\* Settled above and below the moving node, a heap is in order.
LEMMA AllDone ==
  ASSUME NEW I, NEW m \in Nat, NEW s \in Moving(I, m), NEW h,
         Loose(s, h, m), UpDone(s, m), DownDone(s, m)
  PROVE  InOrder(s.heap)
<1>1. s.heap \in Heap(I, m) /\ s.at \in 1 .. m  BY DEF Moving
<1>2. \A i \in 2 .. m : Keys(s.heap)[Parents(m)[i]] <= Keys(s.heap)[i]
  <2> SUFFICES ASSUME NEW i \in 2 .. m
               PROVE  Keys(s.heap)[Parents(m)[i]] <= Keys(s.heap)[i]
    OBVIOUS
  <2>1. CASE i = s.at
    <3>1. s.at > 1  BY <2>1
    <3> QED BY <2>1, <3>1 DEF UpDone, Above
  <2>2. CASE Parents(m)[i] = s.at  BY <2>2, Zenon DEF DownDone, Below
  <2>3. CASE i # s.at /\ Parents(m)[i] # s.at  BY <2>3, Zenon DEF Loose, Else
  <2> QED BY <2>1, <2>2, <2>3
<1> QED BY <1>1, <1>2, OrderedHeap DEF Loose, Whole

(***************************************************************************)
(* One turn of moveUp: the node stays because it is in order with its      *)
(* parent, or goes up and is in order with what is below it if it was.     *)
(***************************************************************************)
LEMMA RiseTurn ==
  ASSUME NEW I, NEW m \in Nat, NEW s \in Moving(I, m)
  PROVE  /\ Rise(s) \in Moving(I, m)
         /\ \A h : Loose(s, h, m) =>
              /\ Loose(Rise(s), h, m)
              /\ DownDone(s, m) => DownDone(Rise(s), m)
              /\ \/ Rise(s) = s /\ UpDone(s, m)
                 \/ Rise(s).at < s.at /\ ~UpDone(s, m)
<1>1. s.heap \in Heap(I, m) /\ s.at \in 1 .. m  BY DEF Moving
<1>2. PICK at \in 1 .. m : at = s.at  BY <1>1
<1>3. PICK e \in [1 .. m -> Nat] : e = Keys(s.heap)  BY <1>1, KeysType
<1>4. \A i \in 1 .. m : e[i] = s.heap[i].expiresAt  BY <1>1, <1>3, KeysType
<1>5. IsTree(Parents(m), m)  BY Tree
<1>6. CASE at = 1
  <2>1. Rise(s) = s  BY <1>2, <1>6 DEF Rise
  <2>2. UpDone(s, m)  BY <1>2, <1>6 DEF UpDone, Above
  <2> QED BY <2>1, <2>2
<1>7. CASE at # 1
  <2>1. PICK p \in 1 .. m : p = at \div 2 /\ p < at /\ p = Parents(m)[at]
    BY <1>7, SMT DEF Parents
  <2>2. at \in 2 .. m /\ at > 1 /\ p # at  BY <1>7, <2>1
  <2>3. Later(s.heap, p, at) <=> e[p] > e[at]  BY <1>4 DEF Later
  <2>4. CASE Later(s.heap, p, at)
    <3>1. Rise(s) = [heap |-> swap(s.heap, p, at), at |-> p]
      BY <1>2, <2>1, <2>2, <2>4 DEF Rise
    <3>2. PICK g : g = swap(s.heap, p, at)  OBVIOUS
    <3>3. /\ g \in Heap(I, m) /\ Nodes(g) = Nodes(s.heap)
          /\ Distinct(s.heap) => Distinct(g)
          /\ Exchanged(Keys(s.heap), Keys(g), m, p, at)
      BY <1>1, <2>2, <3>2, Swapping
    <3>4. Rise(s).heap = g /\ Rise(s).at = p /\ Rise(s) \in Moving(I, m)
      BY <3>1, <3>2, <3>3 DEF Moving
    <3>5. Rise(s).at < s.at  BY <1>2, <2>1, <3>4
    <3>7. ~UpDone(s, m)
      <4>1. ~(e[p] <= e[at])  BY <2>3, <2>4
      <4> QED BY <1>2, <1>3, <2>1, <2>2, <4>1, Zenon DEF UpDone, Above
    <3>6. ASSUME NEW h, Loose(s, h, m)
          PROVE  Loose(Rise(s), h, m) /\ (DownDone(s, m) => DownDone(Rise(s), m))
      <4>1. PICK f \in [1 .. m -> Nat] : f = Keys(g)  BY <3>3, KeysType
      <4>2. Else(e, Parents(m), m, at) /\ Across(e, Parents(m), m, at)
        BY <1>2, <1>3, <3>6 DEF Loose
      <4>3. Exchanged(e, f, m, p, at) /\ e[p] > e[at]  BY <1>3, <2>3, <2>4, <3>3, <4>1
      <4>4. /\ Else(f, Parents(m), m, p) /\ Across(f, Parents(m), m, p)
            /\ Below(e, Parents(m), m, at) => Below(f, Parents(m), m, p)
        BY <1>5, <2>1, <2>2, <4>2, <4>3, RiseOrder
      <4>5. Loose(Rise(s), h, m)  BY <3>3, <3>4, <3>6, <4>1, <4>4 DEF Loose
      <4> QED BY <1>2, <1>3, <3>4, <4>1, <4>4, <4>5 DEF DownDone
    <3> QED BY <3>4, <3>5, <3>6, <3>7
  <2>5. CASE ~Later(s.heap, p, at)
    <3>1. Rise(s) = s  BY <1>2, <2>1, <2>5 DEF Rise
    <3>2. e[p] <= e[at]  BY <2>3, <2>5
    <3>3. UpDone(s, m)  BY <1>2, <1>3, <2>1, <3>2 DEF UpDone, Above
    <3> QED BY <3>1, <3>3
  <2> QED BY <2>4, <2>5
<1> QED BY <1>6, <1>7

\* moveUp settles the order above the moving node: it ends where it is not early.
LEMMA MovingUp ==
  ASSUME NEW I, NEW m \in Nat, NEW s \in Moving(I, m), NEW h, Loose(s, h, m)
  PROVE  /\ moveUp(s) \in Moving(I, m)
         /\ Loose(moveUp(s), h, m)
         /\ UpDone(moveUp(s), m)
         /\ DownDone(s, m) => DownDone(moveUp(s), m)
<1> DEFINE Inv(k, r) == /\ Loose(r, h, m)
                        /\ DownDone(s, m) => DownDone(r, m)
                        /\ UpDone(r, m) \/ r.at + k <= m
           J == [k \in 0 .. m |-> {r \in Moving(I, m) : Inv(k, r)}]
<1>1. \A r \in Moving(I, m) : Rise(r) \in Moving(I, m)  BY RiseTurn
<1>2. s \in J[0]
  <2>1. s.at \in 1 .. m  BY DEF Moving
  <2>2. s.at + 0 <= m  BY <2>1
  <2> QED BY <2>2
<1>3. ASSUME NEW k \in 1 .. m, NEW r \in Moving(I, m), r \in J[k - 1]  PROVE Rise(r) \in J[k]
  <2>1. Inv(k - 1, r)  BY <1>3
  <2>2. /\ Loose(Rise(r), h, m)
        /\ DownDone(r, m) => DownDone(Rise(r), m)
        /\ \/ Rise(r) = r /\ UpDone(r, m)
           \/ Rise(r).at < r.at /\ ~UpDone(r, m)
    BY <2>1, RiseTurn
  <2>3. Rise(r) \in Moving(I, m)  BY <1>1
  <2>4. r.at \in 1 .. m /\ Rise(r).at \in 1 .. m  BY <2>3 DEF Moving
  <2>5. ~UpDone(Rise(r), m) => Rise(r).at + k <= m
    <3>1. SUFFICES ASSUME ~UpDone(Rise(r), m) PROVE Rise(r).at + k <= m  OBVIOUS
    <3>2. r.at + (k - 1) <= m /\ Rise(r).at < r.at  BY <2>1, <2>2, <3>1
    <3> QED BY <2>4, <3>2
  <2> QED BY <2>1, <2>2, <2>3, <2>5
<1> HIDE DEF J
<1>4. Turns(Rise, s, m) \in Moving(I, m) /\ Turns(Rise, s, m) \in J[m]
  BY <1>1, <1>2, <1>3, RiseLoop
<1>5. moveUp(s) = Turns(Rise, s, m)  BY DEF moveUp, Moving, Heap
<1>6. PICK r \in Moving(I, m) : r = moveUp(s) /\ r \in J[m]  BY <1>4, <1>5
<1>7. Inv(m, r)  BY <1>6 DEF J
<1>8. r.at \in 1 .. m  BY DEF Moving
<1>9. UpDone(r, m)  BY <1>7, <1>8
<1> QED BY <1>6, <1>7, <1>9
(***************************************************************************)
(* One turn of moveDown, and the whole of it.                              *)
(***************************************************************************)
LEMMA Children ==
  ASSUME NEW m \in Nat, NEW a \in 1 .. m, NEW i \in 2 .. m
  PROVE  Parents(m)[i] = a <=> i = 2 * a \/ i = 2 * a + 1
<1>1. i \div 2 = a <=> i = 2 * a \/ i = 2 * a + 1  BY SMT
<1> QED BY <1>1 DEF Parents

\* A turn of moveDown keeps what is in order, and moves on unless it is done.
LEMMA SinkTurn ==
  ASSUME NEW I, NEW m \in Nat, NEW s \in Moving(I, m)
  PROVE  /\ Sink(s) \in Moving(I, m)
         /\ \A h : Loose(s, h, m) /\ UpDone(s, m) =>
              /\ Loose(Sink(s), h, m)
              /\ UpDone(Sink(s), m)
              /\ \/ Sink(s) = s /\ DownDone(s, m)
                 \/ Sink(s).at > s.at /\ ~DownDone(s, m)
<1>1. s.heap \in Heap(I, m) /\ s.at \in 1 .. m /\ Len(s.heap) = m  BY DEF Moving, Heap
<1>2. PICK at \in 1 .. m : at = s.at  BY <1>1
<1>3. PICK e \in [1 .. m -> Nat] : e = Keys(s.heap)  BY <1>1, KeysType
<1>4. \A i \in 1 .. m : e[i] = s.heap[i].expiresAt  BY <1>1, <1>3, KeysType
<1>5. \A i, j \in 1 .. m : Later(s.heap, i, j) <=> e[i] > e[j]  BY <1>4 DEF Later
<1>6. IsTree(Parents(m), m)  BY Tree
<1>7. CASE 2 * at > m
  <2>1. Sink(s) = s  BY <1>1, <1>2, <1>7 DEF Sink
  <2>2. \A i \in 2 .. m : Parents(m)[i] # at
    <3>1. SUFFICES ASSUME NEW i \in 2 .. m, Parents(m)[i] = at PROVE FALSE  OBVIOUS
    <3>2. i = 2 * at \/ i = 2 * at + 1  BY <3>1, Children
    <3> QED BY <1>7, <3>2
  <2>3. DownDone(s, m)  BY <1>2, <2>2 DEF DownDone, Below
  <2> QED BY <2>1, <2>3
<1>8. CASE 2 * at <= m
  <2>1. PICK c : c = EarlierChild(s.heap, at)  OBVIOUS
  <2>2. /\ c = 2 * at \/ (c = 2 * at + 1 /\ 2 * at < m)
        /\ 2 * at < m => IF e[2 * at] > e[2 * at + 1] THEN c = 2 * at + 1 ELSE c = 2 * at
    <3>1. 2 * at < m => (Later(s.heap, 2 * at, 2 * at + 1) <=> e[2 * at] > e[2 * at + 1])
      BY <1>5
    <3> QED BY <1>1, <2>1, <3>1 DEF EarlierChild
  <2>3. c \in 2 .. m /\ c > at /\ c \in 1 .. m /\ c # at  BY <1>8, <2>2
  <2>4. Parents(m)[c] = at  BY <2>2, <2>3, Children
  <2>5. \A i \in 2 .. m : Parents(m)[i] = at => e[c] <= e[i]
    <3>1. SUFFICES ASSUME NEW i \in 2 .. m, Parents(m)[i] = at PROVE e[c] <= e[i]  OBVIOUS
    <3>2. i = 2 * at \/ i = 2 * at + 1  BY <3>1, Children
    <3>3. i \in 1 .. m /\ e[i] \in Nat /\ e[c] \in Nat  BY <2>3
    <3>4. CASE i = c  BY <3>3, <3>4
    <3>5. CASE i # c
      <4>1. 2 * at < m  BY <2>2, <3>2, <3>5
      <4>2. e[2 * at] \in Nat /\ e[2 * at + 1] \in Nat  BY <4>1
      <4>3. CASE e[2 * at] > e[2 * at + 1]
        <5>1. c = 2 * at + 1 /\ i = 2 * at  BY <2>2, <3>2, <3>5, <4>1, <4>3
        <5> QED BY <4>2, <4>3, <5>1
      <4>4. CASE ~(e[2 * at] > e[2 * at + 1])
        <5>1. c = 2 * at /\ i = 2 * at + 1  BY <2>2, <3>2, <3>5, <4>1, <4>4
        <5> QED BY <4>2, <4>4, <5>1
      <4> QED BY <4>3, <4>4
    <3> QED BY <3>4, <3>5
  <2>6. e[at] \in Nat /\ e[c] \in Nat /\ (Later(s.heap, at, c) <=> e[at] > e[c])
    BY <1>5, <2>3
  <2>7. CASE Later(s.heap, at, c)
    <3>1. Sink(s) = [heap |-> swap(s.heap, at, c), at |-> c]
      BY <1>1, <1>2, <1>8, <2>1, <2>7 DEF Sink
    <3>2. PICK g : g = swap(s.heap, at, c)  OBVIOUS
    <3>3. /\ g \in Heap(I, m) /\ Nodes(g) = Nodes(s.heap)
          /\ Distinct(s.heap) => Distinct(g)
          /\ Exchanged(Keys(s.heap), Keys(g), m, at, c)
      BY <1>1, <2>3, <3>2, Swapping
    <3>4. Sink(s).heap = g /\ Sink(s).at = c /\ Sink(s) \in Moving(I, m)
      BY <2>3, <3>1, <3>2, <3>3 DEF Moving
    <3>5. Sink(s).at > s.at  BY <1>2, <2>3, <3>4
    <3>6. ~DownDone(s, m)
      <4>1. ~(e[at] <= e[c])  BY <2>6, <2>7
      <4> QED BY <1>2, <1>3, <2>3, <2>4, <4>1, Zenon DEF DownDone, Below
    <3>7. ASSUME NEW h, Loose(s, h, m)
          PROVE  Loose(Sink(s), h, m) /\ UpDone(Sink(s), m)
      <4>1. PICK f \in [1 .. m -> Nat] : f = Keys(g)  BY <3>3, KeysType
      <4>2. Else(e, Parents(m), m, at) /\ Across(e, Parents(m), m, at)
        BY <1>2, <1>3, <3>7 DEF Loose
      <4>3. Exchanged(e, f, m, at, c) /\ e[at] > e[c]  BY <1>3, <2>6, <2>7, <3>3, <4>1
      <4>4. /\ Else(f, Parents(m), m, c) /\ Across(f, Parents(m), m, c)
            /\ Above(f, Parents(m), c)
        BY <1>6, <2>3, <2>4, <2>5, <4>2, <4>3, SinkOrder
      <4> QED BY <3>3, <3>4, <3>7, <4>1, <4>4 DEF Loose, UpDone
    <3> QED BY <3>4, <3>5, <3>6, <3>7
  <2>8. CASE ~Later(s.heap, at, c)
    <3>1. Sink(s) = s  BY <1>1, <1>2, <2>1, <2>8 DEF Sink
    <3>2. e[at] <= e[c]  BY <2>6, <2>8
    <3>3. \A i \in 2 .. m : Parents(m)[i] = at => e[at] <= e[i]
      <4>1. SUFFICES ASSUME NEW i \in 2 .. m, Parents(m)[i] = at PROVE e[at] <= e[i]  OBVIOUS
      <4>2. e[c] <= e[i] /\ e[i] \in Nat  BY <2>5, <4>1
      <4> QED BY <2>6, <3>2, <4>2
    <3>4. DownDone(s, m)  BY <1>2, <1>3, <3>3, Zenon DEF DownDone, Below
    <3> QED BY <3>1, <3>4
  <2> QED BY <2>7, <2>8
<1> QED BY <1>7, <1>8

\* moveDown settles the order below: the heap is whole again.
LEMMA MovingDown ==
  ASSUME NEW I, NEW m \in Nat, NEW s \in Moving(I, m), NEW h, Loose(s, h, m), UpDone(s, m)
  PROVE  /\ moveDown(s) \in Moving(I, m)
         /\ Loose(moveDown(s), h, m)
         /\ InOrder(moveDown(s).heap)
<1> DEFINE Inv(k, r) == /\ Loose(r, h, m)
                        /\ UpDone(r, m)
                        /\ DownDone(r, m) \/ r.at > k
           J == [k \in 0 .. m |-> {r \in Moving(I, m) : Inv(k, r)}]
<1>1. \A r \in Moving(I, m) : Sink(r) \in Moving(I, m)  BY SinkTurn
<1>2. s \in J[0]
  <2>1. s.at \in 1 .. m  BY DEF Moving
  <2>2. s.at > 0  BY <2>1
  <2> QED BY <2>2
<1>3. ASSUME NEW k \in 1 .. m, NEW r \in Moving(I, m), r \in J[k - 1]  PROVE Sink(r) \in J[k]
  <2>1. Inv(k - 1, r)  BY <1>3
  <2>2. /\ Loose(Sink(r), h, m)
        /\ UpDone(Sink(r), m)
        /\ \/ Sink(r) = r /\ DownDone(r, m)
           \/ Sink(r).at > r.at /\ ~DownDone(r, m)
    BY <2>1, SinkTurn
  <2>3. Sink(r) \in Moving(I, m)  BY <1>1
  <2>4. r.at \in 1 .. m /\ Sink(r).at \in 1 .. m  BY <2>3 DEF Moving
  <2>5. ~DownDone(Sink(r), m) => Sink(r).at > k
    <3>1. SUFFICES ASSUME ~DownDone(Sink(r), m) PROVE Sink(r).at > k  OBVIOUS
    <3>2. r.at > k - 1 /\ Sink(r).at > r.at  BY <2>1, <2>2, <3>1
    <3> QED BY <2>4, <3>2
  <2> QED BY <2>1, <2>2, <2>3, <2>5
<1> HIDE DEF J
<1>4. Turns(Sink, s, m) \in Moving(I, m) /\ Turns(Sink, s, m) \in J[m]
  BY <1>1, <1>2, <1>3, SinkLoop
<1>5. moveDown(s) = Turns(Sink, s, m)  BY DEF moveDown, Moving, Heap
<1>6. PICK r \in Moving(I, m) : r = moveDown(s) /\ r \in J[m]  BY <1>4, <1>5
<1>7. Inv(m, r)  BY <1>6 DEF J
<1>8. r.at \in 1 .. m  BY DEF Moving
<1>9. DownDone(r, m)  BY <1>7, <1>8
<1>10. InOrder(r.heap)  BY <1>7, <1>9, AllDone
<1> QED BY <1>6, <1>7, <1>10
----------------------------------------------------------------------------
(***************************************************************************)
(* push adds a node, remove takes one out; both keep the heap in order.    *)
(***************************************************************************)
LEMMA Pushing ==
  ASSUME NEW I, NEW n \in Nat, NEW h \in Heap(I, n), InOrder(h),
         NEW node \in Node(I), \A x \in Nodes(h) : x.id # node.id
  PROVE  /\ push(h, node) \in Heap(I, n + 1)
         /\ InOrder(push(h, node))
         /\ Nodes(push(h, node)) = Nodes(h) \cup {node}
<1> DEFINE m == n + 1
<1>1. PICK g : g = Append(h, node)  OBVIOUS
<1>2. h \in Seq(Node(I)) /\ Len(h) = n  BY DEF Heap
<1>3. g \in Seq(Node(I)) /\ Len(g) = m /\ g[m] = node /\ \A i \in 1 .. n : g[i] = h[i]
  BY <1>1, <1>2
<1>4. m \in Nat /\ g \in Heap(I, m) /\ m \in 1 .. m  BY <1>3 DEF Heap
<1> HIDE DEF m
<1>5. PICK s : s = [heap |-> g, at |-> m]  OBVIOUS
<1>6. s \in Moving(I, m) /\ s.heap = g /\ s.at = m  BY <1>4, <1>5 DEF Moving
<1>7. Distinct(h) /\ Whole(Keys(h), Parents(n), n)  BY OrderedHeap
<1>8. \A i \in 1 .. m : i \in 1 .. n \/ i = m  BY DEF m
<1>9. Nodes(g) = Nodes(h) \cup {node}
  <2>1. \A x \in Nodes(g) : x \in Nodes(h) \cup {node}  BY <1>2, <1>3, <1>8 DEF Nodes
  <2>2. \A x \in Nodes(h) : x \in Nodes(g)
    <3>1. \A i \in 1 .. n : i \in 1 .. m  BY DEF m
    <3> QED BY <1>2, <1>3, <3>1 DEF Nodes
  <2>3. node \in Nodes(g)  BY <1>3, <1>4 DEF Nodes
  <2> QED BY <2>1, <2>2, <2>3
<1>10. Distinct(g)
  <2>1. \A i \in 1 .. n : h[i].id # node.id  BY <1>2 DEF Nodes
  <2>2. \A i, j \in 1 .. n : h[i].id = h[j].id => i = j  BY <1>2, <1>7 DEF Distinct
  <2>3. \A i, j \in 1 .. m : g[i].id = g[j].id => i = j  BY <1>3, <1>8, <2>1, <2>2
  <2> QED BY <1>3, <2>3 DEF Distinct
<1>11. Else(Keys(g), Parents(m), m, m)
  <2> SUFFICES ASSUME NEW i \in 2 .. m, i # m
               PROVE  Keys(g)[Parents(m)[i]] <= Keys(g)[i]
    BY DEF Else
  <2>1. i \in 2 .. n /\ i \in 1 .. n /\ i \in 1 .. m  BY DEF m
  <2>2. PICK u \in 1 .. n : u = Parents(n)[i] /\ u < i  BY <2>1, Tree, Parent
  <2>3. u = Parents(m)[i] /\ u \in 1 .. m  BY <2>1, <2>2 DEF Parents, m
  <2>4. Keys(g)[i] = h[i].expiresAt /\ Keys(g)[u] = h[u].expiresAt
    <3>1. \A k \in 1 .. m : Keys(g)[k] = g[k].expiresAt  BY <1>4, KeysType
    <3> QED BY <1>3, <2>1, <2>3, <3>1, Zenon
  <2>5. Keys(h)[i] = h[i].expiresAt /\ Keys(h)[u] = h[u].expiresAt
    BY <2>1, <2>2, KeysType
  <2>6. Keys(h)[u] <= Keys(h)[i]  BY <1>7, <2>1, <2>2, Zenon DEF Whole
  <2> QED BY <2>3, <2>4, <2>5, <2>6
<1>12. \A i \in 2 .. m : Parents(m)[i] # m
  <2> SUFFICES ASSUME NEW i \in 2 .. m PROVE Parents(m)[i] # m  OBVIOUS
  <2>1. PICK u \in 1 .. m : u = Parents(m)[i] /\ u < i  BY <1>4, Tree, Parent
  <2>2. u # m  BY <1>4, <2>1
  <2> QED BY <2>1, <2>2
<1>13. Loose(s, g, m)  BY <1>6, <1>10, <1>11, <1>12 DEF Loose, Across
<1>14. DownDone(s, m)  BY <1>6, <1>12 DEF DownDone, Below
<1>15. PICK r \in Moving(I, m) :
         r = moveUp(s) /\ Loose(r, g, m) /\ UpDone(r, m) /\ DownDone(r, m)
  BY <1>4, <1>6, <1>13, <1>14, MovingUp
<1>16. InOrder(r.heap)  BY <1>4, <1>15, AllDone
<1>17. push(h, node) = r.heap  BY <1>1, <1>2, <1>5, <1>15 DEF push, m
<1>18. r.heap \in Heap(I, m) /\ Nodes(r.heap) = Nodes(g)  BY <1>15 DEF Moving, Loose
<1> QED BY <1>9, <1>16, <1>17, <1>18 DEF m

\* remove takes out one node, wherever it is, and leaves a heap in order.
LEMMA Removing ==
  ASSUME NEW I, NEW n \in Nat, NEW h \in Heap(I, n), InOrder(h), NEW i \in 1 .. n
  PROVE  /\ remove(h, i) \in Heap(I, n - 1)
         /\ InOrder(remove(h, i))
         /\ Nodes(remove(h, i)) = Nodes(h) \ {h[i]}
<1> DEFINE m == n - 1
<1>1. PICK rest : rest = SubSeq(h, 1, m)  OBVIOUS
<1>2. h \in Seq(Node(I)) /\ Len(h) = n /\ m \in Nat  BY DEF Heap
<1>3. rest \in Seq(Node(I)) /\ Len(rest) = m /\ \A j \in 1 .. m : rest[j] = h[j]
  BY <1>1, <1>2
<1>4. rest \in Heap(I, m) /\ rest = SubSeq(h, 1, Len(h) - 1)  BY <1>1, <1>2, <1>3 DEF Heap
<1>5. Distinct(h) /\ Whole(Keys(h), Parents(n), n)  BY OrderedHeap
<1>6. \A j, k \in 1 .. n : h[j].id = h[k].id => j = k  BY <1>2, <1>5 DEF Distinct
<1>7. n \in 1 .. n /\ \A j \in 1 .. n : j \in 1 .. m \/ j = n  OBVIOUS
<1>8. n \notin 1 .. m /\ \A j \in 1 .. m : j \in 1 .. n  OBVIOUS
<1>9. \A j \in 1 .. n : Keys(h)[j] = h[j].expiresAt /\ Keys(h)[j] \in Nat  BY KeysType
<1>10. \A j \in 2 .. m : Keys(h)[Parents(m)[j]] <= Keys(h)[j]
  <2> SUFFICES ASSUME NEW j \in 2 .. m PROVE Keys(h)[Parents(m)[j]] <= Keys(h)[j]  OBVIOUS
  <2>1. j \in 2 .. n /\ Parents(m)[j] = Parents(n)[j]  BY DEF Parents
  <2> QED BY <1>5, <2>1, Zenon DEF Whole
<1> HIDE DEF m
<1>11. CASE i = n
  <2>1. remove(h, i) = rest  BY <1>2, <1>4, <1>11 DEF remove
  <2>2. Nodes(rest) = Nodes(h) \ {h[i]}
    <3>1. \A x \in Nodes(rest) : x \in Nodes(h)  BY <1>2, <1>3, <1>8 DEF Nodes
    <3>2. h[n] \notin Nodes(rest)  BY <1>3, <1>6, <1>7, <1>8 DEF Nodes
    <3>3. \A x \in Nodes(h) : x # h[n] => x \in Nodes(rest)  BY <1>2, <1>3, <1>7 DEF Nodes
    <3> QED BY <1>11, <3>1, <3>2, <3>3
  <2>3. Distinct(rest)  BY <1>3, <1>6, <1>8 DEF Distinct
  <2>4. Whole(Keys(rest), Parents(m), m)
    <3> SUFFICES ASSUME NEW j \in 2 .. m
                 PROVE  Keys(rest)[Parents(m)[j]] <= Keys(rest)[j]
      BY DEF Whole
    <3>1. PICK u \in 1 .. m : u = Parents(m)[j] /\ u < j  BY <1>2, Tree, Parent
    <3>2. j \in 1 .. m  BY <1>2
    <3>3. Keys(rest)[j] = Keys(h)[j] /\ Keys(rest)[u] = Keys(h)[u]
      <4>1. m \in Nat /\ rest \in Heap(I, m)  BY <1>2, <1>4, Zenon
      <4>2. \A k \in 1 .. m : Keys(rest)[k] = rest[k].expiresAt  BY <4>1, KeysType
      <4> QED BY <1>3, <1>8, <1>9, <3>2, <4>2, Zenon
    <3> QED BY <1>10, <3>1, <3>3, Zenon
  <2>5. InOrder(rest)  BY <1>2, <1>4, <2>3, <2>4, OrderedHeap
  <2> QED BY <1>4, <2>1, <2>2, <2>5 DEF m
<1>12. CASE i # n
  <2>1. i \in 1 .. m  BY <1>7, <1>12
  <2>2. PICK g : g = [rest EXCEPT ![i] = h[n]]  OBVIOUS
  <2>3. h[n] \in Node(I)  BY <1>7, KeysType
  <2>4. g \in Seq(Node(I)) /\ Len(g) = m /\ g[i] = h[n]
        /\ \A j \in 1 .. m : j # i => g[j] = h[j]
    BY <1>3, <2>1, <2>2, <2>3
  <2>5. g \in Heap(I, m)  BY <2>4 DEF Heap
  <2>6. PICK s : s = [heap |-> g, at |-> i]  OBVIOUS
  <2>7. s \in Moving(I, m) /\ s.heap = g /\ s.at = i  BY <2>1, <2>5, <2>6 DEF Moving
  <2>8. Nodes(g) = Nodes(h) \ {h[i]}
    <3>1. \A x \in Nodes(g) : x \in Nodes(h)  BY <1>2, <1>7, <1>8, <2>4 DEF Nodes
    <3>2. h[i] \notin Nodes(g)  BY <1>6, <1>7, <1>8, <1>12, <2>4 DEF Nodes
    <3>3. ASSUME NEW x \in Nodes(h), x # h[i]  PROVE x \in Nodes(g)
      <4>1. PICK j \in 1 .. n : x = h[j]  BY <1>2 DEF Nodes
      <4>2. CASE j = n  BY <2>1, <2>4, <4>1, <4>2 DEF Nodes
      <4>3. CASE j # n  BY <1>7, <2>4, <3>3, <4>1, <4>3 DEF Nodes
      <4> QED BY <4>2, <4>3
    <3> QED BY <3>1, <3>2, <3>3
  <2>9. Distinct(g)
    <3>1. \A j, k \in 1 .. m : g[j].id = g[k].id => j = k  BY <1>6, <1>7, <1>8, <2>4
    <3> QED BY <2>4, <3>1 DEF Distinct
  <2>10. \A j \in 1 .. m : j # i => Keys(g)[j] = Keys(h)[j]
    <3>1. m \in Nat  BY <1>2
    <3>2. \A j \in 1 .. m : Keys(g)[j] = g[j].expiresAt  BY <2>5, <3>1, KeysType
    <3> QED BY <1>8, <1>9, <2>4, <3>2, Zenon
  <2>11. Else(Keys(g), Parents(m), m, i)
    <3> SUFFICES ASSUME NEW j \in 2 .. m, j # i, Parents(m)[j] # i
                 PROVE  Keys(g)[Parents(m)[j]] <= Keys(g)[j]
      BY DEF Else
    <3>1. PICK u \in 1 .. m : u = Parents(m)[j] /\ u < j  BY <1>2, Tree, Parent
    <3>2. j \in 1 .. m  BY <1>2
    <3>3. Keys(g)[j] = Keys(h)[j] /\ Keys(g)[u] = Keys(h)[u]  BY <2>10, <3>1, <3>2, Zenon
    <3> QED BY <1>10, <3>1, <3>3, Zenon
  <2>12. Across(Keys(g), Parents(m), m, i)
    <3> SUFFICES ASSUME i > 1, NEW j \in 2 .. m, Parents(m)[j] = i
                 PROVE  Keys(g)[Parents(m)[i]] <= Keys(g)[j]
      BY DEF Across
    <3>1. i \in 2 .. m /\ j \in 1 .. m  BY <1>2, <2>1
    <3>2. PICK u \in 1 .. m : u = Parents(m)[i] /\ u < i  BY <1>2, <3>1, Tree, Parent
    <3>3. PICK v \in 1 .. m : v = Parents(m)[j] /\ v < j  BY <1>2, Tree, Parent
    <3>4. u # i /\ j # i
      <4>1. u < i /\ i < j  BY <3>2, <3>3, Zenon
      <4>2. u \in Nat /\ i \in Nat /\ j \in Nat  OBVIOUS
      <4> QED BY <4>1, <4>2, Ascending, Zenon
    <3>5. Keys(g)[u] = Keys(h)[u] /\ Keys(g)[j] = Keys(h)[j]  BY <2>10, <3>1, <3>4, Zenon
    <3>6. Keys(h)[u] <= Keys(h)[i] /\ Keys(h)[i] <= Keys(h)[j]
      BY <1>10, <3>1, <3>2, Zenon
    <3>7. Keys(h)[u] \in Nat /\ Keys(h)[i] \in Nat /\ Keys(h)[j] \in Nat
      BY <1>8, <1>9, <2>1, <3>1
    <3>8. Keys(h)[u] <= Keys(h)[j]  BY <3>6, <3>7
    <3> QED BY <3>2, <3>5, <3>8, Zenon
  <2>13. Loose(s, g, m)  BY <2>7, <2>9, <2>11, <2>12 DEF Loose
  <2>14. PICK q \in Moving(I, m) : q = moveUp(s) /\ Loose(q, g, m) /\ UpDone(q, m)
    BY <1>2, <2>7, <2>13, MovingUp
  <2>15. PICK r \in Moving(I, m) : r = moveDown(q) /\ Loose(r, g, m) /\ InOrder(r.heap)
    BY <1>2, <2>14, MovingDown
  <2>16. remove(h, i) = r.heap
    BY <1>2, <1>4, <1>12, <2>2, <2>6, <2>14, <2>15 DEF remove
  <2>17. r.heap \in Heap(I, m) /\ Nodes(r.heap) = Nodes(g)  BY <2>15 DEF Moving, Loose
  <2> QED BY <2>8, <2>15, <2>16, <2>17 DEF m
<1> QED BY <1>11, <1>12
----------------------------------------------------------------------------
(***************************************************************************)
(* The top of a heap is its earliest node.                                 *)
(***************************************************************************)
LEMMA TopIsEarliest ==
  ASSUME NEW I, NEW n \in Nat, NEW h \in Heap(I, n), InOrder(h)
  PROVE  \A i \in 1 .. n : h[1].expiresAt <= h[i].expiresAt
<1>1. PICK e \in [1 .. n -> Nat] : e = Keys(h)  BY KeysType
<1>2. \A i \in 1 .. n : e[i] = h[i].expiresAt  BY <1>1, KeysType
<1>3. \A i \in 2 .. n : e[Parents(n)[i]] <= e[i]  BY <1>1, OrderedHeap, Zenon DEF Whole
<1> DEFINE Early == {i \in 1 .. n : ~(e[1] <= e[i])}
<1>4. Early = {}
  <2> SUFFICES ASSUME Early # {} PROVE FALSE  OBVIOUS
  <2>1. Early \subseteq Nat  OBVIOUS
  <2>2. \A i \in Early : i \in 1 .. n /\ ~(e[1] <= e[i])  OBVIOUS
  <2>3. \A i \in 1 .. n : ~(e[1] <= e[i]) => i \in Early  OBVIOUS
  <2> HIDE DEF Early
  <2>4. PICK i \in Early : \A j \in Early : ~(j < i)  BY <2>1, Least
  <2>5. i \in 1 .. n /\ ~(e[1] <= e[i]) /\ i # 1  BY <2>2
  <2>6. i \in 2 .. n  BY <2>5
  <2>7. PICK u \in 1 .. n : u = Parents(n)[i] /\ u < i  BY <2>6, Tree, Parent
  <2>8. e[u] <= e[i]  BY <1>3, <2>6, <2>7, Zenon
  <2>9. e[1] <= e[u]  BY <2>3, <2>4, <2>7, Zenon
  <2>10. e[1] \in Nat /\ e[u] \in Nat /\ e[i] \in Nat  BY <2>5
  <2> QED BY <2>5, <2>8, <2>9, <2>10
<1>5. \A i \in 1 .. n : e[1] <= e[i]  BY <1>4
<1> QED BY <1>2, <1>5

(***************************************************************************)
(* cleanup removes expired nodes only, keeps the heap in order, and either *)
(* removes one or leaves none.                                             *)
(***************************************************************************)
Expired(h, time) == {x \in Nodes(h) : x.expiresAt <= time}

\* What is left of h when some of its expired nodes have been removed.
Remains(I, g, h, time) ==
  /\ g \in Seq(Node(I)) /\ InOrder(g) /\ Len(g) <= Len(h)
  /\ Nodes(g) \subseteq Nodes(h) /\ Nodes(h) \ Nodes(g) \subseteq Expired(h, time)

\* A turn of the clean-up takes out an expired node, or nothing has expired.
LEMMA CleanTurn ==
  ASSUME NEW I, NEW g \in Seq(Node(I)), InOrder(g), NEW time \in Nat
  PROVE  /\ CleanOne(time, g) \in Seq(Node(I))
         /\ InOrder(CleanOne(time, g))
         /\ \/ CleanOne(time, g) = g /\ Expired(g, time) = {}
            \/ /\ Len(CleanOne(time, g)) < Len(g)
               /\ Nodes(CleanOne(time, g)) \subseteq Nodes(g)
               /\ Nodes(g) \ Nodes(CleanOne(time, g)) \subseteq Expired(g, time)
<1>1. PICK n \in Nat : n = Len(g)  OBVIOUS
<1>2. g \in Heap(I, n)  BY <1>1 DEF Heap
<1>3. \A i \in 1 .. n : g[i].expiresAt \in Nat  BY <1>2, KeysType DEF Node
<1>4. CASE n = 0
  <2>1. g = << >>  BY <1>1, <1>4, EmptySeq
  <2>2. Nodes(g) = {}  BY <1>1, <1>4 DEF Nodes
  <2> QED BY <2>1, <2>2 DEF CleanOne, Expired
<1>5. CASE n # 0
  <2>1. g # << >> /\ 1 \in 1 .. n  BY <1>1, <1>5
  <2>2. CASE g[1].expiresAt <= time
    <3>1. CleanOne(time, g) = remove(g, 1)  BY <2>1, <2>2 DEF CleanOne
    <3>2. PICK r : r = remove(g, 1)  OBVIOUS
    <3>3. r \in Heap(I, n - 1) /\ InOrder(r) /\ Nodes(r) = Nodes(g) \ {g[1]}
      BY <1>2, <2>1, <3>2, Removing
    <3>4. r \in Seq(Node(I)) /\ Len(r) < Len(g)  BY <1>1, <1>5, <3>3 DEF Heap
    <3>5. g[1] \in Nodes(g)  BY <1>1, <2>1 DEF Nodes
    <3>6. Nodes(g) \ Nodes(r) \subseteq Expired(g, time)  BY <2>2, <3>3, <3>5 DEF Expired
    <3> QED BY <3>1, <3>2, <3>3, <3>4, <3>6
  <2>3. CASE ~(g[1].expiresAt <= time)
    <3>1. CleanOne(time, g) = g  BY <2>3 DEF CleanOne
    <3>2. \A i \in 1 .. n : ~(g[i].expiresAt <= time)
      <4> SUFFICES ASSUME NEW i \in 1 .. n PROVE ~(g[i].expiresAt <= time)  OBVIOUS
      <4>1. g[1].expiresAt <= g[i].expiresAt  BY <1>2, TopIsEarliest
      <4>2. g[1].expiresAt \in Nat /\ g[i].expiresAt \in Nat  BY <1>3, <2>1
      <4> QED BY <2>3, <4>1, <4>2
    <3>3. Expired(g, time) = {}  BY <1>1, <3>2 DEF Expired, Nodes
    <3> QED BY <3>1, <3>3
  <2> QED BY <2>2, <2>3
<1> QED BY <1>4, <1>5

\* A clean-up takes out expired nodes only, and at least one if any has expired.
LEMMA Cleaning ==
  ASSUME NEW I, NEW h \in Seq(Node(I)), InOrder(h), NEW time \in Nat
  PROVE  /\ Remains(I, cleanup(h, time), h, time)
         /\ Expired(cleanup(h, time), time) = {} \/ Len(cleanup(h, time)) < Len(h)
<1> DEFINE S == {g \in Seq(Node(I)) : InOrder(g)}
           Inv(k, g) == /\ Remains(I, g, h, time)
                        /\ k > 0 => Expired(g, time) = {} \/ Len(g) < Len(h)
           J == [k \in 0 .. CleanBatch |-> {g \in S : Inv(k, g)}]
<1>0. CleanBatch \in Nat /\ CleanBatch > 0  BY CleanAssumption
<1>1. \A g \in S : CleanOne(time, g) \in S  BY CleanTurn
<1>2. h \in S /\ h \in J[0]  BY <1>0 DEF Remains
<1>3. ASSUME NEW k \in 1 .. CleanBatch, NEW g \in S, g \in J[k - 1]
      PROVE  CleanOne(time, g) \in J[k]
  <2>1. Remains(I, g, h, time)  BY <1>0, <1>3
  <2>2. PICK r \in S : r = CleanOne(time, g)  BY <1>1
  <2>3. \/ r = g /\ Expired(g, time) = {}
        \/ /\ Len(r) < Len(g)
           /\ Nodes(r) \subseteq Nodes(g)
           /\ Nodes(g) \ Nodes(r) \subseteq Expired(g, time)
    BY <2>2, CleanTurn
  <2>4. Inv(k, r)
    <3>1. CASE r = g /\ Expired(g, time) = {}  BY <2>1, <3>1
    <3>2. CASE Len(r) < Len(g) /\ Nodes(r) \subseteq Nodes(g)
               /\ Nodes(g) \ Nodes(r) \subseteq Expired(g, time)
      <4>1. Len(r) \in Nat /\ Len(g) \in Nat /\ Len(h) \in Nat  OBVIOUS
      <4>2. Len(r) < Len(h) /\ Len(r) <= Len(h)  BY <2>1, <3>2, <4>1 DEF Remains
      <4>3. Expired(g, time) \subseteq Expired(h, time)  BY <2>1 DEF Remains, Expired
      <4>4. Nodes(r) \subseteq Nodes(h) /\ Nodes(h) \ Nodes(r) \subseteq Expired(h, time)
        BY <2>1, <3>2, <4>3 DEF Remains
      <4> QED BY <4>2, <4>4 DEF Remains
    <3> QED BY <2>3, <3>1, <3>2
  <2> QED BY <1>0, <2>2, <2>4
<1> HIDE DEF J, S
<1>4. cleanup(h, time) \in J[CleanBatch]  BY <1>0, <1>1, <1>2, <1>3, CleanLoop
<1>5. Inv(CleanBatch, cleanup(h, time))  BY <1>0, <1>4 DEF J
<1> QED BY <1>0, <1>5
----------------------------------------------------------------------------
(***************************************************************************)
(* What callers can obtain from a Map whose records have a deadline.       *)
(***************************************************************************)
Timed(map) == \A k \in DOMAIN map : map[k].expiresAt \in Nat

\* Which records of a Map are live and which have expired.
LEMMA LiveFacts ==
  ASSUME NEW map, Timed(map), now \in Nat
  PROVE  /\ \A k : k \in LiveKeys(map) <=> k \in DOMAIN map /\ map[k].expiresAt > now
         /\ \A k : k \in ExpiredKeys(map) <=> k \in DOMAIN map /\ map[k].expiresAt <= now
         /\ Live(map) = [k \in LiveKeys(map) |-> map[k]]
<1>1. \A k \in DOMAIN map : isExpiredRecord(map[k]) <=> map[k].expiresAt <= now
  BY ClockAssumption DEF Timed, isExpiredRecord
<1>2. \A k \in DOMAIN map : ~(map[k].expiresAt <= now) <=> map[k].expiresAt > now
  BY DEF Timed
<1> QED BY <1>1, <1>2 DEF LiveKeys, ExpiredKeys, Live, Restrict

\* What is live is what the abstract store keeps.
LEMMA LiveIsUnexpired ==
  ASSUME NEW map, Timed(map), now \in Nat
  PROVE  Live(map) = Promise!Unexpired(map, now)
<1>1. LiveKeys(map) = {k \in DOMAIN map : map[k].expiresAt > now}  BY LiveFacts
<1> QED BY <1>1, LiveFacts DEF Promise!Unexpired

\* Removing expired records takes nothing from the callers.
LEMMA LiveAfterSweep ==
  ASSUME NEW map, Timed(map), now \in Nat, NEW P, P \subseteq ExpiredKeys(map)
  PROVE  /\ Timed(Without(map, P))
         /\ Live(Without(map, P)) = Live(map)
<1>1. /\ DOMAIN Without(map, P) = DOMAIN map \ P
      /\ \A k \in DOMAIN map \ P : Without(map, P)[k] = map[k]
  BY DEF Without, Restrict
<1>2. Timed(Without(map, P))  BY <1>1 DEF Timed
<1>3. \A k \in P : k \in DOMAIN map /\ ~(map[k].expiresAt > now)
  <2>1. \A k \in P : k \in DOMAIN map /\ map[k].expiresAt <= now  BY LiveFacts
  <2> QED BY <2>1 DEF Timed
<1>4. LiveKeys(Without(map, P)) = LiveKeys(map)
  <2>1. \A k : k \in LiveKeys(Without(map, P)) <=>
                 k \in DOMAIN Without(map, P) /\ Without(map, P)[k].expiresAt > now
    BY <1>2, LiveFacts
  <2>2. \A k : k \in LiveKeys(map) <=> k \in DOMAIN map /\ map[k].expiresAt > now
    BY LiveFacts
  <2> QED BY <1>1, <1>3, <2>1, <2>2
<1>5. \A k \in LiveKeys(map) : Without(map, P)[k] = map[k]
  BY <1>1, <1>3, LiveFacts
<1>6. Live(Without(map, P)) = [k \in LiveKeys(map) |-> Without(map, P)[k]]
  BY <1>2, <1>4, LiveFacts
<1> QED BY <1>2, <1>5, <1>6, LiveFacts

\* A deleted record can no longer be obtained, and every other still can.
LEMMA LiveAfterRemoval ==
  ASSUME NEW map, Timed(map), now \in Nat, NEW id
  PROVE  /\ Timed(Without(map, {id}))
         /\ Live(Without(map, {id})) = Promise!Removed(Live(map), id)
<1> DEFINE g == Without(map, {id})
<1>1. /\ DOMAIN g = DOMAIN map \ {id}
      /\ \A k \in DOMAIN map \ {id} : g[k] = map[k]
  BY DEF Without, Restrict
<1> HIDE DEF g
<1>2. Timed(g)  BY <1>1 DEF Timed
<1>3. LiveKeys(g) = LiveKeys(map) \ {id}
  <2>1. \A k : k \in LiveKeys(g) <=> k \in DOMAIN g /\ g[k].expiresAt > now
    BY <1>2, LiveFacts
  <2>2. \A k : k \in LiveKeys(map) <=> k \in DOMAIN map /\ map[k].expiresAt > now
    BY LiveFacts
  <2> QED BY <1>1, <2>1, <2>2
<1>4. \A k \in LiveKeys(map) \ {id} : g[k] = map[k]  BY <1>1, LiveFacts
<1>5. Live(g) = [k \in LiveKeys(map) \ {id} |-> g[k]]  BY <1>2, <1>3, LiveFacts
<1>6. Live(map) = [k \in LiveKeys(map) |-> map[k]]  BY LiveFacts
<1> QED BY <1>2, <1>4, <1>5, <1>6 DEF g, Promise!Removed

\* A stored record is obtained instead of what its key held.
LEMMA LiveAfterStore ==
  ASSUME NEW map, Timed(map), now \in Nat, NEW id, NEW record, record.expiresAt \in Nat
  PROVE  /\ Timed(With(map, id, record))
         /\ Live(With(map, id, record)) = Promise!Stored(Live(map), id, record)
<1> DEFINE g == With(map, id, record)
           l == Live(map)
           a == [k \in DOMAIN l \cup {id} |-> IF k = id THEN record ELSE l[k]]
<1>1. /\ DOMAIN g = DOMAIN map \cup {id} /\ g[id] = record
      /\ \A k \in DOMAIN map : k # id => g[k] = map[k]
  BY DEF With
<1>2. /\ DOMAIN l = LiveKeys(map)
      /\ \A k \in LiveKeys(map) : l[k] = map[k]
  BY LiveFacts
<1>3. /\ DOMAIN a = LiveKeys(map) \cup {id} /\ a[id] = record
      /\ \A k \in LiveKeys(map) : k # id => a[k] = map[k]
  BY <1>2
<1>4. Promise!Stored(l, id, record) = [k \in {j \in DOMAIN a : a[j].expiresAt > now} |-> a[k]]
  BY DEF Promise!Stored, Promise!Unexpired
<1> HIDE DEF g, l, a
<1>5. Timed(g)
  <2>1. \A k \in DOMAIN g : k = id \/ k \in DOMAIN map  BY <1>1
  <2> QED BY <1>1, <2>1 DEF Timed
<1>6. \A k : k \in LiveKeys(g) <=> k \in DOMAIN g /\ g[k].expiresAt > now
  BY <1>5, LiveFacts
<1>7. \A k : k \in LiveKeys(map) <=> k \in DOMAIN map /\ map[k].expiresAt > now
  BY LiveFacts
<1>8. LiveKeys(g) = {j \in DOMAIN a : a[j].expiresAt > now}  BY <1>1, <1>3, <1>6, <1>7
<1>9. \A k \in LiveKeys(g) : g[k] = a[k]  BY <1>1, <1>3, <1>6, <1>7
<1>10. Live(g) = [k \in LiveKeys(g) |-> g[k]]  BY <1>5, LiveFacts
<1>11. Live(g) = [k \in LiveKeys(g) |-> a[k]]  BY <1>9, <1>10
<1> QED BY <1>4, <1>5, <1>8, <1>11 DEF g, l

\* Time takes from the live records those that expire, and brings none back.
LEMMA LiveLater ==
  ASSUME NEW map, Timed(map), now \in Nat, NEW later \in Nat, later >= now
  PROVE  Promise!Unexpired(Live(map), later) = Promise!Unexpired(map, later)
<1>1. Live(map) = [k \in LiveKeys(map) |-> map[k]]  BY LiveFacts
<1>2. \A k : k \in LiveKeys(map) <=> k \in DOMAIN map /\ map[k].expiresAt > now
  BY LiveFacts
<1>3. PICK l : l = Live(map)  OBVIOUS
<1>4. DOMAIN l = LiveKeys(map) /\ \A k \in LiveKeys(map) : l[k] = map[k]  BY <1>1, <1>3
<1> DEFINE D == {k \in DOMAIN map : map[k].expiresAt > later}
<1>5. \A k \in D : k \in LiveKeys(map)  BY <1>2 DEF Timed
<1>6. {k \in DOMAIN l : l[k].expiresAt > later} = D  BY <1>2, <1>4, <1>5
<1>7. [k \in D |-> l[k]] = [k \in D |-> map[k]]  BY <1>4, <1>5
<1> HIDE DEF D
<1> QED BY <1>3, <1>6, <1>7 DEF Promise!Unexpired, D
----------------------------------------------------------------------------
(***************************************************************************)
(* A heap as the Map it stands for.                                        *)
(***************************************************************************)
GoodHeap(I, h) == h \in Seq(Node(I)) /\ InOrder(h)

\* A heap in order has one node per ID.
LEMMA HeapMap ==
  ASSUME NEW I, NEW h, GoodHeap(I, h)
  PROVE  /\ \A x \in Nodes(h) : x \in Node(I) /\ x.id \in IdsOf(h) /\ NodeOf(h, x.id) = x
         /\ \A id \in IdsOf(h) : NodeOf(h, id) \in Nodes(h) /\ NodeOf(h, id).id = id
         /\ IdsOf(h) \subseteq I
         /\ Timed(Map(h))
<1>1. PICK n \in Nat : n = Len(h)  BY DEF GoodHeap
<1>2. h \in Heap(I, n)  BY <1>1 DEF GoodHeap, Heap
<1>3. DOMAIN h = 1 .. n /\ \A i \in 1 .. n : h[i] \in Node(I)  BY <1>2, KeysType
<1>4. \A i, j \in 1 .. n : h[i].id = h[j].id => i = j  BY <1>3 DEF GoodHeap, InOrder
<1>5. \A i \in 1 .. n : h[i].id \in IdsOf(h) /\ NodeOf(h, h[i].id) = h[i]
  <2> SUFFICES ASSUME NEW i \in 1 .. n
               PROVE  h[i].id \in IdsOf(h) /\ NodeOf(h, h[i].id) = h[i]
    OBVIOUS
  <2>1. h[i].id \in IdsOf(h)  BY <1>3 DEF IdsOf
  <2>2. (CHOOSE j \in DOMAIN h : h[j].id = h[i].id) = i  BY <1>3, <1>4
  <2> QED BY <2>1, <2>2 DEF NodeOf
<1>6. \A x \in Nodes(h) : \E i \in 1 .. n : x = h[i]  BY <1>1 DEF Nodes
<1>7. \A i \in 1 .. n : h[i] \in Nodes(h)  BY <1>1 DEF Nodes
<1>8. \A id \in IdsOf(h) : \E i \in 1 .. n : id = h[i].id  BY <1>3 DEF IdsOf
<1>9. \A x \in Nodes(h) : x \in Node(I) /\ x.id \in IdsOf(h) /\ NodeOf(h, x.id) = x
  BY <1>3, <1>5, <1>6
<1>10. \A id \in IdsOf(h) : NodeOf(h, id) \in Nodes(h) /\ NodeOf(h, id).id = id
  BY <1>5, <1>7, <1>8
<1>11. \A id \in IdsOf(h) : NodeOf(h, id) \in Node(I)  BY <1>9, <1>10
<1>12. Timed(Map(h))  BY <1>11 DEF Timed, Map, Node
<1>13. IdsOf(h) \subseteq I  BY <1>10, <1>11 DEF Node
<1> QED BY <1>9, <1>10, <1>12, <1>13

\* Nodes taken out of a heap are keys taken out of the Map.
LEMMA SmallerHeap ==
  ASSUME NEW I, NEW g, NEW h, GoodHeap(I, g), GoodHeap(I, h), Nodes(g) \subseteq Nodes(h)
  PROVE  Map(g) = Without(Map(h), IdsOf(h) \ IdsOf(g))
<1>1. IdsOf(g) \subseteq IdsOf(h)
  <2> SUFFICES ASSUME NEW id \in IdsOf(g) PROVE id \in IdsOf(h)  OBVIOUS
  <2>1. NodeOf(g, id) \in Nodes(g) /\ NodeOf(g, id).id = id  BY HeapMap
  <2> QED BY <2>1, HeapMap
<1>2. \A id \in IdsOf(g) : NodeOf(g, id) = NodeOf(h, id)
  <2> SUFFICES ASSUME NEW id \in IdsOf(g) PROVE NodeOf(g, id) = NodeOf(h, id)  OBVIOUS
  <2>1. PICK x : x = NodeOf(g, id)  OBVIOUS
  <2>2. x \in Nodes(g) /\ x.id = id  BY <2>1, HeapMap
  <2>3. NodeOf(h, x.id) = x  BY <2>2, HeapMap
  <2> QED BY <2>1, <2>2, <2>3
<1>3. DOMAIN Map(h) \ (IdsOf(h) \ IdsOf(g)) = IdsOf(g)  BY <1>1 DEF Map
<1>4. \A id \in IdsOf(g) : Map(h)[id] = [expiresAt |-> NodeOf(g, id).expiresAt]
  BY <1>1, <1>2 DEF Map
<1>5. Without(Map(h), IdsOf(h) \ IdsOf(g)) = [id \in IdsOf(g) |-> Map(h)[id]]
  BY <1>3 DEF Without, Restrict
<1> QED BY <1>4, <1>5 DEF Map

\* A push is a Map.set.
LEMMA PushedMap ==
  ASSUME NEW I, NEW h, GoodHeap(I, h), NEW node \in Node(I), node.id \notin IdsOf(h)
  PROVE  /\ GoodHeap(I, push(h, node)) /\ Len(push(h, node)) = Len(h) + 1
         /\ Map(push(h, node)) = With(Map(h), node.id, [expiresAt |-> node.expiresAt])
<1>1. PICK n \in Nat : n = Len(h)  BY DEF GoodHeap
<1>2. h \in Heap(I, n) /\ InOrder(h)  BY <1>1 DEF GoodHeap, Heap
<1>3. \A x \in Nodes(h) : x.id # node.id  BY HeapMap
<1>4. PICK g : g = push(h, node)  OBVIOUS
<1>5. g \in Heap(I, n + 1) /\ InOrder(g) /\ Nodes(g) = Nodes(h) \cup {node}
  BY <1>2, <1>3, <1>4, Pushing
<1>6. GoodHeap(I, g) /\ Len(g) = Len(h) + 1  BY <1>1, <1>5 DEF GoodHeap, Heap
<1>7. IdsOf(g) = IdsOf(h) \cup {node.id}
  <2>1. \A id \in IdsOf(g) : \E x \in Nodes(g) : x.id = id  BY <1>6, HeapMap
  <2>2. \A id \in IdsOf(h) : \E x \in Nodes(h) : x.id = id  BY HeapMap
  <2>3. \A x \in Nodes(g) : x.id \in IdsOf(g)  BY <1>6, HeapMap
  <2>4. \A x \in Nodes(h) : x.id \in IdsOf(h)  BY HeapMap
  <2> QED BY <1>5, <2>1, <2>2, <2>3, <2>4
<1>8. NodeOf(g, node.id) = node  BY <1>5, <1>6, HeapMap
<1>9. \A id \in IdsOf(h) : NodeOf(g, id) = NodeOf(h, id)
  <2> SUFFICES ASSUME NEW id \in IdsOf(h) PROVE NodeOf(g, id) = NodeOf(h, id)  OBVIOUS
  <2>1. PICK x : x = NodeOf(h, id)  OBVIOUS
  <2>2. x \in Nodes(h) /\ x.id = id  BY <2>1, HeapMap
  <2>3. NodeOf(g, x.id) = x  BY <1>5, <1>6, <2>2, HeapMap
  <2> QED BY <2>1, <2>2, <2>3
<1>10. Map(g) = With(Map(h), node.id, [expiresAt |-> node.expiresAt])
  BY <1>7, <1>8, <1>9 DEF Map, With
<1> QED BY <1>4, <1>6, <1>10

\* A removal by ID is a Map.delete, of an ID that need not be there.
LEMMA RemovedId ==
  ASSUME NEW I, NEW h, GoodHeap(I, h), NEW id
  PROVE  /\ GoodHeap(I, RemoveId(h, id)) /\ Len(RemoveId(h, id)) <= Len(h)
         /\ Map(RemoveId(h, id)) = Without(Map(h), {id})
         /\ IdsOf(RemoveId(h, id)) = IdsOf(h) \ {id}
<1>1. PICK n \in Nat : n = Len(h)  BY DEF GoodHeap
<1>2. h \in Heap(I, n) /\ InOrder(h)  BY <1>1 DEF GoodHeap, Heap
<1>3. CASE id \notin IdsOf(h)
  <2>1. RemoveId(h, id) = h  BY <1>3 DEF RemoveId
  <2>2. Without(Map(h), {id}) = Map(h)
    <3>1. DOMAIN Map(h) \ {id} = IdsOf(h)  BY <1>3 DEF Map
    <3> QED BY <3>1 DEF Without, Restrict, Map
  <2>3. IdsOf(h) \ {id} = IdsOf(h) /\ Len(h) <= Len(h)  BY <1>1, <1>3
  <2> QED BY <2>1, <2>2, <2>3
<1>4. CASE id \in IdsOf(h)
  <2>1. PICK i : i = CHOOSE j \in DOMAIN h : h[j].id = id  OBVIOUS
  <2>2. i \in 1 .. n /\ h[i].id = id
    <3>1. DOMAIN h = 1 .. n  BY <1>2, KeysType
    <3>2. \E j \in DOMAIN h : h[j].id = id  BY <1>4 DEF IdsOf
    <3> QED BY <2>1, <3>1, <3>2
  <2>3. PICK g : g = remove(h, i)  OBVIOUS
  <2>4. RemoveId(h, id) = g  BY <1>4, <2>1, <2>3 DEF RemoveId
  <2>5. g \in Heap(I, n - 1) /\ InOrder(g) /\ Nodes(g) = Nodes(h) \ {h[i]}
    BY <1>2, <2>2, <2>3, Removing
  <2>6. GoodHeap(I, g)  BY <2>5 DEF GoodHeap, Heap
  <2>7. Len(g) <= Len(h)  BY <1>1, <2>2, <2>5 DEF Heap
  <2>8. IdsOf(g) = IdsOf(h) \ {id}
    <3>1. \A k \in IdsOf(h) : NodeOf(h, k) \in Nodes(h) /\ NodeOf(h, k).id = k  BY HeapMap
    <3>2. h[i] \in Nodes(h)  BY <1>1, <2>2 DEF Nodes
    <3>3. NodeOf(h, id) = h[i]  BY <2>2, <3>2, HeapMap
    <3>4. \A x \in Nodes(g) : x.id \in IdsOf(g)  BY <2>6, HeapMap
    <3>5. \A k \in IdsOf(g) : \E x \in Nodes(g) : x.id = k  BY <2>6, HeapMap
    <3>6. \A x \in Nodes(h) : x.id \in IdsOf(h) /\ NodeOf(h, x.id) = x  BY HeapMap
    <3>7. \A k \in IdsOf(h) : k # id => k \in IdsOf(g)  BY <2>2, <2>5, <3>1, <3>4
    <3>8. \A k \in IdsOf(g) : k \in IdsOf(h) /\ k # id  BY <2>2, <2>5, <3>3, <3>5, <3>6
    <3> QED BY <3>7, <3>8
  <2>9. IdsOf(h) \ IdsOf(g) = {id}  BY <1>4, <2>8
  <2>10. Map(g) = Without(Map(h), {id})  BY <2>5, <2>6, <2>9, SmallerHeap
  <2> QED BY <2>4, <2>6, <2>7, <2>8, <2>10
<1> QED BY <1>3, <1>4

\* The removal of an ID and a clean-up take from the callers that ID and no other.
LEMMA CleanedMap ==
  ASSUME NEW I, NEW h, GoodHeap(I, h), NEW id, now \in Nat
  PROVE  /\ GoodHeap(I, Cleaned(h, id))
         /\ Len(Cleaned(h, id)) <= Len(h)
         /\ id \notin IdsOf(Cleaned(h, id))
         /\ Live(Map(Cleaned(h, id))) = Promise!Removed(Live(Map(h)), id)
         /\ Expired(Cleaned(h, id), now) = {} \/ Len(Cleaned(h, id)) < Len(h)
<1>1. PICK r : r = RemoveId(h, id)  OBVIOUS
<1>2. PICK k : k = cleanup(r, now)  OBVIOUS
<1>3. Cleaned(h, id) = k  BY <1>1, <1>2 DEF Cleaned
<1>4. /\ GoodHeap(I, r) /\ Len(r) <= Len(h)
      /\ Map(r) = Without(Map(h), {id}) /\ IdsOf(r) = IdsOf(h) \ {id}
  BY <1>1, RemovedId
<1>5. Remains(I, k, r, now) /\ (Expired(k, now) = {} \/ Len(k) < Len(r))
  BY <1>2, <1>4, Cleaning DEF GoodHeap
<1>6. GoodHeap(I, k) /\ Nodes(k) \subseteq Nodes(r)  BY <1>5 DEF Remains, GoodHeap
<1>7. Len(k) \in Nat /\ Len(r) \in Nat /\ Len(h) \in Nat  BY <1>4, <1>6 DEF GoodHeap
<1>8. Len(k) <= Len(h) /\ (Expired(k, now) = {} \/ Len(k) < Len(h))
  <2>1. Len(k) <= Len(r)  BY <1>5 DEF Remains
  <2> QED BY <1>4, <1>5, <1>7, <2>1
<1>9. \A j \in IdsOf(k) : j \in IdsOf(r)
  <2>1. \A j \in IdsOf(k) : NodeOf(k, j) \in Nodes(k) /\ NodeOf(k, j).id = j  BY <1>6, HeapMap
  <2>2. \A x \in Nodes(r) : x.id \in IdsOf(r)  BY <1>4, HeapMap
  <2> QED BY <1>6, <2>1, <2>2
<1>10. id \notin IdsOf(k)  BY <1>4, <1>9
<1> DEFINE P == IdsOf(r) \ IdsOf(k)
<1>11. Map(k) = Without(Map(r), P)  BY <1>4, <1>6, SmallerHeap
<1>12. Timed(Map(r))  BY <1>4, HeapMap
<1>13. P \subseteq ExpiredKeys(Map(r))
  <2> SUFFICES ASSUME NEW j \in IdsOf(r), j \notin IdsOf(k)
               PROVE  j \in ExpiredKeys(Map(r))
    OBVIOUS
  <2>1. PICK x : x = NodeOf(r, j)  OBVIOUS
  <2>2. x \in Nodes(r) /\ x.id = j  BY <1>4, <2>1, HeapMap
  <2>3. x \notin Nodes(k)  BY <1>6, <2>2, HeapMap
  <2>4. x.expiresAt <= now  BY <1>5, <2>2, <2>3 DEF Remains, Expired
  <2>5. j \in DOMAIN Map(r) /\ Map(r)[j].expiresAt = x.expiresAt  BY <2>1 DEF Map
  <2>6. Map(r)[j].expiresAt <= now  BY <2>4, <2>5
  <2> QED BY <1>12, <2>5, <2>6, LiveFacts
<1> HIDE DEF P
<1>14. Live(Map(k)) = Live(Map(r))  BY <1>11, <1>12, <1>13, LiveAfterSweep
<1>15. Live(Map(r)) = Promise!Removed(Live(Map(h)), id)
  <2>1. Timed(Map(h))  BY HeapMap
  <2> QED BY <1>4, <2>1, LiveAfterRemoval
<1> QED BY <1>3, <1>6, <1>8, <1>10, <1>14, <1>15
----------------------------------------------------------------------------
(***************************************************************************)
(* A heap within its limit is full, after a clean-up, exactly when as many *)
(* live nodes as the limit allows are in it.                               *)
(***************************************************************************)
LEMMA Counting ==
  ASSUME NEW I, NEW h, GoodHeap(I, h)
  PROVE  IsFiniteSet(IdsOf(h)) /\ Cardinality(IdsOf(h)) = Len(h)
<1>1. PICK n \in Nat : n = Len(h)  BY DEF GoodHeap
<1>2. DOMAIN h = 1 .. n
  <2>1. h \in Heap(I, n)  BY <1>1 DEF GoodHeap, Heap
  <2> QED BY <2>1, KeysType
<1>3. \A i, j \in 1 .. n : h[i].id = h[j].id => i = j  BY <1>2 DEF GoodHeap, InOrder
<1> DEFINE f == [i \in 1 .. n |-> h[i].id]
<1>4. f \in Bijection(1 .. n, IdsOf(h))
  BY <1>2, <1>3 DEF Bijection, Injection, Surjection, IsInjective, IdsOf
<1>5. ExistsBijection(1 .. n, IdsOf(h))  BY <1>4 DEF ExistsBijection
<1>6. Cardinality(IdsOf(h)) = n  BY <1>5, FS_CountingElements
<1>7. IsFiniteSet(IdsOf(h))  BY <1>5, FS_NatBijection
<1> QED BY <1>1, <1>6, <1>7

\* Once cleaned up, a heap is full exactly when its live entries fill it.
LEMMA Room ==
  ASSUME NEW I, NEW h, GoodHeap(I, h), NEW id, now \in Nat,
         NEW limit \in Nat, Len(h) <= limit, id \notin LiveKeys(Map(h))
  PROVE  /\ Live(Map(Cleaned(h, id))) = Live(Map(h))
         /\ Len(Cleaned(h, id)) >= limit <=> Cardinality(LiveKeys(Map(h))) >= limit
<1>1. PICK k : k = Cleaned(h, id)  OBVIOUS
<1>2. /\ GoodHeap(I, k) /\ Len(k) <= Len(h)
      /\ Live(Map(k)) = Promise!Removed(Live(Map(h)), id)
      /\ Expired(k, now) = {} \/ Len(k) < Len(h)
  BY <1>1, CleanedMap
<1>3. Timed(Map(k)) /\ Timed(Map(h))  BY <1>2, HeapMap
<1>4. Live(Map(h)) = [j \in LiveKeys(Map(h)) |-> Map(h)[j]]  BY <1>3, LiveFacts
<1>5. Promise!Removed(Live(Map(h)), id) = Live(Map(h))
  <2>1. LiveKeys(Map(h)) \ {id} = LiveKeys(Map(h))  OBVIOUS
  <2> QED BY <1>4, <2>1 DEF Promise!Removed
<1>6. LiveKeys(Map(k)) = LiveKeys(Map(h))
  <2>1. Live(Map(k)) = [j \in LiveKeys(Map(k)) |-> Map(k)[j]]  BY <1>3, LiveFacts
  <2>2. DOMAIN Live(Map(k)) = LiveKeys(Map(k)) /\ DOMAIN Live(Map(h)) = LiveKeys(Map(h))
    BY <1>4, <2>1
  <2> QED BY <1>2, <1>5, <2>2
<1>7. /\ \A j : j \in LiveKeys(Map(k)) <=> j \in DOMAIN Map(k) /\ Map(k)[j].expiresAt > now
      /\ DOMAIN Map(k) = IdsOf(k)
  BY <1>3, LiveFacts DEF Map
<1>8. IsFiniteSet(IdsOf(k)) /\ Cardinality(IdsOf(k)) = Len(k)  BY <1>2, Counting
<1>9. PICK c : c = Cardinality(LiveKeys(Map(k)))  OBVIOUS
<1>10. c \in Nat /\ c <= Len(k)
  <2>1. LiveKeys(Map(k)) \in SUBSET IdsOf(k)  BY <1>7
  <2>2. IsFiniteSet(LiveKeys(Map(k))) /\ c <= Cardinality(IdsOf(k))
    BY <1>8, <1>9, <2>1, FS_Subset
  <2>3. c \in Nat  BY <1>9, <2>2, FS_CardinalityType
  <2> QED BY <1>8, <2>2, <2>3
<1>11. Len(k) \in Nat /\ Len(h) \in Nat  BY <1>2 DEF GoodHeap
<1>12. Len(k) >= limit <=> c >= limit
  <2>1. CASE Expired(k, now) = {}
    <3>1. \A j \in IdsOf(k) : Map(k)[j].expiresAt > now
      <4> SUFFICES ASSUME NEW j \in IdsOf(k) PROVE Map(k)[j].expiresAt > now  OBVIOUS
      <4>1. PICK x : x = NodeOf(k, j)  OBVIOUS
      <4>2. x \in Nodes(k)  BY <1>2, <4>1, HeapMap
      <4>3. ~(x.expiresAt <= now)  BY <2>1, <4>2 DEF Expired
      <4>4. Map(k)[j].expiresAt = x.expiresAt  BY <4>1 DEF Map
      <4>5. Map(k)[j].expiresAt \in Nat  BY <1>3, <1>7 DEF Timed
      <4> QED BY <4>3, <4>4, <4>5
    <3>2. LiveKeys(Map(k)) = IdsOf(k)  BY <1>7, <3>1
    <3>3. c = Len(k)  BY <1>8, <1>9, <3>2
    <3> QED BY <3>3
  <2>2. CASE Len(k) < Len(h)
    <3>1. ~(Len(k) >= limit)  BY <1>11, <2>2
    <3>2. ~(c >= limit)  BY <1>10, <1>11, <3>1
    <3> QED BY <3>1, <3>2
  <2> QED BY <1>2, <2>1, <2>2
<1>13. Cardinality(LiveKeys(Map(h))) = c  BY <1>6, <1>9
<1> QED BY <1>1, <1>2, <1>5, <1>12, <1>13

(***************************************************************************)
(* The invariant: TypeOK, and the heaps hold nodes.                        *)
(***************************************************************************)
MapOK(map, I, R) == DOMAIN map \subseteq I /\ map \in [DOMAIN map -> R]

HeapOK(h, I, limit) == GoodHeap(I, h) /\ Len(h) <= limit

Reserved == [expiresAt : Deadlines \cap Nat]

IInv ==
  /\ now \in Nat
  /\ MapOK(txns, States, Records)
  /\ MapOK(codes, Codes, Records)
  /\ MapOK(jtis, Jtis, Reserved)
  /\ HeapOK(proofs, ProofKeys, MaxProofs)
  /\ HeapOK(tickets, TicketIds, MaxTickets)

\* The invariant implies TypeOK.
LEMMA IInvTypes == IInv => TypeOK
<1> SUFFICES ASSUME IInv PROVE TypeOK  OBVIOUS
<1>1. IdsOf(proofs) \subseteq ProofKeys /\ IdsOf(tickets) \subseteq TicketIds
  BY HeapMap DEF IInv, HeapOK
<1> QED BY <1>1 DEF IInv, TypeOK, MapOK, HeapOK, GoodHeap, Reserved

\* Every record that is kept has a deadline.
LEMMA AllTimed ==
  IInv => /\ Timed(txns) /\ Timed(codes) /\ Timed(jtis)
          /\ Timed(Map(proofs)) /\ Timed(Map(tickets))
<1> SUFFICES ASSUME IInv
             PROVE  /\ Timed(txns) /\ Timed(codes) /\ Timed(jtis)
                    /\ Timed(Map(proofs)) /\ Timed(Map(tickets))
  OBVIOUS
<1>1. Timed(txns) /\ Timed(codes)  BY OneTimeAssumption DEF IInv, MapOK, Timed
<1>2. Timed(jtis)  BY DEF IInv, MapOK, Timed, Reserved
<1>3. Timed(Map(proofs)) /\ Timed(Map(tickets))  BY HeapMap DEF IInv, HeapOK
<1> QED BY <1>1, <1>2, <1>3

\* Map.delete and Map.set keep a Map well formed.
LEMMA MapOKOps ==
  ASSUME NEW map, NEW I, NEW R, MapOK(map, I, R)
  PROVE  /\ \A P : MapOK(Without(map, P), I, R)
         /\ \A id \in I, record \in R : MapOK(With(map, id, record), I, R)
<1>1. \A P : MapOK(Without(map, P), I, R)  BY DEF MapOK, Without, Restrict
<1>2. ASSUME NEW id \in I, NEW record \in R PROVE MapOK(With(map, id, record), I, R)
  BY DEF MapOK, With
<1> QED BY <1>1, <1>2

\* A clean-up, and a push into a heap that is not full, keep a heap well formed.
LEMMA HeapOKOps ==
  ASSUME NEW I, NEW h, NEW limit \in Nat, HeapOK(h, I, limit), NEW id \in I, now \in Nat
  PROVE  /\ HeapOK(Cleaned(h, id), I, limit)
         /\ \A expiresAt \in Nat : ~(Len(Cleaned(h, id)) >= limit) =>
              HeapOK(push(Cleaned(h, id), [id |-> id, expiresAt |-> expiresAt]), I, limit)
<1>1. PICK k : k = Cleaned(h, id)  OBVIOUS
<1>2. GoodHeap(I, k) /\ Len(k) <= Len(h) /\ id \notin IdsOf(k)  BY <1>1, CleanedMap DEF HeapOK
<1>3. Len(k) \in Nat /\ Len(h) \in Nat  BY <1>2 DEF HeapOK, GoodHeap
<1>4. HeapOK(k, I, limit)  BY <1>2, <1>3 DEF HeapOK
<1>5. ASSUME NEW expiresAt \in Nat, ~(Len(k) >= limit)
      PROVE  HeapOK(push(k, [id |-> id, expiresAt |-> expiresAt]), I, limit)
  <2>1. PICK node : node = [id |-> id, expiresAt |-> expiresAt]  OBVIOUS
  <2>2. node \in Node(I) /\ node.id = id  BY <2>1 DEF Node
  <2>3. GoodHeap(I, push(k, node)) /\ Len(push(k, node)) = Len(k) + 1
    BY <1>2, <2>2, PushedMap
  <2>4. Len(k) + 1 <= limit  BY <1>3, <1>5
  <2> QED BY <2>1, <2>3, <2>4 DEF HeapOK
<1> QED BY <1>1, <1>4, <1>5
----------------------------------------------------------------------------
(***************************************************************************)
(* What callers can obtain, kind by kind: the abstract store's records.    *)
(***************************************************************************)
Obtainable ==
  [transaction |-> Live(txns), code |-> Live(codes), jti |-> Live(jtis),
   proof |-> Live(Map(proofs)), ticket |-> Live(Map(tickets))]

\* Each part of it is what has not expired.
Offers ==
  /\ Live(txns) = Promise!Unexpired(txns, now)
  /\ Live(codes) = Promise!Unexpired(codes, now)
  /\ Live(jtis) = Promise!Unexpired(jtis, now)
  /\ Live(Map(proofs)) = Promise!Unexpired(Map(proofs), now)
  /\ Live(Map(tickets)) = Promise!Unexpired(Map(tickets), now)

\* The invariant implies it.
LEMMA OffersNow == IInv => Offers
  BY AllTimed, LiveIsUnexpired DEF IInv, Offers

\* Where the clock stands still, a part that does not change offers the same.
LEMMA StillObtainable ==
  ASSUME IInv, IInv', now' = now
  PROVE  /\ txns' = txns => Live(txns)' = Live(txns)
         /\ codes' = codes => Live(codes)' = Live(codes)
         /\ jtis' = jtis => Live(jtis)' = Live(jtis)
         /\ proofs' = proofs => Live(Map(proofs))' = Live(Map(proofs))
         /\ tickets' = tickets => Live(Map(tickets))' = Live(Map(tickets))
<1>1. Offers /\ Offers'  BY OffersNow, PTL
<1> QED BY <1>1 DEF Offers

\* The same after a step that takes no time.
LEMMA NextOffers ==
  ASSUME IInv', now' = now
  PROVE  /\ Live(txns)' = Promise!Unexpired(txns', now)
         /\ Live(codes)' = Promise!Unexpired(codes', now)
         /\ Live(jtis)' = Promise!Unexpired(jtis', now)
         /\ Live(Map(proofs))' = Promise!Unexpired(Map(proofs'), now)
         /\ Live(Map(tickets))' = Promise!Unexpired(Map(tickets'), now)
<1>1. Offers'  BY OffersNow, PTL
<1> QED BY <1>1 DEF Offers

(***************************************************************************)
(* What a create, a read and a consume do to a Map, and to what callers    *)
(* can obtain from it.                                                     *)
(***************************************************************************)
LEMMA FoundFacts ==
  ASSUME NEW map, Timed(map), now \in Nat, NEW id
  PROVE  /\ Found(map, id) <=> id \in DOMAIN Live(map)
         /\ Found(map, id) => Live(map)[id] = map[id]
         /\ FoundValue(map, id) = Promise!Lookup(Live(map), id)
<1>1. Live(map) = [k \in LiveKeys(map) |-> map[k]]  BY LiveFacts
<1>2. Found(map, id) <=> id \in LiveKeys(map)  BY DEF Found
<1> QED BY <1>1, <1>2 DEF FoundValue, Promise!Lookup

\* A create stores the record, whatever the sweep before it removes.
LEMMA Creating ==
  ASSUME NEW map, Timed(map), now \in Nat, NEW I, NEW R, MapOK(map, I, R),
         NEW id \in I, NEW record \in R, record.expiresAt \in Nat,
         NEW next, CreateIn(map, next, id, record)
  PROVE  /\ MapOK(next, I, R)
         /\ Promise!Unexpired(next, now) = Promise!Stored(Live(map), id, record)
<1>1. PICK P \in Sweeps(map) : next = With(Without(map, P), id, record)  BY DEF CreateIn
<1>2. P \subseteq ExpiredKeys(map)  BY DEF Sweeps
<1>3. PICK kept : kept = Without(map, P)  OBVIOUS
<1>4. Timed(kept) /\ Live(kept) = Live(map)  BY <1>2, <1>3, LiveAfterSweep
<1>5. Timed(next) /\ Live(next) = Promise!Stored(Live(map), id, record)
  BY <1>1, <1>3, <1>4, LiveAfterStore
<1>6. MapOK(kept, I, R)  BY <1>3, MapOKOps
<1>7. MapOK(next, I, R)  BY <1>1, <1>3, <1>6, MapOKOps
<1> QED BY <1>5, <1>7, LiveIsUnexpired

\* A read takes nothing from the callers.
LEMMA Reading ==
  ASSUME NEW map, Timed(map), now \in Nat, NEW I, NEW R, MapOK(map, I, R),
         NEW id, NEW next, next = AfterRead(map, id)
  PROVE  MapOK(next, I, R) /\ Timed(next) /\ Live(next) = Live(map)
<1>1. next = Without(map, {id} \cap ExpiredKeys(map))  BY DEF AfterRead
<1>2. {id} \cap ExpiredKeys(map) \subseteq ExpiredKeys(map)  OBVIOUS
<1> QED BY <1>1, <1>2, LiveAfterSweep, MapOKOps

\* A consume that is granted takes the record, and one that is not takes nothing.
LEMMA Consuming ==
  ASSUME NEW map, Timed(map), now \in Nat, NEW I, NEW R, MapOK(map, I, R),
         NEW id, NEW granted \in BOOLEAN, NEW next, ConsumeIn(map, next, id, granted)
  PROVE  /\ MapOK(next, I, R)
         /\ Promise!Unexpired(next, now) =
              IF granted THEN Promise!Removed(Live(map), id) ELSE Live(map)
<1>1. PICK P \in Sweeps(map) :
        next = LET kept == Without(map, P)
               IN  IF granted THEN Without(kept, {id}) ELSE AfterRead(kept, id)
  BY DEF ConsumeIn
<1>2. P \subseteq ExpiredKeys(map)  BY DEF Sweeps
<1>3. PICK kept : kept = Without(map, P)  OBVIOUS
<1>4. Timed(kept) /\ Live(kept) = Live(map)  BY <1>2, <1>3, LiveAfterSweep
<1>5. MapOK(kept, I, R)  BY <1>3, MapOKOps
<1>6. CASE granted
  <2>1. next = Without(kept, {id})  BY <1>1, <1>3, <1>6
  <2>2. Timed(next) /\ Live(next) = Promise!Removed(Live(map), id)
    BY <1>4, <2>1, LiveAfterRemoval
  <2>3. MapOK(next, I, R)  BY <1>5, <2>1, MapOKOps
  <2> QED BY <1>6, <2>2, <2>3, LiveIsUnexpired
<1>7. CASE ~granted
  <2>1. next = AfterRead(kept, id)  BY <1>1, <1>3, <1>7
  <2>2. MapOK(next, I, R) /\ Timed(next) /\ Live(next) = Live(map)
    BY <1>4, <1>5, <2>1, Reading
  <2> QED BY <1>7, <2>2, LiveIsUnexpired
<1> QED BY <1>6, <1>7

(***************************************************************************)
(* Each call is a call of the abstract store.                              *)
(***************************************************************************)
LEMMA TransactionStep ==
  ASSUME IInv, NEW id \in States, TransactionCall(id), UNCHANGED <<now, heapVars>>
  PROVE  IInv' /\ Promise!RegistryNext
<1>1. now \in Nat /\ now' = now /\ Timed(txns) /\ MapOK(txns, States, Records)
  BY AllTimed DEF IInv
<1>2. ASSUME MapOK(txns', States, Records), UNCHANGED <<codes, jtis>>
      PROVE  /\ IInv'
             /\ Live(txns)' = Promise!Unexpired(txns', now)
             /\ Live(codes)' = Live(codes) /\ Live(jtis)' = Live(jtis)
             /\ Live(Map(proofs))' = Live(Map(proofs))
             /\ Live(Map(tickets))' = Live(Map(tickets))
  <2>1. IInv'  BY <1>2 DEF IInv, heapVars
  <2> QED BY <1>1, <1>2, <2>1, NextOffers, StillObtainable DEF heapVars
<1>3. ASSUME NEW record \in Records, CreateAuthorizationTransaction(id, record),
             Replied("create", "transaction", id, Undefined, Undefined)
      PROVE  IInv' /\ Promise!RegistryNext
  <2>1. record.expiresAt \in Nat  BY OneTimeAssumption
  <2>2. /\ MapOK(txns', States, Records)
        /\ Promise!Unexpired(txns', now) = Promise!Stored(Live(txns), id, record)
    BY <1>1, <1>3, <2>1, Creating DEF CreateAuthorizationTransaction
  <2>3. UNCHANGED <<codes, jtis>>  BY <1>3 DEF CreateAuthorizationTransaction
  <2>4. Promise!Create("transaction", id, record)
    BY <1>2, <1>3, <2>2, <2>3 DEF Promise!Create, Promise!Reply, Replied
  <2>5. Promise!RegistryNext  BY <1>1, <2>4 DEF Promise!RegistryNext
  <2> QED BY <1>2, <2>2, <2>3, <2>5
<1>4. ASSUME GetAuthorizationTransaction(id),
             Replied("get", "transaction", id, Undefined, FoundValue(txns, id))
      PROVE  IInv' /\ Promise!RegistryNext
  <2>1. PICK next : next = AfterRead(txns, id) /\ txns' = next
    BY <1>4 DEF GetAuthorizationTransaction
  <2>2. MapOK(next, States, Records) /\ Timed(next) /\ Live(next) = Live(txns)
    BY <1>1, <2>1, Reading
  <2>3. Promise!Unexpired(txns', now) = Live(txns)  BY <1>1, <2>1, <2>2, LiveIsUnexpired
  <2>4. UNCHANGED <<codes, jtis>>  BY <1>4 DEF GetAuthorizationTransaction
  <2>5. FoundValue(txns, id) = Promise!Lookup(Live(txns), id)  BY <1>1, FoundFacts
  <2>6. Promise!Read("transaction", id)
    BY <1>2, <1>4, <2>1, <2>2, <2>3, <2>4, <2>5 DEF Promise!Read, Promise!Reply, Replied
  <2>7. Promise!RegistryNext  BY <1>1, <2>6 DEF Promise!RegistryNext
  <2> QED BY <1>2, <2>1, <2>2, <2>4, <2>7
<1>5. ASSUME NEW match \in Matches \cup {LegacyMatch}, NEW sent,
             sent = [match EXCEPT !.session = Undefined],
             ConsumeAuthorizationTransactionIfMatches(id, sent),
             Replied("consume", "transaction", id, sent,
                     IF CanConsumeTransaction(id, match) THEN txns[id] ELSE Undefined)
      PROVE  IInv' /\ Promise!RegistryNext
  <2>1. DOMAIN match = {"key", "browser", "session"}
    BY <1>5, OneTimeAssumption DEF LegacyMatch
  <2>2. sent.key = match.key /\ sent.browser = match.browser /\ sent.session = Undefined
    BY <1>5, <2>1
  <2>3. sent \in Matches \cup {[m EXCEPT !.session = Undefined] : m \in Matches}
                 \cup {LegacyMatch}
    BY <1>5 DEF LegacyMatch
  <2>4. PICK granted \in BOOLEAN : granted = CanConsumeTransaction(id, sent)
    BY DEF CanConsumeTransaction, matchesRecordBinding
  <2>5. granted = CanConsumeTransaction(id, match)
    BY <2>2, <2>4 DEF CanConsumeTransaction, matchesRecordBinding
  <2>6. /\ MapOK(txns', States, Records)
        /\ Promise!Unexpired(txns', now) =
             IF granted THEN Promise!Removed(Live(txns), id) ELSE Live(txns)
    BY <1>1, <1>5, <2>4, Consuming DEF ConsumeAuthorizationTransactionIfMatches
  <2>7. UNCHANGED <<codes, jtis>>  BY <1>5 DEF ConsumeAuthorizationTransactionIfMatches
  <2>8. Promise!Took("transaction", id, sent) <=> granted
    <3>1. /\ Found(txns, id) <=> id \in DOMAIN Live(txns)
          /\ Found(txns, id) => Live(txns)[id] = txns[id]
      BY <1>1, FoundFacts
    <3> QED BY <2>2, <2>4, <3>1
        DEF Promise!Took, Promise!Agrees, CanConsumeTransaction, matchesRecordBinding
  <2>9. granted => Live(txns)[id] = txns[id]
    BY <1>1, <2>4, FoundFacts DEF CanConsumeTransaction
  <2>10. Promise!Consume("transaction", id, sent)
    BY <1>2, <1>5, <2>5, <2>6, <2>7, <2>8, <2>9 DEF Promise!Consume, Promise!Reply, Replied
  <2>11. Promise!RegistryNext  BY <1>1, <2>3, <2>10 DEF Promise!RegistryNext
  <2> QED BY <1>2, <2>6, <2>7, <2>11
<1> QED BY <1>3, <1>4, <1>5 DEF TransactionCall

\* The same for exchange codes.
LEMMA CodeStep ==
  ASSUME IInv, NEW id \in Codes, CodeCall(id), UNCHANGED <<now, heapVars>>
  PROVE  IInv' /\ Promise!RegistryNext
<1>1. now \in Nat /\ now' = now /\ Timed(codes) /\ MapOK(codes, Codes, Records)
  BY AllTimed DEF IInv
<1>2. ASSUME MapOK(codes', Codes, Records), UNCHANGED <<txns, jtis>>
      PROVE  /\ IInv'
             /\ Live(codes)' = Promise!Unexpired(codes', now)
             /\ Live(txns)' = Live(txns) /\ Live(jtis)' = Live(jtis)
             /\ Live(Map(proofs))' = Live(Map(proofs))
             /\ Live(Map(tickets))' = Live(Map(tickets))
  <2>1. IInv'  BY <1>2 DEF IInv, heapVars
  <2> QED BY <1>1, <1>2, <2>1, NextOffers, StillObtainable DEF heapVars
<1>3. ASSUME NEW record \in Records, CreateExchangeCode(id, record),
             Replied("create", "code", id, Undefined, Undefined)
      PROVE  IInv' /\ Promise!RegistryNext
  <2>1. record.expiresAt \in Nat  BY OneTimeAssumption
  <2>2. /\ MapOK(codes', Codes, Records)
        /\ Promise!Unexpired(codes', now) = Promise!Stored(Live(codes), id, record)
    BY <1>1, <1>3, <2>1, Creating DEF CreateExchangeCode
  <2>3. UNCHANGED <<txns, jtis>>  BY <1>3 DEF CreateExchangeCode
  <2>4. Promise!Create("code", id, record)
    BY <1>2, <1>3, <2>2, <2>3 DEF Promise!Create, Promise!Reply, Replied
  <2>5. Promise!RegistryNext  BY <1>1, <2>4 DEF Promise!RegistryNext
  <2> QED BY <1>2, <2>2, <2>3, <2>5
<1>4. ASSUME GetExchangeCode(id),
             Replied("get", "code", id, Undefined, FoundValue(codes, id))
      PROVE  IInv' /\ Promise!RegistryNext
  <2>1. PICK next : next = AfterRead(codes, id) /\ codes' = next
    BY <1>4 DEF GetExchangeCode
  <2>2. MapOK(next, Codes, Records) /\ Timed(next) /\ Live(next) = Live(codes)
    BY <1>1, <2>1, Reading
  <2>3. Promise!Unexpired(codes', now) = Live(codes)  BY <1>1, <2>1, <2>2, LiveIsUnexpired
  <2>4. UNCHANGED <<txns, jtis>>  BY <1>4 DEF GetExchangeCode
  <2>5. FoundValue(codes, id) = Promise!Lookup(Live(codes), id)  BY <1>1, FoundFacts
  <2>6. Promise!Read("code", id)
    BY <1>2, <1>4, <2>1, <2>2, <2>3, <2>4, <2>5 DEF Promise!Read, Promise!Reply, Replied
  <2>7. Promise!RegistryNext  BY <1>1, <2>6 DEF Promise!RegistryNext
  <2> QED BY <1>2, <2>1, <2>2, <2>4, <2>7
<1>5. ASSUME NEW match \in Matches \cup {LegacyMatch},
             ConsumeExchangeCodeIfMatches(id, match),
             Replied("consume", "code", id, match,
                     IF CanConsumeCode(id, match) THEN codes[id] ELSE Undefined)
      PROVE  IInv' /\ Promise!RegistryNext
  <2>1. match \in Matches \cup {[m EXCEPT !.session = Undefined] : m \in Matches}
                  \cup {LegacyMatch}
    BY <1>5
  <2>2. PICK granted \in BOOLEAN : granted = CanConsumeCode(id, match)
    BY DEF CanConsumeCode, matchesRecordBinding
  <2>3. /\ MapOK(codes', Codes, Records)
        /\ Promise!Unexpired(codes', now) =
             IF granted THEN Promise!Removed(Live(codes), id) ELSE Live(codes)
    BY <1>1, <1>5, <2>2, Consuming DEF ConsumeExchangeCodeIfMatches
  <2>4. UNCHANGED <<txns, jtis>>  BY <1>5 DEF ConsumeExchangeCodeIfMatches
  <2>5. /\ Found(codes, id) <=> id \in DOMAIN Live(codes)
        /\ Found(codes, id) => Live(codes)[id] = codes[id]
    BY <1>1, FoundFacts
  <2>6. Promise!Took("code", id, match) <=> granted
    BY <2>2, <2>5 DEF Promise!Took, Promise!Agrees, CanConsumeCode, matchesRecordBinding
  <2>7. granted => Live(codes)[id] = codes[id]  BY <2>2, <2>5 DEF CanConsumeCode
  <2>8. Promise!Consume("code", id, match)
    BY <1>2, <1>5, <2>2, <2>3, <2>4, <2>6, <2>7 DEF Promise!Consume, Promise!Reply, Replied
  <2>9. Promise!RegistryNext  BY <1>1, <2>1, <2>8 DEF Promise!RegistryNext
  <2> QED BY <1>2, <2>3, <2>4, <2>9
<1> QED BY <1>3, <1>4, <1>5 DEF CodeCall

\* The same for the JTIs of logout tokens.
LEMMA JtiStep ==
  ASSUME IInv, NEW id \in Jtis, JtiCall(id), UNCHANGED <<now, heapVars>>
  PROVE  IInv' /\ Promise!RegistryNext
<1>1. now \in Nat /\ now' = now /\ Timed(jtis) /\ MapOK(jtis, Jtis, Reserved)
  BY AllTimed DEF IInv
<1>2. PICK expiresAt \in Deadlines \cap Nat :
        /\ ConsumeBackchannelLogoutTokenJti(id, expiresAt)
        /\ Replied("reserve", "jti", id, [expiresAt |-> expiresAt], FirstUse(id, expiresAt))
  BY DEF JtiCall
<1>3. PICK record : record = [expiresAt |-> expiresAt]  OBVIOUS
<1>4. record \in Reserved /\ record.expiresAt = expiresAt  BY <1>3 DEF Reserved
<1>5. PICK first \in BOOLEAN : first = FirstUse(id, expiresAt)  BY DEF FirstUse
<1>6. UNCHANGED <<txns, codes>>  BY <1>2 DEF ConsumeBackchannelLogoutTokenJti
<1>7. PICK P \in Sweeps(jtis) :
        jtis' = LET kept == Without(jtis, P)
                IN  IF first THEN With(kept, id, record) ELSE kept
  BY <1>2, <1>3, <1>5 DEF ConsumeBackchannelLogoutTokenJti
<1>8. PICK kept : kept = Without(jtis, P)  OBVIOUS
<1>9. PICK next : next = IF first THEN With(kept, id, record) ELSE kept  OBVIOUS
<1>10. jtis' = next  BY <1>7, <1>8, <1>9
<1>11. /\ Timed(kept) /\ Live(kept) = Live(jtis) /\ MapOK(kept, Jtis, Reserved)
  <2>1. P \subseteq ExpiredKeys(jtis)  BY DEF Sweeps
  <2> QED BY <1>1, <1>8, <2>1, LiveAfterSweep, MapOKOps
<1>12. /\ Timed(next) /\ MapOK(next, Jtis, Reserved)
       /\ Live(next) = IF first THEN Promise!Stored(Live(jtis), id, record) ELSE Live(jtis)
  <2>1. CASE first
    <3>1. next = With(kept, id, record)  BY <1>9, <2>1
    <3>2. record.expiresAt \in Nat  BY <1>4
    <3>3. Timed(next) /\ Live(next) = Promise!Stored(Live(jtis), id, record)
      BY <1>1, <1>11, <3>1, <3>2, LiveAfterStore
    <3>4. MapOK(next, Jtis, Reserved)  BY <1>4, <1>11, <3>1, MapOKOps
    <3> QED BY <2>1, <3>3, <3>4
  <2>2. CASE ~first
    <3>1. next = kept  BY <1>9, <2>2
    <3> QED BY <1>11, <2>2, <3>1
  <2> QED BY <2>1, <2>2
<1>13. IInv'  BY <1>1, <1>6, <1>10, <1>12 DEF IInv, heapVars
<1>14. /\ Live(jtis)' = IF first THEN Promise!Stored(Live(jtis), id, record) ELSE Live(jtis)
       /\ Live(txns)' = Live(txns) /\ Live(codes)' = Live(codes)
       /\ Live(Map(proofs))' = Live(Map(proofs))
       /\ Live(Map(tickets))' = Live(Map(tickets))
  <2>1. Live(jtis)' = Promise!Unexpired(next, now)  BY <1>1, <1>10, <1>13, NextOffers
  <2>2. Promise!Unexpired(next, now) = Live(next)  BY <1>1, <1>12, LiveIsUnexpired
  <2>3. /\ Live(txns)' = Live(txns) /\ Live(codes)' = Live(codes)
        /\ Live(Map(proofs))' = Live(Map(proofs))
        /\ Live(Map(tickets))' = Live(Map(tickets))
    BY <1>1, <1>6, <1>13, StillObtainable DEF heapVars
  <2> QED BY <1>12, <2>1, <2>2, <2>3
<1>15. first <=> record.expiresAt > now /\ id \notin DOMAIN Live(jtis)
  BY <1>1, <1>4, <1>5, FoundFacts DEF FirstUse, Found
<1>16. Promise!Reserve(id, record)
  <2>1. /\ first => FirstUse(id, expiresAt) = TRUE
        /\ ~first => FirstUse(id, expiresAt) = FALSE
    BY <1>5, Zenon DEF FirstUse
  <2>2. CASE first
    <3>1. Promise!Reply("reserve", "jti", id, record, TRUE)
      BY <1>2, <1>3, <2>1, <2>2 DEF Promise!Reply, Replied
    <3>2. Live(jtis)' = Promise!Stored(Live(jtis), id, record)  BY <1>14, <2>2
    <3>3. record.expiresAt > now /\ id \notin DOMAIN Live(jtis)  BY <1>15, <2>2
    <3>4. /\ Live(txns)' = Live(txns) /\ Live(codes)' = Live(codes)
          /\ Live(Map(proofs))' = Live(Map(proofs))
          /\ Live(Map(tickets))' = Live(Map(tickets))
      BY <1>14
    <3>5. Obtainable["jti"] = Live(jtis)  BY DEF Obtainable
    <3>6. Obtainable' = [Obtainable EXCEPT !["jti"] =
                           Promise!Stored(Obtainable["jti"], id, record)]
      BY <3>2, <3>4 DEF Obtainable
    <3> QED BY <3>1, <3>3, <3>5, <3>6 DEF Promise!Reserve, Obtainable
  <2>3. CASE ~first
    <3>1. Promise!Reply("reserve", "jti", id, record, FALSE)
      BY <1>2, <1>3, <2>1, <2>3 DEF Promise!Reply, Replied
    <3> QED BY <1>14, <1>15, <2>3, <3>1 DEF Promise!Reserve
  <2> QED BY <2>2, <2>3
<1>17. Promise!RegistryNext  BY <1>1, <1>4, <1>16 DEF Promise!RegistryNext, Reserved
<1> QED BY <1>13, <1>17

(***************************************************************************)
(* What an admission does to a heap: the entry is live already, or, with   *)
(* the expired ones cleaned up, there is room for it or there is not.      *)
(***************************************************************************)
LEMMA LiveInHeap ==
  ASSUME NEW I, NEW h, GoodHeap(I, h), NEW id, now \in Nat
  PROVE  /\ HasLive(h, id) <=> id \in LiveKeys(Map(h))
         /\ DOMAIN Live(Map(h)) = LiveKeys(Map(h))
         /\ HasLive(h, id) => Live(Map(h))[id] = [expiresAt |-> NodeOf(h, id).expiresAt]
<1>1. Timed(Map(h))  BY HeapMap
<1>2. Live(Map(h)) = [k \in LiveKeys(Map(h)) |-> Map(h)[k]]  BY <1>1, LiveFacts
<1>3. \A k : k \in LiveKeys(Map(h)) <=> k \in DOMAIN Map(h) /\ Map(h)[k].expiresAt > now
  BY <1>1, LiveFacts
<1>4. /\ DOMAIN Map(h) = IdsOf(h)
      /\ \A k \in IdsOf(h) : Map(h)[k] = [expiresAt |-> NodeOf(h, k).expiresAt]
  BY DEF Map
<1>5. HasLive(h, id) <=> id \in LiveKeys(Map(h))  BY <1>3, <1>4 DEF HasLive
<1> QED BY <1>2, <1>4, <1>5 DEF HasLive

\* An entry that is not live is admitted exactly when the live ones leave room for it.
LEMMA Admitting ==
  ASSUME NEW I, NEW h, NEW limit \in Nat, HeapOK(h, I, limit), NEW id \in I, now \in Nat,
         ~HasLive(h, id), NEW expiresAt \in Nat
  PROVE  LET kept == Cleaned(h, id)
             more == push(kept, [id |-> id, expiresAt |-> expiresAt])
         IN  /\ HeapOK(kept, I, limit) /\ Live(Map(kept)) = Live(Map(h))
             /\ Len(kept) >= limit <=> Cardinality(DOMAIN Live(Map(h))) >= limit
             /\ ~(Len(kept) >= limit) =>
                  /\ HeapOK(more, I, limit)
                  /\ Live(Map(more)) =
                       Promise!Stored(Live(Map(h)), id, [expiresAt |-> expiresAt])
<1>1. GoodHeap(I, h) /\ Len(h) <= limit  BY DEF HeapOK
<1>2. PICK kept : kept = Cleaned(h, id)  OBVIOUS
<1>3. PICK node : node = [id |-> id, expiresAt |-> expiresAt]  OBVIOUS
<1>4. node \in Node(I) /\ node.id = id /\ node.expiresAt = expiresAt  BY <1>3 DEF Node
<1>5. id \notin LiveKeys(Map(h)) /\ DOMAIN Live(Map(h)) = LiveKeys(Map(h))
  BY <1>1, LiveInHeap
<1>6. /\ Live(Map(kept)) = Live(Map(h))
      /\ Len(kept) >= limit <=> Cardinality(LiveKeys(Map(h))) >= limit
  BY <1>1, <1>2, <1>5, Room
<1>7. GoodHeap(I, kept) /\ id \notin IdsOf(kept)  BY <1>1, <1>2, CleanedMap
<1>8. /\ HeapOK(kept, I, limit)
      /\ ~(Len(kept) >= limit) => HeapOK(push(kept, node), I, limit)
  BY <1>2, <1>3, HeapOKOps
<1>9. PICK record : record = [expiresAt |-> expiresAt]  OBVIOUS
<1>10. record.expiresAt = expiresAt  BY <1>9
<1>11. Map(push(kept, node)) = With(Map(kept), id, record)
  BY <1>4, <1>7, <1>9, PushedMap
<1>12. Live(Map(push(kept, node))) = Promise!Stored(Live(Map(h)), id, record)
  <2>1. Timed(Map(kept))  BY <1>7, HeapMap
  <2>2. record.expiresAt \in Nat  BY <1>10
  <2> QED BY <1>6, <1>11, <2>1, <2>2, LiveAfterStore
<1> QED BY <1>2, <1>3, <1>5, <1>6, <1>8, <1>9, <1>12

\* The abstract store counts with the same Cardinality.
LEMMA SameCount == \A S : Promise!Cardinality(S) = Cardinality(S)
  BY Zenon DEF Promise!Cardinality, Cardinality

\* A reservation of a DPoP proof is one of the abstract store.
LEMMA ProofStep ==
  ASSUME IInv, NEW id \in ProofKeys, ProofCall(id), UNCHANGED <<now, oneTimeVars, tickets>>
  PROVE  IInv' /\ Promise!RegistryNext
<1>1. now \in Nat /\ now' = now /\ MaxProofs \in Nat /\ ProofWindow \in Nat
      /\ HeapOK(proofs, ProofKeys, MaxProofs) /\ GoodHeap(ProofKeys, proofs)
  BY OneTimeAssumption DEF IInv, HeapOK
<1>2. PICK expiresAt \in Deadlines \cap Nat : ReserveDpopProof(id, expiresAt)
  BY DEF ProofCall
<1>3. PICK record : record = [expiresAt |-> expiresAt]  OBVIOUS
<1>4. record \in Reserved /\ record.expiresAt = expiresAt  BY <1>3 DEF Reserved
<1>5. PICK result : result = reserve(id, expiresAt)  OBVIOUS
<1>6. proofs' = result.heap /\ Replied("reserve", "proof", id, record, result.answer)
  BY <1>2, <1>3, <1>5 DEF ReserveDpopProof
<1>7. PICK kept : kept = Cleaned(proofs, id)  OBVIOUS
<1>8. PICK more : more = push(kept, [id |-> id, expiresAt |-> expiresAt])  OBVIOUS
<1>9. ASSUME NEW g, proofs' = g, HeapOK(g, ProofKeys, MaxProofs)
      PROVE  /\ IInv'
             /\ Obtainable' = [Obtainable EXCEPT !["proof"] = Live(Map(g))]
  <2>1. IInv'  BY <1>9 DEF IInv, oneTimeVars
  <2>2. Timed(Map(g))  BY <1>9, HeapMap DEF HeapOK
  <2>3. Live(Map(proofs))' = Live(Map(g))
    BY <1>1, <1>9, <2>1, <2>2, NextOffers, LiveIsUnexpired
  <2>4. /\ Live(txns)' = Live(txns) /\ Live(codes)' = Live(codes) /\ Live(jtis)' = Live(jtis)
        /\ Live(Map(tickets))' = Live(Map(tickets))
    BY <1>1, <2>1, StillObtainable DEF oneTimeVars
  <2> QED BY <2>1, <2>3, <2>4 DEF Obtainable
<1>10. /\ HasLive(proofs, id) <=> id \in DOMAIN Obtainable["proof"]
       /\ Obtainable["proof"] = Live(Map(proofs))
  BY <1>1, LiveInHeap DEF Obtainable
<1>11. Within(expiresAt, ProofWindow) <=> Promise!Ahead(record, ProofWindow)
  BY <1>4 DEF Within, Promise!Ahead
<1>12. /\ Obtainable = [Obtainable EXCEPT !["proof"] = Live(Map(proofs))]  BY DEF Obtainable
<1>13. ASSUME IInv',
              LET refusal == IF Promise!Ahead(record, ProofWindow)
                                /\ id \notin DOMAIN Obtainable["proof"]
                             THEN "none" ELSE "refused"
                  full == Cardinality(DOMAIN Obtainable["proof"]) >= MaxProofs
                  answer == IF refusal # "none" THEN refusal
                            ELSE IF full THEN "full" ELSE "reserved"
              IN  /\ result.answer = answer
                  /\ Obtainable' = IF answer = "reserved"
                                   THEN [Obtainable EXCEPT !["proof"] =
                                           Promise!Stored(Obtainable["proof"], id, record)]
                                   ELSE Obtainable
       PROVE  IInv' /\ Promise!RegistryNext
  <2>1. Promise!ReserveProof(id, record)
    BY <1>6, <1>13, SameCount, Zenon
    DEF Promise!ReserveProof, Promise!Admit, Promise!Reply, Replied, Obtainable
  <2>2. Promise!RegistryNext  BY <1>1, <1>4, <2>1 DEF Promise!RegistryNext, Reserved
  <2> QED BY <1>13, <2>2
<1>14. CASE ~Within(expiresAt, ProofWindow) \/ HasLive(proofs, id)
  <2>1. result.answer = "refused" /\ result.heap = proofs
    BY <1>5, <1>14 DEF reserve
  <2>2. IInv' /\ Obtainable' = Obtainable  BY <1>1, <1>6, <1>9, <1>12, <2>1
  <2>3. ~(Promise!Ahead(record, ProofWindow) /\ id \notin DOMAIN Obtainable["proof"])
    BY <1>10, <1>11, <1>14
  <2> QED BY <1>13, <2>1, <2>2, <2>3
<1>15. CASE Within(expiresAt, ProofWindow) /\ ~HasLive(proofs, id)
  <2>1. Promise!Ahead(record, ProofWindow) /\ id \notin DOMAIN Obtainable["proof"]
    BY <1>10, <1>11, <1>15
  <2>2. /\ HeapOK(kept, ProofKeys, MaxProofs) /\ Live(Map(kept)) = Live(Map(proofs))
        /\ Len(kept) >= MaxProofs <=> Cardinality(DOMAIN Obtainable["proof"]) >= MaxProofs
        /\ ~(Len(kept) >= MaxProofs) =>
             /\ HeapOK(more, ProofKeys, MaxProofs)
             /\ Live(Map(more)) = Promise!Stored(Obtainable["proof"], id, record)
    BY <1>1, <1>3, <1>7, <1>8, <1>10, <1>15, Admitting
  <2>3. CASE Len(kept) >= MaxProofs
    <3>1. result.answer = "full" /\ result.heap = kept
      BY <1>5, <1>7, <1>15, <2>3 DEF reserve
    <3>2. IInv' /\ Obtainable' = Obtainable  BY <1>6, <1>9, <1>12, <2>2, <3>1
    <3> QED BY <1>13, <2>1, <2>2, <2>3, <3>1, <3>2
  <2>4. CASE ~(Len(kept) >= MaxProofs)
    <3>1. result.answer = "reserved" /\ result.heap = more
      BY <1>5, <1>7, <1>8, <1>15, <2>4 DEF reserve
    <3>2. IInv' /\ Obtainable' = [Obtainable EXCEPT !["proof"] =
                                    Promise!Stored(Obtainable["proof"], id, record)]
      BY <1>6, <1>9, <2>2, <2>4, <3>1
    <3> QED BY <1>13, <2>1, <2>2, <2>4, <3>1, <3>2
  <2> QED BY <2>3, <2>4
<1> QED BY <1>14, <1>15

\* A creation and a consume of a logout ticket are those of the abstract store.
LEMMA TicketStep ==
  ASSUME IInv, NEW id \in TicketIds, TicketCall(id), UNCHANGED <<now, oneTimeVars, proofs>>
  PROVE  IInv' /\ Promise!RegistryNext
<1>1. now \in Nat /\ now' = now /\ MaxTickets \in Nat /\ TicketWindow \in Nat
      /\ HeapOK(tickets, TicketIds, MaxTickets) /\ GoodHeap(TicketIds, tickets)
  BY OneTimeAssumption DEF IInv, HeapOK
<1>2. PICK kept : kept = Cleaned(tickets, id)  OBVIOUS
<1>3. ASSUME NEW g, tickets' = g, HeapOK(g, TicketIds, MaxTickets)
      PROVE  /\ IInv'
             /\ Obtainable' = [Obtainable EXCEPT !["ticket"] = Live(Map(g))]
  <2>1. IInv'  BY <1>3 DEF IInv, oneTimeVars
  <2>2. Timed(Map(g))  BY <1>3, HeapMap DEF HeapOK
  <2>3. Live(Map(tickets))' = Live(Map(g))
    BY <1>1, <1>3, <2>1, <2>2, NextOffers, LiveIsUnexpired
  <2>4. /\ Live(txns)' = Live(txns) /\ Live(codes)' = Live(codes) /\ Live(jtis)' = Live(jtis)
        /\ Live(Map(proofs))' = Live(Map(proofs))
    BY <1>1, <2>1, StillObtainable DEF oneTimeVars
  <2> QED BY <2>1, <2>3, <2>4 DEF Obtainable
<1>4. /\ HasLive(tickets, id) <=> id \in DOMAIN Obtainable["ticket"]
      /\ Obtainable["ticket"] = Live(Map(tickets))
      /\ HasLive(tickets, id) =>
           Obtainable["ticket"][id] = [expiresAt |-> NodeOf(tickets, id).expiresAt]
  BY <1>1, LiveInHeap DEF Obtainable
<1>5. Obtainable = [Obtainable EXCEPT !["ticket"] = Live(Map(tickets))]  BY DEF Obtainable
<1>6. ASSUME NEW expiresAt \in Deadlines \cap Nat, CreateLogoutNavigationTicket(id, expiresAt)
      PROVE  IInv' /\ Promise!RegistryNext
  <2>1. PICK record : record = [expiresAt |-> expiresAt]  OBVIOUS
  <2>2. record \in Reserved /\ record.expiresAt = expiresAt  BY <2>1 DEF Reserved
  <2>3. PICK result : result = createTicket(id, expiresAt)  OBVIOUS
  <2>4. tickets' = result.heap /\ Replied("create", "ticket", id, record, result.answer)
    BY <1>6, <2>1, <2>3 DEF CreateLogoutNavigationTicket
  <2>5. PICK more : more = push(kept, [id |-> id, expiresAt |-> expiresAt])  OBVIOUS
  <2>6. Within(expiresAt, TicketWindow) <=> Promise!Ahead(record, TicketWindow)
    BY <2>2 DEF Within, Promise!Ahead
  <2>7. ASSUME IInv',
               LET refusal == IF ~Promise!Ahead(record, TicketWindow) THEN "invalid"
                              ELSE IF id \in DOMAIN Obtainable["ticket"]
                                   THEN "conflict" ELSE "none"
                   full == Cardinality(DOMAIN Obtainable["ticket"]) >= MaxTickets
                   answer == IF refusal # "none" THEN refusal
                             ELSE IF full THEN "full" ELSE "created"
               IN  /\ result.answer = answer
                   /\ Obtainable' = IF answer = "created"
                                    THEN [Obtainable EXCEPT !["ticket"] =
                                            Promise!Stored(Obtainable["ticket"], id, record)]
                                    ELSE Obtainable
        PROVE  IInv' /\ Promise!RegistryNext
    <3>1. Promise!CreateTicket(id, record)
      BY <2>4, <2>7, SameCount, Zenon
      DEF Promise!CreateTicket, Promise!Admit, Promise!Reply, Replied, Obtainable
    <3>2. Promise!RegistryNext  BY <1>1, <2>2, <3>1 DEF Promise!RegistryNext, Reserved
    <3> QED BY <2>7, <3>2
  <2>8. CASE ~Within(expiresAt, TicketWindow)
    <3>1. result.answer = "invalid" /\ result.heap = tickets
      BY <2>3, <2>8 DEF createTicket
    <3>2. IInv' /\ Obtainable' = Obtainable  BY <1>1, <1>3, <1>5, <2>4, <3>1
    <3> QED BY <2>6, <2>7, <2>8, <3>1, <3>2
  <2>9. CASE Within(expiresAt, TicketWindow) /\ HasLive(tickets, id)
    <3>1. result.answer = "conflict" /\ result.heap = tickets
      BY <2>3, <2>9 DEF createTicket
    <3>2. IInv' /\ Obtainable' = Obtainable  BY <1>1, <1>3, <1>5, <2>4, <3>1
    <3> QED BY <1>4, <2>6, <2>7, <2>9, <3>1, <3>2
  <2>10. CASE Within(expiresAt, TicketWindow) /\ ~HasLive(tickets, id)
    <3>1. Promise!Ahead(record, TicketWindow) /\ id \notin DOMAIN Obtainable["ticket"]
      BY <1>4, <2>6, <2>10
    <3>2. /\ HeapOK(kept, TicketIds, MaxTickets) /\ Live(Map(kept)) = Live(Map(tickets))
          /\ Len(kept) >= MaxTickets
               <=> Cardinality(DOMAIN Obtainable["ticket"]) >= MaxTickets
          /\ ~(Len(kept) >= MaxTickets) =>
               /\ HeapOK(more, TicketIds, MaxTickets)
               /\ Live(Map(more)) = Promise!Stored(Obtainable["ticket"], id, record)
      BY <1>1, <1>2, <1>4, <2>1, <2>5, <2>10, Admitting
    <3>3. CASE Len(kept) >= MaxTickets
      <4>1. result.answer = "full" /\ result.heap = kept
        BY <1>2, <2>3, <2>10, <3>3 DEF createTicket
      <4>2. IInv' /\ Obtainable' = Obtainable  BY <1>3, <1>5, <2>4, <3>2, <4>1
      <4> QED BY <2>7, <3>1, <3>2, <3>3, <4>1, <4>2
    <3>4. CASE ~(Len(kept) >= MaxTickets)
      <4>1. result.answer = "created" /\ result.heap = more
        BY <1>2, <2>3, <2>5, <2>10, <3>4 DEF createTicket
      <4>2. IInv' /\ Obtainable' = [Obtainable EXCEPT !["ticket"] =
                                      Promise!Stored(Obtainable["ticket"], id, record)]
        BY <1>3, <2>4, <3>2, <3>4, <4>1
      <4> QED BY <2>7, <3>1, <3>2, <3>4, <4>1, <4>2
    <3> QED BY <3>3, <3>4
  <2> QED BY <2>8, <2>9, <2>10
<1>7. ASSUME ConsumeLogoutNavigationTicket(id)
      PROVE  IInv' /\ Promise!RegistryNext
  <2>1. PICK result : result = consumeTicket(id)  OBVIOUS
  <2>2. tickets' = result.heap /\ Replied("consume", "ticket", id, Undefined, result.answer)
    BY <1>7, <2>1 DEF ConsumeLogoutNavigationTicket
  <2>3. result.heap = kept  BY <1>2, <2>1 DEF consumeTicket
  <2>4. result.answer = Promise!Lookup(Obtainable["ticket"], id)
    BY <1>4, <2>1 DEF consumeTicket, Promise!Lookup
  <2>5. HeapOK(kept, TicketIds, MaxTickets)  BY <1>1, <1>2, HeapOKOps
  <2>6. Live(Map(kept)) = Promise!Removed(Obtainable["ticket"], id)
    BY <1>1, <1>2, <1>4, CleanedMap
  <2>7. IInv' /\ Obtainable' = [Obtainable EXCEPT !["ticket"] =
                                  Promise!Removed(Obtainable["ticket"], id)]
    BY <1>3, <2>2, <2>3, <2>5, <2>6
  <2>8. Promise!ConsumeTicket(id)
    BY <2>2, <2>4, <2>7, Zenon DEF Promise!ConsumeTicket, Promise!Reply, Replied, Obtainable
  <2>9. Promise!RegistryNext  BY <1>1, <2>8 DEF Promise!RegistryNext
  <2> QED BY <2>7, <2>9
<1> QED BY <1>6, <1>7 DEF TicketCall

\* The passing of time, which deletes nothing here, is that of the abstract store.
LEMMA TickStep ==
  ASSUME IInv, Tick, UNCHANGED <<oneTimeVars, heapVars, call>>
  PROVE  IInv' /\ Promise!RegistryNext
<1>1. PICK later \in Nat : later = now + 1 /\ later >= now /\ now \in Nat /\ now' = later
  BY DEF IInv, Tick
<1>2. IInv'  BY <1>1 DEF IInv, oneTimeVars, heapVars
<1>3. Offers'  BY <1>2, OffersNow, PTL
<1>4. /\ Live(txns)' = Promise!Unexpired(txns, later)
      /\ Live(codes)' = Promise!Unexpired(codes, later)
      /\ Live(jtis)' = Promise!Unexpired(jtis, later)
      /\ Live(Map(proofs))' = Promise!Unexpired(Map(proofs), later)
      /\ Live(Map(tickets))' = Promise!Unexpired(Map(tickets), later)
  BY <1>1, <1>3 DEF Offers, oneTimeVars, heapVars
<1>5. /\ Live(txns)' = Promise!Unexpired(Live(txns), later)
      /\ Live(codes)' = Promise!Unexpired(Live(codes), later)
      /\ Live(jtis)' = Promise!Unexpired(Live(jtis), later)
      /\ Live(Map(proofs))' = Promise!Unexpired(Live(Map(proofs)), later)
      /\ Live(Map(tickets))' = Promise!Unexpired(Live(Map(tickets)), later)
  BY <1>1, <1>4, AllTimed, LiveLater
<1>6. Obtainable' = [kind \in {"transaction", "code", "jti", "proof", "ticket"} |->
                       Promise!Unexpired(Obtainable[kind], later)]
  BY <1>5 DEF Obtainable
<1>7. Promise!TimePasses
  BY <1>1, <1>6 DEF Promise!TimePasses, Promise!Kinds, Obtainable
<1>8. Promise!RegistryNext  BY <1>7 DEF Promise!RegistryNext
<1> QED BY <1>2, <1>8

\* The store starts as the abstract store does.
LEMMA Start == Init => IInv /\ Promise!RegistryInit
<1> SUFFICES ASSUME Init PROVE IInv /\ Promise!RegistryInit  OBVIOUS
<1>1. DOMAIN txns = {} /\ DOMAIN codes = {} /\ DOMAIN jtis = {}  BY DEF Init, EmptyMap
<1>2. now = 0 /\ call = Undefined /\ proofs = << >> /\ tickets = << >>  BY DEF Init
<1>3. MapOK(txns, States, Records) /\ MapOK(codes, Codes, Records) /\ MapOK(jtis, Jtis, Reserved)
  BY DEF Init, EmptyMap, MapOK
<1>4. \A I : \A limit \in Nat : HeapOK(<< >>, I, limit)
  BY DEF HeapOK, GoodHeap, InOrder, Later
<1>5. IInv  BY <1>2, <1>3, <1>4, OneTimeAssumption DEF IInv
<1> DEFINE none == [k \in {} |-> Undefined]
<1>6. \A map : DOMAIN map = {} => Live(map) = none
  BY DEF Live, Restrict, LiveKeys
<1>7. DOMAIN Map(proofs) = {} /\ DOMAIN Map(tickets) = {}  BY <1>2 DEF Map, IdsOf
<1>8. /\ Live(txns) = none /\ Live(codes) = none /\ Live(jtis) = none
      /\ Live(Map(proofs)) = none /\ Live(Map(tickets)) = none
  BY <1>1, <1>6, <1>7
<1> HIDE DEF none
<1>9. Obtainable = [kind \in {"transaction", "code", "jti", "proof", "ticket"} |-> none]
  BY <1>8 DEF Obtainable
<1>10. Promise!RegistryInit
  BY <1>2, <1>9 DEF Promise!RegistryInit, Promise!Kinds, Obtainable, none
<1> QED BY <1>5, <1>10

\* Every step keeps the invariant, and is a step of the abstract store or none.
LEMMA Step == IInv /\ [Next]_vars => IInv' /\ [Promise!RegistryNext]_(Promise!registryVars)
<1> SUFFICES ASSUME IInv, [Next]_vars
             PROVE  IInv' /\ [Promise!RegistryNext]_(Promise!registryVars)
  OBVIOUS
<1>1. CASE UNCHANGED vars
  <2>1. UNCHANGED <<now, txns, codes, jtis, proofs, tickets, call>>
    BY <1>1 DEF vars, oneTimeVars, heapVars
  <2>2. IInv'  BY <2>1 DEF IInv
  <2>3. Obtainable' = Obtainable  BY <2>1, <2>2, StillObtainable DEF Obtainable
  <2>4. UNCHANGED Promise!registryVars  BY <2>1, <2>3 DEF Promise!registryVars, Obtainable
  <2> QED BY <2>2, <2>4
<1>2. CASE Next
  <2>1. ASSUME Tick, UNCHANGED <<oneTimeVars, heapVars, call>>
        PROVE  IInv' /\ Promise!RegistryNext
    BY <2>1, TickStep
  <2>2. ASSUME NEW id \in ProofKeys, ProofCall(id), UNCHANGED <<now, oneTimeVars, tickets>>
        PROVE  IInv' /\ Promise!RegistryNext
    BY <2>2, ProofStep
  <2>3. ASSUME NEW id \in TicketIds, TicketCall(id), UNCHANGED <<now, oneTimeVars, proofs>>
        PROVE  IInv' /\ Promise!RegistryNext
    BY <2>3, TicketStep
  <2>4. ASSUME NEW id \in States, TransactionCall(id), UNCHANGED <<now, heapVars>>
        PROVE  IInv' /\ Promise!RegistryNext
    BY <2>4, TransactionStep
  <2>5. ASSUME NEW id \in Codes, CodeCall(id), UNCHANGED <<now, heapVars>>
        PROVE  IInv' /\ Promise!RegistryNext
    BY <2>5, CodeStep
  <2>6. ASSUME NEW id \in Jtis, JtiCall(id), UNCHANGED <<now, heapVars>>
        PROVE  IInv' /\ Promise!RegistryNext
    BY <2>6, JtiStep
  <2> QED BY <1>2, <2>1, <2>2, <2>3, <2>4, <2>5, <2>6 DEF Next
<1> QED BY <1>1, <1>2

----------------------------------------------------------------------------
(***************************************************************************)
(* The Maps hold records callers passed in, under known IDs, and the heaps *)
(* of DPoP reservations and logout tickets stay in heap order, with one    *)
(* node per ID, and within their limits.                                   *)
(***************************************************************************)
THEOREM TypeCorrect == Spec => []TypeOK
<1>1. Init => IInv  BY Start
<1>2. IInv /\ [Next]_vars => IInv'  BY Step
<1>3. IInv => TypeOK  BY IInvTypes
<1> QED BY <1>1, <1>2, <1>3, PTL DEF Spec

(***************************************************************************)
(* The store with its lazy deletion, partial sweeps, overwriting, binary   *)
(* heaps and bounded clean-ups implements OneTimeStore: every call is      *)
(* answered as if a record vanished the moment it expired or was consumed, *)
(* and only then, and a heap turns a caller away only when live entries    *)
(* fill it.                                                                *)
(***************************************************************************)
THEOREM Implements == Spec => KeepsItsPromise
<1>1. Init => IInv /\ Promise!RegistryInit  BY Start
<1>2. IInv /\ [Next]_vars => IInv' /\ [Promise!RegistryNext]_(Promise!registryVars)  BY Step
<1> QED BY <1>1, <1>2, PTL DEF Spec, KeepsItsPromise, Promise!RegistrySpec
=============================================================================
