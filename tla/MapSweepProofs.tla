--------------------------- MODULE MapSweepProofs ---------------------------
(***************************************************************************)
(* The expiry sweep of the in-memory vault store is, for every set of      *)
(* keys, every size of a batch and however stale its snapshot, what the    *)
(* store's other modules take it for (ExpiringMap!Sweeps).                 *)
(***************************************************************************)
EXTENDS MapSweep, WellFoundedInduction, FiniteSetTheorems, SequenceTheorems, TLAPS

\* A non-empty set of natural numbers has a least element.
LEMMA Least ==
  ASSUME NEW T, T \subseteq Nat, T # {}
  PROVE  \E x \in T : \A y \in T : ~(y < x)
<1> DEFINE R == {ss \in Nat \X Nat : ss[1] < ss[2]}
<1>1. R = OpToRel(<, Nat)  BY DEF OpToRel
<1>2. IsWellFoundedOn(R, Nat)  BY <1>1, NatLessThanWellFounded
<1>3. PICK x \in T : \A y \in T : ~(<<y, x>> \in R)  BY <1>2, WFMin
<1> QED BY <1>3

\* What holds at 0 and goes from one number to the next holds at n.
LEMMA Induction ==
  ASSUME NEW n \in Nat, NEW T, 0 \in T, \A k \in 1 .. n : k - 1 \in T => k \in T
  PROVE  n \in T
<1> DEFINE Bad == (0 .. n) \ T
<1> SUFFICES ASSUME Bad # {} PROVE FALSE  OBVIOUS
<1>1. Bad \subseteq Nat  OBVIOUS
<1>2. \A x \in Bad : x \in 1 .. n /\ x - 1 \in Bad  OBVIOUS
<1> HIDE DEF Bad
<1>3. PICK x \in Bad : \A y \in Bad : ~(y < x)  BY <1>1, Least
<1> QED BY <1>1, <1>2, <1>3

----------------------------------------------------------------------------
(***************************************************************************)
(* An order of iteration lists each key of a set once.                     *)
(***************************************************************************)
Lists(seq, K) ==
  /\ seq \in Seq(MapKeys)
  /\ \A i, j \in 1 .. Len(seq) : seq[i] = seq[j] => i = j
  /\ \A key : key \in K <=> \E i \in 1 .. Len(seq) : key = seq[i]

\* One more key at the end.
LEMMA Appending ==
  ASSUME NEW seq, NEW K, Lists(seq, K), NEW key \in MapKeys, key \notin K
  PROVE  Lists(Append(seq, key), K \cup {key})
<1>1. PICK n \in Nat : n = Len(seq)  BY DEF Lists
<1>2. PICK more : more = Append(seq, key)  OBVIOUS
<1>3. /\ more \in Seq(MapKeys) /\ Len(more) = n + 1
      /\ more[n + 1] = key
      /\ \A i \in 1 .. n : more[i] = seq[i] /\ seq[i] # key
  BY <1>1, <1>2 DEF Lists
<1>4. \A i \in 1 .. n + 1 : i \in 1 .. n \/ i = n + 1  OBVIOUS
<1>5. \A i, j \in 1 .. n + 1 : more[i] = more[j] => i = j  BY <1>1, <1>3, <1>4 DEF Lists
<1>6. \A k : k \in K \cup {key} <=> \E i \in 1 .. n + 1 : k = more[i]
  <2>1. \A k \in K : \E i \in 1 .. n : k = seq[i]  BY <1>1 DEF Lists
  <2>2. \A i \in 1 .. n : seq[i] \in K /\ i \in 1 .. n + 1  BY <1>1 DEF Lists
  <2>3. n + 1 \in 1 .. n + 1  OBVIOUS
  <2> QED BY <1>3, <1>4, <2>1, <2>2, <2>3
<1> QED BY <1>2, <1>3, <1>5, <1>6 DEF Lists

\* OrderWith: a key that is there keeps its place.
LEMMA Inserting ==
  ASSUME NEW seq, NEW K, Lists(seq, K), NEW key \in MapKeys
  PROVE  Lists(OrderWith(seq, key), K \cup {key})
<1>1. CASE key \in K
  <2>1. K \cup {key} = K /\ \E i \in 1 .. Len(seq) : seq[i] = key  BY <1>1 DEF Lists
  <2> QED BY <2>1 DEF OrderWith
<1>2. CASE key \notin K
  <2>1. ~\E i \in 1 .. Len(seq) : seq[i] = key  BY <1>2 DEF Lists
  <2> QED BY <1>2, <2>1, Appending DEF OrderWith
<1> QED BY <1>1, <1>2

(***************************************************************************)
(* OrderWithout: kept[i] lists the keys of the first i positions that stay.*)
(***************************************************************************)
Prefix(seq, gone, i) == {key \in MapKeys : key \notin gone /\ \E j \in 1 .. i : key = seq[j]}

Extended(list, seq, gone, i) == IF seq[i] \in gone THEN list ELSE Append(list, seq[i])

IsKept(kept, seq, gone, n) ==
  /\ kept = [i \in 0 .. n |-> kept[i]]
  /\ kept[0] = << >>
  /\ \A i \in 1 .. n : kept[i] = Extended(kept[i - 1], seq, gone, i)

\* Such a function exists.
LEMMA KeptExists ==
  ASSUME NEW n \in Nat, NEW seq, NEW gone
  PROVE  \E kept : IsKept(kept, seq, gone, n)
<1> DEFINE T == {k \in Nat : \E kept : IsKept(kept, seq, gone, k)}
<1>1. 0 \in T
  <2>1. PICK kept : kept = [i \in 0 .. 0 |-> << >>]  OBVIOUS
  <2>2. IsKept(kept, seq, gone, 0)  BY <2>1 DEF IsKept
  <2> QED BY <2>2
<1>2. ASSUME NEW k \in 1 .. n, k - 1 \in T PROVE k \in T
  <2>1. PICK before : IsKept(before, seq, gone, k - 1)  BY <1>2
  <2>2. PICK kept : kept = [i \in 0 .. k |->
                      IF i = k THEN Extended(before[k - 1], seq, gone, k) ELSE before[i]]
    OBVIOUS
  <2>3. /\ kept = [i \in 0 .. k |-> kept[i]]
        /\ \A i \in 0 .. k - 1 : kept[i] = before[i]
        /\ kept[k] = Extended(before[k - 1], seq, gone, k)
    BY <2>2
  <2>4. \A i \in 1 .. k : i = k \/ (i \in 1 .. k - 1 /\ i - 1 \in 0 .. k - 1 /\ i \in 0 .. k - 1)
    OBVIOUS
  <2>5. k - 1 \in 0 .. k - 1 /\ 0 \in 0 .. k - 1  OBVIOUS
  <2>6. IsKept(kept, seq, gone, k)  BY <2>1, <2>3, <2>4, <2>5 DEF IsKept
  <2> QED BY <2>6
<1> HIDE DEF T
<1>3. n \in T  BY <1>1, <1>2, Induction
<1> QED BY <1>3 DEF T

\* OrderWithout lists the keys that stay.
LEMMA Dropping ==
  ASSUME NEW seq, NEW K, Lists(seq, K), NEW gone
  PROVE  Lists(OrderWithout(seq, gone), K \ gone)
<1>1. PICK n \in Nat : n = Len(seq)  BY DEF Lists
<1>2. /\ \A i \in 1 .. n : seq[i] \in MapKeys /\ seq[i] \in K
      /\ \A i, j \in 1 .. n : seq[i] = seq[j] => i = j
      /\ \A key \in K : \E i \in 1 .. n : key = seq[i]
  BY <1>1 DEF Lists
<1> DEFINE Is(g) == g = [i \in 0 .. n |->
                          IF i = 0 THEN << >> ELSE Extended(g[i - 1], seq, gone, i)]
           kept == CHOOSE g : Is(g)
<1>3. OrderWithout(seq, gone) = kept[n]  BY <1>1 DEF OrderWithout, Extended
<1>4. Is(kept)
  <2>1. PICK g : IsKept(g, seq, gone, n)  BY KeptExists
  <2>2. \A i \in 0 .. n : g[i] = IF i = 0 THEN << >> ELSE Extended(g[i - 1], seq, gone, i)
    <3>1. \A i \in 0 .. n : i = 0 \/ i \in 1 .. n  OBVIOUS
    <3>2. g[0] = << >> /\ \A i \in 1 .. n : g[i] = Extended(g[i - 1], seq, gone, i)
      BY <2>1 DEF IsKept
    <3> QED BY <3>1, <3>2
  <2>3. Is(g)  BY <2>1, <2>2 DEF IsKept
  <2> QED BY <2>3
<1> HIDE DEF kept
<1>5. kept[0] = << >> /\ \A i \in 1 .. n : kept[i] = Extended(kept[i - 1], seq, gone, i)
  BY <1>4
<1> DEFINE T == {i \in 0 .. n : Lists(kept[i], Prefix(seq, gone, i))}
<1>6. 0 \in T
  <2>1. Prefix(seq, gone, 0) = {}  BY DEF Prefix
  <2>2. Lists(<< >>, {})  BY DEF Lists
  <2> QED BY <1>5, <2>1, <2>2
<1>7. ASSUME NEW i \in 1 .. n, i - 1 \in T PROVE i \in T
  <2>1. Lists(kept[i - 1], Prefix(seq, gone, i - 1))  BY <1>7
  <2>2. PICK key \in MapKeys : key = seq[i]  BY <1>2
  <2>3. \A j \in 1 .. i : j = i \/ j \in 1 .. i - 1  OBVIOUS
  <2>4. \A j \in 1 .. i - 1 : j \in 1 .. i /\ j \in 1 .. n /\ j # i  OBVIOUS
  <2>5. i \in 1 .. i  OBVIOUS
  <2>6. CASE key \in gone
    <3>1. Prefix(seq, gone, i) = Prefix(seq, gone, i - 1)
      BY <2>2, <2>3, <2>4, <2>6 DEF Prefix
    <3> QED BY <1>5, <2>1, <2>2, <2>6, <3>1 DEF Extended
  <2>7. CASE key \notin gone
    <3>1. Prefix(seq, gone, i) = Prefix(seq, gone, i - 1) \cup {key}
      BY <2>2, <2>3, <2>4, <2>5, <2>7 DEF Prefix
    <3>2. key \notin Prefix(seq, gone, i - 1)  BY <1>2, <2>2, <2>4 DEF Prefix
    <3>3. Lists(Append(kept[i - 1], key), Prefix(seq, gone, i))
      BY <2>1, <3>1, <3>2, Appending
    <3> QED BY <1>5, <2>2, <2>7, <3>3 DEF Extended
  <2> QED BY <2>6, <2>7
<1> HIDE DEF T
<1>8. n \in T  BY <1>6, <1>7, Induction
<1>9. Lists(kept[n], Prefix(seq, gone, n))  BY <1>8 DEF T
<1>10. Prefix(seq, gone, n) = K \ gone  BY <1>2 DEF Prefix
<1> QED BY <1>3, <1>9, <1>10

\* The length of the order is the size of the Map.
LEMMA Counting ==
  ASSUME NEW seq, NEW K, Lists(seq, K)
  PROVE  Len(seq) = Cardinality(K)
<1>1. PICK n \in Nat : n = Len(seq)  BY DEF Lists
<1> DEFINE f == [i \in 1 .. n |-> seq[i]]
<1>2. f \in Bijection(1 .. n, K)
  BY <1>1 DEF Lists, Bijection, Injection, Surjection, IsInjective
<1>3. ExistsBijection(1 .. n, K)  BY <1>2 DEF ExistsBijection
<1> QED BY <1>1, <1>3, FS_CountingElements
----------------------------------------------------------------------------
(***************************************************************************)
(* The invariant: TypeOK, with the order as a list of the Map's keys.      *)
(***************************************************************************)
Sound(s) ==
  /\ s = [map |-> s.map, order |-> s.order, keys |-> s.keys, position |-> s.position]
  /\ s.keys \in Seq(MapKeys)
  /\ s.position \in 0 .. Len(s.keys)
  /\ Lists(s.order, DOMAIN s.map)

IInv == Sound(Before)

\* The invariant implies TypeOK.
LEMMA IInvTypes == IInv => TypeOK
<1> SUFFICES ASSUME IInv PROVE TypeOK  OBVIOUS
<1>1. keys \in Seq(MapKeys) /\ position \in 0 .. Len(keys) /\ Lists(order, DOMAIN map)
  BY DEF IInv, Sound, Before
<1>2. {order[i] : i \in 1 .. Len(order)} = DOMAIN map
  <2>1. \A key : key \in DOMAIN map <=> \E i \in 1 .. Len(order) : key = order[i]
    BY <1>1 DEF Lists
  <2> QED BY <2>1
<1>3. Len(order) = Cardinality(DOMAIN map)  BY <1>1, Counting
<1> QED BY <1>1, <1>2, <1>3 DEF TypeOK

\* A new snapshot is within its bounds and deletes nothing.
LEMMA Rebuilding ==
  ASSUME NEW s, Sound(s)
  PROVE  LET r == rebuildSweepSnapshot(s)
         IN  Sound(r) /\ r.map = s.map /\ SlotsLeft(r) \in Nat
<1>1. PICK r : r = rebuildSweepSnapshot(s)  OBVIOUS
<1>2. r = [map |-> s.map, order |-> s.order, keys |-> s.order, position |-> 0]
  BY <1>1 DEF rebuildSweepSnapshot, Sound
<1>3. r.map = s.map /\ r.order = s.order /\ r.keys = s.order /\ r.position = 0  BY <1>2
<1>4. s.order \in Seq(MapKeys)  BY DEF Sound, Lists
<1>5. Sound(r)  BY <1>2, <1>3, <1>4 DEF Sound
<1>6. SlotsLeft(r) \in Nat  BY <1>3, <1>4 DEF SlotsLeft
<1> QED BY <1>1, <1>3, <1>5, <1>6

\* Inspecting n slots deletes at most n keys, all of them expired, and keeps the order in step.
LEMMA Inspecting ==
  ASSUME NEW s, Sound(s), NEW n \in Nat, n <= SlotsLeft(s)
  PROVE  /\ Sound(Inspect(s, n))
         /\ \E gone : /\ gone \subseteq ExpiredKeys(s.map)
                      /\ IsFiniteSet(gone) /\ Cardinality(gone) <= n
                      /\ Inspect(s, n).map = Without(s.map, gone)
<1>1. PICK p \in Nat : p = s.position  BY DEF Sound
<1>2. Len(s.keys) \in Nat /\ p + n <= Len(s.keys)  BY <1>1 DEF Sound, SlotsLeft
<1>3. PICK slots : slots = {s.keys[i] : i \in (p + 1) .. (p + n)}  OBVIOUS
<1>4. PICK gone : gone = slots \cap ExpiredKeys(s.map)  OBVIOUS
<1>5. PICK r : r = Inspect(s, n)  OBVIOUS
<1>6. r = [map |-> Without(s.map, gone), order |-> OrderWithout(s.order, gone),
           keys |-> s.keys, position |-> p + n]
  BY <1>1, <1>3, <1>4, <1>5 DEF Inspect, Sound
<1>7. /\ r.map = Without(s.map, gone) /\ r.order = OrderWithout(s.order, gone)
      /\ r.keys = s.keys /\ r.position = p + n
  BY <1>6
<1>8. DOMAIN r.map = DOMAIN s.map \ gone  BY <1>7 DEF Without, Restrict
<1>9. Lists(r.order, DOMAIN r.map)  BY <1>7, <1>8, Dropping DEF Sound
<1>10. r.position \in 0 .. Len(r.keys)  BY <1>2, <1>7
<1>11. Sound(r)  BY <1>6, <1>7, <1>9, <1>10 DEF Sound
<1>12. IsFiniteSet(slots) /\ Cardinality(slots) <= n
  <2> DEFINE f == [i \in (p + 1) .. (p + n) |-> s.keys[i]]
  <2>1. f \in Surjection((p + 1) .. (p + n), slots)  BY <1>3 DEF Surjection
  <2>2. IsFiniteSet((p + 1) .. (p + n)) /\ Cardinality((p + 1) .. (p + n)) = n
    <3>1. p + 1 \in Int /\ p + n \in Int  OBVIOUS
    <3>2. IsFiniteSet((p + 1) .. (p + n))
          /\ Cardinality((p + 1) .. (p + n)) =
               IF p + 1 > p + n THEN 0 ELSE (p + n) - (p + 1) + 1
      BY <3>1, FS_Interval
    <3> QED BY <3>2
  <2> QED BY <2>1, <2>2, FS_Surjection
<1>13. IsFiniteSet(gone) /\ Cardinality(gone) <= n
  <2>1. IsFiniteSet(gone) /\ Cardinality(gone) <= Cardinality(slots)
    BY <1>4, <1>12, FS_Intersection
  <2>2. Cardinality(gone) \in Nat /\ Cardinality(slots) \in Nat
    BY <1>12, <2>1, FS_CardinalityType
  <2> QED BY <1>12, <2>1, <2>2
<1> QED BY <1>4, <1>5, <1>7, <1>11, <1>13

\* A sweep deletes expired records only and at most a batch, over both its snapshots.
LEMMA Pruning ==
  ASSUME IInv
  PROVE  Sound(pruneMapBatch) /\ DOMAIN map \ DOMAIN pruneMapBatch.map \in Sweeps(map)
<1>1. Sound(Before) /\ Before.map = map /\ SlotsLeft(Before) \in Nat
  BY DEF IInv, Sound, Before, SlotsLeft
<1>2. PICK start : start = IF SlotsLeft(Before) = 0 THEN rebuildSweepSnapshot(Before) ELSE Before
  OBVIOUS
<1>3. Sound(start) /\ start.map = map /\ SlotsLeft(start) \in Nat  BY <1>1, <1>2, Rebuilding
<1>4. PICK first \in Nat : first = AtMost(SlotsLeft(start), SweepBatch)
  BY <1>3, ClockAssumption DEF AtMost
<1>5. first <= SlotsLeft(start) /\ first <= SweepBatch
  BY <1>3, <1>4, ClockAssumption DEF AtMost
<1>6. PICK mid : mid = Inspect(start, first)  OBVIOUS
<1>7. PICK one : /\ one \subseteq ExpiredKeys(map)
                 /\ IsFiniteSet(one) /\ Cardinality(one) <= first
                 /\ mid.map = Without(map, one)
  BY <1>3, <1>5, <1>6, Inspecting
<1>8. Sound(mid)  BY <1>3, <1>5, <1>6, Inspecting
<1>9. PICK again : again = rebuildSweepSnapshot(mid)  OBVIOUS
<1>10. Sound(again) /\ again.map = mid.map /\ SlotsLeft(again) \in Nat
  BY <1>8, <1>9, Rebuilding
<1>11. PICK rest \in Nat : rest = AtMost(SlotsLeft(again), SweepBatch - first)
  BY <1>5, <1>10, ClockAssumption DEF AtMost
<1>12. rest <= SlotsLeft(again) /\ first + rest <= SweepBatch
  BY <1>5, <1>10, <1>11, ClockAssumption DEF AtMost
<1>13. PICK last : last = Inspect(again, rest)  OBVIOUS
<1>14. PICK two : /\ two \subseteq ExpiredKeys(mid.map)
                  /\ IsFiniteSet(two) /\ Cardinality(two) <= rest
                  /\ last.map = Without(mid.map, two)
  BY <1>10, <1>12, <1>13, Inspecting
<1>15. Sound(last)  BY <1>10, <1>12, <1>13, Inspecting
<1>16. PICK none : none = [Before EXCEPT !.keys = << >>, !.position = 0]  OBVIOUS
<1>17. none = [map |-> map, order |-> order, keys |-> << >>, position |-> 0]
  BY <1>16 DEF Before
<1>18. \/ pruneMapBatch = none \/ pruneMapBatch = mid \/ pruneMapBatch = last
  BY <1>2, <1>4, <1>6, <1>9, <1>11, <1>13, <1>16 DEF pruneMapBatch
<1>19. one \cup two \subseteq ExpiredKeys(map)
  <2>1. \A k \in DOMAIN mid.map : k \in DOMAIN map /\ mid.map[k] = map[k]
    BY <1>7 DEF Without, Restrict
  <2>2. ExpiredKeys(mid.map) \subseteq ExpiredKeys(map)
    BY <2>1 DEF ExpiredKeys, isExpiredRecord
  <2> QED BY <1>7, <1>14, <2>2
<1>20. IsFiniteSet(one \cup two) /\ Cardinality(one \cup two) <= SweepBatch
  <2>1. PICK c : c = Cardinality(one \cap two)  OBVIOUS
  <2>2. IsFiniteSet(one \cup two)
        /\ Cardinality(one \cup two) = Cardinality(one) + Cardinality(two) - c
    BY <1>7, <1>14, <2>1, FS_Union
  <2>3. IsFiniteSet(one \cap two)  BY <1>7, FS_Intersection
  <2>4. c \in Nat /\ Cardinality(one) \in Nat /\ Cardinality(two) \in Nat
    BY <1>7, <1>14, <2>1, <2>3, FS_CardinalityType
  <2> QED BY <1>7, <1>12, <1>14, <2>2, <2>4, ClockAssumption
<1>21. ASSUME NEW gone, gone \subseteq one \cup two PROVE gone \in Sweeps(map)
  <2>1. gone \in SUBSET (one \cup two)  BY <1>21
  <2>2. IsFiniteSet(gone) /\ Cardinality(gone) <= Cardinality(one \cup two)
    BY <1>20, <2>1, FS_Subset
  <2>3. Cardinality(gone) \in Nat /\ Cardinality(one \cup two) \in Nat
    BY <1>20, <2>2, FS_CardinalityType
  <2>4. Cardinality(gone) <= SweepBatch  BY <1>20, <2>2, <2>3, ClockAssumption
  <2> QED BY <1>19, <1>21, <2>4 DEF Sweeps
<1>22. CASE pruneMapBatch = none
  <2>1. none.map = map /\ none.order = order /\ none.keys = << >> /\ none.position = 0
    BY <1>17
  <2>2. Lists(order, DOMAIN map)  BY DEF IInv, Sound, Before
  <2>3. << >> \in Seq(MapKeys) /\ 0 \in 0 .. Len(<< >>)  OBVIOUS
  <2>4. Sound(none)  BY <1>17, <2>1, <2>2, <2>3 DEF Sound
  <2>5. DOMAIN map \ DOMAIN none.map \subseteq one \cup two  BY <2>1
  <2> QED BY <1>21, <1>22, <2>4, <2>5
<1>23. CASE pruneMapBatch = mid
  <2>1. DOMAIN map \ DOMAIN mid.map \subseteq one \cup two  BY <1>7 DEF Without, Restrict
  <2> QED BY <1>8, <1>21, <1>23, <2>1
<1>24. CASE pruneMapBatch = last
  <2>1. DOMAIN map \ DOMAIN last.map \subseteq one \cup two
    BY <1>7, <1>14 DEF Without, Restrict
  <2> QED BY <1>15, <1>21, <1>24, <2>1
<1> QED BY <1>18, <1>22, <1>23, <1>24

\* The Map starts empty.
LEMMA Start == Init => IInv
<1> SUFFICES ASSUME Init PROVE IInv  OBVIOUS
<1>1. DOMAIN map = {} /\ order = << >> /\ keys = << >> /\ position = 0
  BY DEF Init, EmptyMap
<1>2. Lists(<< >>, {})  BY DEF Lists
<1>3. Lists(order, DOMAIN map)  BY <1>1, <1>2
<1> QED BY <1>1, <1>3 DEF IInv, Sound, Before

\* Every call and the passing of time keep the invariant.
LEMMA Step == IInv /\ [Next]_vars => IInv'
<1> SUFFICES ASSUME IInv, [Next]_vars PROVE IInv'  OBVIOUS
<1>1. keys \in Seq(MapKeys) /\ position \in 0 .. Len(keys) /\ Lists(order, DOMAIN map)
  BY DEF IInv, Sound, Before
<1>2. ASSUME keys' \in Seq(MapKeys), position' \in 0 .. Len(keys'), Lists(order', DOMAIN map')
      PROVE  IInv'
  BY <1>2 DEF IInv, Sound, Before
<1>3. PICK swept : swept = pruneMapBatch  OBVIOUS
<1>4. /\ swept.keys \in Seq(MapKeys) /\ swept.position \in 0 .. Len(swept.keys)
      /\ Lists(swept.order, DOMAIN swept.map)
  BY <1>3, Pruning DEF Sound
<1>5. ASSUME NEW key \in MapKeys, Consume(key) PROVE IInv'
  <2>1. /\ map' = Without(swept.map, {key}) /\ order' = OrderWithout(swept.order, {key})
        /\ keys' = swept.keys /\ position' = swept.position
    BY <1>3, <1>5 DEF Consume
  <2>2. DOMAIN map' = DOMAIN swept.map \ {key}  BY <2>1 DEF Without, Restrict
  <2>3. Lists(order', DOMAIN map')  BY <1>4, <2>1, <2>2, Dropping
  <2> QED BY <1>2, <1>4, <2>1, <2>3
<1>6. ASSUME NEW key \in MapKeys, NEW record, Store(key, record) PROVE IInv'
  <2>1. /\ map' = With(swept.map, key, record) /\ order' = OrderWith(swept.order, key)
        /\ keys' = swept.keys /\ position' = swept.position
    BY <1>3, <1>6 DEF Store
  <2>2. DOMAIN map' = DOMAIN swept.map \cup {key}  BY <2>1 DEF With
  <2>3. Lists(order', DOMAIN map')  BY <1>4, <2>1, <2>2, Inserting
  <2> QED BY <1>2, <1>4, <2>1, <2>3
<1>7. ASSUME NEW key \in MapKeys, Read(key) PROVE IInv'
  <2>1. /\ map' = Without(map, {key}) /\ order' = OrderWithout(order, {key})
        /\ keys' = keys /\ position' = position
    BY <1>7 DEF Read
  <2>2. DOMAIN map' = DOMAIN map \ {key}  BY <2>1 DEF Without, Restrict
  <2>3. Lists(order', DOMAIN map')  BY <1>1, <2>1, <2>2, Dropping
  <2> QED BY <1>1, <1>2, <2>1, <2>3
<1>8. CASE UNCHANGED <<map, order, keys, position>>  BY <1>1, <1>2, <1>8
<1> QED BY <1>5, <1>6, <1>7, <1>8 DEF Next, SweepingCall, vars

(***************************************************************************)
(* At every moment the cursor is within the snapshot, and a sweep would    *)
(* remove expired records only and no more than a batch of them: the sweep *)
(* refines the choice MemorySessions and MemoryOneTime make in its place.  *)
(***************************************************************************)
THEOREM SweepsAreAsAssumed == Spec => []SweepIsAsAssumed
<1>1. Init => IInv  BY Start
<1>2. IInv /\ [Next]_vars => IInv'  BY Step
<1>3. IInv => SweepIsAsAssumed  BY IInvTypes, Pruning DEF SweepIsAsAssumed
<1> QED BY <1>1, <1>2, <1>3, PTL DEF Spec
=============================================================================
