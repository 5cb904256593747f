------------------------------ MODULE MapSweep ------------------------------
(***************************************************************************)
(* The opportunistic expiry sweep of the in-memory OIDC vault store:       *)
(* pruneMapBatch and its positional state, for one Map                     *)
(* (packages/express-oidc-vault-memory-store/src/index.ts).                *)
(*                                                                         *)
(* There is no background timer.  Each storing or consuming call first     *)
(* inspects at most SweepBatch slots of a snapshot of the Map's keys, and  *)
(* takes a new snapshot when the old one is used up.  The snapshot goes    *)
(* stale in between: its keys may be deleted, inserted again, or joined by *)
(* new ones.                                                               *)
(***************************************************************************)
EXTENDS ExpiringMap, Sequences

CONSTANT MapKeys

VARIABLES map,        \* key -> record
          order,      \* the keys of the Map in the order it iterates them
          keys,       \* sweep.keys, the snapshot
          position    \* sweep.position, the slots of it already inspected

vars == <<now, map, order, keys, position>>

\* Map iteration order: a new key goes last, a key set again keeps its place.
OrderWith(seq, key) == IF \E i \in 1..Len(seq) : seq[i] = key THEN seq ELSE Append(seq, key)

OrderWithout(seq, gone) ==
  LET kept[n \in 0..Len(seq)] ==
        IF n = 0 THEN <<>>
        ELSE IF seq[n] \in gone THEN kept[n - 1] ELSE Append(kept[n - 1], seq[n])
  IN  kept[Len(seq)]

(***************************************************************************)
(* pruneMapBatch, on a record of the four variables.  Its loop inspects    *)
(* one slot a turn; the keys of the slots it inspects are distinct, so     *)
(* they can be inspected together.  It rebuilds the snapshot at most once: *)
(* a fresh snapshot is as long as the Map, which a sweep only shrinks.     *)
(***************************************************************************)
\* A faulty rebuild, which takes the new keys and goes on at the old position.
RebuildKeepingPosition(s) == [s EXCEPT !.keys = s.order]

rebuildSweepSnapshot(s) == [s EXCEPT !.keys = s.order, !.position = 0]

SlotsLeft(s) == Len(s.keys) - s.position

\* A faulty sweep, which deletes what it inspects, expired or not.
InspectDeletingAll(s, n) ==
  LET gone == {s.keys[i] : i \in (s.position + 1)..(s.position + n)}
  IN  [s EXCEPT !.position = s.position + n,
                !.map = Without(s.map, gone),
                !.order = OrderWithout(s.order, gone)]

Inspect(s, n) ==
  LET slots == {s.keys[i] : i \in (s.position + 1)..(s.position + n)}
      gone  == slots \cap ExpiredKeys(s.map)
  IN  [s EXCEPT !.position = s.position + n,
                !.map = Without(s.map, gone),
                !.order = OrderWithout(s.order, gone)]

AtMost(n, bound) == IF n <= bound THEN n ELSE bound

Before == [map |-> map, order |-> order, keys |-> keys, position |-> position]

pruneMapBatch ==
  LET start == IF SlotsLeft(Before) = 0 THEN rebuildSweepSnapshot(Before) ELSE Before
      first == AtMost(SlotsLeft(start), SweepBatch)
      mid   == Inspect(start, first)
      grown == Cardinality(DOMAIN mid.map) > Len(mid.keys)
      again == rebuildSweepSnapshot(mid)
  IN  IF map = EmptyMap THEN [Before EXCEPT !.keys = <<>>, !.position = 0]
      ELSE IF first < SweepBatch /\ grown
      THEN Inspect(again, AtMost(SlotsLeft(again), SweepBatch - first))
      ELSE mid

(***************************************************************************)
(* The calls: a create sweeps and stores, a consume sweeps and deletes, a  *)
(* read deletes an expired record without a sweep.                         *)
(***************************************************************************)
Store(key, record) ==
  \E swept \in {pruneMapBatch} :
      /\ map' = With(swept.map, key, record)
      /\ order' = OrderWith(swept.order, key)
      /\ keys' = swept.keys
      /\ position' = swept.position

Consume(key) ==
  \E swept \in {pruneMapBatch} :
      /\ map' = Without(swept.map, {key})
      /\ order' = OrderWithout(swept.order, {key})
      /\ keys' = swept.keys
      /\ position' = swept.position

Read(key) ==
  /\ key \in ExpiredKeys(map)
  /\ map' = Without(map, {key})
  /\ order' = OrderWithout(order, {key})
  /\ UNCHANGED <<keys, position>>

Init ==
  /\ now = 0
  /\ map = EmptyMap
  /\ order = <<>>
  /\ keys = <<>>
  /\ position = 0

\* A caller stores a record with a deadline ahead of the clock, or none
\* (computeExpiresAt in lifetime-policy.ts).
FreshRecords == {[expiresAt |-> d] : d \in {e \in Deadlines : e # Never => e > now}}

SweepingCall ==
  \E key \in MapKeys :
    Consume(key) \/ \E record \in FreshRecords : Store(key, record)

Next ==
  \/ Tick /\ UNCHANGED <<map, order, keys, position>>
  \/ SweepingCall /\ UNCHANGED now
  \/ (\E key \in MapKeys : Read(key)) /\ UNCHANGED now

\* Reclamation rides on traffic: the store is called again and again.
Spec == Init /\ [][Next]_vars /\ WF_vars(SweepingCall /\ UNCHANGED now)

----------------------------------------------------------------------------
(***************************************************************************)
(* The snapshot holds known keys and the cursor stays within it; the Map's *)
(* order lists each of its keys once.                                      *)
(***************************************************************************)
TypeOK ==
  /\ keys \in Seq(MapKeys)
  /\ position \in 0..Len(keys)
  /\ {order[i] : i \in 1..Len(order)} = DOMAIN map
  /\ Len(order) = Cardinality(DOMAIN map)

(***************************************************************************)
(* The cursor never leaves the snapshot, and a sweep removes expired       *)
(* records only, and no more than a batch of them, however stale its       *)
(* snapshot is: what the other modules of the store assume of it           *)
(* (ExpiringMap!Sweeps).                                                   *)
(***************************************************************************)
SweepIsAsAssumed ==
  TypeOK /\ DOMAIN map \ DOMAIN pruneMapBatch.map \in Sweeps(map)

(***************************************************************************)
(* Every expired record is reclaimed as long as the store is used, even if *)
(* no call ever names it again: "expired records are still eventually      *)
(* reclaimed without background timers".                                   *)
(***************************************************************************)
ExpiredRecordsAreReclaimed ==
  \A key \in MapKeys : key \in ExpiredKeys(map) ~> key \notin ExpiredKeys(map)
=============================================================================
