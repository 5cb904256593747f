---------------------------- MODULE ExpiringMap ----------------------------
(***************************************************************************)
(* The clock the in-memory OIDC vault store reads and the JavaScript Maps  *)
(* of records with a deadline that it keeps                                *)
(* (packages/express-oidc-vault-memory-store/src/index.ts).                *)
(*                                                                         *)
(* A Map is a function whose domain is the set of keys present.  A record  *)
(* has a field expiresAt: a time, or Never for a record without one.       *)
(* Expired records stay in their Map until an operation happens to remove  *)
(* them, so "present" and "live" are different things everywhere below.    *)
(***************************************************************************)
EXTENDS Naturals, FiniteSets, Functions

CONSTANTS MaxTime,     \* bound on the clock
          Never,       \* expiresAt of a record that has none
          Deadlines,   \* the values expiresAt may take
          SweepBatch   \* EXPIRY_SWEEP_BATCH_SIZE: keys one sweep may inspect

ASSUME ClockAssumption ==
  /\ MaxTime \in Nat
  /\ Never \notin Nat
  /\ Deadlines \subseteq Nat \cup {Never}
  /\ SweepBatch \in Nat

VARIABLE now           \* epoch milliseconds, as a small natural number

Tick ==
  /\ now < MaxTime
  /\ now' = now + 1

isExpiredRecord(value) == value.expiresAt # Never /\ value.expiresAt <= now

ExpiredKeys(map) == {k \in DOMAIN map : isExpiredRecord(map[k])}

LiveKeys(map) == DOMAIN map \ ExpiredKeys(map)

(***************************************************************************)
(* Map.delete for a set of keys, and Map.set.                              *)
(***************************************************************************)
Without(map, keys) == Restrict(map, DOMAIN map \ keys)

With(map, key, value) ==
  [k \in DOMAIN map \cup {key} |-> IF k = key THEN value ELSE map[k]]

EmptyMap == [k \in {} |-> Never]

(***************************************************************************)
(* What one opportunistic sweep (pruneMapBatch) can remove: it inspects at *)
(* most SweepBatch keys from a cursor and deletes the expired ones among   *)
(* them.  Where the cursor stands is abstracted to a choice; module        *)
(* MapSweep models it.                                                     *)
(***************************************************************************)
Sweeps(map) == {K \in SUBSET ExpiredKeys(map) : Cardinality(K) <= SweepBatch}
=============================================================================
