-------------------------- MODULE MCMemoryOneTime --------------------------
(***************************************************************************)
(* A small instance of MemoryOneTime for TLC: records with and without a   *)
(* device key and a browser, for two sessions, with an early and a late    *)
(* deadline, so that a record can be replaced by one that lives shorter.   *)
(*                                                                         *)
(* Heaps and Maps share nothing but the clock, so a heap is explored while *)
(* the rest of the store is empty.  No action reads call, so it is left    *)
(* out of what tells states apart.                                         *)
(***************************************************************************)
EXTENDS MemoryOneTime, TLC

CONSTANTS key, browser, sess1, sess2, st, c1, c2, jti, p1, p2, p3,
          n1, n2, n3, n4, n5, n6, n7

HeapsAlone ==
  Cardinality({part \in {1, 2, 3} :
    \/ part = 1 /\ proofs # << >>
    \/ part = 2 /\ tickets # << >>
    \/ part = 3 /\ \E map \in {txns, codes, jtis} : map # EmptyMap}) <= 1

View == <<now, txns, codes, jtis, proofs, tickets>>

Symmetry == Permutations({n1, n2, n3, n4, n5})

Bindings == {[key |-> key, browser |-> browser], [key |-> Undefined, browser |-> browser],
             [key |-> Undefined, browser |-> Undefined]}

MCRecords ==
  {[key |-> key, browser |-> browser, session |-> sess1, expiresAt |-> 1],
   [key |-> key, browser |-> browser, session |-> sess2, expiresAt |-> 2],
   [key |-> Undefined, browser |-> Undefined, session |-> sess1, expiresAt |-> 2]}

MCMatches ==
  {[key |-> b.key, browser |-> b.browser, session |-> sess1] : b \in Bindings}
=============================================================================
