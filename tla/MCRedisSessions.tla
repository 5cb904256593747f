--------------------------- MODULE MCRedisSessions ---------------------------
(***************************************************************************)
(* Two overlapping calls, one of which may be a deletion, on two IDs, so   *)
(* that IDs are reused, with two lineages of one subject and two           *)
(* providers.                                                              *)
(***************************************************************************)
EXTENDS RedisSessions, TLC

CONSTANTS c1, c2, id1, id2, l1, l2, s1, p1, p2

Symmetry ==
  Permutations({id1, id2}) \cup Permutations({l1, l2})
    \cup Permutations({p1, p2})
=============================================================================
