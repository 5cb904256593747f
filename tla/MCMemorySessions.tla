-------------------------- MODULE MCMemorySessions --------------------------
(***************************************************************************)
(* A small instance of MemorySessions for TLC: three session IDs, so that  *)
(* a lineage can be rotated twice and one ID reused while two lineages     *)
(* coexist, one of them bound to a key and known to the provider.          *)
(***************************************************************************)
EXTENDS MemorySessions

CONSTANTS s1, s2, s3, alice, bob, op, sid, key

InputOf(logical, bound, deadline) ==
  [logical |-> logical, expiresAt |-> deadline,
   subject |-> IF bound THEN alice ELSE bob,
   sid |-> IF bound THEN sid ELSE Undefined,
   provider |-> IF bound THEN op ELSE Undefined,
   key |-> IF bound THEN key ELSE Undefined]

MCInputs ==
  {InputOf(s1, TRUE, deadline) : deadline \in Deadlines}
    \cup {InputOf(Undefined, bound, deadline) : bound \in BOOLEAN, deadline \in Deadlines}
=============================================================================
