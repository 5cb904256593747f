-------------------------- MODULE MCMessageActions --------------------------
(***************************************************************************)
(* Three calls for two actions and one direct archival: enough for a claim *)
(* to be taken over, and for the new owner to be denied or to fail, while  *)
(* the first owner is anywhere in its handler or its transaction.          *)
(***************************************************************************)
EXTENDS MessageActions, TLC

CONSTANTS c1, c2, c3

Symmetry == Permutations({c1, c2, c3})
=============================================================================
