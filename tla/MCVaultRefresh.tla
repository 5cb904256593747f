--------------------------- MODULE MCVaultRefresh ---------------------------
(***************************************************************************)
(* One login carried through, then two refreshes and a logout racing over  *)
(* its lineage, with current and with rotated-away handles.                *)
(***************************************************************************)
EXTENDS OidcVault

CONSTANTS l1, c1, e1, r1, r2, o1, p1

MCConfig == [r \in Requests |-> [policy |-> "optional", provider |-> p1]]

MCToken == [b \in {} |-> {}]

MCDeadlines == 0..4 \cup {Never}
=============================================================================
