---------------------------- MODULE MCVaultLogin ----------------------------
(***************************************************************************)
(* Two logins, two racing callbacks and two racing exchanges, at instances *)
(* of both providers and of every device-binding policy.                   *)
(***************************************************************************)
EXTENDS OidcVault

CONSTANTS l1, l2, c1, c2, e1, e2, p1, p2

MCConfig ==
  [r \in Requests |->
     [policy   |-> IF r = e2 THEN "disabled" ELSE IF r = l2 THEN "required" ELSE "optional",
      provider |-> IF r = e2 THEN p2 ELSE p1]]

MCToken == [b \in {} |-> {}]

MCDeadlines == 0..4 \cup {Never}
=============================================================================
