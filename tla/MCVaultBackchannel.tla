------------------------- MODULE MCVaultBackchannel -------------------------
(***************************************************************************)
(* A session and a refresh of it, at an instance without device binding,   *)
(* against three back-channel logout requests: two presentations of one    *)
(* token about the subject, and a token of another provider that happens   *)
(* to have the same JTI and is about a provider session.                   *)
(***************************************************************************)
EXTENDS OidcVault

CONSTANTS b1, b2, b3, p1, p2, alice, s1

MCConfig ==
  [r \in Requests |-> [policy |-> "disabled", provider |-> IF r = b3 THEN p2 ELSE p1]]

MCToken ==
  [b \in Backchannels |->
     [jti |-> b1, subject |-> alice, sid |-> IF b = b3 THEN s1 ELSE Undefined, expiresAt |-> 2]]

MCDeadlines == 0..4 \cup {Never}
=============================================================================
