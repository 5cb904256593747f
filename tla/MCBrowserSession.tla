-------------------------- MODULE MCBrowserSession --------------------------
(***************************************************************************)
(* Two tabs, three calls and one reload, from no session or from one that  *)
(* both tabs can use.                                                      *)
(***************************************************************************)
EXTENDS BrowserSession, TLC

CONSTANTS t1, t2

Symmetry == Permutations({t1, t2})
=============================================================================
