------------------------- MODULE MCMessageRequests --------------------------
(***************************************************************************)
(* Two calls of a request and batches of up to two messages: one can take  *)
(* over from the other anywhere, and a batch can be half archived when it  *)
(* is replayed.                                                            *)
(***************************************************************************)
EXTENDS MessageRequests
=============================================================================
