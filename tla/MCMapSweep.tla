----------------------------- MODULE MCMapSweep -----------------------------
(***************************************************************************)
(* A small instance of MapSweep for TLC: more keys than a batch inspects,  *)
(* so that a pass takes several calls and the Map changes under it.        *)
(***************************************************************************)
EXTENDS MapSweep

CONSTANTS k1, k2, k3
=============================================================================
