--------------------------- MODULE MCReplayGuard ---------------------------
(* TLC instance of ReplayGuard and of its refinement.  No symmetry set:    *)
(* the run has a liveness property.                                        *)
EXTENDS ReplayGuardRefines, TLC
=============================================================================
