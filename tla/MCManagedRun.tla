----------------------------- MODULE MCManagedRun -----------------------------
(***************************************************************************)
(* ManagedRun is small enough to be checked as it is, for both entry        *)
(* points.                                                                 *)
(***************************************************************************)
EXTENDS ManagedRun
=============================================================================
