---------------------------- MODULE MCResumeHolds ----------------------------
(***************************************************************************)
(* Model values for checking ResumeHolds with TLC.                         *)
(***************************************************************************)
EXTENDS ResumeHolds, TLC

CONSTANTS e1, a1, h1, h2, h3, r1, r2, r3

HoldSymmetry == Permutations(Hold)

RequestSymmetry == Permutations(Run) \cup Permutations(Hold)
=============================================================================
