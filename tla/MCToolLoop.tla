------------------------------ MODULE MCToolLoop ------------------------------
(***************************************************************************)
(* Three call names: enough for a batch of one executed call, one question  *)
(* and one hook permission.  They are no symmetry set, for SegmentEnds.     *)
(***************************************************************************)
EXTENDS ToolLoop
=============================================================================
