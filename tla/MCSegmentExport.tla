-------------------------- MODULE MCSegmentExport --------------------------
(***************************************************************************)
(* A small API process for SegmentExport.                                  *)
(***************************************************************************)
EXTENDS ExportRefinement, TLC

MCCustomer == 1 .. 2
=============================================================================
