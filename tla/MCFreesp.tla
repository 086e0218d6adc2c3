------------------------------ MODULE MCFreesp ------------------------------
(* Freesp alone, over the filesystem of MCFreespData.                     *)
EXTENDS Freesp, MCFreespData
=============================================================================
