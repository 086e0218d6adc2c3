------------------------------ MODULE MCLibfrog ------------------------------
(* The path a chattr or lsattr names is a regular file r or a FIFO p;     *)
(* r's attributes other than xflags are all different and nonzero, so a *)
(* field lost or swapped in a conversion changes what is set.            *)
EXTENDS Libfrog, TLC

CONSTANTS r, p

MCKind == (r :> "reg" @@ p :> "fifo")

MCInitAttrs ==
  (r :> [xflags |-> 0, extsize |-> 2, nextents |-> 1, projid |-> 3, cowextsize |-> 4]
   @@ p :> [xflags |-> 0, extsize |-> 0, nextents |-> 0, projid |-> 0, cowextsize |-> 0])
=============================================================================
