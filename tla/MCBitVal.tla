------------------------------ MODULE MCBitVal ------------------------------
(* BitVal with 2-bit bytes (16-bit int64_t), a 9-byte object so that a     *)
(* full-width field fits at an unaligned offset, and objects that start    *)
(* all clear, all set, or alternating.                                     *)
EXTENDS BitVal

MCInitBufs ==
  { [j \in 0..(BufBytes - 1) |-> 0],
    [j \in 0..(BufBytes - 1) |-> 2^NBBY - 1],
    [j \in 0..(BufBytes - 1) |-> IF j % 2 = 0 THEN 2 ELSE 1] }
=============================================================================
