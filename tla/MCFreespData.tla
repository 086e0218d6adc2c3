---------------------------- MODULE MCFreespData ----------------------------
(* A two-AG filesystem with 100-block AGs (agblklog 7) and a 10-bit int.   *)
(* AG 0: a two-level bno btree and a one-level cnt btree over three free  *)
(* extents, and a sane two-block AGFL.  AG 1: a one-level bno btree, a    *)
(* two-level cnt btree whose second leaf has a bad magic, and an AGFL     *)
(* whose flfirst/fllast are out of range.                                  *)
EXTENDS Naturals, Sequences


T(o, v) == [o |-> o, v |-> v]
Rec(b, l) == [bno |-> b, len |-> l]

MCAgfl(a) == IF a = 0 THEN <<2, 3>> ELSE <<5>>
MCAgflValid(a) == a = 0
MCRoot(a, typ) ==
  CASE a = 0 /\ typ = "bno" -> "n0" [] a = 0 /\ typ = "cnt" -> "c0"
    [] a = 1 /\ typ = "bno" -> "l1" [] OTHER -> "cn1"
MCLevels(a, typ) == IF MCRoot(a, typ) \in {"n0", "cn1"} THEN 2 ELSE 1
MCPtrs(b) ==
  CASE b = "n0" -> <<"l0a", "l0b">> [] b = "cn1" -> <<"c1a", "c1b">> [] OTHER -> <<>>
MCRecs(b) ==
  CASE b = "l0a" -> <<Rec(10, 4), Rec(20, 2)>>
    [] b = "l0b" -> <<Rec(40, 8)>>
    [] b = "c0"  -> <<Rec(20, 2), Rec(10, 4), Rec(40, 8)>>
    [] b = "l1"  -> <<Rec(8, 3), Rec(61, 1)>>
    [] b = "c1a" -> <<Rec(61, 1)>>
    [] b = "c1b" -> <<Rec(8, 3)>>
    [] OTHER -> <<>>
MCMagicOK(b, typ) ==
  IF typ = "bno" THEN b \in {"n0", "l0a", "l0b", "l1"} ELSE b \in {"c0", "cn1", "c1a"}
MCFreeRecs(a) ==
  IF a = 0 THEN {Rec(10, 4), Rec(20, 2), Rec(40, 8)} ELSE {Rec(8, 3), Rec(61, 1)}
MCTreeBlocks(a, typ) ==
  CASE a = 0 /\ typ = "bno" -> {"n0", "l0a", "l0b"} [] a = 0 /\ typ = "cnt" -> {"c0"}
    [] a = 1 /\ typ = "bno" -> {"l1"} [] OTHER -> {"cn1", "c1a", "c1b"}

\* Command lines: the defaults, each bin kind, -h, AG and alignment
\* selection, the cnt btree, and each way init refuses its arguments.
MCArgs ==
  { <<>>,
    <<T("c", 0), T("m", 3)>>,
    <<T("e", 33), T("s", 0), T("d", 0)>>,
    <<T("h", 5), T("h", 20)>>,
    <<T("a", 1), T("A", 2)>>,
    <<T("A", 0), T("c", 0)>>,
    <<T("b", 0), T("m", 3)>>,
    <<T("h", 5), T("b", 0)>>,
    <<T("b", 0), T("h", 5)>>,
    <<T("x", 0)>>,
    <<T("d", 0), T("word", 0)>> }

\* freesp -A 2, then freesp.
MCArgsAlign == { <<T("A", 2)>>, <<>> }

MCUnreadable == {"l0b"}
=============================================================================
