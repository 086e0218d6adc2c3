----------------------------- MODULE HandleUsers -----------------------------
(***************************************************************************)
(* Two users of file handles checked in one run: phase 5 of xfs_scrub     *)
(* (Phase5, src/scrub/phase5.c), which lists and opens inodes through the *)
(* handles bulkstat gave it, and the jdm wrappers of libhandle (Jdm,      *)
(* src/libhandle/jdm.c) with their caller.  They share no state, so each *)
(* property holds of the composition exactly when it holds of its         *)
(* component alone.  The run explores them one after the other: the jdm   *)
(* caller starts once phase 5 has returned success (any final state of    *)
(* phase 5 would do, jdm reading none of its variables).  Every behaviour *)
(* of each component is still explored, without the product of their     *)
(* states.                                                                 *)
(* Phase 5's fairness applies unchanged.                                   *)
(***************************************************************************)

CONSTANTS
  Workers, Inodes, NrAttrNs,       \* Phase5
  Ino, MaxGen, ListMax, BufSizes   \* Jdm

VARIABLES
  pc, ret, fsAborted, items, wq, running, inoAborted, results,
  phaseRet, fsOutcome, fdOpens, fdCloses,   \* Phase5
  inode, fsh, bs, fh, last                  \* Jdm

P == INSTANCE Phase5
J == INSTANCE Jdm

p5Vars == <<pc, ret, fsAborted, items, wq, running, inoAborted, results,
            phaseRet, fsOutcome, fdOpens, fdCloses>>
jVars == <<inode, fsh, bs, fh, last>>

Init == P!Init /\ J!Init

Next ==
  \/ P!Next /\ UNCHANGED jVars
  \/ pc = "done" /\ phaseRet = "0" /\ J!Next /\ UNCHANGED p5Vars

Spec == Init /\ [][Next]_<<p5Vars, jVars>>

-----------------------------------------------------------------------------
(* The components' properties                                              *)

\* Phase 5's and the jdm caller's variables keep their types.
TypeOK == P!TypeOK /\ J!TypeOK

\* Phase 5 reports success only after clean scanners and name checks.
SuccessMeansClean == P!SuccessMeansClean

\* Every directory fd check_inode_names opens is closed exactly once.
FdClosedOnce == P!FdClosedOnce

\* Phase 5 returns ECANCELED only after a real failure of some thread.
CancelledOnlyOnFailure == P!CancelledOnlyOnFailure

\* A jdm by-handle call succeeds exactly on the live incarnation bulkstat saw.
JdmCallsReachBulkstatInode == J!JdmCallsReachBulkstatInode

=============================================================================
