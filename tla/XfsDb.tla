-------------------------------- MODULE XfsDb --------------------------------
(***************************************************************************)
(* An xfs_db session: the freesp command (Freesp), the log commands       *)
(* (Logformat) and the print of an inode's shortform attr fork            *)
(* (AttrShort, which reads fields with BitVal's getbitval) share one      *)
(* command loop, which runs a command to its end before it reads the     *)
(* next, and one build, whose int width freesp and logformat both use.   *)
(* freesp's option globals and cursor stack persist across the other     *)
(* commands, and the log across freesp commands.                           *)
(***************************************************************************)
EXTENDS Naturals

CONSTANTS
  Args, AgCount, AgBlocks, AgBlkLog, IntBits, Agfl(_), AgflValid(_),
  Root(_, _), Levels(_, _), Ptrs(_), Recs(_), MagicOK(_, _), Unreadable,
  FreeRecs(_), TreeBlocks(_, _), MaxDepth, MaxBuckets,
  BlockSize, LogV2, SbLogSunit, MaxLsunit, Reflink, ItemSpace, FinishRes,
  LogformatArgs, UntornArgs, InitLogs,
  ObjBytes, ParentRecSize, SfForks, CorruptObjs

VARIABLES
  pc, cmd, argv, aglist, alignment, countflag, equalsize, multsize, seen1,
  speced, i, bounds, hasBuckets, obs, agno, depth,
  xlog, lfRet, untornOut,
  sfOut

F == INSTANCE Freesp
L == INSTANCE Logformat
A == INSTANCE AttrShort

freespVars == <<pc, cmd, argv, aglist, alignment, countflag, equalsize, multsize,
                seen1, speced, i, bounds, hasBuckets, obs, agno, depth>>
logVars == <<xlog, lfRet, untornOut>>
allVars == <<freespVars, logVars, sfOut>>

Init == F!Init /\ L!Init /\ A!Init

\* A freesp step, or a whole log or print command between two freesp
\* commands.  What a print showed is replaced by the next command's output.
Next ==
  \/ F!Next /\ sfOut' = A!NoPrint /\ UNCHANGED logVars
  \/ pc = "idle" /\ L!Next /\ sfOut' = A!NoPrint /\ UNCHANGED freespVars
  \/ pc = "idle" /\ A!Next /\ UNCHANGED <<freespVars, logVars>>

Spec == Init /\ [][Next]_allVars

-----------------------------------------------------------------------------
(* The components' properties, checked over the session.                  *)

\* The histogram of every freesp command holds the free extents of the
\* selected AGs that pass the alignment filter in force.
HistogramCountsScan == F!HistogramCountsScan

\* A successful logformat leaves a clean log with a valid stripe unit.
LogformatFormatsValid == L!LogformatFormatsValid

\* untorn_write_max -l reports the largest block count that fits.
MaxAwuFits == L!MaxAwuFits

\* The print of a kernel-written attr fork shows exactly its entries.
AttrShortPrintsEntries == A!AttrShortPrintsEntries
=============================================================================
