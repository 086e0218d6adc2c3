------------------------------- MODULE Freesp -------------------------------
(***************************************************************************)
(* xfs_db's freesp command (src/db/freesp.c) over a session of commands.   *)
(* One command: init() resets the options and parses argv with getopt     *)
(* (one step per option), histinit() adds the histogram's bucket bounds    *)
(* (one step per loop iteration, in the int width of the build), then      *)
(* freesp_f scans every allocation group of the aglist (one step per AG:   *)
(* the AGFL walk and the recursive free-space btree walk) and frees the    *)
(* histogram.  The option globals persist between commands, as does the   *)
(* xfs_db cursor stack, whose depth is tracked.  Output (dumpflag,        *)
(* summaryflag, printhist) is left out.                                    *)
(***************************************************************************)
EXTENDS Naturals, Integers, Sequences, SequencesExt

CONSTANTS
  Args,           \* the command lines tried: sequences of tokens [o, v]
  AgCount,        \* sb_agcount
  AgBlocks,       \* sb_agblocks, the maxlen of histinit
  AgBlkLog,       \* sb_agblklog
  IntBits,        \* width of int (32 in the code)
  Agfl(_),        \* AG -> the agbnos on its AGFL
  AgflValid(_),   \* AG -> agf_flfirst and agf_fllast below the AGFL size
  Root(_, _),     \* AG, "bno"/"cnt" -> root block of that btree
  Levels(_, _),   \* AG, "bno"/"cnt" -> agf level of that btree
  Ptrs(_),        \* block -> its child pointers (node blocks)
  Recs(_),        \* block -> its records [bno, len] (leaf blocks)
  MagicOK(_, _),  \* block, "bno"/"cnt" -> it carries that tree's magic
  Unreadable,     \* blocks set_cur cannot read
  FreeRecs(_),    \* AG -> the free extents [bno, len] its btrees index
  TreeBlocks(_, _), \* AG, "bno"/"cnt" -> every block of that btree
  MaxDepth,       \* bound on the cursor stack depth explored
  MaxBuckets      \* bound on histinit's bucket count explored

VARIABLES
  pc,         \* "idle", "getopt", "histinit", "scan" or "report"
  cmd,        \* the argv of the current (or last) command
  argv,       \* the options getopt has still to return
  aglist,     \* aglist[0..agcount-1], as a sequence
  alignment, countflag, equalsize, multsize, seen1, speced,
  i,          \* histinit's loop variable
  bounds,     \* the bucket bounds histinit added, in order
  hasBuckets, \* hist_buckets(&freesp_hist) != 0, the only test made of it
  obs,        \* extents hist_add has seen: [ag, bno, len]
  agno,       \* freesp_f's loop variable
  depth       \* cursors pushed above the one the user had

vars == <<pc, cmd, argv, aglist, alignment, countflag, equalsize, multsize,
          seen1, speced, i, bounds, hasBuckets, obs, agno, depth>>
opts == <<aglist, alignment, countflag, equalsize, multsize, seen1, speced>>
hist == <<i, bounds, hasBuckets, obs>>

\* Two's-complement wrap of an int result (signed overflow, as built).
Wrap(x) == ((x + 2^(IntBits - 1)) % 2^IntBits) - 2^(IntBits - 1)

Tree == IF countflag = 1 THEN "cnt" ELSE "bno"

-----------------------------------------------------------------------------
(* freesp_f's scan, for one AG, as recursive operators.  A result is the   *)
(* sequence of extents given to hist_add and the number of cursors pushed  *)
(* and never popped.                                                       *)

\* XFS_AGB_TO_FSB
AgbToFsb(a, bno) == a * 2^AgBlkLog + bno

\* addtohist's alignment filter.
AddToHist(a, bno, len) ==
  IF alignment # 0 /\ AgbToFsb(a, bno) % alignment # 0 THEN <<>>
  ELSE <<[ag |-> a, bno |-> bno, len |-> len]>>

None == [ext |-> <<>>, leak |-> 0]
Join(r, s) == [ext |-> r.ext \o s.ext, leak |-> r.leak + s.leak]

RECURSIVE ScanSbtree(_, _, _, _), ScanChildren(_, _, _, _, _)

\* scan_sbtree: push a cursor on the block; an unreadable block returns
\* without popping it.
ScanSbtree(a, typ, root, nlevels) ==
  IF root \in Unreadable THEN [ext |-> <<>>, leak |-> 1]
  ELSE LET level == nlevels - 1 IN
       IF ~MagicOK(root, typ) THEN None
       ELSE IF level = 0
            THEN [ext |-> FoldLeft(LAMBDA acc, r : acc \o AddToHist(a, r.bno, r.len),
                                   <<>>, Recs(root)),
                  leak |-> 0]
            ELSE ScanChildren(a, typ, root, level, 1)

\* scanfunc_bno / scanfunc_cnt on a node: scan_sbtree on each pointer.
ScanChildren(a, typ, b, level, k) ==
  IF k > Len(Ptrs(b)) THEN None
  ELSE Join(ScanSbtree(a, typ, Ptrs(b)[k], level),
            ScanChildren(a, typ, b, level, k + 1))

\* scan_freelist: nothing for an empty AGFL, nothing (with a message) for
\* a bad flfirst/fllast, otherwise each AGFL block as a 1-block extent.
ScanFreelist(a) ==
  IF Agfl(a) = <<>> \/ ~AgflValid(a) THEN <<>>
  ELSE FoldLeft(LAMBDA acc, bno : acc \o AddToHist(a, bno, 1), <<>>, Agfl(a))

\* scan_ag: the AGF cursor is pushed and popped around both scans.
ScanAg(a) ==
  LET t == ScanSbtree(a, Tree, Root(a, Tree), Levels(a, Tree))
  IN  [ext |-> ScanFreelist(a) \o t.ext, leak |-> t.leak]

\* Plausible bug: the aglist is not consulted.
InAgListAll(a) == TRUE

InAgList(a) == aglist = <<>> \/ \E k \in 1..Len(aglist) : aglist[k] = a

-----------------------------------------------------------------------------
(* init: the option loop                                                   *)

\* init's resets (lines 126-128); alignment is not among them.
FreespStart(args) ==
  /\ pc = "idle"
  /\ depth < MaxDepth
  /\ pc' = "getopt"
  /\ cmd' = args
  /\ argv' = args
  /\ aglist' = <<>>
  /\ countflag' = 0
  /\ equalsize' = 0
  /\ multsize' = 0
  /\ seen1' = 0
  /\ speced' = FALSE
  /\ UNCHANGED <<alignment, hist, agno, depth>>

\* usage(): init returns 0 and so does freesp_f; nothing is freed.
Usage ==
  /\ pc' = "idle"
  /\ argv' = <<>>
  /\ UNCHANGED <<cmd, opts, hist, agno, depth>>

\* Options that only set a global: -A, -a, -c, -d, -s.  A non-option
\* word is permuted to the end by getopt and left for the optind test.
GetoptFlag ==
  LET t == Head(argv) IN
  /\ t.o \in {"A", "a", "c", "d", "s", "word"}
  /\ argv' = Tail(argv)
  /\ alignment' = IF t.o = "A" THEN t.v ELSE alignment
  /\ aglist' = IF t.o = "a" THEN Append(aglist, t.v) ELSE aglist
  /\ countflag' = IF t.o = "c" THEN 1 ELSE countflag
  /\ UNCHANGED <<pc, cmd, equalsize, multsize, seen1, speced, hist, agno, depth>>

\* -b, -e, -m: one bin kind, refused after any other.
GetoptBin ==
  LET t == Head(argv) IN
  /\ t.o \in {"b", "e", "m"}
  /\ \/ /\ speced
        /\ Usage
     \/ /\ ~speced
        /\ argv' = Tail(argv)
        /\ speced' = TRUE
        /\ multsize' = CASE t.o = "b" -> 2 [] t.o = "m" -> t.v [] OTHER -> multsize
        /\ equalsize' = IF t.o = "e" THEN t.v ELSE equalsize
        /\ UNCHANGED <<pc, cmd, aglist, alignment, countflag, seen1, hist, agno, depth>>

\* -h: refused after -b/-e/-m, i.e. when speced but no bucket was added.
GetoptHist ==
  /\ Head(argv).o = "h"
  /\ \/ /\ speced /\ ~hasBuckets
        /\ Usage
     \/ /\ ~(speced /\ ~hasBuckets)
        /\ argv' = Tail(argv)
        /\ hasBuckets' = TRUE
        /\ speced' = TRUE
        /\ UNCHANGED <<pc, cmd, aglist, alignment, countflag, equalsize, multsize,
                       seen1, i, bounds, obs, agno, depth>>

\* Any other option character.
GetoptBad ==
  /\ Head(argv).o \notin {"A", "a", "c", "d", "s", "word", "b", "e", "m", "h"}
  /\ Usage

\* histinit's loop test, i < maxlen.
LoopTest(x) == x < AgBlocks

\* The first bucket bound of histinit's loops (i = 1).
HistInitFirst == 1

\* getopt is done: the optind test, the default -b, and histinit's entry.
GetoptEnd ==
  /\ argv = <<>>
  /\ \/ /\ \E k \in 1..Len(cmd) : cmd[k].o = "word"
        /\ Usage
     \/ /\ \A k \in 1..Len(cmd) : cmd[k].o # "word"
        /\ multsize' = IF speced THEN multsize ELSE 2
        /\ i' = HistInitFirst
        /\ pc' = "histinit"
        /\ UNCHANGED <<cmd, argv, aglist, alignment, countflag, equalsize, seen1,
                       speced, bounds, hasBuckets, obs, agno, depth>>

Getopt ==
  /\ pc = "getopt"
  /\ \/ argv # <<>> /\ (GetoptFlag \/ GetoptBin \/ GetoptHist \/ GetoptBad)
     \/ GetoptEnd

-----------------------------------------------------------------------------
(* histinit: one step per loop iteration                                   *)

\* The loop body: addhistent(i), then i += equalsize or i *= multsize, in
\* int arithmetic.
HistInitAdd ==
  /\ pc = "histinit"
  /\ equalsize # 0 \/ multsize # 0
  /\ LoopTest(i)
  /\ Len(bounds) < MaxBuckets
  /\ bounds' = Append(bounds, i)
  /\ hasBuckets' = TRUE
  /\ i' = IF equalsize # 0 THEN Wrap(i + equalsize) ELSE Wrap(i * multsize)
  /\ UNCHANGED <<pc, cmd, argv, opts, obs, agno, depth>>

\* The loop test fails, or neither bin kind is set (then one bucket from 1
\* unless seen1); hist_prepare, and freesp_f's AG loop starts.
HistInitEnd ==
  /\ pc = "histinit"
  /\ \/ /\ equalsize # 0 \/ multsize # 0
        /\ ~LoopTest(i)
        /\ UNCHANGED <<bounds, hasBuckets>>
     \/ /\ equalsize = 0 /\ multsize = 0
        /\ bounds' = IF seen1 = 0 THEN Append(bounds, 1) ELSE bounds
        /\ hasBuckets' = (seen1 = 0 \/ hasBuckets)
  /\ pc' = "scan"
  /\ agno' = 0
  /\ UNCHANGED <<cmd, argv, opts, i, obs, depth>>

-----------------------------------------------------------------------------
(* freesp_f: the AG loop and the return                                    *)

\* One AG: scanned if inaglist, its extents added to the histogram and its
\* unpopped cursors left on the stack.
ScanStep ==
  /\ pc = "scan"
  /\ agno < AgCount
  /\ LET r == IF InAgList(agno) THEN ScanAg(agno) ELSE None
     IN  /\ obs' = obs \o r.ext
         /\ depth' = depth + r.leak
  /\ agno' = agno + 1
  /\ UNCHANGED <<pc, cmd, argv, opts, i, bounds, hasBuckets>>

ScanEnd ==
  /\ pc = "scan"
  /\ agno = AgCount
  /\ pc' = "report"
  /\ UNCHANGED <<cmd, argv, opts, hist, agno, depth>>

\* printhist and hist_summarize (output), xfree(aglist), hist_free.
FreespReturn ==
  /\ pc = "report"
  /\ pc' = "idle"
  /\ bounds' = <<>>
  /\ hasBuckets' = FALSE
  /\ obs' = <<>>
  /\ UNCHANGED <<cmd, argv, opts, i, agno, depth>>

Init ==
  /\ pc = "idle"
  /\ cmd = <<>>
  /\ argv = <<>>
  /\ aglist = <<>>
  /\ alignment = 0
  /\ countflag = 0
  /\ equalsize = 0
  /\ multsize = 0
  /\ seen1 = 0
  /\ speced = FALSE
  /\ i = 0
  /\ bounds = <<>>
  /\ hasBuckets = FALSE
  /\ obs = <<>>
  /\ agno = 0
  /\ depth = 0

\* The steps of a running command.
Command == Getopt \/ HistInitAdd \/ HistInitEnd \/ ScanStep \/ ScanEnd \/ FreespReturn

Next == (\E args \in Args : FreespStart(args)) \/ Command

Spec == Init /\ [][Next]_vars

\* xfs_db runs a command to its end before reading the next one.
FairSpec == Spec /\ WF_vars(Command)

-----------------------------------------------------------------------------
(* Properties                                                              *)

\* The free extents of AG a that the scan can report: its btree records,
\* and its AGFL blocks when the AGF's AGFL indexes are sane.
FreeExtents(a) ==
  { [ag |-> a, bno |-> r.bno, len |-> r.len] : r \in FreeRecs(a) } \cup
  IF AgflValid(a) THEN { [ag |-> a, bno |-> b, len |-> 1] : b \in ToSet(Agfl(a)) }
                  ELSE {}

Healthy(a, typ) == \A b \in TreeBlocks(a, typ) : b \notin Unreadable /\ MagicOK(b, typ)

\* At the end of the scan, with alignment al: every extent in the histogram
\* is a free extent of an AG the command line asked for with -a (all AGs
\* without -a) that is al-aligned, none
\* is counted twice, and every such extent of a selected AG whose btree
\* is readable and well-formed is counted.
HistogramCounts(al) ==
  LET Asked == { cmd[k].v : k \in { k \in 1..Len(cmd) : cmd[k].o = "a" } }
      Sel == IF Asked = {} THEN 0..(AgCount - 1) ELSE Asked \cap 0..(AgCount - 1)
      Aligned(e) == al = 0 \/ AgbToFsb(e.ag, e.bno) % al = 0
  IN  pc = "report" =>
        /\ \A k \in 1..Len(obs) :
             Aligned(obs[k]) /\ \E a \in Sel : obs[k] \in FreeExtents(a)
        /\ Len(obs) = Cardinality(ToSet(obs))
        /\ \A a \in Sel : Healthy(a, Tree) =>
             { e \in FreeExtents(a) : Aligned(e) } \subseteq ToSet(obs)

\* freesp's histogram is the free space of the AGs it was asked for, under
\* the alignment filter in force.
HistogramCountsScan == HistogramCounts(alignment)

\* The -A alignment given to this command, 0 when it has none.
CmdAlignment ==
  LET As == { k \in 1..Len(cmd) : cmd[k].o = "A" }
  IN  IF As = {} THEN 0 ELSE cmd[Max(As)].v

\* freesp's histogram is filtered by the alignment of its own command line
\* (a command without -A counts every free extent).
HistogramThisCommand == HistogramCounts(CmdAlignment)

\* histinit's bucket bounds rise strictly from 1 and stay below maxlen.
\* Violated by freesp -m -1 (bounds 1, -1, 1, ...), -m 1 (1, 1, ...) and,
\* in a 10-bit int, -m 40 (i wraps negative): histinit checks neither -m
\* nor -e.
HistBucketsInRange ==
  \A k \in 1..Len(bounds) :
    /\ 1 <= bounds[k] /\ bounds[k] < AgBlocks
    /\ k > 1 => bounds[k - 1] < bounds[k]

\* When a freesp command has returned, xfs_db's cursor stack is where the
\* user left it.
CursorRestored == pc = "idle" => depth = 0

\* Every freesp command returns.  Violated by -m 1 and -m -1, for which
\* histinit's loop never ends (in the model, it stops at MaxBuckets with
\* the loop test still true).
FreespReturns == pc # "idle" ~> pc = "idle"

=============================================================================
