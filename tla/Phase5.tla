------------------------------- MODULE Phase5 -------------------------------
(***************************************************************************)
(* Phase 5 of xfs_scrub (src/scrub/phase5.c).  phase5_func first runs the  *)
(* two full-filesystem scan scrubbers (nlinks, then quotacheck) as jobs on *)
(* a workqueue, sharing one unlocked "aborted" flag, and joins them.  If   *)
(* that succeeded and the filesystem is clean, it checks the label and     *)
(* then has the inode scanner call check_inode_names for every inode on   *)
(* several threads, again sharing one "aborted" flag.                      *)
(*                                                                         *)
(* The results of system calls and of the scrub/repair helpers the phase   *)
(* calls (scrub_nlinks, action_list_process, attr_list_by_handle, readdir, *)
(* the unicrash checks, ...) are inputs, chosen from small sets.  Errno    *)
(* values are strings, "0" meaning success.  A call of check_inode_names   *)
(* is one step: its only shared state is "aborted", which it writes once   *)
(* (line 317) and reads once after that (line 318), so every ordering of   *)
(* the calls' reads and writes is an ordering of whole calls.              *)
(***************************************************************************)
EXTENDS Naturals, Sequences, FiniteSets

CONSTANTS
  Workers,     \* threads of the fs scan workqueue (scrub_nproc_workqueue)
  Inodes,      \* inodes the inode scanner hands to check_inode_names
  NrAttrNs     \* entries of attr_ns[] before its NULL terminator (3)

Fns == <<"nlinks", "quotacheck">>   \* queued in this order (lines 488, 495)
NoJob == "none"

VARIABLES
  pc,          \* where the phase5_func thread is
  ret,         \* ret of run_kernel_fs_scan_scrubbers
  fsAborted,   \* aborted of run_kernel_fs_scan_scrubbers (line 474)
  items,       \* [fn -> "none" | "alloc" | "freed"]: its fs_scan_item
  wq,          \* jobs queued and not yet taken, oldest first
  running,     \* [Workers -> fs scan job being run, or NoJob]
  inoAborted,  \* aborted of phase5_func (line 518)
  results,     \* [Inodes -> what check_inode_names returned, "-" if not called]
  phaseRet,    \* what phase5_func returned, "-" until it returns
  fsOutcome,   \* history: [fn -> "-" | "ok" | "failed"] per fs scan job
  fdOpens,     \* history: directory fds opened by check_inode_names
  fdCloses     \* history: close() and closedir() calls on those fds

vars == <<pc, ret, fsAborted, items, wq, running, inoAborted, results,
          phaseRet, fsOutcome, fdOpens, fdCloses>>
fsVars == <<fsAborted, items, wq, running, fsOutcome>>
inoVars == <<inoAborted, results, fdOpens, fdCloses>>

Errs == {"EIO", "ENOMEM", "ESTALE", "ECANCELED"}
Errno == Errs \cup {"0"}

-----------------------------------------------------------------------------
(* check_xattr_ns_names, check_xattr_names, check_dirent_names,            *)
(* check_inode_names as operators of what the calls they make return.      *)

\* What one namespace scan meets: unicrash_xattr_init fails, a name check
\* fails, attr_list_by_handle fails with ESTALE or another errno, or not.
XattrOutcomes == {"ok", "initerr", "nameerr", "estale", "listerr"}

\* check_xattr_ns_names: a list failure with errno ESTALE is turned into
\* success (lines 205-208); other failures are returned.
CheckXattrNsNames(o) == IF o \in {"ok", "estale"} THEN "0" ELSE "EIO"

\* check_xattr_names: the namespaces in order, stopping at the first error.
CheckXattrNames(os) ==
  LET bad == { n \in 1..NrAttrNs : CheckXattrNsNames(os[n]) # "0" }
  IN  IF bad = {} THEN "0"
      ELSE CheckXattrNsNames(os[CHOOSE n \in bad : \A m \in bad : n <= m])

\* What a directory scan meets: fdopendir fails, unicrash_dir_init fails,
\* a name check fails, readdir fails, or none of these.
DirentOutcomes == {"ok", "opendirfail", "initerr", "nameerr", "readerr"}

\* Plausible bug: the fd is handed to fdopendir without *fd = -1.
CheckDirentNamesNoReset(o) ==
  [ret |-> IF o = "ok" THEN "0" ELSE "EIO",
   closedir |-> o # "opendirfail", fdReset |-> FALSE]

\* check_dirent_names: its result, whether it ends with closedir (which
\* closes the fd), and whether it set the caller's *fd to -1.
CheckDirentNames(o) ==
  [ret |-> IF o = "ok" THEN "0" ELSE "EIO",
   closedir |-> o # "opendirfail", fdReset |-> o # "opendirfail"]

\* What one call of check_inode_names meets.
InodeInputs ==
  [hasAttr : {FALSE}, xattr : {[n \in 1..NrAttrNs |-> "ok"]},
   isDir : BOOLEAN, open : {"ok", "estale", "fail"},
   dirent : DirentOutcomes, closeOK : BOOLEAN]
  \cup
  [hasAttr : {TRUE}, xattr : [1..NrAttrNs -> XattrOutcomes],
   isDir : BOOLEAN, open : {"ok", "estale", "fail"},
   dirent : DirentOutcomes, closeOK : BOOLEAN]

\* Plausible bug: the ESTALE return of scrub_open_handle goes to out like
\* the other errors, so *aborted is set.
CheckInodeNamesEstaleAborts(in, ab) ==
  LET xret   == IF in.hasAttr THEN CheckXattrNames(in.xattr) ELSE "0"
      doDir  == xret = "0" /\ in.isDir
      opened == doDir /\ in.open = "ok"
      d      == CheckDirentNames(in.dirent)
      closedHere == opened /\ ~d.fdReset
      err0   == CASE xret # "0"                 -> xret
                  [] doDir /\ in.open = "fail"  -> "EIO"
                  [] opened                     -> d.ret
                  [] OTHER                      -> "0"
      err1   == IF err0 = "0" /\ closedHere /\ ~in.closeOK THEN "EIO" ELSE err0
  IN  IF doDir /\ in.open = "estale"
        THEN [ret |-> "ESTALE", opened |-> FALSE, closes |-> 0, aborted |-> TRUE]
        ELSE [ret |-> IF err1 = "0" /\ ab THEN "ECANCELED" ELSE err1,
              opened |-> opened,
              closes |-> (IF opened /\ d.closedir THEN 1 ELSE 0)
                         + (IF closedHere THEN 1 ELSE 0),
              aborted |-> ab \/ err1 # "0"]

\* check_inode_names(in) with *aborted = ab: what it returns, whether it
\* opened a directory fd, how many closes that fd got, the new *aborted.
CheckInodeNames(in, ab) ==
  LET xret   == IF in.hasAttr THEN CheckXattrNames(in.xattr) ELSE "0"
      doDir  == xret = "0" /\ in.isDir
      opened == doDir /\ in.open = "ok"
      d      == CheckDirentNames(in.dirent)
      closedHere == opened /\ ~d.fdReset        \* fd >= 0 at out: (line 308)
      err0   == CASE xret # "0"                 -> xret
                  [] doDir /\ in.open = "fail"  -> "EIO"
                  [] opened                     -> d.ret
                  [] OTHER                      -> "0"
      err1   == IF err0 = "0" /\ closedHere /\ ~in.closeOK THEN "EIO" ELSE err0
  IN  IF doDir /\ in.open = "estale"
        THEN [ret |-> "ESTALE", opened |-> FALSE, closes |-> 0, aborted |-> ab]
        ELSE [ret |-> IF err1 = "0" /\ ab THEN "ECANCELED" ELSE err1,
              opened |-> opened,
              closes |-> (IF opened /\ d.closedir THEN 1 ELSE 0)
                         + (IF closedHere THEN 1 ELSE 0),
              aborted |-> ab \/ err1 # "0"]

-----------------------------------------------------------------------------
(* run_kernel_fs_scan_scrubbers and its workqueue.                         *)

\* workqueue_create: on failure the phase returns its error.
WorkqueueCreate(ok) ==
  /\ pc = "create"
  /\ \/ ok /\ pc' = "queue1" /\ UNCHANGED phaseRet
     \/ ~ok /\ pc' = "done" /\ phaseRet' = "ENOMEM"
  /\ UNCHANGED <<ret, fsVars, inoVars>>

\* queue_fs_scan for the n-th scanner: malloc of the item may fail, and so
\* may workqueue_add, which leaves the item allocated.  On failure the
\* caller jumps to wait; after the first scanner it queues the second.
QueueFsScan(outcome) ==
  LET n  == IF pc = "queue1" THEN 1 ELSE 2
      fn == Fns[n]
  IN
  /\ pc \in {"queue1", "queue2"}
  /\ CASE outcome = "nomem" ->
            /\ ret' = "ENOMEM" /\ pc' = "wait" /\ UNCHANGED <<items, wq>>
       [] outcome = "addfail" ->
            /\ ret' = "EIO" /\ pc' = "wait" /\ UNCHANGED wq
            /\ items' = [items EXCEPT ![fn] = "alloc"]
       [] outcome = "ok" ->
            /\ ret' = "0" /\ pc' = IF n = 1 THEN "queue2" ELSE "wait"
            /\ items' = [items EXCEPT ![fn] = "alloc"]
            /\ wq' = Append(wq, fn)
  /\ UNCHANGED <<fsAborted, running, fsOutcome, phaseRet, inoVars>>

\* Plausible bug: the thread runs the head job without unlinking it.
WorkerTakeNoUnlink(w) ==
  /\ running[w] = NoJob
  /\ wq # <<>>
  /\ running' = [running EXCEPT ![w] = Head(wq)]
  /\ UNCHANGED <<wq, pc, ret, fsAborted, items, fsOutcome, phaseRet, inoVars>>

\* A workqueue thread takes the oldest job (libfrog/workqueue.c).
WorkerTake(w) ==
  /\ running[w] = NoJob
  /\ wq # <<>>
  /\ running' = [running EXCEPT ![w] = Head(wq)]
  /\ wq' = Tail(wq)
  /\ UNCHANGED <<pc, ret, fsAborted, items, fsOutcome, phaseRet, inoVars>>

\* fs_scan_worker: run the scrubber, then process the repairs it queued;
\* either failing sets *abortedp.  The item is freed on every path.
FsScanWorker(w, scrubOK, repairOK) ==
  LET fn == running[w] IN
  /\ fn # NoJob
  /\ fsAborted' = (fsAborted \/ ~scrubOK \/ ~repairOK)
  /\ fsOutcome' = [fsOutcome EXCEPT ![fn] = IF scrubOK /\ repairOK THEN "ok" ELSE "failed"]
  /\ items' = [items EXCEPT ![fn] = "freed"]
  /\ running' = [running EXCEPT ![w] = NoJob]
  /\ UNCHANGED <<pc, ret, wq, phaseRet, inoVars>>

\* Plausible bug: workqueue_terminate's negative errno is kept unnegated.
WorkqueueTerminateNoNegate(joinOK) ==
  LET r == IF ~joinOK /\ ret = "0" THEN "-EIO" ELSE ret IN
  /\ pc = "wait"
  /\ wq = <<>> /\ \A w \in Workers : running[w] = NoJob
  /\ ret' = IF fsAborted /\ r = "0" THEN "ECANCELED" ELSE r
  /\ pc' = "fsdone"
  /\ UNCHANGED <<fsVars, phaseRet, inoVars>>

\* Plausible bug: the result is computed without waiting for the threads.
WorkqueueTerminateNoJoin(joinOK) ==
  LET r == IF ~joinOK /\ ret = "0" THEN "EIO" ELSE ret IN
  /\ pc = "wait"
  /\ ret' = IF fsAborted /\ r = "0" THEN "ECANCELED" ELSE r
  /\ pc' = "fsdone"
  /\ UNCHANGED <<fsVars, phaseRet, inoVars>>

\* wait: workqueue_terminate joins the threads once the queue is drained;
\* its error replaces ret only if ret is 0; then aborted with ret 0 gives
\* ECANCELED, and the workqueue is destroyed.
WorkqueueTerminate(joinOK) ==
  LET r == IF ~joinOK /\ ret = "0" THEN "EIO" ELSE ret IN
  /\ pc = "wait"
  /\ wq = <<>> /\ \A w \in Workers : running[w] = NoJob
  /\ ret' = IF fsAborted /\ r = "0" THEN "ECANCELED" ELSE r
  /\ pc' = "fsdone"
  /\ UNCHANGED <<fsVars, phaseRet, inoVars>>

-----------------------------------------------------------------------------
(* phase5_func after the fs scans.                                         *)

\* A failed fs scan ends the phase; so, with 0, does a filesystem already
\* known to have errors; then check_fs_label, whose error ends the phase.
Phase5AfterFsScan(corrupt, labelOK) ==
  /\ pc = "fsdone"
  /\ CASE ret # "0"  -> pc' = "done" /\ phaseRet' = ret
       [] corrupt    -> pc' = "done" /\ phaseRet' = "0"
       [] ~labelOK   -> pc' = "done" /\ phaseRet' = "EIO"
       [] OTHER      -> pc' = "scan" /\ UNCHANGED phaseRet
  /\ UNCHANGED <<ret, fsVars, inoVars>>

\* The inode scanner calls check_inode_names for inode i on one of its
\* threads.
InodeCall(i, in) ==
  LET r == CheckInodeNames(in, inoAborted) IN
  /\ pc = "scan"
  /\ results[i] = "-"
  /\ results' = [results EXCEPT ![i] = r.ret]
  /\ inoAborted' = r.aborted
  /\ fdOpens' = fdOpens + (IF r.opened THEN 1 ELSE 0)
  /\ fdCloses' = fdCloses + r.closes
  /\ UNCHANGED <<pc, ret, fsVars, phaseRet>>

\* scrub_scan_all_inodes returns (src/scrub/inodes.c, not in this tree:
\* it may stop early once a callback failed, and may return 0 or an
\* error); phase5_func returns its error, else ECANCELED if aborted.
ScanAllInodesReturn(sret) ==
  /\ pc = "scan"
  /\ \/ \A i \in Inodes : results[i] # "-"
     \/ \E i \in Inodes : results[i] \notin {"-", "0"}
  /\ pc' = "done"
  /\ phaseRet' = CASE sret # "0" -> sret
                   [] inoAborted -> "ECANCELED"
                   [] OTHER      -> "0"
  /\ UNCHANGED <<ret, fsVars, inoVars>>

\* Phase 5 has returned; the workqueue threads are gone.
Returned == pc = "done" /\ UNCHANGED vars

Init ==
  /\ pc = "create"
  /\ ret = "0"
  /\ fsAborted = FALSE
  /\ items = [fn \in {Fns[1], Fns[2]} |-> "none"]
  /\ wq = <<>>
  /\ running = [w \in Workers |-> NoJob]
  /\ inoAborted = FALSE
  /\ results = [i \in Inodes |-> "-"]
  /\ phaseRet = "-"
  /\ fsOutcome = [fn \in {Fns[1], Fns[2]} |-> "-"]
  /\ fdOpens = 0
  /\ fdCloses = 0

Next ==
  \/ \E ok \in BOOLEAN : WorkqueueCreate(ok)
  \/ \E o \in {"ok", "nomem", "addfail"} : QueueFsScan(o)
  \/ \E w \in Workers : \/ WorkerTake(w)
                        \/ \E s, r \in BOOLEAN : FsScanWorker(w, s, r)
  \/ \E ok \in BOOLEAN : WorkqueueTerminate(ok)
  \/ \E c, l \in BOOLEAN : Phase5AfterFsScan(c, l)
  \/ \E i \in Inodes, in \in InodeInputs : InodeCall(i, in)
  \/ \E s \in {"0", "EIO"} : ScanAllInodesReturn(s)
  \/ Returned

Spec == Init /\ [][Next]_vars

-----------------------------------------------------------------------------
(* Properties.                                                             *)

TypeOK ==
  /\ pc \in {"create", "queue1", "queue2", "wait", "fsdone", "scan", "done"}
  /\ ret \in Errno /\ fsAborted \in BOOLEAN /\ inoAborted \in BOOLEAN
  /\ items \in [{Fns[1], Fns[2]} -> {"none", "alloc", "freed"}]
  /\ wq \in Seq({Fns[1], Fns[2]})
  /\ running \in [Workers -> {Fns[1], Fns[2], NoJob}]
  /\ results \in [Inodes -> Errno \cup {"-"}]
  /\ phaseRet \in Errno \cup {"-"}
  /\ fsOutcome \in [{Fns[1], Fns[2]} -> {"-", "ok", "failed"}]
  /\ fdOpens \in Nat /\ fdCloses \in Nat

\* Phase 5 reports success only if both fs scan scrubbers ran and neither
\* their scrub nor their repairs failed, and every check_inode_names call
\* succeeded or met a stale handle: the workqueue join must come before
\* the aborted flag is read, and every failing path must set a flag.
SuccessMeansClean ==
  (pc = "done" /\ phaseRet = "0") =>
    /\ \A n \in 1..2 : fsOutcome[Fns[n]] = "ok"
    /\ \A i \in Inodes : results[i] \in {"-", "0", "ESTALE"}

\* Every directory fd check_inode_names opens is closed exactly once, by
\* closedir when fdopendir took it over, else by check_inode_names.
FdClosedOnce == fdCloses = fdOpens

\* Phase 5 returns ECANCELED only when a fs scan scrubber or its repairs,
\* or some check_inode_names call, really failed: the shared aborted flags
\* are set by failures alone (not by a stale handle, which is skipped),
\* whichever thread sets them and whichever reads them.
CancelledOnlyOnFailure ==
  phaseRet = "ECANCELED" =>
    \/ \E n \in 1..2 : fsOutcome[Fns[n]] = "failed"
    \/ \E i \in Inodes : results[i] \notin {"-", "0", "ESTALE", "ECANCELED"}

\* Every fs_scan_item allocated has been freed when the phase returns.
NoItemLeak == pc = "done" => \A n \in 1..2 : items[Fns[n]] # "alloc"

=============================================================================
