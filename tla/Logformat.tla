----------------------------- MODULE Logformat ------------------------------
(***************************************************************************)
(* xfs_db's log commands (src/db/logformat.c): logformat, which rewrites   *)
(* the log at a chosen cycle and stripe unit, and untorn_write_max, which  *)
(* converts between an untorn write's block count and the log reservation *)
(* completing it needs.  Each command is one step.                         *)
(*                                                                         *)
(* The log is abstracted to whether it is clean (head == tail), its       *)
(* current cycle and its stripe unit.  strtol and atoi results are stored *)
(* in int or unsigned int variables of IntBits bits (32 in the code).     *)
(* Whether xlog_find_tail or libxfs_log_clear fails is an input; a failed *)
(* libxfs_log_clear may have written part of the log.  The log item sizes *)
(* (xfs_*_log_space) and the finish reservations are constants.  logres  *)
(* only prints the mount's reservations and is left out.                  *)
(***************************************************************************)
EXTENDS Naturals, Integers, Sequences

CONSTANTS
  IntBits,       \* width of int and unsigned int
  BlockSize,     \* sb_blocksize
  LogV2,         \* xfs_has_logv2(mp)
  SbLogSunit,    \* sb_logsunit
  MaxLsunit,     \* MAX_LSUNIT (256k), at the scale of BlockSize
  Reflink,       \* xfs_has_reflink(mp)
  ItemSpace,     \* [efi, efd, rui, rud, cui, cud, bui, bud]: xfs_*_log_space
  FinishRes,     \* [efi, rui, cui, bui]: libxfs_calc_finish_*_reservation
  LogformatArgs, \* logformat option lists tried: sequences of [o, v]
  UntornArgs,    \* untorn_write_max option lists tried
  InitLogs       \* the logs the filesystem can start with

VARIABLES
  xlog,           \* [clean, cycle, sunit]
  lfRet,         \* what the last logformat returned ("-" before any)
  untornOut      \* what the last untorn_write_max printed

logVars == <<xlog, lfRet, untornOut>>

\* strtol's result (a long) stored into an int.
ToInt(x) == ((x + 2^(IntBits - 1)) % 2^IntBits) - 2^(IntBits - 1)

\* atoi's result stored into an unsigned int.
ToUInt(x) == x % 2^IntBits

-----------------------------------------------------------------------------
(* logformat                                                               *)

\* Plausible bug: the stripe unit's block alignment is not tested.
RECURSIVE LfOptionsNoAlign(_, _, _, _)
LfOptionsNoAlign(args, k, cycle, lsunit) ==
  IF k > Len(args) THEN [ok |-> TRUE, cycle |-> cycle, lsunit |-> lsunit]
  ELSE LET o == args[k].o
           v == ToInt(args[k].v)
       IN  CASE o = "c" /\ v = 0 -> [ok |-> FALSE]
             [] o = "c" -> LfOptionsNoAlign(args, k + 1, v, lsunit)
             [] o = "s" /\ v > 1 /\ LogV2 /\ v > MaxLsunit -> [ok |-> FALSE]
             [] o = "s" -> LfOptionsNoAlign(args, k + 1, cycle, v)
             [] OTHER -> [ok |-> FALSE]

\* The getopt loop: [ok, cycle, lsunit] with -1 for an option not given.
\* -c 0, a stripe unit above one that is not block aligned or (on a v2 log)
\* larger than MAX_LSUNIT, and an unknown option return -1 at once.
RECURSIVE LfOptions(_, _, _, _)
LfOptions(args, k, cycle, lsunit) ==
  IF k > Len(args) THEN [ok |-> TRUE, cycle |-> cycle, lsunit |-> lsunit]
  ELSE LET o == args[k].o
           v == ToInt(args[k].v)
       IN  CASE o = "c" /\ v = 0 -> [ok |-> FALSE]
             [] o = "c" -> LfOptions(args, k + 1, v, lsunit)
             [] o = "s" /\ v > 1 /\ (v % BlockSize # 0 \/ (LogV2 /\ v > MaxLsunit))
                  -> [ok |-> FALSE]
             [] o = "s" -> LfOptions(args, k + 1, cycle, v)
             [] OTHER -> [ok |-> FALSE]

\* logformat_f, up to the libxfs_log_clear call: refused options, a log
\* whose tail xlog_find_tail cannot find, and a dirty log return -1 and
\* change nothing.
LogformatRefused(args, tailFound) ==
  LET opt == LfOptions(args, 1, -1, -1)
  IN  /\ ~opt.ok \/ ~tailFound \/ ~xlog.clean
      /\ lfRet' = "-1"
      /\ UNCHANGED <<xlog, untornOut>>

\* The cycle and stripe unit the log is formatted with: the options', or
\* the current cycle and sb_logsunit when one is not given (negative).
FormatCycle(opt) == IF opt.cycle < 0 THEN xlog.cycle ELSE opt.cycle
FormatSunit(opt) == IF opt.lsunit < 0 THEN SbLogSunit ELSE opt.lsunit

\* libxfs_log_clear: on success the log is clean at the cycle with the
\* stripe unit; on failure part of the log may have been written.
LogformatClear(args, ok) ==
  LET opt == LfOptions(args, 1, -1, -1)
  IN  /\ opt.ok /\ xlog.clean
      /\ IF ok
         THEN /\ xlog' = [clean |-> TRUE, cycle |-> FormatCycle(opt), sunit |-> FormatSunit(opt)]
              /\ lfRet' = "0"
         ELSE /\ xlog' \in {xlog, [xlog EXCEPT !.clean = FALSE]}
              /\ lfRet' = "EIO"
      /\ UNCHANGED untornOut

-----------------------------------------------------------------------------
(* untorn_write_max                                                        *)

Max2(a, b) == IF a >= b THEN a ELSE b
Max3(a, b, c) == Max2(Max2(a, b), c)

\* The worst log space of one transaction of the untorn write ioend chain.
PerIntent ==
  LET s == ItemSpace
      tx0 == s.bui + s.cui
      tx1 == s.bud + s.rui + s.cui + s.cud
      tx2 == s.rud + s.cui + s.cud
      tx3 == s.cud + s.efi
      tx4 == s.efd
      relog == s.bui + s.bud + s.cui + s.cud
  IN  Max2(Max3(tx0, tx1, tx2), Max3(tx3, tx4, relog))

StepSize == Max2(FinishRes.bui, Max3(FinishRes.efi, FinishRes.rui, FinishRes.cui))

\* Plausible bug: logres - step_size without the logres >= step_size test.
UntornCowLimitsNoGuard(logres, desiredMax) ==
  IF desiredMax # 0
  THEN [mode |-> "logres", desired |-> desiredMax,
        logres |-> ToUInt(desiredMax * PerIntent + StepSize)]
  ELSE [mode |-> "max_awu", logres |-> logres,
        maxAwu |-> ToUInt(logres - StepSize) \div PerIntent]

\* untorn_cow_limits: what it prints, all in unsigned int arithmetic.
UntornCowLimits(logres, desiredMax) ==
  IF desiredMax # 0
  THEN [mode |-> "logres", desired |-> desiredMax,
        logres |-> ToUInt(desiredMax * PerIntent + StepSize)]
  ELSE [mode |-> "max_awu", logres |-> logres,
        maxAwu |-> IF logres >= StepSize THEN (logres - StepSize) \div PerIntent ELSE 0]

\* The getopt loop: the last -l and -b win; [ok, logres, desired].
RECURSIVE UntornOptions(_, _, _, _)
UntornOptions(args, k, logres, desired) ==
  IF k > Len(args) THEN [ok |-> TRUE, logres |-> logres, desired |-> desired]
  ELSE CASE args[k].o = "l" -> UntornOptions(args, k + 1, ToUInt(ToInt(args[k].v)), desired)
         [] args[k].o = "b" -> UntornOptions(args, k + 1, logres, ToUInt(ToInt(args[k].v)))
         [] OTHER -> [ok |-> FALSE]

\* untorn_write_max_f: help on an unknown option, a message when neither
\* -l nor -b is set or the filesystem has no reflink, else the limits.
UntornWriteMax(args) ==
  LET opt == UntornOptions(args, 1, 0, 0)
  IN  /\ untornOut' =
           IF opt.ok /\ (opt.logres # 0 \/ opt.desired # 0) /\ Reflink
           THEN UntornCowLimits(opt.logres, opt.desired)
           ELSE [mode |-> "none"]
      /\ UNCHANGED <<xlog, lfRet>>

-----------------------------------------------------------------------------

Init ==
  /\ xlog \in InitLogs
  /\ lfRet = "-"
  /\ untornOut = [mode |-> "none"]

Next ==
  \/ \E args \in LogformatArgs, found \in BOOLEAN : LogformatRefused(args, found)
  \/ \E args \in LogformatArgs, ok \in BOOLEAN : LogformatClear(args, ok)
  \/ \E args \in UntornArgs : UntornWriteMax(args)

Spec == Init /\ [][Next]_logVars

-----------------------------------------------------------------------------
(* Properties                                                              *)

\* A stripe unit libxfs_log_clear may be given: none (0 or 1), or a block
\* multiple no larger than MAX_LSUNIT on a v2 log.
ValidSunit(s) == s \in {0, 1} \/ (s > 1 /\ s % BlockSize = 0 /\ (~LogV2 \/ s <= MaxLsunit))

\* A logformat that returns 0 was run on a clean log and leaves it clean,
\* at a positive cycle, with a valid stripe unit, whatever numbers the
\* options gave once stored into an int.
LogformatFormatsValid ==
  [][ lfRet' = "0" =>
        /\ xlog.clean
        /\ xlog'.clean /\ xlog'.cycle > 0 /\ ValidSunit(xlog'.sunit) ]_logVars

\* untorn_write_max -l logres reports the largest block count whose
\* reservation, computed exactly, fits in logres (0 when none does).
MaxAwuFits ==
  untornOut.mode = "max_awu" =>
    /\ untornOut.maxAwu * PerIntent + StepSize <= Max2(untornOut.logres, StepSize)
    /\ (untornOut.maxAwu + 1) * PerIntent + StepSize > untornOut.logres

\* untorn_write_max -b n reports a log reservation that, computed
\* exactly, covers n blocks.
UntornLogresCovers ==
  untornOut.mode = "logres" =>
    untornOut.logres >= untornOut.desired * PerIntent + StepSize

=============================================================================
