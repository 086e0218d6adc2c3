------------------------------- MODULE XfsIo --------------------------------
(***************************************************************************)
(* Two expert commands of one xfs_io session: inject (src/io/inject.c)     *)
(* and mincore (src/io/mincore.c).  They share the session's exitcode,    *)
(* which a command sets to 1 on failure and nothing resets, and they act  *)
(* on the kernel's state for the open file: the error tags injected into  *)
(* its filesystem and the residency of the pages of the current mapping.  *)
(*                                                                         *)
(* The mapping (made by the mmap command, io/mmap.c) is chosen at Init.   *)
(* Its file offset and address are page aligned, as mmap(2) makes them;   *)
(* its length is whatever the user gave.  Pages go in and out of memory   *)
(* between commands (the kernel's doing).  Each command is one step: the  *)
(* outcome of each xfsctl, calloc and mincore call is an input.  The      *)
(* page size is a constant (4096 in practice); addresses are kept         *)
(* relative to the mapping's start.                                        *)
(***************************************************************************)
EXTENDS Naturals, Integers, Sequences, SequencesExt, FiniteSets

CONSTANTS
  TagNames,     \* tag_names[]: [0..n-1 -> name or NoName]
  NoName,       \* a NULL hole of tag_names[]
  InjectArgs,   \* inject command lines tried: sequences of names
  PageSize,     \* pagesize
  Mappings,     \* mappings the session can hold: [offset, length]
  MincoreArgs,  \* mincore argument vectors tried: <<>> or <<off, len>>
                \* (cvtnum results, -1 for a non-numeric argument)
  SizeBits      \* width of size_t (that of off_t on 64-bit builds)

NOERROR == 0             \* XFS_ERRTAG_NOERROR
INJECTION == "INJECTION" \* XFS_IOC_ERROR_INJECTION
CLEARALL == "CLEARALL"   \* XFS_IOC_ERROR_CLEARALL
NoCmd == [name |-> "none"]

VARIABLES
  exitcode,   \* the session's exit status
  errtags,    \* tags injected into the filesystem (kernel state)
  mapping,    \* the current mapping
  resident,   \* [pages of the mapping -> BOOLEAN] (kernel state)
  vec,        \* what the last mincore(2) call wrote, one byte per page
  vecLen,     \* length/pagesize: the bytes calloc gave vec
  report,     \* the runs the last mincore command printed, in order
  lastCmd     \* the last command and its inputs

vars == <<exitcode, errtags, mapping, resident, vec, vecLen, report, lastCmd>>

CeilDiv(a, b) == (a + b - 1) \div b
MapPages(m) == CeilDiv(m.length, PageSize)

-----------------------------------------------------------------------------
(* inject                                                                  *)

\* error_tag: the first index whose name matches, -1 for none.
ErrorTag(name) ==
  LET hits == {t \in DOMAIN TagNames : TagNames[t] # NoName /\ TagNames[t] = name}
  IN  IF hits = {} THEN -1 ELSE CHOOSE t \in hits : \A u \in hits : t <= u

\* The kernel's answer to a successful xfsctl.
Xfsctl(command, tag, tags) == IF command = CLEARALL THEN {} ELSE tags \cup {tag}

\* Plausible bug: the loop gives up at the first failing xfsctl.
RECURSIVE InjectLoopBreak(_, _, _, _, _)
InjectLoopBreak(args, fails, k, command, st) ==
  IF k = 0 THEN st
  ELSE LET tag == ErrorTag(args[k])
           c2  == IF tag = NOERROR THEN CLEARALL ELSE command
       IN  IF tag < 0 THEN InjectLoopBreak(args, fails, k - 1, command, st)
           ELSE IF k \in fails THEN [st EXCEPT !.exit = 1]
           ELSE InjectLoopBreak(args, fails, k - 1, c2,
                                [st EXCEPT !.tags = Xfsctl(c2, tag, @)])

\* while (--argc > 0): the arguments from last to first.  An unknown name
\* is reported and skipped; NOERROR switches the command to CLEARALL for
\* this and every later iteration; a failing xfsctl sets exitcode and the
\* loop goes on.  st is [tags, exit].
RECURSIVE InjectLoop(_, _, _, _, _)
InjectLoop(args, fails, k, command, st) ==
  IF k = 0 THEN st
  ELSE LET tag == ErrorTag(args[k])
           c2  == IF tag = NOERROR THEN CLEARALL ELSE command
       IN  IF tag < 0 THEN InjectLoop(args, fails, k - 1, command, st)
           ELSE InjectLoop(args, fails, k - 1, c2,
                           IF k \in fails THEN [st EXCEPT !.exit = 1]
                           ELSE [st EXCEPT !.tags = Xfsctl(c2, tag, @)])

\* inject_f.  With no argument it only lists the tags.
InjectF(args, fails) ==
  LET st == InjectLoop(args, fails, Len(args), INJECTION,
                       [tags |-> errtags, exit |-> exitcode])
  IN  /\ errtags' = st.tags
      /\ exitcode' = st.exit
      /\ lastCmd' = [name |-> "inject", args |-> args, fails |-> fails]
      /\ UNCHANGED <<mapping, resident, vec, vecLen, report>>

-----------------------------------------------------------------------------
(* mincore                                                                 *)

\* check_mapping_range(mapping, offset, length, 1) (io/mmap.c): the address
\* of offset in the mapping, or -1 (NULL) when the range is not inside it
\* or the address is not page aligned.
CheckMappingRange(offset, length) ==
  LET relative == offset - mapping.offset
  IN  IF \/ offset < mapping.offset
         \/ relative > mapping.length
         \/ relative + length > mapping.length
         \/ relative % PageSize # 0
      THEN -1 ELSE relative

\* mincore(2) fills one byte per page of [start, start + length), a
\* partly covered last page included.
Mincore(start, length) ==
  [j \in 1..CeilDiv(length, PageSize) |-> resident[start \div PageSize + j - 1]]

\* Plausible bug: the run still open at the end of the loop is not printed.
RECURSIVE RunsFromNoFlush(_, _, _, _, _)
RunsFromNoFlush(v, n, offset, i, previous) ==
  IF i = n THEN <<>>
  ELSE IF v[i + 1] THEN
         RunsFromNoFlush(v, n, offset, i + 1, IF previous < 0 THEN i ELSE previous)
  ELSE IF previous >= 0 THEN
         <<[from |-> previous, to |-> i, fileoff |-> offset + previous * PageSize]>>
           \o RunsFromNoFlush(v, n, offset, i + 1, -1)
  ELSE RunsFromNoFlush(v, n, offset, i + 1, -1)

\* The printing loop over i < length/pagesize, page indexes relative to
\* start, previous = -1 for NULL.  A run is printed when a non-resident page
\* or the end of the vector closes it: its start and end page, and its file
\* offset offset + (previous - start).
RECURSIVE RunsFrom(_, _, _, _, _)
RunsFrom(v, n, offset, i, previous) ==
  IF i = n THEN
    IF previous >= 0
    THEN <<[from |-> previous, to |-> n, fileoff |-> offset + previous * PageSize]>>
    ELSE <<>>
  ELSE IF v[i + 1] THEN
         RunsFrom(v, n, offset, i + 1, IF previous < 0 THEN i ELSE previous)
  ELSE IF previous >= 0 THEN
         <<[from |-> previous, to |-> i, fileoff |-> offset + previous * PageSize]>>
           \o RunsFrom(v, n, offset, i + 1, -1)
  ELSE RunsFrom(v, n, offset, i + 1, -1)

\* The offset and length mincore_f works on, from its arguments.
ArgRange(args) ==
  IF args = <<>> THEN [offset |-> mapping.offset, length |-> mapping.length]
  ELSE [offset |-> args[1], length |-> args[2]]

\* cvtnum gave a negative value, or the length does not fit a size_t.
BadArgs(args) ==
  /\ Len(args) = 2
  /\ \/ args[1] < 0
     \/ args[2] < 0
     \/ args[2] >= 2^SizeBits

ArgsOK(args) == Len(args) \in {0, 2} /\ ~BadArgs(args)

\* check_mapping_range's result for the arguments.
Start(args) == CheckMappingRange(ArgRange(args).offset, ArgRange(args).length)

\* A mincore_f return that sets exitcode: wrong argc (command_usage), a bad
\* number, a range check_mapping_range refuses, a failed calloc.
MincoreFails(args, callocOk) ==
  /\ \/ Len(args) \notin {0, 2}
     \/ BadArgs(args)
     \/ ArgsOK(args) /\ Start(args) < 0
     \/ ArgsOK(args) /\ Start(args) >= 0 /\ ~callocOk
  /\ exitcode' = 1
  /\ lastCmd' = [name |-> "mincore", args |-> args, ok |-> FALSE]
  /\ UNCHANGED <<errtags, mapping, resident, vec, vecLen, report>>

\* mincore(2) fails: perror, vec freed, exitcode set.
MincoreCallFails(args) ==
  /\ ArgsOK(args)
  /\ Start(args) >= 0
  /\ exitcode' = 1
  /\ lastCmd' = [name |-> "mincore", args |-> args, ok |-> FALSE]
  /\ UNCHANGED <<errtags, mapping, resident, vec, vecLen, report>>

\* The whole of mincore_f when every call succeeds.
MincoreF(args) ==
  LET r     == ArgRange(args)
      start == Start(args)
      n     == r.length \div PageSize
  IN  /\ ArgsOK(args)
      /\ start >= 0
      /\ vec' = Mincore(start, r.length)
      /\ vecLen' = n
      /\ report' = RunsFrom(vec', n, r.offset, 0, -1)
      /\ lastCmd' = [name |-> "mincore", args |-> args, ok |-> TRUE]
      /\ UNCHANGED <<exitcode, errtags, mapping, resident>>

\* A page of the mapping is read in or reclaimed.
PageInOut(p) ==
  /\ resident' = [resident EXCEPT ![p] = ~@]
  /\ UNCHANGED <<exitcode, errtags, mapping, vec, vecLen, report, lastCmd>>

-----------------------------------------------------------------------------

Init ==
  /\ exitcode = 0
  /\ errtags = {}
  /\ mapping \in Mappings
  /\ resident \in [0..(MapPages(mapping) - 1) -> BOOLEAN]
  /\ vec = <<>>
  /\ vecLen = 0
  /\ report = <<>>
  /\ lastCmd = NoCmd

Next ==
  \/ \E args \in InjectArgs : \E fails \in SUBSET DOMAIN args : InjectF(args, fails)
  \/ \E args \in MincoreArgs, callocOk \in BOOLEAN : MincoreFails(args, callocOk)
  \/ \E args \in MincoreArgs : MincoreCallFails(args) \/ MincoreF(args)
  \/ \E p \in DOMAIN resident : PageInOut(p)

Spec == Init /\ [][Next]_vars

-----------------------------------------------------------------------------
(* Properties                                                              *)

\* The resident runs of the pages 0..n-1 of v, in page order, with their
\* file offsets: maximal runs of resident pages.
ResidentRuns(v, n, offset) ==
  LET runs == { [from |-> a, to |-> b, fileoff |-> offset + a * PageSize] :
                  a \in 0..n, b \in 0..n }
      Maximal(r) == /\ r.from < r.to
                    /\ \A j \in r.from..(r.to - 1) : v[j + 1]
                    /\ r.from = 0 \/ ~v[r.from]
                    /\ r.to = n \/ ~v[r.to + 1]
  IN  SetToSortSeq({r \in runs : Maximal(r)}, LAMBDA x, y : x.from < y.from)

\* After a mincore command that succeeded, what it printed is every maximal
\* run of resident pages among the whole pages of the range, in order,
\* each with its start page and the file offset of that page.
MincoreReportsResidentRuns ==
  lastCmd.name = "mincore" /\ lastCmd.ok =>
    LET r == ArgRange(lastCmd.args)
    IN  report = ResidentRuns(vec, vecLen, r.offset)

\* An inject command line without "noerror" injects, in addition to the
\* tags already set, every named tag whose xfsctl succeeded; exitcode
\* becomes 1 exactly when one of those xfsctl calls failed.
InjectTagsUnion ==
  [][ lastCmd'.name = "inject" /\ resident' = resident =>
        LET args  == lastCmd'.args
            known == {k \in DOMAIN args : ErrorTag(args[k]) >= 0}
        IN  (\A k \in known : ErrorTag(args[k]) # NOERROR) =>
              /\ errtags' = errtags \cup {ErrorTag(args[k]) : k \in known \ lastCmd'.fails}
              /\ exitcode' = IF known \cap lastCmd'.fails # {} THEN 1 ELSE exitcode
   ]_vars

\* The tags an inject command line leaves set when every xfsctl succeeds,
\* read left to right: "noerror" clears what came before it, every other
\* known tag is set.
RECURSIVE InOrder(_, _, _)
InOrder(args, k, tags) ==
  IF k > Len(args) THEN tags
  ELSE LET tag == ErrorTag(args[k])
       IN  InOrder(args, k + 1, CASE tag < 0 -> tags
                                  [] tag = NOERROR -> {}
                                  [] OTHER -> tags \cup {tag})

\* inject applies its tags as the command line lists them: the tags named
\* after the last "noerror" are injected.
InjectCommandLineOrder ==
  [][ lastCmd'.name = "inject" /\ resident' = resident /\ lastCmd'.fails = {} =>
        errtags' = InOrder(lastCmd'.args, 1, errtags) ]_vars

\* mincore(2) writes no byte past the vector mincore_f allocated for it.
VecHoldsMincore == Len(vec) <= vecLen

=============================================================================
