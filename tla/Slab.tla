-------------------------------- MODULE Slab --------------------------------
(***************************************************************************)
(* The slab array of xfs_repair (src/repair/slab.c): a list of slab_hdrs   *)
(* of growing capacity holding fixed-size items, sorted one slab at a time *)
(* (serially or on a workqueue) by qsort_slab(), and read back through     *)
(* slab cursors that either walk the items in storage order or k-way merge *)
(* the individually sorted slabs with a linear scan per peek.              *)
(*                                                                         *)
(* An item is a pair <<key, id>>: the key is the field compare_fn looks    *)
(* at, the id is the item's position in the sequence of slab_add() calls   *)
(* (bookkeeping that lets the properties tell equal keys apart).           *)
(***************************************************************************)
EXTENDS Naturals, Sequences, SequencesExt, FiniteSets, Functions

CONSTANTS
  Keys,           \* values of the compared field of an item
  MaxItems,       \* bound on the number of slab_add() calls
  ItemSz,         \* s_item_sz
  MinSlabNr,      \* MIN_SLAB_NR (4096 in the code)
  MaxSlabSize,    \* MAX_SLAB_SIZE (128 MiB in the code)
  SerialSortMax,  \* qsort_slab sorts serially when s_nr_slabs <= this (4)
  Workers,        \* the platform_nproc() threads of the sort workqueue
  Cursors,        \* slab cursor handles a caller may hold at once
  AdvanceAnyTime  \* TRUE: the caller may call advance_slab_cursor whenever
                  \* the code's ASSERT lets it; FALSE: only right after a
                  \* peek that returned an item (the documented contract)

ASSUME /\ Keys \subseteq Nat /\ Keys # {}
       /\ MaxItems \in Nat
       /\ {ItemSz, MinSlabNr, MaxSlabSize} \subseteq Nat \ {0}
       /\ SerialSortMax \in Nat
       /\ AdvanceAnyTime \in BOOLEAN

VARIABLES
  hdrs,         \* s_first .. s_last: Seq of [nr |-> sh_nr, items |-> objects]
                \* (sh_inuse is Len(items))
  nrSlabs,      \* s_nr_slabs
  nrItems,      \* s_nr_items
  sortPhase,    \* where the qsort_slab() caller is: "idle", "serial", "queueing"
  queued,       \* hdrs already passed by qsort_slab's while (hdr) loop
  wq,           \* work items queued on the workqueue, oldest first
  running,      \* [Workers -> hdr index the thread is sorting, 0 if none]
  cur,          \* [Cursors -> slab cursor: open, cmp, nr, loc, last]
  appended,     \* history: every item in slab_add() order
  everSorted,   \* history: some qsort_slab() call has returned
  sortedAtOpen, \* history: every slab was sorted when the cursor was made
  out,          \* history: items each cursor advanced past, in order
  peeked        \* history: the last peek returned an item not yet consumed

vars == <<hdrs, nrSlabs, nrItems, sortPhase, queued, wq, running, cur,
          appended, everSorted, sortedAtOpen, out, peeked>>
sortVars == <<sortPhase, queued, wq, running, everSorted>>
histVars == <<sortedAtOpen, out, peeked>>

Key(it) == it[1]
NoItem == <<0, 0>>                    \* the NULL a peek returns
KeyLeq(a, b) == Key(a) <= Key(b)
InUse(i) == Len(hdrs[i].items)        \* sh_inuse
ClosedCursor == [open |-> FALSE, cmp |-> FALSE, nr |-> 0, loc |-> <<>>, last |-> 0]

-----------------------------------------------------------------------------
(* slab_add: allocate a new slab when there is none or the last is full.   *)

\* The size of the next slab: double the last one, capped at MAX_SLAB_SIZE
\* bytes (the code's n * s_item_sz > MAX_SLAB_SIZE test); no lower clamp.
NewSlabNr ==
  LET n == IF hdrs = <<>> THEN MinSlabNr ELSE hdrs[Len(hdrs)].nr * 2
  IN  IF n * ItemSz > MaxSlabSize THEN MaxSlabSize \div ItemSz ELSE n

\* Plausible bug: the new-slab branch forgets s_nr_items++.
SlabAddLosesCount(k) ==
  LET it == <<k, Len(appended) + 1>>
      full == hdrs = <<>> \/ InUse(Len(hdrs)) = hdrs[Len(hdrs)].nr
  IN
  /\ sortPhase = "idle"
  /\ \A c \in Cursors : ~cur[c].open
  /\ Len(appended) < MaxItems
  /\ IF full
       THEN /\ hdrs' = Append(hdrs, [nr |-> NewSlabNr, items |-> <<it>>])
            /\ nrSlabs' = nrSlabs + 1
            /\ nrItems' = nrItems
       ELSE /\ hdrs' = [hdrs EXCEPT ![Len(hdrs)].items = Append(@, it)]
            /\ nrSlabs' = nrSlabs
            /\ nrItems' = nrItems + 1
  /\ appended' = Append(appended, it)
  /\ UNCHANGED <<sortVars, cur, histVars>>

\* A caller adds an item of key k.  The contract of slab.c: no cursor is
\* held and no sort is running while items are added.
SlabAdd(k) ==
  LET it == <<k, Len(appended) + 1>>
      full == hdrs = <<>> \/ InUse(Len(hdrs)) = hdrs[Len(hdrs)].nr
  IN
  /\ sortPhase = "idle"
  /\ \A c \in Cursors : ~cur[c].open
  /\ Len(appended) < MaxItems
  /\ IF full
       THEN /\ hdrs' = Append(hdrs, [nr |-> NewSlabNr, items |-> <<it>>])
            /\ nrSlabs' = nrSlabs + 1
       ELSE /\ hdrs' = [hdrs EXCEPT ![Len(hdrs)].items = Append(@, it)]
            /\ nrSlabs' = nrSlabs
  /\ nrItems' = nrItems + 1
  /\ appended' = Append(appended, it)
  /\ UNCHANGED <<sortVars, cur, histVars>>

-----------------------------------------------------------------------------
(* qsort_slab and its workqueue.                                           *)

\* What qsort() may leave in a slab: its items in key order, equal keys in
\* any order (qsort is not stable).
SortedArrangements(s) ==
  { t \in [1..Len(s) -> ToSet(s)] : ToSet(t) = ToSet(s) /\ IsSorted(t, KeyLeq) }

SortedHdr(i) == IsSorted(hdrs[i].items, KeyLeq)
AllSorted == \A i \in DOMAIN hdrs : SortedHdr(i)

\* qsort() of the items of slab i, in place.
QsortHdr(i) ==
  \E t \in SortedArrangements(hdrs[i].items) : hdrs' = [hdrs EXCEPT ![i].items = t]

\* qsort_slab entry: few slabs are sorted on the caller's thread, more on a
\* fresh workqueue.  The contract: no cursor holds the slab.
QsortSlab ==
  /\ sortPhase = "idle"
  /\ \A c \in Cursors : ~cur[c].open
  /\ sortPhase' = IF nrSlabs <= SerialSortMax
                    THEN IF hdrs = <<>> THEN "idle" ELSE "serial"
                    ELSE "queueing"
  /\ queued' = 0
  /\ everSorted' = (everSorted \/ sortPhase' = "idle")
  /\ UNCHANGED <<hdrs, nrSlabs, nrItems, wq, running, cur, appended, histVars>>

\* One iteration of the serial while (hdr) loop; the last one returns.
SerialSortStep ==
  /\ sortPhase = "serial"
  /\ QsortHdr(queued + 1)
  /\ queued' = queued + 1
  /\ sortPhase' = IF queued + 1 = Len(hdrs) THEN "idle" ELSE "serial"
  /\ everSorted' = (everSorted \/ sortPhase' = "idle")
  /\ UNCHANGED <<nrSlabs, nrItems, wq, running, cur, appended, histVars>>

\* Plausible bug: the queueing loop stops one slab short (i < nr_slabs - 1).
QueueWorkShort ==
  /\ sortPhase = "queueing"
  /\ queued < Len(hdrs) - 1
  /\ wq' = Append(wq, queued + 1)
  /\ queued' = queued + 1
  /\ UNCHANGED <<hdrs, nrSlabs, nrItems, sortPhase, running, cur, appended,
                 everSorted, histVars>>

\* One iteration of the queue_work() loop.
QueueWork ==
  /\ sortPhase = "queueing"
  /\ queued < Len(hdrs)
  /\ wq' = Append(wq, queued + 1)
  /\ queued' = queued + 1
  /\ UNCHANGED <<hdrs, nrSlabs, nrItems, sortPhase, running, cur, appended,
                 everSorted, histVars>>

\* Plausible bug: the join waits for the queue to drain but not for the
\* threads still sorting a slab they took.
DestroyWorkQueueNoWait ==
  /\ sortPhase = "queueing"
  /\ queued = Len(hdrs)
  /\ wq = <<>>
  /\ sortPhase' = "idle"
  /\ everSorted' = TRUE
  /\ UNCHANGED <<hdrs, nrSlabs, nrItems, queued, wq, running, cur, appended,
                 histVars>>

\* destroy_work_queue() returns once the queue is drained and every thread
\* has finished its job; then qsort_slab returns.
DestroyWorkQueue ==
  /\ sortPhase = "queueing"
  /\ queued = Len(hdrs)
  /\ wq = <<>>
  /\ \A w \in Workers : running[w] = 0
  /\ sortPhase' = "idle"
  /\ everSorted' = TRUE
  /\ UNCHANGED <<hdrs, nrSlabs, nrItems, queued, wq, running, cur, appended,
                 histVars>>

\* Plausible bug: the worker runs the head job without unlinking it.
WorkerTakeNoUnlink(w) ==
  /\ running[w] = 0
  /\ wq # <<>>
  /\ running' = [running EXCEPT ![w] = Head(wq)]
  /\ UNCHANGED <<hdrs, nrSlabs, nrItems, sortPhase, queued, wq, cur, appended,
                 everSorted, histVars>>

\* An idle workqueue thread unlinks the oldest job.
WorkerTake(w) ==
  /\ running[w] = 0
  /\ wq # <<>>
  /\ running' = [running EXCEPT ![w] = Head(wq)]
  /\ wq' = Tail(wq)
  /\ UNCHANGED <<hdrs, nrSlabs, nrItems, sortPhase, queued, cur, appended,
                 everSorted, histVars>>

\* qsort_slab_helper: sort the job's slab.
QsortSlabHelper(w) ==
  /\ running[w] # 0
  /\ QsortHdr(running[w])
  /\ running' = [running EXCEPT ![w] = 0]
  /\ UNCHANGED <<nrSlabs, nrItems, sortPhase, queued, wq, cur, appended,
                 everSorted, histVars>>

-----------------------------------------------------------------------------
(* Slab cursors.                                                           *)

Live(c) == { i \in 1..cur[c].nr : cur[c].loc[i] < InUse(i) }
HeadOf(c, i) == hdrs[i].items[cur[c].loc[i] + 1]

\* Plausible bug: the snapshot of the slab count is one short (and wraps
\* below zero on an empty slab).
InitSlabCursorShort(c, cmp) ==
  /\ ~cur[c].open
  /\ sortPhase = "idle"
  /\ cur' = [cur EXCEPT ![c] = [open |-> TRUE, cmp |-> cmp, nr |-> nrSlabs - 1,
                                loc |-> [i \in 1..nrSlabs - 1 |-> 0], last |-> 0]]
  /\ sortedAtOpen' = [sortedAtOpen EXCEPT ![c] = AllSorted]
  /\ out' = [out EXCEPT ![c] = <<>>]
  /\ peeked' = [peeked EXCEPT ![c] = FALSE]
  /\ UNCHANGED <<hdrs, nrSlabs, nrItems, sortVars, appended>>

\* init_slab_cursor: one hdr cursor per slab counted in s_nr_slabs, at 0.
InitSlabCursor(c, cmp) ==
  /\ ~cur[c].open
  /\ sortPhase = "idle"
  /\ cur' = [cur EXCEPT ![c] = [open |-> TRUE, cmp |-> cmp, nr |-> nrSlabs,
                                loc |-> [i \in 1..nrSlabs |-> 0], last |-> 0]]
  /\ sortedAtOpen' = [sortedAtOpen EXCEPT ![c] = AllSorted]
  /\ out' = [out EXCEPT ![c] = <<>>]
  /\ peeked' = [peeked EXCEPT ![c] = FALSE]
  /\ UNCHANGED <<hdrs, nrSlabs, nrItems, sortVars, appended>>

\* free_slab_cursor
FreeSlabCursor(c) ==
  /\ cur[c].open
  /\ cur' = [cur EXCEPT ![c] = ClosedCursor]
  /\ out' = [out EXCEPT ![c] = <<>>]
  /\ peeked' = [peeked EXCEPT ![c] = FALSE]
  /\ UNCHANGED <<hdrs, nrSlabs, nrItems, sortVars, appended, sortedAtOpen>>

\* Plausible bug: ties go to the last slab scanned (compare_fn(p, q) >= 0).
PeekResultLastTie(c) ==
  LET L == Live(c)
      best == { j \in L : \A k \in L : Key(HeadOf(c, j)) <= Key(HeadOf(c, k)) }
  IN  IF ~cur[c].cmp
        THEN IF L = {} THEN [last |-> 1, it |-> NoItem]
             ELSE [last |-> Min(L), it |-> HeadOf(c, Min(L))]
        ELSE IF L = {} THEN [last |-> 0, it |-> NoItem]
             ELSE [last |-> Max(best), it |-> HeadOf(c, Max(best))]

\* Plausible bug: the merge scan's comparison is inverted
\* (compare_fn(p, q) < 0), so it keeps the largest head.
PeekResultMaxKey(c) ==
  LET L == Live(c)
      best == { j \in L : \A k \in L : Key(HeadOf(c, j)) >= Key(HeadOf(c, k)) }
  IN  IF ~cur[c].cmp
        THEN IF L = {} THEN [last |-> 1, it |-> NoItem]
             ELSE [last |-> Min(L), it |-> HeadOf(c, Min(L))]
        ELSE IF L = {} THEN [last |-> 0, it |-> NoItem]
             ELSE [last |-> Min(best), it |-> HeadOf(c, Min(best))]

\* peek_slab_cursor: the item it returns and what it leaves in last_hcur.
\* In-order mode restarts at hcur[0] and takes the first unexhausted slab;
\* when all are exhausted it returns NULL but leaves last_hcur = &hcur[0].
\* Merge mode keeps the first slab whose head is strictly smallest and
\* leaves last_hcur NULL when all are exhausted.
PeekResult(c) ==
  LET L == Live(c)
      best == { j \in L : \A k \in L : Key(HeadOf(c, j)) <= Key(HeadOf(c, k)) }
  IN  IF ~cur[c].cmp
        THEN IF L = {} THEN [last |-> 1, it |-> NoItem]
             ELSE [last |-> Min(L), it |-> HeadOf(c, Min(L))]
        ELSE IF L = {} THEN [last |-> 0, it |-> NoItem]
             ELSE [last |-> Min(best), it |-> HeadOf(c, Min(best))]

Exhausted(c) == PeekResult(c).it = NoItem

PeekSlabCursor(c) ==
  /\ cur[c].open
  /\ cur' = [cur EXCEPT ![c].last = PeekResult(c).last]
  /\ peeked' = [peeked EXCEPT ![c] = ~Exhausted(c)]
  /\ UNCHANGED <<hdrs, nrSlabs, nrItems, sortVars, appended, sortedAtOpen, out>>

\* advance_slab_cursor: ASSERT(last_hcur); last_hcur->loc++.  With no
\* slabs, &hcur[0] lies past the cursor's array: that write is outside
\* the modelled state.
AdvanceSlabCursor(c) ==
  LET i == cur[c].last IN
  /\ cur[c].open
  /\ i # 0
  /\ AdvanceAnyTime \/ peeked[c]
  /\ cur' = [cur EXCEPT ![c].loc = IF i <= cur[c].nr THEN [@ EXCEPT ![i] = @ + 1] ELSE @]
  /\ out' = [out EXCEPT ![c] = IF i \in Live(c) THEN Append(@, HeadOf(c, i)) ELSE @]
  /\ peeked' = [peeked EXCEPT ![c] = FALSE]
  /\ UNCHANGED <<hdrs, nrSlabs, nrItems, sortVars, appended, sortedAtOpen>>

\* Plausible bug: pop returns the peeked item without advancing.
PopNoAdvance(c) ==
  LET r == PeekResult(c) IN
  /\ cur[c].open
  /\ cur' = [cur EXCEPT ![c].last = r.last]
  /\ out' = [out EXCEPT ![c] = IF r.it # NoItem THEN Append(@, r.it) ELSE @]
  /\ peeked' = [peeked EXCEPT ![c] = FALSE]
  /\ UNCHANGED <<hdrs, nrSlabs, nrItems, sortVars, appended, sortedAtOpen>>

\* pop_slab_cursor: peek, and advance if an item came back.
PopSlabCursor(c) ==
  LET r == PeekResult(c) IN
  /\ cur[c].open
  /\ cur' = [cur EXCEPT ![c].last = r.last,
                        ![c].loc = IF r.it # NoItem THEN [@ EXCEPT ![r.last] = @ + 1] ELSE @]
  /\ out' = [out EXCEPT ![c] = IF r.it # NoItem THEN Append(@, r.it) ELSE @]
  /\ peeked' = [peeked EXCEPT ![c] = FALSE]
  /\ UNCHANGED <<hdrs, nrSlabs, nrItems, sortVars, appended, sortedAtOpen>>

-----------------------------------------------------------------------------
\* init_slab has returned a fresh, empty slab.
Init ==
  /\ hdrs = <<>>
  /\ nrSlabs = 0
  /\ nrItems = 0
  /\ sortPhase = "idle"
  /\ queued = 0
  /\ wq = <<>>
  /\ running = [w \in Workers |-> 0]
  /\ cur = [c \in Cursors |-> ClosedCursor]
  /\ appended = <<>>
  /\ everSorted = FALSE
  /\ sortedAtOpen = [c \in Cursors |-> FALSE]
  /\ out = [c \in Cursors |-> <<>>]
  /\ peeked = [c \in Cursors |-> FALSE]

Next ==
  \/ \E k \in Keys : SlabAdd(k)
  \/ QsortSlab \/ SerialSortStep \/ QueueWork \/ DestroyWorkQueue
  \/ \E w \in Workers : WorkerTake(w) \/ QsortSlabHelper(w)
  \/ \E c \in Cursors :
       \/ \E cmp \in BOOLEAN : InitSlabCursor(c, cmp)
       \/ PeekSlabCursor(c) \/ AdvanceSlabCursor(c) \/ PopSlabCursor(c)
       \/ FreeSlabCursor(c)

\* The caller's loop in qsort_slab and the workqueue threads keep running
\* until the sort is done.
Fairness ==
  /\ WF_vars(SerialSortStep) /\ WF_vars(QueueWork) /\ WF_vars(DestroyWorkQueue)
  /\ \A w \in Workers : WF_vars(WorkerTake(w)) /\ WF_vars(QsortSlabHelper(w))

Spec == Init /\ [][Next]_vars
FairSpec == Spec /\ Fairness

-----------------------------------------------------------------------------
(* Properties.                                                             *)

Items == { <<k, n>> : k \in Keys, n \in 1..MaxItems }

TypeOK ==
  /\ hdrs \in Seq([nr : Nat, items : Seq(Items)])
  /\ nrSlabs \in Nat /\ nrItems \in Nat
  /\ sortPhase \in {"idle", "serial", "queueing"}
  /\ queued \in Nat /\ wq \in Seq(Nat \ {0})
  /\ running \in [Workers -> Nat]
  /\ \A c \in Cursors :
       /\ cur[c].open \in BOOLEAN /\ cur[c].cmp \in BOOLEAN /\ cur[c].nr \in Nat
       /\ cur[c].loc \in [1..cur[c].nr -> Nat] /\ cur[c].last \in Nat
  /\ appended \in Seq(Items) /\ everSorted \in BOOLEAN
  /\ sortedAtOpen \in [Cursors -> BOOLEAN] /\ out \in [Cursors -> Seq(Items)]
  /\ peeked \in [Cursors -> BOOLEAN]

\* The counters slab_add keeps beside the slab list agree with it: s_nr_items
\* is the sum of the slabs' sh_inuse and s_nr_slabs their number, whatever
\* slab boundaries the adds crossed; every slab but the last is full; the
\* slabs hold exactly the items added (sorting only moves items in a slab).
StoreShape ==
  /\ nrItems = SumFunction([i \in DOMAIN hdrs |-> InUse(i)])
  /\ nrSlabs = Len(hdrs)
  /\ \A i \in 1..Len(hdrs) - 1 : InUse(i) = hdrs[i].nr
  /\ UNION { ToSet(hdrs[i].items) : i \in DOMAIN hdrs } = ToSet(appended)

\* Append-order law (spec 8): a cursor without compare_fn on a slab that was
\* never sorted yields the items in slab_add order across slab boundaries,
\* and all of them by the time peek_slab_cursor returns NULL.
AppendOrderLaw ==
  \A c \in Cursors :
    (cur[c].open /\ ~cur[c].cmp /\ ~everSorted) =>
      /\ IsPrefix(out[c], appended)
      /\ Exhausted(c) => out[c] = appended

\* No cursor, in either mode, yields an item twice, yields an item that is
\* not in the slab, or reports NULL before it has yielded every item.
NoLossNoDup ==
  \A c \in Cursors : cur[c].open =>
    /\ Len(out[c]) = Cardinality(ToSet(out[c]))
    /\ ToSet(out[c]) \subseteq ToSet(appended)
    /\ Exhausted(c) => ToSet(out[c]) = ToSet(appended)

\* The slab an item lives in.
SlabOf(it) == CHOOSE i \in DOMAIN hdrs : it \in ToSet(hdrs[i].items)
MergeLeq(a, b) == Key(a) < Key(b) \/ (Key(a) = Key(b) /\ SlabOf(a) <= SlabOf(b))

\* Merge correctness (spec 4.3, 8): a compare_fn cursor made after every
\* slab was sorted yields items in ascending key order, and of equal keys
\* those of an earlier slab first.
MergeOrder ==
  \A c \in Cursors :
    (cur[c].open /\ cur[c].cmp /\ sortedAtOpen[c]) => IsSorted(out[c], MergeLeq)

\* The workqueue never has two threads sorting the same slab, and a slab
\* being sorted is not also waiting in the queue.
WorkerExclusive ==
  /\ \A v, w \in Workers : v # w /\ running[v] # 0 => running[v] # running[w]
  /\ \A w \in Workers : running[w] # 0 => running[w] \notin ToSet(wq)

\* qsort_slab returns (serially or out of destroy_work_queue) only when
\* every slab is sorted: no job is still queued or running.
SortJoin ==
  [][(sortPhase # "idle" /\ sortPhase' = "idle") => AllSorted']_vars

\* Every qsort_slab call eventually returns.
SortCompletes == (sortPhase # "idle") ~> (sortPhase = "idle")

\* Spec 3: a hdr cursor's offset never passes its slab's sh_inuse.
SubCursorBounded ==
  \A c \in Cursors : cur[c].open => \A i \in 1..cur[c].nr : cur[c].loc[i] <= InUse(i)

-----------------------------------------------------------------------------
(* Refinement: the slab array implements SlabSpec.  A cursor's remaining   *)
(* items are the stored ones its hdr cursors have not yet passed.          *)

Stored == UNION { ToSet(hdrs[i].items) : i \in DOMAIN hdrs }
Passed(c) ==
  UNION { { hdrs[i].items[j] : j \in 1..Min({cur[c].loc[i], InUse(i)}) } :
          i \in 1..Min({cur[c].nr, Len(hdrs)}) }
AbsRemaining(c) == IF cur[c].open THEN Stored \ Passed(c) ELSE {}
AbsMode(c) ==
  CASE ~cur[c].open                 -> "closed"
    [] cur[c].cmp /\ sortedAtOpen[c] -> "merge"
    [] ~cur[c].cmp /\ ~everSorted    -> "inorder"
    [] OTHER                        -> "any"

Abs == INSTANCE SlabSpec WITH
         stored <- Stored,
         remaining <- [c \in Cursors |-> AbsRemaining(c)],
         mode <- [c \in Cursors |-> AbsMode(c)]

\* The slab array, its sort and its cursors implement SlabSpec: every step
\* of the code either leaves the abstract state alone or is an abstract
\* add, cursor open or close, or the hand-out of an item the abstract
\* cursor may yield next.
SlabRefinement == Abs!Spec

=============================================================================
