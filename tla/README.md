# TLA+ models of xfsprogs (slab array, scrub phase 5, path table, file attributes, jdm handles, xfs_db/xfs_io commands)

This directory holds TLA+ models of the parts of the xfsprogs sources under
`src/` that have state, concurrency, or arithmetic worth model checking. It
also holds the TLC configurations that check them. `PROJECT.json` is the
machine-readable index: components, runs, mutants, the definition-to-source
map, findings and hazards.

## Inventory

| Component | Source | State | Operations | Hard behaviour |
|---|---|---|---|---|
| Slab array | `repair/slab.c` | list of `slab_hdr` (capacity `sh_nr`, `sh_inuse`, items), `s_nr_slabs`, `s_nr_items`, `s_item_sz` | `init_slab`, `slab_add`, `slab_count`, `free_slab` | capacity doubling with a 128 MiB byte cap and no lower clamp; counters kept beside the list |
| Slab sorter | `repair/slab.c` | the sort workqueue: queued jobs, worker threads | `qsort_slab`, `qsort_slab_helper` | serial for <= 4 slabs, otherwise one job per slab on `platform_nproc()` threads joined by `destroy_work_queue` |
| Slab cursor | `repair/slab.c` | `nr` snapshot, per-slab `loc`, `last_hcur`, `compare_fn` | `init_slab_cursor`, `peek_slab_cursor`, `advance_slab_cursor`, `pop_slab_cursor`, `free_slab_cursor` | in-order walk and k-way merge; `last_hcur` survives pops and NULL peeks |
| Scrub phase 5 | `scrub/phase5.c` | shared `aborted` flag, fs-scan workqueue, inode fds | `run_kernel_fs_scan_scrubbers`, `queue_fs_scan`, `fs_scan_worker`, `check_inode_names`, `check_dirent_names`, `check_xattr_ns_names` | several threads write one unlocked flag; ECANCELED propagation; fd ownership handed to `closedir` |
| Path table | `libfrog/paths.c` | `fs_table[]`, `fs_count`, `xfs_fs_count`, `fs_path`, cursors, path lists | `fs_table_insert`, lookups, `fs_cursor_*`, `fs_table_destroy`, `path_list_*`, `path_will_loop` | XFS entries kept before foreign ones by `memmove`; `realloc` invalidates held pointers; 256-component limit |
| Bit codec | `db/bit.c` | none (pure) | `getbitval`, `setbitval` | sign extension, byte-aligned fast path vs bit-by-bit path |
| freesp | `db/freesp.c` | option flags, histogram buckets, io cursor stack | `init` (option parsing), `histinit`, `addtohist`, recursive btree scan | `i *= multsize` loop; a `push_cur` without `pop_cur` on an unreadable block |
| logformat | `db/logformat.c` | the log (clean, cycle, stripe unit); what the commands return or print | `logformat_f`, `untorn_write_max_f`, `untorn_cow_limits` (`logres_f` only prints) | `strtol` into `int`; unsigned 32-bit arithmetic; a log clear that fails part way |
| inject | `io/inject.c` | the kernel's injected tags, `exitcode` | `inject_f`, `error_tag` | backwards tag loop; the switch to `CLEARALL` is never undone |
| mincore | `io/mincore.c` | the mapping, page residency, `vec`, `exitcode` | `mincore_f` | vector of `length/pagesize` bytes; run-length printing |
| kmem | `libxfs/kmem.c` | cache `allocated` counter | cache create/alloc/destroy, `kmem_alloc`, `krealloc` | leak report on destroy |
| attr shortform fields | `db/attrshort.c` | none of its own: the fork bytes xfs_db prints | the field tables, `attr_shortform_list_count/offset`, `attr_sf_entry_*`, `attrshort_size` | entries located by walking from the first one, trusting `count` and each `namelen`; flag bits numbered from the top of the byte |
| file attributes | `libfrog/file_attr.c` | none of its own: the inode the path names, the kernel's attributes | `xfrog_file_getattr`, `xfrog_file_setattr`, the two conversions | system call with an `ENOSYS` fallback to `open` + ioctl; the special-file test uses the caller's earlier `lstat` |
| jdm | `libhandle/jdm.c` | the fs handle, the caller's bulkstat record, a heap file handle | `jdm_getfshandle`, `jdm_new_filehandle`, `jdm_delete_filehandle`, `jdm_open`, `jdm_readlink`, `jdm_attr_multi`, `jdm_attr_list`, `jdm_parents`, `jdm_parentpaths` (v1 and v5) | a handle filled from an earlier bulkstat while the inode number is freed and reused; `bufsz` clamped to the list maximum |
| dahash self test, headers | various | none of their own | test vectors, declarations | nothing for a model checker |

How the pieces interact: xfs_repair stores its reverse mappings in slab
arrays. It appends with `slab_add`, sorts with `qsort_slab`, then reads back
through cursors. Callers read with a merge cursor when they want global key
order and an in-order cursor when they want add order. Phase 5 of xfs_scrub
runs two filesystem-wide scanners on a workqueue and then checks every
inode's names on the inode scan threads. The path table is the process-wide
list of mounts and project paths used by xfs_quota, xfs_io and xfs_scrub.
The xfs_db commands (freesp, logformat, untorn_write_max) run one at a time
in one xfs_db process against one mounted filesystem; the xfs_io commands
(inject, mincore) run one at a time in one xfs_io process against one open
file and its mapping, while the kernel moves the mapping's pages in and out
of core. xfs_db also prints the shortform attr fork of an inode, and
xfs_io's `lsattr`/`chattr` (io/attr.c) get and set a file's attributes
through libfrog's file attribute calls while other processes may rename
files under the path. Dump-style tools reach inodes they bulkstat-ed
through libhandle's jdm wrappers, by file handle, while other processes
free inodes and reuse their numbers.

## Plan (in order)

1. `Slab` (store, sorter and cursors in one module, because the sort and the
   cursors share the slab list) and `SlabSpec`, the abstract collection it
   refines. **Done.**
2. `Phase5`: the fs-scan workqueue, the shared `aborted` flag, the error and
   ECANCELED results, and fd ownership in the name checks. **Done.**
3. `FsTable`: initialise from the mount table and projects file, insert
   ordering, string ownership, destroy. `PathList`: path lists,
   `path_will_loop` and `path_list_to_string`. **Done.**
4. `BitVal`: `getbitval`/`setbitval` over a scaled byte width, checked
   against a big-endian bit-string reference. **Done.**
5. `Freesp`: option parsing, `histinit`, the recursive scan with the io
   cursor stack. **Done.**
6. `XfsIo` (inject and mincore in one xfs_io session), `Logformat`, and
   `XfsDb`, which composes `Freesp` and `Logformat` in one xfs_db session.
   **Done.**
7. `AttrShort`, composed into `XfsDb`, and `FileAttr`, checked with
   `PathList` in `Libfrog`. **Done.**
8. `Jdm`, composed after `Phase5` in `HandleUsers`. **Done.**
9. The path-table lookups, as operators of `FsTable` checked in every
   table state. **Done.** The kmem cache counter is left out (see "Not
   modelled").

## Modules

### Slab.tla (repair/slab.c)

Variables and what they correspond to:

- `hdrs`: the list `s_first .. s_last`. Each element is `[nr, items]`, and
  `Len(items)` is `sh_inuse`.
- `nrSlabs`, `nrItems`: `s_nr_slabs` and `s_nr_items`.
- `sortPhase`, `queued`, `wq`, `running`: where the `qsort_slab` caller is,
  the jobs on the workqueue, and the slab each worker thread is sorting.
- `cur`: one record per cursor handle, holding `nr`, per-slab `loc`,
  `last_hcur` (as an index, 0 = NULL) and whether `compare_fn` is set.
- `appended`, `everSorted`, `sortedAtOpen`, `out`, `peeked`: history
  variables. They are used only by the properties and by the refinement
  mapping.

An item is `<<key, id>>`. The key is what `compare_fn` compares. The id is
the item's position in the sequence of adds, so equal keys can be told apart.
`qsort` is not stable, so a sort step takes any key-ordered arrangement of
the slab. Each action is the whole C function:

- `SlabAdd` includes the growth computation and both counters.
- `PeekSlabCursor` includes the reset of `last_hcur` at its start.
- `PopSlabCursor` is a peek followed by an advance, in one step.

The workqueue thread loop lives in `libfrog/workqueue.c`, which is not in
`src/`. It is modelled as `WorkerTake`: an idle thread unlinks the oldest job.

The model builds the documented contract into its guards:

- No add and no sort while a cursor is open.
- No cursor is made while a sort is running.
- `advance_slab_cursor` only right after a peek that returned an item. The
  constant `AdvanceAnyTime = TRUE` lifts this last rule to what the code's
  ASSERT alone allows.

### SlabSpec.tla

This is the abstract specification. It has a set of stored items and, per
cursor, the items not yet handed out and a mode. An `inorder` cursor hands
out the least id, a `merge` cursor the least key, and an `any` cursor any
item. `Slab` maps onto it as follows:

- `stored` is the union of the slabs.
- `remaining` is the stored items the cursor's `loc`s have not passed.
- The mode is `merge` for a compare_fn cursor made after all slabs were
  sorted. It is `inorder` for a plain cursor on a never-sorted slab, and
  `any` otherwise.

### MCSlab.tla

This module supplies model values for workers and cursors and a symmetry set.
The symmetry set is used only by the violation run, because liveness is
checked without symmetry.

### Phase5.tla (scrub/phase5.c)

- `pc` is where the `phase5_func` thread is. `ret` and `fsAborted` are the
  locals of `run_kernel_fs_scan_scrubbers`, and `inoAborted` is the
  `aborted` of `phase5_func`.
- `items` records, per scanner (`nlinks`, `quotacheck`), whether its
  `fs_scan_item` is unallocated, allocated or freed. `wq` is the queued
  jobs, and `running` is the job each worker thread runs.
- `results` records what each `check_inode_names` call returned.
  `phaseRet` is the phase's return value. `fsOutcome`, `fdOpens` and
  `fdCloses` are history variables used by the properties.

The results of the scrub and repair helpers and of the system calls are
inputs, chosen by `\E` from small sets. A `check_inode_names` call is one
step (`InodeCall`). Its only shared state is the `aborted` flag, which it
writes once and then reads once, so interleaving whole calls covers every
ordering of those accesses. `WorkerTake` models the thread loop of
`libfrog/workqueue.c`, which is not under `src/`.

No fairness is assumed: every property of the run is a safety property.
A liveness property "phase 5 returns" would hold by the shape of the
model (every step moves toward `done` once the spec-modelled workqueue
drains), so it would say nothing about `phase5.c`. Bounds: two workers and two inodes. Two workers can run both
scanners at once, and two inodes can race on the flag.

### FsTable.tla (libfrog/paths.c, table part)

- `table` is `fs_table[0..fs_count-1]`. `fsCount`, `xfsCount` and `fsPath`
  are the globals; `fsPath` is kept as an index, with 0 for NULL.
- Strings are heap allocation ids. `live` is the set of allocated ids,
  `nextId` is the id allocator, and `badFree` records a free of a
  non-live id.
- `phase` is where `fs_table_initialise` is: reading the mount table, the
  mounts, or the projects file. `streams` counts the open mount-table
  streams, and `inits` counts the initialise calls. `inserted` is a
  history of the entries inserted, in order.

Each mount-table and projects-file entry is one step, and so is each
insert. Whether `realpath`, `stat`, `strdup` or `realloc` fails is an input
of that step, so an insert can fail at any point. `Quiescent` lets a
finished process stay put.

The lookups change nothing, so they are operators, not actions.
`FsTableLookup` is `fs_table_lookup` for a path whose `fs_device_number`
is given. `FsTableLookupMount` is `__fs_table_lookup_mount`, the body of
`fs_table_lookup_mount` and `fs_table_lookup_blkdev`, with the set of
paths `realpath` resolves as an argument. Both return the first matching
entry in table order, so what they find depends on where
`fs_table_insert` put each entry. Note that `__fs_table_lookup_mount`
wants flags equal to `FS_MOUNT_POINT`, so it never finds a foreign mount
(flagged `FS_MOUNT_POINT | FS_FOREIGN`), which its comment does not say;
`LookupsFindMount` is therefore stated for XFS mounts.

Bounds: four mounts (two XFS, one with `logdev=` and one with `rtdev=`, one
foreign, one autofs) and three projects (on an XFS mount, on the foreign
mount, and on no mount). `MaxInits = 2`, so the table is destroyed and
refilled; `MaxIds = 12`.

### PathList.tla (libfrog/paths.c, from line 565)

The list is a sequence of `[ino, len]` components; a name is abstracted to
its length, which is all the bounds checks read. The add, delete and free
operations are actions. `path_will_loop` and `path_list_to_string` are
RECURSIVE operators, checked in every reachable state against a direct
definition. `MaxComponents = 2` scales down the 256-component limit.
`MaxListLen = 4` exceeds it, and `MaxBuf = 8` covers both fitting and
overflowing buffers.

### FileAttr.tla (libfrog/file_attr.c)

State: `named`, the inode the one path names now (AT_FDCWD); `attrs`,
each inode's attributes in the kernel; `sysOk`, whether the running kernel
has `file_getattr`/`file_setattr` (chosen at Init; `HaveFileGetattr` is
the build's `HAVE_FILE_GETATTR`); `fac`, the lsattr/chattr command in
progress. The caller (io/attr.c, not under `src/`, modelled from its use)
is `LStat`, which records the inode and kind it saw, then one step per
call. `XfrogFileGetattr` and `XfrogFileSetattr` are whole calls with
every branch of the code:
- the system call succeeds, or fails with an errno other than ENOSYS;
- on fallback, `SPECIAL_FILE` of the lstat-ed mode refuses with EOPNOTSUPP;
- `open` of a FIFO blocks (`pc = "blocked"`, for good);
- the ioctl fails, or the conversions carry the five fields across.

`Rename` is another process making the path name another inode, at any
time. The kernel side (what the ioctls fill in and change, nextents read
only) is `KernelFsxattr`/`KernelSet`.

MC: a regular file `r` whose extsize, nextents, projid and cowextsize
differ and are nonzero, and a FIFO `p`; chattr asks for xflags 0 or 1.

### Libfrog.tla (composition)

`PathList` and `FileAttr` in one specification. They share no state, so
each property holds of the composition exactly when it holds of its
component alone. They share a run only because the project keeps its
number of runs small. The natural home of `FileAttr` is the xfs_io
session, but there its ~400 states multiply the session's 23k.

### AttrShort.tla (db/attrshort.c)

The object is `ObjBytes` bytes: the fork, then whatever follows it in the
inode buffer. The layout constants are the tables' `HOFF`/`EOFF`
offsets, and the flag fields are at `EOFF(flags) + 8 - bit - 1`, because
getbitval numbers bits from the top of each byte. The count, offset and
size functions are operators with the source's names. They walk the
entries with `WalkEntries` (RECURSIVE; libxfs's `xfs_attr_sf_nextentry`,
from the on-disk format). `PrintFork`/`PrintEntry` are what
xfs_db's field walk prints: every field of `attr_shortform_flds`, read
with BitVal's `getbitval` paths at 8-bit bytes. `PrintAttrShort` prints a
fork the kernel wrote (`Encode` of a list of entries) or a damaged object.
`ObjBytes = 36` holds the three-entry fork with a 12-byte value (used as
a parent record). The forks cover:
- an empty fork;
- root and secure flags;
- a parent-pointer entry;
- an entry with an empty value.

The damaged objects are one with `count` one too high and one with the
first `namelen` one too high.

### BitVal.tla (db/bit.c)

The buffer is the state, and a `setbitval` write is the only action.
`getbitval` is an operator checked over every offset, width and sign flag
in every state. `NBBY` (8 in the code) is a constant, and everything
scales with it. `NBBY = 2` gives 16-bit "int64" values and keeps every
case of the code: the 1, 2, 4 and 8 "byte" fast paths, the bit loop, and
the full-width field. `HostBigEndian` selects the build's byte order. The
reference reads the buffer as one big-endian bit string and extends the
sign from the field's first bit.

### Freesp.tla (db/freesp.c)

- The option globals keep their C names: `aglist`, `alignment`,
  `countflag`, `equalsize`, `multsize`, `seen1`, `speced`.
- `pc`, `argv`, `i` and `bounds` are the progress through `init` and
  `histinit`, and `hasBuckets` is whether `histinit` produced buckets.
- `depth` is the io cursor stack depth, and `obs` records what the command
  printed.

The filesystem (AGF roots, levels, btree blocks, AGFL) is a set of
constants. `ScanAg` is the recursive scan as an operator.
`FreespStart` starts `freesp` with one of the command lines in `MCArgs`, which cover every option and the bucket-generation
loops with multipliers the command handles (`-b`, `-m 3`, `-e 33`). It
leaves out `-m 1`, `-m -1` and large multipliers: `histinit` checks
neither `-m` nor `-e`, so with them its loop never ends or `i` overflows
(see the freesp.c:361 hazard; `HistBucketsInRange` and `FreespReturns`
state the promise, and TLC finds both violated with `-m -1`). `IntBits = 10`
is the width `Wrap` uses; with `MCArgs`, `i` stays far below it. `AgBlocks = 100` with `AgBlkLog = 7` gives a partial last
bucket.

`FairSpec` (weak fairness on `Command`, the steps `Getopt` through
`FreespReturn`) is what `FreespReturns` is stated under: xfs_db runs a
command to its end before it reads the next one. Starting a command gets
no fairness, because the user need not type another one. No run uses it.

### XfsIo.tla (io/inject.c, io/mincore.c)

One xfs_io session. `exitcode` is the session's exit status, which a
failing command sets to 1 and nothing resets. `errtags` is the set of tags
the kernel has injected into the open file's filesystem. `mapping` is the
current mapping (`[offset, length]`, chosen at Init, as the `mmap` command
would leave it). `resident` is the kernel's page residency. `vec` and
`vecLen` are what `mincore(2)` wrote and how many bytes `calloc` gave.
`report` is the runs `mincore_f` printed, as `[from, to, fileoff]` page
records. `lastCmd` is the last command and its inputs.

- `InjectF` is the whole of `inject_f`. `InjectLoop` walks `argv` from the
  last argument down, skips unknown names, switches `command` to
  `CLEARALL` at `noerror` for the rest of the walk, and sets `exitcode`
  for each `xfsctl` in the input set `fails`. `Xfsctl` is the kernel's
  effect.
- `MincoreFails`, `MincoreCallFails` and `MincoreF` are the returns of
  `mincore_f`: wrong argc, a negative `cvtnum`, a range
  `check_mapping_range` refuses, a failed `calloc` or `mincore`, and
  success. `RunsFrom` is the printing loop with its final flush.
  `CheckMappingRange` is the contract of `io/mmap.c` (outside `src/`): the
  offset lies in the mapping, the range ends inside it, and (as
  `mincore_f` asks with `pagealign = 1`) the offset is page aligned in it.
- `PageInOut` is the kernel moving a page in or out of core between
  commands.

Bounds: `PageSize = 2` (4096 scaled down, since only multiples matter) and
mappings of 6 bytes at file offset 2 and of 5 bytes at file offset 0. The
second has a partial last page, which is the case `length/pagesize` gets
wrong. The tag table has a NULL hole, and the command lines include an
unknown tag and `noerror` both first and last. `SizeBits = 8` is the width of
`size_t`, which the length check reads.

### Logformat.tla (db/logformat.c)

`xlog` is the log as logformat sees it (`[clean, cycle, sunit]`). `lfRet`
is what the last `logformat` returned, and `untornOut` is what the last
`untorn_write_max` printed. `LfOptions` is the `getopt` loop with `strtol`
stored into an `int` (`ToInt`, `IntBits` bits). `LogformatRefused` covers
the `-1` returns: bad options, no tail found, a dirty log.
`LogformatClear` is the rest. A failed `libxfs_log_clear` may leave the log
dirty. `UntornWriteMax` is `untorn_write_max_f` with `atoi` into an
`unsigned int` (`ToUInt`), and `UntornCowLimits` is `untorn_cow_limits`.
The log item sizes and finish reservations are constants, so `PerIntent`
and `StepSize` are the code's max/max3 over them. Bounds: `IntBits = 10`,
so `-c 512`, `-c 1024` and `-s 1032` wrap as 2^31 and 2^32 do in the code.
`BlockSize = 4` and `MaxLsunit = 32` leave unaligned, too-large and
negative stripe units to try. The item sizes give `per_intent = 6` and
`step_size = 9`, so `-l` values below, at and above `step_size` all occur,
and `-b 200` overflows the reservation.

### XfsDb.tla (composition)

One xfs_db process running `freesp`, `logformat` and `untorn_write_max` on
one filesystem. `F == INSTANCE Freesp` and `L == INSTANCE Logformat` share
the constants. A log command may start only when no `freesp` is in progress
(`pc = "idle"`), because xfs_db runs one command to its end before it reads
the next. `A == INSTANCE AttrShort` adds the attr fork print, also only
between commands; `sfOut` holds what the last print showed and is reset by
the next command of another kind. All the session's properties are
safety properties, so it is checked under `Spec`, without fairness.

### Jdm.tla (libhandle/jdm.c)

- `fsh` is what `jdm_getfshandle` returned (`"none"` before the call,
  `"null"` when `realpath` or `path_to_fshandle` failed). `bs` is the
  bulkstat record the caller holds, `fh` the handle of
  `jdm_new_filehandle` (`NullHandle` when its `malloc` failed), and `last`
  the wrapper called in this step and what it returned.
- `inode` is the kernel's inode `Ino`: its generation, whether it is
  allocated, and whether it is a symlink.
- `JdmFillFilehandle` is `jdm_fill_filehandle(_v5)`: the fs handle,
  `FILEHANDLE_SZ_FOLLOWING`, zeroed padding, and `bs_gen`/`bs_ino` of the
  record. `JdmByHandle` is each by-handle wrapper, v1 or v5: fill a handle
  on the stack (after clamping `bufsz` for `jdm_attr_list`) and make the
  call. `JdmParents` is the four parent wrappers, which return
  `EOPNOTSUPP` without a call.
- What the by-handle call returns (`ByHandle`) is the kernel's behaviour,
  outside `src/`: EINVAL for a malformed handle or an attr list buffer over
  the maximum, ESTALE when the inode is free or has another generation,
  EINVAL for readlink of a non-symlink. `Bulkstat`, `Unlink` and `Create`
  (which reuses the number with the next generation) are the caller and
  the other processes.

### HandleUsers.tla (composition)

`Phase5` and `Jdm` in one specification, with explicit variable tuples.
xfs_scrub reaches inodes by handle too, but through libhandle directly, not
through jdm; the two share no state. The jdm steps are enabled only once
phase 5 has returned success. This explores each component's behaviours
fully without the product of their state spaces. Since jdm reads no variable
of phase 5, every property of either holds of the composition exactly
when it holds of its component alone.

MC: `Ino = 7`, generations 1 and 2 (one free and reuse), `ListMax = 4`
with `BufSizes = {2, 5}`, so buffers below and above the maximum both
occur.

## Runs

| Run | Config | Checks | Result |
|---|---|---|---|
| slab | MCSlab.cfg | TypeOK, StoreShape, AppendOrderLaw, NoLossNoDup, MergeOrder, WorkerExclusive; SortJoin, SortCompletes, SlabRefinement (FairSpec) | pass |
| slab_advance_misuse | MCSlabMisuse.cfg | SubCursorBounded with `AdvanceAnyTime` | violation |
| phase5 | MCPhase5.cfg | TypeOK, SuccessMeansClean, FdClosedOnce, CancelledOnlyOnFailure, JdmCallsReachBulkstatInode | pass |
| fstable_safety | MCFsTable.cfg | TypeOK, XfsFirst, StringsOwned, ProjectOnItsMount, LookupsFindMount | pass |
| libfrog_pathlist_fileattr | MCLibfrog.cfg | TypeOK, WillLoopMeansRepeatOrTooLong, ToStringFitsOrFails, OpenBlocksOnlyAfterRename, ChattrKeepsOtherFields | pass |
| bitval_codec | MCBitVal.cfg | GetBitValDecodes, SetBitValWrites (little-endian build) | pass |
| bitval_big_endian_sign | MCBitValBE.cfg | GetBitValDecodes (big-endian build) | violation |
| xfsdb_session | MCXfsDb.cfg | HistogramCountsScan, MaxAwuFits, AttrShortPrintsEntries, LogformatFormatsValid | pass |
| freesp_alignment_sticky | MCFreespAlign.cfg | HistogramThisCommand | violation |
| freesp_cursor_leak | MCFreespCursor.cfg | CursorRestored | violation |
| xfsio_session | MCXfsIo.cfg | MincoreReportsResidentRuns, InjectTagsUnion | pass |
| mincore_vec_overrun | MCXfsIoVec.cfg | VecHoldsMincore | violation |

Slab bounds: `Keys = {1,2}`, 4 adds, 2 worker threads and 2 cursors.
`MinSlabNr = 1`, `MaxSlabSize = 2` and `ItemSz = 1` give slab capacities
1, 2, 2 and 2. These are the code's 4096-item first slab and 128 MiB cap,
scaled down. With them:

- four adds make three slabs (of 1, 2 and 1 items), so the workqueue path of `qsort_slab` runs
  once `SerialSortMax = 2` is exceeded;
- the byte cap is reached;
- slabs hold equal keys, so ties in the merge occur;
- two cursors interleave with each other.

What each run shows:

- **slab**: the counters, append order, merge order (ties go to the earlier
  slab), exactly-once delivery and exclusive job ownership hold in every
  interleaving. Every return from `qsort_slab` finds every slab sorted.
  Every sort returns, under weak fairness on the caller's queueing loop,
  the join and each worker thread's take/sort steps. Client actions (adds,
  cursor calls) get no fairness. The implementation refines `SlabSpec`.
- **slab_advance_misuse** (finding): `advance_slab_cursor` only asserts that
  `last_hcur` is set (slab.c:339-340). After a pop, or after an in-order
  peek that returned NULL, the pointer is still set, and the advance moves
  `loc` past `sh_inuse`. spec.md says such an advance is rejected.
- **phase5**: the phase reports success only when both scanners ran
  cleanly and every name check succeeded (or met ESTALE). This holds for
  every interleaving of the workers and inode threads on the unlocked
  flags. Every directory fd is closed exactly once. The phase returns
  ECANCELED only when a scanner, its repairs or a name check really
  failed on some thread; a name check that met a stale handle returns
  ESTALE and never sets the shared flag. After it, a jdm by-handle call succeeds exactly when the
  generation the caller bulkstat-ed is still allocated (and, for
  readlink, a symlink), whatever buffer size it passes: a reused inode
  number is never reached through a stale record, and the `bufsz` clamp
  keeps a large buffer from being refused.
- **fstable_safety**: XFS entries stay ahead of foreign ones, and each kind
  stays in insertion order across the `memmove`. Every heap string is
  owned by exactly one table entry, and none is freed twice, whichever
  `strdup`/`realloc` fails. Each project entry names a mount on its
  device. In every table state, each XFS mount point is found by all three
  lookups, and a lookup by device never returns one of the project paths
  that share the mount's device.
- **libfrog_pathlist_fileattr**: for every list the operations build,
  `path_will_loop` reports exactly a repeated inode or an over-long path.
  `path_list_to_string` succeeds exactly when the string and its NUL fit.
  A chattr that read and set the same inode changes only its xflags. This
  holds whether the system call or the ioctl fallback did each call, so
  both conversions keep every field. lsattr/chattr block in `open` only
  when the path was renamed to a FIFO after their `lstat`. The
  `SPECIAL_FILE` test covers every file the caller saw.
- **bitval_codec**: on a little-endian build, `getbitval` decodes every
  field, signed or not, on both its paths. `setbitval` writes the field and
  nothing else.
- **bitval_big_endian_sign** (finding): on a big-endian build, the scrape
  loop sign-extends on the field's last bit instead of its first
  (bit.c:100).
- **xfsdb_session**: freesp, logformat and untorn_write_max interleave in
  one xfs_db session. The histogram counts are what the scan of the free
  space btrees (or the AGFL) gives, for each alignment. A logformat that
  returns 0 started from a clean log and left it clean, at a positive
  cycle, with a valid stripe unit. This holds whatever the `-c`/`-s`
  numbers became when stored into an `int`, and a failed clear that
  dirtied the log leads only to refusals. `untorn_write_max -l` reports the
  largest block count whose reservation fits, 0 below `step_size`. Printing
  a shortform attr fork the kernel wrote shows its size, count, and every
  entry in order, with its flag bits, name, and value or parent record.
- **freesp_alignment_sticky** (finding): `init` resets every option except
  `alignment` (freesp.c:126), so `-A` carries over to the next `freesp` in
  the session.
- **freesp_cursor_leak** (finding): `scan_sbtree` returns without `pop_cur`
  when a block cannot be read (freesp.c:266), which leaves a cursor pushed.
- **xfsio_session**: for every residency, mapping and range, mincore prints
  exactly the maximal runs of resident pages in the range, at their file
  offsets. An inject line without `noerror` adds exactly its known tags and
  sets `exitcode` iff one of their `xfsctl` calls fails. Unknown tags
  are skipped.
- **mincore_vec_overrun** (finding): `vec` gets `length/pagesize` bytes
  (mincore.c:64), but `mincore(2)` writes one byte per page touched. With
  the default range of the 5-byte mapping it writes 3 bytes into 2, which
  is a heap overrun, and the last partial page is never reported.

Found while modelling, not kept as runs (the properties are in the modules,
and TLC finds each violated):

- `NoItemLeak` (Phase5): `queue_fs_scan` returns on a failed
  `workqueue_add` without freeing its item (phase5.c:459).
- `MtabClosed` (FsTable): `fs_table_initialise_mounts` returns on a failed
  `realpath` without `endmntent` (paths.c:387).
- `InjectCommandLineOrder` (XfsIo): `inject noerror writeagi` leaves no tag
  set, because the loop runs backwards and `CLEARALL` sticks (inject.c:96).
- `UntornLogresCovers` (Logformat): `untorn_write_max -b` computes the
  reservation in `unsigned int` and prints a wrapped value for large
  block counts (logformat.c:254).
- `AttrShortWithinFork` (AttrShort): xfs_db trusts `count` and each
  `namelen` and prints entries past `totsize`, reading bytes after the
  fork (attrshort.c:146, 166).
- `NeverBlocks` and `ChattrSetsInodeItRead` (FileAttr): a rename between
  `lstat` and the fallback's `open` can hang lsattr on a FIFO
  (file_attr.c:70). A rename between chattr's get and set writes one
  inode's extsize, projid and cowextsize onto another (file_attr.c:111).
  Both are inherent to calls that name the file by path.

One message is wrong but changes no state: `inject` names `argv[1]`,
not the unknown tag, in "no such tag" (inject.c:92).

Every property of a passing run has a mutant in `PROJECT.json`. The mutant
is a plausible bug in the mapped code: a forgotten counter, a short
snapshot, a wrong tie-break, a pop without advance, a one-short queue loop, a stale handle that
sets the cancellation flag,
a missing complement, a wrong shift, a missing
AG filter, a missing stripe-unit alignment test, an unguarded unsigned
subtraction, a run not flushed at the end of mincore's loop, an inject loop that
stops at the first failure, a flag bit counted from the wrong end of the
byte, a conversion that drops cowextsize, a `SPECIAL_FILE` without
`S_ISFIFO`, a jdm handle fill that leaves `fh_gen` unset, or a table lookup that
scans from the last entry. TLC shows that the property catches it.

## Not modelled

- `free_slab`, and the allocation failures of `slab.c`. A failure returns
  before any state change, except the unchecked `malloc` at slab.c:228,
  which crashes.
- A `slab_add` of an item larger than the 128 MiB cap. `n` becomes 0
  (slab.c:155), the first add writes past a zero-capacity slab, and spec.md
  says the capacity is clamped to one. This is listed as a hazard; no run
  checks it.
- Concurrent `slab_add` to one slab, which is outside the callers' use.
- `path_walk_components`, which only passes each component to a callback
  and returns its first nonzero result. The `fs_cursor_*` walk is modelled only as `FsCursorEntries`,
  which `fs_mount_point_from_path` uses.
- The histogram library that freesp uses (not under `src/`). Only whether
  buckets exist is kept.
- `logres` (it prints the mount's reservations and changes nothing), the
  `list_tags`/help output of inject, and the log item size functions, which
  are constants in `Logformat`.
- `check_mapping_range` and the `mmap` command (`io/mmap.c`, not under
  `src/`); the first is modelled from its contract.
- The kmem cache shim (`libxfs/kmem.c`). Its only state is each cache's
  `allocated` counter. It is raised by `kmem_cache_alloc`, lowered by
  `kmem_cache_free` in a header not under `src/`, and read once by
  `kmem_cache_destroy`'s leak report. The callers that would make the count
  interesting (the buffer and inode caches of libxfs) are not under `src/`
  either, so a model would be a counter with nothing to check it against.
- The dahash self test (`libfrog/dahashselftest.h`): a table of expected
  name hashes. Both the hash functions it tests and its test buffer,
  `randbytes_test_buf`, are defined outside `src/`, so there is nothing to
  check the table against.
- The declaration-only headers (progress, proto, vfs) have no behaviour.
