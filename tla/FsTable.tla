------------------------------ MODULE FsTable ------------------------------
(***************************************************************************)
(* The filesystem path table of libfrog (src/libfrog/paths.c): the global  *)
(* fs_table[] of mount points and project paths, with fs_count,            *)
(* xfs_fs_count and the fs_path pointer, filled by fs_table_initialise    *)
(* from the mount table and the projects file, extended by                 *)
(* fs_table_insert_project_path and emptied by fs_table_destroy.           *)
(*                                                                         *)
(* Strings are abstracted to heap allocation ids (0 is NULL) so that the   *)
(* ownership rules of fs_table_insert ("consumes" fslog and fsrt) can be   *)
(* checked; an entry also keeps the name's value, and fs_path is kept as   *)
(* the index it points at (0 for NULL).  Whether a stat(), realpath(),     *)
(* strdup() or realloc() fails is an input of the step that calls it.      *)
(***************************************************************************)
EXTENDS Naturals, Sequences, SequencesExt, FiniteSets

CONSTANTS
  Mtab,       \* the mount table, in order: [dir, fsname, type, xfs, dev, logdev, rtdev]
  Projects,   \* the projects file, in order: [path, prid, dev]
  MaxInits,   \* bound on fs_table_initialise calls
  MaxIds      \* bound on heap string allocations

NULL == "NULL"       \* a NULL path argument
NoProject == 0      \* a NULL project argument (project ids are positive)
MP == "MOUNT_POINT"
PP == "PROJECT_PATH"
FOREIGN == "FOREIGN"

VARIABLES
  table,      \* fs_table[0 .. fs_count-1], as a sequence
  fsCount,    \* fs_count
  xfsCount,   \* xfs_fs_count
  fsPath,     \* fs_path, as the table index it points at (0: NULL)
  live,       \* heap strings allocated and not freed
  nextId,     \* next allocation id
  badFree,    \* some free() was of a string not allocated
  phase,      \* where fs_table_initialise is: "idle", "mtab", "mounts", "projects"
  arg,        \* [mount, project]: its mount and project argument, or NULL
  pos,        \* the mount table or projects file entry the loop is at
  streams,    \* mount table streams opened by setmntent and not closed
  inits,      \* fs_table_initialise calls so far
  inserted    \* history: entries in the order fs_table_insert added them

vars == <<table, fsCount, xfsCount, fsPath, live, nextId, badFree, phase,
          arg, pos, streams, inits, inserted>>
tableVars == <<table, fsCount, xfsCount, fsPath, live, nextId, badFree, inserted>>

IsForeign(e) == FOREIGN \in e.flags

\* free() of each non-NULL string of ids.
Free(ids) ==
  /\ live' = live \ ids
  /\ badFree' = (badFree \/ ~(ids \ {0} \subseteq live))

\* fslog and fsrt, when not 0, are strings the caller has just allocated
\* (ids nextId, nextId + 1); dir and fsname copies get the ids after them.

\* What can go wrong inside fs_table_insert, in the order it is met.
InsertFails == {"none", "stat", "statlog", "statrt", "dupdir", "dupname", "realloc"}

\* Plausible bug: the realloc failure path forgets free(fsname).
FsTableInsertLeakName(dir, dev, xfs, prid, flags, name, logId, rtId, fail) ==
  LET base == nextId + Cardinality({logId, rtId} \ {0})
      heap == live \cup ({logId, rtId} \ {0})
      dirId == base  nameId == base + 1
      fl == IF xfs THEN flags ELSE flags \cup {FOREIGN}
      e  == [dir |-> dir, dirId |-> dirId, prid |-> prid, flags |-> fl,
             name |-> name, nameId |-> nameId, logId |-> logId, rtId |-> rtId, dev |-> dev]
      at == IF ~xfs \/ fsCount = 0 THEN fsCount + 1 ELSE xfsCount + 1
  IN  /\ fail = "statlog" => logId # 0
      /\ fail = "statrt" => rtId # 0
      /\ CASE fail = "none" -> live' = heap \cup {dirId, nameId} /\ UNCHANGED badFree
           [] fail = "realloc" -> live' = (heap \ {logId, rtId}) \cup {nameId}
                                 /\ UNCHANGED badFree
           [] OTHER -> live' = heap \ {logId, rtId} /\ UNCHANGED badFree
      /\ nextId' = base + (CASE fail = "dupname" -> 1
                                [] fail \in {"realloc", "none"} -> 2
                                [] OTHER -> 0)
      /\ IF fail = "none"
           THEN /\ table' = InsertAt(table, at, e)
                /\ fsPath' = at
                /\ fsCount' = fsCount + 1
                /\ xfsCount' = IF xfs THEN xfsCount + 1 ELSE xfsCount
                /\ inserted' = Append(inserted, e)
           ELSE UNCHANGED <<table, fsPath, fsCount, xfsCount, inserted>>

\* Plausible bug: every entry is appended, xfs or foreign.
FsTableInsertAppend(dir, dev, xfs, prid, flags, name, logId, rtId, fail) ==
  LET base == nextId + Cardinality({logId, rtId} \ {0})
      heap == live \cup ({logId, rtId} \ {0})
      dirId == base  nameId == base + 1
      fl == IF xfs THEN flags ELSE flags \cup {FOREIGN}
      e  == [dir |-> dir, dirId |-> dirId, prid |-> prid, flags |-> fl,
             name |-> name, nameId |-> nameId, logId |-> logId, rtId |-> rtId, dev |-> dev]
  IN  /\ fail = "none"
      /\ table' = Append(table, e)
      /\ fsPath' = Len(table) + 1
      /\ fsCount' = fsCount + 1
      /\ xfsCount' = IF xfs THEN xfsCount + 1 ELSE xfsCount
      /\ live' = heap \cup {dirId, nameId}
      /\ nextId' = base + 2
      /\ inserted' = Append(inserted, e)
      /\ UNCHANGED badFree

\* fs_table_insert: stat the data, log and rt devices, mark non-xfs paths
\* FS_FOREIGN, copy dir and fsname, grow the table and put the entry after
\* the xfs entries (moving the foreign ones down) or, if foreign or first,
\* at the end.  On every error it frees what it copied and also fslog and
\* fsrt, which it owns from the call on.
FsTableInsert(dir, dev, xfs, prid, flags, name, logId, rtId, fail) ==
  LET base == nextId + Cardinality({logId, rtId} \ {0})
      heap == live \cup ({logId, rtId} \ {0})
      dirId == base  nameId == base + 1
      fl == IF xfs THEN flags ELSE flags \cup {FOREIGN}
      e  == [dir |-> dir, dirId |-> dirId, prid |-> prid, flags |-> fl,
             name |-> name, nameId |-> nameId, logId |-> logId, rtId |-> rtId, dev |-> dev]
      at == IF ~xfs \/ fsCount = 0 THEN fsCount + 1 ELSE xfsCount + 1
  IN  /\ fail = "statlog" => logId # 0
      /\ fail = "statrt" => rtId # 0
      /\ IF fail = "none"
           THEN /\ live' = heap \cup {dirId, nameId}
                /\ UNCHANGED badFree
           ELSE /\ live' = heap \ {logId, rtId}
                /\ UNCHANGED badFree
      /\ nextId' = base + (CASE fail = "dupname" -> 1
                                [] fail \in {"realloc", "none"} -> 2
                                [] OTHER -> 0)
      /\ IF fail = "none"
           THEN /\ table' = InsertAt(table, at, e)
                /\ fsPath' = at
                /\ fsCount' = fsCount + 1
                /\ xfsCount' = IF xfs THEN xfsCount + 1 ELSE xfsCount
                /\ inserted' = Append(inserted, e)
           ELSE UNCHANGED <<table, fsPath, fsCount, xfsCount, inserted>>

\* fs_cursor_initialise(NULL, flags) and fs_cursor_next_entry: the table
\* indexes the cursor returns, in order (flags 0 selects every entry).
FsCursorEntries(flags) ==
  SelectSeq([i \in 1..fsCount |-> i],
            LAMBDA i : flags = {} \/ flags \cap table[i].flags # {})

\* Plausible bug: the cursor loop never compares fs_datadev.
MountPointFromPathAnyDev(dev) ==
  LET hits == FsCursorEntries({MP})
  IN  IF hits = <<>> THEN 0 ELSE hits[1]

\* fs_mount_point_from_path: the first entry a FS_MOUNT_POINT cursor
\* returns whose data device is the path's; 0 when there is none.
MountPointFromPath(dev) ==
  LET hits == SelectSeq(FsCursorEntries({MP}), LAMBDA i : table[i].dev = dev)
  IN  IF hits = <<>> THEN 0 ELSE hits[1]

\* Plausible bug: the lookup loop runs from the last entry down.
FsTableLookupReverse(dev, flags) ==
  LET hits == SelectSeq([i \in 1..fsCount |-> i],
                LAMBDA i : /\ flags = {} \/ flags \cap table[i].flags # {}
                           /\ table[i].dev = dev)
  IN  IF hits = <<>> THEN 0 ELSE hits[Len(hits)]

\* fs_table_lookup(dir, flags) for a dir whose fs_device_number is dev (the
\* st_rdev of a device node, else the st_dev of its filesystem; 0 when the
\* stat fails): the first entry with one of the flags (any entry for flags
\* 0) whose data device is dev; 0 for NULL.
FsTableLookup(dev, flags) ==
  LET hits == SelectSeq([i \in 1..fsCount |-> i],
                LAMBDA i : /\ flags = {} \/ flags \cap table[i].flags # {}
                           /\ table[i].dev = dev)
  IN  IF dev = 0 \/ hits = <<>> THEN 0 ELSE hits[1]

\* __fs_table_lookup_mount(dir, blkdev), the body of fs_table_lookup_mount
\* (dir) and fs_table_lookup_blkdev (blkdev): the first entry whose flags
\* are exactly FS_MOUNT_POINT and whose fs_dir (or fs_name) resolves to the
\* argument's real path.  resolved is the set of paths realpath resolves;
\* table paths are kept in their resolved form.
FsTableLookupMount(dir, blkdev, resolved) ==
  LET key == IF dir # NULL THEN dir ELSE blkdev
      field(i) == IF dir # NULL THEN table[i].dir ELSE table[i].name
      hits == SelectSeq([i \in 1..fsCount |-> i],
                LAMBDA i : /\ table[i].flags = {MP}
                           /\ field(i) \in resolved /\ field(i) = key)
  IN  IF (dir = NULL /\ blkdev = NULL) \/ key \notin resolved \/ hits = <<>>
      THEN 0 ELSE hits[1]

-----------------------------------------------------------------------------
(* fs_table_initialise and the loops it runs.                              *)

\* fs_table_initialise(mount_count, mounts, project_count, projects) with
\* at most one mount and one project argument (NULL: mount_count or
\* project_count is 0).
FsTableInitialise(m, p) ==
  /\ phase = "idle"
  /\ inits < MaxInits
  /\ arg' = [mount |-> m, project |-> p]
  /\ phase' = "mtab"
  /\ inits' = inits + 1
  /\ UNCHANGED <<tableVars, pos, streams>>

\* fs_table_initialise_mounts entry: setmntent, then realpath of the mount
\* argument, which returns errno with the stream still open.  An error
\* ends fs_table_initialise when there was no mount argument (out_error);
\* with one, fs_table_insert_mount only prints it.
MtabOpen(openOK, realpathOK) ==
  /\ phase = "mtab"
  /\ arg.mount = NULL => realpathOK
  /\ streams' = IF openOK THEN streams + 1 ELSE streams
  /\ IF openOK /\ realpathOK
       THEN phase' = "mounts" /\ pos' = 1
       ELSE /\ phase' = IF arg.mount = NULL THEN "idle" ELSE "projects"
            /\ pos' = 1
  /\ UNCHANGED <<tableVars, arg, inits>>

\* The lines of fs_extract_mount_options that allocate: strndup of the
\* logdev= and rtdev= values.
ExtractIds(e) ==
  [log |-> IF e.logdev THEN nextId ELSE 0,
   rt  |-> IF e.rtdev THEN nextId + (IF e.logdev THEN 1 ELSE 0) ELSE 0]

\* Plausible bug: the break path closes the stream and then leaves the
\* loop through its end, which closes it again.
MountEntryDoubleClose(resolveOK, extractOK, fail) ==
  LET e == Mtab[pos]
      skip == \/ e.type = "autofs" \/ ~resolveOK
              \/ arg.mount # NULL /\ arg.mount \notin {e.dir, e.fsname}
      ids == ExtractIds(e)
  IN
  /\ phase = "mounts"
  /\ pos <= Len(Mtab)
  /\ ~extractOK => (e.logdev \/ e.rtdev)
  /\ IF skip \/ ~extractOK
       THEN /\ fail = "none" /\ (skip => extractOK)
            /\ pos' = pos + 1
            /\ UNCHANGED <<tableVars, phase, streams>>
       ELSE /\ FsTableInsert(e.dir, e.dev, e.xfs, 0, {MP}, e.fsname, ids.log, ids.rt, fail)
            /\ IF arg.mount # NULL
                 THEN pos' = Len(Mtab) + 1 /\ streams' = streams - 1 /\ UNCHANGED phase
                 ELSE pos' = pos + 1 /\ UNCHANGED <<phase, streams>>
  /\ UNCHANGED <<arg, inits>>

\* One getmntent iteration: skip autofs, unresolvable and (with a mount
\* argument) non-matching entries; extract the log and rt device options
\* (an allocation failure skips the entry); insert the entry as a mount
\* point, ignoring the result; with a mount argument stop at the first.
MountEntry(resolveOK, extractOK, fail) ==
  LET e == Mtab[pos]
      skip == \/ e.type = "autofs" \/ ~resolveOK
              \/ arg.mount # NULL /\ arg.mount \notin {e.dir, e.fsname}
      ids == ExtractIds(e)
  IN
  /\ phase = "mounts"
  /\ pos <= Len(Mtab)
  /\ ~extractOK => (e.logdev \/ e.rtdev)
  /\ IF skip \/ ~extractOK
       THEN /\ fail = "none" /\ (skip => extractOK)
            /\ pos' = pos + 1
            /\ UNCHANGED <<tableVars, phase, streams>>
       ELSE /\ FsTableInsert(e.dir, e.dev, e.xfs, 0, {MP}, e.fsname, ids.log, ids.rt, fail)
            /\ IF arg.mount # NULL
                 THEN phase' = "projects" /\ pos' = 1 /\ streams' = streams - 1
                 ELSE pos' = pos + 1 /\ UNCHANGED <<phase, streams>>
  /\ UNCHANGED <<arg, inits>>

\* End of the mount table: endmntent (ENXIO for a mount argument not
\* found is only printed).
MtabEnd ==
  /\ phase = "mounts"
  /\ pos > Len(Mtab)
  /\ streams' = streams - 1
  /\ phase' = "projects" /\ pos' = 1
  /\ UNCHANGED <<tableVars, arg, inits>>

\* One getprpathent iteration of fs_table_initialise_projects: skip other
\* projects, find the mount point on the path's device, insert the path
\* with that mount's fs_name; with a project argument stop at the first.
ProjectEntry(statOK, fail) ==
  LET pr == Projects[pos]
      fs == IF statOK THEN MountPointFromPath(pr.dev) ELSE 0
      skip == (arg.project # NoProject /\ pr.prid # arg.project) \/ fs = 0
  IN
  /\ phase = "projects"
  /\ pos <= Len(Projects)
  /\ IF skip
       THEN /\ fail = "none"
            /\ pos' = pos + 1
            /\ UNCHANGED <<tableVars, phase>>
       ELSE /\ FsTableInsert(pr.path, pr.dev, ~IsForeign(table[fs]), pr.prid, {PP},
                             table[fs].name, 0, 0, fail)
            /\ IF arg.project # NoProject
                 THEN phase' = "idle" /\ UNCHANGED pos
                 ELSE pos' = pos + 1 /\ UNCHANGED phase
  /\ UNCHANGED <<arg, streams, inits>>

\* End of the projects file: fs_table_initialise returns.
ProjectsEnd ==
  /\ phase = "projects"
  /\ pos > Len(Projects)
  /\ phase' = "idle"
  /\ UNCHANGED <<tableVars, arg, pos, streams, inits>>

-----------------------------------------------------------------------------
(* The other entry points.                                                 *)

\* fs_table_insert_project_path(dir, prid) for the k-th project's path.
FsTableInsertProjectPath(k, statOK, fail) ==
  LET pr == Projects[k]
      fs == IF statOK THEN MountPointFromPath(pr.dev) ELSE 0
  IN
  /\ phase = "idle"
  /\ nextId < MaxIds
  /\ fs # 0
  /\ FsTableInsert(pr.path, pr.dev, ~IsForeign(table[fs]), pr.prid, {PP},
                   table[fs].name, 0, 0, fail)
  /\ UNCHANGED <<phase, arg, pos, streams, inits>>

\* fs_table_destroy: free every entry's strings and the table, zero the
\* counts; fs_path is left as it was.
FsTableDestroy ==
  /\ phase = "idle"
  /\ Free(UNION { {table[i].dirId, table[i].nameId, table[i].logId, table[i].rtId} :
                  i \in 1..fsCount })
  /\ table' = <<>> /\ fsCount' = 0 /\ xfsCount' = 0
  /\ inserted' = <<>>
  /\ UNCHANGED <<fsPath, nextId, phase, arg, pos, streams, inits>>

\* The program stops using the table.
Quiescent == phase = "idle" /\ UNCHANGED vars

Init ==
  /\ table = <<>> /\ fsCount = 0 /\ xfsCount = 0 /\ fsPath = 0
  /\ live = {} /\ nextId = 1 /\ badFree = FALSE
  /\ phase = "idle" /\ arg = [mount |-> NULL, project |-> NoProject]
  /\ pos = 1 /\ streams = 0 /\ inits = 0
  /\ inserted = <<>>

MountArgs == {NULL} \cup { Mtab[i].dir : i \in DOMAIN Mtab }
ProjectArgs == {NoProject} \cup { Projects[i].prid : i \in DOMAIN Projects }

Next ==
  \/ \E m \in MountArgs, p \in ProjectArgs : FsTableInitialise(m, p)
  \/ \E o, r \in BOOLEAN : MtabOpen(o, r)
  \/ \E r, x \in BOOLEAN, f \in InsertFails : MountEntry(r, x, f)
  \/ MtabEnd
  \/ \E s \in BOOLEAN, f \in InsertFails : ProjectEntry(s, f)
  \/ ProjectsEnd
  \/ \E k \in DOMAIN Projects, s \in BOOLEAN, f \in InsertFails :
       FsTableInsertProjectPath(k, s, f)
  \/ FsTableDestroy
  \/ Quiescent

Spec == Init /\ [][Next]_vars

-----------------------------------------------------------------------------
(* Properties.                                                             *)

Flags == SUBSET {MP, PP, FOREIGN}
Entry == [dir : STRING, dirId : Nat, prid : Nat, flags : Flags, name : STRING,
          nameId : Nat, logId : Nat, rtId : Nat, dev : Nat]

TypeOK ==
  /\ table \in Seq(Entry) /\ inserted \in Seq(Entry)
  /\ {fsCount, xfsCount, fsPath, nextId, streams, inits} \subseteq Nat
  /\ live \subseteq 1..nextId /\ badFree \in BOOLEAN
  /\ phase \in {"idle", "mtab", "mounts", "projects"}

IsXfsEntry(e) == ~IsForeign(e)

\* fs_table keeps every XFS entry before every foreign one, fs_count and
\* xfs_fs_count count them, and within each kind the entries stay in the
\* order they were inserted, however inserts of the two kinds interleave
\* with the memmove of the foreign block.
XfsFirst ==
  /\ fsCount = Len(table)
  /\ xfsCount = Len(SelectSeq(table, IsXfsEntry))
  /\ \A i \in 1..fsCount : IsXfsEntry(table[i]) <=> i <= xfsCount
  /\ SelectSeq(table, IsXfsEntry) = SelectSeq(inserted, IsXfsEntry)
  /\ SelectSeq(table, IsForeign) = SelectSeq(inserted, IsForeign)

TableStrings == UNION { {table[i].dirId, table[i].nameId, table[i].logId,
                         table[i].rtId} \ {0} : i \in 1..Len(table) }

\* Every heap string of the path table is owned by exactly one place:
\* after any sequence of inserts (each failing at any point), initialise
\* and destroy calls, the live strings are exactly those the table
\* entries point at, and nothing was freed that was not live.
StringsOwned == live = TableStrings /\ ~badFree

\* A project path entry carries the fs_name of a mount point entry on the
\* same device (fs_mount_point_from_path, read through a pointer into the
\* table that fs_table_insert reallocs and memmoves).
ProjectOnItsMount ==
  \A i \in 1..Len(table) : PP \in table[i].flags =>
    \E j \in 1..Len(table) : /\ MP \in table[j].flags
                             /\ table[j].dev = table[i].dev
                             /\ table[j].name = table[i].name

\* Every XFS mount point in the table is what a lookup of it finds, whatever
\* order the initialise and insert_project_path calls put the entries in:
\* fs_table_lookup of a path on its device, with flags 0 or
\* FS_MOUNT_POINT, finds a mount point of that device and never one of the
\* project paths on it (which share its fs_datadev), and
\* fs_table_lookup_mount of its directory and fs_table_lookup_blkdev of
\* its device name find that same entry.
LookupsFindMount ==
  LET paths == { table[k].dir : k \in 1..fsCount } \cup { table[k].name : k \in 1..fsCount }
  IN  \A i \in 1..fsCount :
        MP \in table[i].flags /\ IsXfsEntry(table[i]) =>
          LET j == FsTableLookup(table[i].dev, {})
          IN  /\ j # 0 /\ MP \in table[j].flags
              /\ FsTableLookup(table[i].dev, {MP}) = j
              /\ FsTableLookupMount(table[i].dir, NULL, paths) = j
              /\ FsTableLookupMount(NULL, table[i].name, paths) = j

\* When fs_table_initialise has returned, the mount table stream is closed.
MtabClosed == phase = "idle" => streams = 0

=============================================================================
