-------------------------------- MODULE Jdm ---------------------------------
(***************************************************************************)
(* libhandle's jdm wrappers (src/libhandle/jdm.c), as xfsdump-style       *)
(* callers use them: get the filesystem handle of a mount point once,     *)
(* bulkstat an inode, then reach it by handle (open, readlink, attr       *)
(* calls) through a file handle jdm fills from the bulkstat record, or    *)
(* make such a handle with jdm_new_filehandle and free it.                 *)
(*                                                                         *)
(* Each wrapper is one step: the fill, and the by-handle call whose       *)
(* outcome the kernel decides (libhandle's *_by_handle and the kernel are *)
(* outside src/): a malformed handle is EINVAL, a handle whose inode was  *)
(* freed or reused under a new generation is ESTALE.  Between the steps   *)
(* another process unlinks the inode or reuses its number (Unlink,        *)
(* Create).  The v1 (xfs_bstat) and v5 (xfs_bulkstat) wrappers fill the   *)
(* same handle; v5 is an input of each call.                               *)
(***************************************************************************)
EXTENDS Naturals

CONSTANTS
  Ino,          \* the inode number the caller bulkstats
  MaxGen,       \* generations the inode number can reach
  ListMax,      \* XFS_XATTR_LIST_MAX, scaled down
  BufSizes      \* bufsz values the caller passes to jdm_attr_list

VARIABLES
  inode,        \* the kernel's inode Ino: [gen, live, kind]
  fsh,          \* jdm_getfshandle's result: "none" (not called), "null", "fs"
  bs,           \* the bulkstat record the caller holds, or NoStat
  fh,           \* jdm_new_filehandle's handle, NoHandle or NullHandle
  last          \* what the call of this step returned, or NoCall

jdmVars == <<inode, fsh, bs, fh, last>>

NoCall == [op |-> "none"]
NoStat == [ino |-> 0, gen |-> 0]     \* no bulkstat record yet
NoHandle == [fsh |-> "none"]         \* no jdm_new_filehandle yet
NullHandle == [fsh |-> "null"]       \* its malloc failed

FILEHANDLE_SZ_FOLLOWING == 14

\* The wrappers that make a by-handle call, and the parent ones that do not.
ByHandleOps == {"open", "readlink", "attr_multi", "attr_list"}
ParentOps == {"parents", "parentpaths"}

-----------------------------------------------------------------------------
(* jdm.c                                                                   *)

\* Plausible bug: fh_gen left as malloc/stack garbage (here 0).
JdmFillFilehandleNoGen(fshandle, statp) ==
  [fsh |-> fshandle, szFollowing |-> FILEHANDLE_SZ_FOLLOWING, pad |-> 0,
   gen |-> 0, ino |-> statp.ino]

\* jdm_fill_filehandle / jdm_fill_filehandle_v5
JdmFillFilehandle(fshandle, statp) ==
  [fsh |-> fshandle, szFollowing |-> FILEHANDLE_SZ_FOLLOWING, pad |-> 0,
   gen |-> statp.gen, ino |-> statp.ino]

\* jdm_attr_list(_v5): "prevent needless EINVAL from the kernel"
ClampBufsz(bufsz) == IF bufsz > ListMax THEN ListMax ELSE bufsz

\* What the kernel answers a by-handle call ("0", EINVAL for a bad handle or
\* attr list size, ESTALE for a freed or reused inode, EINVAL for a
\* readlink of a file that is not a symlink).
ByHandle(h, op, bufsz) ==
  CASE h.fsh # "fs" \/ h.szFollowing # FILEHANDLE_SZ_FOLLOWING \/ h.pad # 0 -> "EINVAL"
    [] op = "attr_list" /\ bufsz > ListMax                                   -> "EINVAL"
    [] ~inode.live \/ inode.gen # h.gen \/ h.ino # Ino                        -> "ESTALE"
    [] op = "readlink" /\ inode.kind # "lnk"                                  -> "EINVAL"
    [] OTHER                                                                  -> "0"

\* jdm_getfshandle(mntpnt): realpath, then path_to_fshandle.
JdmGetfshandle(realpathOk, handleOk) ==
  /\ fsh = "none"
  /\ fsh' = IF realpathOk /\ handleOk THEN "fs" ELSE "null"
  /\ last' = NoCall
  /\ UNCHANGED <<inode, bs, fh>>

\* jdm_open, jdm_readlink, jdm_attr_multi, jdm_attr_list and their _v5
\* forms: fill a handle on the stack from the bulkstat record and call.
JdmByHandle(op, v5, bufsz) ==
  /\ fsh = "fs" /\ bs # NoStat
  /\ LET h == JdmFillFilehandle(fsh, bs)
         b == IF op = "attr_list" THEN ClampBufsz(bufsz) ELSE bufsz
     IN  last' = [op |-> op, ret |-> ByHandle(h, op, b)]
  /\ UNCHANGED <<inode, fsh, bs, fh>>

\* jdm_parents, jdm_parentpaths (and _v5): EOPNOTSUPP, nothing called.
JdmParents(op) ==
  /\ fsh = "fs" /\ bs # NoStat
  /\ last' = [op |-> op, ret |-> "EOPNOTSUPP"]
  /\ UNCHANGED <<inode, fsh, bs, fh>>

\* jdm_new_filehandle(_v5): malloc, and the fill only if it succeeded.
JdmNewFilehandle(mallocOk) ==
  /\ fsh = "fs" /\ bs # NoStat /\ fh = NoHandle
  /\ fh' = IF mallocOk THEN JdmFillFilehandle(fsh, bs) ELSE NullHandle
  /\ last' = NoCall
  /\ UNCHANGED <<inode, fsh, bs>>

\* jdm_delete_filehandle: free (of NULL too).
JdmDeleteFilehandle ==
  /\ fh # NoHandle
  /\ fh' = NoHandle
  /\ last' = NoCall
  /\ UNCHANGED <<inode, fsh, bs>>

-----------------------------------------------------------------------------
(* The caller's bulkstat, and the other processes                         *)

\* Bulkstat reports the live inode: its number and generation.
Bulkstat ==
  /\ fsh = "fs" /\ inode.live
  /\ bs' = [ino |-> Ino, gen |-> inode.gen]
  /\ last' = NoCall
  /\ UNCHANGED <<inode, fsh, fh>>

Unlink ==
  /\ inode.live
  /\ inode' = [inode EXCEPT !.live = FALSE]
  /\ last' = NoCall
  /\ UNCHANGED <<fsh, bs, fh>>

\* The inode number is reused, with the next generation.
Create(kind) ==
  /\ ~inode.live /\ inode.gen < MaxGen
  /\ inode' = [gen |-> inode.gen + 1, live |-> TRUE, kind |-> kind]
  /\ last' = NoCall
  /\ UNCHANGED <<fsh, bs, fh>>

-----------------------------------------------------------------------------

Init ==
  /\ inode = [gen |-> 1, live |-> TRUE, kind |-> "lnk"]
  /\ fsh = "none"
  /\ bs = NoStat
  /\ fh = NoHandle
  /\ last = NoCall

Next ==
  \/ \E r, h \in BOOLEAN : JdmGetfshandle(r, h)
  \/ \E op \in ByHandleOps, v5 \in BOOLEAN, b \in BufSizes : JdmByHandle(op, v5, b)
  \/ \E op \in ParentOps : JdmParents(op)
  \/ \E m \in BOOLEAN : JdmNewFilehandle(m)
  \/ JdmDeleteFilehandle
  \/ Bulkstat
  \/ Unlink
  \/ \E k \in {"reg", "lnk"} : Create(k)

Spec == Init /\ [][Next]_jdmVars

-----------------------------------------------------------------------------
(* Properties                                                              *)

TypeOK ==
  /\ inode \in [gen : 1..MaxGen, live : BOOLEAN, kind : {"reg", "lnk"}]
  /\ fsh \in {"none", "null", "fs"}
  /\ bs \in {NoStat} \cup [ino : {Ino}, gen : 1..MaxGen]

\* A by-handle call made through jdm succeeds exactly when the incarnation
\* of the inode the caller bulkstat-ed is still live (and, for readlink,
\* is a symlink), whatever buffer size the caller passed: a freed or
\* reused inode is never reached through a stale record, and a live one
\* is never refused.
JdmCallsReachBulkstatInode ==
  last.op \in ByHandleOps =>
    ((last.ret = "0") <=> /\ inode.live /\ inode.gen = bs.gen
                        /\ (last.op = "readlink" => inode.kind = "lnk"))

=============================================================================
