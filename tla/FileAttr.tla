------------------------------ MODULE FileAttr -------------------------------
(***************************************************************************)
(* libfrog's file attribute calls (src/libfrog/file_attr.c):              *)
(* xfrog_file_getattr and xfrog_file_setattr try the file_getattr and     *)
(* file_setattr system calls and, when the build lacks them or the kernel *)
(* answers ENOSYS, fall back to open(path) and the FS_IOC_FSGETXATTR /    *)
(* FS_IOC_FSSETXATTR ioctls, refusing special files (SPECIAL_FILE of the  *)
(* mode the caller stat'ed) because opening them may block or have side  *)
(* effects.                                                                *)
(*                                                                         *)
(* The caller is xfs_io's lsattr and chattr (io/attr.c, outside src/):    *)
(* lstat the path, get the attributes, and for chattr change xflags and   *)
(* set them.  Each call is one step; between the steps another process    *)
(* may make the path name another inode (Rename).  One path, AT_FDCWD.    *)
(***************************************************************************)
EXTENDS Integers

CONSTANTS
  HaveFileGetattr, \* the build's HAVE_FILE_GETATTR
  Inodes,          \* the inodes the path can name
  Kind,            \* [Inodes -> {"reg", "dir", "fifo", "chr", "lnk", "sock"}]
  InitAttrs,       \* the inodes' attributes at start: [Inodes -> Attr]
  XflagValues      \* the xflags values chattr is asked to set

VARIABLES
  named,    \* the inode the path names now
  attrs,    \* each inode's attributes (kernel state)
  sysOk,    \* the running kernel has file_getattr/file_setattr
  fac       \* the lsattr/chattr command in progress

faVars == <<named, attrs, sysOk, fac>>

\* struct file_attr; struct fsxattr has the same five fields (and padding).
Attr == [xflags : Nat, extsize : Nat, nextents : Nat, projid : Nat, cowextsize : Nat]

\* No command in progress; ret is what the last call returned.
Done(ret) == [pc |-> "idle", ret |-> ret]
Idle == Done(0)

\* Plausible bug: the S_ISFIFO test missing from SPECIAL_FILE.
SpecialFileNoFifo(kind) == kind \in {"chr", "blk", "lnk", "sock"}

\* SPECIAL_FILE(mode), file_attr.h
SpecialFile(kind) == kind \in {"chr", "blk", "fifo", "lnk", "sock"}

-----------------------------------------------------------------------------
(* The conversions                                                         *)

FileAttrToFsxattr(fa) ==
  [fsx_xflags |-> fa.xflags, fsx_extsize |-> fa.extsize, fsx_nextents |-> fa.nextents,
   fsx_projid |-> fa.projid, fsx_cowextsize |-> fa.cowextsize]

\* Plausible bug: fsx_cowextsize is not copied back (left zero by memset).
FsxattrToFileAttrNoCow(fsxa) ==
  [xflags |-> fsxa.fsx_xflags, extsize |-> fsxa.fsx_extsize, nextents |-> fsxa.fsx_nextents,
   projid |-> fsxa.fsx_projid, cowextsize |-> 0]

FsxattrToFileAttr(fsxa) ==
  [xflags |-> fsxa.fsx_xflags, extsize |-> fsxa.fsx_extsize, nextents |-> fsxa.fsx_nextents,
   projid |-> fsxa.fsx_projid, cowextsize |-> fsxa.fsx_cowextsize]

\* What the kernel's FS_IOC_FSGETXATTR fills in, and what FS_IOC_FSSETXATTR
\* and file_setattr change (fsx_nextents is read-only).
KernelFsxattr(ino) == FileAttrToFsxattr(attrs[ino])
KernelSet(ino, xflags, extsize, projid, cowextsize) ==
  [attrs EXCEPT ![ino] = [@ EXCEPT !.xflags = xflags, !.extsize = extsize,
                                   !.projid = projid, !.cowextsize = cowextsize]]

-----------------------------------------------------------------------------
(* The caller: lstat, then the calls                                       *)

\* lsattr or chattr (asking for xflags x) lstat's the path.
LStat(cmd, x) ==
  /\ fac.pc = "idle"
  /\ fac' = [pc |-> "get", cmd |-> cmd, want |-> x, stIno |-> named, stKind |-> Kind[named]]
  /\ UNCHANGED <<named, attrs, sysOk>>

\* The fallback's open(path, O_RDONLY|O_NOCTTY) of a FIFO waits for a
\* writer that never comes.
OpenBlocks(ino) == Kind[ino] = "fifo"

\* xfrog_file_getattr(AT_FDCWD, path, &st, &fa, AT_SYMLINK_NOFOLLOW).
\* sysFails: file_getattr fails with an errno other than ENOSYS;
\* ioctlFails: FS_IOC_FSGETXATTR fails (as on a device).
XfrogFileGetattr(sysFails, ioctlFails) ==
  LET fallback == ~HaveFileGetattr \/ ~sysOk
      done(ret, fa) == IF fac.cmd = "chattr" /\ ret = 0
                       THEN [pc |-> "set", want |-> fac.want, stIno |-> fac.stIno,
                             stKind |-> fac.stKind, fa |-> fa, getIno |-> named]
                       ELSE Done(ret)
  IN  /\ fac.pc = "get"
      /\ \/ /\ ~fallback
            /\ fac' = IF sysFails THEN done(-1, Idle) ELSE done(0, attrs[named])
         \/ /\ fallback /\ SpecialFile(fac.stKind)
            /\ fac' = done(-1, Idle)  \* errno = EOPNOTSUPP
         \/ /\ fallback /\ ~SpecialFile(fac.stKind) /\ OpenBlocks(named)
            /\ fac' = [pc |-> "blocked", stIno |-> fac.stIno, openIno |-> named]
         \/ /\ fallback /\ ~SpecialFile(fac.stKind) /\ ~OpenBlocks(named)
            /\ fac' = IF ioctlFails THEN done(-1, Idle)
                      ELSE done(0, FsxattrToFileAttr(KernelFsxattr(named)))
      /\ UNCHANGED <<named, attrs, sysOk>>

\* chattr's xfrog_file_setattr(AT_FDCWD, path, st.st_mode, &fa, ...) with
\* fa's xflags changed as asked.
XfrogFileSetattr(sysFails, ioctlFails) ==
  LET fallback == ~HaveFileGetattr \/ ~sysOk
      fa == [fac.fa EXCEPT !.xflags = fac.want]
      fsxa == FileAttrToFsxattr(fa)
  IN  /\ fac.pc = "set"
      /\ \/ /\ ~fallback /\ sysFails
            /\ fac' = Done(-1) /\ UNCHANGED attrs
         \/ /\ ~fallback /\ ~sysFails
            /\ attrs' = KernelSet(named, fa.xflags, fa.extsize, fa.projid, fa.cowextsize)
            /\ fac' = Done(0)
         \/ /\ fallback /\ SpecialFile(fac.stKind)
            /\ fac' = Done(-1) /\ UNCHANGED attrs  \* errno = EOPNOTSUPP
         \/ /\ fallback /\ ~SpecialFile(fac.stKind) /\ OpenBlocks(named)
            /\ fac' = [pc |-> "blocked", stIno |-> fac.stIno, openIno |-> named] /\ UNCHANGED attrs
         \/ /\ fallback /\ ~SpecialFile(fac.stKind) /\ ~OpenBlocks(named) /\ ioctlFails
            /\ fac' = Done(-1) /\ UNCHANGED attrs
         \/ /\ fallback /\ ~SpecialFile(fac.stKind) /\ ~OpenBlocks(named) /\ ~ioctlFails
            /\ attrs' = KernelSet(named, fsxa.fsx_xflags, fsxa.fsx_extsize,
                                  fsxa.fsx_projid, fsxa.fsx_cowextsize)
            /\ fac' = Done(0)
      /\ UNCHANGED <<named, sysOk>>

\* Another process makes the path name another inode.
Rename(ino) ==
  /\ ino # named
  /\ named' = ino
  /\ UNCHANGED <<attrs, sysOk, fac>>

-----------------------------------------------------------------------------

Init ==
  /\ named \in Inodes
  /\ attrs = InitAttrs
  /\ sysOk \in BOOLEAN
  /\ fac = Idle

\* The caller's steps (one command at a time).
CallerNext ==
  \/ LStat("lsattr", "none")
  \/ \E x \in XflagValues : LStat("chattr", x)
  \/ \E sf, io \in BOOLEAN : XfrogFileGetattr(sf, io) \/ XfrogFileSetattr(sf, io)

Next ==
  \/ CallerNext
  \/ \E ino \in Inodes : Rename(ino)

Spec == Init /\ [][Next]_faVars

-----------------------------------------------------------------------------
(* Properties                                                              *)

TypeOK ==
  /\ named \in Inodes
  /\ attrs \in [Inodes -> Attr]
  /\ sysOk \in BOOLEAN
  /\ fac.pc \in {"idle", "get", "set", "blocked"}

\* A chattr that succeeds on the inode it read leaves that inode with the
\* xflags asked for and every other attribute as it was, whichever of the
\* system call and the ioctl fallback did the get and the set.
ChattrKeepsOtherFields ==
  [][ fac.pc = "set" /\ fac'.pc = "idle" /\ fac'.ret = 0 /\ fac.getIno = named =>
        attrs'[named] = [attrs[named] EXCEPT !.xflags = fac.want] ]_faVars

\* The fallback's open blocks only when the path was renamed to a FIFO
\* after the caller's lstat: the SPECIAL_FILE test covers every file the
\* caller saw.
OpenBlocksOnlyAfterRename ==
  fac.pc = "blocked" => fac.openIno # fac.stIno

\* lsattr and chattr never wait forever in open.
NeverBlocks == fac.pc # "blocked"

\* A chattr that succeeds sets the attributes of the inode it read them
\* from.
ChattrSetsInodeItRead ==
  [][ fac.pc = "set" /\ fac'.pc = "idle" /\ fac'.ret = 0 => fac.getIno = named ]_faVars

=============================================================================
