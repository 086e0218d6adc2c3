------------------------------- MODULE Libfrog -------------------------------
(***************************************************************************)
(* Two libfrog components checked in one run: the structured path lists   *)
(* (PathList, src/libfrog/paths.c) and the file attribute calls           *)
(* (FileAttr, src/libfrog/file_attr.c).  They share no state: a step of   *)
(* the composition is a step of one of them, the other unchanged, so      *)
(* every property of either holds of the composition exactly when it     *)
(* holds of that component alone.                                          *)
(***************************************************************************)

CONSTANTS
  Inos, NameLens, MaxComponents, MaxListLen, MaxBuf,     \* PathList
  HaveFileGetattr, Inodes, Kind, InitAttrs, XflagValues  \* FileAttr

VARIABLES
  comps,                      \* PathList
  named, attrs, sysOk, fac    \* FileAttr

P == INSTANCE PathList
FA == INSTANCE FileAttr

allVars == <<comps, named, attrs, sysOk, fac>>

Init == P!Init /\ FA!Init

Next ==
  \/ P!Next /\ UNCHANGED <<named, attrs, sysOk, fac>>
  \/ FA!Next /\ UNCHANGED comps

Spec == Init /\ [][Next]_allVars

-----------------------------------------------------------------------------
(* The components' properties                                              *)

\* The path list holds components and the file attribute state its types.
TypeOK == P!TypeOK /\ FA!TypeOK

\* path_will_loop says "loop" exactly for a repeated inode or a too-long path.
WillLoopMeansRepeatOrTooLong == P!WillLoopMeansRepeatOrTooLong

\* path_list_to_string returns the string's length when it fits, else -1.
ToStringFitsOrFails == P!ToStringFitsOrFails

\* A chattr on the inode it read changes only that inode's xflags.
ChattrKeepsOtherFields == FA!ChattrKeepsOtherFields

\* The fallback's open blocks on a FIFO only after a rename since lstat.
OpenBlocksOnlyAfterRename == FA!OpenBlocksOnlyAfterRename

=============================================================================
