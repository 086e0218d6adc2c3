----------------------------- MODULE MCFsTable -----------------------------
EXTENDS FsTable, TLC

\* Two XFS mounts (one with a logdev=, one with an rtdev= option), a
\* foreign mount between them and an autofs entry; a project on an XFS
\* mount, one on the foreign mount and one on no mount.
MCMtab ==
  << [dir |-> "/a", fsname |-> "/dev/a", type |-> "xfs", xfs |-> TRUE, dev |-> 1,
      logdev |-> TRUE, rtdev |-> FALSE],
     [dir |-> "/b", fsname |-> "/dev/b", type |-> "ext4", xfs |-> FALSE, dev |-> 2,
      logdev |-> FALSE, rtdev |-> FALSE],
     [dir |-> "/net", fsname |-> "auto", type |-> "autofs", xfs |-> FALSE, dev |-> 4,
      logdev |-> FALSE, rtdev |-> FALSE],
     [dir |-> "/c", fsname |-> "/dev/c", type |-> "xfs", xfs |-> TRUE, dev |-> 3,
      logdev |-> FALSE, rtdev |-> TRUE] >>

MCProjects ==
  << [path |-> "/a/p", prid |-> 1, dev |-> 1],
     [path |-> "/b/q", prid |-> 2, dev |-> 2],
     [path |-> "/x/r", prid |-> 3, dev |-> 9] >>

=============================================================================
