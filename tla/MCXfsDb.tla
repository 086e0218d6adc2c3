------------------------------- MODULE MCXfsDb -------------------------------
(* An xfs_db session over the filesystem of MCFreespData, the log of      *)
(* MCLogformatData and the attr forks below.                               *)
EXTENDS XfsDb, MCFreespData, MCLogformatData

Ent(flags, name, value) == [flags |-> flags, name |-> name, value |-> value]

\* No entry; a user attribute with a value and a root one without; a
\* secure attribute, a parent pointer with its 12-byte record, and a
\* user attribute after it.
MCSfForks ==
  { <<>>,
    << Ent(0, <<97>>, <<1, 2>>), Ent(2, <<98, 99>>, <<>>) >>,
    << Ent(4, <<97>>, <<5>>), Ent(8, <<100>>, [k \in 1..12 |-> k]), Ent(0, <<101>>, <<7>>) >> }

\* The two-entry fork with its count raised by one (a phantom entry of
\* the zeros after the fork), and with its first namelen raised by one.
MCCorruptObjs ==
  LET b == A!Encode(<< Ent(0, <<97>>, <<1, 2>>), Ent(2, <<98, 99>>, <<>>) >>)
  IN  { [b EXCEPT ![2] = 3], [b EXCEPT ![4] = 2] }
=============================================================================
