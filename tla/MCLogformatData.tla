---------------------------- MODULE MCLogformatData -------------------------
(* A 10-bit int, 4-byte blocks, MAX_LSUNIT of 32; log item sizes giving  *)
(* per_intent 6 and step_size 9.                                          *)
EXTENDS Naturals, Integers, Sequences

Opt(o, v) == [o |-> o, v |-> v]

MCItemSpace == [efi |-> 2, efd |-> 1, rui |-> 2, rud |-> 1, cui |-> 2, cud |-> 1,
                bui |-> 2, bud |-> 1]
MCFinishRes == [efi |-> 6, rui |-> 9, cui |-> 8, bui |-> 7]

\* No option; each option alone; -c 0; a cycle that wraps negative (512)
\* or to 0 (1024); stripe units unaligned, too large, negative, and one
\* that wraps to a valid one; an unknown option; repeated options.
MCLogformatArgs ==
  { <<>>, <<Opt("c", 3)>>, <<Opt("c", 0)>>, <<Opt("c", 512)>>, <<Opt("c", 1024)>>,
    <<Opt("s", 8)>>, <<Opt("s", 1)>>, <<Opt("s", 6)>>, <<Opt("s", 64)>>, <<Opt("s", -4)>>,
    <<Opt("s", 1032)>>, <<Opt("x", 0)>>, <<Opt("c", 2), Opt("s", 16)>>, <<Opt("s", 6), Opt("s", 8)>> }

\* -l around step_size and negative (atoi's -1 stored unsigned), -b small
\* and large enough for the reservation to wrap, both, neither, an
\* unknown option.
MCUntornArgs ==
  { <<Opt("l", 30)>>, <<Opt("l", 5)>>, <<Opt("l", 9)>>, <<Opt("l", 16)>>, <<Opt("l", -1)>>,
    <<Opt("b", 3)>>, <<Opt("b", 200)>>,
    <<Opt("l", 30), Opt("b", 2)>>, <<>>, <<Opt("q", 1)>> }

MCInitLogs == { [clean |-> TRUE, cycle |-> 5, sunit |-> 8],
                [clean |-> FALSE, cycle |-> 5, sunit |-> 8] }
=============================================================================
