------------------------------- MODULE MCXfsIo -------------------------------
(* Four tag_names entries, the third a NULL hole; 2-byte pages.  Mappings:*)
(* three whole pages at file offset 2, and 5 bytes (two and a half pages) *)
(* at file offset 0.                                                       *)
EXTENDS XfsIo, TLC

MCTagNames == (0 :> "noerror" @@ 1 :> "readagf" @@ 2 :> "NULL" @@ 3 :> "writeagi")

\* No argument, one tag, two tags, an unknown name, noerror last and first.
MCInjectArgs ==
  { <<>>, <<"readagf">>, <<"readagf", "writeagi">>, <<"bogus", "writeagi">>,
    <<"readagf", "noerror">>, <<"noerror", "writeagi">> }

MCMappings == { [offset |-> 2, length |-> 6], [offset |-> 0, length |-> 5] }

\* No argument (the whole mapping), whole-page ranges, an unaligned offset,
\* a range past the end, non-numeric numbers, a wrong argument count.
MCMincoreArgs ==
  { <<>>, <<2, 6>>, <<4, 2>>, <<2, 3>>, <<3, 2>>, <<6, 4>>, <<-1, 2>>, <<2, -1>>, <<2>> }
=============================================================================
