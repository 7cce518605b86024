------------------------------- MODULE MCP9Fs -------------------------------
(* A list of two files packed in an archive, the archive, and a preload    *)
(* file; opening m1 preloads the archive, opening m2 preloads m1.  E is    *)
(* the id of an empty file, which is on no list.                           *)
EXTENDS P9Fs

MCFileList == <<[name |-> "arc", id |-> "A"], [name |-> "m1", id |-> "M1"],
                [name |-> "m2", id |-> "M2"], [name |-> "pre", id |-> "P"]>>
MCServerData == [A |-> <<"a1", "a2">>, M1 |-> <<"a1">>, M2 |-> <<"a2">>, P |-> <<"p">>,
                 E |-> <<>>]
MCPreload == [M1 |-> <<[archive |-> TRUE, name |-> "arc"]>>,
              M2 |-> <<[archive |-> FALSE, name |-> "m1"]>>]
MCArchive == [arc |-> <<[name |-> "m1", id |-> "M1", size |-> 1],
                        [name |-> "m2", id |-> "M2", size |-> 1]>>]
MCKernelFiles == <<"pre", "pre2">>
=============================================================================
