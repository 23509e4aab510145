------------------------------ MODULE MCChunks ------------------------------
(* Constant values for the runs of the window reads.                       *)
EXTENDS Chunks

SomeRequests == {<<"master", "fixed">>, <<"fixed", "element">>,
                 <<"virtual", "element">>, <<"fixed", "foreign">>}
SomeFroms == {-1, 0, 1, 3}
SomeCounts == {-1, 0, 2, 4, 127}
=============================================================================
