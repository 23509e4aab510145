------------------------------- MODULE MCRows -------------------------------
(* Channels, setter calls and batches for the run of the row writer.       *)
EXTENDS GroupRows

Symmetry == Permutations(Slots)

AllTypes == {"f32", "i8", "str"}

SetterCalls ==
    {<<"float", <<1, 2>>>>, <<"int", <<3, 4>>>>, <<"text", <<5, 6>>>>}

Col(ch, kind, vals) == [ch |-> ch, kind |-> kind, vals |-> vals]

(* Batches that fit, that are short, of the wrong type, empty, with a      *)
(* column more than once.                                                  *)
SomeBatches ==
    {[n |-> 2, cols |-> <<Col(1, "float", <<<<1, 1>>, <<2, 2>>>>)>>],
     [n |-> 2, cols |-> <<Col(1, "float", <<<<1, 1>>, <<2, 2>>>>), Col(2, "text", <<<<8>>, <<>>, <<9>>>>)>>],
     [n |-> 2, cols |-> <<Col(1, "float", <<<<1, 1>>, <<2, 2>>>>), Col(2, "int", <<<<3, 3>>>>)>>],
     [n |-> 1, cols |-> <<Col(2, "text", <<<<8, 9>>>>), Col(2, "text", <<<<9>>>>)>>],
     [n |-> 0, cols |-> <<Col(1, "int", <<>>)>>]}
=============================================================================
