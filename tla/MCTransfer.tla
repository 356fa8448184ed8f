----------------------------- MODULE MCTransfer -----------------------------
(* A structured array, a scalar one of the same shape, and a scalar one that has
   a dimension where the first has the bytes of its records. *)
EXTENDS Transfer

MCArrays    == {"headers", "trace", "plane"}
MCShape     == [headers |-> <<2>>, trace |-> <<2>>, plane |-> <<2, 2>>]
MCStructure == [headers |-> <<"a", "b">>, trace |-> <<"v">>, plane |-> <<"v">>]
MCScalar    == {"trace", "plane"}
MCParted    == {"headers", "trace"}
MCWindows   == {<<0, 1>>, <<1, 2>>}

\* The sum of an index and the field's place: neighbours differ.
MCInitialValue(a, x, f) ==
    (FoldSeq(LAMBDA i, n : i + n, 0, x)
       + (CHOOSE k \in DOMAIN Structure[a] : Structure[a][k] = f)) % Values
=============================================================================
