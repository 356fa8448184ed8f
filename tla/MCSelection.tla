---------------------------- MODULE MCSelection ----------------------------
(* A line of three and a line of two, and the variables over them. *)
EXTENDS Selection

MCVariables == {{1}, {2}, {1, 2}}

MCSize   == <<3, 2>>
MCRanges == {<<0, 2>>, <<1, 9>>, <<2, 1>>}

\* Increasing, decreasing with and without ties, and unordered coordinates.
MCCoordinates ==
    {<<c, <<1, 2>>>> : c \in {<<1, 2, 3>>, <<2, 2, 3>>, <<3, 1, 1>>, <<1, 1, 1>>,
                             <<2, 1, 3>>, <<3, 1, 3>>, <<1, NaN, 2>>}}
=============================================================================
