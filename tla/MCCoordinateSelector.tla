------------------------ MODULE MCCoordinateSelector ------------------------
(* A mask and a key over two rows of three, and traces of two samples. *)
EXTENDS CoordinateSelector

MCShape   == <<2, 3, 2>>
MCMasks   == [1..6 -> {0, 1}]
MCKeys    == {<<1, 1, 0, 0, 1, 0>>}
MCVariables == {{1, 2}, {1, 2, 3}, {3}}

MCContents == {[mask |-> m, key |-> k] : m \in MCMasks, k \in MCKeys}
MCLimit == [ops |-> 3, reads |-> 1, writes |-> 1]

MCRewrites == {[mask |-> <<1, 1, 0, 0, 0, 0>>, key |-> <<1, 1, 0, 0, 1, 0>>]}
=============================================================================
