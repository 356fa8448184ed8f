--------------------------- MODULE AttributeStore ---------------------------
(***************************************************************************)
(* What a caller is promised of the attributes of a dataset's variables:   *)
(* an update changes what is in hand, a commit makes the updates of all    *)
(* variables durable, an opening brings back what is durable, and nothing  *)
(* else changes either. Written(a) is what the store keeps of a.           *)
(***************************************************************************)
EXTENDS Naturals

CONSTANT Written(_)

VARIABLES
    hand,     \* the attributes of each variable in memory; none before there is a dataset
    durable,  \* what an opening would find
    pending   \* the variables updated since the last commit or opening

vars == <<hand, durable, pending>>

\* The attributes come with the dataset, from its creation or its opening.
Init == hand = durable /\ pending = {}

Create == hand = <<>> /\ hand' = durable' /\ pending' = {}

Update(i) ==
    /\ DOMAIN hand' = DOMAIN hand
    /\ \A j \in DOMAIN hand \ {i} : hand'[j] = hand[j]
    /\ pending' = pending \cup {i}
    /\ durable' = durable

Commit ==
    /\ durable' = [i \in DOMAIN hand |-> IF i \in pending THEN Written(hand[i]) ELSE durable[i]]
    /\ pending' = {}
    /\ hand' = hand

Reopen == hand' = durable /\ pending' = {} /\ durable' = durable

Next == Create \/ (\E i \in DOMAIN hand : Update(i)) \/ Commit \/ Reopen

Spec == Init /\ [][Next]_vars
=============================================================================
