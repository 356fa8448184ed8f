----------------------------- MODULE Publication -----------------------------
(***************************************************************************)
(* What callers are promised of the attributes of a dataset's variables    *)
(* when several of them, on several threads, update and commit, and when   *)
(* the store fails and the process dies: each variable is published at one *)
(* moment or not at all, as it was when the commit was called, and no      *)
(* later than the commit's success. A commit takes every variable that     *)
(* changed once since its Variable was made, none that did not, and may    *)
(* take one that changed more often.                                       *)
(***************************************************************************)
EXTENDS Naturals

CONSTANTS
    Handles,   \* the datasets a program can hold
    Closed,    \* what a handle that holds none shares
    Vars,      \* the variables
    Commits,   \* the commits
    Contents   \* what the attributes of a variable may be

VARIABLES
    shares,    \* handle -> the handle whose attributes it shares, or Closed
    held,      \* handle -> variable -> its attributes in memory
    due,       \* handle -> variable -> will a commit take it: "no", "yes" or "maybe"
    call,      \* commit -> its state, what it takes, and of that what is left and missed
    stored     \* variable -> its attributes on the store

vars == <<shares, held, due, call, stored>>

None == [v \in Vars |-> "no"]

NotCalled == [state |-> "idle", takes |-> [v \in {} |-> 0], left |-> {}, missed |-> {}]

Init ==
    /\ shares = [h \in Handles |-> Closed]
    /\ held \in [Handles -> [Vars -> Contents]]
    /\ due = [h \in Handles |-> None]
    /\ call = [k \in Commits |-> NotCalled]
    /\ stored \in [Vars -> Contents]

-----------------------------------------------------------------------------
(* Memory *)

Open(h) ==
    /\ shares[h] = Closed /\ \A g \in Handles : shares[g] # h
    /\ shares' = [shares EXCEPT ![h] = h]
    /\ held' = [held EXCEPT ![h] = stored]
    /\ UNCHANGED <<due, call, stored>>

\* A slice shares the attributes; of those it rebuilds it has seen no change.
Slice(g, h, rebuilt) ==
    /\ shares[g] = Closed /\ shares[h] # Closed
    /\ shares' = [shares EXCEPT ![g] = shares[h]]
    /\ due' = [due EXCEPT ![g] = [v \in Vars |-> IF v \in rebuilt THEN "no" ELSE due[h][v]]]
    /\ UNCHANGED <<held, call, stored>>

OnceMore(d) == IF d = "no" THEN "yes" ELSE "maybe"

\* An update is seen through every handle that shares the attributes.
Update(h, v) ==
    /\ shares[h] # Closed
    /\ \E c \in Contents : held' = [held EXCEPT ![shares[h]][v] = c]
    /\ due' = [g \in Handles |->
                 IF shares[g] = shares[h] THEN [due[g] EXCEPT ![v] = OnceMore(@)] ELSE due[g]]
    /\ UNCHANGED <<shares, call, stored>>

\* A variable is to be published though its attributes have not changed.
Force(h, v) ==
    /\ shares[h] # Closed
    /\ due' = [due EXCEPT ![h][v] = "yes"]
    /\ UNCHANGED <<shares, held, call, stored>>

Forget(h) == shares' = [shares EXCEPT ![h] = Closed] /\ due' = [due EXCEPT ![h] = None]

Close(h) == Forget(h) /\ UNCHANGED <<held, call, stored>>

-----------------------------------------------------------------------------
(* Commits *)

\* What is taken stays due: a published variable is published again. The
\* handle may be gone when the commit has begun.
Begin(k, h) ==
    /\ call[k].state = "idle" /\ shares[h] # Closed
    /\ \E S \in SUBSET {v \in Vars : due[h][v] # "no"} :
          /\ {v \in Vars : due[h][v] = "yes"} \subseteq S
          /\ call' = [call EXCEPT ![k] =
                        [state |-> IF S = {} THEN "unmodified" ELSE "running",
                         takes |-> [v \in S |-> held[shares[h]][v]],
                         left  |-> S, missed |-> {}]]
    /\ Forget(h) \/ UNCHANGED <<shares, due>>
    /\ UNCHANGED <<held, stored>>

\* A publication of v ends, with or without effect; one that was reported to
\* fail may have had its effect all the same.
Publish(k, v) ==
    /\ v \in call[k].left
    /\ \/ /\ stored' = [stored EXCEPT ![v] = call[k].takes[v]]
          /\ call' = [call EXCEPT ![k].left = @ \ {v}]
       \/ /\ stored' \in {stored, [stored EXCEPT ![v] = call[k].takes[v]]}
          /\ call' = [call EXCEPT ![k].left = @ \ {v}, ![k].missed = @ \cup {v}]
    /\ UNCHANGED <<shares, held, due>>

\* Publications that are left go on after an error.
End(k) ==
    /\ call[k].state = "running"
    /\ \/ /\ call[k].left = {} /\ call[k].missed = {}
          /\ call' = [call EXCEPT ![k].state = "ok"]
       \/ /\ call[k].missed # {}
          /\ call' = [call EXCEPT ![k].state = "error"]
    /\ UNCHANGED <<shares, held, due, stored>>

\* The process dies. Nothing is left of its memory nor of what it had not written.
Die ==
    /\ shares' = [h \in Handles |-> Closed] /\ due' = [h \in Handles |-> None]
    /\ held' \in [Handles -> [Vars -> Contents]]
    /\ call' = [k \in Commits |->
                  [call[k] EXCEPT !.state = IF @ = "running" THEN "dead" ELSE @, !.left = {}]]
    /\ UNCHANGED stored

-----------------------------------------------------------------------------

Next ==
    \/ \E h \in Handles : Open(h) \/ Close(h)
    \/ \E g, h \in Handles, rebuilt \in SUBSET Vars : Slice(g, h, rebuilt)
    \/ \E h \in Handles, v \in Vars : Update(h, v) \/ Force(h, v)
    \/ \E k \in Commits, h \in Handles : Begin(k, h)
    \/ \E k \in Commits, v \in Vars : Publish(k, v)
    \/ \E k \in Commits : End(k)
    \/ Die

Spec == Init /\ [][Next]_vars
=============================================================================
