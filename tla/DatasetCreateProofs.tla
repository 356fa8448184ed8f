------------------------ MODULE DatasetCreateProofs ------------------------
(***************************************************************************)
(* For every set of variables, of specifications and of bounds: the types  *)
(* (TypeCorrect), that a successful opening through the variable index or  *)
(* .zmetadata is whole (OpenedCorrect), and that a kCreate call never      *)
(* touches an array of another creation (KCreateCorrect). Then what a      *)
(* creation that reports success has promised: its arrays and its files    *)
(* are on the store (CreateOkCorrect), and an opening that no later        *)
(* creation disturbs returns its dataset (CreatedOpenedCorrect).           *)
(***************************************************************************)
EXTENDS DatasetCreate, TLAPS

\* A number on the store is that of a call that has begun; the root zarr.json
\* is one file, and so is the zarr.json of a header-only variable.
DiskInv ==
    /\ \A f \in {"V2", "V3"} :
          /\ disk[f].marker <= begun /\ disk[f].index <= begun
          /\ \A v \in Names : disk[f].arr[v] <= begun /\ disk[f].att[v] <= begun
    /\ disk["V3"].marker = disk["V3"].index
    /\ \A h \in HeaderVars : disk["V3"].arr[h] = disk["V3"].att[h]

\* Only the last call runs, and only a running call creates arrays; what it
\* has created is its own.
CallInv ==
    \A c \in Calls :
        /\ c # begun => ~Running(c)
        /\ c > begun => call[c].todo = {}
        /\ ~Running(c) => VariablesDone(c)
        /\ \A v \in ArrayVars :
              /\ call[c].seen[v] <= begun
              /\ call[c].var[v] \in {"created", "read"} => disk[call[c].format].arr[v] = c
              /\ call[c].var[v] = "read" => call[c].format = "V3"

\* What the opening under way has is a part of what the root it read names,
\* and the rest of it is still to be read unless something was bad.
Got(v) ==
    /\ <<v, "arr">> \notin reader.reads => reader.arr[v] # 0
    /\ <<v, "att">> \notin reader.reads =>
           reader.att[v] # 0 \/ (reader.format = "V2" /\ v \in reader.missing)

Whole(v) == reader.arr[v] # 0 /\ reader.att[v] # 0

ReaderInv ==
    /\ reader.state \in {"detect3", "detect2", "root"} => reader.found = {}
    /\ reader.state = "root" /\ reader.format = "V3" => disk["V3"].index # 0
    /\ reader.state \in {"children", "variables", "ok"} => reader.root # 0 /\ reader.root <= begun
    /\ reader.state = "children" =>
          /\ reader.children \cap reader.found = {}
          /\ reader.indexed /\ ~reader.bad =>
                reader.found \cup reader.children = call[reader.root].names
          /\ \A v \in reader.found \cap HeaderVars : Whole(v)
    /\ reader.state = "variables" =>
          /\ reader.indexed /\ ~reader.bad => reader.found = call[reader.root].names
          /\ \A v \in reader.found \cap HeaderVars : Whole(v)
          /\ ~reader.bad => \A v \in reader.found \cap ArrayVars : Got(v)
    /\ OpenedIsWhole

IInv == TypeOK /\ DiskInv /\ CallInv /\ ReaderInv

-----------------------------------------------------------------------------
(* Updates of a call and of the store, field by field *)

Node == [marker : Gens, index : Gens, arr : [Names -> Gens], att : [Names -> Gens]]

\* l is k but for how far call c is.
SameCall(k, l, c) ==
    /\ l \in [Calls -> CallType]
    /\ \A e \in Calls : e # c => l[e] = k[e]
    /\ l[c].names = k[c].names /\ l[c].format = k[c].format
    /\ l[c].clean = k[c].clean /\ l[c].indexed = k[c].indexed

\* And call c is the same but for how far its array v is.
SameOthers(k, l, c, v) ==
    /\ SameCall(k, l, c)
    /\ l[c].state = k[c].state /\ l[c].todo = k[c].todo
    /\ \A w \in ArrayVars : w # v => l[c].var[w] = k[c].var[w] /\ l[c].seen[w] = k[c].seen[w]

SetVar(k, c, v, s)      == [k EXCEPT ![c].var[v] = s]
SetSeen(k, c, v, s, g)  == [k EXCEPT ![c].var[v] = s, ![c].seen[v] = g]
SetBlind(k, c, v, s, g) == [k EXCEPT ![c].var[v] = s, ![c].seen[v] = g, ![c].blind = @ \cup {v}]
SetAtt(d, f, v, y)      == [d EXCEPT ![f].att[v] = y]
SetCreated(d, f, v, x)  ==
    [d EXCEPT ![f].arr[v] = x, ![f].att[v] = IF f = "V3" THEN 0 ELSE @]
SetNode(d, f, v, x, y)  == [d EXCEPT ![f].arr[v] = x, ![f].att[v] = y]

LEMMA CallReplaced ==
    ASSUME NEW k \in [Calls -> CallType], NEW c \in Calls, NEW r \in CallType,
           r.names = k[c].names, r.format = k[c].format,
           r.clean = k[c].clean, r.indexed = k[c].indexed,
           NEW l, l = [k EXCEPT ![c] = r]
    PROVE  SameCall(k, l, c) /\ l[c] = r
BY DEF SameCall

LEMMA Progress ==
    ASSUME NEW r \in CallType, NEW x \in [ArrayVars -> VarStates], NEW y \in [ArrayVars -> Gens],
           NEW z \in SUBSET ArrayVars
    PROVE  /\ [r EXCEPT !.var = x] \in CallType
           /\ [r EXCEPT !.var = x, !.seen = y] \in CallType
           /\ [r EXCEPT !.var = x, !.seen = y, !.blind = z] \in CallType
<1>1. [r EXCEPT !.var = x] \in CallType
  BY DEF CallType
<1>2. [r EXCEPT !.var = x, !.seen = y] \in CallType
  BY DEF CallType
<1>3. [r EXCEPT !.var = x, !.seen = y, !.blind = z] \in CallType
  BY DEF CallType
<1> QED
  BY <1>1, <1>2, <1>3

LEMMA VarUpdate ==
    ASSUME NEW k \in [Calls -> CallType], NEW c \in Calls, NEW v \in ArrayVars, NEW s \in VarStates,
           NEW l, l = SetVar(k, c, v, s)
    PROVE  SameOthers(k, l, c, v) /\ l[c].var[v] = s /\ l[c].seen[v] = k[c].seen[v]
<1>1. k[c] \in CallType /\ [k[c].var EXCEPT ![v] = s] \in [ArrayVars -> VarStates]
  BY DEF CallType
<1>2. [k[c] EXCEPT !.var[v] = s] \in CallType
  BY <1>1 DEF CallType
<1>3. l \in [Calls -> CallType]
  BY <1>2 DEF SetVar
<1>4. \A e \in Calls : e # c => l[e] = k[e]
  BY DEF SetVar
<1>5. l[c] = [k[c] EXCEPT !.var[v] = s]
  BY DEF SetVar
<1>6. /\ l[c].names = k[c].names /\ l[c].format = k[c].format
      /\ l[c].clean = k[c].clean /\ l[c].indexed = k[c].indexed
      /\ l[c].state = k[c].state /\ l[c].todo = k[c].todo /\ l[c].seen = k[c].seen
      /\ l[c].var = [k[c].var EXCEPT ![v] = s]
  BY <1>1, <1>5 DEF CallType
<1>7. SameCall(k, l, c)
  BY <1>3, <1>4, <1>6 DEF SameCall
<1>8. l[c].var[v] = s /\ \A w \in ArrayVars : w # v => l[c].var[w] = k[c].var[w]
  BY <1>1, <1>6 DEF CallType
<1> QED
  BY <1>6, <1>7, <1>8 DEF SameOthers

LEMMA SeenUpdate ==
    ASSUME NEW k \in [Calls -> CallType], NEW c \in Calls, NEW v \in ArrayVars, NEW s \in VarStates, NEW g \in Gens,
           NEW l, l = SetSeen(k, c, v, s, g)
    PROVE  SameOthers(k, l, c, v) /\ l[c].var[v] = s /\ l[c].seen[v] = g
<1> DEFINE x == [k[c].var EXCEPT ![v] = s]
<1> DEFINE y == [k[c].seen EXCEPT ![v] = g]
<1>1. k[c] \in CallType /\ x \in [ArrayVars -> VarStates] /\ y \in [ArrayVars -> Gens]
  BY DEF CallType
<1>2. l = [k EXCEPT ![c] = [k[c] EXCEPT !.var = x, !.seen = y]]
  BY <1>1 DEF CallType, SetSeen
<1> HIDE DEF x, y
<1> DEFINE r == [k[c] EXCEPT !.var = x, !.seen = y]
<1>3. r \in CallType
  BY <1>1, Progress
<1>4. /\ r.names = k[c].names /\ r.format = k[c].format
      /\ r.clean = k[c].clean /\ r.indexed = k[c].indexed
      /\ r.state = k[c].state /\ r.todo = k[c].todo /\ r.seen = y /\ r.var = x
  BY <1>1 DEF CallType
<1>5. l = [k EXCEPT ![c] = r]
  BY <1>2, Zenon
<1> HIDE DEF r
<1>6. SameCall(k, l, c) /\ l[c] = r
  BY <1>3, <1>4, <1>5, CallReplaced
<1>7. \A w \in ArrayVars : /\ x[w] = IF w = v THEN s ELSE k[c].var[w]
                           /\ y[w] = IF w = v THEN g ELSE k[c].seen[w]
  BY <1>1 DEF x, y, CallType
<1> QED
  BY <1>4, <1>6, <1>7 DEF SameOthers

LEMMA BlindUpdate ==
    ASSUME NEW k \in [Calls -> CallType], NEW c \in Calls, NEW v \in ArrayVars, NEW s \in VarStates, NEW g \in Gens,
           NEW l, l = SetBlind(k, c, v, s, g)
    PROVE  SameOthers(k, l, c, v) /\ l[c].var[v] = s /\ l[c].seen[v] = g
<1> DEFINE x == [k[c].var EXCEPT ![v] = s]
<1> DEFINE y == [k[c].seen EXCEPT ![v] = g]
<1> DEFINE z == k[c].blind \cup {v}
<1>1. /\ k[c] \in CallType /\ x \in [ArrayVars -> VarStates] /\ y \in [ArrayVars -> Gens]
      /\ z \in SUBSET ArrayVars
  BY DEF CallType
<1>2. l = [k EXCEPT ![c] = [k[c] EXCEPT !.var = x, !.seen = y, !.blind = z]]
  BY <1>1 DEF CallType, SetBlind
<1> HIDE DEF x, y, z
<1> DEFINE r == [k[c] EXCEPT !.var = x, !.seen = y, !.blind = z]
<1>3. r \in CallType
  BY <1>1, Progress
<1>4. /\ r.names = k[c].names /\ r.format = k[c].format
      /\ r.clean = k[c].clean /\ r.indexed = k[c].indexed
      /\ r.state = k[c].state /\ r.todo = k[c].todo /\ r.seen = y /\ r.var = x
  BY <1>1 DEF CallType
<1>5. l = [k EXCEPT ![c] = r]
  BY <1>2, Zenon
<1> HIDE DEF r
<1>6. SameCall(k, l, c) /\ l[c] = r
  BY <1>3, <1>4, <1>5, CallReplaced
<1>7. \A w \in ArrayVars : /\ x[w] = IF w = v THEN s ELSE k[c].var[w]
                           /\ y[w] = IF w = v THEN g ELSE k[c].seen[w]
  BY <1>1 DEF x, y, CallType
<1> QED
  BY <1>4, <1>6, <1>7 DEF SameOthers

\* e is d but for what it has of v in format f, which is x and y.
SameNodes(d, e, f, v) ==
    /\ e \in DiskType
    /\ \A g \in {"V2", "V3"} :
          /\ e[g].marker = d[g].marker /\ e[g].index = d[g].index
          /\ \A w \in Names : g # f \/ w # v =>
                e[g].arr[w] = d[g].arr[w] /\ e[g].att[w] = d[g].att[w]

LEMMA NodeUpdate ==
    ASSUME NEW d \in DiskType, NEW f \in {"V2", "V3"}, NEW v \in Names, NEW x \in Gens, NEW y \in Gens,
           NEW e, e = SetNode(d, f, v, x, y)
    PROVE  SameNodes(d, e, f, v) /\ e[f].arr[v] = x /\ e[f].att[v] = y
<1>1. /\ [d[f].arr EXCEPT ![v] = x] \in [Names -> Gens]
      /\ [d[f].att EXCEPT ![v] = y] \in [Names -> Gens]
  BY DEF DiskType
<1>2. [d[f] EXCEPT !.arr[v] = x, !.att[v] = y] \in Node
  BY <1>1 DEF DiskType, Node
<1>3. e \in DiskType
  BY <1>2 DEF DiskType, Node, SetNode
<1> QED
  BY <1>3 DEF DiskType, SameNodes, SetNode

LEMMA AttUpdate ==
    ASSUME NEW d \in DiskType, NEW f \in {"V2", "V3"}, NEW v \in Names, NEW y \in Gens,
           NEW e, e = SetAtt(d, f, v, y)
    PROVE  SameNodes(d, e, f, v) /\ e[f].arr[v] = d[f].arr[v] /\ e[f].att[v] = y
<1>1. [d[f].att EXCEPT ![v] = y] \in [Names -> Gens]
  BY DEF DiskType
<1>2. [d[f] EXCEPT !.att[v] = y] \in Node
  BY <1>1 DEF DiskType, Node
<1>3. e \in DiskType
  BY <1>2 DEF DiskType, Node, SetAtt
<1> QED
  BY <1>3 DEF DiskType, SameNodes, SetAtt

LEMMA CreatedUpdate ==
    ASSUME NEW d \in DiskType, NEW f \in {"V2", "V3"}, NEW v \in Names, NEW x \in Gens,
           NEW e, e = SetCreated(d, f, v, x)
    PROVE  SameNodes(d, e, f, v) /\ e[f].arr[v] = x /\ e[f].att[v] \in {0, d[f].att[v]}
<1> DEFINE y == IF f = "V3" THEN 0 ELSE d[f].att[v]
<1>1. /\ [d[f].arr EXCEPT ![v] = x] \in [Names -> Gens] /\ y \in Gens
      /\ [d[f].att EXCEPT ![v] = y] \in [Names -> Gens]
  BY BoundsAssumption DEF DiskType, Gens
<1>2. e = [d EXCEPT ![f].arr[v] = x, ![f].att[v] = y]
  BY <1>1 DEF DiskType, SetCreated
<1>3. y \in {0, d[f].att[v]}
  OBVIOUS
<1> HIDE DEF y
<1>4. e = SetNode(d, f, v, x, y)
  BY <1>2 DEF SetNode
<1> QED
  BY <1>1, <1>3, <1>4, NodeUpdate

-----------------------------------------------------------------------------
(* The steps of a creation *)

\* An opening that saw something of the store is not affected by what a
\* creation does next.
LEMMA ReaderKept ==
    ASSUME TypeOK, DiskInv, ReaderInv, NEW c \in Calls, SameCall(call, call', c),
           reader' = reader, begun' = begun,
           disk["V3"].index # 0 => disk'["V3"].index # 0
    PROVE  ReaderInv'
<1>1. \A e \in Calls : call'[e].names = call[e].names
  BY DEF SameCall
<1>2. reader.root # 0 => reader.root \in Calls
  BY BoundsAssumption DEF TypeOK, ReaderType, Gens, Calls
<1>3. reader.root # 0 => call'[reader.root].names = call[reader.root].names
  BY <1>1, <1>2
<1>4. reader.state = "ok" => reader.root # 0
  BY DEF ReaderInv
<1>5. OpenedIsWhole'
  BY <1>3, <1>4 DEF OpenedIsWhole, ReaderInv
<1> QED
  BY <1>3, <1>5 DEF ReaderInv, Got, Whole

\* A variable of a call that gets further, while the store changes in what
\* that variable has there, or not at all.
LEMMA VariableStep ==
    ASSUME IInv, NEW c \in Calls, NEW v \in ArrayVars, NEW s \in VarStates,
           ~(call[c].var[v] \in {"ok", "error"}),
           SameOthers(call, call', c, v), call'[c].var[v] = s, call'[c].seen[v] <= begun,
           disk' \in DiskType,
           \A f \in {"V2", "V3"} :
              /\ disk'[f].marker = disk[f].marker /\ disk'[f].index = disk[f].index
              /\ disk'[f].arr[v] <= begun /\ disk'[f].att[v] <= begun
              /\ \A w \in Names : w # v =>
                    disk'[f].arr[w] = disk[f].arr[w] /\ disk'[f].att[w] = disk[f].att[w],
           s \in {"created", "read"} => disk'[call[c].format].arr[v] = c,
           s = "read" => call[c].format = "V3",
           UNCHANGED <<begun, reader, opens>>, mishaps' \in 0..MaxMishaps
    PROVE  IInv'
<1>1. TypeOK'
  BY DEF IInv, TypeOK, SameOthers, SameCall
<1>2. v \in Names /\ v \notin HeaderVars
  BY NamesAssumption DEF Names
<1>3. DiskInv'
  <2>1. ASSUME NEW f \in {"V2", "V3"}
        PROVE  /\ disk'[f].marker <= begun /\ disk'[f].index <= begun
               /\ \A w \in Names : disk'[f].arr[w] <= begun /\ disk'[f].att[w] <= begun
    BY <1>2 DEF IInv, DiskInv
  <2>2. \A h \in HeaderVars : disk'["V3"].arr[h] = disk'["V3"].att[h]
    BY <1>2 DEF IInv, DiskInv, Names
  <2> QED
    BY <2>1, <2>2 DEF IInv, DiskInv
<1>4. c = begun /\ Running(c)
  BY DEF IInv, CallInv, VariablesDone
<1>5. CallInv'
  <2> SUFFICES ASSUME NEW e \in Calls
               PROVE  /\ e # begun => ~Running(e)'
                      /\ e > begun => call'[e].todo = {}
                      /\ ~Running(e)' => VariablesDone(e)'
                      /\ \A w \in ArrayVars :
                            /\ call'[e].seen[w] <= begun
                            /\ call'[e].var[w] \in {"created", "read"} =>
                                  disk'[call'[e].format].arr[w] = e
                            /\ call'[e].var[w] = "read" => call'[e].format = "V3"
    BY DEF CallInv
  <2>1. CASE e = c
    <3>1. Running(e)' /\ call'[e].format = call[e].format
      BY <1>4, <2>1 DEF Running, SameOthers, SameCall
    <3>2. call[c].format \in {"V2", "V3"} /\ call[c].var \in [ArrayVars -> VarStates]
      BY DEF IInv, TypeOK, CallType
    <3>3. ASSUME NEW w \in ArrayVars
          PROVE  /\ call'[e].seen[w] <= begun
                 /\ call'[e].var[w] \in {"created", "read"} => disk'[call'[e].format].arr[w] = e
                 /\ call'[e].var[w] = "read" => call'[e].format = "V3"
      <4>1. CASE w = v
        <5>1. call'[c].var[v] = s
          OBVIOUS
        <5>2. call'[c].format = call[c].format
          BY <2>1, <3>1
        <5>3. /\ call'[c].seen[v] <= begun
              /\ call'[c].var[v] \in {"created", "read"} => disk'[call'[c].format].arr[v] = c
              /\ call'[c].var[v] = "read" => call'[c].format = "V3"
          BY <5>1, <5>2
        <5> QED
          BY <2>1, <4>1, <5>3, Zenon
      <4>2. CASE w # v
        <5>1. w \in Names
          BY DEF Names
        <5>2. disk'[call[c].format].arr[w] = disk[call[c].format].arr[w]
          BY <3>2, <4>2, <5>1
        <5>3. call'[e].var[w] = call[c].var[w] /\ call'[e].seen[w] = call[c].seen[w]
          BY <2>1, <4>2 DEF SameOthers
        <5> QED
          BY <2>1, <3>1, <5>2, <5>3 DEF IInv, CallInv
      <4> QED
        BY <4>1, <4>2
    <3>4. e = begun /\ ~(e > begun)
      BY <1>4, <2>1, BoundsAssumption DEF Calls
    <3> QED
      BY <3>1, <3>3, <3>4
  <2>2. CASE e # c
    <3>1. call'[e] = call[e]
      BY <2>2 DEF SameOthers, SameCall
    <3>2. ~Running(e) /\ ~Running(e)' /\ VariablesDone(e)
      BY <1>4, <2>2, <3>1 DEF IInv, CallInv, Running
    <3>3. VariablesDone(e)'
      BY <3>1, <3>2 DEF VariablesDone
    <3>4. \A w \in ArrayVars : call[e].var[w] \in {"ok", "error"}
      BY <3>2 DEF VariablesDone
    <3> QED
      BY <3>1, <3>2, <3>3, <3>4 DEF IInv, CallInv
  <2> QED
    BY <2>1, <2>2
<1>6. ReaderInv'
  <2>1. SameCall(call, call', c) /\ disk'["V3"].index = disk["V3"].index
    BY DEF SameOthers
  <2> QED
    BY <2>1, ReaderKept DEF IInv
<1> QED
  BY <1>1, <1>3, <1>5, <1>6 DEF IInv

\* An array that is not done is one of the last call, which is running.
LEMMA ArrayOfLastCall ==
    ASSUME IInv, NEW c \in Calls, NEW v \in ArrayVars, ~(call[c].var[v] \in {"ok", "error"})
    PROVE  c = begun /\ Running(c) /\ c \in Gens
BY BoundsAssumption DEF IInv, CallInv, VariablesDone, Calls, Gens

LEMMA DeleteArrayKeeps ==
    ASSUME IInv, NEW c \in Calls, NEW v \in ArrayVars, DeleteArray(c, v)
    PROVE  IInv'
<1>1. /\ disk \in DiskType /\ call \in [Calls -> CallType] /\ begun \in Gens
      /\ v \in Names /\ 0 \in Gens /\ mishaps \in 0..MaxMishaps
  BY BoundsAssumption DEF IInv, TypeOK, Names, Gens
<1>2. /\ disk' \in DiskType
      /\ \A f \in {"V2", "V3"} :
            /\ disk'[f].marker = disk[f].marker /\ disk'[f].index = disk[f].index
            /\ disk'[f].arr[v] = 0 /\ disk'[f].att[v] = 0
            /\ \A w \in Names : w # v =>
                  disk'[f].arr[w] = disk[f].arr[w] /\ disk'[f].att[w] = disk[f].att[w]
  <2>1. ASSUME NEW f \in {"V2", "V3"}
        PROVE  [disk[f] EXCEPT !.arr[v] = 0, !.att[v] = 0] \in Node
    <3>1. /\ [disk[f].arr EXCEPT ![v] = 0] \in [Names -> Gens]
          /\ [disk[f].att EXCEPT ![v] = 0] \in [Names -> Gens]
      BY <1>1 DEF DiskType
    <3> QED
      BY <1>1, <3>1 DEF DiskType, Node
  <2>2. disk' \in DiskType
    BY <2>1 DEF DeleteArray, DiskType, Node
  <2> QED
    BY <1>1, <2>2 DEF DeleteArray, DiskType
<1>3. call' = SetVar(call, c, v, "cleared") /\ "cleared" \in VarStates
  BY DEF DeleteArray, SetVar, VarStates
<1>4. /\ SameOthers(call, call', c, v)
      /\ call'[c].var[v] = "cleared" /\ call'[c].seen[v] = call[c].seen[v]
  BY <1>1, <1>3, VarUpdate
<1>5. call[c].seen[v] <= begun /\ 0 <= begun
  BY <1>1, BoundsAssumption DEF IInv, CallInv, Gens
<1>6. UNCHANGED <<begun, reader, opens>> /\ mishaps' = mishaps /\ call[c].var[v] = "open"
  BY DEF DeleteArray
<1> QED
  BY <1>1, <1>2, <1>3, <1>4, <1>5, <1>6, VariableStep

\* A write of what the store has of an array in one format.
LEMMA WriteKeeps ==
    ASSUME IInv, NEW f \in {"V2", "V3"}, NEW v \in ArrayVars,
           SameNodes(disk, disk', f, v), disk'[f].arr[v] <= begun, disk'[f].att[v] <= begun
    PROVE  /\ disk' \in DiskType
           /\ \A g \in {"V2", "V3"} :
                 /\ disk'[g].marker = disk[g].marker /\ disk'[g].index = disk[g].index
                 /\ disk'[g].arr[v] <= begun /\ disk'[g].att[v] <= begun
                 /\ \A w \in Names : w # v =>
                       disk'[g].arr[w] = disk[g].arr[w] /\ disk'[g].att[w] = disk[g].att[w]
<1>1. disk \in DiskType /\ v \in Names
  BY DEF IInv, TypeOK, Names
<1>2. \A g \in {"V2", "V3"} : disk[g].arr[v] <= begun /\ disk[g].att[v] <= begun
  BY <1>1 DEF IInv, DiskInv
<1>3. ASSUME NEW g \in {"V2", "V3"} PROVE disk'[g].arr[v] <= begun /\ disk'[g].att[v] <= begun
  <2>1. CASE g = f
    BY <2>1
  <2>2. CASE g # f
    BY <1>1, <1>2, <2>2 DEF SameNodes
  <2> QED
    BY <2>1, <2>2
<1> QED
  BY <1>3 DEF SameNodes

LEMMA CreateArrayKeeps ==
    ASSUME IInv, NEW c \in Calls, NEW v \in ArrayVars, CreateArray(c, v)
    PROVE  IInv'
<1> DEFINE f == call[c].format
<1>1. /\ disk \in DiskType /\ call \in [Calls -> CallType] /\ begun \in Gens /\ f \in {"V2", "V3"}
      /\ v \in Names /\ 0 \in Gens /\ mishaps \in 0..MaxMishaps
  BY BoundsAssumption DEF IInv, TypeOK, Names, Gens, CallType
<1>2. ~(call[c].var[v] \in {"ok", "error"})
  BY DEF CreateArray, MayCreate
<1>3. c = begun /\ c \in Gens
  BY <1>2, ArrayOfLastCall
<1>4. disk' = SetCreated(disk, f, v, c) /\ call' = SetVar(call, c, v, "created") /\ "created" \in VarStates
  BY DEF CreateArray, SetCreated, SetVar, VarStates
<1>5. /\ SameOthers(call, call', c, v)
      /\ call'[c].var[v] = "created" /\ call'[c].seen[v] = call[c].seen[v]
  BY <1>1, <1>4, VarUpdate
<1> HIDE DEF f
<1>6. SameNodes(disk, disk', f, v) /\ disk'[f].arr[v] = c /\ disk'[f].att[v] \in {0, disk[f].att[v]}
  BY <1>1, <1>3, <1>4, CreatedUpdate
<1>7. call[c].seen[v] <= begun /\ c <= begun /\ disk'[f].att[v] <= begun
  BY <1>1, <1>3, <1>6, BoundsAssumption DEF IInv, CallInv, DiskInv, Gens
<1>8. /\ disk' \in DiskType
      /\ \A g \in {"V2", "V3"} :
            /\ disk'[g].marker = disk[g].marker /\ disk'[g].index = disk[g].index
            /\ disk'[g].arr[v] <= begun /\ disk'[g].att[v] <= begun
            /\ \A w \in Names : w # v =>
                  disk'[g].arr[w] = disk[g].arr[w] /\ disk'[g].att[w] = disk[g].att[w]
  BY <1>1, <1>6, <1>7, WriteKeeps
<1>9. UNCHANGED <<begun, reader, opens>> /\ mishaps' = mishaps
  BY DEF CreateArray
<1>10. disk'[call[c].format].arr[v] = c
  BY <1>6 DEF f
<1> QED
  BY <1>1, <1>2, <1>4, <1>5, <1>7, <1>8, <1>9, <1>10, VariableStep

\* A variable gets further and the store stays as it is.
LEMMA StoreKept ==
    ASSUME IInv, NEW c \in Calls, NEW v \in ArrayVars, UNCHANGED disk
    PROVE  /\ disk' \in DiskType
           /\ \A g \in {"V2", "V3"} :
                 /\ disk'[g].marker = disk[g].marker /\ disk'[g].index = disk[g].index
                 /\ disk'[g].arr[v] <= begun /\ disk'[g].att[v] <= begun
                 /\ \A w \in Names : w # v =>
                       disk'[g].arr[w] = disk[g].arr[w] /\ disk'[g].att[w] = disk[g].att[w]
BY DEF IInv, TypeOK, DiskInv, Names

LEMMA CreateRefusedKeeps ==
    ASSUME IInv, NEW c \in Calls, NEW v \in ArrayVars, CreateRefused(c, v)
    PROVE  IInv'
<1>1. call \in [Calls -> CallType] /\ mishaps \in 0..MaxMishaps
  BY DEF IInv, TypeOK
<1>2. ~(call[c].var[v] \in {"ok", "error"})
  BY DEF CreateRefused
<1>3. call' = SetVar(call, c, v, "error") /\ "error" \in VarStates
  BY DEF CreateRefused, SetVar, VarStates
<1>4. /\ SameOthers(call, call', c, v)
      /\ call'[c].var[v] = "error" /\ call'[c].seen[v] = call[c].seen[v]
  BY <1>1, <1>3, VarUpdate
<1>5. call[c].seen[v] <= begun
  BY DEF IInv, CallInv
<1>6. UNCHANGED <<disk, begun, reader, opens>> /\ mishaps' = mishaps
  BY DEF CreateRefused
<1> QED
  BY <1>1, <1>2, <1>3, <1>4, <1>5, <1>6, StoreKept, VariableStep

LEMMA VariableFailsKeeps ==
    ASSUME IInv, NEW c \in Calls, NEW v \in ArrayVars, VariableFails(c, v)
    PROVE  IInv'
<1>1. call \in [Calls -> CallType] /\ mishaps' \in 0..MaxMishaps
  BY BoundsAssumption DEF IInv, TypeOK, VariableFails
<1>2. ~(call[c].var[v] \in {"ok", "error"})
  BY DEF VariableFails
<1>3. call' = SetVar(call, c, v, "error") /\ "error" \in VarStates
  BY DEF VariableFails, SetVar, VarStates
<1>4. /\ SameOthers(call, call', c, v)
      /\ call'[c].var[v] = "error" /\ call'[c].seen[v] = call[c].seen[v]
  BY <1>1, <1>3, VarUpdate
<1>5. call[c].seen[v] <= begun
  BY DEF IInv, CallInv
<1>6. UNCHANGED <<disk, begun, reader, opens>>
  BY DEF VariableFails
<1> QED
  BY <1>1, <1>2, <1>3, <1>4, <1>5, <1>6, StoreKept, VariableStep

LEMMA WriteZattrsKeeps ==
    ASSUME IInv, NEW c \in Calls, NEW v \in ArrayVars, WriteZattrs(c, v)
    PROVE  IInv'
<1>1. /\ disk \in DiskType /\ call \in [Calls -> CallType]
      /\ v \in Names /\ mishaps \in 0..MaxMishaps
  BY DEF IInv, TypeOK, Names
<1>2. ~(call[c].var[v] \in {"ok", "error"})
  BY DEF WriteZattrs
<1>3. c = begun /\ c \in Gens /\ c <= begun
  BY <1>2, ArrayOfLastCall DEF Calls
<1>4. disk' = SetAtt(disk, "V2", v, c) /\ call' = SetVar(call, c, v, "ok") /\ "ok" \in VarStates
  BY DEF WriteZattrs, SetAtt, SetVar, VarStates
<1>5. /\ SameOthers(call, call', c, v)
      /\ call'[c].var[v] = "ok" /\ call'[c].seen[v] = call[c].seen[v]
  BY <1>1, <1>4, VarUpdate
<1>6. SameNodes(disk, disk', "V2", v) /\ disk'["V2"].arr[v] = disk["V2"].arr[v] /\ disk'["V2"].att[v] = c
  BY <1>1, <1>3, <1>4, AttUpdate
<1>7. call[c].seen[v] <= begun /\ disk["V2"].arr[v] <= begun
  BY <1>1 DEF IInv, CallInv, DiskInv
<1>8. disk'["V2"].arr[v] <= begun /\ disk'["V2"].att[v] <= begun
  BY <1>3, <1>6, <1>7
<1>9. UNCHANGED <<begun, reader, opens>> /\ mishaps' = mishaps
  BY DEF WriteZattrs
<1> QED
  BY <1>1, <1>2, <1>4, <1>5, <1>6, <1>7, <1>8, <1>9, WriteKeeps, VariableStep

LEMMA ReadForAttributesKeeps ==
    ASSUME IInv, NEW c \in Calls, NEW v \in ArrayVars, ReadForAttributes(c, v)
    PROVE  IInv'
<1>1. /\ disk \in DiskType /\ call \in [Calls -> CallType]
      /\ v \in Names /\ mishaps' \in 0..MaxMishaps /\ "read" \in VarStates
  BY BoundsAssumption DEF IInv, TypeOK, Names, ReadForAttributes, VarStates
<1>2. /\ ~(call[c].var[v] \in {"ok", "error"})
      /\ call[c].format = "V3" /\ call[c].var[v] = "created"
  BY DEF ReadForAttributes
<1>3. /\ 0 \in Gens /\ 0 <= begun
      /\ disk["V3"].arr[v] \in Gens /\ disk["V3"].arr[v] <= begun
  BY <1>1, BoundsAssumption DEF IInv, TypeOK, DiskInv, DiskType, Gens
<1>4. SameOthers(call, call', c, v) /\ call'[c].var[v] = "read" /\ call'[c].seen[v] <= begun
  <2>1. CASE call' = SetSeen(call, c, v, "read", disk["V3"].arr[v])
    BY <1>1, <1>3, <2>1, SeenUpdate
  <2>2. CASE call' = SetBlind(call, c, v, "read", 0)
    BY <1>1, <1>3, <2>2, BlindUpdate
  <2> QED
    BY <2>1, <2>2 DEF ReadForAttributes, SetSeen, SetBlind
<1>5. UNCHANGED <<disk, begun, reader, opens>>
  BY DEF ReadForAttributes
<1>6. disk'[call[c].format].arr[v] = c
  BY <1>2, <1>5 DEF IInv, CallInv
<1> QED
  BY <1>1, <1>2, <1>4, <1>5, <1>6, StoreKept, VariableStep

LEMMA WriteWithAttributesKeeps ==
    ASSUME IInv, NEW c \in Calls, NEW v \in ArrayVars, WriteWithAttributes(c, v)
    PROVE  IInv'
<1> DEFINE x == call[c].seen[v]
<1>1. /\ disk \in DiskType /\ call \in [Calls -> CallType] /\ x \in Gens
      /\ v \in Names /\ mishaps \in 0..MaxMishaps
  BY DEF IInv, TypeOK, CallType, Names
<1>2. ~(call[c].var[v] \in {"ok", "error"})
  BY DEF WriteWithAttributes
<1>3. c = begun /\ c \in Gens /\ c <= begun
  BY <1>2, ArrayOfLastCall DEF Calls
<1>4. /\ disk' = SetNode(disk, "V3", v, x, c)
      /\ call' = SetVar(call, c, v, "ok") /\ "ok" \in VarStates
  BY DEF WriteWithAttributes, SetNode, SetVar, VarStates
<1>5. /\ SameOthers(call, call', c, v)
      /\ call'[c].var[v] = "ok" /\ call'[c].seen[v] = call[c].seen[v]
  BY <1>1, <1>4, VarUpdate
<1>6. x <= begun
  BY DEF IInv, CallInv
<1>7. call'[c].seen[v] <= begun
  BY <1>5, <1>6
<1> HIDE DEF x
<1>8. SameNodes(disk, disk', "V3", v) /\ disk'["V3"].arr[v] = x /\ disk'["V3"].att[v] = c
  BY <1>1, <1>3, <1>4, NodeUpdate
<1>9. disk'["V3"].arr[v] <= begun /\ disk'["V3"].att[v] <= begun
  BY <1>3, <1>6, <1>8
<1>10. UNCHANGED <<begun, reader, opens>> /\ mishaps' = mishaps
  BY DEF WriteWithAttributes
<1> QED
  BY <1>1, <1>2, <1>4, <1>5, <1>7, <1>8, <1>9, <1>10, WriteKeeps, VariableStep

-----------------------------------------------------------------------------
(* The dataset's own files, and the calls *)

\* A call that goes on or ends, while its arrays and the store stay as they are.
LEMMA CallStep ==
    ASSUME IInv, NEW c \in Calls, SameCall(call, call', c),
           UNCHANGED <<begun, reader, opens>>, mishaps' \in 0..MaxMishaps,
           disk' \in DiskType, DiskInv',
           disk["V3"].index # 0 => disk'["V3"].index # 0,
           \A f \in {"V2", "V3"}, v \in ArrayVars : disk'[f].arr[v] = disk[f].arr[v],
           call'[c].seen = call[c].seen, call'[c].todo \subseteq call[c].todo,
           Running(c)' => Running(c),
           ~Running(c)' => VariablesDone(c)',
           \A v \in ArrayVars : call'[c].var[v] \in {"created", "read"} => call'[c].var[v] = call[c].var[v]
    PROVE  IInv'
<1>1. TypeOK'
  BY DEF IInv, TypeOK, SameCall
<1>2. CallInv'
  <2> SUFFICES ASSUME NEW e \in Calls
               PROVE  /\ e # begun => ~Running(e)'
                      /\ e > begun => call'[e].todo = {}
                      /\ ~Running(e)' => VariablesDone(e)'
                      /\ \A w \in ArrayVars :
                            /\ call'[e].seen[w] <= begun
                            /\ call'[e].var[w] \in {"created", "read"} =>
                                  disk'[call'[e].format].arr[w] = e
                            /\ call'[e].var[w] = "read" => call'[e].format = "V3"
    BY DEF CallInv
  <2>1. CASE e = c
    <3>1. call[c].format \in {"V2", "V3"} /\ call'[c].format = call[c].format
      BY DEF IInv, TypeOK, CallType, SameCall
    <3>2. ASSUME NEW w \in ArrayVars
          PROVE  /\ call'[c].seen[w] <= begun
                 /\ call'[c].var[w] \in {"created", "read"} => disk'[call'[c].format].arr[w] = c
                 /\ call'[c].var[w] = "read" => call'[c].format = "V3"
      BY <3>1 DEF IInv, CallInv
    <3>3. c # begun => ~Running(c)'
      BY DEF IInv, CallInv
    <3>4. c > begun => call'[c].todo = {}
      BY DEF IInv, CallInv
    <3> QED
      BY <2>1, <3>2, <3>3, <3>4
  <2>2. CASE e # c
    <3>1. call'[e] = call[e] /\ call[e].format \in {"V2", "V3"}
      BY <2>2 DEF SameCall, IInv, TypeOK, CallType
    <3>2. (Running(e)' <=> Running(e)) /\ (VariablesDone(e)' <=> VariablesDone(e))
      BY <3>1 DEF Running, VariablesDone
    <3> QED
      BY <3>1, <3>2 DEF IInv, CallInv
  <2> QED
    BY <2>1, <2>2
<1>3. ReaderInv'
  BY ReaderKept DEF IInv
<1> QED
  BY <1>1, <1>2, <1>3 DEF IInv

\* A write of one of the dataset's own files by call c.
LEMMA DatasetFileWritten ==
    ASSUME IInv, NEW c \in Calls, NEW file \in call[c].todo, WriteDatasetFile(c, file)
    PROVE  /\ disk' \in DiskType /\ DiskInv'
           /\ disk["V3"].index # 0 => disk'["V3"].index # 0
           /\ \A f \in {"V2", "V3"}, v \in ArrayVars :
                 disk'[f].arr[v] = disk[f].arr[v] /\ disk'[f].att[v] = disk[f].att[v]
<1>1. /\ disk \in DiskType /\ c \in Gens /\ c # 0 /\ begun' = begun /\ begun \in Gens
      /\ file \in FileNames \cup HeaderVars
  BY BoundsAssumption DEF IInv, TypeOK, CallType, Calls, Gens, WriteDatasetFile
<1>2. c <= begun
  BY <1>1, BoundsAssumption DEF IInv, CallInv, Gens
<1>3. CASE file = "zmetadata"
  <2>1. disk' = [disk EXCEPT !["V2"].index = c]
    BY <1>3 DEF WriteDatasetFile
  <2>2. [disk["V2"] EXCEPT !.index = c] \in Node
    BY <1>1 DEF DiskType, Node
  <2>3. disk' \in DiskType
    BY <1>1, <2>1, <2>2 DEF DiskType, Node
  <2>4. /\ disk'["V3"] = disk["V3"] /\ disk'["V2"].index = c
        /\ disk'["V2"].marker = disk["V2"].marker
        /\ disk'["V2"].arr = disk["V2"].arr /\ disk'["V2"].att = disk["V2"].att
    BY <1>1, <2>1 DEF DiskType
  <2> QED
    BY <1>1, <1>2, <2>3, <2>4 DEF IInv, DiskInv
<1>4. CASE file = "zgroup"
  <2>1. disk' = [disk EXCEPT !["V2"].marker = c]
    BY <1>4 DEF WriteDatasetFile
  <2>2. [disk["V2"] EXCEPT !.marker = c] \in Node
    BY <1>1 DEF DiskType, Node
  <2>3. disk' \in DiskType
    BY <1>1, <2>1, <2>2 DEF DiskType, Node
  <2>4. /\ disk'["V3"] = disk["V3"] /\ disk'["V2"].marker = c
        /\ disk'["V2"].index = disk["V2"].index
        /\ disk'["V2"].arr = disk["V2"].arr /\ disk'["V2"].att = disk["V2"].att
    BY <1>1, <2>1 DEF DiskType
  <2> QED
    BY <1>1, <1>2, <2>3, <2>4 DEF IInv, DiskInv
<1>5. CASE file = "zarr.json"
  <2>1. disk' = [disk EXCEPT !["V3"].index = c, !["V3"].marker = c]
    BY <1>5 DEF WriteDatasetFile
  <2>2. [disk["V3"] EXCEPT !.index = c, !.marker = c] \in Node
    BY <1>1 DEF DiskType, Node
  <2>3. disk' \in DiskType
    BY <1>1, <2>1, <2>2 DEF DiskType, Node
  <2>4. /\ disk'["V2"] = disk["V2"]
        /\ disk'["V3"].index = c /\ disk'["V3"].marker = c
        /\ disk'["V3"].arr = disk["V3"].arr /\ disk'["V3"].att = disk["V3"].att
    BY <1>1, <2>1 DEF DiskType
  <2> QED
    BY <1>1, <1>2, <2>3, <2>4 DEF IInv, DiskInv
<1>6. CASE file \notin FileNames
  <2>1. file \in HeaderVars /\ file \in Names
    BY <1>1, <1>6 DEF Names
  <2>2. disk' = SetNode(disk, "V3", file, c, c)
    BY <1>6 DEF WriteDatasetFile, SetNode, FileNames
  <2>3. /\ SameNodes(disk, disk', "V3", file)
        /\ disk'["V3"].arr[file] = c /\ disk'["V3"].att[file] = c
    BY <1>1, <2>1, <2>2, NodeUpdate
  <2>4. \A v \in ArrayVars : v # file /\ v \in Names
    BY <2>1, NamesAssumption DEF Names
  <2>5. \A f \in {"V2", "V3"}, v \in ArrayVars :
           disk'[f].arr[v] = disk[f].arr[v] /\ disk'[f].att[v] = disk[f].att[v]
    BY <2>3, <2>4 DEF SameNodes
  <2>6. \A f \in {"V2", "V3"} : disk'[f].marker = disk[f].marker /\ disk'[f].index = disk[f].index
    BY <2>3 DEF SameNodes
  <2>7. \A f \in {"V2", "V3"}, v \in Names :
           \/ disk'[f].arr[v] = disk[f].arr[v] /\ disk'[f].att[v] = disk[f].att[v]
           \/ f = "V3" /\ v = file /\ disk'[f].arr[v] = c /\ disk'[f].att[v] = c
    BY <2>3 DEF SameNodes
  <2>8. \A h \in HeaderVars : disk'["V3"].arr[h] = disk'["V3"].att[h]
    BY <2>7 DEF IInv, DiskInv, Names
  <2>9. \A f \in {"V2", "V3"}, v \in Names : disk'[f].arr[v] <= begun /\ disk'[f].att[v] <= begun
    BY <1>2, <2>7 DEF IInv, DiskInv
  <2>10. DiskInv'
    BY <1>1, <2>6, <2>8, <2>9 DEF IInv, DiskInv
  <2> QED
    BY <2>3, <2>5, <2>6, <2>10 DEF SameNodes
<1> QED
  BY <1>3, <1>4, <1>5, <1>6 DEF FileNames

LEMMA WriteDatasetFileKeeps ==
    ASSUME IInv, NEW c \in Calls, NEW file \in call[c].todo, WriteDatasetFile(c, file)
    PROVE  IInv'
<1> DEFINE r == [call[c] EXCEPT !.todo = @ \ {file}]
<1>1. call \in [Calls -> CallType] /\ call[c] \in CallType /\ mishaps \in 0..MaxMishaps
  BY DEF IInv, TypeOK
<1>2. /\ r \in CallType /\ r.todo \subseteq call[c].todo
      /\ r.names = call[c].names /\ r.format = call[c].format
      /\ r.clean = call[c].clean /\ r.indexed = call[c].indexed
      /\ r.state = call[c].state /\ r.var = call[c].var /\ r.seen = call[c].seen
  BY <1>1 DEF CallType
<1>3. call' = [call EXCEPT ![c] = r]
  BY DEF WriteDatasetFile
<1> HIDE DEF r
<1>4. SameCall(call, call', c) /\ call'[c] = r
  BY <1>1, <1>2, <1>3, CallReplaced
<1>5. UNCHANGED <<begun, reader, opens>> /\ mishaps' = mishaps
  BY DEF WriteDatasetFile
<1>6. (Running(c)' <=> Running(c)) /\ (VariablesDone(c)' <=> VariablesDone(c))
  BY <1>2, <1>4 DEF Running, VariablesDone
<1>7. ~Running(c)' => VariablesDone(c)'
  BY <1>6 DEF IInv, CallInv
<1>8. \A v \in ArrayVars : call'[c].var[v] = call[c].var[v]
  BY <1>2, <1>4
<1>9. call'[c].seen = call[c].seen /\ call'[c].todo \subseteq call[c].todo
  BY <1>2, <1>4
<1> QED
  BY <1>1, <1>4, <1>5, <1>6, <1>7, <1>8, <1>9, DatasetFileWritten, CallStep

\* The same where the store stays as it is.
LEMMA CallStepAlone ==
    ASSUME IInv, NEW c \in Calls, NEW r \in CallType, call' = [call EXCEPT ![c] = r],
           UNCHANGED <<disk, begun, reader, opens>>, mishaps' \in 0..MaxMishaps,
           r.names = call[c].names, r.format = call[c].format,
           r.clean = call[c].clean, r.indexed = call[c].indexed,
           r.seen = call[c].seen, r.todo \subseteq call[c].todo,
           r.state \in {"waiting", "collecting"} => Running(c),
           \/ r.state \in {"waiting", "collecting"} /\ r.var = call[c].var
           \/ r.var = call[c].var /\ VariablesDone(c)
           \/ \A v \in ArrayVars : r.var[v] \in {"ok", "error"}
    PROVE  IInv'
<1>1. call \in [Calls -> CallType]
  BY DEF IInv, TypeOK
<1>2. SameCall(call, call', c) /\ call'[c] = r
  BY <1>1, CallReplaced
<1>3. Running(c)' <=> r.state \in {"waiting", "collecting"}
  BY <1>2 DEF Running
<1>4. ~Running(c)' => VariablesDone(c)'
  BY <1>2, <1>3 DEF VariablesDone
<1>5. \A v \in ArrayVars : call'[c].var[v] \in {"created", "read"} => call'[c].var[v] = call[c].var[v]
  BY <1>2
<1>6. call'[c].seen = call[c].seen /\ call'[c].todo \subseteq call[c].todo
  BY <1>2
<1>7. disk' \in DiskType /\ DiskInv'
  BY DEF IInv, TypeOK, DiskInv
<1> QED
  BY <1>2, <1>3, <1>4, <1>5, <1>6, <1>7, CallStep

LEMMA DatasetFileFailsKeeps ==
    ASSUME IInv, NEW c \in Calls, NEW file \in call[c].todo, DatasetFileFails(c, file)
    PROVE  IInv'
<1> DEFINE r == [call[c] EXCEPT !.todo = @ \ {file}, !.rootFailed = TRUE]
<1>1. call \in [Calls -> CallType] /\ call[c] \in CallType /\ mishaps' \in 0..MaxMishaps
  BY BoundsAssumption DEF IInv, TypeOK, DatasetFileFails
<1>2. /\ r \in CallType /\ r.todo \subseteq call[c].todo
      /\ r.names = call[c].names /\ r.format = call[c].format
      /\ r.clean = call[c].clean /\ r.indexed = call[c].indexed
      /\ r.state = call[c].state /\ r.var = call[c].var /\ r.seen = call[c].seen
  BY <1>1 DEF CallType
<1>3. call' = [call EXCEPT ![c] = r]
  BY <1>1 DEF DatasetFileFails, CallType
<1> HIDE DEF r
<1>4. UNCHANGED <<disk, begun, reader, opens>>
  BY DEF DatasetFileFails
<1>5. Running(c) \/ VariablesDone(c)
  BY DEF IInv, CallInv
<1> QED
  BY <1>1, <1>2, <1>3, <1>4, <1>5, CallStepAlone DEF Running

LEMMA StartCollectingKeeps ==
    ASSUME IInv, NEW c \in Calls, StartCollecting(c)
    PROVE  IInv'
<1> DEFINE r == [call[c] EXCEPT !.state = "collecting"]
<1>1. call \in [Calls -> CallType] /\ call[c] \in CallType /\ mishaps \in 0..MaxMishaps
  BY DEF IInv, TypeOK
<1>2. /\ r \in CallType /\ r.todo = call[c].todo
      /\ r.names = call[c].names /\ r.format = call[c].format
      /\ r.clean = call[c].clean /\ r.indexed = call[c].indexed
      /\ r.state = "collecting" /\ r.var = call[c].var /\ r.seen = call[c].seen
  BY <1>1 DEF CallType, CallStates
<1>3. call' = [call EXCEPT ![c] = r]
  BY DEF StartCollecting
<1> HIDE DEF r
<1>4. UNCHANGED <<disk, begun, reader, opens>> /\ mishaps' = mishaps /\ Running(c)
  BY DEF StartCollecting, Running
<1> QED
  BY <1>1, <1>2, <1>3, <1>4, CallStepAlone

LEMMA CollectKeeps ==
    ASSUME IInv, NEW c \in Calls, Collect(c)
    PROVE  IInv'
<1> DEFINE s == IF AllVariablesOk(c) THEN "ok" ELSE "error"
<1> DEFINE r == [call[c] EXCEPT !.state = s]
<1>1. call \in [Calls -> CallType] /\ call[c] \in CallType /\ mishaps \in 0..MaxMishaps
  BY DEF IInv, TypeOK
<1>2. s \in {"ok", "error"}
  OBVIOUS
<1>3. call' = [call EXCEPT ![c] = r]
  BY DEF Collect
<1> HIDE DEF s
<1>4. /\ r \in CallType /\ r.todo = call[c].todo
      /\ r.names = call[c].names /\ r.format = call[c].format
      /\ r.clean = call[c].clean /\ r.indexed = call[c].indexed
      /\ r.state = s /\ r.var = call[c].var /\ r.seen = call[c].seen
  BY <1>1, <1>2 DEF CallType, CallStates
<1> HIDE DEF r
<1>5. UNCHANGED <<disk, begun, reader, opens>> /\ mishaps' = mishaps /\ VariablesDone(c)
  BY DEF Collect
<1> QED
  BY <1>1, <1>2, <1>3, <1>4, <1>5, CallStepAlone

LEMMA DieKeeps ==
    ASSUME IInv, NEW c \in Calls, Die(c)
    PROVE  IInv'
<1> DEFINE s == IF Running(c) THEN "dead" ELSE call[c].state
<1> DEFINE x == [v \in ArrayVars |-> IF call[c].var[v] = "ok" THEN "ok" ELSE "error"]
<1> DEFINE b == call[c].rootFailed \/ call[c].todo # {}
<1> DEFINE r == [call[c] EXCEPT !.state = s, !.todo = {}, !.rootFailed = b, !.var = x]
<1>1. call \in [Calls -> CallType] /\ call[c] \in CallType /\ mishaps' \in 0..MaxMishaps
  <2>1. mishaps' = mishaps + 1 /\ mishaps < MaxMishaps
    BY DEF Die
  <2> QED
    BY <2>1, BoundsAssumption DEF IInv, TypeOK
<1>2. /\ s \in CallStates /\ x \in [ArrayVars -> VarStates] /\ b \in BOOLEAN
      /\ s \notin {"waiting", "collecting"}
      /\ \A v \in ArrayVars : x[v] \in {"ok", "error"}
  BY <1>1 DEF CallType, CallStates, VarStates, Running
<1>3. call' = [call EXCEPT ![c] = r]
  <2>1. call' = [call EXCEPT ![c].state = s, ![c].todo = {}, ![c].rootFailed = @ \/ call[c].todo # {},
                             ![c].var = x]
    BY <1>1 DEF Die, CallType
  <2> HIDE DEF s, x
  <2> QED
    BY <1>1, <2>1 DEF CallType
<1> HIDE DEF s, x, b
<1>4. /\ r \in CallType /\ r.todo = {}
      /\ r.names = call[c].names /\ r.format = call[c].format
      /\ r.clean = call[c].clean /\ r.indexed = call[c].indexed
      /\ r.state = s /\ r.var = x /\ r.seen = call[c].seen
  <2> DEFINE q == [call[c] EXCEPT !.state = s, !.todo = {}]
  <2>1. r = [q EXCEPT !.rootFailed = b, !.var = x]
    OBVIOUS
  <2>2. /\ q \in CallType /\ q.todo = {} /\ q.state = s /\ q.seen = call[c].seen
        /\ q.names = call[c].names /\ q.format = call[c].format
        /\ q.clean = call[c].clean /\ q.indexed = call[c].indexed
    BY <1>1, <1>2 DEF CallType
  <2> HIDE DEF q, r
  <2> QED
    BY <1>2, <2>1, <2>2 DEF CallType
<1> HIDE DEF r
<1>5. UNCHANGED <<disk, begun, reader, opens>>
  BY DEF Die
<1> QED
  BY <1>1, <1>2, <1>3, <1>4, <1>5, CallStepAlone

LEMMA CreateDatasetKeeps ==
    ASSUME IInv, NEW names \in Specs, NEW format \in Formats, NEW clean \in BOOLEAN,
           CreateDataset(names, format, clean)
    PROVE  IInv'
<1> DEFINE c == begun + 1
<1> DEFINE x == [v \in ArrayVars |-> IF v \in names THEN "open" ELSE "ok"]
<1> DEFINE t == DatasetFiles(format, names)
<1> DEFINE r == [NoCall EXCEPT !.state = "waiting", !.names = names, !.format = format,
                               !.clean = clean, !.var = x, !.todo = t]
<1>1. /\ disk \in DiskType /\ call \in [Calls -> CallType] /\ reader \in ReaderType
      /\ begun \in Gens /\ mishaps \in 0..MaxMishaps
  BY DEF IInv, TypeOK
<1>2. c \in Calls /\ c \in Gens /\ begun' = c /\ begun \in Nat
  BY <1>1, BoundsAssumption DEF CreateDataset, Calls, Gens
<1>3. /\ names \in SUBSET Names /\ format \in {"V2", "V3"}
      /\ x \in [ArrayVars -> VarStates] /\ t \in SUBSET (FileNames \cup HeaderVars)
  BY SpecsAssumption, FormatsAssumption DEF VarStates, DatasetFiles, FileNames
<1>4. call' = [call EXCEPT ![c] = r]
  BY DEF CreateDataset
<1> HIDE DEF x, t
<1>5. /\ r \in CallType /\ r.state = "waiting" /\ r.var = x
      /\ \A v \in ArrayVars : r.seen[v] = 0
  <2> DEFINE q == [NoCall EXCEPT !.state = "waiting", !.names = names, !.format = format]
  <2>1. r = [q EXCEPT !.clean = clean, !.var = x, !.todo = t]
    OBVIOUS
  <2>2. q \in CallType /\ q.state = "waiting" /\ q.seen = [v \in ArrayVars |-> 0]
    <3>1. NoCall \in CallType
      <4>1. /\ [v \in ArrayVars |-> 0] \in [ArrayVars -> Gens]
            /\ [v \in ArrayVars |-> "ok"] \in [ArrayVars -> VarStates]
        BY BoundsAssumption DEF Gens, VarStates
      <4> QED
        BY <4>1 DEF NoCall, CallType, CallStates
    <3>2. NoCall.seen = [v \in ArrayVars |-> 0]
      BY DEF NoCall
    <3> QED
      BY <1>3, <3>1, <3>2 DEF CallType, CallStates
  <2> HIDE DEF q, r
  <2> QED
    BY <1>3, <2>1, <2>2 DEF CallType
<1>6. \A v \in ArrayVars : x[v] \in {"open", "ok"}
  BY DEF x
<1> HIDE DEF r
<1>7. call' \in [Calls -> CallType] /\ call'[c] = r /\ \A e \in Calls : e # c => call'[e] = call[e]
  BY <1>1, <1>2, <1>4, <1>5
<1>8. reader' = [reader EXCEPT !.expect = 0] /\ UNCHANGED <<disk, opens, mishaps>>
  BY DEF CreateDataset
<1>9. /\ reader' \in ReaderType
      /\ reader'.state = reader.state /\ reader'.format = reader.format
      /\ reader'.root = reader.root /\ reader'.indexed = reader.indexed
      /\ reader'.children = reader.children /\ reader'.reads = reader.reads
      /\ reader'.found = reader.found /\ reader'.bad = reader.bad
      /\ reader'.missing = reader.missing
      /\ reader'.arr = reader.arr /\ reader'.att = reader.att
  BY <1>1, <1>8, BoundsAssumption DEF ReaderType, Gens
<1>10. TypeOK'
  BY <1>2, <1>7, <1>8, <1>9 DEF IInv, TypeOK
<1>11. DiskInv'
  <2>1. \A f \in {"V2", "V3"} :
           /\ disk[f].marker \in Gens /\ disk[f].index \in Gens
           /\ \A v \in Names : disk[f].arr[v] \in Gens /\ disk[f].att[v] \in Gens
    BY <1>1 DEF DiskType
  <2>2. \A g \in Gens : g <= begun => g <= c
    BY <1>2, BoundsAssumption DEF Gens
  <2> HIDE DEF c
  <2>3. /\ \A f \in {"V2", "V3"} :
              /\ disk[f].marker <= c /\ disk[f].index <= c
              /\ \A v \in Names : disk[f].arr[v] <= c /\ disk[f].att[v] <= c
    BY <2>1, <2>2 DEF IInv, DiskInv
  <2> QED
    BY <1>2, <1>8, <2>3 DEF IInv, DiskInv
<1>12. CallInv'
  <2> SUFFICES ASSUME NEW e \in Calls
               PROVE  /\ e # c => ~Running(e)'
                      /\ e > c => call'[e].todo = {}
                      /\ ~Running(e)' => VariablesDone(e)'
                      /\ \A w \in ArrayVars :
                            /\ call'[e].seen[w] <= c
                            /\ call'[e].var[w] \in {"created", "read"} =>
                                  disk'[call'[e].format].arr[w] = e
                            /\ call'[e].var[w] = "read" => call'[e].format = "V3"
    BY <1>2 DEF CallInv
  <2>1. CASE e = c
    <3>1. Running(e)' /\ ~(e > c)
      BY <1>2, <1>5, <1>7, <2>1 DEF Running
    <3>2. \A w \in ArrayVars : /\ call'[e].seen[w] <= c
                               /\ ~(call'[e].var[w] \in {"created", "read"})
      BY <1>2, <1>5, <1>6, <1>7, <2>1
    <3> QED
      BY <2>1, <3>1, <3>2
  <2>2. CASE e # c
    <3>1. call'[e] = call[e]
      BY <1>7, <2>2
    <3>2. ~Running(e) /\ VariablesDone(e)
      BY DEF CreateDataset, IInv, CallInv
    <3>3. ~Running(e)' /\ VariablesDone(e)'
      BY <3>1, <3>2 DEF Running, VariablesDone
    <3>4. \A w \in ArrayVars : ~(call[e].var[w] \in {"created", "read"})
      BY <3>2 DEF VariablesDone
    <3>5. \A w \in ArrayVars : call[e].seen[w] \in Gens /\ call[e].seen[w] <= begun
      BY <1>1 DEF CallType, IInv, CallInv
    <3>6. \A w \in ArrayVars : call[e].seen[w] <= c
      BY <1>2, <3>5, BoundsAssumption DEF Gens
    <3>7. e > c => call[e].todo = {}
      BY <1>2 DEF Calls, IInv, CallInv
    <3> QED
      BY <2>2, <3>1, <3>3, <3>4, <3>6, <3>7
  <2> QED
    BY <2>1, <2>2
<1>13. ReaderInv'
  <2>1. reader.root \in Gens /\ (reader.root # 0 /\ reader.root <= begun =>
           /\ reader.root <= c /\ call'[reader.root].names = call[reader.root].names)
    BY <1>1, <1>2, <1>7, BoundsAssumption DEF ReaderType, Gens, Calls
  <2>2. reader.state \in {"children", "variables", "ok"} => reader.root # 0 /\ reader.root <= begun
    BY DEF IInv, ReaderInv
  <2> HIDE DEF c
  <2>3. OpenedIsWhole'
    BY <1>9, <2>1, <2>2 DEF IInv, ReaderInv, OpenedIsWhole
  <2> QED
    BY <1>2, <1>8, <1>9, <2>1, <2>2, <2>3 DEF IInv, ReaderInv, Got, Whole
<1> QED
  BY <1>10, <1>11, <1>12, <1>13 DEF IInv

-----------------------------------------------------------------------------
(* The steps of an opening *)

LEMMA ReaderStep ==
    ASSUME IInv, UNCHANGED <<disk, call, begun>>, opens' \in 0..MaxOpens, mishaps' \in 0..MaxMishaps,
           reader' \in ReaderType, ReaderInv'
    PROVE  IInv'
<1>1. TypeOK'
  BY DEF IInv, TypeOK
<1>2. DiskInv'
  BY DEF IInv, DiskInv
<1>3. CallInv'
  <2>1. \A c \in Calls : (Running(c)' <=> Running(c)) /\ (VariablesDone(c)' <=> VariablesDone(c))
    BY DEF Running, VariablesDone
  <2> QED
    BY <2>1 DEF IInv, CallInv
<1> QED
  BY <1>1, <1>2, <1>3 DEF IInv

LEMMA NoReaderType == NoReader \in ReaderType
<1>1. [v \in Names |-> 0] \in [Names -> Gens] /\ 0 \in Gens
  BY BoundsAssumption DEF Gens
<1> QED
  BY <1>1 DEF NoReader, ReaderType, ReaderStates, ReaderBusy

LEMMA OpenPathKeeps ==
    ASSUME IInv, OpenPath
    PROVE  IInv'
<1> DEFINE g == IF Settled(begun) THEN begun ELSE 0
<1>1. g \in Gens
  BY BoundsAssumption DEF IInv, TypeOK, Gens
<1>2. reader' = [NoReader EXCEPT !.state = "detect3", !.expect = g]
  BY DEF OpenPath
<1> HIDE DEF g
<1>3. reader' \in ReaderType
  BY <1>1, <1>2, NoReaderType DEF ReaderType, ReaderStates, ReaderBusy
<1>4. reader'.state = "detect3" /\ reader'.found = {}
  BY <1>2 DEF NoReader
<1>5. ReaderInv'
  BY <1>4 DEF ReaderInv, OpenedIsWhole
<1>6. UNCHANGED <<disk, call, begun>> /\ opens' \in 0..MaxOpens /\ mishaps' \in 0..MaxMishaps
  BY BoundsAssumption DEF OpenPath, IInv, TypeOK
<1> QED
  BY <1>3, <1>5, <1>6, ReaderStep

LEMMA DetectV3Keeps ==
    ASSUME IInv, DetectV3
    PROVE  IInv'
<1> DEFINE s == IF disk["V3"].marker # 0 THEN "root" ELSE "detect2"
<1>1. reader' = [reader EXCEPT !.state = s] /\ reader \in ReaderType
  BY DEF DetectV3, IInv, TypeOK
<1>2. s \in {"root", "detect2"} /\ (s = "root" => disk["V3"].index # 0)
  BY DEF IInv, DiskInv
<1> HIDE DEF s
<1>3. reader' \in ReaderType /\ reader'.state = s /\ reader'.found = reader.found
  BY <1>1, <1>2 DEF ReaderType, ReaderStates, ReaderBusy
<1>4. reader.found = {}
  BY DEF DetectV3, IInv, ReaderInv
<1>5. UNCHANGED <<disk, call, begun, opens, mishaps>>
  BY DEF DetectV3
<1>6. ReaderInv'
  BY <1>2, <1>3, <1>4, <1>5 DEF ReaderInv, OpenedIsWhole
<1> QED
  BY <1>3, <1>5, <1>6, ReaderStep DEF IInv, TypeOK

LEMMA DetectV2Keeps ==
    ASSUME IInv, DetectV2
    PROVE  IInv'
<1> DEFINE s == IF disk["V2"].marker # 0 THEN "root" ELSE "error"
<1>1. reader' = [reader EXCEPT !.state = s, !.format = "V2"] /\ reader \in ReaderType
  BY DEF DetectV2, IInv, TypeOK
<1>2. s \in {"root", "error"}
  OBVIOUS
<1> HIDE DEF s
<1>3. /\ reader' \in ReaderType /\ reader'.state = s /\ reader'.format = "V2"
      /\ reader'.found = reader.found
  BY <1>1, <1>2 DEF ReaderType, ReaderStates, ReaderBusy
<1>4. reader.found = {}
  BY DEF DetectV2, IInv, ReaderInv
<1>5. UNCHANGED <<disk, call, begun, opens, mishaps>>
  BY DEF DetectV2
<1>6. ReaderInv'
  BY <1>2, <1>3, <1>4, <1>5 DEF ReaderInv, OpenedIsWhole
<1> QED
  BY <1>3, <1>5, <1>6, ReaderStep DEF IInv, TypeOK

\* An opening that ends in an error.
LEMMA ReaderError ==
    ASSUME IInv, NEW r, r = [reader EXCEPT !.state = "error"]
    PROVE  r \in ReaderType /\ r.state = "error"
BY DEF IInv, TypeOK, ReaderType, ReaderStates

LEMMA ReadZmetadataKeeps ==
    ASSUME IInv, ReadZmetadata
    PROVE  IInv'
<1> DEFINE c == disk["V2"].index
<1> DEFINE names == call[c].names
<1> DEFINE whole == [v \in Names |-> IF v \in names \cap HeaderVars THEN c ELSE 0]
<1> DEFINE reads == VariableReads(names)
<1>1. UNCHANGED <<disk, call, begun, opens, mishaps>>
  BY DEF ReadZmetadata
<1>2. reader \in ReaderType /\ c \in Gens /\ c <= begun
  BY DEF IInv, TypeOK, DiskType, DiskInv
<1>3. CASE c = 0
  <2>1. reader' = [reader EXCEPT !.state = "error"]
    BY <1>3 DEF ReadZmetadata
  <2>2. reader' \in ReaderType /\ reader'.state = "error"
    BY <2>1, ReaderError
  <2>3. ReaderInv'
    BY <2>2 DEF ReaderInv, OpenedIsWhole
  <2> QED
    BY <1>1, <2>2, <2>3, ReaderStep DEF IInv, TypeOK
<1>4. CASE c # 0
  <2>1. reader' = [reader EXCEPT !.state = "variables", !.root = c, !.found = names,
                                 !.reads = reads, !.arr = whole, !.att = whole]
    BY <1>4 DEF ReadZmetadata
  <2>2. /\ names \in SUBSET Names /\ whole \in [Names -> Gens]
        /\ reads \in SUBSET (ArrayVars \X {"arr", "att"})
    BY <1>2, <1>4, BoundsAssumption DEF IInv, TypeOK, CallType, Calls, Gens, VariableReads
  <2>3. /\ \A v \in names \cap HeaderVars : whole[v] # 0
        /\ \A v \in names \cap ArrayVars : <<v, "arr">> \in reads /\ <<v, "att">> \in reads
    BY <1>4, <2>2 DEF VariableReads
  <2> DEFINE q == [reader EXCEPT !.state = "variables", !.root = c, !.found = names]
  <2> HIDE DEF c, names, whole, reads
  <2>4. reader' = [q EXCEPT !.reads = reads, !.arr = whole, !.att = whole]
    BY <2>1
  <2>5. q \in ReaderType /\ q.state = "variables" /\ q.root = c /\ q.found = names
    BY <1>2, <2>2 DEF ReaderType, ReaderStates, ReaderBusy
  <2> HIDE DEF q
  <2>6. /\ reader' \in ReaderType /\ reader'.state = "variables" /\ reader'.root = c
        /\ reader'.found = names /\ reader'.reads = reads
        /\ reader'.arr = whole /\ reader'.att = whole
    BY <2>2, <2>4, <2>5 DEF ReaderType
  <2>7. reader'.root # 0 /\ reader'.root <= begun /\ reader'.found = call[reader'.root].names
    BY <1>2, <1>4, <2>6 DEF names
  <2>8. ReaderInv'
    BY <1>1, <2>3, <2>6, <2>7 DEF ReaderInv, OpenedIsWhole, Whole, Got
  <2> QED
    BY <1>1, <2>6, <2>8, ReaderStep DEF IInv, TypeOK
<1> QED
  BY <1>3, <1>4

LEMMA ReadRootKeeps ==
    ASSUME IInv, ReadRoot
    PROVE  IInv'
<1> DEFINE c == disk["V3"].index
<1> DEFINE i == call[c].indexed
<1> DEFINE children == IF i THEN call[c].names ELSE Candidates
<1>1. UNCHANGED <<disk, call, begun, opens, mishaps>>
  BY DEF ReadRoot
<1>2. reader \in ReaderType /\ c \in Gens /\ c <= begun /\ c # 0 /\ reader.found = {}
  BY DEF IInv, TypeOK, DiskType, DiskInv, ReaderInv, ReadRoot
<1>3. CASE children = {}
  <2>1. reader' = [reader EXCEPT !.state = "error"]
    BY <1>3 DEF ReadRoot
  <2>2. reader' \in ReaderType /\ reader'.state = "error"
    BY <2>1, ReaderError
  <2>3. ReaderInv'
    BY <2>2 DEF ReaderInv, OpenedIsWhole
  <2> QED
    BY <1>1, <2>2, <2>3, ReaderStep DEF IInv, TypeOK
<1>4. CASE children # {}
  <2>1. reader' = [reader EXCEPT !.state = "children", !.root = c, !.indexed = i,
                                 !.children = children]
    BY <1>4 DEF ReadRoot
  <2>2. children \in SUBSET Names /\ i \in BOOLEAN /\ (i => children = call[c].names)
    BY <1>2, BoundsAssumption DEF IInv, TypeOK, CallType, Calls, Gens, Candidates
  <2> DEFINE q == [reader EXCEPT !.state = "children", !.root = c]
  <2> HIDE DEF c, i, children
  <2>3. reader' = [q EXCEPT !.indexed = i, !.children = children]
    BY <2>1
  <2>4. q \in ReaderType /\ q.state = "children" /\ q.root = c /\ q.found = {}
    BY <1>2 DEF ReaderType, ReaderStates, ReaderBusy
  <2> HIDE DEF q
  <2>5. /\ reader' \in ReaderType /\ reader'.state = "children" /\ reader'.root = c
        /\ reader'.found = {} /\ reader'.indexed = i /\ reader'.children = children
    BY <2>2, <2>3, <2>4 DEF ReaderType
  <2>6. ReaderInv'
    BY <1>1, <1>2, <2>2, <2>5 DEF ReaderInv, OpenedIsWhole, Whole, Got
  <2> QED
    BY <1>1, <2>5, <2>6, ReaderStep DEF IInv, TypeOK
<1> QED
  BY <1>3, <1>4

\* A child read: ReaderInv holds of the reader after it.
LEMMA ChildStep ==
    ASSUME IInv, reader.state = "children", NEW v \in reader.children, NEW isArray \in BOOLEAN,
           isArray => disk["V3"].arr[v] # 0, NEW r, r = ChildRead(v, isArray)
    PROVE  /\ r \in ReaderType /\ r.state = "children" /\ r.root = reader.root
           /\ r.indexed = reader.indexed /\ r.children \cap r.found = {}
           /\ r.indexed /\ ~r.bad => r.found \cup r.children = call[reader.root].names
           /\ \A w \in r.found \cap HeaderVars : r.arr[w] # 0 /\ r.att[w] # 0
<1> DEFINE found == IF isArray THEN reader.found \cup {v} ELSE reader.found
<1> DEFINE bad == reader.bad \/ ChildBad(isArray)
<1> DEFINE x == IF v \in HeaderVars THEN disk["V3"].arr[v] ELSE 0
<1> DEFINE y == IF v \in HeaderVars THEN disk["V3"].att[v] ELSE 0
<1> DEFINE arr == [reader.arr EXCEPT ![v] = x]
<1> DEFINE att == [reader.att EXCEPT ![v] = y]
<1> DEFINE rest == reader.children \ {v}
<1>1. /\ reader \in ReaderType /\ v \in Names /\ disk \in DiskType
      /\ reader.children \cap reader.found = {}
      /\ reader.indexed /\ ~reader.bad => reader.found \cup reader.children = call[reader.root].names
      /\ \A w \in reader.found \cap HeaderVars : reader.arr[w] # 0 /\ reader.att[w] # 0
  BY DEF IInv, TypeOK, ReaderType, ReaderInv, Whole
<1>2. x \in Gens /\ y \in Gens /\ (v \in HeaderVars /\ isArray => x # 0 /\ y # 0)
  BY <1>1, BoundsAssumption DEF DiskType, Gens, IInv, DiskInv
<1>3. /\ found \in SUBSET Names /\ bad \in BOOLEAN /\ rest \in SUBSET Names
      /\ arr \in [Names -> Gens] /\ att \in [Names -> Gens]
  BY <1>1, <1>2 DEF ReaderType, ChildBad
<1> DEFINE q == [reader EXCEPT !.children = rest, !.found = found, !.bad = bad]
<1>4. r = [q EXCEPT !.arr = arr, !.att = att]
  BY <1>1 DEF ChildRead, ReaderType
<1>5. ~bad => ~reader.bad /\ (reader.indexed => isArray)
  BY DEF ChildBad
<1>6. rest \cap found = {} /\ (isArray => found \cup rest = reader.found \cup reader.children)
  BY <1>1
<1>7. \A w \in found \cap HeaderVars : arr[w] # 0 /\ att[w] # 0
  BY <1>1, <1>2 DEF ReaderType
<1> HIDE DEF found, bad, arr, att, rest
<1>8. /\ q \in ReaderType /\ q.state = "children" /\ q.root = reader.root
      /\ q.indexed = reader.indexed /\ q.children = rest /\ q.found = found /\ q.bad = bad
  BY <1>1, <1>3 DEF ReaderType
<1> HIDE DEF q
<1>9. /\ r \in ReaderType /\ r.state = "children" /\ r.root = reader.root
      /\ r.indexed = reader.indexed /\ r.children = rest /\ r.found = found /\ r.bad = bad
      /\ r.arr = arr /\ r.att = att
  BY <1>3, <1>4, <1>8 DEF ReaderType
<1> QED
  BY <1>1, <1>5, <1>6, <1>7, <1>9

LEMMA ReadChildKeeps ==
    ASSUME IInv, NEW v \in Names, ReadChild(v)
    PROVE  IInv'
<1> DEFINE a == disk["V3"].arr[v] # 0
<1>1. /\ reader.state = "children" /\ v \in reader.children /\ reader' = ChildRead(v, a)
      /\ UNCHANGED <<disk, call, begun, opens, mishaps>>
  BY DEF ReadChild
<1>2. a \in BOOLEAN /\ (a => disk["V3"].arr[v] # 0)
  OBVIOUS
<1> HIDE DEF a
<1>3. /\ reader' \in ReaderType /\ reader'.state = "children" /\ reader'.root = reader.root
      /\ reader'.indexed = reader.indexed /\ reader'.children \cap reader'.found = {}
      /\ reader'.indexed /\ ~reader'.bad =>
            reader'.found \cup reader'.children = call[reader.root].names
      /\ \A w \in reader'.found \cap HeaderVars : reader'.arr[w] # 0 /\ reader'.att[w] # 0
  BY <1>1, <1>2, ChildStep
<1>4. reader.root # 0 /\ reader.root <= begun
  BY <1>1 DEF IInv, ReaderInv
<1>5. ReaderInv'
  BY <1>1, <1>3, <1>4 DEF ReaderInv, OpenedIsWhole, Whole
<1> QED
  BY <1>1, <1>3, <1>5, ReaderStep DEF IInv, TypeOK

LEMMA ChildrenReadKeeps ==
    ASSUME IInv, ChildrenRead
    PROVE  IInv'
<1> DEFINE reads == VariableReads(reader.found)
<1>1. UNCHANGED <<disk, call, begun, opens, mishaps>> /\ reader.state = "children" /\ reader.children = {}
  BY DEF ChildrenRead
<1>2. reader \in ReaderType
  BY DEF IInv, TypeOK
<1>3. CASE reader' = [reader EXCEPT !.state = "error"]
  <2>1. reader' \in ReaderType /\ reader'.state = "error"
    BY <1>3, ReaderError
  <2>2. ReaderInv'
    BY <2>1 DEF ReaderInv, OpenedIsWhole
  <2> QED
    BY <1>1, <2>1, <2>2, ReaderStep DEF IInv, TypeOK
<1>4. CASE reader' = [reader EXCEPT !.state = "variables", !.reads = reads]
  <2>1. /\ reads \in SUBSET (ArrayVars \X {"arr", "att"})
        /\ \A v \in reader.found \cap ArrayVars : <<v, "arr">> \in reads /\ <<v, "att">> \in reads
    BY <1>2 DEF VariableReads, ReaderType
  <2> HIDE DEF reads
  <2>2. /\ reader' \in ReaderType /\ reader'.state = "variables" /\ reader'.reads = reads
        /\ reader'.root = reader.root /\ reader'.indexed = reader.indexed
        /\ reader'.found = reader.found /\ reader'.bad = reader.bad
        /\ reader'.arr = reader.arr /\ reader'.att = reader.att
    BY <1>2, <1>4, <2>1 DEF ReaderType, ReaderStates, ReaderBusy
  <2>3. ReaderInv'
    BY <1>1, <2>1, <2>2 DEF IInv, ReaderInv, OpenedIsWhole, Whole, Got
  <2> QED
    BY <1>1, <2>2, <2>3, ReaderStep DEF IInv, TypeOK
<1> QED
  BY <1>3, <1>4 DEF ChildrenRead

LEMMA OpenArrayKeeps ==
    ASSUME IInv, NEW v \in Names, OpenArray(v)
    PROVE  IInv'
<1> DEFINE x == disk[reader.format].arr[v]
<1> DEFINE reads == reader.reads \ {<<v, "arr">>}
<1> DEFINE arr == [reader.arr EXCEPT ![v] = x]
<1> DEFINE bad == reader.bad \/ x = 0
<1>1. /\ UNCHANGED <<disk, call, begun, opens, mishaps>>
      /\ reader.state = "variables" /\ <<v, "arr">> \in reader.reads
  BY DEF OpenArray
<1>2. reader \in ReaderType /\ x \in Gens /\ v \in ArrayVars /\ v \notin HeaderVars
  BY <1>1, NamesAssumption DEF IInv, TypeOK, ReaderType, DiskType
<1>3. reader' = [reader EXCEPT !.reads = reads, !.arr = arr, !.bad = bad]
  BY <1>2 DEF OpenArray, ReaderType
<1>4. /\ reads \in SUBSET (ArrayVars \X {"arr", "att"}) /\ arr \in [Names -> Gens]
      /\ bad \in BOOLEAN
  BY <1>2 DEF ReaderType
<1>5. /\ \A w \in Names : w # v => arr[w] = reader.arr[w]
      /\ arr[v] = x /\ (~bad => ~reader.bad /\ x # 0)
      /\ \A w \in Names : /\ <<w, "att">> \in reads <=> <<w, "att">> \in reader.reads
                          /\ w # v => (<<w, "arr">> \in reads <=> <<w, "arr">> \in reader.reads)
  BY <1>2 DEF ReaderType
<1> HIDE DEF x, reads, arr, bad
<1>6. /\ reader' \in ReaderType /\ reader'.state = "variables" /\ reader'.reads = reads
      /\ reader'.arr = arr /\ reader'.bad = bad
      /\ reader'.root = reader.root /\ reader'.indexed = reader.indexed
      /\ reader'.found = reader.found /\ reader'.att = reader.att
      /\ reader'.format = reader.format /\ reader'.missing = reader.missing
  BY <1>1, <1>2, <1>3, <1>4 DEF ReaderType
<1>7. \A w \in reader.found \cap HeaderVars : Whole(w)'
  BY <1>1, <1>2, <1>5, <1>6 DEF IInv, ReaderInv, Whole, Names
<1>8. ~bad => \A w \in reader.found \cap ArrayVars : Got(w)'
  BY <1>1, <1>2, <1>5, <1>6 DEF IInv, ReaderInv, Got, Names
<1>9. ReaderInv'
  BY <1>1, <1>5, <1>6, <1>7, <1>8 DEF IInv, ReaderInv, OpenedIsWhole
<1> QED
  BY <1>1, <1>6, <1>9, ReaderStep DEF IInv, TypeOK

LEMMA ReadAttributesKeeps ==
    ASSUME IInv, NEW v \in Names, ReadAttributes(v)
    PROVE  IInv'
<1> DEFINE y == disk[reader.format].att[v]
<1> DEFINE reads == reader.reads \ {<<v, "att">>}
<1> DEFINE att == [reader.att EXCEPT ![v] = y]
<1> DEFINE bad == reader.bad \/ (y = 0 /\ reader.format = "V3")
<1> DEFINE missing == IF y = 0 THEN reader.missing \cup {v} ELSE reader.missing
<1>1. /\ UNCHANGED <<disk, call, begun, opens, mishaps>>
      /\ reader.state = "variables" /\ <<v, "att">> \in reader.reads
  BY DEF ReadAttributes
<1>2. reader \in ReaderType /\ y \in Gens /\ v \in ArrayVars /\ v \notin HeaderVars
  BY <1>1, NamesAssumption DEF IInv, TypeOK, ReaderType, DiskType
<1> DEFINE q == [reader EXCEPT !.reads = reads, !.att = att]
<1>3. reader' = [q EXCEPT !.bad = bad, !.missing = missing]
  BY <1>2 DEF ReadAttributes, ReaderType
<1>4. /\ reads \in SUBSET (ArrayVars \X {"arr", "att"}) /\ att \in [Names -> Gens]
      /\ bad \in BOOLEAN /\ missing \in SUBSET ArrayVars
  BY <1>2 DEF ReaderType
<1>5. /\ \A w \in Names : w # v => att[w] = reader.att[w]
      /\ att[v] = y /\ (~bad => ~reader.bad /\ (y # 0 \/ reader.format # "V3"))
      /\ (y = 0 => v \in missing) /\ reader.missing \subseteq missing
      /\ \A w \in Names : /\ <<w, "arr">> \in reads <=> <<w, "arr">> \in reader.reads
                          /\ w # v => (<<w, "att">> \in reads <=> <<w, "att">> \in reader.reads)
  BY <1>2 DEF ReaderType
<1> HIDE DEF y, reads, att, bad, missing
<1>6. /\ q \in ReaderType /\ q.state = "variables" /\ q.reads = reads
      /\ q.att = att /\ q.format = reader.format
      /\ q.root = reader.root /\ q.indexed = reader.indexed
      /\ q.found = reader.found /\ q.arr = reader.arr
  BY <1>1, <1>2, <1>4 DEF ReaderType
<1> HIDE DEF q
<1>7. /\ reader' \in ReaderType /\ reader'.state = "variables" /\ reader'.reads = reads
      /\ reader'.att = att /\ reader'.bad = bad /\ reader'.missing = missing
      /\ reader'.root = reader.root /\ reader'.indexed = reader.indexed
      /\ reader'.found = reader.found /\ reader'.arr = reader.arr
      /\ reader'.format = reader.format
  BY <1>3, <1>4, <1>6 DEF ReaderType
<1>8. \A w \in reader.found \cap HeaderVars : Whole(w)'
  BY <1>1, <1>2, <1>5, <1>7 DEF IInv, ReaderInv, Whole, Names
<1>9. ASSUME ~bad, NEW w \in reader.found \cap ArrayVars PROVE Got(w)'
  <2>1. w \in Names /\ ~reader.bad /\ Got(w)
    BY <1>1, <1>5, <1>9 DEF IInv, ReaderInv, Names
  <2>2. reader.format \in {"V2", "V3"}
    BY <1>2 DEF ReaderType
  <2>3. CASE w = v
    BY <1>5, <1>7, <1>9, <2>1, <2>2, <2>3 DEF Got
  <2>4. CASE w # v
    BY <1>5, <1>7, <2>1, <2>4 DEF Got
  <2> QED
    BY <2>3, <2>4
<1>10. ReaderInv'
  BY <1>1, <1>5, <1>7, <1>8, <1>9 DEF IInv, ReaderInv, OpenedIsWhole
<1> QED
  BY <1>1, <1>7, <1>10, ReaderStep DEF IInv, TypeOK

LEMMA OpenDoneKeeps ==
    ASSUME IInv, OpenDone
    PROVE  IInv'
<1> DEFINE throws == reader.format = "V2" /\ \E v \in reader.missing : reader.arr[v] # 0
<1> DEFINE s == IF throws THEN "throws" ELSE IF reader.bad THEN "error" ELSE "ok"
<1>1. /\ UNCHANGED <<disk, call, begun, opens, mishaps>>
      /\ reader.state = "variables" /\ reader.reads = {}
      /\ reader' = [reader EXCEPT !.state = s]
  BY DEF OpenDone
<1>2. s \in {"ok", "error", "throws"} /\ (s = "ok" => ~throws /\ ~reader.bad)
  OBVIOUS
<1>3. reader \in ReaderType
  BY DEF IInv, TypeOK
<1> HIDE DEF s
<1>4. /\ reader' \in ReaderType /\ reader'.state = s
      /\ reader'.root = reader.root /\ reader'.indexed = reader.indexed
      /\ reader'.found = reader.found /\ reader'.arr = reader.arr /\ reader'.att = reader.att
  BY <1>1, <1>2, <1>3 DEF ReaderType, ReaderStates
<1>5. reader.root # 0 /\ reader.root <= begun
  BY <1>1 DEF IInv, ReaderInv
<1>6. OpenedIsWhole'
  <2> SUFFICES ASSUME s = "ok", reader.indexed
               PROVE  /\ reader.found = call[reader.root].names
                      /\ \A v \in reader.found : reader.arr[v] # 0 /\ reader.att[v] # 0
    BY <1>1, <1>4 DEF OpenedIsWhole
  <2>1. reader.found = call[reader.root].names
    BY <1>1, <1>2 DEF IInv, ReaderInv
  <2>2. \A v \in reader.found \cap HeaderVars : reader.arr[v] # 0 /\ reader.att[v] # 0
    BY <1>1 DEF IInv, ReaderInv, Whole
  <2>3. \A v \in reader.found \cap ArrayVars : reader.arr[v] # 0 /\ reader.att[v] # 0
    BY <1>1, <1>2 DEF IInv, ReaderInv, Got
  <2>4. reader.found \subseteq ArrayVars \cup HeaderVars
    BY <1>3 DEF ReaderType, Names
  <2> QED
    BY <2>1, <2>2, <2>3, <2>4
<1>7. ReaderInv'
  BY <1>1, <1>2, <1>4, <1>5, <1>6 DEF ReaderInv
<1> QED
  BY <1>1, <1>4, <1>7, ReaderStep DEF IInv, TypeOK

LEMMA ReadFailsKeeps ==
    ASSUME IInv, ReadFails
    PROVE  IInv'
<1>1. /\ reader \in ReaderType /\ 0 \in Gens /\ opens \in 0..MaxOpens
      /\ UNCHANGED <<disk, call, begun, opens>> /\ mishaps' \in 0..MaxMishaps
  <2>1. UNCHANGED <<disk, call, begun, opens>> /\ mishaps' = mishaps + 1 /\ mishaps < MaxMishaps
    BY DEF ReadFails
  <2> QED
    BY <2>1, BoundsAssumption DEF IInv, TypeOK, Gens
<1>2. CASE reader.state = "detect3" /\ reader' = [reader EXCEPT !.state = "detect2", !.expect = 0]
  <2>1. reader' \in ReaderType /\ reader'.state = "detect2" /\ reader'.found = {}
    BY <1>1, <1>2 DEF ReaderType, ReaderStates, ReaderBusy, IInv, ReaderInv
  <2>2. ReaderInv'
    BY <2>1 DEF ReaderInv, OpenedIsWhole
  <2> QED
    BY <1>1, <2>1, <2>2, ReaderStep
<1>3. CASE reader' = [reader EXCEPT !.state = "error", !.expect = 0]
  <2>1. reader' \in ReaderType /\ reader'.state = "error"
    BY <1>1, <1>3 DEF ReaderType, ReaderStates
  <2>2. ReaderInv'
    BY <2>1 DEF ReaderInv, OpenedIsWhole
  <2> QED
    BY <1>1, <2>1, <2>2, ReaderStep
<1>4. ASSUME reader.state = "children", NEW v \in reader.children,
             reader' = [ChildRead(v, FALSE) EXCEPT !.expect = 0]
      PROVE  IInv'
  <2> DEFINE r == ChildRead(v, FALSE)
  <2>1. /\ r \in ReaderType /\ r.state = "children" /\ r.root = reader.root
        /\ r.indexed = reader.indexed /\ r.children \cap r.found = {}
        /\ r.indexed /\ ~r.bad => r.found \cup r.children = call[reader.root].names
        /\ \A w \in r.found \cap HeaderVars : r.arr[w] # 0 /\ r.att[w] # 0
    BY <1>4, ChildStep
  <2>2. reader' = [r EXCEPT !.expect = 0]
    BY <1>4
  <2> HIDE DEF r
  <2>3. /\ reader' \in ReaderType /\ reader'.state = r.state /\ reader'.root = r.root
        /\ reader'.indexed = r.indexed /\ reader'.children = r.children
        /\ reader'.found = r.found /\ reader'.bad = r.bad
        /\ reader'.arr = r.arr /\ reader'.att = r.att
    BY <1>1, <2>1, <2>2 DEF ReaderType
  <2>4. reader.root # 0 /\ reader.root <= begun
    BY <1>4 DEF IInv, ReaderInv
  <2>5. ReaderInv'
    BY <1>1, <2>1, <2>3, <2>4 DEF ReaderInv, OpenedIsWhole, Whole
  <2> QED
    BY <1>1, <2>3, <2>5, ReaderStep
<1>5. ASSUME reader.state = "variables", NEW read \in reader.reads,
             reader' = [reader EXCEPT !.reads = @ \ {read}, !.bad = TRUE, !.expect = 0]
      PROVE  IInv'
  <2>1. /\ reader' \in ReaderType /\ reader'.state = "variables" /\ reader'.bad = TRUE
        /\ reader'.root = reader.root /\ reader'.indexed = reader.indexed
        /\ reader'.found = reader.found /\ reader'.arr = reader.arr /\ reader'.att = reader.att
    BY <1>1, <1>5 DEF ReaderType
  <2>2. ReaderInv'
    BY <1>1, <1>5, <2>1 DEF IInv, ReaderInv, OpenedIsWhole, Whole
  <2> QED
    BY <1>1, <2>1, <2>2, ReaderStep
<1> QED
  BY <1>2, <1>3, <1>4, <1>5 DEF ReadFails

-----------------------------------------------------------------------------
(* The theorems *)

LEMMA InitCorrect == Init => IInv
<1> SUFFICES ASSUME Init PROVE IInv
  OBVIOUS
<1>1. /\ reader = NoReader /\ reader \in ReaderType /\ ReaderInv
      /\ opens \in 0..MaxOpens /\ mishaps \in 0..MaxMishaps /\ 0 \in Gens
  BY NoReaderType, BoundsAssumption DEF Init, NoReader, ReaderInv, OpenedIsWhole, Gens
<1>2. /\ NoCall \in CallType /\ NoCall.state = "none" /\ NoCall.todo = {} /\ NoCall.indexed = TRUE
      /\ \A v \in ArrayVars : NoCall.var[v] = "ok" /\ NoCall.seen[v] = 0
  <2>1. /\ [v \in ArrayVars |-> 0] \in [ArrayVars -> Gens]
        /\ [v \in ArrayVars |-> "ok"] \in [ArrayVars -> VarStates]
    BY <1>1 DEF VarStates
  <2> QED
    BY <2>1 DEF NoCall, CallType, CallStates
<1>3. EmptyDisk \in DiskType
  <2>1. [v \in Names |-> 0] \in [Names -> Gens]
    BY <1>1
  <2> QED
    BY <1>1, <2>1 DEF EmptyDisk, NothingOn, DiskType
<1>4. CASE disk = EmptyDisk /\ begun = 0 /\ call = [c \in Calls |-> NoCall]
  <2>1. TypeOK
    BY <1>1, <1>2, <1>3, <1>4 DEF TypeOK
  <2>2. DiskInv
    BY <1>4 DEF DiskInv, EmptyDisk, NothingOn, Names
  <2>3. CallInv
    BY <1>2, <1>4 DEF CallInv, Running, VariablesDone
  <2> QED
    BY <1>1, <2>1, <2>2, <2>3 DEF IInv
<1>5. ASSUME NEW names \in Specs, MaxCalls > 0, names \subseteq ArrayVars,
             disk = ForeignDisk(names), begun = 1,
             call = [c \in Calls |-> IF c = 1 THEN Foreign(names) ELSE NoCall]
      PROVE  IInv
  <2> DEFINE node == [v \in Names |-> IF v \in names THEN 1 ELSE 0]
  <2> DEFINE n == [marker |-> 1, index |-> 1, arr |-> node, att |-> node]
  <2>1. 1 \in Gens /\ names \in SUBSET Names
    BY <1>5, BoundsAssumption DEF Gens, Names
  <2>2. /\ Foreign(names) \in CallType /\ Foreign(names).state = "ok" /\ Foreign(names).todo = {}
        /\ Foreign(names).var = NoCall.var /\ Foreign(names).seen = NoCall.seen
    BY <1>2, <2>1 DEF Foreign, CallType, CallStates
  <2>3. node \in [Names -> Gens] /\ n \in Node
    BY <1>1, <2>1 DEF Node
  <2>4. disk = [EmptyDisk EXCEPT !["V3"] = n]
    BY <1>5 DEF ForeignDisk
  <2>5. disk \in DiskType
    BY <1>3, <2>3, <2>4 DEF DiskType, Node
  <2>6. disk["V3"] = n /\ disk["V2"] = NothingOn
    BY <2>4 DEF EmptyDisk
  <2>7. TypeOK
    BY <1>1, <1>2, <1>5, <2>1, <2>2, <2>5 DEF TypeOK
  <2>8. DiskInv
    BY <1>5, <2>6 DEF DiskInv, NothingOn, Names
  <2>9. CallInv
    BY <1>2, <1>5, <2>2 DEF CallInv, Running, VariablesDone, Calls
  <2> QED
    BY <1>1, <2>7, <2>8, <2>9 DEF IInv
<1> QED
  BY <1>4, <1>5 DEF Init

LEMMA NextCorrect == IInv /\ [Next]_vars => IInv'
<1> SUFFICES ASSUME IInv, [Next]_vars PROVE IInv'
  OBVIOUS
<1>1. CASE UNCHANGED vars
  <2>1. \A c \in Calls : (Running(c)' <=> Running(c)) /\ (VariablesDone(c)' <=> VariablesDone(c))
    BY <1>1 DEF vars, Running, VariablesDone
  <2>2. TypeOK' /\ DiskInv' /\ CallInv'
    BY <1>1, <2>1 DEF vars, IInv, TypeOK, DiskInv, CallInv
  <2>3. ReaderInv'
    BY <1>1 DEF vars, IInv, ReaderInv, OpenedIsWhole, Whole, Got
  <2> QED
    BY <2>2, <2>3 DEF IInv
<1>2. ASSUME NEW c \in Calls, CreateStep(c) PROVE IInv'
  BY <1>2, DeleteArrayKeeps, CreateArrayKeeps, CreateRefusedKeeps, WriteZattrsKeeps,
     ReadForAttributesKeeps, WriteWithAttributesKeeps, WriteDatasetFileKeeps,
     StartCollectingKeeps, CollectKeeps DEF CreateStep
<1>3. CASE ReadStep
  BY <1>3, DetectV3Keeps, DetectV2Keeps, ReadZmetadataKeeps, ReadRootKeeps, ChildrenReadKeeps,
     OpenDoneKeeps, ReadChildKeeps, OpenArrayKeeps, ReadAttributesKeeps DEF ReadStep
<1> QED
  BY <1>1, <1>2, <1>3, CreateDatasetKeeps, VariableFailsKeeps, DatasetFileFailsKeeps, DieKeeps,
     OpenPathKeeps, ReadFailsKeeps DEF Next

LEMMA Inductive == Spec => []IInv
BY InitCorrect, NextCorrect, PTL DEF Spec

\* Every variable has a value of its kind, for every set of names, of
\* specifications and of formats and for any number of calls.
THEOREM TypeCorrect == Spec => []TypeOK
<1>1. IInv => TypeOK
  BY DEF IInv
<1> QED
  BY <1>1, Inductive, PTL

\* A successful opening that the variable index or .zmetadata guided has
\* every variable that names, with metadata and attributes, whatever
\* creations, failures and deaths it overlapped (dataset.h, from_zmetadata;
\* zarr/zarr_v3.h, OnV3ChildReadsComplete).
THEOREM OpenedCorrect == Spec => []OpenedIsWhole
<1>1. IInv => OpenedIsWhole
  BY DEF IInv, ReaderInv
<1> QED
  BY <1>1, Inductive, PTL

\* The step of a call that could change an array.
LEMMA ArraysKept ==
    ASSUME IInv, Next, begun > 0, begun' = begun, ~call[begun].clean,
           NEW f \in {"V2", "V3"}, NEW v \in ArrayVars, disk[f].arr[v] \notin {0, begun}
    PROVE  disk'[f].arr[v] = disk[f].arr[v] /\ disk'[f].att[v] = disk[f].att[v]
<1>1. disk \in DiskType /\ call \in [Calls -> CallType] /\ v \in Names
  BY DEF IInv, TypeOK, Names
<1>2. ASSUME NEW c \in Calls, NEW w \in ArrayVars, DeleteArray(c, w) PROVE FALSE
  <2>1. c = begun
    BY <1>2, ArrayOfLastCall DEF DeleteArray
  <2> QED
    BY <1>2, <2>1 DEF DeleteArray
<1>3. ASSUME NEW c \in Calls, NEW w \in ArrayVars, CreateArray(c, w)
      PROVE  disk'[f].arr[v] = disk[f].arr[v] /\ disk'[f].att[v] = disk[f].att[v]
  <2>1. c = begun /\ c \in Gens /\ w \in Names
    BY <1>3, ArrayOfLastCall DEF CreateArray, MayCreate, Names
  <2>2. call[c].format \in {"V2", "V3"}
    BY <1>1 DEF CallType
  <2>3. disk[call[c].format].arr[w] = 0
    BY <1>3, <2>1 DEF CreateArray, MayCreate, Exists
  <2>4. disk' = SetCreated(disk, call[c].format, w, c)
    BY <1>3 DEF CreateArray, SetCreated
  <2>5. SameNodes(disk, disk', call[c].format, w)
    BY <1>1, <2>1, <2>2, <2>4, CreatedUpdate
  <2>6. f # call[c].format \/ v # w
    BY <2>3
  <2> QED
    BY <1>1, <2>5, <2>6 DEF SameNodes
<1>4. ASSUME NEW c \in Calls, NEW w \in ArrayVars, WriteZattrs(c, w)
      PROVE  disk'[f].arr[v] = disk[f].arr[v] /\ disk'[f].att[v] = disk[f].att[v]
  <2>1. c = begun /\ c \in Gens /\ w \in Names
    BY <1>4, ArrayOfLastCall DEF WriteZattrs, Names
  <2>2. disk["V2"].arr[w] = begun
    BY <1>4, <2>1 DEF WriteZattrs, IInv, CallInv
  <2>3. disk' = SetAtt(disk, "V2", w, c)
    BY <1>4 DEF WriteZattrs, SetAtt
  <2>4. SameNodes(disk, disk', "V2", w)
    BY <1>1, <2>1, <2>3, AttUpdate
  <2>5. f # "V2" \/ v # w
    BY <2>2
  <2> QED
    BY <1>1, <2>4, <2>5 DEF SameNodes
<1>5. ASSUME NEW c \in Calls, NEW w \in ArrayVars, WriteWithAttributes(c, w)
      PROVE  disk'[f].arr[v] = disk[f].arr[v] /\ disk'[f].att[v] = disk[f].att[v]
  <2>1. c = begun /\ c \in Gens /\ w \in Names /\ call[c].seen[w] \in Gens
    <3>1. call[c].var[w] = "read"
      BY <1>5 DEF WriteWithAttributes
    <3>2. c = begun /\ c \in Gens
      BY <3>1, ArrayOfLastCall
    <3> QED
      BY <1>1, <3>2 DEF Names, CallType
  <2>2. disk["V3"].arr[w] = begun
    BY <1>5, <2>1 DEF WriteWithAttributes, IInv, CallInv
  <2>3. disk' = SetNode(disk, "V3", w, call[c].seen[w], c)
    BY <1>5 DEF WriteWithAttributes, SetNode
  <2>4. SameNodes(disk, disk', "V3", w)
    BY <1>1, <2>1, <2>3, NodeUpdate
  <2>5. f # "V3" \/ v # w
    BY <2>2
  <2> QED
    BY <1>1, <2>4, <2>5 DEF SameNodes
<1>6. ASSUME NEW c \in Calls, NEW file \in call[c].todo, WriteDatasetFile(c, file)
      PROVE  disk'[f].arr[v] = disk[f].arr[v] /\ disk'[f].att[v] = disk[f].att[v]
  BY <1>6, DatasetFileWritten
<1>7. CASE UNCHANGED disk
  BY <1>7
<1>8. ASSUME NEW c \in Calls, CreateStep(c)
      PROVE  disk'[f].arr[v] = disk[f].arr[v] /\ disk'[f].att[v] = disk[f].att[v]
  <2>1. \/ UNCHANGED disk
        \/ \E w \in ArrayVars : \/ DeleteArray(c, w) \/ CreateArray(c, w)
                                \/ WriteZattrs(c, w) \/ WriteWithAttributes(c, w)
        \/ \E file \in call[c].todo : WriteDatasetFile(c, file)
    BY <1>8 DEF CreateStep, CreateRefused, ReadForAttributes, StartCollecting, Collect
  <2> QED
    BY <1>2, <1>3, <1>4, <1>5, <1>6, <1>7, <2>1
<1>9. CASE ReadStep
  BY <1>7, <1>9 DEF ReadStep, DetectV3, DetectV2, ReadZmetadata, ReadRoot, ChildrenRead, OpenDone,
                    ReadChild, OpenArray, ReadAttributes
<1> QED
  BY <1>7, <1>8, <1>9 DEF Next, CreateDataset, VariableFails, DatasetFileFails, Die,
                          OpenPath, ReadFails

\* A kCreate call leaves every array another creation made as it is
\* (variable.h, CreateVariable with kCreate; dataset.h, Dataset::Open).
THEOREM KCreateCorrect == Spec => KCreateKeepsArrays
<1>1. IInv /\ [Next]_vars =>
        [\A f \in {"V2", "V3"}, v \in ArrayVars :
            begun > 0 /\ begun' = begun /\ ~call[begun].clean /\ disk[f].arr[v] \notin {0, begun}
              => disk'[f].arr[v] = disk[f].arr[v] /\ disk'[f].att[v] = disk[f].att[v]]_vars
  BY ArraysKept
<1> QED
  BY <1>1, Inductive, PTL DEF Spec, KCreateKeepsArrays

-----------------------------------------------------------------------------
(* What a creation promises: an inductive invariant on top of IInv, which  *)
(* is about types, running calls and whole openings.                       *)

\* The last creation, unless another program made the store.
Last(c) == c = begun /\ call[c].indexed

\* The arrays a call was asked for whose document it could read.
Sound(c) == (call[c].names \cap ArrayVars) \ call[c].blind

\* Each array of the last creation that is done is as that creation wrote it,
\* also when its document was read and written back in two steps.
ArraysInv ==
    \A c \in Calls : Last(c) => \A v \in Sound(c) :
        /\ call[c].var[v] = "read" => call[c].seen[v] = c
        /\ call[c].var[v] = "ok" =>
              disk[call[c].format].arr[v] = c /\ disk[call[c].format].att[v] = c

\* A call ends well only with all its arrays, and leaves files under way only
\* if one of them has failed.
EndInv ==
    \A c \in Calls :
        /\ call[c].state = "ok" => AllVariablesOk(c)
        /\ call[c].state # "waiting" /\ ~call[c].rootFailed => call[c].todo = {}

NoFileFailed == \A c \in Calls : ~call[c].rootFailed

WrittenBy(c, file) ==
    CASE file = "zmetadata" -> disk["V2"].index = c
      [] file = "zgroup"    -> disk["V2"].marker = c
      [] file = "zarr.json" -> disk["V3"].index = c /\ disk["V3"].marker = c
      [] OTHER              -> disk["V3"].arr[file] = c /\ disk["V3"].att[file] = c

\* While no file has failed, those of the last creation that are not under way
\* any more are its own.
FilesInv ==
    NoFileFailed => \A c \in Calls : Last(c) =>
        \A file \in DatasetFiles(call[c].format, call[c].names) \ call[c].todo :
            WrittenBy(c, file)

\* A store of another program stays as it was until the first creation.
ForeignInv ==
    \A c \in Calls : c = begun /\ ~call[c].indexed =>
        /\ c = 1 /\ call[c].format = "V3" /\ call[c].state = "ok" /\ call[c].todo = {}
        /\ call[c].names \subseteq ArrayVars
        /\ disk["V3"].marker = c /\ disk["V3"].index = c
        /\ \A v \in Names : /\ disk["V3"].arr[v] = (IF v \in call[c].names THEN c ELSE 0)
                            /\ disk["V3"].att[v] = (IF v \in call[c].names THEN c ELSE 0)

NamesInv == \A c \in Calls : c <= begun => call[c].names # {}

CreateInv == ArraysInv /\ EndInv /\ FilesInv /\ ForeignInv /\ NamesInv

\* What the opening has read of array v is what creation g wrote.
GotFrom(g, v) ==
    /\ <<v, "arr">> \notin reader.reads => reader.arr[v] = g
    /\ <<v, "att">> \notin reader.reads => reader.att[v] = g

\* The opening has come some way to the dataset of creation g.
OnItsWay(g) ==
    /\ reader.state \in {"detect3", "detect2", "root", "children", "variables", "ok"}
    /\ reader.missing = {} /\ ~reader.bad
    /\ reader.state = "detect3" => reader.format = "V3"
    /\ reader.state = "detect2" => call[g].format = "V2"
    /\ reader.state \in {"root", "children", "variables", "ok"} =>
          reader.format = call[g].format
    /\ reader.state = "children" =>
          reader.format = "V3" /\ reader.found \cup reader.children = call[g].names
    /\ reader.state \in {"variables", "ok"} =>
          /\ reader.found = call[g].names
          /\ reader.reads \subseteq VariableReads(reader.found)
          /\ \A v \in reader.found \cap ArrayVars : GotFrom(g, v)
    /\ reader.state = "ok" => reader.reads = {}
    /\ reader.state \in {"children", "variables", "ok"} =>
          \A v \in reader.found \cap HeaderVars : reader.arr[v] = g /\ reader.att[v] = g

\* What an opening is expected to return is the last creation, and it is on
\* its way there.
ExpectInv ==
    reader.expect # 0 => reader.expect = begun /\ Settled(begun) /\ OnItsWay(begun)

-----------------------------------------------------------------------------
(* What the steps of a creation change, field by field *)

LEMMA VarRest ==
    ASSUME NEW k \in [Calls -> CallType], NEW c \in Calls, NEW v \in ArrayVars, NEW s,
           NEW l, l = SetVar(k, c, v, s)
    PROVE  l[c].blind = k[c].blind /\ l[c].rootFailed = k[c].rootFailed
BY DEF SetVar, CallType

LEMMA SeenRest ==
    ASSUME NEW k \in [Calls -> CallType], NEW c \in Calls, NEW v \in ArrayVars, NEW s, NEW g,
           NEW l, l = SetSeen(k, c, v, s, g)
    PROVE  l[c].blind = k[c].blind /\ l[c].rootFailed = k[c].rootFailed
<1>1. l = [k EXCEPT ![c] = [k[c] EXCEPT !.var[v] = s, !.seen[v] = g]]
  BY DEF SetSeen, CallType
<1> QED
  BY <1>1 DEF CallType

LEMMA BlindRest ==
    ASSUME NEW k \in [Calls -> CallType], NEW c \in Calls, NEW v \in ArrayVars, NEW s, NEW g,
           NEW l, l = SetBlind(k, c, v, s, g)
    PROVE  l[c].blind = k[c].blind \cup {v} /\ l[c].rootFailed = k[c].rootFailed
<1>1. l = [k EXCEPT ![c] = [k[c] EXCEPT !.var[v] = s, !.seen[v] = g, !.blind = @ \cup {v}]]
  BY DEF SetBlind, CallType
<1> QED
  BY <1>1 DEF CallType

ArrayStep(c, v) ==
    \/ DeleteArray(c, v) \/ CreateArray(c, v) \/ CreateRefused(c, v)
    \/ WriteZattrs(c, v) \/ ReadForAttributes(c, v) \/ WriteWithAttributes(c, v)
    \/ VariableFails(c, v)

\* What a step of array v makes of call c and of the store.
ArrayEffect(c, v) ==
    /\ SameOthers(call, call', c, v)
    /\ call[c].blind \subseteq call'[c].blind
    /\ call'[c].rootFailed = call[c].rootFailed
    /\ call[c].var[v] \notin {"ok", "error"}
    /\ \A g \in {"V2", "V3"} :
          /\ disk'[g].marker = disk[g].marker /\ disk'[g].index = disk[g].index
          /\ \A w \in Names : w # v =>
                disk'[g].arr[w] = disk[g].arr[w] /\ disk'[g].att[w] = disk[g].att[w]
    /\ call'[c].var[v] = "read" /\ v \notin call'[c].blind =>
          /\ call[c].var[v] = "created" /\ call[c].format = "V3"
          /\ call'[c].seen[v] = disk["V3"].arr[v]
    /\ call'[c].var[v] = "ok" =>
          /\ disk'[call[c].format].att[v] = c
          /\ \/ /\ call[c].var[v] = "created"
                /\ disk'[call[c].format].arr[v] = disk[call[c].format].arr[v]
             \/ /\ call[c].var[v] = "read"
                /\ disk'[call[c].format].arr[v] = call[c].seen[v]

LEMMA ArrayStepEffect ==
    ASSUME IInv, NEW c \in Calls, NEW v \in ArrayVars, ArrayStep(c, v)
    PROVE  ArrayEffect(c, v) /\ UNCHANGED <<begun, reader>>
<1>1. /\ disk \in DiskType /\ call \in [Calls -> CallType] /\ v \in Names
      /\ call[c].format \in {"V2", "V3"} /\ 0 \in Gens /\ c \in Gens
      /\ call[c].seen[v] \in Gens /\ disk["V3"].arr[v] \in Gens
  <2>1. disk \in DiskType /\ call \in [Calls -> CallType] /\ v \in Names
    BY DEF IInv, TypeOK, Names
  <2>2. call[c].format \in {"V2", "V3"} /\ call[c].seen[v] \in Gens
    BY <2>1 DEF CallType
  <2>3. disk["V3"].arr[v] \in Gens
    BY <2>1 DEF DiskType
  <2>4. 0 \in Gens /\ c \in Gens
    BY BoundsAssumption DEF Gens, Calls
  <2> QED
    BY <2>1, <2>2, <2>3, <2>4
<1>2. /\ "cleared" \in VarStates /\ "created" \in VarStates /\ "read" \in VarStates
      /\ "ok" \in VarStates /\ "error" \in VarStates
  BY DEF VarStates
<1>3. CASE DeleteArray(c, v)
  <2>1. call' = SetVar(call, c, v, "cleared") /\ call[c].var[v] = "open"
    BY <1>3 DEF DeleteArray, SetVar
  <2>2. /\ SameOthers(call, call', c, v) /\ call'[c].var[v] = "cleared"
        /\ call'[c].blind = call[c].blind /\ call'[c].rootFailed = call[c].rootFailed
    BY <1>1, <1>2, <2>1, VarUpdate, VarRest
  <2>3. \A g \in {"V2", "V3"} :
          /\ disk'[g].marker = disk[g].marker /\ disk'[g].index = disk[g].index
          /\ \A w \in Names : w # v =>
                disk'[g].arr[w] = disk[g].arr[w] /\ disk'[g].att[w] = disk[g].att[w]
    BY <1>1, <1>3 DEF DeleteArray, DiskType
  <2>4. UNCHANGED <<begun, reader>>
    BY <1>3 DEF DeleteArray
  <2> QED
    BY <2>1, <2>2, <2>3, <2>4 DEF ArrayEffect
<1>4. CASE CreateArray(c, v)
  <2>1. /\ call' = SetVar(call, c, v, "created") /\ call[c].var[v] \in {"open", "cleared"}
        /\ disk' = SetCreated(disk, call[c].format, v, c) /\ UNCHANGED <<begun, reader>>
    BY <1>4 DEF CreateArray, MayCreate, SetVar, SetCreated
  <2>2. /\ SameOthers(call, call', c, v) /\ call'[c].var[v] = "created"
        /\ call'[c].blind = call[c].blind /\ call'[c].rootFailed = call[c].rootFailed
    BY <1>1, <1>2, <2>1, VarUpdate, VarRest
  <2>3. SameNodes(disk, disk', call[c].format, v)
    BY <1>1, <2>1, CreatedUpdate
  <2> QED
    BY <1>1, <2>1, <2>2, <2>3 DEF ArrayEffect, SameNodes
<1>5. CASE CreateRefused(c, v) \/ VariableFails(c, v)
  <2>1. /\ call' = SetVar(call, c, v, "error") /\ call[c].var[v] \notin {"ok", "error"}
        /\ disk' = disk /\ UNCHANGED <<begun, reader>>
    BY <1>5 DEF CreateRefused, VariableFails, SetVar
  <2>2. /\ SameOthers(call, call', c, v) /\ call'[c].var[v] = "error"
        /\ call'[c].blind = call[c].blind /\ call'[c].rootFailed = call[c].rootFailed
    BY <1>1, <1>2, <2>1, VarUpdate, VarRest
  <2> QED
    BY <2>1, <2>2 DEF ArrayEffect
<1>6. CASE WriteZattrs(c, v)
  <2>1. /\ call' = SetVar(call, c, v, "ok") /\ call[c].var[v] = "created"
        /\ call[c].format = "V2" /\ disk' = SetAtt(disk, "V2", v, c) /\ UNCHANGED <<begun, reader>>
    BY <1>6 DEF WriteZattrs, SetVar, SetAtt
  <2>2. /\ SameOthers(call, call', c, v) /\ call'[c].var[v] = "ok"
        /\ call'[c].blind = call[c].blind /\ call'[c].rootFailed = call[c].rootFailed
    BY <1>1, <1>2, <2>1, VarUpdate, VarRest
  <2>3. /\ SameNodes(disk, disk', "V2", v)
        /\ disk'["V2"].arr[v] = disk["V2"].arr[v] /\ disk'["V2"].att[v] = c
    BY <1>1, <2>1, AttUpdate
  <2> QED
    BY <2>1, <2>2, <2>3 DEF ArrayEffect, SameNodes
<1>7. CASE ReadForAttributes(c, v)
  <2>1. /\ \/ call' = SetSeen(call, c, v, "read", disk["V3"].arr[v])
           \/ call' = SetBlind(call, c, v, "read", 0)
        /\ call[c].var[v] = "created" /\ call[c].format = "V3"
        /\ disk' = disk /\ UNCHANGED <<begun, reader>>
    BY <1>7 DEF ReadForAttributes, SetSeen, SetBlind
  <2>2. /\ SameOthers(call, call', c, v) /\ call'[c].var[v] = "read"
        /\ call'[c].rootFailed = call[c].rootFailed /\ call[c].blind \subseteq call'[c].blind
        /\ v \in call'[c].blind \/ call'[c].seen[v] = disk["V3"].arr[v]
    <3>1. CASE call' = SetSeen(call, c, v, "read", disk["V3"].arr[v])
      BY <1>1, <1>2, <3>1, SeenUpdate, SeenRest
    <3>2. CASE call' = SetBlind(call, c, v, "read", 0)
      BY <1>1, <1>2, <3>2, BlindUpdate, BlindRest
    <3> QED
      BY <2>1, <3>1, <3>2
  <2> QED
    BY <2>1, <2>2 DEF ArrayEffect
<1>8. CASE WriteWithAttributes(c, v)
  <2>1. /\ call' = SetVar(call, c, v, "ok") /\ call[c].var[v] = "read"
        /\ disk' = SetNode(disk, "V3", v, call[c].seen[v], c) /\ UNCHANGED <<begun, reader>>
    BY <1>8 DEF WriteWithAttributes, SetVar, SetNode
  <2>2. /\ SameOthers(call, call', c, v) /\ call'[c].var[v] = "ok"
        /\ call'[c].blind = call[c].blind /\ call'[c].rootFailed = call[c].rootFailed
    BY <1>1, <1>2, <2>1, VarUpdate, VarRest
  <2>3. /\ SameNodes(disk, disk', "V3", v)
        /\ disk'["V3"].arr[v] = call[c].seen[v] /\ disk'["V3"].att[v] = c
    BY <1>1, <2>1, NodeUpdate
  <2>4. call[c].format = "V3"
    BY <2>1 DEF IInv, CallInv
  <2> QED
    BY <2>1, <2>2, <2>3, <2>4 DEF ArrayEffect, SameNodes
<1> QED
  BY <1>3, <1>4, <1>5, <1>6, <1>7, <1>8 DEF ArrayStep

-----------------------------------------------------------------------------
(* The steps of a creation keep what it has promised *)

\* A variable's step is one of the last call, which is running and so no
\* store of another program.
LEMMA ArrayStepKeeps ==
    ASSUME IInv, CreateInv, NEW c \in Calls, NEW v \in ArrayVars, ArrayStep(c, v)
    PROVE  CreateInv'
<1>1. ArrayEffect(c, v) /\ begun' = begun
  BY ArrayStepEffect
<1>2. /\ SameCall(call, call', c) /\ call'[c].state = call[c].state
      /\ call'[c].todo = call[c].todo /\ call'[c].rootFailed = call[c].rootFailed
      /\ call[c].blind \subseteq call'[c].blind
      /\ \A e \in Calls : e # c => call'[e] = call[e]
      /\ \A e \in Calls : call'[e].rootFailed = call[e].rootFailed
  BY <1>1 DEF ArrayEffect, SameOthers, SameCall
<1>3. c = begun /\ Running(c) /\ call[c].indexed
  <2>1. c = begun /\ Running(c)
    BY <1>1, ArrayOfLastCall DEF ArrayEffect
  <2> QED
    BY <2>1 DEF CreateInv, ForeignInv, Running
<1>4. call[c].format \in {"V2", "V3"} /\ v \in Names /\ v \notin HeaderVars
  BY NamesAssumption DEF IInv, TypeOK, CallType, Names
<1>5. ArraysInv'
  <2> SUFFICES ASSUME NEW w \in Sound(c)'
               PROVE  /\ call'[c].var[w] = "read" => call'[c].seen[w] = c
                      /\ call'[c].var[w] = "ok" =>
                            /\ disk'[call[c].format].arr[w] = c
                            /\ disk'[call[c].format].att[w] = c
    BY <1>1, <1>2, <1>3 DEF ArraysInv, Last, SameCall
  <2>1. w \in Sound(c) /\ w \in ArrayVars /\ w \in Names /\ w \notin call'[c].blind
    BY <1>2 DEF Sound, SameCall, Names
  <2>2. /\ call[c].var[w] = "read" => call[c].seen[w] = c
        /\ call[c].var[w] = "ok" => /\ disk[call[c].format].arr[w] = c
                                    /\ disk[call[c].format].att[w] = c
    BY <1>3, <2>1 DEF CreateInv, ArraysInv, Last
  <2>3. CASE w # v
    BY <1>1, <1>4, <2>1, <2>2, <2>3 DEF ArrayEffect, SameOthers
  <2>4. CASE w = v
    <3>1. call[c].var[v] = "created" => disk[call[c].format].arr[v] = c
      BY DEF IInv, CallInv
    <3>2. call'[c].var[v] = "read" => call'[c].seen[v] = c
      BY <1>1, <2>1, <2>4, <3>1 DEF ArrayEffect
    <3>3. call'[c].var[v] = "ok" => /\ disk'[call[c].format].arr[v] = c
                                    /\ disk'[call[c].format].att[v] = c
      BY <1>1, <2>2, <2>4, <3>1 DEF ArrayEffect
    <3> QED
      BY <2>4, <3>2, <3>3
  <2> QED
    BY <2>3, <2>4
<1>6. EndInv'
  <2>1. call'[c].state # "ok"
    BY <1>2, <1>3 DEF Running
  <2> QED
    BY <1>2, <2>1 DEF CreateInv, EndInv, AllVariablesOk
<1>7. FilesInv'
  <2> SUFFICES ASSUME NoFileFailed,
                      NEW file \in DatasetFiles(call[c].format, call[c].names) \ call[c].todo
               PROVE  WrittenBy(c, file)'
    BY <1>1, <1>2, <1>3 DEF FilesInv, Last, NoFileFailed, SameCall
  <2>1. WrittenBy(c, file)
    BY <1>3 DEF CreateInv, FilesInv, Last
  <2>2. file \in FileNames \/ (file \in Names /\ file # v)
    BY <1>4 DEF DatasetFiles, FileNames, Names
  <2> QED
    BY <1>1, <2>1, <2>2 DEF WrittenBy, ArrayEffect, FileNames
<1>8. ForeignInv'
  BY <1>1, <1>2, <1>3 DEF ForeignInv, SameCall
<1>9. NamesInv'
  BY <1>1, <1>2 DEF CreateInv, NamesInv, SameCall
<1> QED
  BY <1>5, <1>6, <1>7, <1>8, <1>9 DEF CreateInv

\* A step of a call that leaves the store alone.
LEMMA QuietStepKeeps ==
    ASSUME IInv, CreateInv, NEW c \in Calls, SameCall(call, call', c),
           UNCHANGED <<disk, begun>>,
           Running(c) \/ call[c].todo # {},
           call'[c].seen = call[c].seen, call'[c].blind = call[c].blind,
           \A v \in ArrayVars : \/ call'[c].var[v] = call[c].var[v]
                                \/ call'[c].var[v] \notin {"read", "ok"},
           call[c].rootFailed => call'[c].rootFailed,
           call'[c].todo = call[c].todo \/ call'[c].rootFailed,
           call'[c].state = "ok" => AllVariablesOk(c)',
           call'[c].state # "waiting" /\ ~call'[c].rootFailed => call'[c].todo = {}
    PROVE  CreateInv'
<1>1. \A e \in Calls : e # c => call'[e] = call[e]
  BY DEF SameCall
<1>2. \A e \in Calls : /\ call'[e].names = call[e].names /\ call'[e].format = call[e].format
                       /\ call'[e].indexed = call[e].indexed
  BY <1>1 DEF SameCall
<1>3. c = begun => call[c].indexed
  BY DEF CreateInv, ForeignInv, Running
<1>4. ArraysInv'
  <2> SUFFICES ASSUME NEW e \in Calls, e = begun, call[e].indexed, NEW w \in Sound(e)'
               PROVE  /\ call'[e].var[w] = "read" => call'[e].seen[w] = e
                      /\ call'[e].var[w] = "ok" =>
                            /\ disk[call[e].format].arr[w] = e
                            /\ disk[call[e].format].att[w] = e
    BY <1>2 DEF ArraysInv, Last
  <2>1. w \in Sound(e) /\ w \in ArrayVars
    BY <1>1, <1>2 DEF Sound
  <2>2. /\ call'[e].seen[w] = call[e].seen[w]
        /\ call'[e].var[w] \in {"read", "ok"} => call'[e].var[w] = call[e].var[w]
    BY <1>1, <2>1
  <2> QED
    BY <2>1, <2>2 DEF CreateInv, ArraysInv, Last
<1>5. EndInv'
  BY <1>1 DEF CreateInv, EndInv, AllVariablesOk
<1>6. FilesInv'
  <2> SUFFICES ASSUME NoFileFailed', NEW e \in Calls, e = begun, call[e].indexed,
                      NEW file \in DatasetFiles(call[e].format, call[e].names) \ call'[e].todo
               PROVE  WrittenBy(e, file)'
    BY <1>2 DEF FilesInv, Last
  <2>1. NoFileFailed /\ call'[e].todo = call[e].todo
    BY <1>1 DEF NoFileFailed
  <2>2. WrittenBy(e, file)
    BY <2>1 DEF CreateInv, FilesInv, Last
  <2> QED
    BY <2>2 DEF WrittenBy
<1>7. ForeignInv'
  <2> SUFFICES ASSUME NEW e \in Calls, e = begun, ~call[e].indexed
               PROVE  /\ e = 1 /\ call'[e].format = "V3" /\ call'[e].state = "ok"
                      /\ call'[e].todo = {} /\ call'[e].names \subseteq ArrayVars
                      /\ disk["V3"].marker = e /\ disk["V3"].index = e
                      /\ \A v \in Names :
                            /\ disk["V3"].arr[v] = (IF v \in call'[e].names THEN e ELSE 0)
                            /\ disk["V3"].att[v] = (IF v \in call'[e].names THEN e ELSE 0)
    BY <1>2 DEF ForeignInv
  <2>1. call'[e] = call[e]
    BY <1>1, <1>3
  <2> QED
    BY <2>1 DEF CreateInv, ForeignInv
<1>8. NamesInv'
  BY <1>2 DEF CreateInv, NamesInv
<1> QED
  BY <1>4, <1>5, <1>6, <1>7, <1>8 DEF CreateInv

LEMMA DatasetFileFailsCreates ==
    ASSUME IInv, CreateInv, NEW c \in Calls, NEW file \in call[c].todo, DatasetFileFails(c, file)
    PROVE  CreateInv'
<1> DEFINE r == [call[c] EXCEPT !.todo = @ \ {file}, !.rootFailed = TRUE]
<1>1. call \in [Calls -> CallType] /\ call[c] \in CallType
  BY DEF IInv, TypeOK
<1>2. /\ r \in CallType /\ r.rootFailed
      /\ r.names = call[c].names /\ r.format = call[c].format
      /\ r.clean = call[c].clean /\ r.indexed = call[c].indexed
      /\ r.state = call[c].state /\ r.var = call[c].var /\ r.seen = call[c].seen
      /\ r.blind = call[c].blind
  BY <1>1 DEF CallType
<1>3. call' = [call EXCEPT ![c] = r] /\ UNCHANGED <<disk, begun>>
  BY <1>1 DEF DatasetFileFails, CallType
<1> HIDE DEF r
<1>4. SameCall(call, call', c) /\ call'[c] = r
  BY <1>1, <1>2, <1>3, CallReplaced
<1>5. call'[c].state = "ok" => AllVariablesOk(c)'
  <2>1. call[c].state = "ok" => AllVariablesOk(c)
    BY DEF CreateInv, EndInv
  <2> QED
    BY <1>2, <1>4, <2>1 DEF AllVariablesOk
<1> QED
  BY <1>2, <1>3, <1>4, <1>5, QuietStepKeeps

LEMMA StartCollectingCreates ==
    ASSUME IInv, CreateInv, NEW c \in Calls, StartCollecting(c)
    PROVE  CreateInv'
<1> DEFINE r == [call[c] EXCEPT !.state = "collecting"]
<1>1. call \in [Calls -> CallType] /\ call[c] \in CallType
  BY DEF IInv, TypeOK
<1>2. /\ r \in CallType /\ r.rootFailed = call[c].rootFailed /\ r.todo = call[c].todo
      /\ r.names = call[c].names /\ r.format = call[c].format
      /\ r.clean = call[c].clean /\ r.indexed = call[c].indexed
      /\ r.state = "collecting" /\ r.var = call[c].var /\ r.seen = call[c].seen
      /\ r.blind = call[c].blind
  BY <1>1 DEF CallType, CallStates
<1>3. call' = [call EXCEPT ![c] = r] /\ UNCHANGED <<disk, begun>> /\ Running(c)
  BY DEF StartCollecting, Running
<1> HIDE DEF r
<1>4. SameCall(call, call', c) /\ call'[c] = r
  BY <1>1, <1>2, <1>3, CallReplaced
<1>5. ~call[c].rootFailed => call[c].todo = {}
  BY DEF StartCollecting, AllDoneReady
<1> QED
  BY <1>2, <1>3, <1>4, <1>5, QuietStepKeeps

LEMMA CollectCreates ==
    ASSUME IInv, CreateInv, NEW c \in Calls, Collect(c)
    PROVE  CreateInv'
<1> DEFINE s == IF AllVariablesOk(c) THEN "ok" ELSE "error"
<1> DEFINE r == [call[c] EXCEPT !.state = s]
<1>1. call \in [Calls -> CallType] /\ call[c] \in CallType
  BY DEF IInv, TypeOK
<1>2. s \in {"ok", "error"} /\ (s = "ok" => AllVariablesOk(c))
  OBVIOUS
<1>3. call' = [call EXCEPT ![c] = r] /\ UNCHANGED <<disk, begun>> /\ Running(c)
  BY DEF Collect, Running
<1> HIDE DEF s
<1>4. /\ r \in CallType /\ r.rootFailed = call[c].rootFailed /\ r.todo = call[c].todo
      /\ r.names = call[c].names /\ r.format = call[c].format
      /\ r.clean = call[c].clean /\ r.indexed = call[c].indexed
      /\ r.state = s /\ r.var = call[c].var /\ r.seen = call[c].seen
      /\ r.blind = call[c].blind
  BY <1>1, <1>2 DEF CallType, CallStates
<1> HIDE DEF r
<1>5. SameCall(call, call', c) /\ call'[c] = r
  BY <1>1, <1>3, <1>4, CallReplaced
<1>6. call[c].state = "collecting" /\ (~call[c].rootFailed => call[c].todo = {})
  BY DEF Collect, CreateInv, EndInv
<1>7. call'[c].state = "ok" => AllVariablesOk(c)'
  BY <1>2, <1>4, <1>5 DEF AllVariablesOk
<1> QED
  BY <1>3, <1>4, <1>5, <1>6, <1>7, QuietStepKeeps

LEMMA DieCreates ==
    ASSUME IInv, CreateInv, NEW c \in Calls, Die(c)
    PROVE  CreateInv'
<1> DEFINE s == IF Running(c) THEN "dead" ELSE call[c].state
<1> DEFINE x == [v \in ArrayVars |-> IF call[c].var[v] = "ok" THEN "ok" ELSE "error"]
<1> DEFINE b == call[c].rootFailed \/ call[c].todo # {}
<1> DEFINE r == [call[c] EXCEPT !.state = s, !.todo = {}, !.rootFailed = b, !.var = x]
<1>1. call \in [Calls -> CallType] /\ call[c] \in CallType
  BY DEF IInv, TypeOK
<1>2. /\ s \in CallStates /\ x \in [ArrayVars -> VarStates] /\ b \in BOOLEAN
      /\ s # "waiting" /\ (s = "ok" => call[c].state = "ok")
      /\ \A v \in ArrayVars : x[v] = call[c].var[v] \/ x[v] = "error"
      /\ \A v \in ArrayVars : call[c].var[v] = "ok" => x[v] = "ok"
      /\ (call[c].rootFailed => b) /\ (call[c].todo = {} \/ b)
  BY <1>1 DEF CallType, CallStates, VarStates, Running
<1>3. call' = [call EXCEPT ![c] = r]
  <2>1. call' = [call EXCEPT ![c].state = s, ![c].todo = {}, ![c].rootFailed = @ \/ call[c].todo # {},
                             ![c].var = x]
    BY <1>1 DEF Die, CallType
  <2> HIDE DEF s, x
  <2> QED
    BY <1>1, <2>1 DEF CallType
<1> HIDE DEF s, x, b
<1>4. /\ r \in CallType /\ r.todo = {} /\ r.rootFailed = b
      /\ r.names = call[c].names /\ r.format = call[c].format
      /\ r.clean = call[c].clean /\ r.indexed = call[c].indexed
      /\ r.state = s /\ r.var = x /\ r.seen = call[c].seen /\ r.blind = call[c].blind
  <2> DEFINE q == [call[c] EXCEPT !.state = s, !.todo = {}]
  <2>1. r = [q EXCEPT !.rootFailed = b, !.var = x]
    OBVIOUS
  <2>2. /\ q \in CallType /\ q.todo = {} /\ q.state = s /\ q.seen = call[c].seen
        /\ q.names = call[c].names /\ q.format = call[c].format
        /\ q.clean = call[c].clean /\ q.indexed = call[c].indexed /\ q.blind = call[c].blind
    BY <1>1, <1>2 DEF CallType
  <2> HIDE DEF q, r
  <2> QED
    BY <1>2, <2>1, <2>2 DEF CallType
<1> HIDE DEF r
<1>5. SameCall(call, call', c) /\ call'[c] = r
  BY <1>1, <1>3, <1>4, CallReplaced
<1>6. UNCHANGED <<disk, begun>> /\ (Running(c) \/ call[c].todo # {})
  BY DEF Die
<1>7. call'[c].state = "ok" => AllVariablesOk(c)'
  BY <1>2, <1>4, <1>5 DEF AllVariablesOk, CreateInv, EndInv
<1>8. /\ call'[c].seen = call[c].seen /\ call'[c].blind = call[c].blind
      /\ \A v \in ArrayVars : \/ call'[c].var[v] = call[c].var[v]
                               \/ call'[c].var[v] \notin {"read", "ok"}
      /\ call'[c].todo = {}
  BY <1>2, <1>4, <1>5
<1>9. /\ call[c].rootFailed => call'[c].rootFailed
      /\ call'[c].todo = call[c].todo \/ call'[c].rootFailed
  BY <1>2, <1>4, <1>5, Zenon
<1> QED
  BY <1>5, <1>6, <1>7, <1>8, <1>9, QuietStepKeeps

\* While no file has failed, the files under way are those of the last call.
LEMMA FilesOfLastCall ==
    ASSUME IInv, CreateInv, NEW c \in Calls, call[c].todo # {}
    PROVE  /\ NoFileFailed => c = begun
           /\ \A e \in Calls : e = begun => call[e].indexed
<1>1. NoFileFailed => c = begun
  BY DEF IInv, CallInv, CreateInv, EndInv, NoFileFailed, Running
<1>2. ASSUME NEW e \in Calls, e = begun, ~call[e].indexed PROVE FALSE
  <2>1. e = 1 /\ call[e].todo = {}
    BY <1>2 DEF CreateInv, ForeignInv
  <2>2. c = 1
    BY <1>2, <2>1, BoundsAssumption DEF IInv, CallInv, Calls
  <2> QED
    BY <2>1, <2>2
<1> QED
  BY <1>1, <1>2

\* A file is on the store as its writer left it until another writes it.
LEMMA FileWritten ==
    ASSUME IInv, NEW c \in Calls, NEW file \in call[c].todo, WriteDatasetFile(c, file)
    PROVE  /\ WrittenBy(c, file)'
           /\ \A g \in FileNames \cup HeaderVars : WrittenBy(c, g) => WrittenBy(c, g)'
<1>1. /\ disk \in DiskType /\ file \in FileNames \cup HeaderVars
      /\ \A h \in HeaderVars : h \notin FileNames /\ h \in Names
  BY FilesAssumption DEF IInv, TypeOK, CallType, Names
<1>2. CASE file = "zmetadata"
  <2>1. disk' = [disk EXCEPT !["V2"].index = c]
    BY <1>2 DEF WriteDatasetFile
  <2>2. disk'["V3"] = disk["V3"] /\ disk'["V2"].index = c /\ disk'["V2"].marker = disk["V2"].marker
    BY <1>1, <2>1 DEF DiskType
  <2> QED
    BY <1>1, <1>2, <2>2 DEF WrittenBy, FileNames
<1>3. CASE file = "zgroup"
  <2>1. disk' = [disk EXCEPT !["V2"].marker = c]
    BY <1>3 DEF WriteDatasetFile
  <2>2. disk'["V3"] = disk["V3"] /\ disk'["V2"].marker = c /\ disk'["V2"].index = disk["V2"].index
    BY <1>1, <2>1 DEF DiskType
  <2> QED
    BY <1>1, <1>3, <2>2 DEF WrittenBy, FileNames
<1>4. CASE file = "zarr.json"
  <2>1. disk' = [disk EXCEPT !["V3"].index = c, !["V3"].marker = c]
    BY <1>4 DEF WriteDatasetFile
  <2>2. /\ disk'["V2"] = disk["V2"] /\ disk'["V3"].index = c /\ disk'["V3"].marker = c
        /\ disk'["V3"].arr = disk["V3"].arr /\ disk'["V3"].att = disk["V3"].att
    BY <1>1, <2>1 DEF DiskType
  <2> QED
    BY <1>1, <1>4, <2>2 DEF WrittenBy, FileNames
<1>5. CASE file \notin FileNames
  <2>1. file \in Names /\ c \in Gens
    BY <1>1, <1>5, BoundsAssumption DEF Calls, Gens
  <2>2. disk' = SetNode(disk, "V3", file, c, c)
    BY <1>5 DEF WriteDatasetFile, SetNode, FileNames
  <2>3. /\ SameNodes(disk, disk', "V3", file)
        /\ disk'["V3"].arr[file] = c /\ disk'["V3"].att[file] = c
    BY <1>1, <2>1, <2>2, NodeUpdate
  <2> QED
    BY <1>1, <1>5, <2>3 DEF WrittenBy, FileNames, SameNodes
<1> QED
  BY <1>2, <1>3, <1>4, <1>5 DEF FileNames

LEMMA WriteDatasetFileCreates ==
    ASSUME IInv, CreateInv, NEW c \in Calls, NEW file \in call[c].todo, WriteDatasetFile(c, file)
    PROVE  CreateInv'
<1> DEFINE r == [call[c] EXCEPT !.todo = @ \ {file}]
<1>1. call \in [Calls -> CallType] /\ call[c] \in CallType
  BY DEF IInv, TypeOK
<1>2. /\ r \in CallType /\ r.todo = call[c].todo \ {file}
      /\ r.names = call[c].names /\ r.format = call[c].format
      /\ r.clean = call[c].clean /\ r.indexed = call[c].indexed
      /\ r.state = call[c].state /\ r.var = call[c].var /\ r.seen = call[c].seen
      /\ r.blind = call[c].blind /\ r.rootFailed = call[c].rootFailed
  BY <1>1 DEF CallType
<1>3. call' = [call EXCEPT ![c] = r] /\ begun' = begun
  BY DEF WriteDatasetFile
<1> HIDE DEF r
<1>4. SameCall(call, call', c) /\ call'[c] = r
  BY <1>1, <1>2, <1>3, CallReplaced
<1>5. \A e \in Calls :
         /\ call'[e].names = call[e].names /\ call'[e].format = call[e].format
         /\ call'[e].indexed = call[e].indexed /\ call'[e].state = call[e].state
         /\ call'[e].var = call[e].var /\ call'[e].seen = call[e].seen
         /\ call'[e].blind = call[e].blind /\ call'[e].rootFailed = call[e].rootFailed
         /\ call'[e].todo = IF e = c THEN call[e].todo \ {file} ELSE call[e].todo
  BY <1>2, <1>4 DEF SameCall
<1>6. \A f \in {"V2", "V3"}, v \in ArrayVars :
         disk'[f].arr[v] = disk[f].arr[v] /\ disk'[f].att[v] = disk[f].att[v]
  BY DatasetFileWritten
<1>7. ArraysInv'
  <2> SUFFICES ASSUME NEW e \in Calls, Last(e), NEW v \in Sound(e)
               PROVE  /\ call[e].var[v] = "read" => call[e].seen[v] = e
                      /\ call[e].var[v] = "ok" => /\ disk'[call[e].format].arr[v] = e
                                                  /\ disk'[call[e].format].att[v] = e
    <3> SUFFICES ASSUME NEW e \in Calls, Last(e)', NEW v \in Sound(e)'
                 PROVE  /\ call'[e].var[v] = "read" => call'[e].seen[v] = e
                        /\ call'[e].var[v] = "ok" =>
                              /\ disk'[call'[e].format].arr[v] = e
                              /\ disk'[call'[e].format].att[v] = e
      BY DEF ArraysInv
    <3>1. Last(e) /\ v \in Sound(e)
      BY <1>3, <1>5 DEF Last, Sound
    <3> QED
      BY <1>5, <3>1
  <2>1. call[e].format \in {"V2", "V3"} /\ v \in ArrayVars
    BY <1>1 DEF CallType, Sound
  <2> QED
    BY <1>6, <2>1 DEF CreateInv, ArraysInv
<1>8. EndInv'
  <2>1. \A e \in Calls : AllVariablesOk(e)' <=> AllVariablesOk(e)
    BY <1>5 DEF AllVariablesOk
  <2> QED
    BY <1>5, <2>1 DEF CreateInv, EndInv
<1>9. FilesInv'
  <2> SUFFICES ASSUME NoFileFailed, NEW e \in Calls, Last(e),
                      NEW g \in DatasetFiles(call[e].format, call[e].names) \ call'[e].todo
               PROVE  WrittenBy(e, g)'
    BY <1>3, <1>5 DEF FilesInv, Last, NoFileFailed
  <2>1. e = c
    BY FilesOfLastCall DEF Last
  <2>2. g \in FileNames \cup HeaderVars
    BY DEF DatasetFiles, FileNames
  <2>3. CASE g = file
    BY <2>1, <2>3, FileWritten
  <2>4. CASE g # file
    <3>1. WrittenBy(e, g)
      BY <1>5, <2>1, <2>4 DEF CreateInv, FilesInv
    <3> QED
      BY <2>1, <2>2, <3>1, FileWritten
  <2> QED
    BY <2>3, <2>4
<1>10. ForeignInv'
  BY <1>3, <1>5, FilesOfLastCall DEF ForeignInv
<1>11. NamesInv'
  BY <1>3, <1>5 DEF CreateInv, NamesInv
<1> QED
  BY <1>7, <1>8, <1>9, <1>10, <1>11 DEF CreateInv

LEMMA CreateDatasetCreates ==
    ASSUME IInv, CreateInv, NEW names \in Specs, NEW format \in Formats, NEW clean \in BOOLEAN,
           CreateDataset(names, format, clean)
    PROVE  CreateInv'
<1> DEFINE c == begun + 1
<1> DEFINE x == [v \in ArrayVars |-> IF v \in names THEN "open" ELSE "ok"]
<1> DEFINE t == DatasetFiles(format, names)
<1> DEFINE r == [NoCall EXCEPT !.state = "waiting", !.names = names, !.format = format,
                               !.clean = clean, !.var = x, !.todo = t]
<1>1. /\ call \in [Calls -> CallType] /\ begun \in Gens /\ names # {}
      /\ UNCHANGED disk
  BY SpecsAssumption DEF IInv, TypeOK, CreateDataset
<1>2. c \in Calls /\ begun' = c /\ begun \in Nat
  BY <1>1, BoundsAssumption DEF CreateDataset, Calls, Gens
<1>3. call' = [call EXCEPT ![c] = r]
  BY DEF CreateDataset
<1>4. /\ r.state = "waiting" /\ r.names = names /\ r.format = format /\ r.indexed = TRUE
      /\ r.var = x /\ r.todo = t /\ r.rootFailed = FALSE
  BY DEF NoCall
<1>5. \A v \in names \cap ArrayVars : x[v] = "open"
  OBVIOUS
<1> HIDE DEF r, x
<1>6. call'[c] = r /\ \A e \in Calls : e # c => call'[e] = call[e]
  BY <1>1, <1>2, <1>3
<1>7. ArraysInv'
  <2> HIDE DEF c
  <2> SUFFICES ASSUME NEW e \in Calls, Last(e)', NEW v \in Sound(e)'
               PROVE  call'[e].var[v] = "open"
    BY DEF ArraysInv
  <2>1. e = c
    BY <1>2 DEF Last
  <2>2. v \in names \cap ArrayVars
    BY <1>4, <1>6, <2>1 DEF Sound
  <2> QED
    BY <1>4, <1>5, <1>6, <2>1, <2>2
<1>8. EndInv'
  BY <1>4, <1>6 DEF CreateInv, EndInv, AllVariablesOk
<1>9. FilesInv'
  <2>1. \A file \in DatasetFiles(call'[c].format, call'[c].names) : file \in call'[c].todo
    BY <1>2, <1>4, <1>6
  <2> QED
    BY <1>2, <2>1 DEF FilesInv, Last
<1>10. ForeignInv'
  BY <1>2, <1>4, <1>6 DEF ForeignInv
<1>11. NamesInv'
  <2>1. \A e \in Calls : e <= c => e = c \/ e <= begun
    BY <1>2 DEF Calls
  <2> HIDE DEF c
  <2> QED
    BY <1>1, <1>2, <1>4, <1>6, <2>1 DEF CreateInv, NamesInv
<1> QED
  BY <1>7, <1>8, <1>9, <1>10, <1>11 DEF CreateInv

\* An opening leaves the store and the creations as they are.
LEMMA OpeningCreates ==
    ASSUME CreateInv, UNCHANGED <<disk, call, begun>>
    PROVE  CreateInv'
<1>1. \A c \in Calls : /\ Last(c)' <=> Last(c)
                       /\ Sound(c)' = Sound(c)
                       /\ AllVariablesOk(c)' <=> AllVariablesOk(c)
  BY DEF Last, Sound, AllVariablesOk
<1>2. ArraysInv' /\ EndInv'
  BY <1>1 DEF CreateInv, ArraysInv, EndInv
<1>3. FilesInv'
  BY <1>1 DEF CreateInv, FilesInv, NoFileFailed, WrittenBy
<1>4. ForeignInv' /\ NamesInv'
  BY DEF CreateInv, ForeignInv, NamesInv
<1> QED
  BY <1>2, <1>3, <1>4 DEF CreateInv

LEMMA InitCreates == Init => CreateInv
<1> SUFFICES ASSUME Init PROVE CreateInv
  OBVIOUS
<1>1. /\ NoCall.state = "none" /\ NoCall.indexed = TRUE /\ NoCall.todo = {}
      /\ NoCall.format = "V3" /\ NoCall.names = {}
      /\ \A v \in ArrayVars : NoCall.var[v] = "ok"
  BY DEF NoCall
<1>2. CASE begun = 0 /\ call = [c \in Calls |-> NoCall]
  <2>1. \A c \in Calls : c # begun /\ ~(c <= begun)
    BY <1>2, BoundsAssumption DEF Calls
  <2>2. EndInv
    BY <1>1, <1>2 DEF EndInv
  <2> QED
    BY <2>1, <2>2 DEF CreateInv, ArraysInv, FilesInv, ForeignInv, NamesInv, Last
<1>3. ASSUME NEW names \in Specs, MaxCalls > 0, names \subseteq ArrayVars,
             disk = ForeignDisk(names), begun = 1,
             call = [c \in Calls |-> IF c = 1 THEN Foreign(names) ELSE NoCall]
      PROVE  CreateInv
  <2> DEFINE node == [v \in Names |-> IF v \in names THEN 1 ELSE 0]
  <2>1. 1 \in Calls /\ names # {} /\ \A c \in Calls : c <= 1 => c = 1
    BY <1>3, BoundsAssumption, SpecsAssumption DEF Calls
  <2>2. /\ Foreign(names).state = "ok" /\ Foreign(names).todo = {}
        /\ Foreign(names).names = names /\ Foreign(names).indexed = FALSE
        /\ Foreign(names).format = "V3" /\ Foreign(names).var = NoCall.var
    BY DEF Foreign, NoCall
  <2>3. disk["V3"] = [marker |-> 1, index |-> 1, arr |-> node, att |-> node]
    BY <1>3 DEF ForeignDisk, EmptyDisk
  <2>4. call[1] = Foreign(names)
    BY <1>3, <2>1
  <2>5. \A c \in Calls : ~Last(c)
    BY <1>3, <2>2, <2>4 DEF Last
  <2>6. EndInv
    BY <1>1, <1>3, <2>2 DEF EndInv, AllVariablesOk
  <2>7. ForeignInv
    BY <1>3, <2>1, <2>2, <2>3, <2>4 DEF ForeignInv
  <2>8. NamesInv
    BY <1>3, <2>1, <2>2, <2>4 DEF NamesInv
  <2> QED
    BY <2>5, <2>6, <2>7, <2>8 DEF CreateInv, ArraysInv, FilesInv
<1> QED
  BY <1>2, <1>3 DEF Init

LEMMA NextCreates == IInv /\ CreateInv /\ [Next]_vars => CreateInv'
<1> SUFFICES ASSUME IInv, CreateInv, [Next]_vars PROVE CreateInv'
  OBVIOUS
<1>1. CASE UNCHANGED <<disk, call, begun>>
  BY <1>1, OpeningCreates
<1>2. ASSUME NEW c \in Calls, CreateStep(c) \/ \E v \in ArrayVars : VariableFails(c, v)
      PROVE  CreateInv'
  <2>1. ASSUME NEW v \in ArrayVars, ArrayStep(c, v) PROVE CreateInv'
    BY <2>1, ArrayStepKeeps
  <2> QED
    BY <1>2, <2>1, WriteDatasetFileCreates, StartCollectingCreates, CollectCreates
    DEF CreateStep, ArrayStep
<1>3. CASE ReadStep \/ OpenPath \/ ReadFails \/ UNCHANGED vars
  BY <1>1, <1>3 DEF ReadStep, OpenPath, ReadFails, vars, DetectV3, DetectV2, ReadZmetadata,
     ReadRoot, ChildrenRead, OpenDone, ReadChild, OpenArray, ReadAttributes
<1> QED
  BY <1>2, <1>3, CreateDatasetCreates, DatasetFileFailsCreates, DieCreates DEF Next

LEMMA CreationsInductive == Spec => [](IInv /\ CreateInv)
<1>1. Init => IInv /\ CreateInv
  BY InitCorrect, InitCreates
<1>2. IInv /\ CreateInv /\ [Next]_vars => (IInv /\ CreateInv)'
  BY NextCorrect, NextCreates
<1> QED
  BY <1>1, <1>2, PTL DEF Spec

\* A creation that reported success has every array on the store with its
\* metadata and attributes, except those whose document could not be read, and
\* unless a file of some creation failed its own files as well: for every set
\* of names and any number of creations, failures and deaths (dataset.h, the
\* continuation of all_done_future).
THEOREM CreateOkCorrect == Spec => []CreateOkIsWhole
<1>1. IInv /\ CreateInv => CreateOkIsWhole
  <2> SUFFICES ASSUME IInv, CreateInv, NEW c \in Calls,
                      c = begun, call[c].state = "ok", call[c].indexed
               PROVE  LET d == disk[call[c].format] IN
                      /\ \A v \in (call[c].names \cap ArrayVars) \ call[c].blind :
                            d.arr[v] = c /\ d.att[v] = c
                      /\ NoFileFailed => d.index = c /\ d.marker = c
    BY DEF CreateOkIsWhole, NoFileFailed
  <2>1. \A v \in ArrayVars : call[c].var[v] = "ok"
    BY DEF CreateInv, EndInv, AllVariablesOk
  <2>2. call[c].format \in {"V2", "V3"}
    BY DEF IInv, TypeOK, CallType
  <2>3. NoFileFailed => \A file \in DatasetFiles(call[c].format, call[c].names) : WrittenBy(c, file)
    BY DEF CreateInv, EndInv, FilesInv, Last, NoFileFailed
  <2>4. NoFileFailed => /\ disk[call[c].format].index = c
                        /\ disk[call[c].format].marker = c
    BY <2>2, <2>3 DEF WrittenBy, DatasetFiles
  <2> QED
    BY <2>1, <2>4 DEF CreateInv, ArraysInv, Last, Sound
<1> QED
  BY <1>1, CreationsInductive, PTL

-----------------------------------------------------------------------------
(* An opening that nothing disturbs *)

\* What such an opening finds on the store.
LEMMA SettledStore ==
    ASSUME IInv, CreateInv, Settled(begun)
    PROVE  LET f == call[begun].format
               names == call[begun].names
           IN  /\ begun \in Calls /\ begun # 0 /\ f \in {"V2", "V3"}
               /\ names # {} /\ names \subseteq Names
               /\ disk[f].marker = begun /\ disk[f].index = begun
               /\ f = "V2" => disk["V3"].marker = 0
               /\ \A v \in names \cap ArrayVars : disk[f].arr[v] = begun /\ disk[f].att[v] = begun
               /\ f = "V3" => \A v \in names \cap HeaderVars :
                                 disk["V3"].arr[v] = begun /\ disk["V3"].att[v] = begun
               /\ f = "V2" => call[begun].indexed
               /\ ~call[begun].indexed => Candidates = names
<1> DEFINE f == call[begun].format
<1> DEFINE names == call[begun].names
<1>1. begun \in Calls /\ begun # 0 /\ begun \in Nat
  BY BoundsAssumption DEF IInv, TypeOK, Settled, Calls, Gens
<1>2. f \in {"V2", "V3"} /\ names \subseteq Names /\ names # {}
  BY <1>1 DEF IInv, TypeOK, CallType, CreateInv, NamesInv
<1>3. /\ call[begun].state = "ok" /\ call[begun].blind = {} /\ call[begun].todo = {}
      /\ NoFileFailed /\ (f = "V2" => disk["V3"].marker = 0)
  BY <1>1 DEF Settled, NoFileFailed
<1>4. CASE call[begun].indexed
  <2>1. \A v \in ArrayVars : call[begun].var[v] = "ok"
    BY <1>1, <1>3 DEF CreateInv, EndInv, AllVariablesOk
  <2>2. \A v \in names \cap ArrayVars : disk[f].arr[v] = begun /\ disk[f].att[v] = begun
    BY <1>1, <1>3, <1>4, <2>1 DEF CreateInv, ArraysInv, Last, Sound
  <2>3. \A file \in DatasetFiles(f, names) : WrittenBy(begun, file)
    BY <1>1, <1>3, <1>4 DEF CreateInv, FilesInv, Last
  <2>4. disk[f].marker = begun /\ disk[f].index = begun
    BY <1>2, <2>3 DEF WrittenBy, DatasetFiles
  <2>5. f = "V3" => \A v \in names \cap HeaderVars :
                       disk["V3"].arr[v] = begun /\ disk["V3"].att[v] = begun
    <3> SUFFICES ASSUME f = "V3", NEW v \in names \cap HeaderVars
                 PROVE  disk["V3"].arr[v] = begun /\ disk["V3"].att[v] = begun
      OBVIOUS
    <3>1. v \in DatasetFiles(f, names) /\ v \notin FileNames
      BY FilesAssumption DEF DatasetFiles
    <3> QED
      BY <2>3, <3>1 DEF WrittenBy, FileNames
  <2> QED
    BY <1>1, <1>2, <1>3, <1>4, <2>2, <2>4, <2>5
<1>5. CASE ~call[begun].indexed
  <2>1. /\ f = "V3" /\ names \subseteq ArrayVars
        /\ disk["V3"].marker = begun /\ disk["V3"].index = begun
        /\ \A v \in Names : /\ disk["V3"].arr[v] = (IF v \in names THEN begun ELSE 0)
                            /\ disk["V3"].att[v] = (IF v \in names THEN begun ELSE 0)
    BY <1>1, <1>5 DEF CreateInv, ForeignInv
  <2>2. Candidates = names
    BY <1>1, <1>2, <2>1 DEF Candidates, Exists
  <2>3. \A v \in names \cap HeaderVars : FALSE
    BY <2>1, NamesAssumption
  <2> QED
    BY <1>1, <1>2, <2>1, <2>2, <2>3
<1> QED
  BY <1>4, <1>5

\* An opening that settles for another state of the same reads.
LEMMA StateUpdate ==
    ASSUME NEW r \in ReaderType, NEW s \in ReaderStates, NEW q, q = [r EXCEPT !.state = s]
    PROVE  /\ q \in ReaderType /\ q.state = s /\ q.expect = r.expect /\ q.format = r.format
           /\ q.found = r.found /\ q.children = r.children /\ q.reads = r.reads
           /\ q.missing = r.missing /\ q.bad = r.bad /\ q.arr = r.arr /\ q.att = r.att
BY DEF ReaderType

LEMMA DetectV3Expects ==
    ASSUME IInv, CreateInv, Settled(begun), OnItsWay(begun), DetectV3
    PROVE  OnItsWay(begun)' /\ reader'.expect = reader.expect
<1> DEFINE s == IF disk["V3"].marker # 0 THEN "root" ELSE "detect2"
<1>1. /\ reader' = [reader EXCEPT !.state = s] /\ reader.state = "detect3"
      /\ UNCHANGED <<disk, call, begun>>
  BY DEF DetectV3
<1>2. /\ reader \in ReaderType /\ s \in ReaderStates /\ s \in {"root", "detect2"}
      /\ s = "root" => disk["V3"].marker # 0
      /\ s = "detect2" => disk["V3"].marker = 0
  BY DEF IInv, TypeOK, ReaderStates, ReaderBusy
<1> HIDE DEF s
<1>3. /\ reader'.state = s /\ reader'.expect = reader.expect /\ reader'.format = reader.format
      /\ reader'.missing = reader.missing /\ reader'.bad = reader.bad
  BY <1>1, <1>2, StateUpdate
<1>4. /\ s = "root" => call[begun].format = "V3"
      /\ s = "detect2" => call[begun].format = "V2"
  BY <1>2, SettledStore
<1> QED
  BY <1>1, <1>2, <1>3, <1>4 DEF OnItsWay

LEMMA DetectV2Expects ==
    ASSUME IInv, CreateInv, Settled(begun), OnItsWay(begun), DetectV2
    PROVE  OnItsWay(begun)' /\ reader'.expect = reader.expect
<1>1. reader.state = "detect2" /\ call[begun].format = "V2" /\ UNCHANGED <<disk, call, begun>>
  BY DEF DetectV2, OnItsWay
<1>2. disk["V2"].marker # 0
  BY <1>1, SettledStore
<1>3. reader' = [reader EXCEPT !.state = "root", !.format = "V2"] /\ reader \in ReaderType
  BY <1>2 DEF DetectV2, IInv, TypeOK
<1>4. /\ reader'.state = "root" /\ reader'.expect = reader.expect /\ reader'.format = "V2"
      /\ reader'.missing = reader.missing /\ reader'.bad = reader.bad
  BY <1>3 DEF ReaderType
<1> QED
  BY <1>1, <1>4 DEF OnItsWay

LEMMA ReadZmetadataExpects ==
    ASSUME IInv, CreateInv, Settled(begun), OnItsWay(begun), ReadZmetadata
    PROVE  OnItsWay(begun)' /\ reader'.expect = reader.expect
<1> DEFINE names == call[begun].names
<1> DEFINE whole == [v \in Names |-> IF v \in names \cap HeaderVars THEN begun ELSE 0]
<1> DEFINE reads == VariableReads(names)
<1>1. /\ reader.state = "root" /\ call[begun].format = "V2" /\ reader.format = "V2"
      /\ UNCHANGED <<disk, call, begun>>
  BY DEF ReadZmetadata, OnItsWay
<1>2. disk["V2"].index = begun /\ begun # 0 /\ names \subseteq Names
  BY <1>1, SettledStore
<1>3. reader' = [reader EXCEPT !.state = "variables", !.root = begun, !.found = names,
                               !.reads = reads, !.arr = whole, !.att = whole]
  BY <1>2 DEF ReadZmetadata
<1>4. \A v \in names \cap HeaderVars : whole[v] = begun
  BY <1>2
<1>5. reader \in ReaderType
  BY DEF IInv, TypeOK
<1> HIDE DEF names, whole, reads
<1> DEFINE q == [reader EXCEPT !.state = "variables", !.root = begun, !.found = names]
<1>6. reader' = [q EXCEPT !.reads = reads, !.arr = whole, !.att = whole]
  BY <1>3
<1>7. /\ begun \in Gens /\ names \in SUBSET Names /\ whole \in [Names -> Gens]
      /\ reads \in SUBSET (ArrayVars \X {"arr", "att"})
  BY <1>2, BoundsAssumption DEF IInv, TypeOK, Gens, VariableReads, reads, whole
<1>8. /\ q \in ReaderType /\ q.state = "variables" /\ q.found = names
      /\ q.expect = reader.expect /\ q.format = reader.format
      /\ q.missing = reader.missing /\ q.bad = reader.bad
  BY <1>5, <1>7 DEF ReaderType, ReaderStates, ReaderBusy
<1> HIDE DEF q
<1>9. /\ reader'.state = "variables" /\ reader'.found = names /\ reader'.reads = reads
      /\ reader'.arr = whole /\ reader'.att = whole
      /\ reader'.expect = reader.expect /\ reader'.format = reader.format
      /\ reader'.missing = reader.missing /\ reader'.bad = reader.bad
  BY <1>6, <1>7, <1>8 DEF ReaderType
<1>10. \A v \in names \cap ArrayVars : <<v, "arr">> \in reads /\ <<v, "att">> \in reads
  BY DEF reads, VariableReads
<1> QED
  BY <1>1, <1>4, <1>9, <1>10 DEF OnItsWay, GotFrom, names, reads

LEMMA ReadRootExpects ==
    ASSUME IInv, CreateInv, Settled(begun), OnItsWay(begun), ReadRoot
    PROVE  OnItsWay(begun)' /\ reader'.expect = reader.expect
<1> DEFINE names == call[begun].names
<1> DEFINE indexed == call[begun].indexed
<1>1. /\ reader.state = "root" /\ call[begun].format = "V3" /\ reader.format = "V3"
      /\ UNCHANGED <<disk, call, begun>>
  BY DEF ReadRoot, OnItsWay
<1>2. /\ begun \in Calls /\ disk["V3"].index = begun /\ names # {} /\ names \subseteq Names
      /\ ~indexed => Candidates = names
  BY <1>1, SettledStore
<1>3. reader' = [reader EXCEPT !.state = "children", !.root = begun,
                               !.indexed = indexed, !.children = names]
  BY <1>2 DEF ReadRoot
<1>4. reader \in ReaderType /\ indexed \in BOOLEAN /\ begun \in Gens /\ reader.found = {}
  BY <1>1, <1>2 DEF IInv, TypeOK, CallType, ReaderInv
<1> HIDE DEF names, indexed
<1> DEFINE q == [reader EXCEPT !.state = "children", !.root = begun]
<1>5. reader' = [q EXCEPT !.indexed = indexed, !.children = names]
  BY <1>3
<1>6. /\ q \in ReaderType /\ q.state = "children" /\ q.found = {}
      /\ q.expect = reader.expect /\ q.format = reader.format
      /\ q.missing = reader.missing /\ q.bad = reader.bad
  BY <1>4 DEF ReaderType, ReaderStates, ReaderBusy
<1> HIDE DEF q
<1>7. /\ reader'.state = "children" /\ reader'.found = {} /\ reader'.children = names
      /\ reader'.expect = reader.expect /\ reader'.format = reader.format
      /\ reader'.missing = reader.missing /\ reader'.bad = reader.bad
  BY <1>2, <1>4, <1>5, <1>6 DEF ReaderType
<1> QED
  BY <1>1, <1>7 DEF OnItsWay, names

LEMMA ReadChildExpects ==
    ASSUME IInv, CreateInv, Settled(begun), OnItsWay(begun), NEW v \in Names, ReadChild(v)
    PROVE  OnItsWay(begun)' /\ reader'.expect = reader.expect
<1> DEFINE x == IF v \in HeaderVars THEN disk["V3"].arr[v] ELSE 0
<1> DEFINE y == IF v \in HeaderVars THEN disk["V3"].att[v] ELSE 0
<1> DEFINE arr == [reader.arr EXCEPT ![v] = x]
<1> DEFINE att == [reader.att EXCEPT ![v] = y]
<1>1. /\ reader.state = "children" /\ v \in reader.children /\ UNCHANGED <<disk, call, begun>>
      /\ call[begun].format = "V3" /\ reader.format = "V3"
      /\ reader.found \cup reader.children = call[begun].names
  BY DEF ReadChild, OnItsWay
<1>2. disk["V3"].arr[v] = begun /\ begun # 0 /\ (v \in HeaderVars => x = begun /\ y = begun)
  <2>1. v \in call[begun].names \cap ArrayVars \/ v \in call[begun].names \cap HeaderVars
    BY <1>1 DEF Names
  <2> QED
    BY <1>1, <2>1, SettledStore
<1>3. reader \in ReaderType /\ x \in Gens /\ y \in Gens
  BY BoundsAssumption DEF IInv, TypeOK, DiskType, Gens
<1>4. /\ arr \in [Names -> Gens] /\ att \in [Names -> Gens]
      /\ v \in HeaderVars => arr[v] = begun /\ att[v] = begun
      /\ \A w \in Names : w # v => arr[w] = reader.arr[w] /\ att[w] = reader.att[w]
  BY <1>2, <1>3 DEF ReaderType
<1> DEFINE q == [reader EXCEPT !.children = @ \ {v}, !.found = @ \cup {v}, !.bad = @ \/ ChildBad(TRUE)]
<1>5. reader' = [q EXCEPT !.arr = arr, !.att = att]
  BY <1>2, <1>3 DEF ReadChild, ChildRead, ReaderType
<1> HIDE DEF arr, att
<1>6. /\ q \in ReaderType /\ q.state = "children" /\ q.expect = reader.expect
      /\ q.format = reader.format /\ q.missing = reader.missing
      /\ q.found = reader.found \cup {v} /\ q.children = reader.children \ {v}
      /\ q.bad = reader.bad
  BY <1>1, <1>3 DEF ReaderType, ChildBad
<1> HIDE DEF q
<1>7. /\ reader'.state = "children" /\ reader'.expect = reader.expect
      /\ reader'.format = reader.format /\ reader'.missing = reader.missing
      /\ reader'.found = reader.found \cup {v} /\ reader'.children = reader.children \ {v}
      /\ reader'.bad = reader.bad /\ reader'.arr = arr /\ reader'.att = att
  BY <1>4, <1>5, <1>6 DEF ReaderType
<1>8. \A w \in reader'.found \cap HeaderVars : reader'.arr[w] = begun /\ reader'.att[w] = begun
  BY <1>1, <1>4, <1>7 DEF OnItsWay, Names
<1> QED
  BY <1>1, <1>7, <1>8 DEF OnItsWay

LEMMA ChildrenReadExpects ==
    ASSUME IInv, CreateInv, Settled(begun), OnItsWay(begun), ChildrenRead
    PROVE  OnItsWay(begun)' /\ reader'.expect = reader.expect
<1> DEFINE reads == VariableReads(reader.found)
<1>1. /\ reader.state = "children" /\ UNCHANGED <<disk, call, begun>>
      /\ reader.format = call[begun].format /\ reader.found = call[begun].names
      /\ ~reader.bad /\ reader.found # {}
  BY SettledStore DEF ChildrenRead, OnItsWay
<1>2. reader' = [reader EXCEPT !.state = "variables", !.reads = reads] /\ reader \in ReaderType
  BY <1>1 DEF ChildrenRead, IInv, TypeOK
<1> HIDE DEF reads
<1>3. /\ reader'.state = "variables" /\ reader'.reads = reads /\ reader'.expect = reader.expect
      /\ reader'.format = reader.format /\ reader'.missing = reader.missing
      /\ reader'.found = reader.found /\ reader'.bad = reader.bad
      /\ reader'.arr = reader.arr /\ reader'.att = reader.att
  BY <1>2 DEF ReaderType
<1>4. \A v \in reader.found \cap ArrayVars : <<v, "arr">> \in reads /\ <<v, "att">> \in reads
  BY DEF reads, VariableReads
<1> QED
  BY <1>1, <1>3, <1>4 DEF OnItsWay, GotFrom, reads

\* A variable still to be read is one of the creation, and on the store.
LEMMA ReadOfCreation ==
    ASSUME IInv, CreateInv, Settled(begun), OnItsWay(begun), reader.state = "variables",
           NEW v \in Names, NEW part, <<v, part>> \in reader.reads
    PROVE  /\ reader.format \in {"V2", "V3"} /\ v \in ArrayVars /\ begun # 0
           /\ disk[reader.format].arr[v] = begun /\ disk[reader.format].att[v] = begun
<1>1. v \in call[begun].names \cap ArrayVars /\ reader.format = call[begun].format
  BY DEF OnItsWay, VariableReads
<1> QED
  BY <1>1, SettledStore

LEMMA OpenArrayExpects ==
    ASSUME IInv, CreateInv, Settled(begun), OnItsWay(begun), NEW v \in Names, OpenArray(v)
    PROVE  OnItsWay(begun)' /\ reader'.expect = reader.expect
<1> DEFINE reads == reader.reads \ {<<v, "arr">>}
<1> DEFINE arr == [reader.arr EXCEPT ![v] = begun]
<1>1. /\ reader.state = "variables" /\ <<v, "arr">> \in reader.reads
      /\ UNCHANGED <<disk, call, begun>>
  BY DEF OpenArray
<1>2. /\ reader.format \in {"V2", "V3"} /\ v \in ArrayVars /\ begun # 0
      /\ disk[reader.format].arr[v] = begun /\ ~reader.bad /\ v \notin HeaderVars
  BY <1>1, ReadOfCreation, NamesAssumption DEF OnItsWay
<1>3. reader \in ReaderType /\ begun \in Gens
  BY DEF IInv, TypeOK
<1>4. reader' = [reader EXCEPT !.reads = reads, !.arr = arr, !.bad = FALSE]
  BY <1>2, <1>3 DEF OpenArray, ReaderType
<1>5. /\ reads \in SUBSET (ArrayVars \X {"arr", "att"}) /\ arr \in [Names -> Gens]
      /\ arr[v] = begun /\ \A w \in Names : w # v => arr[w] = reader.arr[w]
  BY <1>3 DEF ReaderType
<1>6. \A w \in Names : /\ <<w, "att">> \in reads <=> <<w, "att">> \in reader.reads
                       /\ w # v => (<<w, "arr">> \in reads <=> <<w, "arr">> \in reader.reads)
  OBVIOUS
<1>7. reads \subseteq reader.reads
  OBVIOUS
<1> HIDE DEF reads, arr
<1>8. /\ reader'.state = "variables" /\ reader'.reads = reads /\ reader'.arr = arr
      /\ reader'.bad = FALSE /\ reader'.expect = reader.expect /\ reader'.format = reader.format
      /\ reader'.missing = reader.missing /\ reader'.found = reader.found
      /\ reader'.att = reader.att
  BY <1>1, <1>3, <1>4, <1>5 DEF ReaderType
<1>9. \A w \in reader.found \cap ArrayVars : GotFrom(begun, w)'
  BY <1>1, <1>5, <1>6, <1>8 DEF OnItsWay, GotFrom, Names
<1>10. \A w \in reader.found \cap HeaderVars : reader'.arr[w] = begun /\ reader'.att[w] = begun
  BY <1>1, <1>2, <1>5, <1>8 DEF OnItsWay, Names
<1> QED
  BY <1>1, <1>7, <1>8, <1>9, <1>10 DEF OnItsWay

LEMMA ReadAttributesExpects ==
    ASSUME IInv, CreateInv, Settled(begun), OnItsWay(begun), NEW v \in Names, ReadAttributes(v)
    PROVE  OnItsWay(begun)' /\ reader'.expect = reader.expect
<1> DEFINE reads == reader.reads \ {<<v, "att">>}
<1> DEFINE att == [reader.att EXCEPT ![v] = begun]
<1>1. /\ reader.state = "variables" /\ <<v, "att">> \in reader.reads
      /\ UNCHANGED <<disk, call, begun>>
  BY DEF ReadAttributes
<1>2. /\ reader.format \in {"V2", "V3"} /\ v \in ArrayVars /\ begun # 0
      /\ disk[reader.format].att[v] = begun /\ ~reader.bad /\ v \notin HeaderVars
  BY <1>1, ReadOfCreation, NamesAssumption DEF OnItsWay
<1>3. reader \in ReaderType /\ begun \in Gens
  BY DEF IInv, TypeOK
<1>4. reader' = [reader EXCEPT !.reads = reads, !.att = att, !.bad = FALSE]
  BY <1>2, <1>3 DEF ReadAttributes, ReaderType
<1>5. /\ reads \in SUBSET (ArrayVars \X {"arr", "att"}) /\ att \in [Names -> Gens]
      /\ att[v] = begun /\ \A w \in Names : w # v => att[w] = reader.att[w]
  BY <1>3 DEF ReaderType
<1>6. \A w \in Names : /\ <<w, "arr">> \in reads <=> <<w, "arr">> \in reader.reads
                       /\ w # v => (<<w, "att">> \in reads <=> <<w, "att">> \in reader.reads)
  OBVIOUS
<1>7. reads \subseteq reader.reads
  OBVIOUS
<1> HIDE DEF reads, att
<1>8. /\ reader'.state = "variables" /\ reader'.reads = reads /\ reader'.att = att
      /\ reader'.bad = FALSE /\ reader'.expect = reader.expect /\ reader'.format = reader.format
      /\ reader'.missing = reader.missing /\ reader'.found = reader.found
      /\ reader'.arr = reader.arr
  BY <1>1, <1>3, <1>4, <1>5 DEF ReaderType
<1>9. \A w \in reader.found \cap ArrayVars : GotFrom(begun, w)'
  BY <1>1, <1>5, <1>6, <1>8 DEF OnItsWay, GotFrom, Names
<1>10. \A w \in reader.found \cap HeaderVars : reader'.arr[w] = begun /\ reader'.att[w] = begun
  BY <1>1, <1>2, <1>5, <1>8 DEF OnItsWay, Names
<1> QED
  BY <1>1, <1>7, <1>8, <1>9, <1>10 DEF OnItsWay

LEMMA OpenDoneExpects ==
    ASSUME IInv, Settled(begun), OnItsWay(begun), OpenDone
    PROVE  OnItsWay(begun)' /\ reader'.expect = reader.expect
<1>1. /\ reader.state = "variables" /\ reader.reads = {} /\ UNCHANGED <<disk, call, begun>>
      /\ reader.missing = {} /\ ~reader.bad
  BY DEF OpenDone, OnItsWay
<1>2. reader' = [reader EXCEPT !.state = "ok"] /\ reader \in ReaderType /\ "ok" \in ReaderStates
  BY <1>1 DEF OpenDone, IInv, TypeOK, ReaderStates
<1>3. /\ reader'.state = "ok" /\ reader'.expect = reader.expect /\ reader'.format = reader.format
      /\ reader'.found = reader.found /\ reader'.reads = reader.reads
      /\ reader'.missing = reader.missing /\ reader'.bad = reader.bad
      /\ reader'.arr = reader.arr /\ reader'.att = reader.att
  BY <1>2, StateUpdate
<1> QED
  BY <1>1, <1>3 DEF OnItsWay, GotFrom

\* After a settled creation only another creation can change the store.
LEMMA NothingRuns ==
    ASSUME IInv, Settled(begun), NEW c \in Calls
    PROVE  /\ ~CreateStep(c)
           /\ ~\E v \in ArrayVars : VariableFails(c, v)
           /\ ~\E file \in call[c].todo : DatasetFileFails(c, file)
           /\ ~Die(c)
<1>1. ~Running(c) /\ call[c].todo = {}
  BY DEF IInv, CallInv, Settled, Running
<1>2. \A v \in ArrayVars : call[c].var[v] \in {"ok", "error"}
  BY <1>1 DEF IInv, CallInv, VariablesDone
<1> QED
  BY <1>1, <1>2 DEF CreateStep, DeleteArray, CreateArray, MayCreate, CreateRefused, WriteZattrs,
     ReadForAttributes, WriteWithAttributes, StartCollecting, Collect, Running, VariableFails,
     Die

LEMMA OpenPathExpects ==
    ASSUME IInv, OpenPath
    PROVE  ExpectInv'
<1> DEFINE g == IF Settled(begun) THEN begun ELSE 0
<1>1. /\ reader' = [NoReader EXCEPT !.state = "detect3", !.expect = g]
      /\ UNCHANGED <<disk, call, begun>>
  BY DEF OpenPath
<1>2. g # 0 => g = begun /\ Settled(begun)
  OBVIOUS
<1> HIDE DEF g
<1>3. /\ reader'.state = "detect3" /\ reader'.expect = g /\ reader'.format = "V3"
      /\ reader'.missing = {} /\ reader'.bad = FALSE
  BY <1>1 DEF NoReader
<1>4. Settled(begun)' <=> Settled(begun)
  BY <1>1 DEF Settled
<1> QED
  BY <1>1, <1>2, <1>3, <1>4 DEF ExpectInv, OnItsWay

LEMMA NextExpects == IInv /\ CreateInv /\ ExpectInv /\ [Next]_vars => ExpectInv'
<1> SUFFICES ASSUME IInv, CreateInv, ExpectInv, [Next]_vars PROVE ExpectInv'
  OBVIOUS
<1>1. CASE UNCHANGED vars
  BY <1>1 DEF vars, ExpectInv, OnItsWay, Settled, GotFrom
<1>2. ASSUME reader'.expect = 0 PROVE ExpectInv'
  BY <1>2 DEF ExpectInv
<1>3. reader \in ReaderType
  BY DEF IInv, TypeOK
<1>4. ASSUME NEW names \in Specs, NEW format \in Formats, NEW clean \in BOOLEAN,
             CreateDataset(names, format, clean)
      PROVE  ExpectInv'
  BY <1>2, <1>3, <1>4 DEF CreateDataset, ReaderType
<1>5. CASE ReadFails
  BY <1>2, <1>3, <1>5 DEF ReadFails, ReaderType, ChildRead
<1>6. ASSUME NEW c \in Calls,
             \/ CreateStep(c)
             \/ \E v \in ArrayVars : VariableFails(c, v)
             \/ \E file \in call[c].todo : DatasetFileFails(c, file)
             \/ Die(c)
      PROVE  ExpectInv'
  <2>1. reader.expect = 0
    BY <1>6, NothingRuns DEF ExpectInv
  <2>2. reader' = reader
    BY <1>6 DEF CreateStep, DeleteArray, CreateArray, CreateRefused, WriteZattrs,
       ReadForAttributes, WriteWithAttributes, WriteDatasetFile, StartCollecting, Collect,
       VariableFails, DatasetFileFails, Die
  <2> QED
    BY <1>2, <2>1, <2>2
<1>7. CASE ReadStep
  <2>1. UNCHANGED <<disk, call, begun>> /\ (Settled(begun)' <=> Settled(begun))
    BY <1>7 DEF ReadStep, DetectV3, DetectV2, ReadZmetadata, ReadRoot, ChildrenRead, OpenDone,
       ReadChild, OpenArray, ReadAttributes, Settled
  <2>2. CASE reader.expect = 0
    <3>1. reader'.expect = reader.expect
      BY <1>3, <1>7 DEF ReadStep, DetectV3, DetectV2, ReadZmetadata, ReadRoot, ChildrenRead,
         OpenDone, ReadChild, ChildRead, OpenArray, ReadAttributes, ReaderType
    <3> QED
      BY <1>2, <2>2, <3>1
  <2>3. CASE reader.expect # 0
    <3>1. reader.expect = begun /\ Settled(begun) /\ OnItsWay(begun)
      BY <2>3 DEF ExpectInv
    <3>2. OnItsWay(begun)' /\ reader'.expect = reader.expect
      BY <1>7, <3>1, DetectV3Expects, DetectV2Expects, ReadZmetadataExpects, ReadRootExpects,
         ChildrenReadExpects, OpenDoneExpects, ReadChildExpects, OpenArrayExpects,
         ReadAttributesExpects DEF ReadStep
    <3> QED
      BY <2>1, <3>1, <3>2 DEF ExpectInv
  <2> QED
    BY <2>2, <2>3
<1> QED
  BY <1>1, <1>4, <1>5, <1>6, <1>7, OpenPathExpects DEF Next

LEMMA ExpectedInductive == Spec => [](IInv /\ CreateInv /\ ExpectInv)
<1>1. Init => IInv /\ CreateInv /\ ExpectInv
  <2>1. Init => ExpectInv
    BY DEF Init, NoReader, ExpectInv
  <2> QED
    BY <2>1, InitCorrect, InitCreates
<1>2. IInv /\ CreateInv /\ ExpectInv /\ [Next]_vars => (IInv /\ CreateInv /\ ExpectInv)'
  BY NextCorrect, NextCreates, NextExpects
<1> QED
  BY <1>1, <1>2, PTL DEF Spec

\* Once the last creation has reported success and all files are written, an
\* opening that no failure and no later creation disturbs neither fails nor
\* throws, and what it returns is that dataset, each variable as that creation
\* wrote it, in both formats and with or without the variable index
\* (dataset.h, Dataset::Open; zarr/zarr_v2.h and zarr/zarr_v3.h).
THEOREM CreatedOpenedCorrect == Spec => []CreatedIsOpened
<1>1. IInv /\ CreateInv /\ ExpectInv => CreatedIsOpened
  <2> SUFFICES ASSUME IInv, CreateInv, ExpectInv, reader.expect # 0
               PROVE  /\ reader.state \notin {"error", "throws"}
                      /\ reader.state = "ok" =>
                            /\ reader.found = call[reader.expect].names
                            /\ \A v \in reader.found : /\ reader.arr[v] = reader.expect
                                                       /\ reader.att[v] = reader.expect
    BY DEF CreatedIsOpened
  <2>1. reader.expect = begun /\ OnItsWay(begun)
    BY DEF ExpectInv
  <2>2. reader.state = "ok" =>
           \A v \in reader.found \cap ArrayVars : reader.arr[v] = begun /\ reader.att[v] = begun
    BY <2>1 DEF OnItsWay, GotFrom
  <2>3. reader.found \subseteq ArrayVars \cup HeaderVars
    BY DEF IInv, TypeOK, ReaderType, Names
  <2> QED
    BY <2>1, <2>2, <2>3 DEF OnItsWay
<1> QED
  BY <1>1, ExpectedInductive, PTL
=============================================================================
