---------------------------- MODULE SharedProofs ----------------------------
(***************************************************************************)
(* Theorems about SharedState and NodeRegistry, for every set of calls,    *)
(* nodes, endpoints and call records and every window, and about the       *)
(* encodings of MsgPack that SharedWire reads them through.                *)
(***************************************************************************)
EXTENDS SharedWire, SequenceTheorems, FiniteSetTheorems, WellFoundedInduction, TLAPS

\* What RTPEngine's save_call leaves under a Call-ID.
NodeTuple(n) == [node |-> n, payload |-> "map", live |-> TRUE]

\* A session that is expected is in the space under its Call-ID, as RTPEngine
\* or OpenSIPS wrote it last.
Found ==
    \A c \in Calls : owner[c] # None =>
        /\ c \in DOMAIN rtpe_calls
        /\ rtpe_calls[c] = IF c \in taken THEN OsTuple ELSE NodeTuple(owner[c])

Inv == TypeOK /\ Found
-----------------------------------------------------------------------------
(***************************************************************************)
(* Arguments on the way                                                    *)
(***************************************************************************)

\* pack_call_upsert: the procedure gets Call-ID and node as they were sent.
LEMMA RtpeArrives ==
    ASSUME NEW c \in Calls, NEW n \in Nodes
    PROVE  /\ Arg(RtpeArgs(c, n), 1) = c
           /\ SessionOf(RtpeArgs(c, n)) = NodeTuple(n)
<1> DEFINE a == RtpeArgs(c, n)
<1>1. Len(a) = 3 /\ a[1] = c /\ a[2] = n /\ a[3] = "map"
  BY DEF RtpeArgs
<1> HIDE DEF a
<1>2. Arg(a, 1) = c /\ Arg(a, 2) = n /\ n # None
  BY <1>1, SharedAssumption DEF Arg
<1>3. /\ (IF Arg(a, 2) = None THEN DefaultNode ELSE Arg(a, 2)) = n
      /\ (IF Len(a) < 3 THEN "none" ELSE a[3]) = "map"
  BY <1>1, <1>2
<1>4. SessionOf(a) = NodeTuple(n)
  BY <1>3, Zenon DEF SessionOf, NodeTuple
<1> QED
  BY <1>2, <1>4 DEF a

\* One argument that is a text: the others are nil.
LEMMA TextArrives ==
    ASSUME NEW s
    PROVE  /\ Arg(<<s>>, 1) = s /\ Arg(<<s>>, 2) = None /\ Arg(<<s>>, 3) = None
           /\ SessionOf(<<s>>) = [node |-> DefaultNode, payload |-> "none", live |-> TRUE]
<1>1. Len(<<s>>) = 1 /\ <<s>>[1] = s
  OBVIOUS
<1>2. Arg(<<s>>, 1) = s /\ Arg(<<s>>, 2) = None /\ Arg(<<s>>, 3) = None
  BY <1>1 DEF Arg
<1> QED
  BY <1>1, <1>2 DEF SessionOf

\* tnt_exec_call sends a text that does not begin with '['.
LEMMA StringArrives ==
    ASSUME NEW s, s \notin Bracketed
    PROVE  KamString(s) = <<s>>
BY DEF KamString

\* tnt_exec_call leaves an array out.
LEMMA ArrayLost == \A args : Arg(KamArray(args), 1) = None
BY DEF KamArray, Arg
-----------------------------------------------------------------------------
(***************************************************************************)
(* The shared spaces                                                       *)
(***************************************************************************)

\* A replace of the tuple of c.
LEMMA PutSession ==
    ASSUME TypeOK, NEW k \in Keys, NEW t \in Sessions, rtpe_calls' = Put(rtpe_calls, k, t)
    PROVE  /\ IsSpace(rtpe_calls', Keys, Sessions)
           /\ DOMAIN rtpe_calls' = DOMAIN rtpe_calls \cup {k}
           /\ rtpe_calls'[k] = t
           /\ \A j \in DOMAIN rtpe_calls \ {k} : rtpe_calls'[j] = rtpe_calls[j]
<1>1. IsSpace(rtpe_calls, Keys, Sessions)
  BY DEF TypeOK
<1>2. /\ IsSpace(Put(rtpe_calls, k, t), Keys, Sessions)
      /\ DOMAIN Put(rtpe_calls, k, t) = DOMAIN rtpe_calls \cup {k}
      /\ Put(rtpe_calls, k, t)[k] = t
      /\ \A j \in DOMAIN rtpe_calls \ {k} : Put(rtpe_calls, k, t)[j] = rtpe_calls[j]
  BY <1>1 DEF IsSpace, Put
<1> QED
  BY <1>2

\* A delete of the tuple of k.
LEMMA DropSession ==
    ASSUME TypeOK, NEW k, rtpe_calls' = Drop(rtpe_calls, k)
    PROVE  /\ IsSpace(rtpe_calls', Keys, Sessions)
           /\ DOMAIN rtpe_calls' = DOMAIN rtpe_calls \ {k}
           /\ \A j \in DOMAIN rtpe_calls \ {k} : rtpe_calls'[j] = rtpe_calls[j]
<1>1. IsSpace(rtpe_calls, Keys, Sessions)
  BY DEF TypeOK
<1>2. /\ IsSpace(Drop(rtpe_calls, k), Keys, Sessions)
      /\ DOMAIN Drop(rtpe_calls, k) = DOMAIN rtpe_calls \ {k}
      /\ \A j \in DOMAIN rtpe_calls \ {k} : Drop(rtpe_calls, k)[j] = rtpe_calls[j]
  BY <1>1 DEF IsSpace, Drop
<1> QED
  BY <1>2

\* RTPEngine saves.
LEMMA RtpeSaveKeeps ==
    ASSUME Inv, NEW n \in Nodes, NEW c \in Calls, RtpeSave(n, c) PROVE Inv'
<1> DEFINE t == NodeTuple(n)
<1>1. c \in Keys /\ t \in Sessions
  BY DEF Keys, Sessions, NodeTuple
<1>2. rtpe_calls' = Put(rtpe_calls, c, t)
  BY RtpeArrives DEF RtpeSave
<1> HIDE DEF t
<1>3. /\ IsSpace(rtpe_calls', Keys, Sessions)
      /\ DOMAIN rtpe_calls' = DOMAIN rtpe_calls \cup {c}
      /\ rtpe_calls'[c] = t
      /\ \A j \in DOMAIN rtpe_calls \ {c} : rtpe_calls'[j] = rtpe_calls[j]
  BY <1>1, <1>2, PutSession DEF Inv
<1>4. /\ owner' = [owner EXCEPT ![c] = n] /\ taken' = taken \ {c}
      /\ UNCHANGED ps_endpoints
  BY DEF RtpeSave
<1>5. /\ owner' \in [Calls -> Nodes \cup {None}] /\ owner'[c] = n
      /\ \A d \in Calls \ {c} : owner'[d] = owner[d]
  BY <1>4 DEF Inv, TypeOK
<1>6. TypeOK'
  BY <1>3, <1>4, <1>5 DEF Inv, TypeOK
<1>7. Found'
  <2>1. ASSUME NEW d \in Calls, owner'[d] # None
        PROVE  /\ d \in DOMAIN rtpe_calls'
               /\ rtpe_calls'[d] = IF d \in taken' THEN OsTuple ELSE NodeTuple(owner'[d])
    <3>1. CASE d = c
      BY <1>3, <1>4, <1>5, <3>1 DEF t
    <3>2. CASE d # c
      BY <1>3, <1>4, <1>5, <2>1, <3>2 DEF Inv, Found
    <3> QED
      BY <3>1, <3>2
  <2> QED
    BY <2>1, Zenon DEF Found, OsTuple, NodeTuple
<1> QED
  BY <1>6, <1>7 DEF Inv

\* A session that is given up: the others are where they were.
LEMMA GivenUp ==
    ASSUME Inv, NEW c \in Calls, GiveUp(c), UNCHANGED ps_endpoints,
           IsSpace(rtpe_calls', Keys, Sessions),
           \A j \in DOMAIN rtpe_calls \ {c} :
               j \in DOMAIN rtpe_calls' /\ rtpe_calls'[j] = rtpe_calls[j]
    PROVE  Inv'
<1>1. owner' = [owner EXCEPT ![c] = None] /\ taken' = taken \ {c}
  BY DEF GiveUp
<1>2. /\ owner' \in [Calls -> Nodes \cup {None}] /\ owner'[c] = None
      /\ \A d \in Calls \ {c} : owner'[d] = owner[d]
  BY <1>1 DEF Inv, TypeOK
<1>3. TypeOK'
  BY <1>1, <1>2 DEF Inv, TypeOK
<1>4. ASSUME NEW d \in Calls, owner'[d] # None
      PROVE  /\ d \in DOMAIN rtpe_calls'
             /\ rtpe_calls'[d] = IF d \in taken' THEN OsTuple ELSE NodeTuple(owner'[d])
  BY <1>1, <1>2, <1>4 DEF Inv, Found
<1>5. Found'
  BY <1>4, Zenon DEF Found, OsTuple, NodeTuple
<1> QED
  BY <1>3, <1>5 DEF Inv

\* RTPEngine or OpenSIPS deletes.
LEMMA DeleteKeeps ==
    ASSUME Inv, NEW c \in Calls, RtpeDelete(c) \/ OsRemove(c) PROVE Inv'
<1>1. rtpe_calls' = Drop(rtpe_calls, c) /\ GiveUp(c) /\ UNCHANGED ps_endpoints
  BY DEF RtpeDelete, OsRemove
<1>2. /\ IsSpace(rtpe_calls', Keys, Sessions)
      /\ DOMAIN rtpe_calls' = DOMAIN rtpe_calls \ {c}
      /\ \A j \in DOMAIN rtpe_calls \ {c} : rtpe_calls'[j] = rtpe_calls[j]
  BY <1>1, DropSession DEF Inv
<1> QED
  BY <1>1, <1>2, GivenUp

\* Only a tuple that no session is expected under is touched.
LEMMA AsideKeeps ==
    ASSUME Inv, UNCHANGED <<ps_endpoints, histories>>, NEW k,
           k \in Calls => owner[k] = None,
           IsSpace(rtpe_calls', Keys, Sessions),
           \A j \in DOMAIN rtpe_calls \ {k} :
               j \in DOMAIN rtpe_calls' /\ rtpe_calls'[j] = rtpe_calls[j]
    PROVE  Inv'
<1>1. owner' = owner /\ taken' = taken /\ ps_endpoints' = ps_endpoints
  BY DEF histories
<1>2. TypeOK'
  BY <1>1 DEF Inv, TypeOK
<1>3. ASSUME NEW d \in Calls, owner'[d] # None
      PROVE  /\ d \in DOMAIN rtpe_calls'
             /\ rtpe_calls'[d] = IF d \in taken' THEN OsTuple ELSE NodeTuple(owner'[d])
  BY <1>1, <1>3 DEF Inv, Found
<1>4. Found'
  BY <1>3, Zenon DEF Found, OsTuple, NodeTuple
<1> QED
  BY <1>2, <1>4 DEF Inv

\* Kamailio saves: the tuple goes under a key that is no Call-ID.
LEMMA KamSaveKeeps ==
    ASSUME Inv, NEW c \in Calls, KamSave(c) PROVE Inv'
<1> DEFINE k == Text(<<c>>)
           t == [node |-> DefaultNode, payload |-> "none", live |-> TRUE]
<1>1. k \in Keys /\ t \in Sessions /\ k \notin Calls /\ k \notin Bracketed
  BY SharedAssumption DEF Keys, Sessions
<1>2. rtpe_calls' = rtpe_calls \/ rtpe_calls' = Put(rtpe_calls, k, t)
  BY <1>1, TextArrives, StringArrives DEF KamSave
<1>3. UNCHANGED <<ps_endpoints, histories>>
  BY DEF KamSave
<1> HIDE DEF k, t
<1>4. CASE rtpe_calls' = rtpe_calls
  <2>1. IsSpace(rtpe_calls', Keys, Sessions)
    BY <1>4 DEF Inv, TypeOK
  <2> QED
    BY <1>1, <1>3, <1>4, <2>1, AsideKeeps
<1>5. CASE rtpe_calls' = Put(rtpe_calls, k, t)
  <2>1. /\ IsSpace(rtpe_calls', Keys, Sessions)
        /\ DOMAIN rtpe_calls' = DOMAIN rtpe_calls \cup {k}
        /\ \A j \in DOMAIN rtpe_calls \ {k} : rtpe_calls'[j] = rtpe_calls[j]
    BY <1>1, <1>5, PutSession DEF Inv
  <2> QED
    BY <1>1, <1>3, <2>1, AsideKeeps
<1> QED
  BY <1>2, <1>4, <1>5

\* Kamailio's delete changes nothing, and the session is given up.
LEMMA KamDeleteKeeps ==
    ASSUME Inv, NEW c \in Calls, KamDelete(c) PROVE Inv'
<1>1. rtpe_calls' = rtpe_calls /\ GiveUp(c) /\ UNCHANGED ps_endpoints
  BY ArrayLost DEF KamDelete
<1>2. IsSpace(rtpe_calls', Keys, Sessions)
  BY <1>1 DEF Inv, TypeOK
<1> QED
  BY <1>1, <1>2, GivenUp

\* OpenSIPS replaces.
LEMMA OsSetKeeps ==
    ASSUME Inv, NEW c \in Calls, OsSet(c) PROVE Inv'
<1> DEFINE t == OsTuple
<1>1. c \in Keys /\ t \in Sessions
  BY DEF Keys, Sessions, OsTuple
<1>2. /\ rtpe_calls' = Put(rtpe_calls, c, t)
      /\ taken' = IF owner[c] = None THEN taken ELSE taken \cup {c}
      /\ UNCHANGED <<ps_endpoints, owner>>
  BY DEF OsSet
<1> HIDE DEF t
<1>3. /\ IsSpace(rtpe_calls', Keys, Sessions)
      /\ DOMAIN rtpe_calls' = DOMAIN rtpe_calls \cup {c}
      /\ rtpe_calls'[c] = t
      /\ \A j \in DOMAIN rtpe_calls \ {c} : rtpe_calls'[j] = rtpe_calls[j]
  BY <1>1, <1>2, PutSession DEF Inv
<1>4. TypeOK'
  BY <1>2, <1>3 DEF Inv, TypeOK
<1>5. ASSUME NEW d \in Calls, owner'[d] # None
      PROVE  /\ d \in DOMAIN rtpe_calls'
             /\ rtpe_calls'[d] = IF d \in taken' THEN OsTuple ELSE NodeTuple(owner'[d])
  <2>1. CASE d = c
    BY <1>2, <1>3, <1>5, <2>1 DEF t
  <2>2. CASE d # c
    BY <1>2, <1>3, <1>5, <2>2 DEF Inv, Found
  <2> QED
    BY <2>1, <2>2
<1>6. Found'
  BY <1>5, Zenon DEF Found, OsTuple, NodeTuple
<1> QED
  BY <1>4, <1>6 DEF Inv

\* A deadline passes: the session is given up, and its tuple stays for now.
LEMMA DeadlineKeeps ==
    ASSUME Inv, NEW k \in Keys, DeadlinePasses(k) PROVE Inv'
<1> DEFINE t == [rtpe_calls[k] EXCEPT !.live = FALSE]
<1>1. /\ k \in DOMAIN rtpe_calls /\ UNCHANGED ps_endpoints
      /\ rtpe_calls' = [rtpe_calls EXCEPT ![k] = t]
      /\ IF k \in Calls THEN GiveUp(k) ELSE UNCHANGED histories
  BY DEF DeadlinePasses
<1>2. IsSpace(rtpe_calls, Keys, Sessions)
  BY DEF Inv, TypeOK
<1>3. t \in Sessions
  <2>1. rtpe_calls[k] \in Sessions
    BY <1>1, <1>2 DEF IsSpace
  <2> QED
    BY <2>1 DEF Sessions
<1> HIDE DEF t
<1>4. /\ DOMAIN rtpe_calls' = DOMAIN rtpe_calls /\ rtpe_calls'[k] = t
      /\ \A j \in DOMAIN rtpe_calls \ {k} : rtpe_calls'[j] = rtpe_calls[j]
      /\ rtpe_calls' = [j \in DOMAIN rtpe_calls' |-> rtpe_calls'[j]]
  BY <1>1, <1>2 DEF IsSpace
<1>5. \A j \in DOMAIN rtpe_calls' : rtpe_calls'[j] \in Sessions
  BY <1>2, <1>3, <1>4 DEF IsSpace
<1>6. IsSpace(rtpe_calls', Keys, Sessions)
  <2> HIDE <1>1
  <2> QED
    BY <1>2, <1>4, <1>5, Zenon DEF IsSpace, Keys, Sessions, Text
<1>7. CASE k \in Calls
  BY <1>1, <1>4, <1>6, <1>7, GivenUp
<1>8. CASE k \notin Calls
  BY <1>1, <1>4, <1>6, <1>8, AsideKeeps
<1> QED
  BY <1>7, <1>8

\* What RTPEngine and OpenSIPS write has its deadline ahead.
LEMMA TuplesLive == OsTuple.live /\ \A n : NodeTuple(n).live /\ NodeTuple(n).node = n
BY DEF OsTuple, NodeTuple

\* The cleaner deletes a tuple whose deadline has passed: it is not that of a
\* session that is expected.
LEMMA PurgeKeeps ==
    ASSUME Inv, NEW k \in Keys, Purge(k) PROVE Inv'
<1>1. /\ k \in DOMAIN rtpe_calls /\ ~rtpe_calls[k].live
      /\ rtpe_calls' = Drop(rtpe_calls, k) /\ UNCHANGED <<ps_endpoints, histories>>
  BY DEF Purge, Expired
<1>2. k \in Calls => owner[k] = None
  BY <1>1, TuplesLive DEF Inv, Found
<1>3. /\ IsSpace(rtpe_calls', Keys, Sessions)
      /\ DOMAIN rtpe_calls' = DOMAIN rtpe_calls \ {k}
      /\ \A j \in DOMAIN rtpe_calls \ {k} : rtpe_calls'[j] = rtpe_calls[j]
  BY <1>1, DropSession DEF Inv
<1> QED
  BY <1>1, <1>2, <1>3, AsideKeeps

\* Asterisk's endpoints: its texts do not name a space.
LEMMA EndpointKeeps ==
    ASSUME Inv, NEW id \in Endpoints, (\E d \in Data : AstStore(id, d)) \/ AstDestroy(id)
    PROVE  Inv'
<1>1. UNCHANGED <<rtpe_calls, owner, taken>>
  BY DEF AstStore, AstDestroy, histories
<1>2. ASSUME NEW d \in Data, AstStore(id, d) PROVE ps_endpoints' = ps_endpoints
  <2>1. Arg(AstArgs(<<PsEndpoints, id, d>>), 1) # PsEndpoints
    <3> DEFINE s == Text(<<PsEndpoints, id, d>>)
    <3>1. s # PsEndpoints /\ AstArgs(<<PsEndpoints, id, d>>) = <<s>>
      BY SharedAssumption, Zenon DEF AstArgs
    <3> HIDE DEF s
    <3> QED
      BY <3>1, TextArrives
  <2> QED
    BY <1>2, <2>1 DEF AstStore
<1>3. ASSUME AstDestroy(id) PROVE ps_endpoints' = ps_endpoints
  <2>1. Arg(AstArgs(<<PsEndpoints, "id", id>>), 1) # PsEndpoints
    BY TextArrives, SharedAssumption DEF AstArgs
  <2> QED
    BY <1>3, <2>1 DEF AstDestroy
<1>4. ps_endpoints' = ps_endpoints
  BY <1>2, <1>3
<1> QED
  BY <1>1, <1>4 DEF Inv, TypeOK, Found

\* At the start no session is saved.
LEMMA InitInv == Init => Inv
<1> SUFFICES ASSUME Init PROVE Inv
  OBVIOUS
<1>1. IsSpace(rtpe_calls, Keys, Sessions)
  BY DEF Init, EmptySpace, IsSpace
<1>2. IsSpace(ps_endpoints, Endpoints, Data)
  BY DEF Init, IsSpace
<1> QED
  BY <1>1, <1>2 DEF Init, Inv, TypeOK, Found

\* Every step of the stacks keeps the invariant.
LEMMA NextInv == Inv /\ [Next]_vars => Inv'
<1> SUFFICES ASSUME Inv, [Next]_vars PROVE Inv'
  OBVIOUS
<1>1. CASE UNCHANGED vars
  BY <1>1 DEF vars, Inv, TypeOK, Found
<1>2. CASE Next
  BY <1>2, RtpeSaveKeeps, DeleteKeeps, KamSaveKeeps, KamDeleteKeeps, OsSetKeeps,
     EndpointKeeps, DeadlineKeeps, PurgeKeeps DEF Next
<1> QED
  BY <1>1, <1>2

\* The sessions, whatever the registry does between the steps of the stacks.
LEMMA StacksKeep == RegistryInit /\ [][RegistryNext]_allVars => []Inv
<1>1. RegistryInit => Inv
  BY InitInv DEF RegistryInit
<1>2. [RegistryNext]_allVars => [Next]_vars
  BY DEF RegistryNext, allVars, StackStep, Tick, NodeDies, NodeReturns, node_heartbeat
<1>3. Inv /\ [RegistryNext]_allVars => Inv'
  BY <1>2, NextInv
<1> QED
  BY <1>1, <1>3, PTL

\* The spaces that the four stacks share keep their types: a Call-ID or the
\* text of tnt_save_call_sg is the key of a session, and nothing that Asterisk
\* sends in its JSON text gets into ps_endpoints.
THEOREM SharedTypes == RegistrySpec => []TypeOK
<1>1. Inv => TypeOK
  BY DEF Inv
<1> QED
  BY <1>1, StacksKeep, PTL DEF RegistrySpec

\* Kamailio's tnt_get_call_buf reads every session that is expected as it was
\* written last, by RTPEngine or by OpenSIPS, for every Call-ID that does not
\* begin with '['.
THEOREM SessionsAreShared == RegistrySpec => []SharedRead
<1>1. Inv => SharedRead
  <2> SUFFICES ASSUME Inv, NEW c \in Calls \ Bracketed, owner[c] # None
               PROVE  KamReads(c) = IF c \in taken THEN OsTuple ELSE NodeTuple(owner[c])
    BY DEF SharedRead, NodeTuple
  <2>1. /\ c \in DOMAIN rtpe_calls
        /\ rtpe_calls[c] = IF c \in taken THEN OsTuple ELSE NodeTuple(owner[c])
    BY DEF Inv, Found
  <2>2. Arg(KamString(c), 1) = c
    BY TextArrives, StringArrives
  <2> QED
    BY <2>1, <2>2 DEF KamReads, call_get
<1> QED
  BY <1>1, StacksKeep, PTL DEF RegistrySpec

\* rtpe_call_restore returns the sessions of the node whose deadline lies
\* ahead, unless OpenSIPS has replaced their tuples; without a node, all.
THEOREM OwnersRestore == RegistrySpec => []RestoreSeesOwner
<1>1. Inv => RestoreSeesOwner
  <2> SUFFICES ASSUME Inv, NEW c \in Calls, owner[c] # None
               PROVE  c \in call_restore(None) /\ (c \notin taken => c \in call_restore(owner[c]))
    BY DEF RestoreSeesOwner
  <2>1. /\ c \in DOMAIN rtpe_calls /\ rtpe_calls[c].live
        /\ c \notin taken => rtpe_calls[c].node = owner[c]
    BY TuplesLive DEF Inv, Found
  <2> QED
    BY <2>1 DEF call_restore
<1> QED
  BY <1>1, StacksKeep, PTL DEF RegistrySpec
-----------------------------------------------------------------------------
(***************************************************************************)
(* The registry of the media nodes                                         *)
(***************************************************************************)

\* A node's last heartbeat is at least as old as its death.
Announced == \A n \in DOMAIN cluster_nodes : cluster_nodes[n].age >= downFor[n]

RInv == RegistryTypeOK /\ Announced

\* A node keeps at most all calls, and the gauge of a heartbeat is never
\* negative.
LEMMA GaugeBounded ==
    ASSUME NEW n, NEW k \in {Kept(n), -1}
    PROVE  Gauge(k) \in 0..Cardinality(Calls)
<1> DEFINE S == {c \in Calls : owner[c] = n}
<1>1. Cardinality(S) \in Nat /\ Cardinality(Calls) \in Nat /\ Cardinality(S) <= Cardinality(Calls)
  BY RegistryAssumption, FS_Subset, FS_CardinalityType
<1>2. k = Cardinality(S) \/ k = -1
  BY DEF Kept
<1> HIDE DEF S
<1> QED
  BY <1>1, <1>2 DEF Gauge

\* An age grows by one second, up to the window.
LEMMA OlderKeeps ==
    /\ \A a \in 0..Window : Older(a) \in 0..Window
    /\ \A a, d \in 0..Window : a >= d => Older(a) >= Older(d)
BY RegistryAssumption DEF Older

\* No node has announced itself yet.
LEMMA RegistryInitInv == RegistryInit => RInv
<1> SUFFICES ASSUME RegistryInit PROVE RInv
  OBVIOUS
<1>1. DOMAIN EmptySpace = {} /\ \A K, T : IsSpace(EmptySpace, K, T)
  BY DEF EmptySpace, IsSpace
<1> QED
  BY <1>1 DEF RegistryInit, RInv, RegistryTypeOK, Announced, Up

\* Every step of the registry keeps its invariant.
LEMMA RegistryNextInv == RInv /\ [RegistryNext]_allVars => RInv'
<1> SUFFICES ASSUME RInv, [RegistryNext]_allVars PROVE RInv'
  OBVIOUS
<1> DEFINE Rows == [calls : 0..Cardinality(Calls), age : 0..Window]
<1>1. /\ IsSpace(cluster_nodes, Nodes, Rows)
      /\ downFor \in [Nodes -> {Up} \cup 0..Window]
      /\ \A n \in DOMAIN cluster_nodes : n \in Nodes /\ cluster_nodes[n] \in Rows
      /\ Announced /\ Up = -1
  BY DEF RInv, RegistryTypeOK, IsSpace, Up
<1>2. ASSUME NEW n \in Nodes, NEW k \in {Kept(n), -1}, node_heartbeat(n, k) PROVE RInv'
  <2> DEFINE t == [calls |-> Gauge(k), age |-> 0]
  <2>1. t \in Rows /\ t.age = 0
    BY GaugeBounded, RegistryAssumption
  <2>2. cluster_nodes' = Put(cluster_nodes, n, t) /\ downFor' = downFor /\ downFor[n] = Up
    BY <1>2 DEF node_heartbeat
  <2> HIDE DEF t, Rows
  <2>3. /\ IsSpace(Put(cluster_nodes, n, t), Nodes, Rows)
        /\ DOMAIN Put(cluster_nodes, n, t) = DOMAIN cluster_nodes \cup {n}
        /\ Put(cluster_nodes, n, t)[n] = t
        /\ \A m \in DOMAIN cluster_nodes \ {n} : Put(cluster_nodes, n, t)[m] = cluster_nodes[m]
    BY <1>1, <2>1 DEF IsSpace, Put
  <2>4. ASSUME NEW m \in DOMAIN cluster_nodes' PROVE cluster_nodes'[m].age >= downFor'[m]
    <3>1. CASE m = n
      <4>1. cluster_nodes'[m].age = 0 /\ downFor'[m] = -1
        BY <1>1, <2>1, <2>2, <2>3, <3>1
      <4> QED
        BY <4>1
    <3>2. CASE m # n
      <4>1. m \in DOMAIN cluster_nodes /\ cluster_nodes'[m] = cluster_nodes[m]
        BY <2>2, <2>3, <3>2
      <4> QED
        BY <1>1, <2>2, <4>1 DEF Announced
    <3> QED
      BY <3>1, <3>2
  <2>5. IsSpace(cluster_nodes', Nodes, Rows) /\ downFor' \in [Nodes -> {Up} \cup 0..Window]
    BY <1>1, <2>2, <2>3
  <2> QED
    BY <2>4, <2>5 DEF RInv, RegistryTypeOK, Announced, Rows, Up
<1>3. ASSUME NEW n \in Nodes, NodeDies(n) \/ NodeReturns(n) PROVE RInv'
  <2>1. cluster_nodes' = cluster_nodes
    BY <1>3 DEF NodeDies, NodeReturns
  <2>2. PICK d \in {-1, 0} : downFor' = [downFor EXCEPT ![n] = d]
    BY <1>1, <1>3 DEF NodeDies, NodeReturns
  <2>3. downFor' \in [Nodes -> {Up} \cup 0..Window]
    <3>1. d \in {Up} \cup 0..Window
      BY <1>1, RegistryAssumption
    <3> QED
      BY <1>1, <2>2, <3>1
  <2>4. ASSUME NEW m \in DOMAIN cluster_nodes PROVE cluster_nodes[m].age >= downFor'[m]
    <3>1. m \in Nodes /\ cluster_nodes[m].age \in 0..Window
      BY <1>1
    <3>2. downFor'[m] = d \/ downFor'[m] = downFor[m]
      BY <1>1, <2>2, <3>1
    <3>3. cluster_nodes[m].age >= d
      BY <3>1, RegistryAssumption
    <3> QED
      BY <1>1, <3>2, <3>3 DEF Announced
  <2> QED
    BY <1>1, <2>1, <2>3, <2>4 DEF RInv, RegistryTypeOK, Announced, Up
<1>4. ASSUME Tick PROVE RInv'
  <2>1. /\ cluster_nodes' = [n \in DOMAIN cluster_nodes |->
                               [cluster_nodes[n] EXCEPT !.age = Older(@)]]
        /\ downFor' = [n \in Nodes |-> IF downFor[n] = Up THEN Up ELSE Older(downFor[n])]
    BY <1>4 DEF Tick
  <2>2. ASSUME NEW n \in DOMAIN cluster_nodes
        PROVE  /\ cluster_nodes'[n] \in Rows
               /\ cluster_nodes'[n].age = Older(cluster_nodes[n].age)
    BY <1>1, <2>1, OlderKeeps
  <2>3. downFor' \in [Nodes -> {Up} \cup 0..Window]
    BY <1>1, <2>1, OlderKeeps
  <2> HIDE DEF Rows
  <2>4. IsSpace(cluster_nodes', Nodes, Rows)
    BY <1>1, <2>1, <2>2 DEF IsSpace
  <2>5. ASSUME NEW n \in DOMAIN cluster_nodes PROVE cluster_nodes'[n].age >= downFor'[n]
    <3>1. n \in Nodes /\ cluster_nodes[n].age \in 0..Window /\ cluster_nodes[n].age >= downFor[n]
      BY <1>1 DEF Announced, Rows
    <3>2. CASE downFor[n] = Up
      <4>1. downFor'[n] = -1 /\ Older(cluster_nodes[n].age) \in 0..Window
        BY <1>1, <2>1, <3>1, <3>2, OlderKeeps
      <4> QED
        BY <2>2, <4>1, RegistryAssumption
    <3>3. CASE downFor[n] # Up
      <4>1. downFor[n] \in 0..Window /\ downFor'[n] = Older(downFor[n])
        BY <1>1, <2>1, <3>1, <3>3
      <4> QED
        BY <2>2, <3>1, <4>1, OlderKeeps
    <3> QED
      BY <3>2, <3>3
  <2>6. DOMAIN cluster_nodes' = DOMAIN cluster_nodes
    BY <2>1
  <2> QED
    BY <2>3, <2>4, <2>5, <2>6 DEF RInv, RegistryTypeOK, Announced, Rows, Up
<1>5. ASSUME UNCHANGED registryVars PROVE RInv'
  BY <1>1, <1>5 DEF registryVars, RInv, RegistryTypeOK, Announced, Up
<1> QED
  BY <1>2, <1>3, <1>4, <1>5 DEF RegistryNext, allVars, StackStep

\* Heartbeats, deaths, returns and time keep the invariant of the node table.
LEMMA RegistryKeeps == RegistrySpec => []RInv
BY RegistryInitInv, RegistryNextInv, PTL DEF RegistrySpec

\* The heartbeats keep their types, and no node announces more calls than
\* there are.
THEOREM RegistryTypes == RegistrySpec => []RegistryTypeOK
<1>1. RInv => RegistryTypeOK
  BY DEF RInv
<1> QED
  BY <1>1, RegistryKeeps, PTL
-----------------------------------------------------------------------------
(***************************************************************************)
(* The choice of select_optimal_node                                       *)
(*                                                                         *)
(* FoldLeft reads its result off a table over the sets of positions.  The  *)
(* table is unique, and the one that holds, for every set of positions,    *)
(* the first node with the fewest calls is such a table.                   *)
(***************************************************************************)

\* A family of subsets of a finite set that is not empty has a member none of
\* whose proper subsets is in the family.
LEMMA Smallest ==
    ASSUME NEW S, IsFiniteSet(S), NEW B \in SUBSET SUBSET S, B # {}
    PROVE  \E T \in B : \A U \in SUBSET T : U # T => U \notin B
<1>1. IsWellFoundedOn(StrictSubsetOrdering(S), SUBSET S)
  BY FS_StrictSubsetOrderingWellFounded, FS_FiniteSubsetsOfFinite
<1>2. PICK T \in B : \A U \in B : <<U, T>> \notin StrictSubsetOrdering(S)
  BY <1>1, WFMin
<1>3. ASSUME NEW U \in SUBSET T, U # T PROVE U \notin B
  BY <1>2, <1>3 DEF StrictSubsetOrdering
<1> QED
  BY <1>3

\* Min picks the least element of a set of natural numbers.
LEMMA LeastOf ==
    ASSUME NEW S \in SUBSET Nat, S # {}
    PROVE  Min(S) \in S /\ \A y \in S : Min(S) <= y
<1>1. PICK m \in S : TRUE
  OBVIOUS
<1> DEFINE B == {T \in SUBSET (0..m) : \E x \in S : T = 0..x}
           R == StrictSubsetOrdering(0..m)
<1>2. IsWellFoundedOn(R, SUBSET (0..m))
  <2>1. m \in Int /\ 0 \in Int
    BY <1>1
  <2>2. IsFiniteSet(0..m)
    BY <2>1, FS_Interval
  <2> HIDE DEF B
  <2> QED
    BY <2>2, FS_StrictSubsetOrderingWellFounded, FS_FiniteSubsetsOfFinite
<1>3. B \subseteq SUBSET (0..m) /\ 0..m \in B
  BY <1>1
<1>4. PICK T \in B : \A U \in B : <<U, T>> \notin R
  <2> HIDE DEF B, R
  <2> QED
    BY <1>2, <1>3, WFMin
<1>5. PICK x \in S : T = 0..x /\ x <= m
  <2>1. PICK x \in S : T = 0..x /\ T \in SUBSET (0..m)
    BY <1>4
  <2>2. x \in 0..x /\ x \in Nat
    OBVIOUS
  <2>3. x \in 0..m
    BY <2>1, <2>2
  <2> QED
    BY <2>1, <2>3
<1>6. ASSUME NEW y \in S, ~ x <= y PROVE FALSE
  <2>1. 0..y \in SUBSET (0..m) /\ 0..y \in SUBSET (0..x) /\ x \notin 0..y /\ x \in 0..x
    BY <1>1, <1>5, <1>6
  <2>2. 0..y \in B
    BY <2>1
  <2>3. <<0..y, T>> \in R
    BY <1>3, <1>4, <1>5, <2>1 DEF StrictSubsetOrdering
  <2> QED
    BY <1>4, <2>2, <2>3
<1> QED
  BY <1>6 DEF Min

\* Max picks the greatest element of a set of positions.
LEMMA GreatestOf ==
    ASSUME NEW m \in Nat, NEW S \in SUBSET (1..m), S # {}
    PROVE  Max(S) \in S /\ \A y \in S : Max(S) >= y
<1> DEFINE D == {m - x : x \in S}
<1>1. D \in SUBSET Nat /\ D # {}
  <2>1. \A x \in S : m - x \in Nat
    <3>1. \A x \in 1..m : m - x \in Nat
      OBVIOUS
    <3> QED
      BY <3>1
  <2> QED
    BY <2>1
<1>2. Min(D) \in D /\ \A d \in D : Min(D) <= d
  <2> HIDE DEF D
  <2> QED
    BY <1>1, LeastOf
<1>3. PICK x \in S : Min(D) = m - x
  BY <1>2
<1>4. ASSUME NEW y \in S PROVE x >= y
  <2>1. m - y \in D
    OBVIOUS
  <2>2. m - x <= m - y
    BY <1>2, <1>3, <2>1
  <2> HIDE DEF D
  <2> QED
    BY <2>2
<1> QED
  BY <1>4 DEF Max

Positions == DOMAIN NodeOrder

\* One round of the loop.
Chosen(best, n) ==
    IF n \in DOMAIN cluster_nodes /\ IsFresh(cluster_nodes[n]) /\ Better(cluster_nodes[n], best)
    THEN n ELSE best

\* it is the table from which FoldLeft reads the choice.
Rounds(it) ==
    it = [s \in SUBSET Positions |->
            IF s = {} THEN None ELSE Chosen(it[s \ {Max(s)}], NodeOrder[Max(s)])]

\* The loop of select_optimal_node reads its node off such a table.
LEMMA SelectIs == select_optimal_node = (CHOOSE it : Rounds(it))[Positions]
BY DEF select_optimal_node, FoldLeft, MapThenFoldSet, Rounds, Chosen, Positions

\* The table is unique.
LEMMA RoundsUnique ==
    ASSUME NEW a, NEW b, Rounds(a), Rounds(b), IsFiniteSet(Positions)
    PROVE  a = b
<1> DEFINE B == {T \in SUBSET Positions : a[T] # b[T]}
<1>0. B \in SUBSET SUBSET Positions
  OBVIOUS
<1>1. ASSUME B # {} PROVE FALSE
  <2>1. PICK T \in B : \A U \in SUBSET T : U # T => U \notin B
    <3> HIDE DEF B
    <3> QED
      BY <1>0, <1>1, Smallest
  <2>2. T \in SUBSET Positions /\ a[T] # b[T]
    BY <2>1
  <2>3. /\ a[T] = IF T = {} THEN None ELSE Chosen(a[T \ {Max(T)}], NodeOrder[Max(T)])
        /\ b[T] = IF T = {} THEN None ELSE Chosen(b[T \ {Max(T)}], NodeOrder[Max(T)])
    BY <2>2 DEF Rounds
  <2>4. T # {}
    BY <2>2, <2>3
  <2>5. Max(T) \in T
    <3>1. Len(NodeOrder) \in Nat /\ Positions = 1..Len(NodeOrder)
      BY RegistryAssumption, LenProperties DEF Positions
    <3> QED
      BY <2>2, <2>4, <3>1, GreatestOf
  <2>6. T \ {Max(T)} \notin B
    BY <2>1, <2>5
  <2>7. a[T \ {Max(T)}] = b[T \ {Max(T)}]
    BY <2>2, <2>6
  <2> QED
    BY <2>2, <2>3, <2>4, <2>7
<1>2. \A T \in SUBSET Positions : a[T] = b[T]
  BY <1>1
<1>3. /\ a = [s \in SUBSET Positions |-> a[s]]
      /\ b = [s \in SUBSET Positions |-> b[s]]
  BY DEF Rounds
<1> QED
  BY <1>2, <1>3

\* The positions of s whose node has announced in time.
Timely(s) ==
    {i \in s : NodeOrder[i] \in DOMAIN cluster_nodes /\ IsFresh(cluster_nodes[NodeOrder[i]])}

CallsAt(i) == cluster_nodes[NodeOrder[i]].calls

\* i is the first of the timely positions of s with the fewest calls.
IsBest(i, s) ==
    /\ i \in Timely(s)
    /\ \A j \in Timely(s) : CallsAt(i) < CallsAt(j) \/ (CallsAt(i) = CallsAt(j) /\ i <= j)

FirstBest(s) == CHOOSE i \in Timely(s) : IsBest(i, s)

\* The table that the loop fills.
Firsts == [s \in SUBSET Positions |->
              IF Timely(s) = {} THEN None ELSE NodeOrder[FirstBest(s)]]

\* The positions, and what the loop looks at.
LEMMA PositionFacts ==
    ASSUME RegistryTypeOK
    PROVE  /\ Len(NodeOrder) \in Nat /\ Positions = 1..Len(NodeOrder)
           /\ IsFiniteSet(Positions)
           /\ \A i \in Positions : NodeOrder[i] \in Nodes /\ NodeOrder[i] # None
           /\ \A i, j \in Positions : NodeOrder[i] = NodeOrder[j] => i = j
           /\ \A s \in SUBSET Positions : \A i \in Timely(s) :
                 CallsAt(i) \in Nat /\ i \in Nat /\ i \in s
<1>1. Len(NodeOrder) \in Nat /\ Positions = 1..Len(NodeOrder)
  BY RegistryAssumption, LenProperties DEF Positions
<1>2. IsFiniteSet(Positions)
  <2>1. Len(NodeOrder) \in Int /\ 1 \in Int
    BY <1>1
  <2> QED
    BY <1>1, <2>1, FS_Interval
<1>3. \A i \in Positions : NodeOrder[i] \in Nodes /\ NodeOrder[i] # None
  BY <1>1, RegistryAssumption, SharedAssumption
<1>4. \A i, j \in Positions : NodeOrder[i] = NodeOrder[j] => i = j
  BY RegistryAssumption DEF IsInjective, Positions
<1>5. \A n \in DOMAIN cluster_nodes : cluster_nodes[n].calls \in Nat
  <2>1. Cardinality(Calls) \in Nat
    BY RegistryAssumption, FS_CardinalityType
  <2>2. \A n \in DOMAIN cluster_nodes : cluster_nodes[n].calls \in 0..Cardinality(Calls)
    BY DEF RegistryTypeOK, IsSpace
  <2> QED
    BY <2>1, <2>2
<1>6. \A s \in SUBSET Positions : \A i \in Timely(s) :
          CallsAt(i) \in Nat /\ i \in Nat /\ i \in s
  BY <1>1, <1>5 DEF Timely, CallsAt
<1> QED
  BY <1>1, <1>2, <1>3, <1>4, <1>6

\* Of the timely positions of a set, one is the best.
LEMMA BestExists ==
    ASSUME RegistryTypeOK, NEW s \in SUBSET Positions, Timely(s) # {}
    PROVE  IsBest(FirstBest(s), s)
<1>1. \A i \in Timely(s) : CallsAt(i) \in Nat /\ i \in Nat
  BY PositionFacts
<1> DEFINE C == {CallsAt(i) : i \in Timely(s)}
           low == Min(C)
           F == {i \in Timely(s) : CallsAt(i) = low}
           f == Min(F)
<1>2. low \in C /\ \A y \in C : low <= y
  <2>1. C \in SUBSET Nat /\ C # {}
    BY <1>1
  <2> HIDE DEF C
  <2> QED
    BY <2>1, LeastOf
<1>3. f \in F /\ \A y \in F : f <= y
  <2>1. F \in SUBSET Nat /\ F # {}
    BY <1>1, <1>2
  <2> HIDE DEF F
  <2> QED
    BY <2>1, LeastOf
<1>4. f \in Timely(s) /\ CallsAt(f) = low
  BY <1>3
<1>5. ASSUME NEW j \in Timely(s)
      PROVE  CallsAt(f) < CallsAt(j) \/ (CallsAt(f) = CallsAt(j) /\ f <= j)
  <2>1. low <= CallsAt(j)
    BY <1>2
  <2>2. CallsAt(j) = low => f <= j
    BY <1>3
  <2>3. CallsAt(j) \in Nat /\ CallsAt(f) \in Nat
    BY <1>1, <1>4
  <2> HIDE DEF low, f, F, C
  <2> QED
    BY <1>4, <2>1, <2>2, <2>3
<1>6. IsBest(f, s)
  <2> HIDE DEF f, low
  <2> QED
    BY <1>4, <1>5 DEF IsBest
<1>7. \E i \in Timely(s) : IsBest(i, s)
  BY <1>4, <1>6
<1> QED
  BY <1>7 DEF FirstBest

\* There is only one.
LEMMA BestIsOne ==
    ASSUME RegistryTypeOK, NEW s \in SUBSET Positions, NEW i, IsBest(i, s)
    PROVE  Timely(s) # {} /\ FirstBest(s) = i
<1>1. i \in Timely(s)
  BY DEF IsBest
<1>2. IsBest(FirstBest(s), s)
  BY <1>1, BestExists
<1> DEFINE j == FirstBest(s)
<1>3. j \in Timely(s) /\ IsBest(j, s)
  BY <1>2 DEF IsBest
<1>4. CallsAt(i) \in Nat /\ CallsAt(j) \in Nat /\ i \in Nat /\ j \in Nat
  BY <1>1, <1>3, PositionFacts
<1> HIDE DEF j
<1>5. /\ CallsAt(i) < CallsAt(j) \/ (CallsAt(i) = CallsAt(j) /\ i <= j)
      /\ CallsAt(j) < CallsAt(i) \/ (CallsAt(j) = CallsAt(i) /\ j <= i)
  BY <1>1, <1>3 DEF IsBest
<1>6. i = j
  BY <1>4, <1>5
<1> QED
  BY <1>1, <1>6 DEF j

\* A round of the loop: with the last position of s looked at after the
\* others, the first of the best stays the first of the best.
LEMMA Round ==
    ASSUME RegistryTypeOK, NEW s \in SUBSET Positions, s # {}
    PROVE  Firsts[s] = Chosen(Firsts[s \ {Max(s)}], NodeOrder[Max(s)])
<1> DEFINE x == Max(s)
           r == s \ {x}
<1>1. x \in s /\ \A y \in s : x >= y
  BY PositionFacts, GreatestOf
<1>2. /\ r \in SUBSET Positions /\ x \in Positions /\ NodeOrder[x] # None
      /\ NodeOrder[x] \in Nodes /\ x \in Nat
  BY <1>1, PositionFacts
<1> HIDE DEF x
<1>3. /\ Firsts[s] = IF Timely(s) = {} THEN None ELSE NodeOrder[FirstBest(s)]
      /\ Firsts[r] = IF Timely(r) = {} THEN None ELSE NodeOrder[FirstBest(r)]
  BY <1>2 DEF Firsts
<1> DEFINE ok == NodeOrder[x] \in DOMAIN cluster_nodes /\ IsFresh(cluster_nodes[NodeOrder[x]])
<1>4. Timely(s) = IF ok THEN Timely(r) \cup {x} ELSE Timely(r)
  BY <1>1 DEF Timely
<1>5. Chosen(Firsts[r], NodeOrder[x]) =
          IF ok /\ Better(cluster_nodes[NodeOrder[x]], Firsts[r]) THEN NodeOrder[x] ELSE Firsts[r]
  BY DEF Chosen
<1> HIDE DEF r, ok
<1>6. CASE Timely(r) = {}
  <2>1. Firsts[r] = None
    BY <1>3, <1>6
  <2>2. CASE ~ok
    BY <1>3, <1>4, <1>5, <1>6, <2>1, <2>2 DEF r, x
  <2>3. CASE ok
    <3>1. Timely(s) = {x}
      BY <1>4, <1>6, <2>3
    <3>2. IsBest(x, s)
      BY <3>1, <1>2 DEF IsBest
    <3>3. FirstBest(s) = x
      BY <3>2, BestIsOne
    <3>4. Better(cluster_nodes[NodeOrder[x]], Firsts[r])
      BY <2>1 DEF Better
    <3> QED
      BY <1>3, <1>5, <2>3, <3>1, <3>3, <3>4 DEF r, x
  <2> QED
    BY <2>2, <2>3 
<1>7. CASE Timely(r) # {}
  <2> DEFINE i == FirstBest(r)
  <2>1. IsBest(i, r)
    BY <1>2, <1>7, BestExists
  <2>2. i \in Timely(r) /\ i \in r /\ i \in Nat /\ CallsAt(i) \in Nat /\ i \in Positions
    BY <1>2, <2>1, PositionFacts DEF IsBest
  <2>3. Firsts[r] = NodeOrder[i] /\ NodeOrder[i] # None
    BY <1>3, <1>7, <2>2, PositionFacts
  <2> HIDE DEF i
  <2>4. Better(cluster_nodes[NodeOrder[x]], Firsts[r]) <=> CallsAt(x) < CallsAt(i)
    BY <2>3 DEF Better, CallsAt
  <2>5. \A j \in Timely(r) : CallsAt(i) < CallsAt(j) \/ (CallsAt(i) = CallsAt(j) /\ i <= j)
    BY <2>1 DEF IsBest
  <2>6. \A j \in Timely(r) : CallsAt(j) \in Nat
    BY <1>2, PositionFacts
  <2>7. i <= x
    BY <1>1, <2>2 DEF r
  <2>8. CASE ok /\ CallsAt(x) < CallsAt(i)
    <3>1. Timely(s) = Timely(r) \cup {x} /\ CallsAt(x) \in Nat
      BY <1>4, <2>8, PositionFacts
    <3>2. IsBest(x, s)
      BY <1>2, <2>2, <2>5, <2>6, <2>8, <3>1 DEF IsBest
    <3>3. FirstBest(s) = x /\ Timely(s) # {}
      BY <3>2, BestIsOne
    <3> QED
      BY <1>3, <1>5, <2>4, <2>8, <3>3 DEF r, x
  <2>9. CASE ~(ok /\ CallsAt(x) < CallsAt(i))
    <3>1. IsBest(i, s)
      <4>1. CASE ~ok
        BY <1>4, <2>2, <2>5, <4>1 DEF IsBest
      <4>2. CASE ok
        <5>1. Timely(s) = Timely(r) \cup {x} /\ CallsAt(x) \in Nat
          BY <1>4, <4>2, PositionFacts
        <5>2. CallsAt(i) < CallsAt(x) \/ (CallsAt(i) = CallsAt(x) /\ i <= x)
          BY <2>2, <2>7, <2>9, <4>2, <5>1
        <5> QED
          BY <2>2, <2>5, <5>1, <5>2 DEF IsBest
      <4> QED
        BY <4>1, <4>2
    <3>2. FirstBest(s) = i /\ Timely(s) # {}
      BY <3>1, BestIsOne
    <3> QED
      BY <1>3, <1>5, <2>3, <2>4, <2>9, <3>2 DEF r, x
  <2> QED
    BY <2>8, <2>9
<1> QED
  BY <1>6, <1>7

\* The loop returns the first node with the fewest calls of those that
\* announced in time.
LEMMA SelectFinds ==
    ASSUME RegistryTypeOK
    PROVE  select_optimal_node =
              IF Timely(Positions) = {} THEN None ELSE NodeOrder[FirstBest(Positions)]
<1>1. ASSUME NEW s \in SUBSET Positions
      PROVE  Firsts[s] = IF s = {} THEN None
                         ELSE Chosen(Firsts[s \ {Max(s)}], NodeOrder[Max(s)])
  <2>1. CASE s = {}
    BY <2>1 DEF Firsts, Timely
  <2>2. CASE s # {}
    BY <2>2, Round
  <2> QED
    BY <2>1, <2>2
<1>2. Firsts = [s \in SUBSET Positions |-> Firsts[s]]
  BY DEF Firsts
<1>3. Rounds(Firsts)
  BY <1>1, <1>2 DEF Rounds
<1>4. Rounds(CHOOSE it : Rounds(it))
  BY <1>3
<1>5. (CHOOSE it : Rounds(it)) = Firsts
  BY <1>3, <1>4, RoundsUnique, PositionFacts
<1> QED
  BY <1>5, SelectIs DEF Firsts

\* A timely heartbeat is that of a node at a timely position.
LEMMA TimelyNodes ==
    ASSUME RegistryTypeOK, NEW n
    PROVE  (n \in DOMAIN cluster_nodes /\ cluster_nodes[n].age < Window) <=>
              \E i \in Timely(Positions) : NodeOrder[i] = n
<1>1. n \in DOMAIN cluster_nodes => \E i \in Positions : NodeOrder[i] = n
  BY RegistryAssumption DEF RegistryTypeOK, IsSpace, Range, Positions
<1> QED
  BY <1>1 DEF Timely, IsFresh

\* rtpe_select_node never chooses a node that has been dead for the whole
\* window: its heartbeat is at least as old as its death.
THEOREM NoDeadNode == RegistrySpec => []NotLongDead
<1>1. RInv => NotLongDead
  <2> SUFFICES ASSUME RInv, select_optimal_node # None
               PROVE  downFor[select_optimal_node] < Window
    BY DEF NotLongDead
  <2> DEFINE i == FirstBest(Positions)
             n == NodeOrder[i]
  <2>1. RegistryTypeOK /\ Announced
    BY DEF RInv
  <2>2. Timely(Positions) # {} /\ select_optimal_node = n
    BY <2>1, SelectFinds
  <2>3. i \in Timely(Positions)
    BY <2>1, <2>2, BestExists DEF IsBest
  <2> HIDE DEF i
  <2>4. n \in DOMAIN cluster_nodes /\ cluster_nodes[n].age < Window
    BY <2>1, <2>3, TimelyNodes
  <2> HIDE DEF n
  <2>5. cluster_nodes[n].age >= downFor[n]
    BY <2>1, <2>4 DEF Announced
  <2>6. cluster_nodes[n].age \in Int /\ downFor[n] \in Int /\ Window \in Int
    BY <2>1, <2>4, RegistryAssumption DEF RegistryTypeOK, IsSpace, Up
  <2> QED
    BY <2>2, <2>4, <2>5, <2>6
<1> QED
  BY <1>1, RegistryKeeps, PTL

\* The loop of select_optimal_node finds the first of the nodes with the
\* fewest calls, whatever the heartbeats hold.
THEOREM SelectIsLeast == RegistrySpec => []BestIsLeast
<1>1. RInv => BestIsLeast
  <2> SUFFICES ASSUME RegistryTypeOK PROVE BestIsLeast
    BY DEF RInv
  <2> DEFINE timely == {n \in DOMAIN cluster_nodes : cluster_nodes[n].age < Window}
             least == {n \in timely : \A m \in timely :
                           cluster_nodes[n].calls <= cluster_nodes[m].calls}
             rank(n) == CHOOSE i \in DOMAIN NodeOrder : NodeOrder[i] = n
             best == select_optimal_node
  <2>1. ASSUME NEW n PROVE n \in timely <=> \E i \in Timely(Positions) : NodeOrder[i] = n
    BY TimelyNodes
  <2>2. ASSUME NEW i \in Positions PROVE rank(NodeOrder[i]) = i
    BY PositionFacts DEF Positions
  <2>3. CASE Timely(Positions) = {}
    <3>1. timely = {}
      BY <2>1, <2>3
    <3>2. best = None
      BY <2>3, SelectFinds
    <3> QED
      BY <3>1, <3>2 DEF BestIsLeast
  <2>4. CASE Timely(Positions) # {}
    <3> DEFINE b == FirstBest(Positions)
    <3>1. IsBest(b, Positions) /\ best = NodeOrder[b]
      BY <2>4, BestExists, SelectFinds
    <3> HIDE DEF b
    <3>2. /\ b \in Timely(Positions) /\ b \in Positions
          /\ \A j \in Timely(Positions) :
                CallsAt(b) < CallsAt(j) \/ (CallsAt(b) = CallsAt(j) /\ b <= j)
          /\ \A j \in Timely(Positions) : CallsAt(j) \in Nat /\ j \in Positions
      BY <3>1, PositionFacts DEF IsBest
    <3>3. best \in timely
      BY <2>1, <3>1, <3>2
    <3>4. ASSUME NEW m \in timely PROVE cluster_nodes[best].calls <= cluster_nodes[m].calls
      <4>1. PICK j \in Timely(Positions) : NodeOrder[j] = m
        BY <2>1
      <4>2. CallsAt(b) <= CallsAt(j)
        BY <3>2
      <4> QED
        BY <3>1, <4>1, <4>2 DEF CallsAt
    <3>5. best \in least
      BY <3>3, <3>4
    <3>6. ASSUME NEW n \in least PROVE rank(best) <= rank(n)
      <4>1. PICK j \in Timely(Positions) : NodeOrder[j] = n
        BY <2>1
      <4>2. CallsAt(j) <= CallsAt(b)
        BY <3>1, <3>3, <4>1 DEF CallsAt
      <4>3. b <= j
        BY <3>2, <4>2
      <4>4. rank(best) = b /\ rank(n) = j
        BY <2>2, <3>1, <3>2, <4>1
      <4> HIDE DEF rank
      <4> QED
        BY <4>3, <4>4
    <3>7. timely # {}
      BY <3>3
    <3> QED
      BY <3>5, <3>6, <3>7 DEF BestIsLeast
  <2> QED
    BY <2>3, <2>4
<1> QED
  BY <1>1, RegistryKeeps, PTL
-----------------------------------------------------------------------------
(***************************************************************************)
(* msgpuck.h: a decoder reads back what the encoder of its type wrote, and *)
(* stops at the first byte after it.  The runs look at the lengths where   *)
(* an encoding changes; here the number is any of 64 bits, the size of an  *)
(* array, a map or a string any below 2^24, and any buffer may follow.     *)
(***************************************************************************)

\* Bytes, sizes, and numbers: the bytes of a number have no leading zero.
Octets == 0..255
Sizes == {n \in Nat : n < 16777216}
Numbers == {d \in Seq(Octets) : Len(d) \in 0..8 /\ (Len(d) > 0 => d[1] # 0)}

\* The tags of one type tell the widths apart, and those from the values that
\* a tag holds itself.
Unambiguous(tags) ==
    /\ tags.first \in 0..255 /\ tags.last \in 0..255
    /\ tags.first <= tags.last
    /\ DOMAIN tags.wide \subseteq 1..8
    /\ \A w \in DOMAIN tags.wide :
           tags.wide[w] \in 0..255 /\ tags.wide[w] \notin tags.first..tags.last
    /\ \A v, w \in DOMAIN tags.wide : tags.wide[v] = tags.wide[w] => v = w

\* The tags that msgpuck.h has for the types it encodes.
LEMMA TagsUnambiguous ==
    /\ Unambiguous(UintTags) /\ DOMAIN UintTags.wide = {1, 2, 4, 8}
    /\ Unambiguous(StrTags) /\ DOMAIN StrTags.wide = {1, 2, 4}
    /\ Unambiguous(ArrayTags) /\ DOMAIN ArrayTags.wide = {2, 4}
    /\ Unambiguous(MapTags) /\ DOMAIN MapTags.wide = {2, 4}
<1>1. Unambiguous(UintTags) /\ DOMAIN UintTags.wide = {1, 2, 4, 8}
  BY DEF Unambiguous, UintTags, Wides, Power
<1>2. Unambiguous(StrTags) /\ DOMAIN StrTags.wide = {1, 2, 4}
  BY DEF Unambiguous, StrTags, Wides, Power
<1>3. Unambiguous(ArrayTags) /\ DOMAIN ArrayTags.wide = {2, 4}
  BY DEF Unambiguous, ArrayTags, Wides, Power
<1>4. Unambiguous(MapTags) /\ DOMAIN MapTags.wide = {2, 4}
  BY DEF Unambiguous, MapTags, Wides, Power
<1> QED
  BY <1>1, <1>2, <1>3, <1>4

\* Bytes in front of a buffer are read one by one, and the buffer is after them.
LEMMA RawRead ==
    ASSUME NEW b \in Seq(Octets), NEW S, NEW s \in Seq(S), NEW p, p = Raw(b) \o s
    PROVE  /\ \A i \in 1..Len(b) : Byte(p, i) = b[i]
           /\ After(Len(b), p) = s
<1>1. Raw(b) \in Seq([byte : Octets]) /\ Len(Raw(b)) = Len(b)
      /\ \A i \in 1..Len(b) : Raw(b)[i] = [byte |-> b[i]]
  <2>1. Len(b) \in Nat /\ DOMAIN b = 1..Len(b) /\ \A i \in 1..Len(b) : b[i] \in Octets
    BY LenProperties, ElementOfSeq
  <2>2. /\ Raw(b) \in [1..Len(b) -> [byte : Octets]]
        /\ \A i \in 1..Len(b) : Raw(b)[i] = [byte |-> b[i]]
    BY <2>1 DEF Raw
  <2>3. Raw(b) \in Seq([byte : Octets])
    <3> DEFINE B == [byte : Octets]
    <3>1. Raw(b) \in [1..Len(b) -> B]
      BY <2>2
    <3> HIDE DEF B
    <3>2. Raw(b) \in Seq(B)
      BY <2>1, <3>1, SeqDef
    <3> QED
      BY <3>2 DEF B
  <2> QED
    BY <2>1, <2>2, <2>3, LenProperties
<1>2. /\ Len(p) = Len(b) + Len(s)
      /\ \A i \in 1..Len(p) :
             p[i] = IF i <= Len(b) THEN Raw(b)[i] ELSE s[i - Len(b)]
  <2> DEFINE T == [byte : Octets] \cup S
             r == Raw(b)
  <2>1. r \in Seq(T) /\ s \in Seq(T)
    BY <1>1, SeqMonotonic, Zenon
  <2> HIDE DEF T, r
  <2>2. Len(r \o s) = Len(r) + Len(s)
        /\ \A i \in 1..Len(r) + Len(s) :
               (r \o s)[i] = IF i <= Len(r) THEN r[i] ELSE s[i - Len(r)]
    BY <2>1, ConcatProperties
  <2>3. p = r \o s
    BY DEF r
  <2> QED
    BY <1>1, <2>2, <2>3 DEF r
<1>3. ASSUME NEW i \in 1..Len(b)
      PROVE  Byte(p, i) = b[i]
  <2>1. p[i] = [byte |-> b[i]] /\ i <= Len(p)
    BY <1>1, <1>2
  <2>2. IsByte(p[i])
    BY <2>1 DEF IsByte
  <2> QED
    BY <2>1, <2>2 DEF Byte
<1>4. After(Len(b), p) = s
  BY <1>2 DEF After
<1> QED
  BY <1>3, <1>4

\* mp_store_uN and mp_load_uN: zeros in front of a number do not change it.
LEMMA StripPad ==
    ASSUME NEW d \in Numbers, NEW w \in 1..8, Len(d) <= w
    PROVE  /\ Pad(d, w) \in Seq(Octets) /\ Len(Pad(d, w)) = w
           /\ Strip(Pad(d, w)) = d
<1>1. CASE Len(d) = 0
  <2>1. d = <<>>
    <3>1. d \in Seq(Octets)
      BY DEF Numbers
    <3> QED
      BY <3>1, <1>1, EmptySeq
  <2> DEFINE q == Pad(d, w)
  <2>2. q \in [1..w -> Octets] /\ \A i \in 1..w : q[i] = 0
    BY <1>1 DEF Pad, Octets
  <2> HIDE DEF q
  <2>3. q \in Seq(Octets)
    BY <2>2, SeqDef
  <2>4. Len(q) = w
    BY <2>2, <2>3, LenProperties
  <2>5. Strip(q) = <<>>
    BY <2>2 DEF Strip
  <2> QED
    BY <2>1, <2>3, <2>4, <2>5 DEF q
<1>2. CASE Len(d) > 0
  <2> DEFINE k == Len(d)
             q == Pad(d, w)
             m == w - k + 1
  <2>1. k \in 1..8 /\ d \in Seq(Octets) /\ d[1] # 0 /\ \A i \in 1..k : d[i] \in Octets
    <3>1. d \in Seq(Octets) /\ k \in 0..8 /\ d[1] # 0
      BY <1>2 DEF Numbers
    <3>2. \A i \in 1..k : d[i] \in Octets
      BY <3>1, ElementOfSeq
    <3>3. k > 0
      BY <1>2
    <3> HIDE DEF k
    <3>4. k \in 1..8
      BY <3>1, <3>3
    <3> QED
      BY <3>1, <3>2, <3>4
  <2>2. m \in 1..w
    BY <2>1
  <2>3. /\ q \in Seq(Octets) /\ Len(q) = w /\ DOMAIN q = 1..w
        /\ \A i \in 1..w : q[i] = IF i >= m THEN d[i - m + 1] ELSE 0
    <3>1. \A i \in 1..w : q[i] = IF i >= m THEN d[i - m + 1] ELSE 0
      BY <2>1 DEF Pad
    <3>2. \A i \in 1..w : i >= m => i - m + 1 \in 1..k
      BY <2>1, <2>2
    <3>3. \A i \in 1..w : (IF i >= m THEN d[i - m + 1] ELSE 0) \in Octets
      BY <2>1, <3>2 DEF Octets
    <3>4. q \in [1..w -> Octets]
      BY <3>1, <3>3 DEF Pad
    <3>5. q \in Seq(Octets)
      BY <3>4, SeqDef
    <3> QED
      BY <3>1, <3>4, <3>5, LenProperties
  <2> HIDE DEF q
  <2>4. \A i \in 1..w : q[i] # 0 => i >= m
    BY <2>2, <2>3
  <2>5. q[m] # 0
    <3>1. q[m] = d[m - m + 1]
      BY <2>2, <2>3
    <3> QED
      BY <3>1, <2>1, <2>2
  <2>6. Min({i \in DOMAIN q : q[i] # 0}) = m
    BY <2>2, <2>3, <2>4, <2>5 DEF Min
  <2>7. Strip(q) = SubSeq(q, m, w)
    BY <2>2, <2>3, <2>5, <2>6 DEF Strip
  <2>8. SubSeq(q, m, w) = d
    <3>1. SubSeq(q, m, w) \in Seq(Octets) /\ Len(SubSeq(q, m, w)) = k
          /\ \A i \in 1..k : SubSeq(q, m, w)[i] = q[m + i - 1]
      <4>1. m \in Int /\ w \in Int /\ m <= w /\ w - m + 1 = k /\ m..w \subseteq 1..w
        BY <2>1, <2>2
      <4>2. \A i \in m..w : q[i] \in Octets
        BY <2>3, <4>1, ElementOfSeq
      <4> HIDE DEF m, k
      <4> QED
        BY <4>1, <4>2, SubSeqProperties
    <3>2. \A i \in 1..k : q[m + i - 1] = d[i]
      BY <2>1, <2>2, <2>3
    <3> QED
      BY <3>1, <3>2, <2>1, SeqEqual
  <2> QED
    BY <2>3, <2>7, <2>8 DEF q
<1>3. Len(d) \in Nat
  BY DEF Numbers
<1> QED
  BY <1>1, <1>2, <1>3

\* A value below 256 is its only byte.
LEMMA OneByte ==
    /\ Bytes(0) = <<>> /\ Size(<<>>) = 0
    /\ \A x \in 1..255 : Bytes(x) = <<x>> /\ Size(<<x>>) = x
<1>1. Bytes(0) = <<>> /\ Size(<<>>) = 0
  BY SMT DEF Bytes, Size, Place
<1>2. ASSUME NEW x \in 1..255
      PROVE  Bytes(x) = <<x>> /\ Size(<<x>>) = x
  BY SMT DEF Bytes, Size, Place
<1> QED
  BY <1>1, <1>2

\* A value that fits the tag gives a tag of its type, which gives the value.
LEMMA InTag ==
    ASSUME NEW f \in Octets, NEW l \in Octets, f <= l,
           NEW d \in Seq(Octets), Len(d) > 0 => d[1] # 0,
           d = <<>> \/ (Len(d) = 1 /\ d[1] <= l - f)
    PROVE  /\ Bytes(Size(d)) = d
           /\ f + Size(d) \in Octets /\ f + Size(d) \in f..l
           /\ (f + Size(d)) - f = Size(d)
<1>1. ASSUME NEW x \in 0..(l - f)
      PROVE  f + x \in Octets /\ f + x \in f..l /\ (f + x) - f = x
  BY DEF Octets
<1>2. CASE d = <<>>
  <2>1. 0 \in 0..(l - f)
    BY DEF Octets
  <2> QED
    BY <1>1, <1>2, <2>1, OneByte
<1>3. CASE Len(d) = 1 /\ d[1] <= l - f
  <2>1. d[1] \in Octets /\ d[1] # 0 /\ d = <<d[1]>>
    BY <1>3, ElementOfSeq
  <2>2. PICK x \in Octets : x = d[1] /\ x # 0 /\ d = <<x>> /\ x <= l - f
    BY <2>1, <1>3
  <2>3. x # 0 /\ x <= l - f
    BY <2>2
  <2>4. x \in 1..255 /\ x \in 0..(l - f)
    BY <2>3 DEF Octets
  <2> QED
    BY <1>1, <2>2, <2>4, OneByte
<1> QED
  BY <1>2, <1>3

\* A head of the type: bytes of which the first is one of its tags.
TagsOf(tags) == tags.first..tags.last \cup {tags.wide[w] : w \in DOMAIN tags.wide}
HeadOf(tags, h) ==
    \E b \in Seq(Octets) : Len(b) > 0 /\ b[1] \in TagsOf(tags) /\ h = Raw(b)

\* A wide form is read back, leading zeros and all: its tag selects the width
\* that is read.
LEMMA WideRoundTrip ==
    ASSUME NEW tags, Unambiguous(tags), NEW w \in DOMAIN tags.wide,
           NEW d \in Numbers, Len(d) <= w, NEW S, NEW s \in Seq(S)
    PROVE  /\ Decode(tags, Wide(tags, w, d) \o s) = [val |-> d, rest |-> s]
           /\ HeadOf(tags, Wide(tags, w, d))
<1> DEFINE W == DOMAIN tags.wide
           p == Wide(tags, w, d) \o s
           b == <<tags.wide[w]>> \o Pad(d, w)
           c == tags.wide[w]
<1>1. /\ W \subseteq 1..8 /\ w \in W /\ w \in 1..8
      /\ \A v \in W : tags.wide[v] \in Octets /\ tags.wide[v] \notin tags.first..tags.last
      /\ \A u, v \in W : tags.wide[u] = tags.wide[v] => u = v
  BY DEF Unambiguous, Octets
<1>2. Pad(d, w) \in Seq(Octets) /\ Len(Pad(d, w)) = w /\ Strip(Pad(d, w)) = d
  BY <1>1, StripPad
<1>3. c \in Octets /\ c \notin tags.first..tags.last
  BY <1>1
<1>4. /\ b \in Seq(Octets) /\ Len(b) = w + 1 /\ b[1] = c
      /\ \A i \in 1..w : b[i + 1] = Pad(d, w)[i]
  <2> HIDE DEF c
  <2>1. <<c>> \in Seq(Octets) /\ Len(<<c>>) = 1 /\ <<c>>[1] = c
    BY <1>3
  <2> DEFINE q == Pad(d, w)
  <2>2. q \in Seq(Octets) /\ Len(q) = w
    BY <1>2
  <2> HIDE DEF q
  <2>3. /\ <<c>> \o q \in Seq(Octets) /\ Len(<<c>> \o q) = 1 + w
        /\ \A i \in 1..(1 + w) : (<<c>> \o q)[i] = IF i <= 1 THEN <<c>>[i] ELSE q[i - 1]
    BY <2>1, <2>2, ConcatProperties
  <2>4. b = <<c>> \o q
    BY DEF c, q
  <2>5. \A i \in 1..w : i + 1 \in 1..(1 + w) /\ ~ i + 1 <= 1 /\ (i + 1) - 1 = i
    BY <1>1
  <2> HIDE DEF b
  <2>6. b \in Seq(Octets) /\ Len(b) = w + 1 /\ b[1] = c
    BY <1>1, <2>1, <2>3, <2>4
  <2>7. \A i \in 1..w : b[i + 1] = q[i]
    BY <2>3, <2>4, <2>5
  <2> QED
    BY <2>6, <2>7 DEF q
<1>5. p = Raw(b) \o s
  BY DEF Wide
<1> HIDE DEF p, b, c
<1>6. (\A i \in 1..Len(b) : Byte(p, i) = b[i]) /\ After(Len(b), p) = s
  BY <1>4, <1>5, RawRead
<1>7. Byte(p, 1) = c
  BY <1>1, <1>4, <1>6
<1>8. Width(tags, c) = w
  <2>1. {v \in DOMAIN tags.wide : tags.wide[v] = c} = {w}
    BY <1>1 DEF c
  <2>2. Max({0, w}) = w
    BY <1>1 DEF Max
  <2>3. {0} \cup {v \in DOMAIN tags.wide : tags.wide[v] = c} = {0, w}
    BY <2>1
  <2> QED
    BY <2>2, <2>3 DEF Width
<1>9. [i \in 1..w |-> Byte(p, i + 1)] = Pad(d, w)
  <2>1. \A i \in 1..w : Byte(p, i + 1) = Pad(d, w)[i]
    BY <1>1, <1>4, <1>6
  <2>2. Pad(d, w) = [i \in 1..w |-> Pad(d, w)[i]]
    BY DEF Pad
  <2> QED
    BY <2>1, <2>2
<1>10. After(w + 1, p) = s
  BY <1>4, <1>6
<1>11. Decode(tags, p) = [val |-> Strip(Pad(d, w)), rest |-> s]
  BY <1>3, <1>7, <1>8, <1>9, <1>10 DEF Decode, Unpack
<1>12. HeadOf(tags, Wide(tags, w, d))
  <2>1. Len(b) > 0 /\ b[1] \in TagsOf(tags)
    BY <1>1, <1>4 DEF TagsOf, c
  <2>2. Wide(tags, w, d) = Raw(b)
    BY DEF Wide, b
  <2> QED
    BY <1>4, <2>1, <2>2 DEF HeadOf
<1> QED
  BY <1>2, <1>11, <1>12 DEF p

\* Encoders and decoders of one type, for a number that its widest form holds:
\* the tag written selects the width that is read.
LEMMA HeadRoundTrip ==
    ASSUME NEW tags, Unambiguous(tags),
           NEW d \in Numbers, \E v \in DOMAIN tags.wide : v >= Len(d),
           NEW S, NEW s \in Seq(S)
    PROVE  /\ Decode(tags, Encode(tags, d) \o s) = [val |-> d, rest |-> s]
           /\ HeadOf(tags, Encode(tags, d))
<1> DEFINE W == DOMAIN tags.wide
           p == Encode(tags, d) \o s
<1>1. d \in Seq(Octets) /\ Len(d) \in Nat /\ (Len(d) > 0 => d[1] \in Octets /\ d[1] # 0)
  <2>1. d \in Seq(Octets) /\ (Len(d) > 0 => d[1] # 0)
    BY DEF Numbers
  <2>2. Len(d) \in Nat
    BY <2>1, LenProperties
  <2>3. Len(d) > 0 => 1 \in 1..Len(d)
    BY <2>2
  <2> QED
    BY <2>1, <2>2, <2>3, ElementOfSeq
<1>2. /\ tags.first \in Octets /\ tags.last \in Octets /\ W \subseteq 1..8
      /\ \A v \in W : tags.wide[v] \in Octets /\ tags.wide[v] \notin tags.first..tags.last
      /\ \A v, w \in W : tags.wide[v] = tags.wide[w] => v = w
      /\ tags.first <= tags.last
  BY DEF Unambiguous, Octets
<1>3. CASE FitsTag(tags, d)
  <2> DEFINE c == tags.first + Size(d)
  <2>1. d = <<>> \/ (Len(d) = 1 /\ d[1] <= tags.last - tags.first)
    BY <1>3 DEF FitsTag
  <2>2. /\ Bytes(Size(d)) = d
        /\ c \in Octets /\ c \in tags.first..tags.last /\ c - tags.first = Size(d)
    BY <2>1, <1>1, <1>2, InTag
  <2>3. p = Raw(<<c>>) \o s
    BY <1>3 DEF Encode
  <2>4. <<c>> \in Seq(Octets) /\ Len(<<c>>) = 1 /\ <<c>>[1] = c
    BY <2>2
  <2>5. Byte(p, 1) = c /\ After(1, p) = s
    <3> HIDE DEF p, c
    <3>1. \A i \in 1..Len(<<c>>) : Byte(p, i) = <<c>>[i]
      BY <2>3, <2>4, RawRead
    <3>2. After(Len(<<c>>), p) = s
      BY <2>3, <2>4, RawRead
    <3> QED
      BY <3>1, <3>2, <2>4
  <2>6. Width(tags, c) = 0
    <3>1. {w \in W : tags.wide[w] = c} = {}
      BY <1>2, <2>2
    <3>2. Max({0}) = 0
      BY DEF Max
    <3>3. {0} \cup {w \in DOMAIN tags.wide : tags.wide[w] = c} = {0}
      BY <3>1
    <3> QED
      BY <3>2, <3>3 DEF Width
  <2> HIDE DEF p, c
  <2>7. Decode(tags, p) = [val |-> Bytes(c - tags.first), rest |-> After(1, p)]
    BY <2>2, <2>5, <2>6 DEF Decode, Unpack
  <2>8. HeadOf(tags, Encode(tags, d))
    <3>1. Len(<<c>>) > 0 /\ <<c>>[1] \in TagsOf(tags)
      BY <2>2, <2>4 DEF TagsOf
    <3>2. Encode(tags, d) = Raw(<<c>>)
      BY <1>3 DEF Encode, c
    <3> QED
      BY <2>4, <3>1, <3>2 DEF HeadOf
  <2> QED
    BY <2>1, <2>2, <2>5, <2>7, <2>8 DEF p
<1>4. CASE ~FitsTag(tags, d)
  <2> DEFINE V == {v \in W : v >= Len(d)}
             w == Min(V)
  <2>1. w \in W /\ Len(d) <= w
    <3>1. V \in SUBSET Nat /\ V # {}
      BY <1>2
    <3> HIDE DEF V
    <3>2. w \in V
      BY <3>1, LeastOf
    <3> QED
      BY <3>2, <1>2, <1>1 DEF V
  <2>2. Encode(tags, d) = Wide(tags, w, d)
    BY <1>4 DEF Encode, Wide
  <2> HIDE DEF w
  <2>3. /\ Decode(tags, Wide(tags, w, d) \o s) = [val |-> d, rest |-> s]
        /\ HeadOf(tags, Wide(tags, w, d))
    BY <2>1, WideRoundTrip
  <2> QED
    BY <2>2, <2>3
<1> QED
  BY <1>3, <1>4

\* The bytes of a size are a number, and the size can be computed from them.
LEMMA SizeOfBytes ==
    ASSUME NEW n \in Sizes
    PROVE  Bytes(n) \in Numbers /\ Len(Bytes(n)) <= 3 /\ Size(Bytes(n)) = n
<1>0. n \in Nat /\ n < 16777216
  BY SMT DEF Sizes
<1>1. CASE n = 0
  BY <1>1, SMT DEF Bytes, Numbers, Octets, Size, Place
<1>2. CASE n > 0 /\ n < 256
  <2>1. Bytes(n) = <<n>>
    BY <1>0, <1>2, SMT DEF Bytes
  <2> QED
    BY <1>0, <1>2, <2>1, SMT DEF Numbers, Octets, Size, Place
<1>3. CASE n >= 256 /\ n < 65536
  <2>1. n \div 256 \in 1..255 /\ n % 256 \in 0..255 /\ n = 256 * (n \div 256) + (n % 256)
    BY <1>0, <1>3, SMT
  <2>2. Bytes(n) = <<n \div 256, n % 256>>
    BY <1>0, <1>3, SMT DEF Bytes
  <2> QED
    BY <2>1, <2>2, SMT DEF Numbers, Octets, Size, Place
<1>4. CASE n >= 65536
  <2>1. n \div 65536 \in 1..255 /\ (n \div 256) % 256 \in 0..255 /\ n % 256 \in 0..255
    BY <1>0, <1>4, SMT
  <2>2. n = 65536 * (n \div 65536) + 256 * ((n \div 256) % 256) + (n % 256)
    <3>1. n = 256 * (n \div 256) + (n % 256)
      BY <1>0, SMT
    <3>2. n \div 256 = 256 * ((n \div 256) \div 256) + ((n \div 256) % 256)
      BY <1>0, SMT
    <3>3. (n \div 256) \div 256 = n \div 65536
      BY <1>0, SMT
    <3> QED
      BY <1>0, <3>1, <3>2, <3>3, SMT
  <2>3. Bytes(n) = <<n \div 65536, (n \div 256) % 256, n % 256>>
    BY <1>0, <1>4, SMT DEF Bytes
  <2> QED
    <3> DEFINE x == n \div 65536
               y == (n \div 256) % 256
               z == n % 256
    <3>1. Bytes(n) = <<x, y, z>> /\ n = 65536 * x + 256 * y + z
      BY <2>2, <2>3
    <3>2. x \in 1..255 /\ y \in 0..255 /\ z \in 0..255
      BY <2>1
    <3> HIDE DEF x, y, z
    <3>3. <<x, y, z>> \in Numbers
      BY <3>2, SMT DEF Numbers, Octets
    <3>4. Size(<<x, y, z>>) = 65536 * x + 256 * y + z
      BY <3>2, SMT DEF Size, Place
    <3> QED
      BY <3>1, <3>3, <3>4, SMT
<1> QED
  BY <1>0, <1>1, <1>2, <1>3, <1>4, SMT

\* mp_decode_uint returns the number that mp_encode_uint wrote, from one tag to
\* 64 bits, and leaves what follows it.
THEOREM NumbersAreReadBack ==
    ASSUME NEW d \in Numbers, NEW S, NEW s \in Seq(S)
    PROVE  mp_decode_uint(mp_encode_uint(d) \o s) = [val |-> d, rest |-> s]
<1>1. Len(d) \in 0..8
  BY DEF Numbers
<1>2. \E v \in DOMAIN UintTags.wide : v >= Len(d)
  <2>1. 8 \in DOMAIN UintTags.wide
    BY TagsUnambiguous
  <2>2. \A k \in 0..8 : 8 >= k
    OBVIOUS
  <2> QED
    BY <1>1, <2>1, <2>2, Zenon
<1> QED
  BY <1>2, TagsUnambiguous, HeadRoundTrip DEF mp_decode_uint, mp_encode_uint

\* The same of the sizes in the heads of arrays, maps and strings.
LEMMA SizeRoundTrip ==
    ASSUME NEW tags \in {ArrayTags, MapTags, StrTags}, NEW n \in Sizes,
           NEW S, NEW s \in Seq(S)
    PROVE  Sized(Decode(tags, Encode(tags, Bytes(n)) \o s)) = [val |-> n, rest |-> s]
<1>1. Bytes(n) \in Numbers /\ Len(Bytes(n)) <= 3 /\ Size(Bytes(n)) = n
  BY SizeOfBytes, Zenon
<1>2. Len(Bytes(n)) \in 0..8
  BY <1>1, Zenon DEF Numbers
<1>3. Unambiguous(tags) /\ 4 \in DOMAIN tags.wide
  BY TagsUnambiguous, SMT
<1>4. \E v \in DOMAIN tags.wide : v >= Len(Bytes(n))
  BY <1>1, <1>2, <1>3, SMT
<1>5. Decode(tags, Encode(tags, Bytes(n)) \o s) = [val |-> Bytes(n), rest |-> s]
  BY <1>1, <1>3, <1>4, HeadRoundTrip, Zenon
<1> QED
  BY <1>1, <1>5, SMT DEF Sized

\* mp_decode_array and mp_decode_map return the size that mp_encode_array and
\* mp_encode_map wrote, and go on at the first element.
THEOREM HeadsAreReadBack ==
    ASSUME NEW n \in Sizes, NEW S, NEW s \in Seq(S)
    PROVE  /\ mp_decode_array(mp_encode_array(n) \o s) = [val |-> n, rest |-> s]
           /\ mp_decode_map(mp_encode_map(n) \o s) = [val |-> n, rest |-> s]
<1>1. /\ Sized(Decode(ArrayTags, Encode(ArrayTags, Bytes(n)) \o s)) = [val |-> n, rest |-> s]
      /\ Sized(Decode(MapTags, Encode(MapTags, Bytes(n)) \o s)) = [val |-> n, rest |-> s]
  BY SizeRoundTrip, SMT
<1> QED
  BY <1>1, SMT DEF mp_decode_array, mp_encode_array, mp_decode_map, mp_encode_map

\* mp_decode_str returns the string that mp_encode_str wrote, however long it
\* is, and goes on behind it.
THEOREM StringsAreReadBack ==
    ASSUME NEW T, NEW t \in [text : T, len : Nat], t.len \in Sizes,
           NEW S, NEW s \in Seq(S)
    PROVE  mp_decode_str(mp_encode_str(t) \o s)
               = [val |-> IF t.len = 0 THEN NoText ELSE t, rest |-> s]
<1> DEFINE n == t.len
           e == Encode(StrTags, Bytes(n))
           tail == IF n = 0 THEN <<>> ELSE <<t>>
           D == [text : T, len : Nat] \cup S
<1>1. n \in Nat
  OBVIOUS
<1>2. s \in Seq(D) /\ t \in D
  BY SeqMonotonic, Zenon
<1>3. /\ tail \in Seq(D) /\ tail \o s \in Seq(D)
      /\ n = 0 => tail \o s = s
      /\ n # 0 => tail \o s # <<>> /\ (tail \o s)[1] = t /\ Tail(tail \o s) = s
  <2> HIDE DEF D, n
  <2>1. CASE n = 0
    <3>1. <<>> \in Seq(D) /\ <<>> \o s = s
      BY <1>2, EmptySeq, ConcatEmptySeq
    <3>2. tail = <<>>
      BY <2>1
    <3> QED
      BY <1>2, <2>1, <3>1, <3>2
  <2>2. CASE n # 0
    <3>1. <<t>> \in Seq(D) /\ <<t>> \o s \in Seq(D) /\ <<t>> \o s # <<>>
          /\ (<<t>> \o s)[1] = t
          /\ Tail(<<t>> \o s) = s
      BY <1>2
    <3>2. tail = <<t>>
      BY <2>2
    <3> QED
      BY <2>2, <3>1, <3>2
  <2> QED
    BY <2>1, <2>2
<1>4. Sized(Decode(StrTags, e \o (tail \o s))) = [val |-> n, rest |-> tail \o s]
  BY <1>1, <1>3, SizeRoundTrip, Zenon
<1>5. (e \o tail) \o s = e \o (tail \o s)
  OBVIOUS
<1>6. ~IsByte(t)
  BY DEF IsByte
<1>7. mp_decode_str(mp_encode_str(t) \o s) = Content([val |-> n, rest |-> tail \o s])
  BY <1>4, <1>5, Zenon DEF mp_decode_str, mp_encode_str
<1> HIDE DEF tail
<1>8. CASE n = 0
  BY <1>3, <1>7, <1>8 DEF Content, TextOf, Skip
<1>9. CASE n # 0
  <2>1. Ends(n, tail \o s)
    BY <1>3, <1>6, <1>9 DEF Ends
  <2> QED
    BY <1>3, <1>7, <1>9, <2>1 DEF Content, TextOf, Skip
<1> QED
  BY <1>8, <1>9

\* What check_iproto_status returns for an error and for another request's sync.
Denied == -1
OtherFrame == -2

\* Neither is the 0 of check_iproto_status for a reply that is the caller's own.
LEMMA Failures == Denied # 0 /\ OtherFrame # 0
BY DEF Denied, OtherFrame

\* What check_iproto_status makes of a pair.
LEMMA StatusStays ==
    ASSUME NEW c, NEW q, NEW want, c # 0
    PROVE  StatusStep([rc |-> c, rest |-> q, want |-> want]) = [rc |-> c, rest |-> q, want |-> want]
<1> DEFINE st == [rc |-> c, rest |-> q, want |-> want]
<1>1. st.rc # 0
  OBVIOUS
<1> HIDE DEF st
<1>2. StatusStep(st) = st
  BY <1>1 DEF StatusStep
<1> QED
  BY <1>2 DEF st

StatusAfter(q, want) ==
    LET k == mp_decode_uint(q)
        v == mp_decode_uint(k.rest)
    IN  [rc |-> IF k.val = <<>> THEN IF v.val = <<>> THEN 0 ELSE Denied
                ELSE IF k.val = <<1>> THEN IF v.val = want THEN 0 ELSE OtherFrame ELSE 0,
         rest |-> IF k.val \in {<<>>, <<1>>} THEN v.rest ELSE mp_next(k.rest), want |-> want]

\* A pair of the header with nothing wrong before it: the code, the sync or another.
LEMMA StatusPair ==
    ASSUME NEW q, NEW want, q # <<>>
    PROVE  StatusStep([rc |-> 0, rest |-> q, want |-> want]) = StatusAfter(q, want)
<1> DEFINE st == [rc |-> 0, rest |-> q, want |-> want]
<1>1. st.rc = 0 /\ st.rest = q /\ st.want = want
  OBVIOUS
<1> HIDE DEF st
<1>2. StatusStep(st) = StatusAfter(q, want)
  BY <1>1 DEF StatusStep, StatusAfter, Denied, OtherFrame, IPROTO_REQUEST_TYPE, IPROTO_SYNC
<1> QED
  BY <1>2 DEF st

Skipping == INSTANCE Iteration WITH Op <- NextStep

\* The cells of a frame: bytes, and the texts of the program and the calls.
Texts ==
    {"", "call", "value", "opensips", "active", "rtpe_call_upsert", "call_id", "node_id",
     "payload", "caller_ip", "caller_port", "callee_ip", "callee_port", "srtp_suite",
     "node", "caller", "callee", "AES_CM_128_HMAC_SHA1_80"} \cup Calls
Cells == [byte : Octets] \cup [text : Texts, len : Nat]
Buffers == Seq(Cells)

\* Frames are put together from parts in any grouping.
LEMMA Joined ==
    ASSUME NEW a \in Buffers, NEW b \in Buffers
    PROVE  /\ a \o b \in Buffers /\ Len(a \o b) = Len(a) + Len(b)
           /\ Len(a) \in Nat /\ Len(b) \in Nat
           /\ <<>> \in Buffers /\ a \o <<>> = a /\ <<>> \o a = a
BY ConcatProperties, LenProperties, EmptySeq, ConcatEmptySeq DEF Buffers

\* A buffer is the same in whatever order its parts were appended.
LEMMA Regrouped ==
    ASSUME NEW a \in Buffers, NEW b \in Buffers, NEW c \in Buffers
    PROVE  (a \o b) \o c = a \o (b \o c)
OBVIOUS

\* Bytes are cells.
LEMMA RawCells ==
    ASSUME NEW b \in Seq(Octets)
    PROVE  Raw(b) \in Buffers /\ Len(Raw(b)) = Len(b)
<1>1. Len(b) \in Nat /\ DOMAIN b = 1..Len(b) /\ \A i \in 1..Len(b) : b[i] \in Octets
  BY LenProperties, ElementOfSeq
<1>2. Raw(b) \in [1..Len(b) -> Cells]
  BY <1>1 DEF Raw, Cells
<1>3. Raw(b) \in Seq(Cells)
  BY <1>1, <1>2, SeqDef
<1> QED
  BY <1>1, <1>2, <1>3, LenProperties DEF Buffers

\* A head in front of a buffer is recognised by its first byte.
LEMMA HeadIs ==
    ASSUME NEW tags, NEW h, HeadOf(tags, h), NEW r \in Buffers
    PROVE  /\ h \in Buffers /\ Len(h) > 0 /\ h \o r \in Buffers /\ h \o r # <<>>
           /\ Byte(h \o r, 1) \in TagsOf(tags)
<1>1. PICK b \in Seq(Octets) : Len(b) > 0 /\ b[1] \in TagsOf(tags) /\ h = Raw(b)
  BY DEF HeadOf
<1>2. h \in Buffers /\ Len(h) = Len(b) /\ Len(h) \in Nat /\ Len(r) \in Nat
  BY <1>1, RawCells, Joined
<1>3. h \o r \in Buffers /\ Len(h \o r) = Len(h) + Len(r)
  BY <1>2, Joined
<1>4. h \o r # <<>>
  <2> DEFINE p == h \o r
  <2>1. Len(p) > 0
    BY <1>1, <1>2, <1>3
  <2> HIDE DEF p
  <2>2. p # <<>>
    BY <2>1
  <2> QED
    BY <2>2 DEF p
<1>5. Byte(h \o r, 1) = b[1]
  <2> DEFINE p == Raw(b) \o r
  <2>1. \A i \in 1..Len(b) : Byte(p, i) = b[i]
    BY RawRead DEF Buffers
  <2>2. 1 \in 1..Len(b)
    BY <1>1, <1>2
  <2>3. p = h \o r
    BY <1>1
  <2> HIDE DEF p
  <2> QED
    BY <2>1, <2>2, <2>3
<1> QED
  BY <1>1, <1>2, <1>3, <1>4, <1>5

\* The tags of the types are all different.
LEMMA TagSets ==
    /\ TagsOf(UintTags) = 0..127 \cup 204..207
    /\ TagsOf(StrTags) = 160..191 \cup 217..219
    /\ TagsOf(ArrayTags) = 144..159 \cup 220..221
    /\ TagsOf(MapTags) = 128..143 \cup 222..223
    /\ TagsOf(BinTags) = 196..198
    /\ TagsOf(IntTags) = 224..255 \cup 208..211
<1>1. TagsOf(UintTags) = 0..127 \cup 204..207
  BY DEF TagsOf, UintTags, Wides, Power
<1>2. TagsOf(StrTags) = 160..191 \cup 217..219
  BY DEF TagsOf, StrTags, Wides, Power
<1>3. TagsOf(ArrayTags) = 144..159 \cup 220..221
  BY DEF TagsOf, ArrayTags, Wides, Power
<1>4. TagsOf(MapTags) = 128..143 \cup 222..223
  BY DEF TagsOf, MapTags, Wides, Power
<1>5. TagsOf(BinTags) = 196..198
  BY DEF TagsOf, BinTags, Wides, Power
<1>6. TagsOf(IntTags) = 224..255 \cup 208..211
  BY DEF TagsOf, IntTags, Wides, Power
<1> QED
  BY <1>1, <1>2, <1>3, <1>4, <1>5, <1>6

\* mp_next goes by the type of the first byte.
LEMMA ElementsByTag ==
    ASSUME NEW s
    PROVE  /\ Is(ArrayTags, s) => Elements(s) = mp_decode_array(s)
           /\ Is(MapTags, s) => Elements(s) = [mp_decode_map(s) EXCEPT !.val = 2 * @]
           /\ Is(StrTags, s) => Elements(s) = [mp_decode_str(s) EXCEPT !.val = 0]
           /\ Is(UintTags, s) => Elements(s) = [mp_decode_uint(s) EXCEPT !.val = 0]
<1> DEFINE c == Byte(s, 1)
<1>1. \A tags : Is(tags, s) <=> c \in TagsOf(tags)
  BY DEF Is, TagsOf
<1> HIDE DEF c
<1>2. /\ Is(ArrayTags, s) => ~Is(MapTags, s) /\ ~Is(StrTags, s) /\ ~Is(BinTags, s) /\ ~Is(IntTags, s)
      /\ Is(MapTags, s) => ~Is(ArrayTags, s) /\ ~Is(StrTags, s) /\ ~Is(BinTags, s) /\ ~Is(IntTags, s)
      /\ Is(StrTags, s) => ~Is(MapTags, s) /\ ~Is(ArrayTags, s) /\ ~Is(BinTags, s) /\ ~Is(IntTags, s)
      /\ Is(UintTags, s) => ~Is(MapTags, s) /\ ~Is(ArrayTags, s) /\ ~Is(BinTags, s) /\ ~Is(IntTags, s)
                            /\ ~Is(StrTags, s)
  <2>1. /\ TagsOf(ArrayTags) \cap (TagsOf(MapTags) \cup TagsOf(StrTags) \cup TagsOf(BinTags)
                                     \cup TagsOf(IntTags)) = {}
        /\ TagsOf(MapTags) \cap (TagsOf(StrTags) \cup TagsOf(BinTags) \cup TagsOf(IntTags)) = {}
        /\ TagsOf(StrTags) \cap (TagsOf(BinTags) \cup TagsOf(IntTags)) = {}
        /\ TagsOf(UintTags) \cap (TagsOf(ArrayTags) \cup TagsOf(MapTags) \cup TagsOf(StrTags)
                                    \cup TagsOf(BinTags) \cup TagsOf(IntTags)) = {}
    BY TagSets
  <2> QED
    BY <1>1, <2>1
<1> QED
  BY <1>2 DEF Elements

\* What a part of a frame is to its reader: a number, a string, or the head of
\* an array or a map, whatever follows.
Strs == {t \in [text : Texts, len : Nat] : t.len \in Sizes}
Shown(t) == IF t.len = 0 THEN NoText ELSE t
IsUint(h, d) ==
    /\ h \in Buffers /\ Len(h) > 0
    /\ \A r \in Buffers : h \o r # <<>> /\ Is(UintTags, h \o r)
                         /\ mp_decode_uint(h \o r) = [val |-> d, rest |-> r]
IsStr(h, t) ==
    /\ h \in Buffers /\ Len(h) > 0
    /\ \A r \in Buffers : h \o r # <<>> /\ Is(StrTags, h \o r)
                         /\ mp_decode_str(h \o r) = [val |-> Shown(t), rest |-> r]
IsArray(h, n) ==
    /\ h \in Buffers /\ Len(h) > 0
    /\ \A r \in Buffers : h \o r # <<>> /\ Is(ArrayTags, h \o r)
                         /\ mp_decode_array(h \o r) = [val |-> n, rest |-> r]
IsMap(h, n) ==
    /\ h \in Buffers /\ Len(h) > 0
    /\ \A r \in Buffers : h \o r # <<>> /\ Is(MapTags, h \o r)
                         /\ mp_decode_map(h \o r) = [val |-> n, rest |-> r]

\* A head of a type in front of any buffer.
LEMMA HeadAt ==
    ASSUME NEW tags, NEW h, HeadOf(tags, h)
    PROVE  /\ h \in Buffers /\ Len(h) > 0
           /\ \A r \in Buffers : h \o r # <<>> /\ Is(tags, h \o r)
<1>1. <<>> \in Buffers
  BY EmptySeq DEF Buffers
<1>2. h \in Buffers /\ Len(h) > 0
  BY <1>1, HeadIs
<1>3. ASSUME NEW r \in Buffers PROVE h \o r # <<>> /\ Is(tags, h \o r)
  <2> DEFINE p == h \o r
  <2>1. p # <<>> /\ Byte(p, 1) \in TagsOf(tags)
    BY HeadIs
  <2> HIDE DEF p
  <2>2. Is(tags, p)
    BY <2>1 DEF Is, TagsOf
  <2> QED
    BY <2>1, <2>2 DEF p
<1> QED
  BY <1>2, <1>3

\* mp_encode_uint, and the wide forms in the headers of the server.
LEMMA UintEncodings ==
    ASSUME NEW d \in Numbers
    PROVE  /\ IsUint(mp_encode_uint(d), d)
           /\ \A w \in {4, 8} : Len(d) <= w => IsUint(Wide(UintTags, w, d), d)
<1>1. Len(d) \in 0..8
  BY DEF Numbers
<1>2. Unambiguous(UintTags) /\ DOMAIN UintTags.wide = {1, 2, 4, 8}
  BY TagsUnambiguous
<1>3. \E v \in DOMAIN UintTags.wide : v >= Len(d)
  <2>1. 8 \in DOMAIN UintTags.wide
    BY <1>2
  <2>2. 8 >= Len(d)
    <3>1. \A k \in 0..8 : 8 >= k
      OBVIOUS
    <3> QED
      BY <1>1, <3>1, Zenon
  <2> QED
    BY <2>1, <2>2, Zenon
<1>4. IsUint(mp_encode_uint(d), d)
  <2> DEFINE h == mp_encode_uint(d)
  <2>1. HeadOf(UintTags, h)
    BY <1>2, <1>3, HeadRoundTrip, EmptySeq DEF mp_encode_uint
  <2>2. \A r \in Buffers : mp_decode_uint(h \o r) = [val |-> d, rest |-> r]
    BY NumbersAreReadBack DEF Buffers
  <2> HIDE DEF h
  <2>3. IsUint(h, d)
    BY <2>1, <2>2, HeadAt DEF IsUint
  <2> QED
    BY <2>3 DEF h
<1>5. ASSUME NEW w \in {4, 8}, Len(d) <= w PROVE IsUint(Wide(UintTags, w, d), d)
  <2> DEFINE h == Wide(UintTags, w, d)
  <2>0. w \in DOMAIN UintTags.wide
    BY <1>2
  <2>1. HeadOf(UintTags, h)
    BY <1>2, <1>5, <2>0, WideRoundTrip, EmptySeq, Zenon
  <2>2. \A r \in Buffers : mp_decode_uint(h \o r) = [val |-> d, rest |-> r]
    <3>1. ASSUME NEW r \in Seq(Cells)
          PROVE  Decode(UintTags, Wide(UintTags, w, d) \o r) = [val |-> d, rest |-> r]
      BY <1>2, <1>5, <2>0, WideRoundTrip, Zenon
    <3> QED
      BY <3>1, Zenon DEF Buffers, mp_decode_uint
  <2> HIDE DEF h
  <2>3. IsUint(h, d)
    BY <2>1, <2>2, HeadAt DEF IsUint
  <2> QED
    BY <2>3 DEF h
<1> QED
  BY <1>4, <1>5

\* The heads of arrays and maps, and the wide array of a reply.
LEMMA HeadEncodings ==
    ASSUME NEW n \in Sizes
    PROVE  /\ IsArray(mp_encode_array(n), n) /\ IsArray(Wide(ArrayTags, 4, Bytes(n)), n)
           /\ IsMap(mp_encode_map(n), n)
<1>1. Bytes(n) \in Numbers /\ Len(Bytes(n)) <= 3 /\ Size(Bytes(n)) = n
  BY SizeOfBytes, Zenon
<1>2. Len(Bytes(n)) \in 0..8
  BY <1>1, Zenon DEF Numbers
<1> DEFINE d == Bytes(n)
<1> HIDE DEF d
<1>3. /\ Unambiguous(ArrayTags) /\ 4 \in DOMAIN ArrayTags.wide
      /\ Unambiguous(MapTags) /\ 4 \in DOMAIN MapTags.wide
  BY TagsUnambiguous, SMT
<1>4. d \in Numbers /\ Len(d) <= 4 /\ Size(d) = n /\ 4 >= Len(d)
  BY <1>1, <1>2, SMT DEF d
<1>5. /\ \E v \in DOMAIN ArrayTags.wide : v >= Len(d)
      /\ \E v \in DOMAIN MapTags.wide : v >= Len(d)
  BY <1>3, <1>4, Zenon
<1>6. HeadOf(ArrayTags, Encode(ArrayTags, d)) /\ HeadOf(MapTags, Encode(MapTags, d))
  BY <1>3, <1>4, <1>5, HeadRoundTrip, EmptySeq, Zenon
<1>7. HeadOf(ArrayTags, Wide(ArrayTags, 4, d))
  BY <1>3, <1>4, WideRoundTrip, EmptySeq, Zenon
<1>8. \A r \in Buffers : Decode(ArrayTags, Wide(ArrayTags, 4, d) \o r) = [val |-> d, rest |-> r]
  BY <1>3, <1>4, WideRoundTrip, Zenon DEF Buffers
<1>9. \A r \in Buffers : mp_decode_array(Wide(ArrayTags, 4, d) \o r) = [val |-> n, rest |-> r]
  BY <1>4, <1>8, SMT DEF mp_decode_array, Sized
<1>10. \A r \in Buffers :
          /\ mp_decode_array(mp_encode_array(n) \o r) = [val |-> n, rest |-> r]
          /\ mp_decode_map(mp_encode_map(n) \o r) = [val |-> n, rest |-> r]
  BY HeadsAreReadBack, Zenon DEF Buffers
<1>11. HeadOf(ArrayTags, mp_encode_array(n)) /\ HeadOf(MapTags, mp_encode_map(n))
  BY <1>6, Zenon DEF mp_encode_array, mp_encode_map, d
<1>12. IsArray(mp_encode_array(n), n)
  BY <1>10, <1>11, HeadAt, Zenon DEF IsArray
<1>13. IsMap(mp_encode_map(n), n)
  BY <1>10, <1>11, HeadAt, Zenon DEF IsMap
<1>14. IsArray(Wide(ArrayTags, 4, d), n)
  BY <1>7, <1>9, HeadAt, Zenon DEF IsArray
<1> QED
  BY <1>12, <1>13, <1>14, Zenon DEF d

\* mp_encode_str.
LEMMA StrEncodings ==
    ASSUME NEW t \in Strs
    PROVE  IsStr(mp_encode_str(t), t)
<1> DEFINE n == t.len
           d == Bytes(n)
           e == Encode(StrTags, d)
           tail == IF n = 0 THEN <<>> ELSE <<t>>
<1>1. n \in Sizes /\ t \in Cells
  BY Zenon DEF Strs, Cells
<1>2. d \in Numbers /\ Len(d) <= 3
  BY <1>1, SizeOfBytes, Zenon
<1>3. Len(d) \in 0..8
  BY <1>2, Zenon DEF Numbers
<1>4. Unambiguous(StrTags) /\ 4 \in DOMAIN StrTags.wide
  BY TagsUnambiguous, SMT
<1>5. \E v \in DOMAIN StrTags.wide : v >= Len(d)
  <2> HIDE DEF d
  <2> QED
    BY <1>2, <1>3, <1>4, SMT
<1>6. HeadOf(StrTags, e)
  BY <1>2, <1>4, <1>5, HeadRoundTrip, EmptySeq, Zenon
<1>7. tail \in Buffers
  <2> HIDE DEF n
  <2> QED
    BY <1>1, SMT DEF Buffers
<1>8. mp_encode_str(t) = e \o tail
  BY Zenon DEF mp_encode_str
<1>9. \A r \in Buffers : mp_decode_str(mp_encode_str(t) \o r) = [val |-> Shown(t), rest |-> r]
  BY <1>1, StringsAreReadBack, Zenon DEF Strs, Buffers, Shown
<1> HIDE DEF e, tail, n, d
<1> DEFINE h == mp_encode_str(t)
<1>10. h \in Buffers /\ Len(h) > 0
  <2>1. e \in Buffers /\ Len(e) > 0
    BY <1>6, HeadAt, Zenon
  <2>2. e \o tail \in Buffers /\ Len(e \o tail) = Len(e) + Len(tail)
        /\ Len(e) \in Nat /\ Len(tail) \in Nat
    BY <2>1, <1>7, Joined, Zenon
  <2> QED
    BY <1>8, <2>1, <2>2
<1>11. ASSUME NEW r \in Buffers PROVE h \o r # <<>> /\ Is(StrTags, h \o r)
  <2>1. h \o r = e \o (tail \o r)
    BY <1>8
  <2>2. tail \o r \in Buffers
    BY <1>7, Joined, Zenon
  <2>3. e \o (tail \o r) # <<>> /\ Is(StrTags, e \o (tail \o r))
    BY <1>6, <2>2, HeadAt, Zenon
  <2> HIDE DEF h
  <2> QED
    BY <2>1, <2>3
<1> HIDE DEF h
<1>12. IsStr(h, t)
  BY <1>9, <1>10, <1>11, Zenon DEF IsStr, h
<1> QED
  BY <1>12, Zenon DEF h

\* One round of mp_next: the head h announces n further objects.
Announces(h, n) ==
    /\ h \in Buffers /\ Len(h) > 0 /\ n \in Nat
    /\ \A r \in Buffers, j \in Nat :
           NextStep([todo |-> j + 1, rest |-> h \o r]) = [todo |-> j + n, rest |-> r]

\* m rounds of mp_next with j objects to skip.
SkipRounds(j, s, m) == Skipping!Repeated([todo |-> j, rest |-> s], m)

\* o is k objects: mp_next goes over them, in as many rounds as o has cells at
\* most.
Skips(k, o) ==
    /\ o \in Buffers /\ k \in Nat
    /\ \E c \in Nat : c <= Len(o) /\ \A r \in Buffers, j \in Nat, m \in Nat :
           SkipRounds(j + k, o \o r, m + c) = SkipRounds(j, r, m)

\* A head with n elements makes mp_next owe n objects instead of one.
LEMMA HeadStep ==
    ASSUME NEW h \in Buffers, Len(h) > 0, NEW n \in Nat,
           \A r \in Buffers : h \o r # <<>> /\ Elements(h \o r) = [val |-> n, rest |-> r]
    PROVE  Announces(h, n)
<1>1. ASSUME NEW r \in Buffers, NEW j \in Nat
      PROVE  NextStep([todo |-> j + 1, rest |-> h \o r]) = [todo |-> j + n, rest |-> r]
  <2> DEFINE p == h \o r
             st == [todo |-> j + 1, rest |-> p]
  <2>1. p # <<>> /\ Elements(p) = [val |-> n, rest |-> r]
    OBVIOUS
  <2> HIDE DEF p
  <2>2. st.todo = j + 1 /\ st.rest = p /\ st.todo # 0 /\ st.todo - 1 + n = j + n
    OBVIOUS
  <2> HIDE DEF st
  <2>3. NextStep(st) = [todo |-> j + n, rest |-> r]
    BY <2>1, <2>2 DEF NextStep
  <2> QED
    BY <2>3 DEF st, p
<1> QED
  BY <1>1 DEF Announces

\* The heads of the encoders say to mp_next what they announce.
LEMMA HeadsAnnounce ==
    ASSUME NEW h, NEW x
    PROVE  /\ IsUint(h, x) => Announces(h, 0)
           /\ IsStr(h, x) => Announces(h, 0)
           /\ IsArray(h, x) /\ x \in Nat => Announces(h, x)
           /\ IsMap(h, x) /\ x \in Nat => Announces(h, 2 * x)
<1>1. ASSUME IsUint(h, x) PROVE Announces(h, 0)
  <2>1. ASSUME NEW r \in Buffers PROVE Elements(h \o r) = [val |-> 0, rest |-> r]
    BY <1>1, ElementsByTag DEF IsUint
  <2> QED
    BY <1>1, <2>1, HeadStep DEF IsUint
<1>2. ASSUME IsStr(h, x) PROVE Announces(h, 0)
  <2>1. ASSUME NEW r \in Buffers PROVE Elements(h \o r) = [val |-> 0, rest |-> r]
    BY <1>2, ElementsByTag DEF IsStr
  <2> QED
    BY <1>2, <2>1, HeadStep DEF IsStr
<1>3. ASSUME IsArray(h, x), x \in Nat PROVE Announces(h, x)
  <2>1. ASSUME NEW r \in Buffers PROVE Elements(h \o r) = [val |-> x, rest |-> r]
    BY <1>3, ElementsByTag DEF IsArray
  <2> QED
    BY <1>3, <2>1, HeadStep DEF IsArray
<1>4. ASSUME IsMap(h, x), x \in Nat PROVE Announces(h, 2 * x)
  <2>1. ASSUME NEW r \in Buffers PROVE Elements(h \o r) = [val |-> 2 * x, rest |-> r]
    BY <1>4, ElementsByTag DEF IsMap
  <2>2. 2 * x \in Nat
    BY <1>4
  <2> QED
    BY <1>4, <2>1, <2>2, HeadStep DEF IsMap
<1> QED
  BY <1>1, <1>2, <1>3, <1>4

\* Nothing to skip, and nothing is skipped.
LEMMA SkipsNone == Skips(0, <<>>)
<1>1. <<>> \in Buffers /\ Len(<<>>) = 0 /\ \A r \in Buffers : <<>> \o r = r
  BY EmptySeq, ConcatEmptySeq DEF Buffers
<1>2. \A r \in Buffers, j \in Nat, m \in Nat :
          SkipRounds(j + 0, <<>> \o r, m + 0) = SkipRounds(j, r, m)
  BY <1>1
<1> QED
  BY <1>1, <1>2 DEF Skips

\* mp_next skips objects that follow one another one after the other.
LEMMA SkipsBoth ==
    ASSUME NEW k, NEW a, Skips(k, a), NEW l, NEW b, Skips(l, b)
    PROVE  Skips(k + l, a \o b)
<1>1. k \in Nat /\ l \in Nat /\ a \in Buffers /\ b \in Buffers
  BY DEF Skips
<1>2. PICK c \in Nat : c <= Len(a) /\ \A r \in Buffers, j \in Nat, m \in Nat :
           SkipRounds(j + k, a \o r, m + c) = SkipRounds(j, r, m)
  BY DEF Skips
<1>3. PICK e \in Nat : e <= Len(b) /\ \A r \in Buffers, j \in Nat, m \in Nat :
           SkipRounds(j + l, b \o r, m + e) = SkipRounds(j, r, m)
  BY DEF Skips
<1>4. ASSUME NEW r \in Buffers, NEW j \in Nat, NEW m \in Nat
      PROVE  SkipRounds(j + (k + l), (a \o b) \o r, m + (c + e)) = SkipRounds(j, r, m)
  <2>1. b \o r \in Buffers /\ (a \o b) \o r = a \o (b \o r)
    <3>1. b \o r \in Buffers
      BY <1>1, Joined, Zenon
    <3>2. (a \o b) \o r = a \o (b \o r)
      OBVIOUS
    <3> QED
      BY <3>1, <3>2
  <2>2. j + l \in Nat /\ j + (k + l) = (j + l) + k /\ m + e \in Nat
        /\ m + (c + e) = (m + e) + c
    BY <1>1
  <2>3. SkipRounds((j + l) + k, a \o (b \o r), (m + e) + c) = SkipRounds(j + l, b \o r, m + e)
    BY <1>2, <2>1, <2>2
  <2>4. SkipRounds(j + l, b \o r, m + e) = SkipRounds(j, r, m)
    BY <1>3
  <2> QED
    BY <2>1, <2>2, <2>3, <2>4
<1>5. a \o b \in Buffers /\ Len(a \o b) = Len(a) + Len(b) /\ Len(a) \in Nat /\ Len(b) \in Nat
  BY <1>1, Joined
<1>6. c + e \in Nat /\ c + e <= Len(a \o b) /\ k + l \in Nat
  BY <1>1, <1>2, <1>3, <1>5
<1> QED
  BY <1>4, <1>5, <1>6 DEF Skips

\* A head and the objects it announces are one object.
LEMMA SkipsHead ==
    ASSUME NEW h, NEW n, Announces(h, n), NEW o, Skips(n, o)
    PROVE  Skips(1, h \o o)
<1>1. h \in Buffers /\ Len(h) > 0 /\ n \in Nat /\ o \in Buffers
  BY DEF Announces, Skips
<1>2. PICK c \in Nat : c <= Len(o) /\ \A r \in Buffers, j \in Nat, m \in Nat :
           SkipRounds(j + n, o \o r, m + c) = SkipRounds(j, r, m)
  BY DEF Skips
<1>3. ASSUME NEW r \in Buffers, NEW j \in Nat, NEW m \in Nat
      PROVE  SkipRounds(j + 1, (h \o o) \o r, m + (c + 1)) = SkipRounds(j, r, m)
  <2>1. o \o r \in Buffers /\ (h \o o) \o r = h \o (o \o r)
    <3>1. o \o r \in Buffers
      BY <1>1, Joined, Zenon
    <3>2. (h \o o) \o r = h \o (o \o r)
      OBVIOUS
    <3> QED
      BY <3>1, <3>2
  <2>2. m + c \in Nat /\ m + (c + 1) = (m + c) + 1
    BY <1>2
  <2> DEFINE st == [todo |-> j + 1, rest |-> h \o (o \o r)]
  <2>3. NextStep(st) = [todo |-> j + n, rest |-> o \o r]
    BY <2>1 DEF Announces
  <2> HIDE DEF st
  <2>4. Skipping!Repeated(st, (m + c) + 1) = Skipping!Repeated(NextStep(st), m + c)
    BY <2>2, Skipping!FirstRound
  <2>5. SkipRounds(j + 1, h \o (o \o r), (m + c) + 1) = SkipRounds(j + n, o \o r, m + c)
    BY <2>3, <2>4 DEF SkipRounds, st
  <2>6. SkipRounds(j + n, o \o r, m + c) = SkipRounds(j, r, m)
    BY <1>2
  <2> QED
    BY <2>1, <2>2, <2>5, <2>6
<1>4. h \o o \in Buffers /\ Len(h \o o) = Len(h) + Len(o) /\ Len(h) \in Nat /\ Len(o) \in Nat
  BY <1>1, Joined
<1>5. c + 1 \in Nat /\ c + 1 <= Len(h \o o)
  BY <1>1, <1>2, <1>4
<1> QED
  BY <1>3, <1>4, <1>5 DEF Skips

\* mp_next moves behind the object and no further.
LEMMA NextSkipsObject ==
    ASSUME NEW o, Skips(1, o), NEW r \in Buffers
    PROVE  mp_next(o \o r) = r
<1>1. PICK c \in Nat : c <= Len(o) /\ \A q \in Buffers, j \in Nat, m \in Nat :
           SkipRounds(j + 1, o \o q, m + c) = SkipRounds(j, q, m)
  BY DEF Skips
<1>2. o \in Buffers
  BY DEF Skips
<1> DEFINE p == o \o r
           m == Len(p) - c
<1>3. p \in Buffers /\ Len(p) = Len(o) + Len(r) /\ Len(o) \in Nat /\ Len(r) \in Nat
  BY <1>2, Joined
<1> HIDE DEF p
<1>4. m \in Nat /\ m + c = Len(p) /\ 0 + 1 = 1
  BY <1>1, <1>3
<1> HIDE DEF m
<1>5. SkipRounds(0 + 1, p, m + c) = SkipRounds(0, r, m)
  BY <1>1, <1>4 DEF p
<1>6. mp_next(p) = SkipRounds(1, p, Len(p)).rest
  BY DEF mp_next, Times, SkipRounds, Skipping!Repeated
<1> DEFINE st == [todo |-> 0, rest |-> r]
<1>7. NextStep(st) = st
  BY DEF NextStep
<1>8. Skipping!Repeated(st, m) = st
  <2> HIDE DEF st
  <2> QED
    BY <1>4, <1>7, Skipping!Idles
<1>9. SkipRounds(0, r, m).rest = r
  BY <1>8 DEF SkipRounds
<1> QED
  BY <1>4, <1>5, <1>6, <1>9 DEF p

\* f[i] is the first i of the sequences, put together.
Cat(a, b) == a \o b
Flat(f, seqs, n) == f[1] = seqs[1] /\ \A i \in 2..n : f[i] = Cat(f[i - 1], seqs[i])

\* The parts of a frame have the sequence of their concatenations.
LEMMA FlatRuns ==
    ASSUME NEW seqs, NEW n \in Nat
    PROVE  \E f : Flat(f, seqs, n)
<1> DEFINE R(m) == \E f : Flat(f, seqs, m)
           B == {m \in Nat : ~ R(m)}
<1>1. R(0) /\ R(1)
  <2> DEFINE f == [i \in {1} |-> seqs[1]]
  <2>1. Flat(f, seqs, 0) /\ Flat(f, seqs, 1)
    BY DEF Flat
  <2> QED
    BY <2>1
<1>2. ASSUME NEW m \in Nat, R(m) PROVE R(m + 1)
  <2>1. PICK f : Flat(f, seqs, m)
    BY <1>2
  <2> DEFINE g == [i \in 1..(m + 1) |-> IF i = 1 THEN seqs[1]
                                        ELSE IF i = m + 1 THEN Cat(f[m], seqs[i]) ELSE f[i]]
  <2>2. g[1] = seqs[1]
    OBVIOUS
  <2>3. ASSUME NEW i \in 2..(m + 1) PROVE g[i] = Cat(g[i - 1], seqs[i])
    BY <2>1 DEF Flat
  <2>4. Flat(g, seqs, m + 1)
    BY <2>2, <2>3 DEF Flat
  <2> QED
    BY <2>4
<1> HIDE DEF R
<1>3. ASSUME B # {} PROVE FALSE
  <2>1. B \subseteq Nat
    OBVIOUS
  <2>2. PICK m \in B : \A i \in B : ~ i < m
    BY <1>3, <2>1, Skipping!Least
  <2>3. m \in Nat /\ ~ R(m) /\ m # 0
    BY <2>2, <1>1
  <2>4. m - 1 \in Nat /\ m - 1 < m /\ (m - 1) + 1 = m
    BY <2>3
  <2>5. R(m - 1)
    BY <2>2, <2>4
  <2> QED
    BY <1>2, <2>3, <2>4, <2>5
<1>4. R(n)
  BY <1>3
<1> QED
  BY <1>4 DEF R

\* FlattenSeq is the last of the concatenations of the parts.
LEMMA FlatUnfolds ==
    ASSUME NEW S, NEW seqs \in Seq(S), NEW n \in Nat \ {0}, Len(seqs) = n
    PROVE  \E f : Flat(f, seqs, n) /\ FlattenSeq(seqs) = f[n]
<1> DEFINE T(f) == f = [i \in 1..n |-> IF i = 1 THEN seqs[i] ELSE Cat(f[i - 1], seqs[i])]
           h == CHOOSE f : T(f)
<1>1. PICK f : Flat(f, seqs, n)
  BY FlatRuns
<1>2. T([i \in 1..n |-> f[i]])
  <2> DEFINE g == [i \in 1..n |-> f[i]]
  <2>1. \A i \in 1..n : g[i] = IF i = 1 THEN seqs[i] ELSE Cat(g[i - 1], seqs[i])
    BY <1>1 DEF Flat
  <2> QED
    BY <2>1
<1>3. T(h)
  BY <1>2
<1>4. Flat(h, seqs, n)
  <2> HIDE DEF h
  <2>1. \A i \in 1..n : h[i] = IF i = 1 THEN seqs[i] ELSE Cat(h[i - 1], seqs[i])
    BY <1>3
  <2> QED
    BY <2>1 DEF Flat
<1>5. FlattenSeq(seqs) = h[n]
  BY DEF FlattenSeq, Cat
<1> QED
  BY <1>4, <1>5

\* A single part is the whole.
LEMMA Flatten1 ==
    ASSUME NEW a
    PROVE  FlattenSeq(<<a>>) = a
<1> DEFINE s == <<a>>
<1>1. s \in Seq({a}) /\ Len(s) = 1 /\ s[1] = a /\ 1 \in Nat \ {0}
  OBVIOUS
<1> HIDE DEF s
<1>2. PICK f : Flat(f, s, 1) /\ FlattenSeq(s) = f[1]
  BY <1>1, FlatUnfolds, Zenon
<1> QED
  BY <1>1, <1>2 DEF Flat, s

\* The numbers of a part of a request follow one another.
LEMMA UintsOf ==
    ASSUME NEW n \in Nat \ {0}, NEW ds \in Seq(Numbers), Len(ds) = n
    PROVE  \E f : /\ f[1] = mp_encode_uint(ds[1]) /\ Uints(ds) = f[n]
                  /\ \A i \in 2..n : f[i] = Cat(f[i - 1], mp_encode_uint(ds[i]))
<1> DEFINE u == [i \in DOMAIN ds |-> mp_encode_uint(ds[i])]
<1>1. DOMAIN ds = 1..n /\ \A i \in 1..n : ds[i] \in Numbers
  BY LenProperties, ElementOfSeq
<1>2. u \in [1..n -> Buffers] /\ \A i \in 1..n : u[i] = mp_encode_uint(ds[i])
  BY <1>1, UintEncodings DEF IsUint
<1>3. Uints(ds) = FlattenSeq(u)
  BY DEF Uints
<1> HIDE DEF u
<1>4. u \in Seq(Buffers)
  BY <1>2, SeqDef
<1>5. Len(u) = n
  BY <1>2, <1>4, LenProperties
<1>6. PICK f : Flat(f, u, n) /\ FlattenSeq(u) = f[n]
  BY <1>4, <1>5, FlatUnfolds
<1>7. 1 \in 1..n /\ \A i \in 2..n : i \in 1..n
  OBVIOUS
<1> QED
  BY <1>2, <1>3, <1>6, <1>7 DEF Flat

\* One number and three numbers of a request.
LEMMA Uints1 ==
    ASSUME NEW a \in Numbers
    PROVE  Uints(<<a>>) = mp_encode_uint(a)
<1> DEFINE s == <<a>>
<1>1. s \in Seq(Numbers) /\ Len(s) = 1 /\ s[1] = a /\ 1 \in Nat \ {0}
  OBVIOUS
<1> HIDE DEF s
<1>2. Uints(s) = mp_encode_uint(a)
  BY <1>1, UintsOf, Zenon
<1> QED
  BY <1>2 DEF s

\* The three numbers of a part of a request, as the tuple of tarantool_set has them.
LEMMA Uints3 ==
    ASSUME NEW a \in Numbers, NEW b \in Numbers, NEW c \in Numbers
    PROVE  Uints(<<a, b, c>>) = Cat(Cat(mp_encode_uint(a), mp_encode_uint(b)), mp_encode_uint(c))
<1> DEFINE s == <<a, b, c>>
<1>1. s \in Seq(Numbers) /\ Len(s) = 3 /\ s[1] = a /\ s[2] = b /\ s[3] = c /\ 3 \in Nat \ {0}
  OBVIOUS
<1> HIDE DEF s
<1>2. PICK f : /\ f[1] = mp_encode_uint(s[1]) /\ Uints(s) = f[3]
               /\ \A i \in 2..3 : f[i] = Cat(f[i - 1], mp_encode_uint(s[i]))
  BY <1>1, UintsOf, Zenon
<1>3. f[2] = Cat(f[1], mp_encode_uint(s[2])) /\ f[3] = Cat(f[2], mp_encode_uint(s[3]))
  BY <1>2
<1> QED
  BY <1>1, <1>2, <1>3 DEF s

Checking == INSTANCE Iteration WITH Op <- StatusStep
Passing == INSTANCE Iteration WITH Op <- PastPair
Resolving == INSTANCE Iteration WITH Op <- SpaceStep
Syncing == INSTANCE Iteration WITH Op <- SyncStep

\* Frames are appended part by part, as a pointer moves through a buffer.
LEMMA CatFacts ==
    /\ \A a, b \in Buffers : Cat(a, b) \in Buffers
    /\ \A a, b, c \in Buffers : Cat(Cat(a, b), c) = Cat(a, Cat(b, c))
    /\ \A a \in Buffers : Cat(a, <<>>) = a
    /\ <<>> \in Buffers
<1>1. \A a, b \in Buffers : Cat(a, b) \in Buffers
  BY Joined, Zenon DEF Cat
<1>2. \A a, b, c \in Buffers : Cat(Cat(a, b), c) = Cat(a, Cat(b, c))
  BY Regrouped, Zenon DEF Cat
<1>3. \A a \in Buffers : Cat(a, <<>>) = a
  BY Joined, Zenon DEF Cat
<1>4. <<>> \in Buffers
  BY EmptySeq, Zenon DEF Buffers
<1> QED
  BY <1>1, <1>2, <1>3, <1>4, Zenon

\* Five parts in a row, as the encoders write them and as a decoder meets them.
LEMMA Chain ==
    ASSUME NEW x \in Buffers, NEW a \in Buffers, NEW b \in Buffers, NEW c \in Buffers,
           NEW r \in Buffers
    PROVE  /\ Cat(Cat(Cat(Cat(x, a), b), c), r) = Cat(x, Cat(a, Cat(b, Cat(c, r))))
           /\ Cat(Cat(Cat(x, a), b), c) \in Buffers
<1>1. Cat(x, a) \in Buffers /\ Cat(Cat(x, a), b) \in Buffers /\ Cat(Cat(Cat(x, a), b), c) \in Buffers
      /\ Cat(c, r) \in Buffers /\ Cat(b, Cat(c, r)) \in Buffers
  BY CatFacts
<1>2. Cat(Cat(Cat(Cat(x, a), b), c), r) = Cat(Cat(Cat(x, a), b), Cat(c, r))
  BY <1>1, CatFacts
<1>3. Cat(Cat(Cat(x, a), b), Cat(c, r)) = Cat(Cat(x, a), Cat(b, Cat(c, r)))
  BY <1>1, CatFacts
<1>4. Cat(Cat(x, a), Cat(b, Cat(c, r))) = Cat(x, Cat(a, Cat(b, Cat(c, r))))
  BY <1>1, CatFacts
<1> QED
  BY <1>1, <1>2, <1>3, <1>4

\* Reading the first part of a buffer.
LEMMA ReadUint ==
    ASSUME NEW h, NEW x, IsUint(h, x), NEW r \in Buffers
    PROVE  /\ mp_decode_uint(Cat(h, r)).val = x /\ mp_decode_uint(Cat(h, r)).rest = r
           /\ h \in Buffers /\ Cat(h, r) \in Buffers /\ Cat(h, r) # <<>>
<1>1. mp_decode_uint(h \o r) = [val |-> x, rest |-> r] /\ h \in Buffers /\ h \o r # <<>>
  BY Zenon DEF IsUint
<1>2. mp_decode_uint(Cat(h, r)) = [val |-> x, rest |-> r] /\ Cat(h, r) # <<>>
  BY <1>1, Zenon DEF Cat
<1>3. Cat(h, r) \in Buffers
  BY <1>1, CatFacts
<1> QED
  BY <1>1, <1>2, <1>3

\* mp_decode_str reads the string in front of a buffer and stops behind it.
LEMMA ReadStr ==
    ASSUME NEW h, NEW x, IsStr(h, x), NEW r \in Buffers
    PROVE  /\ mp_decode_str(Cat(h, r)).val = Shown(x) /\ mp_decode_str(Cat(h, r)).rest = r
           /\ h \in Buffers /\ Cat(h, r) \in Buffers /\ Cat(h, r) # <<>>
<1>1. mp_decode_str(h \o r) = [val |-> Shown(x), rest |-> r] /\ h \in Buffers /\ h \o r # <<>>
  BY Zenon DEF IsStr
<1>2. mp_decode_str(Cat(h, r)) = [val |-> Shown(x), rest |-> r] /\ Cat(h, r) # <<>>
  BY <1>1, Zenon DEF Cat
<1>3. Cat(h, r) \in Buffers
  BY <1>1, CatFacts
<1> QED
  BY <1>1, <1>2, <1>3

\* mp_decode_array reads the size of an array and stops at its first element.
LEMMA ReadArray ==
    ASSUME NEW h, NEW x, IsArray(h, x), NEW r \in Buffers
    PROVE  /\ mp_decode_array(Cat(h, r)).val = x /\ mp_decode_array(Cat(h, r)).rest = r
           /\ h \in Buffers /\ Cat(h, r) \in Buffers /\ Cat(h, r) # <<>>
<1>1. mp_decode_array(h \o r) = [val |-> x, rest |-> r] /\ h \in Buffers /\ h \o r # <<>>
  BY Zenon DEF IsArray
<1>2. mp_decode_array(Cat(h, r)) = [val |-> x, rest |-> r] /\ Cat(h, r) # <<>>
  BY <1>1, Zenon DEF Cat
<1>3. Cat(h, r) \in Buffers
  BY <1>1, CatFacts
<1> QED
  BY <1>1, <1>2, <1>3

\* mp_decode_map reads the size of a map and stops at its first key.
LEMMA ReadMap ==
    ASSUME NEW h, NEW x, IsMap(h, x), NEW r \in Buffers
    PROVE  /\ mp_decode_map(Cat(h, r)).val = x /\ mp_decode_map(Cat(h, r)).rest = r
           /\ h \in Buffers /\ Cat(h, r) \in Buffers /\ Cat(h, r) # <<>>
<1>1. mp_decode_map(h \o r) = [val |-> x, rest |-> r] /\ h \in Buffers /\ h \o r # <<>>
  BY Zenon DEF IsMap
<1>2. mp_decode_map(Cat(h, r)) = [val |-> x, rest |-> r] /\ Cat(h, r) # <<>>
  BY <1>1, Zenon DEF Cat
<1>3. Cat(h, r) \in Buffers
  BY <1>1, CatFacts
<1> QED
  BY <1>1, <1>2, <1>3

\* Numbers and strings are objects; so are a map and an array with theirs.
LEMMA ObjectForms ==
    ASSUME NEW h, NEW x
    PROVE  /\ IsUint(h, x) => Skips(1, h)
           /\ IsStr(h, x) => Skips(1, h)
           /\ \A o : IsArray(h, x) /\ Skips(x, o) => Skips(1, Cat(h, o))
           /\ \A o : IsMap(h, x) /\ x \in Nat /\ Skips(2 * x, o) => Skips(1, Cat(h, o))
<1>1. ASSUME Announces(h, 0) PROVE Skips(1, h)
  <2>1. Skips(1, h \o <<>>)
    BY <1>1, SkipsNone, SkipsHead
  <2>2. h \in Buffers
    BY <1>1 DEF Announces
  <2>3. h \o <<>> = h
    BY <2>2, Joined, Zenon
  <2> QED
    BY <2>1, <2>3, Zenon
<1>2. ASSUME NEW o, IsArray(h, x), Skips(x, o) PROVE Skips(1, Cat(h, o))
  <2>1. x \in Nat
    BY <1>2 DEF Skips
  <2> QED
    BY <1>2, <2>1, HeadsAnnounce, SkipsHead, Zenon DEF Cat
<1>3. ASSUME NEW o, IsMap(h, x), x \in Nat, Skips(2 * x, o) PROVE Skips(1, Cat(h, o))
  BY <1>3, HeadsAnnounce, SkipsHead, Zenon DEF Cat
<1> QED
  BY <1>1, <1>2, <1>3, HeadsAnnounce, Zenon

\* mp_next stops behind an object.
LEMMA NextPast ==
    ASSUME NEW h, NEW r \in Buffers, Skips(1, h)
    PROVE  mp_next(Cat(h, r)) = r /\ h \in Buffers
BY NextSkipsObject DEF Cat, Skips

\* The header of a reply, part by part.
Header6(m, k1, v1, k2, v2, k3, v3, code, s) ==
    /\ IsMap(m, 3) /\ IsUint(k1, <<>>) /\ IsUint(v1, code) /\ IsUint(k2, <<1>>) /\ IsUint(v2, s)
    /\ IsUint(k3, <<5>>) /\ IsUint(v3, <<80>>)

\* The header of every reply has these parts, in this order.
LEMMA HeaderParts ==
    ASSUME NEW code \in Numbers, Len(code) <= 4, NEW s \in Numbers, NEW r \in Buffers
    PROVE  /\ Header(code, s) \in Buffers
           /\ \E m, k1, v1, k2, v2, k3, v3 :
              /\ Header6(m, k1, v1, k2, v2, k3, v3, code, s)
              /\ Cat(Header(code, s), r) =
                   Cat(m, Cat(k1, Cat(v1, Cat(k2, Cat(v2, Cat(k3, Cat(v3, r)))))))
<1> DEFINE m == mp_encode_map(3)
           k1 == mp_encode_uint(<<>>)
           v1 == Wide(UintTags, 4, code)
           k2 == mp_encode_uint(<<1>>)
           v2 == Wide(UintTags, 8, s)
           k3 == mp_encode_uint(<<5>>)
           v3 == Wide(UintTags, 4, <<80>>)
<1>1. <<>> \in Numbers /\ <<1>> \in Numbers /\ <<5>> \in Numbers /\ <<80>> \in Numbers
  BY DEF Numbers, Octets
<1>2. 3 \in Sizes
  BY SMT DEF Sizes
<1>3. Len(<<80>>) <= 4 /\ Len(s) <= 8
  <2>1. Len(s) \in 0..8
    BY Zenon DEF Numbers
  <2>2. \A k \in 0..8 : k <= 8
    OBVIOUS
  <2>3. Len(<<80>>) <= 4
    OBVIOUS
  <2> QED
    BY <2>1, <2>2, <2>3, Zenon
<1>4. Header6(m, k1, v1, k2, v2, k3, v3, code, s)
  BY <1>1, <1>2, <1>3, HeadEncodings, UintEncodings, Zenon DEF Header6
<1>5. Header(code, s) = Cat(Cat(Cat(Cat(Cat(Cat(m, k1), v1), k2), v2), k3), v3)
  BY Zenon DEF Header, Cat, IPROTO_REQUEST_TYPE, IPROTO_SYNC
<1>6. /\ m \in Buffers /\ k1 \in Buffers /\ v1 \in Buffers /\ k2 \in Buffers /\ v2 \in Buffers
      /\ k3 \in Buffers /\ v3 \in Buffers
  BY <1>4, Zenon DEF Header6, IsMap, IsUint
<1> HIDE DEF m, k1, v1, k2, v2, k3, v3
<1>7. Cat(Cat(Cat(Cat(Cat(Cat(Cat(m, k1), v1), k2), v2), k3), v3), r)
        = Cat(m, Cat(k1, Cat(v1, Cat(k2, Cat(v2, Cat(k3, Cat(v3, r)))))))
  <2> DEFINE y == Cat(Cat(Cat(m, k1), v1), k2)
             t == Cat(v2, Cat(k3, Cat(v3, r)))
  <2>1. y \in Buffers
    BY <1>6, Chain, Zenon
  <2>2. t \in Buffers
    BY <1>6, CatFacts
  <2>3. Cat(y, t) = Cat(m, Cat(k1, Cat(v1, Cat(k2, t))))
    <3> HIDE DEF t
    <3> QED
      BY <1>6, <2>2, Chain
  <2>4. Cat(Cat(Cat(Cat(y, v2), k3), v3), r) = Cat(y, t)
    <3> HIDE DEF y
    <3> QED
      BY <1>6, <2>1, Chain
  <2> QED
    BY <2>3, <2>4
<1>8. Header(code, s) \in Buffers
  <2> DEFINE y == Cat(Cat(Cat(m, k1), v1), k2)
  <2>1. y \in Buffers
    BY <1>6, Chain, Zenon
  <2> HIDE DEF y
  <2>2. Cat(Cat(Cat(y, v2), k3), v3) \in Buffers
    BY <1>6, <2>1, Chain
  <2> QED
    BY <1>5, <2>2 DEF y
<1> QED
  BY <1>4, <1>5, <1>7, <1>8

\* A pair of numbers in a header.
LEMMA PairRead ==
    ASSUME NEW k, NEW key, IsUint(k, key), NEW v, NEW x, IsUint(v, x), NEW r \in Buffers, NEW p,
           p = Cat(k, Cat(v, r))
    PROVE  /\ mp_decode_uint(p).val = key
           /\ mp_decode_uint(mp_decode_uint(p).rest) = [val |-> x, rest |-> r]
           /\ mp_next(mp_decode_uint(p).rest) = r /\ p # <<>> /\ p \in Buffers
<1>1. k \in Buffers /\ v \in Buffers
  BY DEF IsUint
<1>2. Cat(v, r) \in Buffers /\ p \in Buffers
  BY <1>1, CatFacts
<1>3. mp_decode_uint(p).val = key /\ mp_decode_uint(p).rest = Cat(v, r) /\ p # <<>>
  BY <1>2, ReadUint
<1>4. mp_decode_uint(Cat(v, r)) = [val |-> x, rest |-> r]
  BY Zenon DEF IsUint, Cat
<1>5. mp_next(Cat(v, r)) = r
  BY ObjectForms, NextPast
<1> QED
  BY <1>2, <1>3, <1>4, <1>5

\* What check_iproto_status answers for a reply, and what the loop over its
\* header leaves in rtpe_tarantool_restore_calls.
Answers(p, code, s) ==
    \A want : check_iproto_status(p, want)
                 = IF code # <<>> THEN Denied ELSE IF s # want THEN OtherFrame ELSE 0
Syncs(p, s, r) ==
    Syncing!Repeated([val |-> <<>>, rest |-> mp_decode_map(p).rest], mp_decode_map(p).val)
        = [val |-> s, rest |-> r]

\* Both clients get through the header of every reply, and resolve_space_id falls
\* back to 512.
LEMMA HeaderRead ==
    ASSUME NEW code \in Numbers, Len(code) <= 4, NEW s \in Numbers, NEW r \in Buffers
    PROVE  LET p == Cat(Header(code, s), r)
           IN  /\ Answers(p, code, s) /\ Syncs(p, s, r)
               /\ AfterHeader(p) = r /\ resolve_space_id(p) = 512
<1> DEFINE p == Cat(Header(code, s), r)
<1>0. p = Cat(Header(code, s), r)
  OBVIOUS
<1> HIDE DEF p
<1>1. PICK m, k1, v1, k2, v2, k3, v3 :
              /\ Header6(m, k1, v1, k2, v2, k3, v3, code, s)
              /\ p = Cat(m, Cat(k1, Cat(v1, Cat(k2, Cat(v2, Cat(k3, Cat(v3, r)))))))
  BY <1>0, HeaderParts
<1> DEFINE p3 == Cat(k3, Cat(v3, r))
           p2 == Cat(k2, Cat(v2, p3))
           p1 == Cat(k1, Cat(v1, p2))
<1> HIDE DEF p1, p2, p3
<1>2. /\ mp_decode_uint(p3).val = <<5>>
      /\ mp_decode_uint(mp_decode_uint(p3).rest) = [val |-> <<80>>, rest |-> r]
      /\ mp_next(mp_decode_uint(p3).rest) = r /\ p3 # <<>> /\ p3 \in Buffers
  BY <1>1, PairRead DEF Header6, p3
<1>3. /\ mp_decode_uint(p2).val = <<1>>
      /\ mp_decode_uint(mp_decode_uint(p2).rest) = [val |-> s, rest |-> p3]
      /\ mp_next(mp_decode_uint(p2).rest) = p3 /\ p2 # <<>> /\ p2 \in Buffers
  BY <1>1, <1>2, PairRead DEF Header6, p2
<1>4. /\ mp_decode_uint(p1).val = <<>>
      /\ mp_decode_uint(mp_decode_uint(p1).rest) = [val |-> code, rest |-> p2]
      /\ mp_next(mp_decode_uint(p1).rest) = p2 /\ p1 # <<>> /\ p1 \in Buffers
  BY <1>1, <1>3, PairRead DEF Header6, p1
<1>5. mp_decode_map(p).val = 3 /\ mp_decode_map(p).rest = p1
  <2>1. p = Cat(m, p1) /\ IsMap(m, 3)
    BY <1>1 DEF p1, p2, p3, Header6
  <2>2. mp_decode_map(Cat(m, p1)).val = 3 /\ mp_decode_map(Cat(m, p1)).rest = p1
    <3>1. IsMap(m, 3) /\ p1 \in Buffers
      BY <2>1, <1>4
    <3> QED
      BY <3>1, ReadMap
  <2> QED
    BY <2>1, <2>2, Zenon
<1>6. <<>> # <<1>> /\ <<>> # <<5>> /\ <<1>> # <<5>> /\ <<>> # <<48>> /\ <<1>> # <<48>> /\ <<5>> # <<48>>
  OBVIOUS
<1>7. AfterHeader(p) = r
  <2>1. AfterHeader(p) = Passing!Repeated(p1, 3)
    BY <1>5 DEF AfterHeader, Times, Passing!Repeated
  <2>2. PastPair(p1) = p2 /\ PastPair(p2) = p3 /\ PastPair(p3) = r
    BY <1>2, <1>3, <1>4 DEF PastPair
  <2> QED
    BY <2>1, <2>2, Passing!FewRounds
<1>8. ASSUME NEW want
      PROVE  check_iproto_status(p, want) = IF code # <<>> THEN Denied ELSE IF s # want THEN OtherFrame ELSE 0
  <2> DEFINE st(c, q) == [rc |-> c, rest |-> q, want |-> want]
             c1 == IF code = <<>> THEN 0 ELSE Denied
             c2 == IF c1 # 0 THEN c1 ELSE IF s = want THEN 0 ELSE OtherFrame
             q2 == IF c1 # 0 THEN p2 ELSE p3
             q3 == IF c2 # 0 THEN q2 ELSE r
  <2>1. check_iproto_status(p, want) = Checking!Repeated(st(0, p1), 3).rc
    BY <1>5 DEF check_iproto_status, Times, Checking!Repeated
  <2>2. /\ StatusAfter(p1, want) = st(c1, p2) /\ StatusAfter(p3, want) = st(0, r)
        /\ StatusAfter(p2, want) = st(IF s = want THEN 0 ELSE OtherFrame, p3)
    BY <1>2, <1>3, <1>4, <1>6 DEF StatusAfter
  <2>3. StatusStep(st(0, p1)) = st(c1, p2)
    BY <2>2, <1>4, StatusPair
  <2>4. StatusStep(st(c1, p2)) = st(c2, q2)
    <3>1. CASE c1 = 0
      BY <3>1, <1>3, <2>2, StatusPair
    <3>2. CASE c1 # 0
      BY <3>2, StatusStays
    <3> QED
      BY <3>1, <3>2
  <2>5. StatusStep(st(c2, q2)) = st(c2, q3)
    <3>1. CASE c2 = 0
      <4>1. q2 = p3 /\ q3 = r
        BY <3>1, Failures
      <4> QED
        BY <3>1, <4>1, <1>2, <2>2, StatusPair
    <3>2. CASE c2 # 0
      BY <3>2, StatusStays
    <3> QED
      BY <3>1, <3>2
  <2>6. Checking!Repeated(st(0, p1), 3) = st(c2, q3)
    <3> HIDE DEF st, c1, c2, q2, q3
    <3> QED
      BY <2>3, <2>4, <2>5, Checking!FewRounds
  <2>7. st(c2, q3).rc = c2
    OBVIOUS
  <2> HIDE DEF st, q3
  <2>8. check_iproto_status(p, want) = c2
    BY <2>1, <2>6, <2>7
  <2> QED
    BY <2>8, Failures
<1>9. resolve_space_id(p) = 512
  <2> DEFINE st(q) == [val |-> <<>>, rest |-> q]
  <2>1. SpaceStep(st(p1)) = st(p2) /\ SpaceStep(st(p2)) = st(p3) /\ SpaceStep(st(p3)) = st(r)
    BY <1>2, <1>3, <1>4, <1>6 DEF SpaceStep, IPROTO_DATA
  <2>2. Resolving!Repeated(st(p1), 3) = st(r)
    <3> HIDE DEF st
    <3> QED
      BY <2>1, Resolving!FewRounds
  <2>3. Times(SpaceStep, [val |-> <<>>, rest |-> mp_decode_map(p).rest], mp_decode_map(p).val)
          = Resolving!Repeated(st(p1), 3)
    BY <1>5 DEF Times, Resolving!Repeated
  <2>4. Times(SpaceStep, [val |-> <<>>, rest |-> mp_decode_map(p).rest], mp_decode_map(p).val).val
          = <<>>
    BY <2>2, <2>3
  <2> QED
    BY <2>4 DEF resolve_space_id
<1>10. Syncing!Repeated([val |-> <<>>, rest |-> mp_decode_map(p).rest], mp_decode_map(p).val)
                  = [val |-> s, rest |-> r]
  <2> DEFINE st(x, q) == [val |-> x, rest |-> q]
  <2>1. /\ SyncStep(st(<<>>, p1)) = st(<<>>, p2) /\ SyncStep(st(<<>>, p2)) = st(s, p3)
        /\ SyncStep(st(s, p3)) = st(s, r)
    BY <1>2, <1>3, <1>4, <1>6 DEF SyncStep, IPROTO_SYNC
  <2>2. Syncing!Repeated(st(<<>>, p1), 3) = st(s, r)
    <3> HIDE DEF st
    <3> QED
      BY <2>1, Syncing!FewRounds
  <2> QED
    BY <1>5, <2>2
<1>11. Answers(p, code, s)
  BY <1>8 DEF Answers
<1>12. Syncs(p, s, r)
  BY <1>10 DEF Syncs
<1> QED
  BY <1>7, <1>9, <1>11, <1>12 DEF p

\* Whatever follows the rule of the concatenations is FlattenSeq.
LEMMA FlatIs ==
    ASSUME NEW S, NEW seqs \in Seq(S), NEW n \in Nat \ {0}, Len(seqs) = n, NEW f, Flat(f, seqs, n)
    PROVE  FlattenSeq(seqs) = f[n]
<1>1. PICK h : Flat(h, seqs, n) /\ FlattenSeq(seqs) = h[n]
  BY FlatUnfolds
<1> DEFINE B == {i \in 1..n : f[i] # h[i]}
<1>2. ASSUME B # {} PROVE FALSE
  <2>1. B \subseteq Nat
    OBVIOUS
  <2> HIDE DEF B
  <2>2. PICK m \in B : \A i \in B : ~ i < m
    BY <1>2, <2>1, Skipping!Least
  <2> USE DEF B
  <2>3. m \in 1..n /\ f[m] # h[m]
    BY <2>2
  <2>4. m # 1
    BY <2>3, <1>1 DEF Flat
  <2>5. m \in 2..n /\ m - 1 \in 1..n /\ m - 1 < m
    BY <2>3, <2>4
  <2>6. f[m - 1] = h[m - 1]
    BY <2>2, <2>5
  <2>7. f[m] = Cat(f[m - 1], seqs[m]) /\ h[m] = Cat(h[m - 1], seqs[m])
    BY <2>5, <1>1 DEF Flat
  <2> QED
    BY <2>3, <2>6, <2>7
<1> QED
  BY <1>1, <1>2

\* A part appended to the parts is appended to the buffer.
LEMMA FlattenAppend ==
    ASSUME NEW os \in Seq(Buffers), os # <<>>, NEW x \in Buffers
    PROVE  FlattenSeq(Append(os, x)) = Cat(FlattenSeq(os), x)
<1> DEFINE n == Len(os)
           q == Append(os, x)
<1>1. n \in Nat \ {0} /\ n + 1 \in Nat \ {0}
  <2>1. n \in Nat /\ n # 0
    BY LenProperties, EmptySeq
  <2> QED
    BY <2>1
<1>2. /\ q \in Seq(Buffers) /\ Len(q) = n + 1 /\ q[n + 1] = x
      /\ \A i \in 1..n : q[i] = os[i]
  BY AppendProperties
<1>3. PICK f : Flat(f, os, n) /\ FlattenSeq(os) = f[n]
  BY <1>1, FlatUnfolds
<1> HIDE DEF n, q
<1> DEFINE g == [i \in 1..(n + 1) |-> IF i = n + 1 THEN Cat(f[n], x) ELSE f[i]]
<1>4. g[1] = q[1]
  <2>1. 1 \in 1..n /\ 1 # n + 1 /\ 1 \in 1..(n + 1)
    BY <1>1
  <2> QED
    BY <2>1, <1>2, <1>3 DEF Flat
<1>5. ASSUME NEW i \in 2..(n + 1) PROVE g[i] = Cat(g[i - 1], q[i])
  <2>1. CASE i = n + 1
    BY <2>1, <1>1, <1>2, <1>3
  <2>2. CASE i # n + 1
    <3>1. i \in 2..n /\ i \in 1..n /\ i - 1 \in 1..(n + 1) /\ i - 1 # n + 1
      BY <2>2, <1>1
    <3>2. f[i] = Cat(f[i - 1], os[i])
      BY <3>1, <1>3 DEF Flat
    <3> QED
      BY <2>2, <3>1, <3>2, <1>2
  <2> QED
    BY <2>1, <2>2
<1>6. g[n + 1] = Cat(f[n], x)
  BY <1>1
<1> HIDE DEF g
<1>7. Flat(g, q, n + 1)
  BY <1>4, <1>5 DEF Flat
<1>8. FlattenSeq(q) = g[n + 1]
  BY <1>1, <1>2, <1>7, FlatIs
<1> QED
  BY <1>3, <1>6, <1>8 DEF q

\* g[i] is what follows the first i of the objects.
Suffix(g, os, n, r) ==
    /\ g[n] = r /\ \A i \in 1..n : g[i - 1] = Cat(os[i], g[i])
    /\ \A i \in 0..n : g[i] \in Buffers

\* Every sequence of objects has what follows each of them.
LEMMA FlatSuffix ==
    ASSUME NEW os \in Seq(Buffers), os # <<>>, NEW r \in Buffers
    PROVE  /\ FlattenSeq(os) \in Buffers
           /\ \E g : Suffix(g, os, Len(os), r) /\ g[0] = Cat(FlattenSeq(os), r)
<1> DEFINE n == Len(os)
<1>1. n \in Nat \ {0} /\ \A i \in 1..n : os[i] \in Buffers
  <2>1. n \in Nat /\ n # 0 /\ \A i \in 1..n : os[i] \in Buffers
    BY LenProperties, EmptySeq, ElementOfSeq
  <2> QED
    BY <2>1
<1>2. PICK f : Flat(f, os, n) /\ FlattenSeq(os) = f[n]
  BY <1>1, FlatUnfolds
<1> HIDE DEF n
<1> DEFINE P(m) == f[m] \in Buffers /\ \A t \in Buffers :
                      \E g : Suffix(g, os, m, t) /\ g[0] = Cat(f[m], t)
           B == {m \in 1..n : ~ P(m)}
<1>3. P(1)
  <2>1. f[1] = os[1] /\ f[1] \in Buffers
    BY <1>1, <1>2 DEF Flat
  <2>2. ASSUME NEW t \in Buffers PROVE \E g : Suffix(g, os, 1, t) /\ g[0] = Cat(f[1], t)
    <3> DEFINE g == [i \in 0..1 |-> IF i = 0 THEN Cat(f[1], t) ELSE t]
    <3>1. Cat(f[1], t) \in Buffers
      BY <2>1, CatFacts
    <3>2. g[0] = Cat(f[1], t) /\ g[1] = t
      OBVIOUS
    <3>3. \A i \in 0..1 : g[i] \in Buffers
      BY <3>1
    <3>4. \A i \in 1..1 : g[i - 1] = Cat(os[i], g[i])
      BY <2>1
    <3> HIDE DEF g
    <3>5. Suffix(g, os, 1, t)
      BY <3>2, <3>3, <3>4 DEF Suffix
    <3> QED
      BY <3>2, <3>5
  <2> QED
    BY <2>1, <2>2
<1>4. ASSUME NEW m \in 1..n, m + 1 \in 1..n, P(m) PROVE P(m + 1)
  <2>1. m + 1 \in 2..n /\ (m + 1) - 1 = m
    BY <1>4
  <2>2. f[m + 1] = Cat(f[m], os[m + 1]) /\ os[m + 1] \in Buffers
    BY <2>1, <1>1, <1>2, <1>4 DEF Flat
  <2>3. f[m + 1] \in Buffers
    BY <2>2, <1>4, CatFacts
  <2>4. ASSUME NEW t \in Buffers PROVE \E g : Suffix(g, os, m + 1, t) /\ g[0] = Cat(f[m + 1], t)
    <3> DEFINE u == Cat(os[m + 1], t)
    <3>1. u \in Buffers /\ Cat(f[m], u) = Cat(f[m + 1], t)
      <4>1. f[m] \in Buffers
        BY <1>4
      <4>2. Cat(Cat(f[m], os[m + 1]), t) = Cat(f[m], u) /\ u \in Buffers
        BY <2>2, <4>1, CatFacts
      <4> QED
        BY <2>2, <4>2
    <3> HIDE DEF u
    <3>2. PICK g : Suffix(g, os, m, u) /\ g[0] = Cat(f[m], u)
      BY <1>4, <3>1
    <3> DEFINE h == [i \in 0..(m + 1) |-> IF i = m + 1 THEN t ELSE g[i]]
    <3>3. h[0] = Cat(f[m + 1], t) /\ h[m + 1] = t
      BY <3>1, <3>2
    <3>4. ASSUME NEW i \in 1..(m + 1) PROVE h[i - 1] = Cat(os[i], h[i])
      <4>1. CASE i = m + 1
        <5>1. g[m] = u
          BY <3>2 DEF Suffix
        <5> QED
          BY <4>1, <5>1 DEF u
      <4>2. CASE i # m + 1
        <5>1. i \in 1..m /\ i - 1 \in 0..(m + 1) /\ i - 1 # m + 1
          BY <4>2
        <5>2. g[i - 1] = Cat(os[i], g[i])
          BY <5>1, <3>2 DEF Suffix
        <5> QED
          BY <4>2, <5>1, <5>2
      <4> QED
        BY <4>1, <4>2
    <3>5. ASSUME NEW i \in 0..(m + 1) PROVE h[i] \in Buffers
      BY <3>2 DEF Suffix
    <3> HIDE DEF h
    <3>6. Suffix(h, os, m + 1, t)
      BY <3>3, <3>4, <3>5 DEF Suffix
    <3> QED
      BY <3>3, <3>6
  <2> QED
    BY <2>3, <2>4
<1> HIDE DEF P
<1>5. ASSUME B # {} PROVE FALSE
  <2>1. B \subseteq Nat
    OBVIOUS
  <2> HIDE DEF B
  <2>2. PICK m \in B : \A i \in B : ~ i < m
    BY <1>5, <2>1, Skipping!Least
  <2> USE DEF B
  <2>3. m \in 1..n /\ ~ P(m) /\ m # 1
    BY <2>2, <1>3
  <2>4. m - 1 \in 1..n /\ m - 1 < m /\ (m - 1) + 1 = m
    BY <1>1, <2>3
  <2>5. P(m - 1)
    BY <2>2, <2>4
  <2>6. P((m - 1) + 1)
    BY <1>4, <2>3, <2>4, <2>5
  <2> QED
    BY <2>3, <2>4, <2>6
<1>6. P(n)
  BY <1>1, <1>5
<1> QED
  BY <1>2, <1>6 DEF P, n

\* Objects one after the other are as many objects.
LEMMA FlatSkips ==
    ASSUME NEW os \in Seq(Buffers), os # <<>>, \A i \in 1..Len(os) : Skips(1, os[i])
    PROVE  Skips(Len(os), FlattenSeq(os))
<1> DEFINE n == Len(os)
<1>1. n \in Nat \ {0} /\ \A i \in 1..n : Skips(1, os[i])
  <2>1. n \in Nat /\ n # 0
    BY LenProperties, EmptySeq
  <2> QED
    BY <2>1
<1>2. PICK f : Flat(f, os, n) /\ FlattenSeq(os) = f[n]
  BY <1>1, FlatUnfolds
<1> HIDE DEF n
<1> DEFINE B == {m \in 1..n : ~ Skips(m, f[m])}
<1>3. Skips(1, f[1])
  BY <1>1, <1>2 DEF Flat
<1>5. ASSUME B # {} PROVE FALSE
  <2>1. B \subseteq Nat
    OBVIOUS
  <2> HIDE DEF B
  <2>2. PICK m \in B : \A i \in B : ~ i < m
    BY <1>5, <2>1, Skipping!Least
  <2> USE DEF B
  <2>3. m \in 1..n /\ ~ Skips(m, f[m]) /\ m # 1
    BY <2>2, <1>3
  <2>4. m - 1 \in 1..n /\ m - 1 < m /\ (m - 1) + 1 = m /\ m \in 2..n
    BY <1>1, <2>3
  <2>5. Skips(m - 1, f[m - 1])
    BY <2>2, <2>4
  <2>6. f[m] = Cat(f[m - 1], os[m])
    BY <1>2, <2>4 DEF Flat
  <2>7. Skips((m - 1) + 1, Cat(f[m - 1], os[m]))
    BY <2>3, <2>5, <1>1, SkipsBoth DEF Cat
  <2> QED
    BY <2>3, <2>4, <2>6, <2>7
<1>6. Skips(n, f[n])
  BY <1>1, <1>5
<1> QED
  BY <1>2, <1>6 DEF n

\* What mp_encode_uint and mp_encode_str write.
Scalar(o) == (\E d \in Numbers : o = mp_encode_uint(d)) \/ (\E t \in Strs : o = mp_encode_str(t))

\* mp_next moves behind an array of numbers and strings as the packers of the
\* requests write it, whatever the width of its head, of its numbers and of the
\* lengths of its strings, and behind a map whose keys and values they are; it
\* moves no further, whatever follows.
THEOREM NextSkipsEncoded ==
    ASSUME NEW os, os \in Seq(Buffers), NEW r \in Buffers, Len(os) \in Sizes, os # <<>>,
           \A i \in 1..Len(os) : Scalar(os[i])
    PROVE  /\ mp_next(Cat(Cat(mp_encode_array(Len(os)), FlattenSeq(os)), r)) = r
           /\ \A n \in Sizes : Len(os) = 2 * n =>
                 mp_next(Cat(Cat(mp_encode_map(n), FlattenSeq(os)), r)) = r
<1>1. ASSUME NEW i \in 1..Len(os) PROVE Skips(1, os[i])
  <2>1. ASSUME NEW d \in Numbers, os[i] = mp_encode_uint(d) PROVE Skips(1, os[i])
    BY <2>1, UintEncodings, ObjectForms, Zenon
  <2>2. ASSUME NEW t \in Strs, os[i] = mp_encode_str(t) PROVE Skips(1, os[i])
    BY <2>2, StrEncodings, ObjectForms, Zenon
  <2> QED
    BY <2>1, <2>2, Zenon DEF Scalar
<1>2. Skips(Len(os), FlattenSeq(os))
  BY <1>1, FlatSkips
<1>3. Skips(1, Cat(mp_encode_array(Len(os)), FlattenSeq(os)))
  <2>1. IsArray(mp_encode_array(Len(os)), Len(os))
    BY HeadEncodings
  <2> QED
    BY <1>2, <2>1, ObjectForms, Zenon
<1>4. ASSUME NEW n \in Sizes, Len(os) = 2 * n
      PROVE  Skips(1, Cat(mp_encode_map(n), FlattenSeq(os)))
  <2>1. IsMap(mp_encode_map(n), n)
    BY HeadEncodings
  <2>2. n \in Nat
    BY SMT DEF Sizes
  <2>3. Skips(2 * n, FlattenSeq(os))
    BY <1>2, <1>4
  <2> QED
    BY <2>1, <2>2, <2>3, ObjectForms, Zenon
<1> QED
  BY <1>3, <1>4, NextPast, Zenon

Listing == INSTANCE Iteration WITH Op <- ObjectStep

\* The server takes one object off a buffer.
LEMMA ObjectTaken ==
    ASSUME NEW o, Skips(1, o), NEW r \in Buffers, NEW q
    PROVE  ObjectStep([objs |-> q, rest |-> Cat(o, r)]) = [objs |-> Append(q, o), rest |-> r]
<1> DEFINE p == Cat(o, r)
<1>1. o \in Buffers /\ mp_next(p) = r
  BY NextPast
<1>2. SubSeq(p, 1, Len(p) - Len(r)) = o
  <2>1. p = o \o r
    BY DEF Cat
  <2>2. Len(p) = Len(o) + Len(r) /\ Len(o) \in Nat /\ Len(r) \in Nat
    BY <1>1, <2>1, Joined
  <2>3. o \in Seq(Cells) /\ r \in Seq(Cells)
    BY <1>1 DEF Buffers
  <2> HIDE DEF p
  <2>4. Len(p) - Len(r) = Len(o)
    BY <2>2
  <2>5. SubSeq(o \o r, 1, Len(o)) = o
    <3>1. \A i \in 1..(Len(o) + Len(r)) : (o \o r)[i] = IF i <= Len(o) THEN o[i] ELSE r[i - Len(o)]
      BY <2>3, ConcatProperties
    <3>2. o \o r \in Seq(Cells) /\ Len(o \o r) = Len(o) + Len(r)
      BY <2>3, ConcatProperties
    <3> DEFINE w == o \o r
    <3> HIDE DEF w
    <3>3. \A i \in 1..Len(o) : w[i] = o[i] /\ w[i] \in Cells
      BY <2>2, <2>3, <3>1, ElementOfSeq DEF w
    <3>4. /\ SubSeq(w, 1, Len(o)) \in Seq(Cells) /\ Len(SubSeq(w, 1, Len(o))) = Len(o)
          /\ \A i \in 1..Len(o) : SubSeq(w, 1, Len(o))[i] = w[i]
      <4> DEFINE k == Len(o)
      <4>1. k \in Nat /\ k <= Len(w)
        BY <2>2, <3>2 DEF w
      <4>2. w \in Seq(Cells)
        BY <3>2 DEF w
      <4> HIDE DEF k
      <4>3. SubSeq(w, 1, k) \in Seq(Cells) /\ Len(SubSeq(w, 1, k)) = k
            /\ \A i \in 1..k : SubSeq(w, 1, k)[i] = w[i]
        BY <4>1, <4>2
      <4> QED
        BY <4>3 DEF k
    <3>5. SubSeq(w, 1, Len(o)) = o
      BY <2>3, <3>3, <3>4, SeqEqual
    <3> QED
      BY <3>5 DEF w
  <2> QED
    BY <2>1, <2>4, <2>5
<1> HIDE DEF p
<1> DEFINE st == [objs |-> q, rest |-> p]
<1>3. st.objs = q /\ st.rest = p
  OBVIOUS
<1> HIDE DEF st
<1>4. ObjectStep(st) = [objs |-> Append(q, o), rest |-> r]
  BY <1>1, <1>2, <1>3, Zenon DEF ObjectStep
<1> QED
  BY <1>4 DEF st, p

\* The objects of a part of a frame are the ones it was put together from.
LEMMA ObjectsOf ==
    ASSUME NEW os \in Seq(Buffers), os # <<>>, \A i \in 1..Len(os) : Skips(1, os[i]),
           NEW r \in Buffers
    PROVE  Objects(Cat(FlattenSeq(os), r), Len(os)).objs = os
<1> DEFINE n == Len(os)
<1>1. n \in Nat
  BY LenProperties
<1>2. PICK g : Suffix(g, os, n, r) /\ g[0] = Cat(FlattenSeq(os), r)
  BY FlatSuffix
<1> DEFINE h == [i \in 0..n |-> [objs |-> SubSeq(os, 1, i), rest |-> g[i]]]
<1>3. ASSUME NEW i \in 1..n PROVE h[i] = ObjectStep(h[i - 1])
  <2>1. i - 1 \in 0..n /\ i \in 0..n /\ i - 1 \in Nat /\ i - 1 <= n /\ (i - 1) + 1 = i
    BY <1>1
  <2>2. g[i - 1] = Cat(os[i], g[i]) /\ g[i] \in Buffers
    BY <2>1, <1>2 DEF Suffix
  <2>3. Append(SubSeq(os, 1, i - 1), os[i]) = SubSeq(os, 1, i)
    <3> HIDE DEF n
    <3>1. n = Len(os)
      BY DEF n
    <3> QED
      BY <1>1, <3>1
  <2>4. Skips(1, os[i])
    BY <2>1
  <2>5. ObjectStep([objs |-> SubSeq(os, 1, i - 1), rest |-> Cat(os[i], g[i])])
          = [objs |-> Append(SubSeq(os, 1, i - 1), os[i]), rest |-> g[i]]
    BY <2>2, <2>4, ObjectTaken
  <2> QED
    BY <2>1, <2>2, <2>3, <2>5
<1>4. h[0] = [objs |-> <<>>, rest |-> Cat(FlattenSeq(os), r)]
  <2>1. SubSeq(os, 1, 0) = <<>>
    OBVIOUS
  <2> QED
    BY <1>1, <1>2, <2>1
<1>5. h[n].objs = os
  <2>1. SubSeq(os, 1, n) = os
    OBVIOUS
  <2> QED
    BY <1>1, <2>1
<1> HIDE DEF h
<1>6. Listing!Repeated(h[0], n) = h[n]
  BY <1>1, <1>3, Listing!Ends
<1>7. Objects(Cat(FlattenSeq(os), r), n) = Listing!Repeated(h[0], n)
  BY <1>4 DEF Objects, Times, Listing!Repeated
<1> QED
  BY <1>5, <1>6, <1>7

\* The server reads the elements of an array as they were written.
LEMMA ElementsRead ==
    ASSUME NEW os \in Seq(Buffers), os # <<>>, \A i \in 1..Len(os) : Skips(1, os[i]),
           NEW h, IsArray(h, Len(os))
    PROVE  ElementsOf(Cat(h, FlattenSeq(os))) = os
<1> DEFINE b == FlattenSeq(os)
           a == mp_decode_array(Cat(h, b))
<1>1. b \in Buffers /\ <<>> \in Buffers
  BY CatFacts, FlatSuffix
<1>2. Cat(b, <<>>) = b
  BY <1>1, CatFacts
<1>3. a.val = Len(os) /\ a.rest = b
  <2> HIDE DEF b
  <2> QED
    BY <1>1, ReadArray
<1>4. Objects(Cat(b, <<>>), Len(os)).objs = os
  BY <1>1, ObjectsOf
<1> HIDE DEF a, b
<1>5. ElementsOf(Cat(h, b)) = Objects(a.rest, a.val).objs
  BY Zenon DEF ElementsOf, a
<1> QED
  BY <1>2, <1>3, <1>4, <1>5 DEF b

\* The server reads the pairs of a map as they were written.
LEMMA PairsRead ==
    ASSUME NEW os \in Seq(Buffers), os # <<>>, \A i \in 1..Len(os) : Skips(1, os[i]),
           NEW h, NEW n, IsMap(h, n), Len(os) = 2 * n
    PROVE  PairsOf(Cat(h, FlattenSeq(os))) = Paired(os)
<1> DEFINE b == FlattenSeq(os)
           a == mp_decode_map(Cat(h, b))
<1>1. b \in Buffers /\ <<>> \in Buffers
  BY CatFacts, FlatSuffix
<1>2. Cat(b, <<>>) = b
  BY <1>1, CatFacts
<1>3. a.val = n /\ a.rest = b
  <2> HIDE DEF b
  <2> QED
    BY <1>1, ReadMap
<1>4. Objects(Cat(b, <<>>), Len(os)).objs = os
  BY <1>1, ObjectsOf
<1> HIDE DEF a, b
<1>5. PairsOf(Cat(h, b)) = Paired(Objects(a.rest, 2 * a.val).objs)
  BY Zenon DEF PairsOf, a
<1> QED
  BY <1>2, <1>3, <1>4, <1>5 DEF b

\* The server finds the value of a key in the body of a request.
LEMMA FieldFound ==
    ASSUME NEW os \in Seq(Buffers), os # <<>>, \A i \in 1..Len(os) : Skips(1, os[i]),
           NEW h, NEW n \in Nat, IsMap(h, n), Len(os) = 2 * n, NEW header, Skips(1, header),
           NEW key, NEW i \in 1..n, os[2 * i - 1] = mp_encode_uint(key),
           \A j \in 1..n : os[2 * j - 1] = mp_encode_uint(key) => j = i
    PROVE  FieldOf(Cat(header, Cat(h, FlattenSeq(os))), key) = os[2 * i]
<1> DEFINE b == Cat(h, FlattenSeq(os))
           P == Paired(os)
<1>1. b \in Buffers
  BY CatFacts, FlatSuffix DEF IsMap
<1>2. mp_next(Cat(header, b)) = b
  BY <1>1, NextPast
<1>3. PairsOf(b) = P
  BY PairsRead
<1>4. DOMAIN P = 1..n /\ \A j \in 1..n : P[j] = <<os[2 * j - 1], os[2 * j]>>
  <2>1. Len(os) \div 2 = n
    OBVIOUS
  <2> QED
    BY <2>1 DEF Paired
<1> HIDE DEF b, P
<1>5. Range(P) = {P[j] : j \in 1..n}
  BY <1>4 DEF Range
<1>6. P[i] \in Range(P) /\ P[i][1] = mp_encode_uint(key)
  BY <1>4, <1>5
<1>7. \A p \in Range(P) : p[1] = mp_encode_uint(key) => p = P[i]
  BY <1>4, <1>5
<1>8. (CHOOSE p \in Range(P) : p[1] = mp_encode_uint(key)) = P[i]
  BY <1>6, <1>7
<1>9. FieldOf(Cat(header, b), key) = P[i][2]
  BY <1>2, <1>3, <1>8 DEF FieldOf
<1> QED
  BY <1>4, <1>9 DEF b

Getting == INSTANCE Iteration WITH Op <- GetStep
PastStrs == INSTANCE Iteration WITH Op <- PastStr
PastUints == INSTANCE Iteration WITH Op <- PastUint

\* The numbers of a part of a request are as many objects.
LEMMA UintObjects ==
    ASSUME NEW ds \in Seq(Numbers), ds # <<>>
    PROVE  \E us \in Seq(Buffers) :
              /\ Uints(ds) = FlattenSeq(us) /\ Len(us) = Len(ds) /\ us # <<>>
              /\ \A i \in 1..Len(ds) : us[i] = mp_encode_uint(ds[i]) /\ Skips(1, us[i])
<1> DEFINE n == Len(ds)
           us == [i \in DOMAIN ds |-> mp_encode_uint(ds[i])]
<1>1. n \in Nat /\ n # 0 /\ DOMAIN ds = 1..n /\ \A i \in 1..n : ds[i] \in Numbers
  BY LenProperties, ElementOfSeq, EmptySeq
<1>2. us \in [1..n -> Buffers] /\ \A i \in 1..n : us[i] = mp_encode_uint(ds[i])
  BY <1>1, UintEncodings DEF IsUint
<1>3. Uints(ds) = FlattenSeq(us)
  BY DEF Uints
<1> HIDE DEF us
<1>4. us \in Seq(Buffers)
  BY <1>1, <1>2, SeqDef
<1>5. Len(us) = n /\ us # <<>>
  <2>1. Len(us) = n
    BY <1>1, <1>2, <1>4, LenProperties
  <2> QED
    BY <1>1, <2>1
<1>6. \A i \in 1..n : Skips(1, us[i])
  BY <1>1, <1>2, UintEncodings, ObjectForms
<1> QED
  BY <1>2, <1>3, <1>4, <1>5, <1>6

\* The header of a request is one object.
LEMMA RequestHeaderObject ==
    ASSUME NEW type \in Numbers, NEW s \in Numbers
    PROVE  Skips(1, RequestHeader(type, s))
<1> DEFINE ds == <<IPROTO_REQUEST_TYPE, type, IPROTO_SYNC, s>>
           m == mp_encode_map(2)
<1>1. ds \in Seq(Numbers) /\ ds # <<>> /\ Len(ds) = 4
  <2>1. <<>> \in Numbers /\ <<1>> \in Numbers
    BY DEF Numbers, Octets
  <2> QED
    BY <2>1 DEF IPROTO_REQUEST_TYPE, IPROTO_SYNC
<1>2. RequestHeader(type, s) = Cat(m, Uints(ds))
  BY Zenon DEF RequestHeader, Cat
<1> HIDE DEF ds
<1>3. PICK us \in Seq(Buffers) :
              /\ Uints(ds) = FlattenSeq(us) /\ Len(us) = Len(ds) /\ us # <<>>
              /\ \A i \in 1..Len(ds) : us[i] = mp_encode_uint(ds[i]) /\ Skips(1, us[i])
  BY <1>1, UintObjects
<1>4. Skips(Len(us), FlattenSeq(us))
  BY <1>3, FlatSkips
<1>5. Skips(4, Uints(ds))
  BY <1>1, <1>3, <1>4
<1>6. 2 \in Sizes
  BY SMT DEF Sizes
<1>7. IsMap(m, 2)
  BY <1>6, HeadEncodings
<1>8. 2 \in Nat /\ 2 * 2 = 4
  OBVIOUS
<1>9. Skips(2 * 2, Uints(ds))
  BY <1>5, <1>8
<1>10. Skips(1, Cat(m, Uints(ds)))
  BY <1>7, <1>8, <1>9, ObjectForms
<1> QED
  BY <1>2, <1>10

\* The seven fields of a tuple of tarantool_set.
LEMMA Flatten7 ==
    ASSUME NEW a \in Buffers, NEW b \in Buffers, NEW c \in Buffers, NEW x \in Buffers,
           NEW y \in Buffers, NEW z \in Buffers, NEW v \in Buffers
    PROVE  FlattenSeq(<<a, b, c, x, y, z, v>>)
               = Cat(a, Cat(b, Cat(c, Cat(x, Cat(y, Cat(z, v))))))
<1> DEFINE s == <<a, b, c, x, y, z, v>>
<1>1. /\ s \in Seq(Buffers) /\ Len(s) = 7 /\ 7 \in Nat \ {0}
      /\ s[1] = a /\ s[2] = b /\ s[3] = c /\ s[4] = x /\ s[5] = y /\ s[6] = z /\ s[7] = v
  OBVIOUS
<1> HIDE DEF s
<1>2. PICK f : Flat(f, s, 7) /\ FlattenSeq(s) = f[7]
  BY <1>1, FlatUnfolds, Zenon
<1>3. /\ f[1] = a /\ f[2] = Cat(f[1], b) /\ f[3] = Cat(f[2], c) /\ f[4] = Cat(f[3], x)
      /\ f[5] = Cat(f[4], y) /\ f[6] = Cat(f[5], z) /\ f[7] = Cat(f[6], v)
  BY <1>1, <1>2 DEF Flat
<1> DEFINE w == Cat(Cat(a, b), c)
           t == Cat(x, Cat(y, Cat(z, v)))
<1>4. w \in Buffers /\ t \in Buffers
  BY CatFacts
<1>5. f[7] = Cat(Cat(Cat(Cat(w, x), y), z), v)
  BY <1>3
<1>6. Cat(Cat(Cat(Cat(w, x), y), z), v) = Cat(w, t)
  <2> HIDE DEF w
  <2> QED
    BY <1>4, Chain
<1>7. Cat(w, t) = Cat(a, Cat(b, Cat(c, t)))
  <2> HIDE DEF t
  <2>1. Cat(Cat(Cat(a, b), c), t) = Cat(Cat(a, b), Cat(c, t))
    BY <1>4, CatFacts
  <2>2. Cat(Cat(a, b), Cat(c, t)) = Cat(a, Cat(b, Cat(c, t)))
    BY <1>4, CatFacts
  <2> QED
    BY <2>1, <2>2
<1> QED
  BY <1>2, <1>5, <1>6, <1>7 DEF s

\* Numbers with different bytes have different encodings.
LEMMA UintsDiffer ==
    ASSUME NEW d \in Numbers, NEW e \in Numbers, d # e
    PROVE  mp_encode_uint(d) # mp_encode_uint(e)
<1>1. <<>> \in Buffers
  BY CatFacts
<1>2. mp_decode_uint(Cat(mp_encode_uint(d), <<>>)).val = d
  BY <1>1, UintEncodings, ReadUint
<1>3. mp_decode_uint(Cat(mp_encode_uint(e), <<>>)).val = e
  BY <1>1, UintEncodings, ReadUint
<1> QED
  BY <1>2, <1>3

\* The fields of a tuple that tarantool_set writes.
TupleFields(fs, attr, t, exp, val) ==
    /\ fs \in Seq(Buffers) /\ Len(fs) = 7
    /\ IsStr(fs[1], attr) /\ (\E u : IsStr(fs[2], u)) /\ (\E u : IsStr(fs[3], u))
    /\ IsUint(fs[4], t) /\ IsUint(fs[5], t) /\ IsUint(fs[6], exp) /\ IsStr(fs[7], val)
    /\ fs[1] = mp_encode_str(attr)
    /\ FlattenSeq(fs) = Cat(fs[1], Cat(fs[2], Cat(fs[3], Cat(fs[4], Cat(fs[5],
                            Cat(fs[6], fs[7]))))))

\* A request q of tarantool_set in parts: the fields of the tuple, the keys and
\* the values of the body.
SetParts(q, space, attr, t, exp, val, fs, os, header, map, array) ==
    /\ TupleFields(fs, attr, t, exp, val)
    /\ Skips(1, header) /\ IsMap(map, 2) /\ IsArray(array, 7)
    /\ os \in Seq(Buffers) /\ Len(os) = 4 /\ \A i \in 1..4 : Skips(1, os[i])
    /\ os[1] = mp_encode_uint(IPROTO_SPACE_ID) /\ os[2] = mp_encode_uint(space)
    /\ os[3] = mp_encode_uint(IPROTO_TUPLE) /\ os[4] = Cat(array, FlattenSeq(fs))
    /\ q = Cat(header, Cat(map, FlattenSeq(os)))

\* tarantool_set writes a request of these parts.
LEMMA SetRequest ==
    ASSUME NEW s \in Numbers, NEW space \in Numbers, NEW attr \in Strs, NEW t \in Numbers,
           NEW exp \in Numbers, NEW val \in Strs
    PROVE  \E fs, os, header, map, array :
              SetParts(set_request(s, space, attr, t, exp, val), space, attr, t, exp, val,
                       fs, os, header, map, array)
<1> DEFINE header == RequestHeader(IPROTO_REPLACE, s)
           map == mp_encode_map(2)
           array == mp_encode_array(7)
           ds == <<IPROTO_SPACE_ID, space, IPROTO_TUPLE>>
           a == mp_encode_str(attr)
           b == StrCells("opensips", 8)
           c == StrCells("active", 6)
           x == mp_encode_uint(t)
           z == mp_encode_uint(exp)
           v == mp_encode_str(val)
           fs == <<a, b, c, x, x, z, v>>
<1>1. <<3>> \in Numbers /\ <<16>> \in Numbers /\ <<33>> \in Numbers
  BY DEF Numbers, Octets
<1>2. 2 \in Sizes /\ 7 \in Sizes /\ 6 \in Sizes /\ 8 \in Sizes
  BY SMT DEF Sizes
<1>3. Skips(1, header)
  BY <1>1, RequestHeaderObject DEF IPROTO_REPLACE
<1>4. IsMap(map, 2) /\ IsArray(array, 7)
  BY <1>2, HeadEncodings, Zenon
<1>5. Str("opensips", 8) \in Strs /\ Str("active", 6) \in Strs
  <2>1. ASSUME NEW w \in Texts, NEW n \in Nat, n \in Sizes PROVE Str(w, n) \in Strs
    <3>1. Str(w, n) \in [text : Texts, len : Nat] /\ Str(w, n).len = n
      BY DEF Str
    <3> QED
      BY <2>1, <3>1, Zenon DEF Strs
  <2>2. 8 \in Nat /\ 6 \in Nat
    OBVIOUS
  <2>3. "opensips" \in Texts /\ "active" \in Texts
    BY DEF Texts
  <2> QED
    BY <1>2, <2>1, <2>2, <2>3, Zenon
<1>6. /\ IsStr(a, attr) /\ IsStr(b, Str("opensips", 8)) /\ IsStr(c, Str("active", 6))
      /\ IsUint(x, t) /\ IsUint(z, exp) /\ IsStr(v, val)
  BY <1>5, StrEncodings, UintEncodings, Zenon DEF StrCells
<1>7. a \in Buffers /\ b \in Buffers /\ c \in Buffers /\ x \in Buffers /\ z \in Buffers /\ v \in Buffers
  BY <1>6, Zenon DEF IsStr, IsUint
<1>8. Uints(<<t, t, exp>>) = Cat(Cat(x, x), z)
  BY Uints3
<1>9. ds \in Seq(Numbers) /\ Len(ds) = 3 /\ ds # <<>>
      /\ ds[1] = IPROTO_SPACE_ID /\ ds[2] = space /\ ds[3] = IPROTO_TUPLE
  <2>1. IPROTO_SPACE_ID \in Numbers /\ IPROTO_TUPLE \in Numbers
    BY <1>1, Zenon DEF IPROTO_SPACE_ID, IPROTO_TUPLE
  <2> QED
    BY <2>1
<1>10. set_request(s, space, attr, t, exp, val)
          = Cat(Cat(Cat(Cat(Cat(Cat(Cat(Cat(header, map), Uints(ds)), array), a), b), c),
                    Uints(<<t, t, exp>>)), v)
  BY Zenon DEF set_request, Cat
<1> HIDE DEF a, b, c, x, z, v, header, map, array, ds
<1>11. /\ fs \in Seq(Buffers) /\ Len(fs) = 7
       /\ fs[1] = a /\ fs[2] = b /\ fs[3] = c /\ fs[4] = x /\ fs[5] = x /\ fs[6] = z /\ fs[7] = v
  BY <1>7
<1>12. FlattenSeq(fs) = Cat(a, Cat(b, Cat(c, Cat(x, Cat(x, Cat(z, v))))))
  BY <1>7, Flatten7
<1> HIDE DEF fs
<1>13. PICK us \in Seq(Buffers) :
              /\ Uints(ds) = FlattenSeq(us) /\ Len(us) = Len(ds) /\ us # <<>>
              /\ \A i \in 1..Len(ds) : us[i] = mp_encode_uint(ds[i]) /\ Skips(1, us[i])
  BY <1>9, UintObjects
<1> DEFINE tuple == Cat(array, FlattenSeq(fs))
           os == Append(us, tuple)
<1>14. \A i \in 1..7 : Skips(1, fs[i])
  <2>1. Skips(1, a) /\ Skips(1, b) /\ Skips(1, c) /\ Skips(1, x) /\ Skips(1, z) /\ Skips(1, v)
    BY <1>6, ObjectForms
  <2> QED
    BY <1>11, <2>1
<1>15. Skips(1, tuple) /\ tuple \in Buffers
  <2>1. fs # <<>>
    BY <1>11
  <2>2. Skips(7, FlattenSeq(fs))
    BY <1>11, <1>14, <2>1, FlatSkips
  <2>3. Skips(1, tuple)
    BY <1>4, <2>2, ObjectForms
  <2> QED
    BY <2>3 DEF Skips
<1>16. header \in Buffers /\ map \in Buffers /\ array \in Buffers /\ Uints(ds) \in Buffers
  BY <1>3, <1>4, <1>13, FlatSuffix, CatFacts DEF Skips, IsMap, IsArray
<1>17. set_request(s, space, attr, t, exp, val) = Cat(header, Cat(map, Cat(Uints(ds), tuple)))
  <2> DEFINE U == Uints(ds)
             w == Cat(Cat(Cat(header, map), U), array)
             body == Cat(a, Cat(b, Cat(c, Cat(Cat(Cat(x, x), z), v))))
  <2>1. w \in Buffers
    <3> HIDE DEF U
    <3>1. U \in Buffers
      BY <1>16 DEF U
    <3> QED
      BY <1>16, <3>1, Chain
  <2>2. Cat(Cat(x, x), z) \in Buffers
    BY <1>7, CatFacts
  <2>3. body \in Buffers
    BY <1>7, <2>2, CatFacts
  <2>4. Cat(Cat(Cat(Cat(Cat(w, a), b), c), Cat(Cat(x, x), z)), v) = Cat(w, body)
    <3> DEFINE n == Cat(Cat(x, x), z)
    <3>1. n \in Buffers /\ Cat(n, v) \in Buffers
      BY <1>7, <2>2, CatFacts
    <3> HIDE DEF w, n
    <3>2. Cat(Cat(Cat(w, a), b), c) \in Buffers
      BY <1>7, <2>1, <3>1, Chain
    <3>3. Cat(Cat(Cat(Cat(Cat(w, a), b), c), n), v) = Cat(Cat(Cat(Cat(w, a), b), c), Cat(n, v))
      BY <1>7, <3>1, <3>2, CatFacts
    <3>4. Cat(Cat(Cat(Cat(w, a), b), c), Cat(n, v)) = Cat(w, Cat(a, Cat(b, Cat(c, Cat(n, v)))))
      BY <1>7, <2>1, <3>1, Chain
    <3> QED
      BY <3>3, <3>4 DEF n
  <2>5. Cat(w, body) = Cat(header, Cat(map, Cat(U, Cat(array, body))))
    <3> HIDE DEF body, U
    <3>1. U \in Buffers
      BY <1>16 DEF U
    <3> QED
      BY <1>16, <2>3, <3>1, Chain
  <2>6. body = FlattenSeq(fs)
    <3>1. Cat(Cat(Cat(x, x), z), v) = Cat(x, Cat(x, Cat(z, v)))
      <4>1. Cat(x, x) \in Buffers /\ Cat(z, v) \in Buffers
        BY <1>7, CatFacts
      <4>2. Cat(Cat(Cat(x, x), z), v) = Cat(Cat(x, x), Cat(z, v))
        BY <1>7, <4>1, CatFacts
      <4>3. Cat(Cat(x, x), Cat(z, v)) = Cat(x, Cat(x, Cat(z, v)))
        BY <1>7, <4>1, CatFacts
      <4> QED
        BY <4>2, <4>3
    <3> QED
      BY <1>12, <3>1
  <2> HIDE DEF body
  <2> QED
    BY <1>8, <1>10, <2>4, <2>5, <2>6
<1> HIDE DEF tuple
<1>18. FlattenSeq(os) = Cat(Uints(ds), tuple)
  BY <1>13, <1>15, FlattenAppend
<1>19. /\ os \in Seq(Buffers) /\ Len(os) = 4
       /\ os[1] = us[1] /\ os[2] = us[2] /\ os[3] = us[3] /\ os[4] = tuple
  <2>1. Len(us) = 3
    BY <1>9, <1>13
  <2>2. /\ os \in Seq(Buffers) /\ Len(os) = Len(us) + 1 /\ os[Len(us) + 1] = tuple
        /\ \A i \in 1..Len(us) : os[i] = us[i]
    BY <1>15, AppendProperties
  <2> HIDE DEF os
  <2>3. 1 \in 1..3 /\ 2 \in 1..3 /\ 3 \in 1..3 /\ 3 + 1 = 4
    OBVIOUS
  <2> QED
    BY <2>1, <2>2, <2>3
<1> HIDE DEF os
<1>20. /\ os[1] = mp_encode_uint(IPROTO_SPACE_ID) /\ os[2] = mp_encode_uint(space)
       /\ os[3] = mp_encode_uint(IPROTO_TUPLE) /\ \A i \in 1..4 : Skips(1, os[i])
  BY <1>9, <1>13, <1>15, <1>19
<1>21. /\ Len(fs) = 7 /\ IsStr(fs[1], attr) /\ (\E u : IsStr(fs[2], u)) /\ (\E u : IsStr(fs[3], u))
       /\ IsUint(fs[4], t) /\ IsUint(fs[5], t) /\ IsUint(fs[6], exp) /\ IsStr(fs[7], val)
       /\ fs[1] = mp_encode_str(attr)
       /\ FlattenSeq(fs) = Cat(fs[1], Cat(fs[2], Cat(fs[3], Cat(fs[4], Cat(fs[5],
                                      Cat(fs[6], fs[7]))))))
  BY <1>6, <1>11, <1>12 DEF a
<1>22. set_request(s, space, attr, t, exp, val) = Cat(header, Cat(map, FlattenSeq(os)))
  BY <1>17, <1>18
<1>23. SetParts(set_request(s, space, attr, t, exp, val), space, attr, t, exp, val,
                fs, os, header, map, array)
  BY <1>3, <1>4, <1>11, <1>19, <1>20, <1>21, <1>22 DEF tuple, SetParts, TupleFields
<1> QED
  BY <1>23

\* A request q of tarantool_get in parts.
GetParts(q, space, attr, os, header, map, array) ==
    /\ Skips(1, header) /\ IsMap(map, 6) /\ IsArray(array, 1)
    /\ os \in Seq(Buffers) /\ Len(os) = 12 /\ \A i \in 1..12 : Skips(1, os[i])
    /\ os[1] = mp_encode_uint(<<16>>) /\ os[2] = mp_encode_uint(space)
    /\ os[3] = mp_encode_uint(<<17>>) /\ os[5] = mp_encode_uint(<<18>>)
    /\ os[7] = mp_encode_uint(<<19>>) /\ os[9] = mp_encode_uint(<<20>>)
    /\ os[11] = mp_encode_uint(<<32>>) /\ os[12] = Cat(array, mp_encode_str(attr))
    /\ q = Cat(header, Cat(map, FlattenSeq(os)))

\* tarantool_get writes a request of these parts.
LEMMA GetRequest ==
    ASSUME NEW s \in Numbers, NEW space \in Numbers, NEW attr \in Strs
    PROVE  \E os, header, map, array :
              GetParts(get_request(s, space, attr), space, attr, os, header, map, array)
<1> DEFINE header == RequestHeader(IPROTO_SELECT, s)
           map == mp_encode_map(6)
           array == mp_encode_array(1)
           ds == <<IPROTO_SPACE_ID, space, IPROTO_INDEX_ID, <<>>, IPROTO_LIMIT, <<1>>,
                   IPROTO_OFFSET, <<>>, IPROTO_ITERATOR, <<>>, IPROTO_KEY>>
           a == mp_encode_str(attr)
<1>1. /\ <<>> \in Numbers /\ <<1>> \in Numbers /\ <<16>> \in Numbers /\ <<17>> \in Numbers
      /\ <<18>> \in Numbers /\ <<19>> \in Numbers /\ <<20>> \in Numbers /\ <<32>> \in Numbers
  BY DEF Numbers, Octets
<1>2. 6 \in Sizes /\ 1 \in Sizes
  BY SMT DEF Sizes
<1>3. Skips(1, header)
  BY <1>1, RequestHeaderObject DEF IPROTO_SELECT
<1>4. IsMap(map, 6) /\ IsArray(array, 1)
  BY <1>2, HeadEncodings, Zenon
<1>5. IsStr(a, attr)
  BY StrEncodings, Zenon
<1>6. a \in Buffers /\ Skips(1, a)
  BY <1>5, ObjectForms DEF Skips
<1>7. /\ ds \in Seq(Numbers) /\ Len(ds) = 11 /\ ds # <<>>
      /\ ds[1] = <<16>> /\ ds[2] = space /\ ds[3] = <<17>> /\ ds[5] = <<18>> /\ ds[7] = <<19>>
      /\ ds[9] = <<20>> /\ ds[11] = <<32>>
  <2>1. /\ IPROTO_SPACE_ID = <<16>> /\ IPROTO_INDEX_ID = <<17>> /\ IPROTO_LIMIT = <<18>>
        /\ IPROTO_OFFSET = <<19>> /\ IPROTO_ITERATOR = <<20>> /\ IPROTO_KEY = <<32>>
    BY DEF IPROTO_SPACE_ID, IPROTO_INDEX_ID, IPROTO_LIMIT, IPROTO_OFFSET, IPROTO_ITERATOR, IPROTO_KEY
  <2>2. /\ IPROTO_SPACE_ID \in Numbers /\ IPROTO_INDEX_ID \in Numbers /\ IPROTO_LIMIT \in Numbers
        /\ IPROTO_OFFSET \in Numbers /\ IPROTO_ITERATOR \in Numbers /\ IPROTO_KEY \in Numbers
    BY <1>1, <2>1, Zenon
  <2> DEFINE e == <<>>
             o == <<1>>
  <2>3. e \in Numbers /\ o \in Numbers
    BY <1>1
  <2>4. ds = <<IPROTO_SPACE_ID, space, IPROTO_INDEX_ID, e, IPROTO_LIMIT, o,
                   IPROTO_OFFSET, e, IPROTO_ITERATOR, e, IPROTO_KEY>>
    OBVIOUS
  <2> HIDE DEF e, o, ds
  <2>5. /\ ds \in Seq(Numbers) /\ Len(ds) = 11 /\ ds # <<>>
        /\ ds[1] = IPROTO_SPACE_ID /\ ds[2] = space /\ ds[3] = IPROTO_INDEX_ID
        /\ ds[5] = IPROTO_LIMIT /\ ds[7] = IPROTO_OFFSET
        /\ ds[9] = IPROTO_ITERATOR /\ ds[11] = IPROTO_KEY
    BY <2>2, <2>3, <2>4
  <2> QED
    BY <2>1, <2>5
<1>8. get_request(s, space, attr) = Cat(Cat(Cat(Cat(header, map), Uints(ds)), array), a)
  BY Zenon DEF get_request, Cat
<1> HIDE DEF a, header, map, array, ds
<1>9. PICK us \in Seq(Buffers) :
              /\ Uints(ds) = FlattenSeq(us) /\ Len(us) = Len(ds) /\ us # <<>>
              /\ \A i \in 1..Len(ds) : us[i] = mp_encode_uint(ds[i]) /\ Skips(1, us[i])
  BY <1>7, UintObjects
<1> DEFINE key == Cat(array, a)
           os == Append(us, key)
<1>10. Skips(1, key) /\ key \in Buffers
  <2>1. Skips(1, key)
    BY <1>4, <1>6, ObjectForms
  <2> QED
    BY <2>1 DEF Skips
<1>11. header \in Buffers /\ map \in Buffers /\ array \in Buffers /\ Uints(ds) \in Buffers
  BY <1>3, <1>4, <1>9, FlatSuffix, CatFacts DEF Skips, IsMap, IsArray
<1>12. get_request(s, space, attr) = Cat(header, Cat(map, Cat(Uints(ds), key)))
  <2> DEFINE U == Uints(ds)
  <2>1. U \in Buffers
    BY <1>11
  <2> HIDE DEF U
  <2>2. Cat(Cat(Cat(Cat(header, map), U), array), a) = Cat(header, Cat(map, Cat(U, Cat(array, a))))
    BY <1>6, <1>11, <2>1, Chain
  <2> QED
    BY <1>8, <2>2 DEF U
<1> HIDE DEF key
<1>13. FlattenSeq(os) = Cat(Uints(ds), key)
  BY <1>9, <1>10, FlattenAppend
<1>14. Len(us) = 11
  BY <1>7, <1>9
<1>15. /\ os \in Seq(Buffers) /\ Len(os) = Len(us) + 1 /\ os[Len(us) + 1] = key
       /\ \A i \in 1..Len(us) : os[i] = us[i]
  BY <1>10, AppendProperties
<1> HIDE DEF os
<1>16. Len(os) = 12 /\ os[12] = key /\ \A i \in 1..11 : os[i] = mp_encode_uint(ds[i]) /\ Skips(1, os[i])
  <2>1. 11 + 1 = 12
    OBVIOUS
  <2> QED
    BY <1>7, <1>9, <1>14, <1>15, <2>1
<1>17. \A i \in 1..12 : Skips(1, os[i])
  <2>1. \A i \in 1..12 : i \in 1..11 \/ i = 12
    OBVIOUS
  <2> QED
    BY <1>10, <1>16, <2>1
<1>18. /\ os[1] = mp_encode_uint(<<16>>) /\ os[2] = mp_encode_uint(space)
       /\ os[3] = mp_encode_uint(<<17>>) /\ os[5] = mp_encode_uint(<<18>>)
       /\ os[7] = mp_encode_uint(<<19>>) /\ os[9] = mp_encode_uint(<<20>>)
       /\ os[11] = mp_encode_uint(<<32>>)
  <2>1. /\ 1 \in 1..11 /\ 2 \in 1..11 /\ 3 \in 1..11 /\ 5 \in 1..11 /\ 7 \in 1..11
        /\ 9 \in 1..11 /\ 11 \in 1..11
    OBVIOUS
  <2>2. /\ os[1] = mp_encode_uint(ds[1]) /\ os[2] = mp_encode_uint(ds[2])
        /\ os[3] = mp_encode_uint(ds[3]) /\ os[5] = mp_encode_uint(ds[5])
        /\ os[7] = mp_encode_uint(ds[7]) /\ os[9] = mp_encode_uint(ds[9])
        /\ os[11] = mp_encode_uint(ds[11])
    BY <1>16, <2>1, Zenon
  <2> QED
    BY <1>7, <2>2, Zenon
<1>19. GetParts(get_request(s, space, attr), space, attr, os, header, map, array)
  BY <1>3, <1>4, <1>12, <1>13, <1>15, <1>16, <1>17, <1>18 DEF key, a, GetParts
<1> QED
  BY <1>19

\* tarantool_get reads the last field of such a tuple.
LEMMA TupleRead ==
    ASSUME NEW fs, NEW attr, NEW t, NEW exp, NEW val, NEW array, NEW old,
           IsArray(array, 7), TupleFields(fs, attr, t, exp, val)
    PROVE  GetTuple(Cat(array, FlattenSeq(fs)), old).val = Shown(val)
<1> DEFINE p7 == Cat(fs[7], <<>>)
           p6 == Cat(fs[6], p7)
           p5 == Cat(fs[5], p6)
           p4 == Cat(fs[4], p5)
           p3 == Cat(fs[3], p4)
           p2 == Cat(fs[2], p3)
           p1 == Cat(fs[1], p2)
<1>0. /\ IsStr(fs[1], attr) /\ (\E u : IsStr(fs[2], u)) /\ (\E u : IsStr(fs[3], u))
      /\ IsUint(fs[4], t) /\ IsUint(fs[5], t) /\ IsUint(fs[6], exp) /\ IsStr(fs[7], val)
      /\ FlattenSeq(fs) = Cat(fs[1], Cat(fs[2], Cat(fs[3], Cat(fs[4], Cat(fs[5],
                              Cat(fs[6], fs[7]))))))
  BY DEF TupleFields
<1>00. <<>> \in Buffers /\ p7 = fs[7]
  BY <1>0, CatFacts DEF IsStr
<1>1. mp_decode_str(p7).val = Shown(val) /\ p7 \in Buffers
  BY <1>0, <1>00, ReadStr
<1> HIDE DEF p7
<1>2. mp_decode_uint(p6).rest = p7 /\ p6 \in Buffers
  BY <1>0, <1>1, ReadUint
<1> HIDE DEF p6
<1>3. mp_decode_uint(p5).rest = p6 /\ p5 \in Buffers
  BY <1>0, <1>2, ReadUint
<1> HIDE DEF p5
<1>4. mp_decode_uint(p4).rest = p5 /\ p4 \in Buffers
  BY <1>0, <1>3, ReadUint
<1> HIDE DEF p4
<1>5. mp_decode_str(p3).rest = p4 /\ p3 \in Buffers
  BY <1>0, <1>4, ReadStr
<1> HIDE DEF p3
<1>6. mp_decode_str(p2).rest = p3 /\ p2 \in Buffers
  BY <1>0, <1>5, ReadStr
<1> HIDE DEF p2
<1>7. mp_decode_str(p1).rest = p2 /\ p1 \in Buffers
  BY <1>0, <1>6, ReadStr
<1>8. FlattenSeq(fs) = p1
  BY <1>0, <1>00 DEF p2, p3, p4, p5, p6
<1> HIDE DEF p1
<1>9. Times(PastStr, p1, 3) = p4
  <2>1. Times(PastStr, p1, 3) = PastStrs!Repeated(p1, 3)
    BY DEF Times, PastStrs!Repeated
  <2>2. PastStr(p1) = p2 /\ PastStr(p2) = p3 /\ PastStr(p3) = p4
    BY <1>5, <1>6, <1>7 DEF PastStr
  <2> QED
    BY <2>1, <2>2, PastStrs!FewRounds
<1>10. Times(PastUint, p4, 3) = p7
  <2>1. Times(PastUint, p4, 3) = PastUints!Repeated(p4, 3)
    BY DEF Times, PastUints!Repeated
  <2>2. PastUint(p4) = p5 /\ PastUint(p5) = p6 /\ PastUint(p6) = p7
    BY <1>2, <1>3, <1>4 DEF PastUint
  <2> QED
    BY <2>1, <2>2, PastUints!FewRounds
<1>11. PastFields(p1, 3, 3) = p7
  BY <1>9, <1>10 DEF PastFields
<1> DEFINE p == Cat(array, p1)
<1>12. mp_decode_array(p).val = 7 /\ mp_decode_array(p).rest = p1
  BY <1>7, ReadArray
<1> HIDE DEF p
<1>13. GetTuple(p, old) = mp_decode_str(PastFields(p1, 3, 3))
  BY <1>12 DEF GetTuple
<1> QED
  BY <1>1, <1>8, <1>11, <1>13 DEF p

\* A reply of data has one pair in its body.
LEMMA DataParts ==
    ASSUME NEW s \in Numbers, NEW items, Len(items) \in Sizes, FlattenSeq(items) \in Buffers
    PROVE  \E map, key, array :
              /\ IsMap(map, 1) /\ IsUint(key, <<48>>) /\ IsArray(array, Len(items))
              /\ DataReply(s, items) =
                   Cat(Header(<<>>, s), Cat(map, Cat(key, Cat(array, FlattenSeq(items)))))
<1> DEFINE map == mp_encode_map(1)
           key == mp_encode_uint(<<48>>)
           n == Len(items)
           array == Wide(ArrayTags, 4, Bytes(n))
           body == FlattenSeq(items)
           x == Header(<<>>, s)
<1>1. <<>> \in Numbers /\ Len(<<>>) <= 4 /\ <<48>> \in Numbers
  BY DEF Numbers, Octets
<1>2. 1 \in Sizes
  BY SMT DEF Sizes
<1>3. IsMap(map, 1) /\ IsArray(array, n)
  BY <1>2, HeadEncodings, Zenon
<1>4. IsUint(key, <<48>>)
  BY <1>1, UintEncodings, Zenon
<1>5. x \in Buffers
  BY <1>1, CatFacts, HeaderParts, Zenon
<1>6. map \in Buffers /\ key \in Buffers /\ array \in Buffers /\ body \in Buffers
  BY <1>3, <1>4 DEF IsMap, IsArray, IsUint
<1>7. DataReply(s, items) = Cat(Cat(Cat(Cat(x, map), key), array), body)
  BY Zenon DEF DataReply, Cat, IPROTO_DATA
<1> HIDE DEF map, key, array, body, x
<1>8. DataReply(s, items) = Cat(x, Cat(map, Cat(key, Cat(array, body))))
  BY <1>5, <1>6, <1>7, Chain
<1> QED
  BY <1>3, <1>4, <1>8 DEF n, body, x

\* resolve_space_id finds 512 in each of these answers of the server.
LEMMA SpaceResolved ==
    ASSUME NEW reply \in SpaceReplies
    PROVE  resolve_space_id(reply) = 512
<1>1. sync \in Numbers /\ <<>> \in Numbers /\ Len(<<>>) <= 4 /\ <<128, 36>> \in Numbers /\ Len(<<128, 36>>) <= 4
  BY DEF sync, Numbers, Octets
<1>2. \/ \E id \in {0, 512, 520} : reply = DataReply(sync, <<mp_encode_uint(Bytes(id))>>)
      \/ reply = Header(<<128, 36>>, sync) \o mp_encode_map(0)
  BY DEF SpaceReplies
<1>3. ASSUME NEW id \in {0, 512, 520}, reply = DataReply(sync, <<mp_encode_uint(Bytes(id))>>)
      PROVE  resolve_space_id(reply) = 512
  <2> DEFINE u == mp_encode_uint(Bytes(id))
             items == <<u>>
  <2>1. Bytes(id) \in Numbers
    BY DEF Bytes, Numbers, Octets
  <2>2. IsUint(u, Bytes(id))
    BY <2>1, UintEncodings
  <2>3. FlattenSeq(items) = u /\ u \in Buffers
    BY <2>2, Flatten1 DEF IsUint
  <2>4. Len(items) = 1
    OBVIOUS
  <2>5. Len(items) \in Sizes
    BY <2>4, SMT DEF Sizes
  <2> HIDE DEF items
  <2>6. PICK map, key, array :
              /\ IsMap(map, 1) /\ IsUint(key, <<48>>) /\ IsArray(array, Len(items))
              /\ DataReply(sync, items) =
                   Cat(Header(<<>>, sync), Cat(map, Cat(key, Cat(array, FlattenSeq(items)))))
    BY <1>1, <2>3, <2>5, DataParts
  <2> DEFINE r == Cat(map, Cat(key, Cat(array, FlattenSeq(items))))
  <2>7. r \in Buffers
    BY <2>3, <2>6, CatFacts DEF IsMap, IsArray, IsUint
  <2>8. reply = Cat(Header(<<>>, sync), r)
    BY <1>3, <2>6 DEF items
  <2> HIDE DEF r
  <2> QED
    BY <1>1, <2>7, <2>8, HeaderRead
<1>4. ASSUME reply = Header(<<128, 36>>, sync) \o mp_encode_map(0)
      PROVE  resolve_space_id(reply) = 512
  <2>1. 0 \in Sizes
    BY SMT DEF Sizes
  <2>2. IsMap(mp_encode_map(0), 0)
    BY <2>1, HeadEncodings
  <2>3. mp_encode_map(0) \in Buffers
    BY <2>2 DEF IsMap
  <2> DEFINE code == <<128, 36>>
             body == mp_encode_map(0)
  <2>4. reply = Cat(Header(code, sync), body)
    BY <1>4 DEF Cat
  <2>5. code \in Numbers /\ Len(code) <= 4 /\ body \in Buffers
    BY <1>1, <2>3
  <2> HIDE DEF code, body
  <2> QED
    BY <1>1, <2>4, <2>5, HeaderRead
<1> QED
  BY <1>2, <1>3, <1>4

\* The fields of the two requests as the server reads them.
LEMMA SetFields ==
    ASSUME NEW q, NEW space, NEW attr, NEW t, NEW exp, NEW val, NEW fs, NEW os, NEW header,
           NEW map, NEW array, SetParts(q, space, attr, t, exp, val, fs, os, header, map, array)
    PROVE  /\ FieldOf(q, <<16>>) = mp_encode_uint(space)
           /\ FieldOf(q, <<33>>) = Cat(array, FlattenSeq(fs))
<1>1. <<16>> \in Numbers /\ <<33>> \in Numbers /\ <<16>> # <<33>>
  BY DEF Numbers, Octets
<1>2. mp_encode_uint(<<16>>) # mp_encode_uint(<<33>>)
  BY <1>1, UintsDiffer
<1>3. /\ Skips(1, header) /\ IsMap(map, 2) /\ os \in Seq(Buffers) /\ Len(os) = 4
      /\ \A i \in 1..4 : Skips(1, os[i])
      /\ os[1] = mp_encode_uint(<<16>>) /\ os[2] = mp_encode_uint(space)
      /\ os[3] = mp_encode_uint(<<33>>) /\ os[4] = Cat(array, FlattenSeq(fs))
      /\ q = Cat(header, Cat(map, FlattenSeq(os)))
  BY DEF SetParts, IPROTO_SPACE_ID, IPROTO_TUPLE
<1> DEFINE k == mp_encode_uint(<<16>>)
           l == mp_encode_uint(<<33>>)
<1>4. os # <<>> /\ Len(os) = 2 * 2 /\ 2 \in Nat /\ \A i \in 1..Len(os) : Skips(1, os[i])
  BY <1>3
<1>5. /\ 1 \in 1..2 /\ 2 \in 1..2 /\ 2 * 1 - 1 = 1 /\ 2 * 2 - 1 = 3 /\ 2 * 1 = 2 /\ 2 * 2 = 4
      /\ \A j \in 1..2 : j = 1 \/ j = 2
  OBVIOUS
<1>6. \A j \in 1..2 : (os[2 * j - 1] = k => j = 1) /\ (os[2 * j - 1] = l => j = 2)
  BY <1>2, <1>3, <1>5, Zenon
<1>7. os[2 * 1 - 1] = k /\ os[2 * 2 - 1] = l
  BY <1>3, <1>5, Zenon
<1>8. FieldOf(Cat(header, Cat(map, FlattenSeq(os))), <<16>>) = os[2 * 1]
  <2> DEFINE key == <<16>>
             n == 2
             i == 1
  <2>1. /\ n \in Nat /\ i \in 1..n /\ IsMap(map, n) /\ Len(os) = 2 * n
        /\ os[2 * i - 1] = mp_encode_uint(key)
        /\ \A j \in 1..n : os[2 * j - 1] = mp_encode_uint(key) => j = i
    BY <1>3, <1>4, <1>5, <1>6, <1>7, Zenon
  <2>2. /\ os \in Seq(Buffers) /\ os # <<>> /\ \A j \in 1..Len(os) : Skips(1, os[j])
        /\ Skips(1, header)
    BY <1>3, <1>4, Zenon
  <2> HIDE DEF key, n, i
  <2>3. FieldOf(Cat(header, Cat(map, FlattenSeq(os))), key) = os[2 * i]
    BY <2>1, <2>2, FieldFound
  <2> QED
    BY <2>3 DEF key, i
<1>9. FieldOf(Cat(header, Cat(map, FlattenSeq(os))), <<33>>) = os[2 * 2]
  <2> DEFINE key == <<33>>
             n == 2
             i == 2
  <2>1. /\ n \in Nat /\ i \in 1..n /\ IsMap(map, n) /\ Len(os) = 2 * n
        /\ os[2 * i - 1] = mp_encode_uint(key)
        /\ \A j \in 1..n : os[2 * j - 1] = mp_encode_uint(key) => j = i
    BY <1>3, <1>4, <1>5, <1>6, <1>7, Zenon
  <2>2. /\ os \in Seq(Buffers) /\ os # <<>> /\ \A j \in 1..Len(os) : Skips(1, os[j])
        /\ Skips(1, header)
    BY <1>3, <1>4, Zenon
  <2> HIDE DEF key, n, i
  <2>3. FieldOf(Cat(header, Cat(map, FlattenSeq(os))), key) = os[2 * i]
    BY <2>1, <2>2, FieldFound
  <2> QED
    BY <2>3 DEF key, i
<1> QED
  BY <1>3, <1>5, <1>8, <1>9, Zenon

\* The fields of a get as the server reads them.
LEMMA GetFields ==
    ASSUME NEW q, NEW space, NEW attr, NEW os, NEW header, NEW map, NEW array,
           GetParts(q, space, attr, os, header, map, array)
    PROVE  /\ FieldOf(q, <<16>>) = mp_encode_uint(space)
           /\ FieldOf(q, <<32>>) = Cat(array, mp_encode_str(attr))
<1> DEFINE k1 == mp_encode_uint(<<16>>)
           k2 == mp_encode_uint(<<17>>)
           k3 == mp_encode_uint(<<18>>)
           k4 == mp_encode_uint(<<19>>)
           k5 == mp_encode_uint(<<20>>)
           k6 == mp_encode_uint(<<32>>)
<1>1. /\ <<16>> \in Numbers /\ <<17>> \in Numbers /\ <<18>> \in Numbers /\ <<19>> \in Numbers
      /\ <<20>> \in Numbers /\ <<32>> \in Numbers
      /\ \A d \in {<<17>>, <<18>>, <<19>>, <<20>>, <<32>>} : d # <<16>>
      /\ \A d \in {<<16>>, <<17>>, <<18>>, <<19>>, <<20>>} : d # <<32>>
  BY DEF Numbers, Octets
<1>2. /\ k2 # k1 /\ k3 # k1 /\ k4 # k1 /\ k5 # k1 /\ k6 # k1
      /\ k2 # k6 /\ k3 # k6 /\ k4 # k6 /\ k5 # k6
  BY <1>1, UintsDiffer
<1>3. /\ Skips(1, header) /\ IsMap(map, 6) /\ os \in Seq(Buffers) /\ Len(os) = 12
      /\ \A i \in 1..12 : Skips(1, os[i])
      /\ os[1] = k1 /\ os[2] = mp_encode_uint(space) /\ os[3] = k2 /\ os[5] = k3 /\ os[7] = k4
      /\ os[9] = k5 /\ os[11] = k6 /\ os[12] = Cat(array, mp_encode_str(attr))
      /\ q = Cat(header, Cat(map, FlattenSeq(os)))
  BY DEF GetParts
<1>4. os # <<>> /\ Len(os) = 2 * 6 /\ 6 \in Nat /\ \A i \in 1..Len(os) : Skips(1, os[i])
  BY <1>3
<1>5. /\ 1 \in 1..6 /\ 6 \in 1..6 /\ 2 * 1 - 1 = 1 /\ 2 * 6 - 1 = 11 /\ 2 * 1 = 2 /\ 2 * 6 = 12
      /\ 2 * 2 - 1 = 3 /\ 2 * 3 - 1 = 5 /\ 2 * 4 - 1 = 7 /\ 2 * 5 - 1 = 9
      /\ \A j \in 1..6 : j = 1 \/ j = 2 \/ j = 3 \/ j = 4 \/ j = 5 \/ j = 6
  OBVIOUS
<1>6. \A j \in 1..6 : (os[2 * j - 1] = k1 => j = 1) /\ (os[2 * j - 1] = k6 => j = 6)
  <2> HIDE DEF k1, k2, k3, k4, k5, k6
  <2> QED
    BY <1>2, <1>3, <1>5, Zenon
<1>7. os[2 * 1 - 1] = k1 /\ os[2 * 6 - 1] = k6
  BY <1>3, <1>5, Zenon
<1>8. FieldOf(Cat(header, Cat(map, FlattenSeq(os))), <<16>>) = os[2 * 1]
  <2> DEFINE key == <<16>>
             n == 6
             i == 1
  <2>1. /\ n \in Nat /\ i \in 1..n /\ IsMap(map, n) /\ Len(os) = 2 * n
        /\ os[2 * i - 1] = mp_encode_uint(key)
        /\ \A j \in 1..n : os[2 * j - 1] = mp_encode_uint(key) => j = i
    BY <1>3, <1>4, <1>5, <1>6, <1>7, Zenon
  <2>2. /\ os \in Seq(Buffers) /\ os # <<>> /\ \A j \in 1..Len(os) : Skips(1, os[j])
        /\ Skips(1, header)
    BY <1>3, <1>4, Zenon
  <2> HIDE DEF key, n, i
  <2>3. FieldOf(Cat(header, Cat(map, FlattenSeq(os))), key) = os[2 * i]
    BY <2>1, <2>2, FieldFound
  <2> QED
    BY <2>3 DEF key, i
<1>9. FieldOf(Cat(header, Cat(map, FlattenSeq(os))), <<32>>) = os[2 * 6]
  <2> DEFINE key == <<32>>
             n == 6
             i == 6
  <2>1. /\ n \in Nat /\ i \in 1..n /\ IsMap(map, n) /\ Len(os) = 2 * n
        /\ os[2 * i - 1] = mp_encode_uint(key)
        /\ \A j \in 1..n : os[2 * j - 1] = mp_encode_uint(key) => j = i
    BY <1>3, <1>4, <1>5, <1>6, <1>7, Zenon
  <2>2. /\ os \in Seq(Buffers) /\ os # <<>> /\ \A j \in 1..Len(os) : Skips(1, os[j])
        /\ Skips(1, header)
    BY <1>3, <1>4, Zenon
  <2> HIDE DEF key, n, i
  <2>3. FieldOf(Cat(header, Cat(map, FlattenSeq(os))), key) = os[2 * i]
    BY <2>1, <2>2, FieldFound
  <2> QED
    BY <2>3 DEF key, i
<1> QED
  BY <1>3, <1>5, <1>8, <1>9, Zenon

\* A reply with a tuple of tarantool_set: its own request reads the value, and
\* a later one finds nothing in it.
LEMMA ReplyRead ==
    ASSUME NEW s \in Numbers, NEW want, NEW fs, NEW attr, NEW t, NEW exp, NEW val, NEW array,
           IsArray(array, 7), TupleFields(fs, attr, t, exp, val),
           NEW tuple, tuple = Cat(array, FlattenSeq(fs))
    PROVE  tarantool_get(DataReply(s, <<tuple>>), want) = IF s = want THEN Shown(val) ELSE NotFound
<1> DEFINE items == <<tuple>>
<1>1. <<>> \in Numbers /\ Len(<<>>) <= 4
  BY DEF Numbers, Octets
<1>2. tuple \in Buffers
  <2>1. /\ fs[1] \in Buffers /\ fs[2] \in Buffers /\ fs[3] \in Buffers /\ fs[4] \in Buffers
        /\ fs[5] \in Buffers /\ fs[6] \in Buffers /\ fs[7] \in Buffers /\ array \in Buffers
    BY DEF TupleFields, IsStr, IsUint, IsArray
  <2> QED
    BY <2>1, CatFacts DEF TupleFields
<1>3. FlattenSeq(items) = tuple /\ Len(items) = 1
  BY Flatten1
<1>4. Len(items) \in Sizes
  BY <1>3, SMT DEF Sizes
<1> HIDE DEF items
<1>5. PICK map, key, arr :
              /\ IsMap(map, 1) /\ IsUint(key, <<48>>) /\ IsArray(arr, Len(items))
              /\ DataReply(s, items) =
                   Cat(Header(<<>>, s), Cat(map, Cat(key, Cat(arr, FlattenSeq(items)))))
  BY <1>2, <1>3, <1>4, DataParts
<1> DEFINE p3 == Cat(arr, tuple)
           p2 == Cat(key, p3)
           p1 == Cat(map, p2)
           p == Cat(Header(<<>>, s), p1)
<1>6. p3 \in Buffers /\ mp_decode_array(p3).val = 1 /\ mp_decode_array(p3).rest = tuple
  BY <1>2, <1>3, <1>5, ReadArray
<1> HIDE DEF p3
<1>7. p2 \in Buffers /\ mp_decode_uint(p2).val = <<48>> /\ mp_decode_uint(p2).rest = p3
  BY <1>5, <1>6, ReadUint
<1> HIDE DEF p2
<1>8. p1 \in Buffers /\ mp_decode_map(p1).val = 1 /\ mp_decode_map(p1).rest = p2
  BY <1>5, <1>7, ReadMap
<1>9. DataReply(s, items) = p
  BY <1>3, <1>5 DEF p2, p3
<1> HIDE DEF p1
<1>10. /\ check_iproto_status(p, want) = IF s # want THEN OtherFrame ELSE 0
       /\ AfterHeader(p) = p1
  BY <1>1, <1>8, HeaderRead DEF Answers
<1> HIDE DEF p
<1>11. CASE s # want
  <2>1. check_iproto_status(p, want) # 0
    BY <1>10, <1>11, Failures
  <2>2. tarantool_get(p, want) = NotFound
    BY <2>1 DEF tarantool_get
  <2> QED
    BY <1>9, <1>11, <2>2 DEF items
<1>12. CASE s = want
  <2> DEFINE st == [val |-> NotFound, rest |-> p2]
  <2>1. check_iproto_status(p, want) = 0
    BY <1>10, <1>12
  <2>2. tarantool_get(p, want) = Getting!Repeated(st, 1).val
    BY <1>8, <1>10, <2>1 DEF tarantool_get, Times, Getting!Repeated
  <2>3. GetStep(st) = GetTuple(tuple, NotFound)
    BY <1>6, <1>7 DEF GetStep, IPROTO_DATA
  <2>4. GetTuple(tuple, NotFound).val = Shown(val)
    <3>1. GetTuple(Cat(array, FlattenSeq(fs)), NotFound).val = Shown(val)
      BY TupleRead
    <3> QED
      BY <3>1
  <2> HIDE DEF st
  <2>5. Getting!Repeated(st, 1) = GetStep(st)
    BY Getting!FewRounds
  <2>6. tarantool_get(p, want) = Shown(val)
    BY <2>2, <2>3, <2>4, <2>5
  <2> QED
    BY <1>9, <1>12, <2>6 DEF items
<1> QED
  BY <1>11, <1>12

\* A tuple of tarantool_set.
Stored(tuple, attr, t, exp, val) ==
    \E fs, array : /\ TupleFields(fs, attr, t, exp, val) /\ IsArray(array, 7)
                   /\ tuple = Cat(array, FlattenSeq(fs))

\* The key of a get is the first field of the tuple of the set.
Matching(set, get, space, attr, t, exp, val) ==
    /\ FieldOf(set, <<16>>) = mp_encode_uint(space)
    /\ FieldOf(get, <<16>>) = mp_encode_uint(space)
    /\ ElementsOf(FieldOf(get, <<32>>)) = <<ElementsOf(FieldOf(set, <<33>>))[1]>>
    /\ Stored(FieldOf(set, <<33>>), attr, t, exp, val)

\* The server finds under the key of a get the tuple that a set of the same
\* attribute stored in the space.
LEMMA SameTuple ==
    ASSUME NEW s \in Numbers, NEW space \in Numbers, NEW attr \in Strs, NEW t \in Numbers,
           NEW exp \in Numbers, NEW val \in Strs,
           NEW set, set = set_request(s, space, attr, t, exp, val),
           NEW get, get = get_request(s, space, attr)
    PROVE  Matching(set, get, space, attr, t, exp, val)
<1>1. PICK fs, os, header, map, array :
              SetParts(set, space, attr, t, exp, val, fs, os, header, map, array)
  BY SetRequest
<1>2. PICK gs, gheader, gmap, garray : GetParts(get, space, attr, gs, gheader, gmap, garray)
  BY GetRequest
<1>3. /\ FieldOf(set, <<16>>) = mp_encode_uint(space)
      /\ FieldOf(set, <<33>>) = Cat(array, FlattenSeq(fs))
  BY <1>1, SetFields
<1>4. /\ FieldOf(get, <<16>>) = mp_encode_uint(space)
      /\ FieldOf(get, <<32>>) = Cat(garray, mp_encode_str(attr))
  BY <1>2, GetFields
<1>5. TupleFields(fs, attr, t, exp, val) /\ IsArray(array, 7) /\ IsArray(garray, 1)
  BY <1>1, <1>2 DEF SetParts, GetParts
<1>6. /\ fs \in Seq(Buffers) /\ Len(fs) = 7 /\ fs[1] = mp_encode_str(attr) /\ fs # <<>>
      /\ IsStr(fs[1], attr)
      /\ \A i \in 1..7 : (\E u : IsStr(fs[i], u)) \/ (\E u : IsUint(fs[i], u))
  <2>1. \A i \in 1..7 : i = 1 \/ i = 2 \/ i = 3 \/ i = 4 \/ i = 5 \/ i = 6 \/ i = 7
    OBVIOUS
  <2>2. /\ fs \in Seq(Buffers) /\ Len(fs) = 7 /\ fs[1] = mp_encode_str(attr)
        /\ IsStr(fs[1], attr) /\ (\E u : IsStr(fs[2], u)) /\ (\E u : IsStr(fs[3], u))
        /\ IsUint(fs[4], t) /\ IsUint(fs[5], t) /\ IsUint(fs[6], exp) /\ IsStr(fs[7], val)
    BY <1>5 DEF TupleFields
  <2>3. fs # <<>>
    <3>1. Len(fs) = 7
      BY <2>2
    <3> QED
      BY <3>1
  <2> QED
    BY <2>1, <2>2, <2>3, Zenon
<1>7. \A i \in 1..Len(fs) : Skips(1, fs[i])
  BY <1>6, ObjectForms
<1>8. ElementsOf(Cat(array, FlattenSeq(fs))) = fs
  BY <1>5, <1>6, <1>7, ElementsRead
<1> DEFINE a == mp_encode_str(attr)
           ks == <<a>>
<1>9. /\ ks \in Seq(Buffers) /\ ks # <<>> /\ Len(ks) = 1 /\ FlattenSeq(ks) = a
      /\ \A i \in 1..Len(ks) : Skips(1, ks[i])
  <2>1. a \in Buffers /\ Skips(1, a)
    BY <1>6, ObjectForms DEF IsStr
  <2> HIDE DEF a
  <2>2. ks \in Seq(Buffers) /\ ks # <<>> /\ Len(ks) = 1 /\ ks[1] = a
    BY <2>1
  <2>3. FlattenSeq(ks) = a
    BY Flatten1
  <2> QED
    BY <2>1, <2>2, <2>3
<1> HIDE DEF ks
<1>10. ElementsOf(Cat(garray, FlattenSeq(ks))) = ks
  BY <1>5, <1>9, ElementsRead
<1>11. ElementsOf(FieldOf(get, <<32>>)) = <<a>>
  BY <1>4, <1>9, <1>10 DEF ks
<1> QED
  BY <1>3, <1>4, <1>5, <1>6, <1>8, <1>11 DEF Stored, Matching

\* What the frames of a set and a get are about.
LEMMA Examples ==
    /\ sync \in Numbers /\ earlier \in Numbers /\ now \in Numbers /\ sync # earlier
    /\ Bytes(512) \in Numbers
    /\ \A n \in IdLengths : Str("call", n) \in Strs
    /\ \A n \in ValueLengths : n # 0 => Str("value", n) \in Strs /\ Shown(Str("value", n)) = Str("value", n)
    /\ NoText \in Strs /\ Shown(NoText) = NoText
<1>1. sync \in Numbers /\ earlier \in Numbers /\ now \in Numbers /\ sync # earlier
  BY DEF sync, earlier, now, Numbers, Octets
<1>2. Bytes(512) \in Numbers
  BY DEF Bytes, Numbers, Octets
<1>3. \A n \in IdLengths \cup ValueLengths : n \in Sizes /\ n \in Nat
  BY WireAssumption, SMT DEF Sizes
<1>4. "call" \in Texts /\ "value" \in Texts /\ "" \in Texts
  BY DEF Texts
<1>5. 0 \in Sizes /\ 0 \in Nat
  BY SMT DEF Sizes
<1>6. ASSUME NEW x \in Texts, NEW n \in Nat, n \in Sizes
      PROVE  Str(x, n) \in Strs /\ (n # 0 => Shown(Str(x, n)) = Str(x, n))
  BY <1>6 DEF Str, Strs, Shown
<1>7. NoText \in Strs /\ Shown(NoText) = NoText
  BY <1>4, <1>5 DEF NoText, Strs, Shown
<1> QED
  BY <1>1, <1>2, <1>3, <1>4, <1>6, <1>7

\* tarantool_get returns what tarantool_set stored, for every length.
THEOREM GetReadsBack == GetReads
<1> SUFFICES ASSUME NEW idLen \in IdLengths, NEW valLen \in ValueLengths, NEW reply \in SpaceReplies
             PROVE  LET space == Bytes(resolve_space_id(reply))
                        attr == Str("call", idLen)
                        val == IF valLen = 0 THEN NoText ELSE Str("value", valLen)
                        set == set_request(sync, space, attr, now, now, val)
                        get == get_request(sync, space, attr)
                        tuple == FieldOf(set, IPROTO_TUPLE)
                        found == /\ \A q \in {set, get} : FieldOf(q, IPROTO_SPACE_ID) = mp_encode_uint(Bytes(512))
                                 /\ ElementsOf(FieldOf(get, IPROTO_KEY)) = <<ElementsOf(tuple)[1]>>
                        data == IF found THEN <<tuple>> ELSE <<>>
                    IN  /\ tarantool_get(DataReply(sync, data), sync) = val
                        /\ tarantool_get(DataReply(earlier, data), sync) = NotFound
  BY DEF GetReads
<1> DEFINE space == Bytes(resolve_space_id(reply))
           attr == Str("call", idLen)
           val == IF valLen = 0 THEN NoText ELSE Str("value", valLen)
           set == set_request(sync, space, attr, now, now, val)
           get == get_request(sync, space, attr)
           tuple == FieldOf(set, IPROTO_TUPLE)
           found == /\ \A q \in {set, get} : FieldOf(q, IPROTO_SPACE_ID) = mp_encode_uint(Bytes(512))
                    /\ ElementsOf(FieldOf(get, IPROTO_KEY)) = <<ElementsOf(tuple)[1]>>
           data == IF found THEN <<tuple>> ELSE <<>>
<1>1. space = Bytes(512)
  BY SpaceResolved
<1>2. space \in Numbers
  BY <1>1, Examples
<1>3. attr \in Strs /\ val \in Strs /\ Shown(val) = val
  BY Examples
<1>4. sync \in Numbers /\ earlier \in Numbers /\ now \in Numbers /\ sync # earlier
  BY Examples
<1> HIDE DEF space, attr, val
<1>5. set = set_request(sync, space, attr, now, now, val) /\ get = get_request(sync, space, attr)
  OBVIOUS
<1> HIDE DEF set, get
<1>0. Matching(set, get, space, attr, now, now, val)
  BY <1>2, <1>3, <1>4, <1>5, SameTuple
<1>6. /\ FieldOf(set, <<16>>) = mp_encode_uint(space)
      /\ FieldOf(get, <<16>>) = mp_encode_uint(space)
      /\ ElementsOf(FieldOf(get, <<32>>)) = <<ElementsOf(FieldOf(set, <<33>>))[1]>>
      /\ Stored(FieldOf(set, <<33>>), attr, now, now, val)
  BY <1>0 DEF Matching
<1>7. tuple = FieldOf(set, <<33>>)
  BY DEF IPROTO_TUPLE
<1>8. found
  BY <1>1, <1>6, <1>7 DEF IPROTO_SPACE_ID, IPROTO_KEY
<1> HIDE DEF found
<1>9. data = <<tuple>>
  BY <1>8
<1>10. PICK fs, array : /\ TupleFields(fs, attr, now, now, val) /\ IsArray(array, 7)
                        /\ FieldOf(set, <<33>>) = Cat(array, FlattenSeq(fs))
  BY <1>6 DEF Stored
<1>11. tuple = Cat(array, FlattenSeq(fs))
  BY <1>7, <1>10
<1> HIDE DEF tuple, data
<1>12. /\ tarantool_get(DataReply(sync, <<tuple>>), sync) = Shown(val)
       /\ tarantool_get(DataReply(earlier, <<tuple>>), sync) = NotFound
  BY <1>4, <1>10, <1>11, ReplyRead
<1>13. /\ tarantool_get(DataReply(sync, data), sync) = val
       /\ tarantool_get(DataReply(earlier, data), sync) = NotFound
  BY <1>3, <1>9, <1>12
<1> QED
  BY <1>13 DEF space, attr, val, set, get, tuple, found, data

\* OsReadsOwn at every state.
THEOREM OsReadsBack == RegistrySpec => []OsReadsOwn
<1>1. OsReadsOwn
  BY GetReadsBack DEF OsReadsOwn
<1> QED
  BY <1>1, PTL

\* n pairs of buffers, and the objects that they are in a row.
Pairs(ps, n) ==
    /\ n \in Nat \ {0} /\ ps \in Seq(Seq(Buffers)) /\ Len(ps) = n
    /\ \A i \in 1..n : Len(ps[i]) = 2 /\ ps[i][1] \in Buffers /\ ps[i][2] \in Buffers
InRow(os, ps, n) ==
    /\ os \in Seq(Buffers) /\ Len(os) = 2 * n
    /\ \A i \in 1..n : os[2 * i - 1] = ps[i][1] /\ os[2 * i] = ps[i][2]

\* A pair behind those that are in a row.
LEMMA OneMorePair ==
    ASSUME NEW ps, NEW n, Pairs(ps, n), NEW m \in 2..n, NEW os, InRow(os, ps, m - 1)
    PROVE  InRow(Cat(os, ps[m]), ps, m)
<1> DEFINE p == ps[m]
           q == os \o p
<1>1. /\ m \in 1..n /\ n \in Nat /\ p \in Seq(Buffers) /\ Len(p) = 2
      /\ os \in Seq(Buffers) /\ Len(os) = 2 * (m - 1)
      /\ \A i \in 1..(m - 1) : os[2 * i - 1] = ps[i][1] /\ os[2 * i] = ps[i][2]
  BY DEF Pairs, InRow
<1> HIDE DEF p
<1>2. /\ q \in Seq(Buffers) /\ Len(q) = 2 * m
      /\ \A j \in 1..Len(os) : q[j] = os[j]
      /\ \A j \in 1..2 : q[Len(os) + j] = p[j]
  <2>1. /\ q \in Seq(Buffers) /\ Len(q) = Len(os) + Len(p)
        /\ \A i \in 1..(Len(os) + Len(p)) : q[i] = IF i <= Len(os) THEN os[i] ELSE p[i - Len(os)]
    BY <1>1, ConcatProperties
  <2> HIDE DEF q
  <2>2. Len(q) = 2 * m
    BY <1>1, <2>1
  <2>3. ASSUME NEW j \in 1..Len(os) PROVE q[j] = os[j]
    BY <1>1, <2>1
  <2>4. ASSUME NEW j \in 1..2 PROVE q[Len(os) + j] = p[j]
    <3>1. /\ Len(os) + j \in 1..(Len(os) + Len(p)) /\ ~(Len(os) + j <= Len(os))
          /\ (Len(os) + j) - Len(os) = j
      BY <1>1
    <3> QED
      BY <2>1, <3>1
  <2> QED
    BY <2>1, <2>2, <2>3, <2>4
<1> HIDE DEF q
<1>3. ASSUME NEW i \in 1..m
      PROVE  q[2 * i - 1] = ps[i][1] /\ q[2 * i] = ps[i][2]
  <2>1. CASE i = m
    <3>1. 2 * i - 1 = Len(os) + 1 /\ 2 * i = Len(os) + 2 /\ 1 \in 1..2 /\ 2 \in 1..2
      BY <1>1, <2>1
    <3>2. q[2 * i - 1] = p[1] /\ q[2 * i] = p[2]
      BY <1>2, <3>1, Zenon
    <3> QED
      BY <2>1, <3>2 DEF p
  <2>2. CASE i # m
    <3>1. i \in 1..(m - 1) /\ 2 * i - 1 \in 1..Len(os) /\ 2 * i \in 1..Len(os)
      BY <1>1, <2>2
    <3> QED
      BY <1>1, <1>2, <3>1, Zenon
  <2> QED
    BY <2>1, <2>2
<1>4. Cat(os, ps[m]) = q
  BY DEF Cat, p, q
<1> QED
  BY <1>2, <1>3, <1>4 DEF InRow

\* FlattenSeq puts the keys and values of a table in a row.
LEMMA FlatPairs ==
    ASSUME NEW ps, NEW n, Pairs(ps, n)
    PROVE  InRow(FlattenSeq(ps), ps, n)
<1>1. n \in Nat \ {0} /\ ps \in Seq(Seq(Buffers)) /\ Len(ps) = n
  BY DEF Pairs
<1>2. PICK f : Flat(f, ps, n) /\ FlattenSeq(ps) = f[n]
  BY <1>1, FlatUnfolds
<1> DEFINE B == {m \in 1..n : ~ InRow(f[m], ps, m)}
<1>3. InRow(f[1], ps, 1)
  <2>1. f[1] = ps[1] /\ 1 \in 1..n
    BY <1>1, <1>2 DEF Flat
  <2>2. ps[1] \in Seq(Buffers) /\ Len(ps[1]) = 2
    BY <1>1, <2>1 DEF Pairs
  <2>3. \A i \in 1..1 : i = 1 /\ 2 * i - 1 = 1 /\ 2 * i = 2
    OBVIOUS
  <2>4. 2 * 1 = 2
    OBVIOUS
  <2> QED
    BY <2>1, <2>2, <2>3, <2>4, Zenon DEF InRow
<1>4. ASSUME B # {} PROVE FALSE
  <2>1. B \subseteq Nat
    OBVIOUS
  <2> HIDE DEF B
  <2>2. PICK m \in B : \A i \in B : ~ i < m
    BY <1>4, <2>1, Skipping!Least
  <2> USE DEF B
  <2>3. m \in 1..n /\ ~ InRow(f[m], ps, m) /\ m # 1
    BY <2>2, <1>3
  <2>4. m - 1 \in 1..n /\ m - 1 < m /\ m \in 2..n
    BY <1>1, <2>3
  <2>5. InRow(f[m - 1], ps, m - 1)
    BY <2>2, <2>4
  <2>6. f[m] = Cat(f[m - 1], ps[m])
    BY <1>2, <2>4 DEF Flat
  <2>7. InRow(Cat(f[m - 1], ps[m]), ps, m)
    BY <2>4, <2>5, OneMorePair
  <2> QED
    BY <2>3, <2>6, <2>7
<1>5. InRow(f[n], ps, n)
  BY <1>1, <1>4
<1> QED
  BY <1>2, <1>5

\* Another order of the pairs: the place of the i-th one.
Turned(i, r, n) == IF i + r <= n THEN i + r ELSE i + r - n

\* The pairs in another order are still pairs, and every one is among them.
LEMMA RotatedPairs ==
    ASSUME NEW ps, NEW n, Pairs(ps, n), NEW r \in 0..n
    PROVE  /\ Pairs(Rotate(ps, r), n)
           /\ \A i \in 1..n : Turned(i, r, n) \in 1..n /\ Rotate(ps, r)[i] = ps[Turned(i, r, n)]
           /\ \A j \in 1..n : \E i \in 1..n : Turned(i, r, n) = j
<1>1. n \in Nat \ {0} /\ ps \in Seq(Seq(Buffers)) /\ Len(ps) = n
  BY DEF Pairs
<1> DEFINE a == SubSeq(ps, r + 1, n)
           b == SubSeq(ps, 1, r)
           q == a \o b
<1>2. /\ a \in Seq(Seq(Buffers)) /\ Len(a) = n - r /\ \A i \in 1..(n - r) : a[i] = ps[i + r]
      /\ b \in Seq(Seq(Buffers)) /\ Len(b) = r /\ \A i \in 1..r : b[i] = ps[i]
  BY <1>1
<1> HIDE DEF a, b
<1>3. /\ q \in Seq(Seq(Buffers)) /\ Len(q) = n
      /\ \A i \in 1..n : q[i] = IF i <= n - r THEN a[i] ELSE b[i - (n - r)]
  BY <1>1, <1>2
<1>4. Rotate(ps, r) = q
  BY <1>1 DEF Rotate, a, b
<1> HIDE DEF q
<1>5. ASSUME NEW i \in 1..n
      PROVE  Turned(i, r, n) \in 1..n /\ q[i] = ps[Turned(i, r, n)]
  <2>1. CASE i + r <= n
    <3>1. i <= n - r /\ i \in 1..(n - r) /\ i + r \in 1..n
      BY <1>1, <2>1
    <3> QED
      BY <1>2, <1>3, <2>1, <3>1 DEF Turned
  <2>2. CASE ~(i + r <= n)
    <3>1. ~(i <= n - r) /\ i - (n - r) \in 1..r /\ i + r - n = i - (n - r) /\ i + r - n \in 1..n
      BY <1>1, <2>2
    <3> QED
      BY <1>2, <1>3, <2>2, <3>1 DEF Turned
  <2> QED
    BY <2>1, <2>2
<1>6. ASSUME NEW j \in 1..n
      PROVE  \E i \in 1..n : Turned(i, r, n) = j
  <2>1. CASE j > r
    <3>1. j - r \in 1..n /\ Turned(j - r, r, n) = j
      BY <1>1, <2>1 DEF Turned
    <3> QED
      BY <3>1
  <2>2. CASE ~(j > r)
    <3>1. j - r + n \in 1..n /\ Turned(j - r + n, r, n) = j
      BY <1>1, <2>2 DEF Turned
    <3> QED
      BY <3>1
  <2> QED
    BY <2>1, <2>2
<1>7. Pairs(q, n)
  BY <1>1, <1>3, <1>5 DEF Pairs
<1> QED
  BY <1>4, <1>5, <1>6, <1>7

\* The loops of rtpe_tarantool_restore_calls.
Filling == INSTANCE Iteration WITH Op <- PayloadStep
Reading == INSTANCE Iteration WITH Op <- RowStep
Taking == INSTANCE Iteration WITH Op <- ItemStep
Grouping == INSTANCE Iteration WITH Op <- GroupStep
Reaching == INSTANCE Iteration WITH Op <- BodyStep

\* What rtpe_tarantool_save_call is given, and what its buffers have room for in
\* rtpe_tarantool_restore_calls.
PayloadFields == {"caller_ip", "caller_port", "callee_ip", "callee_port", "srtp_suite"}
Fields == {"call_id", "node_id"} \cup PayloadFields
Savable(info) ==
    /\ info = [f \in Fields |-> info[f]]
    /\ \A f \in Fields \ Ports : info[f] \in Strs /\ info[f].len # 0
    /\ \A f \in Ports : info[f] \in Numbers
    /\ \A f \in Fields \ ({"call_id"} \cup Ports) : info[f].len < Room[f]
AsRead(info) ==
    [f \in Fields |-> IF f = "call_id" /\ ~(info[f].len < 128) THEN NoText ELSE info[f]]

\* A key and a value of a table with these fields.
IsKey(k, name) == \E t : IsStr(k, t) /\ t.len # 0 /\ t.text = name
IsValue(v, name, info) == IF name \in Ports THEN IsUint(v, info[name]) ELSE IsStr(v, info[name])

\* mp_decode_str reads the key of a pair and stops at its value.
LEMMA KeyRead ==
    ASSUME NEW k, NEW name, IsKey(k, name), NEW r \in Buffers
    PROVE  /\ mp_decode_str(Cat(k, r)).val.text = name /\ mp_decode_str(Cat(k, r)).rest = r
           /\ k \in Buffers /\ Cat(k, r) \in Buffers /\ Skips(1, k)
<1>1. PICK t : IsStr(k, t) /\ t.len # 0 /\ t.text = name
  BY DEF IsKey
<1>2. Shown(t) = t
  BY <1>1 DEF Shown
<1>3. Skips(1, k)
  BY <1>1, ObjectForms
<1>4. /\ mp_decode_str(Cat(k, r)).val = Shown(t) /\ mp_decode_str(Cat(k, r)).rest = r
      /\ k \in Buffers /\ Cat(k, r) \in Buffers
  BY <1>1, ReadStr
<1> QED
  BY <1>1, <1>2, <1>3, <1>4

\* A port, and a string that fits its buffer, are copied; one that does not is not.
LEMMA PairCopied ==
    ASSUME NEW info, Savable(info), NEW name \in Fields, NEW names, name \in names,
           NEW k, IsKey(k, name), NEW v, IsValue(v, name, info), NEW r \in Buffers,
           NEW X, X = [f \in Fields |-> X[f]]
    PROVE  PairStep([info |-> X, rest |-> Cat(k, Cat(v, r))], names)
             = [info |-> [f \in Fields |-> IF f = name /\ (name \in Ports \/ Fits(name, info[name]))
                                           THEN info[f] ELSE X[f]],
                rest |-> r]
<1> DEFINE q == Cat(v, r)
           p == Cat(k, q)
           st == [info |-> X, rest |-> p]
           kk == mp_decode_str(p)
           t == mp_decode_str(q)
           n == mp_decode_uint(q)
<1>1. /\ name \in Ports => n.val = info[name] /\ n.rest = r /\ q \in Buffers
      /\ name \notin Ports => t.val = Shown(info[name]) /\ t.rest = r /\ q \in Buffers
  BY ReadUint, ReadStr DEF IsValue
<1>2. name \notin Ports => t.val = info[name]
  BY <1>1 DEF Savable, Shown
<1> HIDE DEF q, t, n
<1>3. kk.val.text = name /\ kk.rest = q
  BY <1>1, KeyRead
<1> HIDE DEF p, kk
<1>4. PairStep(st, names) =
        IF name \in Ports THEN [info |-> [X EXCEPT ![name] = n.val], rest |-> n.rest]
        ELSE [info |-> IF Fits(name, t.val) THEN [X EXCEPT ![name] = t.val] ELSE X, rest |-> t.rest]
  <2>1. st.rest = p /\ st.info = X
    OBVIOUS
  <2> HIDE DEF st
  <2> QED
    BY <1>3, <2>1, Zenon DEF PairStep, kk, t, n
<1> HIDE DEF st
<1>5. \A x : [X EXCEPT ![name] = x] = [f \in Fields |-> IF f = name THEN x ELSE X[f]]
  OBVIOUS
<1>6. CASE name \in Ports
  BY <1>1, <1>4, <1>5, <1>6 DEF p, q, st
<1>7. CASE name \notin Ports
  <2>1. CASE Fits(name, info[name])
    BY <1>1, <1>2, <1>4, <1>5, <1>7, <2>1 DEF p, q, st
  <2>2. CASE ~ Fits(name, info[name])
    BY <1>1, <1>2, <1>4, <1>7, <2>2 DEF p, q, st
  <2> QED
    BY <2>1, <2>2
<1> QED
  BY <1>6, <1>7

\* rest[i] is what follows the first i of the pairs.
PairRests(rest, ps, n, r) ==
    /\ rest[n] = r /\ \A i \in 0..n : rest[i] \in Buffers
    /\ \A i \in 1..n : rest[i - 1] = Cat(ps[i][1], Cat(ps[i][2], rest[i]))

\* Every table has what follows each of its pairs.
LEMMA PairSuffix ==
    ASSUME NEW ps, NEW n, Pairs(ps, n), NEW r \in Buffers
    PROVE  /\ FlattenSeq(FlattenSeq(ps)) \in Buffers
           /\ \E rest : /\ PairRests(rest, ps, n, r)
                        /\ rest[0] = Cat(FlattenSeq(FlattenSeq(ps)), r)
<1> DEFINE os == FlattenSeq(ps)
<1>1. InRow(os, ps, n) /\ n \in Nat \ {0}
  BY FlatPairs DEF Pairs
<1> HIDE DEF os
<1>2. /\ os \in Seq(Buffers) /\ Len(os) = 2 * n
      /\ \A i \in 1..n : os[2 * i - 1] = ps[i][1] /\ os[2 * i] = ps[i][2]
  BY <1>1 DEF InRow
<1>3. os # <<>>
  BY <1>1, <1>2
<1>4. FlattenSeq(os) \in Buffers
  BY <1>2, <1>3, FlatSuffix
<1>5. PICK g : Suffix(g, os, Len(os), r) /\ g[0] = Cat(FlattenSeq(os), r)
  BY <1>2, <1>3, FlatSuffix
<1>6. /\ g[2 * n] = r /\ \A i \in 1..(2 * n) : g[i - 1] = Cat(os[i], g[i])
      /\ \A i \in 0..(2 * n) : g[i] \in Buffers
  BY <1>2, <1>5 DEF Suffix
<1> DEFINE rest == [i \in 0..n |-> g[2 * i]]
<1>7. rest[n] = r /\ rest[0] = g[0]
  <2>1. n \in 0..n /\ 0 \in 0..n /\ 2 * 0 = 0
    BY <1>1
  <2> QED
    BY <1>6, <2>1
<1>8. ASSUME NEW i \in 0..n PROVE rest[i] \in Buffers
  <2>1. 2 * i \in 0..(2 * n)
    BY <1>1
  <2> QED
    BY <1>6, <2>1
<1>9. ASSUME NEW i \in 1..n PROVE rest[i - 1] = Cat(ps[i][1], Cat(ps[i][2], rest[i]))
  <2>1. /\ i \in 0..n /\ i - 1 \in 0..n /\ 2 * i \in 1..(2 * n) /\ 2 * i - 1 \in 1..(2 * n)
        /\ 2 * (i - 1) = (2 * i - 1) - 1
    BY <1>1
  <2>2. rest[i - 1] = g[(2 * i - 1) - 1] /\ rest[i] = g[2 * i]
    BY <2>1
  <2>3. g[(2 * i - 1) - 1] = Cat(os[2 * i - 1], g[2 * i - 1])
    BY <1>6, <2>1, Zenon
  <2>4. g[2 * i - 1] = Cat(os[2 * i], g[2 * i])
    BY <1>6, <2>1, Zenon
  <2> HIDE DEF rest
  <2> QED
    BY <1>2, <2>2, <2>3, <2>4, Zenon
<1> HIDE DEF rest
<1>10. PairRests(rest, ps, n, r)
  BY <1>7, <1>8, <1>9 DEF PairRests
<1> QED
  BY <1>4, <1>5, <1>7, <1>10 DEF os

\* A pair of a payload fills in the field of its name.
Same == [f \in Fields |-> f]

\* One pair of a payload: its value is copied, the other fields stay.
LEMMA PayloadPair ==
    ASSUME NEW info, Savable(info), NEW name \in PayloadFields,
           NEW k, IsKey(k, name), NEW v, IsValue(v, name, info), NEW r \in Buffers,
           NEW X, X = [f \in Fields |-> X[f]]
    PROVE  PayloadStep([info |-> X, rest |-> Cat(k, Cat(v, r))])
             = [info |-> Filling!Filled(Fields, Same, {name}, AsRead(info), X), rest |-> r]
<1> DEFINE names == {"caller_ip", "callee_ip", "srtp_suite"} \cup Ports
<1>1. name \in Fields /\ name \in names /\ name # "call_id"
  BY DEF Fields, PayloadFields, Ports
<1>2. name \in Ports \/ Fits(name, info[name])
  BY <1>1 DEF Savable, Fits
<1>3. AsRead(info)[name] = info[name]
  BY <1>1 DEF AsRead
<1> DEFINE st == [info |-> X, rest |-> Cat(k, Cat(v, r))]
<1>4. PairStep(st, names)
        = [info |-> [f \in Fields |-> IF f = name /\ (name \in Ports \/ Fits(name, info[name]))
                                      THEN info[f] ELSE X[f]], rest |-> r]
  <2> HIDE DEF names
  <2> QED
    BY <1>1, PairCopied
<1>5. [f \in Fields |-> IF f = name /\ (name \in Ports \/ Fits(name, info[name]))
                        THEN info[f] ELSE X[f]]
        = Filling!Filled(Fields, Same, {name}, AsRead(info), X)
  BY <1>2, <1>3 DEF Filling!Filled, Same
<1> QED
  BY <1>4, <1>5 DEF PayloadStep

\* The pairs of a payload, in any order.
IsTable(ps, n, name, names, info) ==
    /\ Pairs(ps, n) /\ {name[i] : i \in 1..n} = names
    /\ \A i \in 1..n : IsKey(ps[i][1], name[i]) /\ IsValue(ps[i][2], name[i], info)

\* The loop over a payload fills in every field of it.
LEMMA PayloadRead ==
    ASSUME NEW info, Savable(info), NEW ps, NEW n, NEW name,
           IsTable(ps, n, name, PayloadFields, info), NEW r \in Buffers,
           NEW X, X = [f \in Fields |-> X[f]]
    PROVE  Filling!Repeated([info |-> X, rest |-> Cat(FlattenSeq(FlattenSeq(ps)), r)], n)
             = [info |-> [f \in Fields |-> IF f \in PayloadFields THEN AsRead(info)[f] ELSE X[f]],
                rest |-> r]
<1>1. Pairs(ps, n) /\ n \in Nat
  BY DEF IsTable, Pairs
<1>2. PICK rest : PairRests(rest, ps, n, r) /\ rest[0] = Cat(FlattenSeq(FlattenSeq(ps)), r)
  BY <1>1, PairSuffix
<1>3. ASSUME NEW i \in 1..n, NEW Y, Y = [f \in Fields |-> Y[f]]
      PROVE  PayloadStep([info |-> Y, rest |-> rest[i - 1]])
               = [info |-> Filling!Filled(Fields, Same, {name[i]}, AsRead(info), Y), rest |-> rest[i]]
  <2>1. name[i] \in PayloadFields /\ IsKey(ps[i][1], name[i]) /\ IsValue(ps[i][2], name[i], info)
    BY DEF IsTable
  <2>2. i \in 0..n
    BY <1>1
  <2>3. rest[i] \in Buffers /\ rest[i - 1] = Cat(ps[i][1], Cat(ps[i][2], rest[i]))
    BY <1>2, <2>2 DEF PairRests
  <2> QED
    BY <1>3, <2>1, <2>3, PayloadPair
<1>4. Filling!FillsIn(n, rest, Fields, Same, name, AsRead(info), X)
  BY <1>3 DEF Filling!FillsIn
<1>5. rest[n] = r /\ {name[i] : i \in 1..n} = PayloadFields
  BY <1>2 DEF PairRests, IsTable
<1>6. Filling!Filled(Fields, Same, PayloadFields, AsRead(info), X)
        = [f \in Fields |-> IF f \in PayloadFields THEN AsRead(info)[f] ELSE X[f]]
  BY DEF Filling!Filled, Same
<1> DEFINE full == AsRead(info)
           st == [info |-> X, rest |-> rest[0]]
<1>7. Filling!Repeated(st, n)
        = [info |-> Filling!Filled(Fields, Same, PayloadFields, full, X), rest |-> rest[n]]
  <2> HIDE DEF full
  <2> QED
    BY <1>1, <1>4, <1>5, Filling!Fills DEF full
<1> QED
  BY <1>2, <1>5, <1>6, <1>7

\* The head of a payload says itself how many pairs follow it.
LEMMA PayloadHead ==
    ASSUME NEW r \in Buffers
    PROVE  Byte(Cat(mp_encode_map(5), r), 1) \in MapTags.first..MapTags.last
<1>1. Bytes(5) = <<5>>
  BY DEF Bytes
<1>2. FitsTag(MapTags, <<5>>) /\ Size(<<5>>) = 5
  BY DEF FitsTag, MapTags, Size, Place
<1>3. mp_encode_map(5) = Raw(<<133>>)
  <2>1. MapTags.first + 5 = 133
    BY DEF MapTags
  <2> QED
    BY <1>1, <1>2, <2>1 DEF mp_encode_map, Encode
<1>4. PICK b \in Seq(Octets) : b = <<133>>
  <2>1. <<133>> \in Seq(Octets)
    BY DEF Octets
  <2> QED
    BY <2>1, Zenon
<1> DEFINE p == Raw(b) \o r
<1>5. \A i \in 1..Len(b) : Byte(p, i) = b[i]
  BY RawRead DEF Buffers
<1>6. Byte(p, 1) = 133
  <2> HIDE DEF p
  <2> QED
    BY <1>4, <1>5
<1>7. Cat(mp_encode_map(5), r) = p
  BY <1>3, <1>4, Zenon DEF Cat
<1>8. 133 \in MapTags.first..MapTags.last
  BY DEF MapTags
<1> QED
  BY <1>6, <1>7, <1>8, Zenon

\* The values of a row.
IsPayload(v, info) ==
    \E qs, qname : /\ IsTable(qs, 5, qname, PayloadFields, info)
                   /\ v = Cat(mp_encode_map(5), FlattenSeq(FlattenSeq(qs)))
RowFields == {"call_id", "node_id", "payload"}
IsRowValue(v, name, info) == IF name = "payload" THEN IsPayload(v, info) ELSE IsValue(v, name, info)
Part == [f \in Fields |-> IF f \in PayloadFields THEN "payload" ELSE f]

\* A loop moves on.
LEMMA Moved ==
    ASSUME NEW x, NEW p, NEW q
    PROVE  [[info |-> x, rest |-> p] EXCEPT !.rest = q] = [info |-> x, rest |-> q]
OBVIOUS

\* The payload of a row.
LEMMA RowPayload ==
    ASSUME NEW info, Savable(info), NEW k, IsKey(k, "payload"), NEW v, IsPayload(v, info),
           NEW r \in Buffers, NEW X, X = [f \in Fields |-> X[f]]
    PROVE  RowStep([info |-> X, rest |-> Cat(k, Cat(v, r))])
             = [info |-> [f \in Fields |-> IF f \in PayloadFields THEN AsRead(info)[f] ELSE X[f]],
                rest |-> r]
<1>1. PICK qs, qname : /\ IsTable(qs, 5, qname, PayloadFields, info)
                       /\ v = Cat(mp_encode_map(5), FlattenSeq(FlattenSeq(qs)))
  BY DEF IsPayload
<1> DEFINE m == mp_encode_map(5)
           b == FlattenSeq(FlattenSeq(qs))
           c == Cat(b, r)
           q == Cat(m, c)
           p == Cat(k, q)
           st == [info |-> X, rest |-> p]
           kk == mp_decode_str(p)
           pp == mp_decode_map(q)
<1>2. b \in Buffers
  <2>1. Pairs(qs, 5)
    BY <1>1 DEF IsTable
  <2> QED
    BY <2>1, PairSuffix
<1>3. IsMap(m, 5) /\ m \in Buffers
  <2>1. 5 \in Sizes
    BY SMT DEF Sizes
  <2> QED
    BY <2>1, HeadEncodings DEF IsMap
<1>4. Cat(v, r) = q /\ c \in Buffers /\ q \in Buffers
  <2> HIDE DEF b, m
  <2>1. v = Cat(m, b)
    BY <1>1, Zenon DEF b, m
  <2> QED
    BY <1>2, <1>3, <2>1, CatFacts
<1>5. Byte(q, 1) \in MapTags.first..MapTags.last
  <2> HIDE DEF c
  <2> QED
    BY <1>4, PayloadHead
<1> DEFINE n == 5
<1>6. pp.val = n /\ pp.rest = c
  <2>1. IsMap(m, n)
    BY <1>3
  <2> HIDE DEF c, m, n
  <2> QED
    BY <1>4, <2>1, ReadMap
<1> HIDE DEF q, pp
<1>7. kk.val.text = "payload" /\ kk.rest = q
  BY <1>4, KeyRead
<1> HIDE DEF p, kk, n, c
<1>8. [st EXCEPT !.rest = pp.rest] = [info |-> X, rest |-> c]
  BY <1>6, Moved, Zenon
<1>9. RowStep(st) = Filling!Repeated([st EXCEPT !.rest = pp.rest], pp.val)
  <2>1. st.rest = p
    OBVIOUS
  <2> HIDE DEF st
  <2> QED
    BY <1>5, <1>7, <2>1 DEF RowStep, kk, pp, Times, Filling!Repeated
<1>10. RowStep(st) = Filling!Repeated([info |-> X, rest |-> c], n)
  <2> HIDE DEF st
  <2> QED
    BY <1>6, <1>8, <1>9, Zenon
<1>11. Filling!Repeated([info |-> X, rest |-> c], n)
         = [info |-> [f \in Fields |-> IF f \in PayloadFields THEN AsRead(info)[f] ELSE X[f]],
            rest |-> r]
  <2>1. IsTable(qs, n, qname, PayloadFields, info)
    BY <1>1 DEF n
  <2>2. c = Cat(FlattenSeq(FlattenSeq(qs)), r)
    BY DEF c
  <2> QED
    BY <2>1, <2>2, PayloadRead
<1> QED
  BY <1>4, <1>10, <1>11 DEF p

\* One pair of a row.
LEMMA RowPair ==
    ASSUME NEW info, Savable(info), NEW name \in RowFields,
           NEW k, IsKey(k, name), NEW v, IsRowValue(v, name, info), NEW r \in Buffers,
           NEW X, X = [f \in Fields |-> X[f]], X["call_id"] \in {NoText, AsRead(info)["call_id"]}
    PROVE  RowStep([info |-> X, rest |-> Cat(k, Cat(v, r))])
             = [info |-> Reading!Filled(Fields, Part, {name}, AsRead(info), X), rest |-> r]
<1> DEFINE st == [info |-> X, rest |-> Cat(k, Cat(v, r))]
<1>1. CASE name = "payload"
  <2>1. [f \in Fields |-> IF f \in PayloadFields THEN AsRead(info)[f] ELSE X[f]]
          = Reading!Filled(Fields, Part, {name}, AsRead(info), X)
    BY <1>1 DEF Reading!Filled, Part, Fields, PayloadFields
  <2>2. IsPayload(v, info) /\ IsKey(k, "payload")
    BY <1>1 DEF IsRowValue
  <2> QED
    BY <2>1, <2>2, RowPayload
<1>2. CASE name # "payload"
  <2> DEFINE names == {"call_id", "node_id"}
  <2>1. name \in names /\ name \in Fields /\ name \notin Ports /\ name \notin PayloadFields
    BY <1>2 DEF RowFields, Fields, Ports, PayloadFields
  <2>2. IsValue(v, name, info)
    BY <1>2 DEF IsRowValue
  <2>3. PairStep(st, names)
          = [info |-> [f \in Fields |-> IF f = name /\ (name \in Ports \/ Fits(name, info[name]))
                                        THEN info[f] ELSE X[f]], rest |-> r]
    <3> HIDE DEF names
    <3> QED
      BY <2>1, <2>2, PairCopied
  <2>4. [f \in Fields |-> IF f = name /\ (name \in Ports \/ Fits(name, info[name]))
                          THEN info[f] ELSE X[f]]
          = Reading!Filled(Fields, Part, {name}, AsRead(info), X)
    <3>1. CASE name = "call_id"
      <4>1. Fits(name, info[name]) <=> info["call_id"].len < 128
        BY <3>1 DEF Fits, Room
      <4> QED
        BY <2>1, <3>1, <4>1 DEF Reading!Filled, Part, AsRead
    <3>2. CASE name # "call_id"
      <4>1. Fits(name, info[name])
        BY <2>1, <3>2 DEF Savable, Fits
      <4> QED
        BY <2>1, <3>2, <4>1 DEF Reading!Filled, Part, AsRead
    <3> QED
      BY <3>1, <3>2
  <2>5. RowStep(st) = PairStep(st, names)
    <3>1. st.rest = Cat(k, Cat(v, r))
      OBVIOUS
    <3>2. Cat(v, r) \in Buffers
      BY <2>1, <2>2, ReadStr DEF IsValue
    <3>3. mp_decode_str(st.rest).val.text = name
      BY <3>1, <3>2, KeyRead
    <3> HIDE DEF st
    <3> QED
      BY <1>2, <3>3, Zenon DEF RowStep
  <2> QED
    BY <2>3, <2>4, <2>5
<1> QED
  BY <1>1, <1>2

\* The pairs of a row, in any order.
IsRow(ps, name, info) ==
    /\ Pairs(ps, 3) /\ {name[i] : i \in 1..3} = RowFields
    /\ \A i \in 1..3 : IsKey(ps[i][1], name[i]) /\ IsRowValue(ps[i][2], name[i], info)

\* The loop over a row reads the call that was saved in it.
LEMMA RowRead ==
    ASSUME NEW info, Savable(info), NEW ps, NEW name, IsRow(ps, name, info), NEW r \in Buffers
    PROVE  Reading!Repeated([info |-> NoInfo, rest |-> Cat(FlattenSeq(FlattenSeq(ps)), r)], 3)
             = [info |-> AsRead(info), rest |-> r]
<1> DEFINE n == 3
           X == NoInfo
           full == AsRead(info)
           names == RowFields
<1>1. Pairs(ps, n) /\ n \in Nat /\ names = {name[i] : i \in 1..n}
  BY DEF IsRow
<1>2. X = [f \in Fields |-> X[f]] /\ X["call_id"] = NoText
  BY DEF NoInfo, Fields, PayloadFields
<1>3. PICK rest : PairRests(rest, ps, n, r) /\ rest[0] = Cat(FlattenSeq(FlattenSeq(ps)), r)
  <2> HIDE DEF n
  <2> QED
    BY <1>1, PairSuffix
<1>4. ASSUME NEW i \in 1..n, NEW Y, Y = [f \in Fields |-> Y[f]],
             \A f \in Fields : Y[f] \in {X[f], full[f]}
      PROVE  RowStep([info |-> Y, rest |-> rest[i - 1]])
               = [info |-> Reading!Filled(Fields, Part, {name[i]}, full, Y), rest |-> rest[i]]
  <2>1. name[i] \in names /\ IsKey(ps[i][1], name[i]) /\ IsRowValue(ps[i][2], name[i], info)
    BY DEF IsRow
  <2> HIDE DEF n, X
  <2>2. i \in 0..n
    BY <1>1
  <2>3. rest[i] \in Buffers /\ rest[i - 1] = Cat(ps[i][1], Cat(ps[i][2], rest[i]))
    BY <1>3, <2>2 DEF PairRests
  <2>4. Y["call_id"] \in {NoText, AsRead(info)["call_id"]}
    <3>1. "call_id" \in Fields
      BY DEF Fields
    <3> QED
      BY <1>2, <1>4, <3>1
  <2> DEFINE nm == name[i]
             rr == rest[i]
             k == ps[i][1]
             v == ps[i][2]
  <2>5. nm \in RowFields /\ IsKey(k, nm) /\ IsRowValue(v, nm, info) /\ rr \in Buffers
    BY <2>1, <2>3
  <2> HIDE DEF nm, rr, k, v
  <2>6. RowStep([info |-> Y, rest |-> Cat(k, Cat(v, rr))])
               = [info |-> Reading!Filled(Fields, Part, {nm}, AsRead(info), Y), rest |-> rr]
    BY <1>4, <2>4, <2>5, RowPair
  <2> QED
    BY <2>3, <2>6 DEF nm, rr, k, v
<1>5. Reading!FillsIn(n, rest, Fields, Part, name, full, X)
  <2> HIDE DEF n, X, full
  <2> QED
    BY <1>4 DEF Reading!FillsIn
<1>6. Reading!Repeated([info |-> X, rest |-> rest[0]], n)
        = [info |-> Reading!Filled(Fields, Part, names, full, X), rest |-> rest[n]]
  <2> HIDE DEF n, X, full, names
  <2> QED
    BY <1>1, <1>2, <1>5, Reading!Fills
<1>7. Reading!Filled(Fields, Part, names, full, X) = [f \in Fields |-> full[f]]
  <2>1. \A f \in Fields : Part[f] \in RowFields
    BY DEF Fields, PayloadFields, Part, RowFields
  <2> HIDE DEF X, full
  <2> QED
    BY <2>1 DEF Reading!Filled
<1>8. [f \in Fields |-> full[f]] = full
  BY DEF AsRead
<1>9. rest[n] = r
  BY <1>3 DEF PairRests
<1> HIDE DEF n, X, full
<1>10. Reading!Repeated([info |-> X, rest |-> rest[0]], n) = [info |-> full, rest |-> r]
  BY <1>6, <1>7, <1>8, <1>9
<1> QED
  BY <1>3, <1>10 DEF n, X, full

\* The calls that reach the callback from one row, one array, one reply.
Handed(info) == IF info["call_id"].len < 128 THEN {info} ELSE {}
Yields(o, K) ==
    \A X : \A r \in Buffers :
        ItemStep([calls |-> X, rest |-> Cat(o, r)]) = [calls |-> X \cup K, rest |-> r]
Gives(o, K) ==
    \A X : \A r \in Buffers :
        GroupStep([calls |-> X, rest |-> Cat(o, r)]) = [calls |-> X \cup K, rest |-> r]
IsItem(o, info) ==
    \E ps, name : /\ IsRow(ps, name, info)
                  /\ o = Cat(mp_encode_map(3), FlattenSeq(FlattenSeq(ps)))

\* What is left of a call when it has been read.
LEMMA KeptCall ==
    ASSUME NEW info, Savable(info)
    PROVE  (IF AsRead(info)["call_id"] = NoText THEN {} ELSE {AsRead(info)}) = Handed(info)
<1>1. "call_id" \in Fields /\ "call_id" \notin Ports
  BY DEF Fields, Ports
<1>2. info["call_id"].len # 0 /\ info = [f \in Fields |-> info[f]]
  BY <1>1 DEF Savable
<1>3. info["call_id"] # NoText
  <2>1. NoText.len = 0
    BY DEF NoText
  <2> QED
    BY <1>2, <2>1, Zenon
<1>4. CASE info["call_id"].len < 128
  <2>1. AsRead(info) = info
    BY <1>2, <1>4 DEF AsRead
  <2> QED
    BY <1>3, <1>4, <2>1 DEF Handed
<1>5. CASE ~(info["call_id"].len < 128)
  <2>1. AsRead(info)["call_id"] = NoText
    BY <1>1, <1>5 DEF AsRead
  <2> QED
    BY <1>5, <2>1 DEF Handed
<1> QED
  BY <1>4, <1>5

\* A row that a call was saved in.
LEMMA ItemRead ==
    ASSUME NEW info, Savable(info), NEW o, IsItem(o, info)
    PROVE  Yields(o, Handed(info)) /\ o \in Buffers
<1>1. PICK ps, name : /\ IsRow(ps, name, info)
                      /\ o = Cat(mp_encode_map(3), FlattenSeq(FlattenSeq(ps)))
  BY DEF IsItem
<1> DEFINE m == mp_encode_map(3)
           b == FlattenSeq(FlattenSeq(ps))
           n == 3
<1>2. b \in Buffers
  <2>1. Pairs(ps, n)
    BY <1>1 DEF IsRow
  <2>2. <<>> \in Buffers
    BY CatFacts
  <2> HIDE DEF n
  <2> QED
    BY <2>1, <2>2, PairSuffix
<1>3. IsMap(m, n) /\ m \in Buffers
  <2>1. 3 \in Sizes
    BY SMT DEF Sizes
  <2> QED
    BY <2>1, HeadEncodings DEF IsMap
<1>4. o = Cat(m, b)
  BY <1>1, Zenon
<1>5. ASSUME NEW X, NEW r \in Buffers
      PROVE  ItemStep([calls |-> X, rest |-> Cat(o, r)]) = [calls |-> X \cup Handed(info), rest |-> r]
  <2> DEFINE c == Cat(b, r)
             q == Cat(m, c)
             h == mp_decode_map(q)
             st == [calls |-> X, rest |-> q]
             row == [info |-> AsRead(info), rest |-> r]
  <2> HIDE DEF b, m, n
  <2>1. Cat(o, r) = q /\ c \in Buffers /\ q \in Buffers
    BY <1>2, <1>3, <1>4, CatFacts
  <2>2. Reading!Repeated([info |-> NoInfo, rest |-> c], n) = row
    BY <1>1, RowRead DEF b, n
  <2> HIDE DEF c
  <2>3. h.val = n /\ h.rest = c
    BY <1>3, <2>1, ReadMap
  <2>4. Is(MapTags, q)
    BY <1>3, <2>1, Zenon DEF IsMap, Cat
  <2> HIDE DEF q, h, row
  <2>5. st.rest = q /\ st.calls = X
    OBVIOUS
  <2> HIDE DEF st
  <2>6. ItemStep(st) = [calls |-> X \cup IF row.info.call_id = NoText THEN {} ELSE {row.info},
                        rest |-> row.rest]
    <3>1. ReadRow(q) = row
      BY <2>2, <2>3 DEF ReadRow, h, Times, Reading!Repeated
    <3> QED
      BY <2>4, <2>5, <3>1, Zenon DEF ItemStep
  <2>7. row.info = AsRead(info) /\ row.rest = r /\ row.info.call_id = AsRead(info)["call_id"]
    BY DEF row
  <2> QED
    BY <2>1, <2>6, <2>7, KeptCall DEF st
<1>6. o \in Buffers
  <2> HIDE DEF b, m, n
  <2> QED
    BY <1>2, <1>3, <1>4, CatFacts
<1> QED
  BY <1>5, <1>6 DEF Yields

\* Every sequence of objects, one without any too, has what follows each of them.
LEMMA AnySuffix ==
    ASSUME NEW os \in Seq(Buffers), NEW r \in Buffers
    PROVE  /\ FlattenSeq(os) \in Buffers
           /\ \E g : Suffix(g, os, Len(os), r) /\ g[0] = Cat(FlattenSeq(os), r)
<1>1. CASE os # <<>>
  BY <1>1, FlatSuffix
<1>2. CASE os = <<>>
  <2>1. FlattenSeq(<<>>) = <<>>
    BY DEF FlattenSeq
  <2>2. <<>> \in Buffers /\ Cat(<<>>, r) = r
    BY Joined, Zenon DEF Cat
  <2> DEFINE g == [i \in {0} |-> r]
  <2>3. /\ g[0] = r /\ \A i \in 1..0 : g[i - 1] = Cat(os[i], g[i])
        /\ \A i \in 0..0 : g[i] \in Buffers
    OBVIOUS
  <2>4. Len(os) = 0
    BY <1>2
  <2>5. Suffix(g, os, Len(os), r)
    BY <2>3, <2>4, Zenon DEF Suffix
  <2> QED
    BY <1>2, <2>1, <2>2, <2>3, <2>5, Zenon
<1> QED
  BY <1>1, <1>2

\* The rows of one array.
LEMMA ItemsRead ==
    ASSUME NEW os \in Seq(Buffers), NEW K, \A i \in 1..Len(os) : Yields(os[i], K[i]),
           NEW r \in Buffers, NEW C
    PROVE  Taking!Repeated([calls |-> C, rest |-> Cat(FlattenSeq(os), r)], Len(os))
             = [calls |-> C \cup Taking!Added(K, Len(os)), rest |-> r]
<1> DEFINE n == Len(os)
<1>1. PICK g : Suffix(g, os, n, r) /\ g[0] = Cat(FlattenSeq(os), r)
  BY AnySuffix
<1>2. n \in Nat
  BY LenProperties
<1>3. \A i \in 1..n : Yields(os[i], K[i])
  OBVIOUS
<1> HIDE DEF n
<1>4. Taking!Adds(n, g, K)
  <2>1. ASSUME NEW i \in 1..n, NEW X
        PROVE  ItemStep([calls |-> X, rest |-> g[i - 1]]) = [calls |-> X \cup K[i], rest |-> g[i]]
    <3>1. i \in 0..n
      BY <1>2
    <3>2. g[i - 1] = Cat(os[i], g[i]) /\ g[i] \in Buffers
      BY <1>1, <3>1 DEF Suffix
    <3> QED
      BY <1>3, <3>2, Zenon DEF Yields
  <2> QED
    BY <2>1, Zenon DEF Taking!Adds
<1>5. Taking!Repeated([calls |-> C, rest |-> g[0]], n) 
        = [calls |-> C \cup Taking!Added(K, n), rest |-> g[n]]
  BY <1>2, <1>4, Taking!Gathers
<1>6. g[n] = r
  BY <1>1 DEF Suffix
<1> QED
  BY <1>1, <1>5, <1>6 DEF n

\* The arrays of one reply.
LEMMA GroupsRead ==
    ASSUME NEW os \in Seq(Buffers), NEW K, \A i \in 1..Len(os) : Gives(os[i], K[i]),
           NEW r \in Buffers, NEW C
    PROVE  Grouping!Repeated([calls |-> C, rest |-> Cat(FlattenSeq(os), r)], Len(os))
             = [calls |-> C \cup Grouping!Added(K, Len(os)), rest |-> r]
<1> DEFINE n == Len(os)
<1>1. PICK g : Suffix(g, os, n, r) /\ g[0] = Cat(FlattenSeq(os), r)
  BY AnySuffix
<1>2. n \in Nat
  BY LenProperties
<1>3. \A i \in 1..n : Gives(os[i], K[i])
  OBVIOUS
<1> HIDE DEF n
<1>4. Grouping!Adds(n, g, K)
  <2>1. ASSUME NEW i \in 1..n, NEW X
        PROVE  GroupStep([calls |-> X, rest |-> g[i - 1]]) = [calls |-> X \cup K[i], rest |-> g[i]]
    <3>1. i \in 0..n
      BY <1>2
    <3>2. g[i - 1] = Cat(os[i], g[i]) /\ g[i] \in Buffers
      BY <1>1, <3>1 DEF Suffix
    <3> QED
      BY <1>3, <3>2, Zenon DEF Gives
  <2> QED
    BY <2>1, Zenon DEF Grouping!Adds
<1>5. Grouping!Repeated([calls |-> C, rest |-> g[0]], n) 
        = [calls |-> C \cup Grouping!Added(K, n), rest |-> g[n]]
  BY <1>2, <1>4, Grouping!Gathers
<1>6. g[n] = r
  BY <1>1 DEF Suffix
<1> QED
  BY <1>1, <1>5, <1>6 DEF n

\* An array of rows gives what its rows give.
LEMMA GroupRead ==
    ASSUME NEW os \in Seq(Buffers), Len(os) \in Sizes, NEW K, \A i \in 1..Len(os) : Yields(os[i], K[i])
    PROVE  Gives(Array(os), Taking!Added(K, Len(os))) /\ Array(os) \in Buffers
<1> DEFINE n == Len(os)
           m == mp_encode_array(n)
           b == FlattenSeq(os)
           U == Taking!Added(K, n)
<1>1. IsArray(m, n) /\ m \in Buffers
  BY HeadEncodings DEF IsArray
<1>2. b \in Buffers
  BY CatFacts, AnySuffix
<1>3. Array(os) = Cat(m, b)
  BY Zenon DEF Array, Cat
<1>4. ASSUME NEW X, NEW r \in Buffers
      PROVE  GroupStep([calls |-> X, rest |-> Cat(Array(os), r)]) = [calls |-> X \cup U, rest |-> r]
  <2> DEFINE c == Cat(b, r)
             q == Cat(m, c)
             h == mp_decode_array(q)
             st == [calls |-> X, rest |-> q]
             to == [calls |-> X, rest |-> c]
  <2>2. Taking!Repeated(to, n) = [calls |-> X \cup U, rest |-> r]
    BY ItemsRead
  <2> HIDE DEF U
  <2> HIDE DEF b, m, n
  <2>1. Cat(Array(os), r) = q /\ c \in Buffers /\ q \in Buffers
    BY <1>1, <1>2, <1>3, CatFacts
  <2> HIDE DEF c
  <2>3. h.val = n /\ h.rest = c
    BY <1>1, <2>1, ReadArray
  <2>4. Is(ArrayTags, q)
    BY <1>1, <2>1, Zenon DEF IsArray, Cat
  <2> HIDE DEF q
  <2>5. st.rest = q /\ [st EXCEPT !.rest = h.rest] = to
    BY <2>3
  <2> HIDE DEF st, to, h
  <2>6. GroupStep(st) = Taking!Repeated([st EXCEPT !.rest = h.rest], h.val)
    BY <2>4, <2>5 DEF GroupStep, h, Times, Taking!Repeated
  <2>7. GroupStep(st) = [calls |-> X \cup U, rest |-> r]
    BY <2>2, <2>3, <2>5, <2>6, Zenon
  <2> QED
    BY <2>1, <2>7 DEF st
<1>5. Array(os) \in Buffers
  <2> HIDE DEF b, m, n
  <2> QED
    BY <1>1, <1>2, <1>3, CatFacts
<1> QED
  BY <1>4, <1>5 DEF Gives, U

\* The body of a reply.
LEMMA BodyRead ==
    ASSUME NEW items \in Seq(Buffers), NEW K, \A i \in 1..Len(items) : Gives(items[i], K[i]),
           NEW map, IsMap(map, 1), NEW key, IsUint(key, IPROTO_DATA), NEW array, IsArray(array, Len(items))
    PROVE  /\ ReadBody(Cat(map, Cat(key, Cat(array, FlattenSeq(items))))) = Grouping!Added(K, Len(items))
           /\ Cat(map, Cat(key, Cat(array, FlattenSeq(items)))) \in Buffers
<1> DEFINE n == Len(items)
           b == FlattenSeq(items)
           a == Cat(array, b)
           k == Cat(key, a)
           p == Cat(map, k)
           U == Grouping!Added(K, n)
           C == {}
<1>1. b \in Buffers /\ <<>> \in Buffers
  BY CatFacts, AnySuffix
<1>2. Grouping!Repeated([calls |-> C, rest |-> b], n) = [calls |-> C \cup U, rest |-> <<>>]
  <2>1. Grouping!Repeated([calls |-> C, rest |-> Cat(b, <<>>)], n) = [calls |-> C \cup U, rest |-> <<>>]
    <3> HIDE DEF C
    <3> QED
      BY <1>1, GroupsRead
  <2>2. Cat(b, <<>>) = b
    BY <1>1, CatFacts
  <2> HIDE DEF b, C, U, n
  <2> QED
    BY <2>1, <2>2, Zenon
<1>3. C \cup U = U
  OBVIOUS
<1> HIDE DEF U, C
<1>4. Grouping!Repeated([calls |-> C, rest |-> b], n) = [calls |-> U, rest |-> <<>>]
  BY <1>2, <1>3, Zenon
<1>5. IsArray(array, n) /\ array \in Buffers /\ key \in Buffers /\ map \in Buffers
  BY DEF IsArray, IsMap, IsUint
<1> HIDE DEF b, n
<1>6. a \in Buffers /\ k \in Buffers /\ p \in Buffers
  BY <1>1, <1>5, CatFacts
<1>7. mp_decode_array(a).val = n /\ mp_decode_array(a).rest = b
  BY <1>1, <1>5, ReadArray
<1> HIDE DEF a
<1>8. mp_decode_uint(k).val = <<48>> /\ mp_decode_uint(k).rest = a
  <2>1. PICK d : d = <<48>> /\ d = IPROTO_DATA
    BY DEF IPROTO_DATA
  <2>2. mp_decode_uint(k).val = d /\ mp_decode_uint(k).rest = a
    BY <1>6, <2>1, ReadUint
  <2> QED
    BY <2>1, <2>2
<1> HIDE DEF k
<1>9. mp_decode_map(p).val = 1 /\ mp_decode_map(p).rest = k
  <2>1. PICK one : one = 1
    OBVIOUS
  <2>2. IsMap(map, one)
    BY <2>1
  <2>3. mp_decode_map(p).val = one /\ mp_decode_map(p).rest = k
    BY <1>6, <2>2, ReadMap
  <2> QED
    BY <2>1, <2>3
<1> HIDE DEF p
<1> DEFINE st == [calls |-> C, rest |-> k]
           to == [calls |-> C, rest |-> b]
<1>10. BodyStep(st) = [calls |-> U, rest |-> <<>>]
  <2> DEFINE aa == mp_decode_array(a)
  <2>1. st.rest = k /\ [st EXCEPT !.rest = aa.rest] = to
    BY <1>7
  <2>2. aa.val = n
    BY <1>7
  <2> HIDE DEF st, to
  <2>3. BodyStep(st) = Grouping!Repeated([st EXCEPT !.rest = aa.rest], aa.val)
    BY <1>8, <2>1 DEF BodyStep, IPROTO_DATA, Times, Grouping!Repeated
  <2> HIDE DEF aa
  <2> QED
    BY <1>4, <2>1, <2>2, <2>3, Zenon DEF to
<1>11. Reaching!Repeated(st, 1) = BodyStep(st)
  <2> HIDE DEF st
  <2> QED
    BY Reaching!FewRounds
<1>12. ReadBody(p) = Reaching!Repeated(st, 1).calls
  BY <1>9 DEF ReadBody, C, Times, Reaching!Repeated
<1>13. [calls |-> U, rest |-> <<>>].calls = U
  OBVIOUS
<1>14. ReadBody(p) = U
  <2> HIDE DEF st
  <2> QED
    BY <1>10, <1>11, <1>12, <1>13, Zenon
<1> QED
  BY <1>6, <1>14 DEF p, k, a, b, U, n

\* rtpe_tarantool_restore_calls reads the reply to its own request and none other,
\* when it is not above a mebibyte.
LEMMA RestoreRead ==
    ASSUME NEW s \in Numbers, NEW items \in Seq(Buffers), Len(items) \in Sizes,
           ~TooLong(DataReply(s, items)),
           NEW K, \A i \in 1..Len(items) : Gives(items[i], K[i])
    PROVE  /\ restore_calls(DataReply(s, items), s) = Grouping!Added(K, Len(items))
           /\ \A want : want # s => restore_calls(DataReply(s, items), want) = Stale
<1> DEFINE n == Len(items)
           b == FlattenSeq(items)
<1>1. b \in Buffers
  BY CatFacts, AnySuffix
<1>2. PICK map, key, array :
              /\ IsMap(map, 1) /\ IsUint(key, <<48>>) /\ IsArray(array, n)
              /\ DataReply(s, items) = Cat(Header(<<>>, s), Cat(map, Cat(key, Cat(array, b))))
  BY <1>1, DataParts
<1> DEFINE r == Cat(map, Cat(key, Cat(array, b)))
<1>3. ReadBody(r) = Grouping!Added(K, n) /\ r \in Buffers
  <2>1. IsMap(map, 1) /\ IsUint(key, IPROTO_DATA) /\ IsArray(array, Len(items))
    BY <1>2 DEF IPROTO_DATA
  <2> QED
    BY <2>1, BodyRead, Zenon
<1> HIDE DEF r
<1>4. PICK code \in Numbers : code = <<>> /\ Len(code) <= 4
  <2>1. <<>> \in Numbers /\ Len(<<>>) <= 4
    BY DEF Numbers, Octets
  <2> QED
    BY <2>1, Zenon
<1> DEFINE p == Cat(Header(code, s), r)
<1>5. Syncs(p, s, r)
  BY <1>3, <1>4, HeaderRead
<1> HIDE DEF p
<1>6. DataReply(s, items) = p
  BY <1>2, <1>4 DEF p, r
<1>7. ReadHeader(p) = [val |-> s, rest |-> r]
  BY <1>5 DEF ReadHeader, Syncs, Times, Syncing!Repeated
<1>8. ReadHeader(p).val = s /\ ReadHeader(p).rest = r /\ ~TooLong(p)
  BY <1>6, <1>7
<1>9. restore_calls(p, s) = ReadBody(r)
  BY <1>8, Zenon DEF restore_calls
<1>10. \A want : want # s => restore_calls(p, want) = Stale
  BY <1>8, Zenon DEF restore_calls
<1> QED
  BY <1>3, <1>6, <1>9, <1>10

\* Four parts in a row.
LEMMA Flatten4 ==
    ASSUME NEW a \in Buffers, NEW b \in Buffers, NEW c \in Buffers, NEW x \in Buffers
    PROVE  FlattenSeq(<<a, b, c, x>>) = Cat(a, Cat(b, Cat(c, x)))
<1> DEFINE s == <<a, b, c, x>>
<1>1. /\ s \in Seq(Buffers) /\ Len(s) = 4 /\ 4 \in Nat \ {0}
      /\ s[1] = a /\ s[2] = b /\ s[3] = c /\ s[4] = x
  OBVIOUS
<1> HIDE DEF s
<1>2. PICK f : Flat(f, s, 4) /\ FlattenSeq(s) = f[4]
  BY <1>1, FlatUnfolds, Zenon
<1>3. f[1] = a /\ f[2] = Cat(f[1], b) /\ f[3] = Cat(f[2], c) /\ f[4] = Cat(f[3], x)
  BY <1>1, <1>2 DEF Flat
<1>4. f[4] = Cat(Cat(Cat(a, b), c), x)
  BY <1>3
<1>5. Cat(a, b) \in Buffers /\ Cat(c, x) \in Buffers
  BY CatFacts
<1>6. Cat(Cat(Cat(a, b), c), x) = Cat(Cat(a, b), Cat(c, x))
  BY <1>5, CatFacts
<1>7. Cat(Cat(a, b), Cat(c, x)) = Cat(a, Cat(b, Cat(c, x)))
  BY <1>5, CatFacts
<1> QED
  BY <1>2, <1>4, <1>6, <1>7 DEF s

\* Ten parts in a row, behind w and in front of t.
LEMMA Flatten10 ==
    ASSUME NEW s \in Seq(Buffers), Len(s) = 10, NEW w \in Buffers, NEW t \in Buffers
    PROVE  /\ Cat(Cat(Cat(Cat(Cat(Cat(Cat(Cat(Cat(Cat(Cat(w, s[1]), s[2]), s[3]), s[4]), s[5]),
                                      s[6]), s[7]), s[8]), s[9]), s[10]), t)
                 = Cat(w, Cat(FlattenSeq(s), t))
           /\ FlattenSeq(s) \in Buffers
<1>1. /\ 10 \in Nat \ {0} /\ s # <<>>
      /\ \A i \in 1..10 : s[i] \in Buffers
  <2>1. \A i \in 1..Len(s) : s[i] \in Buffers
    BY ElementOfSeq
  <2>2. Len(<<>>) # 10 /\ 10 \in Nat \ {0}
    OBVIOUS
  <2> QED
    BY <2>1, <2>2, Zenon
<1>2. FlattenSeq(s) \in Buffers
  BY <1>1, FlatSuffix
<1>3. PICK f : Flat(f, s, 10) /\ FlattenSeq(s) = f[10]
  BY <1>1, FlatUnfolds, Zenon
<1> DEFINE a == s[1]
           b == s[2]
           c == s[3]
           d == s[4]
           e == s[5]
           g == s[6]
           h == s[7]
           i == s[8]
           j == s[9]
           k == s[10]
<1>4. /\ a \in Buffers /\ b \in Buffers /\ c \in Buffers /\ d \in Buffers /\ e \in Buffers
      /\ g \in Buffers /\ h \in Buffers /\ i \in Buffers /\ j \in Buffers /\ k \in Buffers
  BY <1>1
<1>5. /\ f[1] = a /\ f[2] = Cat(f[1], b) /\ f[3] = Cat(f[2], c) /\ f[4] = Cat(f[3], d)
      /\ f[5] = Cat(f[4], e) /\ f[6] = Cat(f[5], g) /\ f[7] = Cat(f[6], h)
      /\ f[8] = Cat(f[7], i) /\ f[9] = Cat(f[8], j) /\ f[10] = Cat(f[9], k)
  BY <1>1, <1>3 DEF Flat
<1> HIDE DEF a, b, c, d, e, g, h, i, j, k
<1> DEFINE Left(x) == Cat(Cat(Cat(Cat(Cat(Cat(Cat(Cat(Cat(x, b), c), d), e), g), h), i), j), k)
           M == Cat(b, Cat(c, Cat(d, Cat(e, Cat(g, Cat(h, Cat(i, Cat(j, Cat(k, t)))))))))
<1>6. ASSUME NEW x \in Buffers
      PROVE  Cat(Left(x), t) = Cat(x, M)
  <2> DEFINE x1 == Cat(Cat(Cat(x, b), c), d)
             x2 == Cat(Cat(Cat(x1, e), g), h)
             t1 == Cat(i, Cat(j, Cat(k, t)))
             t2 == Cat(e, Cat(g, Cat(h, t1)))
  <2>1. x1 \in Buffers
    BY <1>4, Chain
  <2>2. x2 \in Buffers
    <3> HIDE DEF x1
    <3> QED
      BY <1>4, <2>1, Chain
  <2>3. t1 \in Buffers
    BY <1>4, CatFacts
  <2>4. t2 \in Buffers
    <3> HIDE DEF t1
    <3> QED
      BY <1>4, <2>3, CatFacts
  <2>5. Cat(Cat(Cat(Cat(x2, i), j), k), t) = Cat(x2, t1)
    <3> HIDE DEF x2
    <3> QED
      BY <1>4, <2>2, Chain
  <2>6. Cat(x2, t1) = Cat(x1, t2)
    <3> HIDE DEF x1, t1
    <3> QED
      BY <1>4, <2>1, <2>3, Chain
  <2>7. Cat(x1, t2) = Cat(x, Cat(b, Cat(c, Cat(d, t2))))
    <3> HIDE DEF t2
    <3> QED
      BY <1>4, <2>4, Chain
  <2> QED
    BY <2>5, <2>6, <2>7, Zenon
<1>7. f[10] = Left(a)
  BY <1>5
<1>8. M \in Buffers
  <2> DEFINE t1 == Cat(g, Cat(h, Cat(i, Cat(j, Cat(k, t)))))
  <2>1. t1 \in Buffers
    BY <1>4, CatFacts
  <2> HIDE DEF t1
  <2>2. Cat(b, Cat(c, Cat(d, Cat(e, t1)))) \in Buffers
    BY <1>4, <2>1, CatFacts
  <2> QED
    BY <2>2 DEF t1
<1>9. Cat(w, a) \in Buffers
  BY <1>4, CatFacts
<1>10. Cat(Left(a), t) = Cat(a, M)
  BY <1>4, <1>6, Zenon
<1>11. Cat(Left(Cat(w, a)), t) = Cat(Cat(w, a), M)
  BY <1>6, <1>9, Zenon
<1>12. Cat(Cat(w, a), M) = Cat(w, Cat(a, M))
  <2> HIDE DEF M
  <2> QED
    BY <1>4, <1>8, CatFacts
<1>13. Cat(Left(Cat(w, a)), t) = Cat(w, Cat(f[10], t))
  BY <1>7, <1>10, <1>11, <1>12, Zenon
<1> QED
  BY <1>2, <1>3, <1>13, Zenon DEF a, b, c, d, e, g, h, i, j, k

\* The key of a table.
LEMMA KeyCells ==
    ASSUME NEW name \in Texts, NEW n \in Nat, n \in Sizes, n # 0
    PROVE  IsKey(StrCells(name, n), name) /\ IsStr(StrCells(name, n), Str(name, n))
<1> DEFINE t == Str(name, n)
<1>1. t \in [text : Texts, len : Nat] /\ t.len = n /\ t.text = name
  BY DEF Str
<1>2. t \in Strs
  BY <1>1, Zenon DEF Strs
<1>3. StrCells(name, n) = mp_encode_str(t)
  BY Zenon DEF StrCells
<1> HIDE DEF t
<1>4. IsStr(StrCells(name, n), t)
  BY <1>2, <1>3, StrEncodings
<1> QED
  BY <1>1, <1>4 DEF IsKey, t

\* The keys and values of a payload in the order of pack_call_upsert.
PayloadNames == <<"caller_ip", "caller_port", "callee_ip", "callee_port", "srtp_suite">>
PayloadObjects(info) ==
    <<StrCells("caller_ip", 9), mp_encode_str(info.caller_ip),
      StrCells("caller_port", 11), mp_encode_uint(info.caller_port),
      StrCells("callee_ip", 9), mp_encode_str(info.callee_ip),
      StrCells("callee_port", 11), mp_encode_uint(info.callee_port),
      StrCells("srtp_suite", 10), mp_encode_str(info.srtp_suite)>>
IsPayloadRow(po, info) ==
    /\ po \in Seq(Buffers) /\ Len(po) = 10 /\ \A i \in 1..10 : Skips(1, po[i])
    /\ \A i \in 1..5 : /\ IsKey(po[2 * i - 1], PayloadNames[i])
                       /\ IsValue(po[2 * i], PayloadNames[i], info)

\* pack_call_upsert writes the payload that a row is read from.
LEMMA PayloadWritten ==
    ASSUME NEW info, Savable(info)
    PROVE  IsPayloadRow(PayloadObjects(info), info)
<1> DEFINE po == PayloadObjects(info)
<1>1. 9 \in Sizes /\ 10 \in Sizes /\ 11 \in Sizes
  BY SMT DEF Sizes
<1>2. /\ "caller_ip" \in Texts /\ "caller_port" \in Texts /\ "callee_ip" \in Texts
      /\ "callee_port" \in Texts /\ "srtp_suite" \in Texts
  BY DEF Texts
<1>3. 9 \in Nat /\ 10 \in Nat /\ 11 \in Nat /\ 9 # 0 /\ 10 # 0 /\ 11 # 0
  OBVIOUS
<1>4. /\ IsKey(StrCells("caller_ip", 9), "caller_ip") /\ IsKey(StrCells("caller_port", 11), "caller_port")
      /\ IsKey(StrCells("callee_ip", 9), "callee_ip") /\ IsKey(StrCells("callee_port", 11), "callee_port")
      /\ IsKey(StrCells("srtp_suite", 10), "srtp_suite")
  BY <1>1, <1>2, <1>3, KeyCells, Zenon
<1>5. /\ info.caller_ip \in Strs /\ info.callee_ip \in Strs /\ info.srtp_suite \in Strs
      /\ info.caller_port \in Numbers /\ info.callee_port \in Numbers
  <2>1. /\ {"caller_ip", "callee_ip", "srtp_suite"} \subseteq Fields \ Ports
        /\ {"caller_port", "callee_port"} \subseteq Ports
    BY DEF Fields, PayloadFields, Ports
  <2> QED
    BY <2>1 DEF Savable
<1>6. /\ IsStr(mp_encode_str(info.caller_ip), info.caller_ip)
      /\ IsStr(mp_encode_str(info.callee_ip), info.callee_ip)
      /\ IsStr(mp_encode_str(info.srtp_suite), info.srtp_suite)
      /\ IsUint(mp_encode_uint(info.caller_port), info.caller_port)
      /\ IsUint(mp_encode_uint(info.callee_port), info.callee_port)
  BY <1>5, StrEncodings, UintEncodings, Zenon
<1>7. \A k, name : IsKey(k, name) => k \in Buffers /\ Skips(1, k)
  <2>1. <<>> \in Buffers
    BY CatFacts
  <2> QED
    BY <2>1, KeyRead
<1>8. \A v, x : (IsStr(v, x) \/ IsUint(v, x)) => v \in Buffers /\ Skips(1, v)
  BY ObjectForms DEF IsStr, IsUint
<1> DEFINE k1 == StrCells("caller_ip", 9)
           k2 == StrCells("caller_port", 11)
           k3 == StrCells("callee_ip", 9)
           k4 == StrCells("callee_port", 11)
           k5 == StrCells("srtp_suite", 10)
           v1 == mp_encode_str(info.caller_ip)
           v2 == mp_encode_uint(info.caller_port)
           v3 == mp_encode_str(info.callee_ip)
           v4 == mp_encode_uint(info.callee_port)
           v5 == mp_encode_str(info.srtp_suite)
<1>9. /\ IsKey(k1, "caller_ip") /\ IsKey(k2, "caller_port") /\ IsKey(k3, "callee_ip")
      /\ IsKey(k4, "callee_port") /\ IsKey(k5, "srtp_suite")
      /\ IsStr(v1, info.caller_ip) /\ IsUint(v2, info.caller_port) /\ IsStr(v3, info.callee_ip)
      /\ IsUint(v4, info.callee_port) /\ IsStr(v5, info.srtp_suite)
  BY <1>4, <1>6
<1>10. po = <<k1, v1, k2, v2, k3, v3, k4, v4, k5, v5>>
  BY Zenon DEF PayloadObjects
<1> HIDE DEF po, k1, k2, k3, k4, k5, v1, v2, v3, v4, v5
<1>11. /\ k1 \in Buffers /\ k2 \in Buffers /\ k3 \in Buffers /\ k4 \in Buffers /\ k5 \in Buffers
       /\ v1 \in Buffers /\ v2 \in Buffers /\ v3 \in Buffers /\ v4 \in Buffers /\ v5 \in Buffers
       /\ Skips(1, k1) /\ Skips(1, k2) /\ Skips(1, k3) /\ Skips(1, k4) /\ Skips(1, k5)
       /\ Skips(1, v1) /\ Skips(1, v2) /\ Skips(1, v3) /\ Skips(1, v4) /\ Skips(1, v5)
  BY <1>7, <1>8, <1>9, Zenon
<1>12. /\ po \in Seq(Buffers) /\ Len(po) = 10
       /\ po[1] = k1 /\ po[2] = v1 /\ po[3] = k2 /\ po[4] = v2 /\ po[5] = k3 /\ po[6] = v3
       /\ po[7] = k4 /\ po[8] = v4 /\ po[9] = k5 /\ po[10] = v5
  BY <1>10, <1>11
<1>13. \A i \in 1..10 : Skips(1, po[i])
  BY <1>11, <1>12
<1>14. /\ IsValue(v1, "caller_ip", info) /\ IsValue(v2, "caller_port", info)
       /\ IsValue(v3, "callee_ip", info) /\ IsValue(v4, "callee_port", info)
       /\ IsValue(v5, "srtp_suite", info)
  BY <1>9 DEF IsValue, Ports
<1>15. ASSUME NEW i \in 1..5
       PROVE  IsKey(po[2 * i - 1], PayloadNames[i]) /\ IsValue(po[2 * i], PayloadNames[i], info)
  <2>1. CASE i = 1
    BY <1>9, <1>12, <1>14, <2>1 DEF PayloadNames
  <2>2. CASE i = 2
    BY <1>9, <1>12, <1>14, <2>2 DEF PayloadNames
  <2>3. CASE i = 3
    BY <1>9, <1>12, <1>14, <2>3 DEF PayloadNames
  <2>4. CASE i = 4
    BY <1>9, <1>12, <1>14, <2>4 DEF PayloadNames
  <2>5. CASE i = 5
    BY <1>9, <1>12, <1>14, <2>5 DEF PayloadNames
  <2> QED
    BY <2>1, <2>2, <2>3, <2>4, <2>5
<1> QED
  BY <1>12, <1>13, <1>15 DEF IsPayloadRow, po

\* A request q of pack_call_upsert in parts: the arguments of the procedure, the
\* keys and the values of the body.
UpsertParts(q, info, as, os, header, map, array) ==
    /\ Skips(1, header) /\ IsMap(map, 2) /\ IsArray(array, 4)
    /\ os \in Seq(Buffers) /\ Len(os) = 4 /\ \A i \in 1..4 : Skips(1, os[i])
    /\ os[1] = mp_encode_uint(<<34>>) /\ os[3] = mp_encode_uint(<<33>>)
    /\ os[4] = Cat(array, FlattenSeq(as))
    /\ as \in Seq(Buffers) /\ Len(as) = 4 /\ \A i \in 1..4 : Skips(1, as[i])
    /\ IsStr(as[1], info["call_id"]) /\ IsStr(as[2], info["node_id"])
    /\ as[3] = Cat(mp_encode_map(5), FlattenSeq(PayloadObjects(info)))
    /\ q = Cat(header, Cat(map, FlattenSeq(os)))

\* The parts of a request of pack_call_upsert belong together as the server takes them.
Nests(header, map, f, s, t, array, cid, nid, m, b, ttl) ==
    Cat(Cat(Cat(Cat(Cat(Cat(Cat(Cat(Cat(header, map), f), s), t), array), cid), nid), m),
        Cat(b, ttl))
      = Cat(header, Cat(map, FlattenSeq(<<f, s, t,
            Cat(array, FlattenSeq(<<cid, nid, Cat(m, b), ttl>>))>>)))

\* They do, as buffers that are appended do.
LEMMA Nested ==
    ASSUME NEW header \in Buffers, NEW map \in Buffers, NEW f \in Buffers, NEW s \in Buffers,
           NEW t \in Buffers, NEW array \in Buffers, NEW cid \in Buffers, NEW nid \in Buffers,
           NEW m \in Buffers, NEW b \in Buffers, NEW ttl \in Buffers
    PROVE  Nests(header, map, f, s, t, array, cid, nid, m, b, ttl)
<1> DEFINE y == Cat(header, map)
           x == Cat(Cat(Cat(y, f), s), t)
           w == Cat(Cat(Cat(x, array), cid), nid)
           p == Cat(m, b)
           pt == Cat(p, ttl)
           as == Cat(cid, Cat(nid, pt))
           tuple == Cat(array, as)
<1>1. y \in Buffers
  BY CatFacts
<1>2. x \in Buffers
  <2> HIDE DEF y
  <2> QED
    BY <1>1, Chain
<1>3. w \in Buffers
  <2> HIDE DEF x
  <2> QED
    BY <1>2, Chain
<1>4. p \in Buffers /\ pt \in Buffers /\ as \in Buffers /\ tuple \in Buffers
  BY CatFacts
<1>5. Cat(Cat(w, m), Cat(b, ttl)) = Cat(w, pt)
  <2> HIDE DEF w
  <2>1. Cat(b, ttl) \in Buffers
    BY CatFacts
  <2>2. Cat(Cat(w, m), Cat(b, ttl)) = Cat(w, Cat(m, Cat(b, ttl)))
    BY <1>3, <2>1, CatFacts
  <2>3. Cat(m, Cat(b, ttl)) = pt
    BY CatFacts
  <2> QED
    BY <2>2, <2>3
<1>6. Cat(w, pt) = Cat(x, tuple)
  <2> HIDE DEF x, pt
  <2> QED
    BY <1>2, <1>4, Chain
<1>7. Cat(x, tuple) = Cat(y, Cat(f, Cat(s, Cat(t, tuple))))
  <2> HIDE DEF y, tuple
  <2> QED
    BY <1>1, <1>4, Chain
<1>8. Cat(y, Cat(f, Cat(s, Cat(t, tuple)))) = Cat(header, Cat(map, Cat(f, Cat(s, Cat(t, tuple)))))
  <2> HIDE DEF tuple
  <2>1. Cat(f, Cat(s, Cat(t, tuple))) \in Buffers
    BY <1>4, CatFacts
  <2> QED
    BY <2>1, CatFacts
<1>9. FlattenSeq(<<f, s, t, tuple>>) = Cat(f, Cat(s, Cat(t, tuple)))
  <2> HIDE DEF tuple
  <2> QED
    BY <1>4, Flatten4
<1>10. FlattenSeq(<<cid, nid, p, ttl>>) = as
  <2> HIDE DEF p
  <2> QED
    BY <1>4, Flatten4
<1> QED
  BY <1>5, <1>6, <1>7, <1>8, <1>9, <1>10, Zenon DEF Nests

\* pack_call_upsert writes a request of these parts.
LEMMA UpsertRequest ==
    ASSUME NEW s \in Numbers, NEW info, Savable(info)
    PROVE  \E as, os, header, map, array :
              UpsertParts(upsert_request(s, info), info, as, os, header, map, array)
<1> DEFINE header == RequestHeader(IPROTO_CALL, s)
           map == mp_encode_map(2)
           array == mp_encode_array(4)
           m == mp_encode_map(5)
           f == Uints(<<IPROTO_FUNCTION_NAME>>)
           name == StrCells("rtpe_call_upsert", 16)
           t == Uints(<<IPROTO_TUPLE>>)
           cid == mp_encode_str(info.call_id)
           nid == mp_encode_str(info.node_id)
           po == PayloadObjects(info)
           b == FlattenSeq(po)
           seconds == Bytes(3600)
           ttl == mp_encode_uint(seconds)
           p == Cat(m, b)
           as == <<cid, nid, p, ttl>>
           tuple == Cat(array, FlattenSeq(as))
           os == <<f, name, t, tuple>>
           w == Cat(Cat(Cat(Cat(Cat(Cat(Cat(Cat(header, map), f), name), t), array), cid), nid), m)
<1>0. seconds \in Numbers
  BY DEF Numbers, Octets, Bytes
<1>1. <<6>> \in Numbers /\ <<34>> \in Numbers /\ <<33>> \in Numbers
  BY DEF Numbers, Octets
<1>2. 2 \in Sizes /\ 4 \in Sizes /\ 5 \in Sizes /\ 16 \in Sizes
  BY SMT DEF Sizes
<1>3. Skips(1, header)
  BY <1>1, RequestHeaderObject DEF IPROTO_CALL
<1>4. IsMap(map, 2) /\ IsArray(array, 4) /\ IsMap(m, 5)
  BY <1>2, HeadEncodings, Zenon
<1>5. f = mp_encode_uint(<<34>>) /\ t = mp_encode_uint(<<33>>)
  <2>1. IPROTO_FUNCTION_NAME = <<34>> /\ IPROTO_TUPLE = <<33>>
    BY DEF IPROTO_FUNCTION_NAME, IPROTO_TUPLE
  <2>2. IPROTO_FUNCTION_NAME \in Numbers /\ IPROTO_TUPLE \in Numbers
    BY <1>1, <2>1
  <2>3. f = mp_encode_uint(IPROTO_FUNCTION_NAME) /\ t = mp_encode_uint(IPROTO_TUPLE)
    BY <2>2, Uints1, Zenon
  <2> QED
    BY <2>1, <2>3, Zenon
<1>6. IsUint(f, <<34>>) /\ IsUint(t, <<33>>) /\ IsUint(ttl, seconds)
  <2>1. /\ IsUint(mp_encode_uint(<<34>>), <<34>>) /\ IsUint(mp_encode_uint(<<33>>), <<33>>)
        /\ IsUint(ttl, seconds)
    <3> HIDE DEF seconds
    <3> QED
      BY <1>0, <1>1, UintEncodings
  <2> HIDE DEF f, t, ttl, seconds
  <2> QED
    BY <1>5, <2>1, Zenon
<1>7. IsStr(name, Str("rtpe_call_upsert", 16))
  <2>1. "rtpe_call_upsert" \in Texts
    BY DEF Texts
  <2>2. 16 \in Nat /\ 16 # 0
    OBVIOUS
  <2> QED
    BY <1>2, <2>1, <2>2, KeyCells, Zenon
<1>8. IsStr(cid, info["call_id"]) /\ IsStr(nid, info["node_id"])
  <2>1. "call_id" \in Fields \ Ports /\ "node_id" \in Fields \ Ports
    BY DEF Fields, Ports
  <2>2. info["call_id"] \in Strs /\ info["node_id"] \in Strs
    BY <2>1 DEF Savable
  <2>3. info["call_id"] = info.call_id /\ info["node_id"] = info.node_id
    OBVIOUS
  <2> QED
    BY <2>2, <2>3, StrEncodings, Zenon
<1>9. IsPayloadRow(po, info)
  BY PayloadWritten
<1>10. upsert_request(s, info) =
          Cat(Cat(Cat(Cat(Cat(Cat(Cat(Cat(Cat(Cat(Cat(w, po[1]), po[2]), po[3]), po[4]), po[5]),
                                      po[6]), po[7]), po[8]), po[9]), po[10]), ttl)
  <2> DEFINE k1 == StrCells("caller_ip", 9)
             k2 == StrCells("caller_port", 11)
             k3 == StrCells("callee_ip", 9)
             k4 == StrCells("callee_port", 11)
             k5 == StrCells("srtp_suite", 10)
             v1 == mp_encode_str(info.caller_ip)
             v2 == mp_encode_uint(info.caller_port)
             v3 == mp_encode_str(info.callee_ip)
             v4 == mp_encode_uint(info.callee_port)
             v5 == mp_encode_str(info.srtp_suite)
  <2>1. upsert_request(s, info) =
          Cat(Cat(Cat(Cat(Cat(Cat(Cat(Cat(Cat(Cat(Cat(w, k1), v1), k2), v2), k3), v3), k4), v4),
                  k5), v5), ttl)
    BY Zenon DEF upsert_request, Cat
  <2>2. po = <<k1, v1, k2, v2, k3, v3, k4, v4, k5, v5>>
    BY Zenon DEF PayloadObjects
  <2> HIDE DEF k1, k2, k3, k4, k5, v1, v2, v3, v4, v5, w, ttl, po
  <2>3. /\ po[1] = k1 /\ po[2] = v1 /\ po[3] = k2 /\ po[4] = v2 /\ po[5] = k3 /\ po[6] = v3
        /\ po[7] = k4 /\ po[8] = v4 /\ po[9] = k5 /\ po[10] = v5
    BY <2>2
  <2> QED
    BY <2>1, <2>3
<1>11. /\ header \in Buffers /\ map \in Buffers /\ array \in Buffers /\ m \in Buffers
       /\ f \in Buffers /\ name \in Buffers /\ t \in Buffers /\ cid \in Buffers /\ nid \in Buffers
       /\ ttl \in Buffers
  <2> HIDE DEF header, map, array, m, f, name, t, cid, nid, ttl, seconds
  <2>1. header \in Buffers
    BY <1>3 DEF Skips
  <2>2. map \in Buffers /\ m \in Buffers
    BY <1>4 DEF IsMap
  <2>3. array \in Buffers
    BY <1>4 DEF IsArray
  <2>4. f \in Buffers /\ t \in Buffers /\ ttl \in Buffers
    BY <1>6 DEF IsUint
  <2>5. name \in Buffers /\ cid \in Buffers /\ nid \in Buffers
    BY <1>7, <1>8 DEF IsStr
  <2> QED
    BY <2>1, <2>2, <2>3, <2>4, <2>5
<1> HIDE DEF header, map, array, m, f, name, t, cid, nid, ttl, seconds, po
<1>12. w \in Buffers
  <2> DEFINE x == Cat(Cat(Cat(Cat(header, map), f), name), t)
  <2>1. x \in Buffers
    BY <1>11, CatFacts
  <2> HIDE DEF x
  <2>2. Cat(Cat(Cat(Cat(x, array), cid), nid), m) \in Buffers
    BY <1>11, <2>1, CatFacts
  <2> QED
    BY <2>2 DEF x
<1>13. upsert_request(s, info) = Cat(w, Cat(b, ttl)) /\ b \in Buffers
  <2>1. po \in Seq(Buffers) /\ Len(po) = 10
    BY <1>9 DEF IsPayloadRow
  <2> HIDE DEF w
  <2> QED
    BY <1>10, <1>11, <1>12, <2>1, Flatten10
<1>14. Cat(w, Cat(b, ttl)) = Cat(header, Cat(map, FlattenSeq(os)))
  <2> HIDE DEF b
  <2>1. b \in Buffers
    BY <1>13
  <2>2. Nests(header, map, f, name, t, array, cid, nid, m, b, ttl)
    BY <1>11, <2>1, Nested
  <2> QED
    BY <2>2, Zenon DEF Nests
<1>15. Skips(1, p)
  <2>1. po # <<>> /\ po \in Seq(Buffers) /\ Len(po) = 10 /\ \A i \in 1..Len(po) : Skips(1, po[i])
    <3>1. po \in Seq(Buffers) /\ Len(po) = 10 /\ \A i \in 1..10 : Skips(1, po[i])
      BY <1>9 DEF IsPayloadRow
    <3>2. Len(<<>>) # 10
      OBVIOUS
    <3> QED
      BY <3>1, <3>2, Zenon
  <2>2. Skips(10, b)
    BY <2>1, FlatSkips
  <2>3. 5 \in Nat /\ 2 * 5 = 10
    OBVIOUS
  <2>4. Skips(2 * 5, b)
    BY <2>2, <2>3, Zenon
  <2> HIDE DEF b
  <2> QED
    BY <1>4, <2>3, <2>4, ObjectForms
<1>16. Skips(1, f) /\ Skips(1, name) /\ Skips(1, t) /\ Skips(1, cid) /\ Skips(1, nid) /\ Skips(1, ttl)
  BY <1>6, <1>7, <1>8, ObjectForms
<1>17. p \in Buffers
  BY <1>15 DEF Skips
<1>18. p = Cat(mp_encode_map(5), FlattenSeq(PayloadObjects(info)))
  BY DEF m, po
<1> HIDE DEF p, b, w
<1>19. /\ as \in Seq(Buffers) /\ Len(as) = 4 /\ as[1] = cid /\ as[2] = nid /\ as[3] = p /\ as[4] = ttl
       /\ as # <<>>
  BY <1>11, <1>17
<1> HIDE DEF as
<1>20. \A i \in 1..4 : Skips(1, as[i])
  <2>1. \A i \in 1..4 : i = 1 \/ i = 2 \/ i = 3 \/ i = 4
    OBVIOUS
  <2> QED
    BY <1>15, <1>16, <1>19, <2>1, Zenon
<1>21. Skips(1, tuple) /\ tuple \in Buffers
  <2>1. Skips(4, FlattenSeq(as))
    BY <1>19, <1>20, FlatSkips
  <2>2. Skips(1, tuple)
    BY <1>4, <2>1, ObjectForms
  <2> QED
    BY <2>2 DEF Skips
<1>22. tuple = Cat(array, FlattenSeq(as))
  OBVIOUS
<1> HIDE DEF tuple
<1>23. os \in Seq(Buffers) /\ Len(os) = 4 /\ os[1] = f /\ os[2] = name /\ os[3] = t /\ os[4] = tuple
  BY <1>11, <1>21
<1> HIDE DEF os
<1>24. \A i \in 1..4 : Skips(1, os[i])
  BY <1>16, <1>21, <1>23
<1>25. upsert_request(s, info) = Cat(header, Cat(map, FlattenSeq(os)))
  BY <1>13, <1>14
<1>26. UpsertParts(upsert_request(s, info), info, as, os, header, map, array)
  BY <1>3, <1>4, <1>5, <1>8, <1>18, <1>19, <1>20, <1>22, <1>23, <1>24, <1>25, Zenon DEF UpsertParts
<1> QED
  BY <1>26

\* The arguments of the procedure as the server reads them.
LEMMA UpsertFields ==
    ASSUME NEW q, NEW info, NEW as, NEW os, NEW header, NEW map, NEW array,
           UpsertParts(q, info, as, os, header, map, array)
    PROVE  ElementsOf(FieldOf(q, <<33>>)) = as
<1>1. <<34>> \in Numbers /\ <<33>> \in Numbers /\ <<34>> # <<33>>
  BY DEF Numbers, Octets
<1>2. mp_encode_uint(<<34>>) # mp_encode_uint(<<33>>)
  BY <1>1, UintsDiffer
<1>3. /\ Skips(1, header) /\ IsMap(map, 2) /\ os \in Seq(Buffers) /\ Len(os) = 4
      /\ \A i \in 1..4 : Skips(1, os[i])
      /\ os[1] = mp_encode_uint(<<34>>)
      /\ os[3] = mp_encode_uint(<<33>>) /\ os[4] = Cat(array, FlattenSeq(as))
      /\ q = Cat(header, Cat(map, FlattenSeq(os)))
  BY DEF UpsertParts
<1>4. os # <<>> /\ Len(os) = 2 * 2 /\ 2 \in Nat /\ \A i \in 1..Len(os) : Skips(1, os[i])
  BY <1>3
<1>5. /\ 1 \in 1..2 /\ 2 \in 1..2 /\ 2 * 1 - 1 = 1 /\ 2 * 2 - 1 = 3 /\ 2 * 1 = 2 /\ 2 * 2 = 4
      /\ \A j \in 1..2 : j = 1 \/ j = 2
  OBVIOUS
<1>6. \A j \in 1..2 : os[2 * j - 1] = mp_encode_uint(<<33>>) => j = 2
  BY <1>2, <1>3, <1>5, Zenon
<1>7. os[2 * 2 - 1] = mp_encode_uint(<<33>>)
  BY <1>3, <1>5, Zenon
<1>8. FieldOf(Cat(header, Cat(map, FlattenSeq(os))), <<33>>) = os[2 * 2]
  <2> DEFINE key == <<33>>
             n == 2
             i == 2
  <2>1. /\ n \in Nat /\ i \in 1..n /\ IsMap(map, n) /\ Len(os) = 2 * n
        /\ os[2 * i - 1] = mp_encode_uint(key)
        /\ \A j \in 1..n : os[2 * j - 1] = mp_encode_uint(key) => j = i
    BY <1>3, <1>4, <1>5, <1>6, <1>7, Zenon
  <2>2. /\ os \in Seq(Buffers) /\ os # <<>> /\ \A j \in 1..Len(os) : Skips(1, os[j])
        /\ Skips(1, header)
    BY <1>3, <1>4, Zenon
  <2> HIDE DEF key, n, i
  <2>3. FieldOf(Cat(header, Cat(map, FlattenSeq(os))), key) = os[2 * i]
    BY <2>1, <2>2, FieldFound
  <2> QED
    BY <2>3 DEF key, i
<1>9. FieldOf(q, <<33>>) = Cat(array, FlattenSeq(as))
  BY <1>3, <1>5, <1>8, Zenon
<1>10. /\ as \in Seq(Buffers) /\ Len(as) = 4 /\ as # <<>>
       /\ \A i \in 1..Len(as) : Skips(1, as[i]) /\ IsArray(array, Len(as))
  <2>1. as \in Seq(Buffers) /\ Len(as) = 4 /\ (\A i \in 1..4 : Skips(1, as[i])) /\ IsArray(array, 4)
    BY DEF UpsertParts
  <2>2. Len(<<>>) # 4
    OBVIOUS
  <2> QED
    BY <2>1, <2>2, Zenon
<1>11. ElementsOf(Cat(array, FlattenSeq(as))) = as
  <2>1. IsArray(array, Len(as))
    BY DEF UpsertParts
  <2> QED
    BY <1>10, <2>1, ElementsRead
<1> QED
  BY <1>9, <1>11

\* A key and its value.
LEMMA APair ==
    ASSUME NEW a, NEW b, NEW p, p = <<a, b>>
    PROVE  Len(p) = 2 /\ p[1] = a /\ p[2] = b
OBVIOUS

\* The pairs of the payload, as the server reads and returns them, in any order.
LEMMA PayloadSaved ==
    ASSUME NEW info, Savable(info), NEW v, v = Cat(mp_encode_map(5), FlattenSeq(PayloadObjects(info))),
           NEW r \in 0..2
    PROVE  IsPayload(Map(Rotate(PairsOf(v), r)), info)
<1> DEFINE po == PayloadObjects(info)
           ps == Paired(po)
           n == 5
<1>1. IsPayloadRow(po, info)
  BY PayloadWritten
<1>2. /\ po \in Seq(Buffers) /\ Len(po) = 10 /\ \A i \in 1..10 : Skips(1, po[i])
      /\ \A i \in 1..5 : /\ IsKey(po[2 * i - 1], PayloadNames[i])
                         /\ IsValue(po[2 * i], PayloadNames[i], info)
  BY <1>1 DEF IsPayloadRow
<1> HIDE DEF po
<1>3. PairsOf(v) = ps
  <2>1. 5 \in Sizes
    BY SMT DEF Sizes
  <2>2. IsMap(mp_encode_map(5), n)
    BY <2>1, HeadEncodings
  <2>3. po # <<>> /\ Len(po) = 2 * n /\ \A i \in 1..Len(po) : Skips(1, po[i])
    <3>1. Len(<<>>) # 10 /\ 2 * 5 = 10
      OBVIOUS
    <3> QED
      BY <1>2, <3>1, Zenon
  <2> DEFINE h == mp_encode_map(5)
  <2>4. v = Cat(h, FlattenSeq(po))
    BY DEF po
  <2> HIDE DEF h, n, ps
  <2>5. PairsOf(Cat(h, FlattenSeq(po))) = Paired(po)
    BY <1>2, <2>2, <2>3, PairsRead DEF h
  <2> QED
    BY <2>4, <2>5 DEF ps
<1>4. /\ ps \in Seq(Seq(Buffers)) /\ Len(ps) = n
      /\ \A i \in 1..n : ps[i] = <<po[2 * i - 1], po[2 * i]>>
                         /\ po[2 * i - 1] \in Buffers /\ po[2 * i] \in Buffers
  <2>1. \A i \in 1..10 : po[i] \in Buffers
    <3>1. \A i \in 1..Len(po) : po[i] \in Buffers
      BY <1>2, ElementOfSeq
    <3> QED
      BY <1>2, <3>1, Zenon
  <2>2. Len(po) \div 2 = n
    BY <1>2
  <2>3. ps = [i \in 1..n |-> <<po[2 * i - 1], po[2 * i]>>]
    BY <2>2, Zenon DEF Paired
  <2> HIDE DEF ps
  <2>4. \A i \in 1..n : po[2 * i - 1] \in Buffers /\ po[2 * i] \in Buffers
    BY <2>1
  <2>5. \A i \in 1..n : ps[i] = <<po[2 * i - 1], po[2 * i]>>
    BY <2>3
  <2>6. ps \in [1..n -> Seq(Buffers)]
    BY <2>3, <2>4
  <2>7. ps \in Seq(Seq(Buffers))
    <3>1. n \in Nat
      OBVIOUS
    <3> HIDE DEF n
    <3> QED
      BY <2>6, <3>1, SeqDef
  <2>8. Len(ps) = n
    BY <2>6, <2>7, LenProperties
  <2> QED
    BY <2>4, <2>5, <2>7, <2>8
<1> HIDE DEF ps
<1>5. \A i \in 1..n : Len(ps[i]) = 2 /\ ps[i][1] = po[2 * i - 1] /\ ps[i][2] = po[2 * i]
  <2> TAKE i \in 1..n
  <2> DEFINE a == po[2 * i - 1]
             b == po[2 * i]
  <2>2. ps[i] = <<a, b>> /\ a \in Buffers /\ b \in Buffers
    BY <1>4
  <2> HIDE DEF a, b
  <2>3. Len(ps[i]) = 2 /\ ps[i][1] = a /\ ps[i][2] = b
    BY <2>2, APair
  <2> QED
    BY <2>3 DEF a, b
<1>6. Pairs(ps, n)
  BY <1>4, <1>5 DEF Pairs
<1> DEFINE qs == Rotate(ps, r)
           name == [i \in 1..n |-> PayloadNames[Turned(i, r, n)]]
<1>7. /\ Pairs(qs, n)
      /\ \A i \in 1..n : Turned(i, r, n) \in 1..n /\ qs[i] = ps[Turned(i, r, n)]
      /\ \A j \in 1..n : \E i \in 1..n : Turned(i, r, n) = j
  <2>1. r \in 0..n
    OBVIOUS
  <2> HIDE DEF n
  <2> QED
    BY <1>6, <2>1, RotatedPairs
<1> HIDE DEF qs
<1>8. \A i \in 1..n : IsKey(ps[i][1], PayloadNames[i]) /\ IsValue(ps[i][2], PayloadNames[i], info)
  BY <1>2, <1>5, Zenon
<1>9. \A i \in 1..n : IsKey(qs[i][1], name[i]) /\ IsValue(qs[i][2], name[i], info)
  <2> HIDE DEF n
  <2> QED
    BY <1>7, <1>8, Zenon
<1>10. {name[i] : i \in 1..n} = PayloadFields
  <2>1. {PayloadNames[j] : j \in 1..n} = PayloadFields
    <3>1. /\ PayloadNames[1] = "caller_ip" /\ PayloadNames[2] = "caller_port" /\ PayloadNames[3] = "callee_ip"
          /\ PayloadNames[4] = "callee_port" /\ PayloadNames[5] = "srtp_suite"
      BY DEF PayloadNames
    <3>2. 1..n = {1, 2, 3, 4, 5}
      OBVIOUS
    <3> QED
      BY <3>1, <3>2 DEF PayloadFields
  <2> HIDE DEF n
  <2>2. {name[i] : i \in 1..n} = {PayloadNames[j] : j \in 1..n}
    BY <1>7
  <2> QED
    BY <2>1, <2>2
<1>11. IsTable(qs, n, name, PayloadFields, info)
  <2> HIDE DEF n, name
  <2> QED
    BY <1>7, <1>9, <1>10 DEF IsTable
<1>12. Len(qs) = 5
  BY <1>7 DEF Pairs
<1>13. Map(qs) = Cat(mp_encode_map(5), FlattenSeq(FlattenSeq(qs)))
  BY <1>12, Zenon DEF Map, Cat
<1>14. IsPayload(Map(qs), info)
  <2> HIDE DEF name
  <2> QED
    BY <1>11, <1>13, Zenon DEF IsPayload
<1> QED
  BY <1>3, <1>14 DEF qs

\* The keys of a row.
RowNames == <<"call_id", "node_id", "payload">>

\* A row that the server returns is one that pack_call_upsert brought, its keys
\* in any order.
LEMMA RowSaved ==
    ASSUME NEW s \in Numbers, NEW info, Savable(info), NEW r \in 0..2
    PROVE  IsItem(RowOf(upsert_request(s, info), r), info)
<1> DEFINE q == upsert_request(s, info)
<1>1. PICK as, os, header, map, array : UpsertParts(q, info, as, os, header, map, array)
  BY UpsertRequest
<1> HIDE DEF q
<1>2. ElementsOf(FieldOf(q, IPROTO_TUPLE)) = as
  <2>1. IPROTO_TUPLE = <<33>>
    BY DEF IPROTO_TUPLE
  <2>2. ElementsOf(FieldOf(q, <<33>>)) = as
    BY <1>1, UpsertFields
  <2> QED
    BY <2>1, <2>2
<1> DEFINE k1 == StrCells("call_id", 7)
           k2 == StrCells("node_id", 7)
           k3 == StrCells("payload", 7)
           v1 == as[1]
           v2 == as[2]
           v3 == Map(Rotate(PairsOf(as[3]), r))
           ps == << <<k1, v1>>, <<k2, v2>>, <<k3, v3>> >>
           n == 3
<1>3. RowOf(q, r) = Map(Rotate(ps, r))
  BY <1>2, Zenon DEF RowOf, Row
<1>4. IsKey(k1, "call_id") /\ IsKey(k2, "node_id") /\ IsKey(k3, "payload")
  <2>1. 7 \in Sizes
    BY SMT DEF Sizes
  <2>2. "call_id" \in Texts /\ "node_id" \in Texts /\ "payload" \in Texts
    BY DEF Texts
  <2>3. 7 \in Nat /\ 7 # 0
    OBVIOUS
  <2> QED
    BY <2>1, <2>2, <2>3, KeyCells, Zenon
<1>5. IsStr(v1, info["call_id"]) /\ IsStr(v2, info["node_id"])
  BY <1>1 DEF UpsertParts
<1>6. IsPayload(v3, info)
  <2>1. as[3] = Cat(mp_encode_map(5), FlattenSeq(PayloadObjects(info)))
    BY <1>1 DEF UpsertParts
  <2> DEFINE v == as[3]
  <2> HIDE DEF v
  <2>2. v = Cat(mp_encode_map(5), FlattenSeq(PayloadObjects(info)))
    BY <2>1 DEF v
  <2>3. IsPayload(Map(Rotate(PairsOf(v), r)), info)
    BY <2>2, PayloadSaved
  <2> QED
    BY <2>3 DEF v
<1> HIDE DEF k1, k2, k3, v1, v2, v3
<1>7. /\ IsRowValue(v1, "call_id", info) /\ IsRowValue(v2, "node_id", info)
      /\ IsRowValue(v3, "payload", info)
  BY <1>5, <1>6 DEF IsRowValue, IsValue, Ports
<1>8. k1 \in Buffers /\ k2 \in Buffers /\ k3 \in Buffers /\ v1 \in Buffers /\ v2 \in Buffers
  <2>1. <<>> \in Buffers
    BY CatFacts
  <2>2. k1 \in Buffers /\ k2 \in Buffers /\ k3 \in Buffers
    BY <1>4, <2>1, KeyRead
  <2> QED
    BY <1>5, <2>2 DEF IsStr
<1>9. v3 \in Buffers
  <2>1. PICK qs, qname : /\ IsTable(qs, 5, qname, PayloadFields, info)
                         /\ v3 = Cat(mp_encode_map(5), FlattenSeq(FlattenSeq(qs)))
    BY <1>6 DEF IsPayload
  <2> DEFINE five == 5
  <2>2. Pairs(qs, five)
    BY <2>1 DEF IsTable
  <2> HIDE DEF five
  <2>3. <<>> \in Buffers
    BY CatFacts
  <2>4. FlattenSeq(FlattenSeq(qs)) \in Buffers
    BY <2>2, <2>3, PairSuffix
  <2>5. 5 \in Sizes
    BY SMT DEF Sizes
  <2>6. mp_encode_map(5) \in Buffers
    BY <2>5, HeadEncodings DEF IsMap
  <2> QED
    BY <2>1, <2>4, <2>6, CatFacts
<1>10. /\ ps \in Seq(Seq(Buffers)) /\ Len(ps) = 3
       /\ ps[1] = <<k1, v1>> /\ ps[2] = <<k2, v2>> /\ ps[3] = <<k3, v3>>
  BY <1>8, <1>9
<1> HIDE DEF ps
<1>11. /\ Len(ps[1]) = 2 /\ ps[1][1] = k1 /\ ps[1][2] = v1
       /\ Len(ps[2]) = 2 /\ ps[2][1] = k2 /\ ps[2][2] = v2
       /\ Len(ps[3]) = 2 /\ ps[3][1] = k3 /\ ps[3][2] = v3
  BY <1>10, APair
<1>12. \A i \in 1..n : i = 1 \/ i = 2 \/ i = 3
  OBVIOUS
<1>13. \A i \in 1..n : Len(ps[i]) = 2 /\ ps[i][1] \in Buffers /\ ps[i][2] \in Buffers
  BY <1>8, <1>9, <1>11, <1>12, Zenon
<1>14. Pairs(ps, n)
  BY <1>10, <1>13 DEF Pairs
<1>15. RowNames[1] = "call_id" /\ RowNames[2] = "node_id" /\ RowNames[3] = "payload"
  BY DEF RowNames
<1>16. \A i \in 1..n : IsKey(ps[i][1], RowNames[i]) /\ IsRowValue(ps[i][2], RowNames[i], info)
  BY <1>4, <1>7, <1>11, <1>12, <1>15, Zenon
<1> DEFINE qs == Rotate(ps, r)
           name == [i \in 1..n |-> RowNames[Turned(i, r, n)]]
<1>17. /\ Pairs(qs, n)
       /\ \A i \in 1..n : Turned(i, r, n) \in 1..n /\ qs[i] = ps[Turned(i, r, n)]
       /\ \A j \in 1..n : \E i \in 1..n : Turned(i, r, n) = j
  <2>1. r \in 0..n
    OBVIOUS
  <2> HIDE DEF n
  <2> QED
    BY <1>14, <2>1, RotatedPairs
<1> HIDE DEF qs
<1>18. \A i \in 1..n : IsKey(qs[i][1], name[i]) /\ IsRowValue(qs[i][2], name[i], info)
  <2> HIDE DEF n
  <2> QED
    BY <1>16, <1>17, Zenon
<1>19. {name[i] : i \in 1..n} = RowFields
  <2>1. {RowNames[j] : j \in 1..n} = RowFields
    <3>1. 1..n = {1, 2, 3}
      OBVIOUS
    <3> QED
      BY <1>15, <3>1 DEF RowFields
  <2> HIDE DEF n
  <2>2. {name[i] : i \in 1..n} = {RowNames[j] : j \in 1..n}
    BY <1>17
  <2> QED
    BY <2>1, <2>2
<1> HIDE DEF name
<1>20. IsRow(qs, name, info)
  BY <1>17, <1>18, <1>19, Zenon DEF IsRow
<1>21. Len(qs) = 3
  BY <1>17 DEF Pairs
<1>22. Map(qs) = Cat(mp_encode_map(3), FlattenSeq(FlattenSeq(qs)))
  BY <1>21, Zenon DEF Map, Cat
<1>23. IsItem(Map(qs), info)
  BY <1>20, <1>22, Zenon DEF IsItem
<1> QED
  BY <1>3, <1>23 DEF q, qs

\* SetToSeq lists every element of a finite set.
LEMMA Listed ==
    ASSUME NEW T, IsFiniteSet(T)
    PROVE  /\ Cardinality(T) \in Nat /\ SetToSeq(T) \in Seq(T) /\ Len(SetToSeq(T)) = Cardinality(T)
           /\ {SetToSeq(T)[i] : i \in 1..Cardinality(T)} = T
<1> DEFINE n == Cardinality(T)
           f == SetToSeq(T)
           R == {f[i] : i \in 1..n}
<1>1. n \in Nat /\ ExistsBijection(1..n, T)
  BY FS_CardinalityType
<1>2. \E h \in [1..n -> T] : IsInjective(h)
  BY <1>1 DEF ExistsBijection, Bijection, Injection
<1>3. f \in [1..n -> T] /\ IsInjective(f)
  BY <1>2 DEF SetToSeq
<1> HIDE DEF f, n
<1>4. f \in Seq(T) /\ Len(f) = n
  BY <1>1, <1>3, SeqDef, LenProperties
<1>5. R \subseteq T
  BY <1>3
<1>6. f \in Bijection(1..n, R)
  <2>1. f \in [1..n -> R] /\ \A t \in R : \E s \in 1..n : f[s] = t
    BY <1>3
  <2> QED
    BY <1>3, <2>1 DEF Bijection, Injection, Surjection
<1>7. ExistsBijection(1..n, R)
  BY <1>6 DEF ExistsBijection
<1> HIDE DEF R
<1>8. Cardinality(R) = n
  BY <1>1, <1>7, FS_CountingElements
<1>9. R = T
  BY <1>5, <1>8, FS_Subset DEF n
<1> QED
  BY <1>1, <1>4, <1>9 DEF R, f, n

\* What RTPEngine saves of a call can be saved.
LEMMA InfoSavable ==
    ASSUME NEW c \in Calls, NEW n \in IdLengths
    PROVE  Savable(Info(c, n))
<1> DEFINE i == Info(c, n)
<1>1. n \in Nat /\ n \in Sizes /\ n # 0
  BY WireAssumption, SMT DEF Sizes
<1>2. 9 \in Sizes /\ 15 \in Sizes /\ 39 \in Sizes /\ 23 \in Sizes
  BY SMT DEF Sizes
<1>3. c \in Texts /\ "node" \in Texts /\ "caller" \in Texts /\ "callee" \in Texts
      /\ "AES_CM_128_HMAC_SHA1_80" \in Texts
  BY DEF Texts
<1>4. ASSUME NEW x \in Texts, NEW m \in Nat, m \in Sizes
      PROVE  Str(x, m) \in Strs /\ Str(x, m).len = m
  BY <1>4 DEF Str, Strs
<1> DEFINE cid == Str(c, n)
           nid == Str("node", 9)
           from == Str("caller", 15)
           to == Str("callee", 39)
           suite == Str("AES_CM_128_HMAC_SHA1_80", 23)
           p1 == Bytes(128)
           p2 == Bytes(65535)
<1>5. /\ cid \in Strs /\ cid.len # 0 /\ nid \in Strs /\ nid.len = 9 /\ from \in Strs /\ from.len = 15
      /\ to \in Strs /\ to.len = 39 /\ suite \in Strs /\ suite.len = 23
  <2>1. 9 \in Nat /\ 15 \in Nat /\ 39 \in Nat /\ 23 \in Nat
    OBVIOUS
  <2> QED
    BY <1>1, <1>2, <1>3, <1>4, <2>1, Zenon
<1>6. p1 \in Numbers /\ p2 \in Numbers
  BY DEF Bytes, Numbers, Octets
<1>7. i = [call_id |-> cid, node_id |-> nid, caller_ip |-> from, caller_port |-> p1,
           callee_ip |-> to, callee_port |-> p2, srtp_suite |-> suite]
  BY DEF Info
<1> HIDE DEF i, cid, nid, from, to, suite, p1, p2
<1>8. i = [f \in Fields |-> i[f]]
  BY <1>7 DEF Fields, PayloadFields
<1>9. /\ i["call_id"] = cid /\ i["node_id"] = nid /\ i["caller_ip"] = from /\ i["callee_ip"] = to
      /\ i["srtp_suite"] = suite /\ i["caller_port"] = p1 /\ i["callee_port"] = p2
  BY <1>7
<1>10. \A f \in Fields \ Ports : i[f] \in Strs /\ i[f].len # 0
  <2>1. Fields \ Ports = {"call_id", "node_id", "caller_ip", "callee_ip", "srtp_suite"}
    BY DEF Fields, PayloadFields, Ports
  <2> QED
    BY <1>5, <1>9, <2>1
<1>11. \A f \in Ports : i[f] \in Numbers
  BY <1>6, <1>9 DEF Ports
<1>12. \A f \in Fields \ ({"call_id"} \cup Ports) : i[f].len < Room[f]
  <2>1. Fields \ ({"call_id"} \cup Ports) = {"node_id", "caller_ip", "callee_ip", "srtp_suite"}
    BY DEF Fields, PayloadFields, Ports
  <2>2. /\ Room["node_id"] = 64 /\ Room["caller_ip"] = 64 /\ Room["callee_ip"] = 64
        /\ Room["srtp_suite"] = 32
    BY DEF Room
  <2> QED
    BY <1>5, <1>9, <2>1, <2>2
<1> QED
  BY <1>8, <1>10, <1>11, <1>12 DEF Savable, i

\* The calls of S, listed as infos.
IsList(infos, n, S, len) ==
    /\ n \in Sizes /\ DOMAIN infos = 1..n
    /\ {infos[i] : i \in 1..n} = {Info(c, len[c]) : c \in S}
    /\ \A i \in 1..n : Savable(infos[i])

\* SetToSeq lists the calls of a node, and there is room for them in an array.
LEMMA InfosListed ==
    ASSUME NEW S, S \subseteq Calls, NEW len \in [S -> IdLengths]
    PROVE  LET infos == SetToSeq({Info(c, len[c]) : c \in S})
           IN  IsList(infos, Len(infos), S, len)
<1> DEFINE T == {Info(c, len[c]) : c \in S}
           infos == SetToSeq(T)
           n == Len(infos)
           g == [c \in S |-> Info(c, len[c])]
<1>1. IsFiniteSet(Calls) /\ Cardinality(Calls) < 16777216
  BY RegistryAssumption, WireAssumption
<1>2. IsFiniteSet(S) /\ Cardinality(S) <= Cardinality(Calls)
  BY <1>1, FS_Subset
<1>3. g \in Surjection(S, T)
  BY DEF Surjection
<1> HIDE DEF T, g
<1>4. IsFiniteSet(T) /\ Cardinality(T) <= Cardinality(S)
  BY <1>2, <1>3, FS_Surjection
<1>5. /\ Cardinality(T) \in Nat /\ infos \in Seq(T) /\ n = Cardinality(T)
      /\ {infos[i] : i \in 1..Cardinality(T)} = T
  BY <1>4, Listed
<1> HIDE DEF infos
<1>6. n \in Sizes
  <2>1. Cardinality(Calls) \in Nat /\ Cardinality(S) \in Nat
    BY <1>1, <1>2, FS_CardinalityType
  <2> DEFINE a == Cardinality(Calls)
             b == Cardinality(S)
             d == Cardinality(T)
  <2>2. a \in Nat /\ b \in Nat /\ d \in Nat /\ d <= b /\ b <= a /\ a < 16777216 /\ n = d
    BY <1>1, <1>2, <1>4, <1>5, <2>1
  <2> HIDE DEF a, b, d, n
  <2> QED
    BY <2>2, SMT DEF Sizes
<1>7. DOMAIN infos = 1..n
  BY <1>5, LenProperties
<1>8. \A x \in T : Savable(x)
  <2>1. ASSUME NEW c \in S PROVE Savable(Info(c, len[c]))
    BY InfoSavable
  <2> QED
    BY <2>1 DEF T
<1>9. \A i \in 1..n : Savable(infos[i])
  BY <1>5, <1>8
<1>10. {infos[i] : i \in 1..n} = {Info(c, len[c]) : c \in S}
  BY <1>5, Zenon DEF T
<1>11. IsList(infos, n, S, len)
  <2> HIDE DEF n
  <2> QED
    BY <1>6, <1>7, <1>9, <1>10, Zenon DEF IsList
<1> QED
  BY <1>11, Zenon DEF infos, T

\* The rows of a list of calls, what is handed over of each, and the arrays that
\* the rows come in.
RowsOf(infos, n, r, s) == [i \in 1..n |-> RowOf(upsert_request(s, infos[i]), r)]
HandedOf(infos, n) == [i \in 1..n |-> Handed(infos[i])]
ItemsOf(rows, together) ==
    IF together THEN <<Array(rows)>> ELSE [i \in DOMAIN rows |-> Array(<<rows[i]>>)]
AllYield(rows, K, n) ==
    /\ rows \in Seq(Buffers) /\ Len(rows) = n
    /\ \A i \in 1..n : Yields(rows[i], K[i])

\* A row for every call, as its request brought it.
LEMMA RowsYield ==
    ASSUME NEW infos, NEW n \in Nat, DOMAIN infos = 1..n, \A i \in 1..n : Savable(infos[i]),
           NEW r \in 0..2, NEW s \in Numbers
    PROVE  AllYield(RowsOf(infos, n, r, s), HandedOf(infos, n), n)
<1> DEFINE rows == RowsOf(infos, n, r, s)
           K == HandedOf(infos, n)
<1>1. ASSUME NEW i \in 1..n
      PROVE  Yields(rows[i], K[i]) /\ rows[i] \in Buffers
  <2> DEFINE o == RowOf(upsert_request(s, infos[i]), r)
             info == infos[i]
  <2>1. rows[i] = o /\ K[i] = Handed(info) /\ Savable(info)
    BY DEF RowsOf, HandedOf
  <2>2. IsItem(o, info)
    <3> HIDE DEF info
    <3> QED
      BY <2>1, RowSaved DEF info
  <2> HIDE DEF o, info
  <2>3. Yields(o, Handed(info)) /\ o \in Buffers
    BY <2>1, <2>2, ItemRead
  <2> QED
    BY <2>1, <2>3
<1>2. rows \in [1..n -> Buffers]
  BY <1>1 DEF RowsOf
<1>3. rows \in Seq(Buffers)
  BY <1>2, SeqDef
<1>4. Len(rows) = n
  BY <1>2, <1>3, LenProperties
<1> QED
  BY <1>1, <1>3, <1>4 DEF AllYield

\* A single element adds what it holds.
LEMMA AddsOne ==
    ASSUME NEW k
    PROVE  Taking!Added(<<k>>, 1) = k /\ Grouping!Added(<<k>>, 1) = k
<1> DEFINE K == <<k>>
<1>1. {K[i] : i \in 1..1} = {k}
  <2>1. 1..1 = {1} /\ K[1] = k
    OBVIOUS
  <2> HIDE DEF K
  <2> QED
    BY <2>1
<1>2. UNION {k} = k
  OBVIOUS
<1> QED
  BY <1>1, <1>2, Zenon DEF Taking!Added, Grouping!Added

\* An array of one row, as tarantool returns it when it does not group the rows.
LEMMA SingleGives ==
    ASSUME NEW o \in Buffers, NEW k, Yields(o, k)
    PROVE  Gives(Array(<<o>>), k) /\ Array(<<o>>) \in Buffers
<1> DEFINE os == <<o>>
           K == <<k>>
           n == 1
<1>1. os \in Seq(Buffers) /\ Len(os) = n /\ os[1] = o /\ K[1] = k
  OBVIOUS
<1>2. 1 \in Sizes
  BY SMT DEF Sizes
<1>3. \A i \in 1..n : i = 1
  OBVIOUS
<1> HIDE DEF os, K
<1>4. \A i \in 1..Len(os) : Yields(os[i], K[i])
  BY <1>1, <1>3, Zenon
<1>5. Len(os) \in Sizes
  BY <1>1, <1>2
<1>6. Gives(Array(os), Taking!Added(K, Len(os))) /\ Array(os) \in Buffers
  BY <1>1, <1>4, <1>5, GroupRead
<1>7. Taking!Added(K, Len(os)) = k
  <2>1. Taking!Added(<<k>>, 1) = k
    BY AddsOne
  <2> QED
    BY <1>1, <2>1, Zenon DEF K
<1> QED
  BY <1>6, <1>7, Zenon DEF os

\* Whether the rows come together or each in an array of its own, the same calls
\* are read.
LEMMA RowsRestored ==
    ASSUME NEW rows, NEW K, NEW n \in Sizes, AllYield(rows, K, n),
           NEW together \in BOOLEAN, NEW s \in Numbers,
           ~TooLong(DataReply(s, ItemsOf(rows, together)))
    PROVE  LET items == ItemsOf(rows, together) IN
           /\ restore_calls(DataReply(s, items), s) = Taking!Added(K, n)
           /\ \A want : want # s => restore_calls(DataReply(s, items), want) = Stale
<1> DEFINE items == ItemsOf(rows, together)
<1>0. rows \in Seq(Buffers) /\ Len(rows) = n /\ \A i \in 1..n : Yields(rows[i], K[i])
  BY DEF AllYield
<1>1. n \in Nat /\ 1 \in Sizes
  BY SMT DEF Sizes
<1>s. ~TooLong(DataReply(s, items))
  OBVIOUS
<1> HIDE DEF items
<1>2. CASE together
  <2> DEFINE g == Array(rows)
             U == Taking!Added(K, n)
             L == <<U>>
  <2>1. Gives(g, U) /\ g \in Buffers
    BY <1>0, GroupRead
  <2> HIDE DEF g, U
  <2>2. items = <<g>>
    BY <1>2 DEF g, items, ItemsOf
  <2>3. items \in Seq(Buffers) /\ Len(items) = 1 /\ items[1] = g /\ L[1] = U
    BY <2>1, <2>2
  <2>4. \A i \in 1..1 : i = 1
    OBVIOUS
  <2>5. Grouping!Added(L, 1) = U
    BY AddsOne
  <2> HIDE DEF L
  <2>6. \A i \in 1..Len(items) : Gives(items[i], L[i])
    BY <2>1, <2>3, <2>4, Zenon
  <2>7. Len(items) \in Sizes
    BY <1>1, <2>3
  <2>8. /\ restore_calls(DataReply(s, items), s) = Grouping!Added(L, Len(items))
        /\ \A want : want # s => restore_calls(DataReply(s, items), want) = Stale
    BY <1>s, <2>3, <2>6, <2>7, RestoreRead
  <2> QED
    BY <2>3, <2>5, <2>8 DEF U, items
<1>3. CASE ~together
  <2>1. DOMAIN rows = 1..n
    BY <1>0, LenProperties
  <2>2. items = [i \in 1..n |-> Array(<<rows[i]>>)]
    BY <1>3, <2>1 DEF items, ItemsOf
  <2>3. ASSUME NEW i \in 1..n
        PROVE  Gives(items[i], K[i]) /\ items[i] \in Buffers
    <3> DEFINE o == rows[i]
               k == K[i]
    <3>1. o \in Buffers /\ Yields(o, k)
      BY <1>0, <2>1, ElementOfSeq
    <3> HIDE DEF o, k
    <3>2. Gives(Array(<<o>>), k) /\ Array(<<o>>) \in Buffers
      BY <3>1, SingleGives
    <3>3. items[i] = Array(<<o>>)
      BY <2>2 DEF o
    <3> QED
      BY <3>2, <3>3 DEF k
  <2>4. items \in [1..n -> Buffers]
    BY <2>2, <2>3
  <2>5. items \in Seq(Buffers)
    BY <1>1, <2>4, SeqDef
  <2>6. Len(items) = n
    BY <1>1, <2>4, <2>5, LenProperties
  <2>7. Len(items) \in Sizes /\ \A i \in 1..Len(items) : Gives(items[i], K[i])
    BY <2>3, <2>6, Zenon
  <2>8. /\ restore_calls(DataReply(s, items), s) = Grouping!Added(K, Len(items))
        /\ \A want : want # s => restore_calls(DataReply(s, items), want) = Stale
    BY <1>s, <2>5, <2>7, RestoreRead
  <2>9. Grouping!Added(K, n) = Taking!Added(K, n)
    BY Zenon DEF Grouping!Added, Taking!Added
  <2> QED
    BY <2>6, <2>8, <2>9 DEF items
<1> QED
  BY <1>2, <1>3

\* What is handed over of the calls of a list: those whose Call-ID has room.
LEMMA HandedOver ==
    ASSUME NEW infos, NEW n \in Nat, DOMAIN infos = 1..n
    PROVE  Taking!Added(HandedOf(infos, n), n) = {x \in Range(infos) : x.call_id.len < 128}
<1> DEFINE K == HandedOf(infos, n)
           U == UNION {K[i] : i \in 1..n}
           V == {x \in Range(infos) : x.call_id.len < 128}
<1>1. Range(infos) = {infos[i] : i \in 1..n}
  BY DEF Range
<1>2. \A x : x \in U <=> \E i \in 1..n : x \in Handed(infos[i])
  BY DEF HandedOf
<1>3. \A i \in 1..n : \A x : x \in Handed(infos[i]) <=> x = infos[i] /\ x.call_id.len < 128
  BY DEF Handed
<1>4. \A x : x \in U <=> x \in V
  BY <1>1, <1>2, <1>3
<1>5. U = V
  <2> HIDE DEF U, V
  <2> QED
    BY <1>4
<1> QED
  BY <1>5, Zenon DEF Taking!Added

\* Every reply with these calls that is not above a mebibyte is read as they
\* were saved, when the requests fit packet_buf.
LEMMA RepliesAreReadBack ==
    ASSUME NEW S, S \subseteq Calls
    PROVE  RestoreReads(S)
<1> SUFFICES ASSUME NEW len \in [S -> IdLengths], NEW r \in 0..2, NEW together \in BOOLEAN
             PROVE  LET infos == SetToSeq({Info(c, len[c]) : c \in S})
                        saved == [i \in DOMAIN infos |-> upsert_request(sync, infos[i])]
                        own == RestoreReply(saved, r, together, sync)
                        other == RestoreReply(saved, r, together, earlier)
                    IN  /\ ~TooLong(own) =>
                              restore_calls(own, sync) = {i \in Range(infos) : i.call_id.len < 128}
                        /\ ~TooLong(other) => restore_calls(other, sync) = Stale
  BY Zenon DEF RestoreReads
<1> DEFINE infos == SetToSeq({Info(c, len[c]) : c \in S})
           n == Len(infos)
           saved == [i \in DOMAIN infos |-> upsert_request(sync, infos[i])]
           rows == [i \in DOMAIN saved |-> RowOf(saved[i], r)]
           items == ItemsOf(rows, together)
           K == HandedOf(infos, n)
<1>1. IsList(infos, n, S, len)
  BY InfosListed
<1>2. sync \in Numbers /\ earlier \in Numbers /\ sync # earlier
  BY Examples
<1> HIDE DEF infos, n
<1>3. n \in Sizes /\ DOMAIN infos = 1..n /\ \A i \in 1..n : Savable(infos[i])
  BY <1>1 DEF IsList
<1>4. n \in Nat
  BY <1>3, SMT DEF Sizes
<1>5. rows = RowsOf(infos, n, r, sync)
  BY <1>3 DEF RowsOf
<1>6. \A s \in Numbers : RestoreReply(saved, r, together, s) = DataReply(s, items)
  BY Zenon DEF RestoreReply, ItemsOf
<1> HIDE DEF saved, rows
<1>7. AllYield(RowsOf(infos, n, r, sync), K, n)
  BY <1>2, <1>3, <1>4, RowsYield
<1>8. AllYield(rows, K, n)
  BY <1>5, <1>7
<1> HIDE DEF K
<1> DEFINE Short(s) == ~TooLong(DataReply(s, items))
<1>9. \A s : Short(s) => ~TooLong(DataReply(s, items))
  OBVIOUS
<1> HIDE DEF Short
<1>10. Short(sync) => restore_calls(DataReply(sync, items), sync) = Taking!Added(K, n)
  BY <1>2, <1>3, <1>8, <1>9, RowsRestored
<1>11. Short(earlier) => restore_calls(DataReply(earlier, items), sync) = Stale
  <2> DEFINE e == earlier
             w == sync
  <2>1. e \in Numbers /\ w # e
    BY <1>2
  <2> HIDE DEF e, w
  <2>2. Short(e) => \A want : want # e => restore_calls(DataReply(e, items), want) = Stale
    BY <1>3, <1>8, <1>9, <2>1, RowsRestored
  <2> QED
    BY <2>1, <2>2 DEF e, w
<1>12. Taking!Added(K, n) = {i \in Range(infos) : i.call_id.len < 128}
  BY <1>3, <1>4, HandedOver DEF K
<1> DEFINE own == RestoreReply(saved, r, together, sync)
           other == RestoreReply(saved, r, together, earlier)
<1>13. own = DataReply(sync, items) /\ other = DataReply(earlier, items)
  BY <1>2, <1>6, Zenon
<1>14. /\ ~TooLong(own) =>
             restore_calls(own, sync) = {i \in Range(infos) : i.call_id.len < 128}
       /\ ~TooLong(other) => restore_calls(other, sync) = Stale
  <2> HIDE DEF own, other, items
  <2> QED
    BY <1>10, <1>11, <1>12, <1>13, Zenon DEF Short
<1> QED
  BY <1>14, Zenon DEF saved, infos

\* A session of an RTPEngine node has a Call-ID as its key: the texts of
\* tnt_save_call_sg come without a node.
Keyed == \A k \in DOMAIN rtpe_calls : rtpe_calls[k].node \in Nodes => k \in Calls

\* The stacks keep it.
LEMMA KeyedKept == Keyed /\ [Next]_vars => Keyed'
<1> SUFFICES ASSUME Keyed, [Next]_vars PROVE Keyed'
  OBVIOUS
<1>1. ASSUME NEW k, NEW v, v.node \in Nodes => k \in Calls, rtpe_calls' = Put(rtpe_calls, k, v)
      PROVE  Keyed'
  BY <1>1 DEF Keyed, Put
<1>2. ASSUME NEW k, rtpe_calls' = Drop(rtpe_calls, k)
      PROVE  Keyed'
  BY <1>2 DEF Keyed, Drop
<1>3. UNCHANGED rtpe_calls => Keyed'
  BY DEF Keyed
<1>4. CASE UNCHANGED vars
  BY <1>3, <1>4 DEF vars
<1>5. ASSUME NEW m \in Nodes, NEW c \in Calls, RtpeSave(m, c)
      PROVE  Keyed'
  <2>1. rtpe_calls' = Put(rtpe_calls, c, SessionOf(RtpeArgs(c, m)))
    BY <1>5, RtpeArrives DEF RtpeSave
  <2> QED
    BY <1>1, <2>1
<1>6. ASSUME NEW c \in Calls, RtpeDelete(c) \/ OsRemove(c)
      PROVE  Keyed'
  BY <1>2, <1>6 DEF RtpeDelete, OsRemove
<1>7. ASSUME NEW c \in Calls, KamSave(c)
      PROVE  Keyed'
  <2> DEFINE k == Text(<<c>>)
             v == SessionOf(KamString(k))
  <2>1. Arg(KamString(k), 1) = k /\ v.node \notin Nodes
    <3>0. k \notin Bracketed
      BY SharedAssumption
    <3> HIDE DEF k
    <3>1. Len(KamString(k)) = 1 /\ KamString(k)[1] = k
      BY <3>0 DEF KamString
    <3>2. v.node = DefaultNode
      BY <3>1 DEF SessionOf, Arg
    <3> QED
      BY <3>1, <3>2, SharedAssumption DEF Arg
  <2> QED
    BY <1>1, <1>3, <1>7, <2>1 DEF KamSave
<1>8. ASSUME NEW c \in Calls, KamDelete(c)
      PROVE  Keyed'
  BY <1>2, <1>3, <1>8 DEF KamDelete
<1>9. ASSUME NEW c \in Calls, OsSet(c)
      PROVE  Keyed'
  BY <1>1, <1>9 DEF OsSet
<1>10. ASSUME NEW id \in Endpoints, NEW d \in Data, AstStore(id, d)
       PROVE  Keyed'
  BY <1>3, <1>10 DEF AstStore
<1>11. ASSUME NEW id \in Endpoints, AstDestroy(id)
       PROVE  Keyed'
  BY <1>3, <1>11 DEF AstDestroy
<1>12. ASSUME NEW k \in Keys, DeadlinePasses(k)
       PROVE  Keyed'
  <2>1. rtpe_calls' = [rtpe_calls EXCEPT ![k] = [rtpe_calls[k] EXCEPT !.live = FALSE]]
    BY <1>12 DEF DeadlinePasses
  <2>2. [rtpe_calls[k] EXCEPT !.live = FALSE].node = rtpe_calls[k].node
    OBVIOUS
  <2> QED
    BY <2>1, <2>2 DEF Keyed
<1>13. ASSUME NEW k \in Keys, Purge(k)
       PROVE  Keyed'
  BY <1>2, <1>13 DEF Purge
<1> QED
  BY <1>4, <1>5, <1>6, <1>7, <1>8, <1>9, <1>10, <1>11, <1>12, <1>13 DEF Next

\* RestoredAsSaved at every state: a node's sessions are handed to the callback
\* as they were saved, in any of the replies that bring them, for as many calls
\* and Call-IDs as long as packet_buf and the mebibyte of a reply allow.
THEOREM NodesAreRestored == RegistrySpec => []RestoredAsSaved
<1>1. RegistryInit => Keyed
  BY DEF RegistryInit, Init, Keyed, EmptySpace
<1>2. [RegistryNext]_allVars => [Next]_vars
  BY DEF RegistryNext, allVars, StackStep, Tick, NodeDies, NodeReturns, node_heartbeat
<1>3. Keyed /\ [RegistryNext]_allVars => Keyed'
  BY <1>2, KeyedKept
<1>4. Keyed => RestoredAsSaved
  <2> SUFFICES ASSUME Keyed, NEW m \in Nodes PROVE call_restore(m) \in ReadableReplies
    BY DEF RestoredAsSaved
  <2> DEFINE S == call_restore(m)
  <2>1. S \subseteq Calls
    BY SharedAssumption DEF Keyed, call_restore
  <2> HIDE DEF S
  <2>2. RestoreReads(S)
    BY <2>1, RepliesAreReadBack
  <2>3. S \in {S} /\ (IF RestoreReads(S) THEN {S} ELSE {}) = {S} /\ S \in SUBSET Calls
    BY <2>1, <2>2
  <2>4. S \in ReadableReplies
    BY <2>3, Zenon DEF ReadableReplies
  <2> QED
    BY <2>4 DEF S
<1> QED
  BY <1>1, <1>3, <1>4, PTL DEF RegistrySpec
=============================================================================
