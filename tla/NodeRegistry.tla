----------------------------- MODULE NodeRegistry -----------------------------
(***************************************************************************)
(* The media nodes on space cluster_nodes (rtpe_service.lua), composed     *)
(* with the sessions they keep: a node announces its number of calls with  *)
(* rtpe_node_heartbeat, rtpe_select_node chooses the node for the next     *)
(* call by the last announcements.  A node may be dead by then: the age of *)
(* its heartbeat is all that the choice knows of it.                       *)
(*                                                                         *)
(* One Tick is a second.  An age is counted up to Window, where nothing    *)
(* tells it from a greater one.                                            *)
(***************************************************************************)
EXTENDS SharedState, SequencesExt

CONSTANTS
    NodeOrder,   \* the nodes in the order of the primary key
    Window       \* seconds for which a heartbeat counts (10 in the code)

ASSUME RegistryAssumption ==
    /\ NodeOrder \in Seq(Nodes) /\ Range(NodeOrder) = Nodes /\ IsInjective(NodeOrder)
    /\ Window \in Nat \ {0}
    /\ IsFiniteSet(Calls)

VARIABLES
    cluster_nodes,   \* space 514: node -> [calls, age]; age is now - last_ping
    downFor          \* history: node -> seconds since it died, or Up

registryVars == <<cluster_nodes, downFor>>
allVars == <<vars, registryVars>>

Up == -1
Older(age) == IF age < Window THEN age + 1 ELSE age

RegistryInit == Init /\ cluster_nodes = EmptySpace /\ downFor = [n \in Nodes |-> Up]
-----------------------------------------------------------------------------
(***************************************************************************)
(* Actions                                                                 *)
(***************************************************************************)

\* node_heartbeat: the tuple is replaced, whatever it held; a gauge that is
\* missing, no number or negative counts as 0.
Gauge_AsSent(k) == k
Gauge(k) == IF k >= 0 THEN k ELSE 0
Kept(n) == Cardinality({c \in Calls : owner[c] = n})
node_heartbeat(n, active_calls) ==
    /\ downFor[n] = Up
    /\ cluster_nodes' = Put(cluster_nodes, n, [calls |-> Gauge(active_calls), age |-> 0])
    /\ UNCHANGED <<vars, downFor>>

\* The tuple of a dead node stays in the space.
NodeDies(n) ==
    /\ downFor[n] = Up
    /\ downFor' = [downFor EXCEPT ![n] = 0]
    /\ UNCHANGED <<vars, cluster_nodes>>

NodeReturns(n) ==
    /\ downFor[n] # Up
    /\ downFor' = [downFor EXCEPT ![n] = Up]
    /\ UNCHANGED <<vars, cluster_nodes>>

Tick ==
    /\ cluster_nodes' = [n \in DOMAIN cluster_nodes |->
                            [cluster_nodes[n] EXCEPT !.age = Older(@)]]
    /\ downFor' = [n \in Nodes |-> IF downFor[n] = Up THEN Up ELSE Older(downFor[n])]
    /\ UNCHANGED vars

\* A step of the stacks; only a node that is up saves sessions.
StackStep ==
    /\ Next
    /\ \A c \in Calls : owner'[c] \notin {owner[c], None} => downFor[owner'[c]] = Up
    /\ UNCHANGED registryVars

\* select_optimal_node: the loop over the space in the order of its key.  Its
\* test of the status is left out: node_heartbeat writes none but 'active'.
IsFresh_Window(t) == t.age <= Window
IsFresh(t) == t.age < Window
Better_Last(t, best) == best = None \/ t.calls <= cluster_nodes[best].calls
Better(t, best) == best = None \/ t.calls < cluster_nodes[best].calls
select_optimal_node ==
    FoldLeft(LAMBDA best, n :
                 IF n \in DOMAIN cluster_nodes /\ IsFresh(cluster_nodes[n])
                                               /\ Better(cluster_nodes[n], best)
                 THEN n ELSE best,
             None, NodeOrder)

RegistryNext ==
    \/ \E n \in Nodes : \E k \in {Kept(n), -1} : node_heartbeat(n, k)
    \/ \E n \in Nodes : NodeDies(n)
    \/ \E n \in Nodes : NodeReturns(n)
    \/ Tick
    \/ StackStep

RegistrySpec == RegistryInit /\ [][RegistryNext]_allVars
-----------------------------------------------------------------------------
(***************************************************************************)
(* Properties                                                              *)
(***************************************************************************)

\* The space and the history have their types.
RegistryTypeOK ==
    /\ IsSpace(cluster_nodes, Nodes, [calls : 0..Cardinality(Calls), age : 0..Window])
    /\ downFor \in [Nodes -> {Up} \cup 0..Window]

\* rtpe_select_node sends no call to a node that has been dead for the whole
\* window of ten seconds, however often the node died and returned, whatever
\* it had announced and whatever the others announce.
NotLongDead ==
    select_optimal_node # None => downFor[select_optimal_node] < Window

\* The loop of select_optimal_node finds the minimum: it returns nothing only
\* when every heartbeat is too old, else a node with the fewest calls of
\* those that announced in time, and of several the first in the key's order
\* (so that equal announcements always give the same node).
BestIsLeast ==
    LET timely == {n \in DOMAIN cluster_nodes : cluster_nodes[n].age < Window}
        least == {n \in timely : \A m \in timely :
                      cluster_nodes[n].calls <= cluster_nodes[m].calls}
        rank(n) == CHOOSE i \in DOMAIN NodeOrder : NodeOrder[i] = n
    IN  IF timely = {} THEN select_optimal_node = None
        ELSE /\ select_optimal_node \in least
             /\ \A n \in least : rank(select_optimal_node) <= rank(n)
=============================================================================
