----------------------------- MODULE SharedState -----------------------------
(***************************************************************************)
(* The four SIP stacks on the spaces they share: what arrives in the       *)
(* stored procedures (rtpe_service.lua, asterisk_service.lua) of what the  *)
(* C clients send, and what the others then find.                          *)
(*                                                                         *)
(* A request carries a sequence of arguments.  RTPEngine sends them one by *)
(* one; Asterisk and Kamailio send a text (JSON, or a packed array) that   *)
(* holds them all.  A text is the record [text |-> arguments]: the server  *)
(* does not look into it.  Requests succeed; the connections are the       *)
(* subject of the other modules.  Of a deadline this module knows whether  *)
(* it lies ahead.  The cleaner takes one expired tuple in a step: what may *)
(* happen between its look and its delete is the subject of TtlWorker.     *)
(***************************************************************************)
EXTENDS Integers, Sequences, FiniteSets, Spaces

CONSTANTS
    Calls,          \* SIP Call-IDs
    Bracketed,      \* those of them that begin with '['
    Nodes,          \* RTPEngine instances
    OpenSips,       \* the node_id that tarantool_set writes
    DefaultNode,    \* the node_id of a tuple saved without one
    Endpoints,      \* ids in space ps_endpoints
    Data,           \* values of an endpoint
    PsEndpoints,    \* the name of that space
    None

Text(args) == [text |-> args]
Keys == Calls \cup {Text(<<c>>) : c \in Calls}
Sessions == [node : Nodes \cup {OpenSips, DefaultNode},
             payload : {"map", "string", "none"},
             live : BOOLEAN]

\* nil is no value; a text is neither a Call-ID nor the name of a space.
ASSUME SharedAssumption ==
    /\ {OpenSips, DefaultNode, None} \cap Nodes = {}
    /\ Bracketed \subseteq Calls
    /\ None \notin Calls /\ None \notin Data /\ None \notin Sessions
    /\ PsEndpoints \notin Endpoints
    /\ \A c \in Calls : Text(<<c>>) \notin Calls
    /\ \A id \in Endpoints :
          /\ \A d \in Data : Text(<<PsEndpoints, id, d>>) # PsEndpoints
          /\ Text(<<PsEndpoints, "id", id>>) # PsEndpoints

VARIABLES
    rtpe_calls,      \* space 512: call_id -> [node, payload, live]; live is expires_at > now
    ps_endpoints,    \* space 520: id -> data
    owner,           \* history: call -> the RTPEngine that saved it, until somebody
                     \* deletes it or its deadline passes, or None
    taken            \* history: those of these calls whose tuple OpenSIPS has replaced

vars == <<rtpe_calls, ps_endpoints, owner, taken>>
histories == <<owner, taken>>

\* An administrator has filled ps_endpoints.
Init ==
    /\ rtpe_calls = EmptySpace /\ ps_endpoints \in [Endpoints -> Data]
    /\ owner = [c \in Calls |-> None]
    /\ taken = {}
-----------------------------------------------------------------------------
(***************************************************************************)
(* Arguments on the way                                                    *)
(***************************************************************************)

\* pack_call_upsert: every argument by itself.
RtpeArgs(c, n) == <<c, n, "map">>

\* ast_tarantool_call: the JSON text is the only argument.
AstArgs(args) == <<Text(args)>>

\* tnt_exec_call: parameters that begin with '[' are left out, be they an
\* array or a Call-ID; others are the only argument.
KamArray(args) == <<>>
KamString(s) == IF s \in Bracketed THEN <<>> ELSE <<s>>

\* The i-th parameter of a procedure; a missing one is nil.
Arg_FromZero(args, i) == IF i + 1 <= Len(args) THEN args[i + 1] ELSE None
Arg(args, i) == IF i <= Len(args) THEN args[i] ELSE None

\* What call_upsert makes of node_id and payload; the deadline is an hour off.
SessionOf_NoNode(args) == [node |-> DefaultNode, payload |-> args[Len(args)], live |-> TRUE]
SessionOf(args) ==
    [node |-> IF Arg(args, 2) = None THEN DefaultNode ELSE Arg(args, 2),
     payload |-> IF Len(args) < 3 THEN "none" ELSE args[3],
     live |-> TRUE]
-----------------------------------------------------------------------------
(***************************************************************************)
(* RTPEngine and Kamailio, through rtpe_service.lua                        *)
(***************************************************************************)
RtpeSave(n, c) ==
    LET args == RtpeArgs(c, n) IN
    /\ rtpe_calls' = Put(rtpe_calls, Arg(args, 1), SessionOf(args))
    /\ owner' = [owner EXCEPT ![c] = n]
    /\ taken' = taken \ {c}
    /\ UNCHANGED ps_endpoints

\* The session is no longer expected.
GiveUp(c) == owner' = [owner EXCEPT ![c] = None] /\ taken' = taken \ {c}

RtpeDelete(c) ==
    /\ rtpe_calls' = Drop(rtpe_calls, c)
    /\ GiveUp(c)
    /\ UNCHANGED ps_endpoints

\* tnt_save_call_sg: the packed array arrives as a Call-ID, and nothing
\* else.  The space may refuse a tuple without payload.
KamSave(c) ==
    LET args == KamString(Text(<<c>>)) IN
    /\ \/ rtpe_calls' = Put(rtpe_calls, Arg(args, 1), SessionOf(args))
       \/ UNCHANGED rtpe_calls
    /\ UNCHANGED <<ps_endpoints, histories>>

\* tarantool_call("rtpe_call_delete", "[...]") of a script: it answers 1
\* also when the procedure misses its parameter.
KamDelete(c) ==
    LET call_id == Arg(KamArray(<<c>>), 1) IN
    /\ rtpe_calls' = IF call_id = None THEN rtpe_calls ELSE Drop(rtpe_calls, call_id)
    /\ GiveUp(c)
    /\ UNCHANGED ps_endpoints

\* rtpe_call_get: the session under that key, expired or not, or nil.
call_get(k) == IF k \in DOMAIN rtpe_calls THEN rtpe_calls[k] ELSE None

\* What tnt_get_call_buf puts into the buffer: it answers 0 also for nil.
KamReads(c) == call_get(Arg(KamString(c), 1))
-----------------------------------------------------------------------------
(***************************************************************************)
(* OpenSIPS, on the space itself                                           *)
(***************************************************************************)

\* tarantool_set: a replace of the whole tuple, deadline included.
OsTuple == [node |-> OpenSips, payload |-> "string", live |-> TRUE]
OsSet(c) ==
    /\ rtpe_calls' = Put(rtpe_calls, c, OsTuple)
    /\ taken' = IF owner[c] = None THEN taken ELSE taken \cup {c}
    /\ UNCHANGED <<ps_endpoints, owner>>

OsRemove(c) ==
    /\ rtpe_calls' = Drop(rtpe_calls, c)
    /\ GiveUp(c)
    /\ UNCHANGED ps_endpoints

\* What rtpe_call_restore(n) returns; without a node, the sessions of all.
call_restore(n) == {k \in DOMAIN rtpe_calls : /\ rtpe_calls[k].live
                                              /\ n = None \/ rtpe_calls[k].node = n}
-----------------------------------------------------------------------------
(***************************************************************************)
(* The clock and the cleaner                                               *)
(***************************************************************************)

\* expires_at of the tuple is reached.
DeadlinePasses(k) ==
    /\ k \in DOMAIN rtpe_calls /\ rtpe_calls[k].live
    /\ rtpe_calls' = [rtpe_calls EXCEPT ![k].live = FALSE]
    /\ IF k \in Calls THEN GiveUp(k) ELSE UNCHANGED histories
    /\ UNCHANGED ps_endpoints

\* ttl_worker deletes a tuple whose deadline has passed.
Expired_Any(t) == TRUE
Expired(t) == ~t.live
Purge(k) ==
    /\ k \in DOMAIN rtpe_calls /\ Expired(rtpe_calls[k])
    /\ rtpe_calls' = Drop(rtpe_calls, k)
    /\ UNCHANGED <<ps_endpoints, histories>>
-----------------------------------------------------------------------------
(***************************************************************************)
(* Asterisk, through asterisk_service.lua                                  *)
(***************************************************************************)

\* store_tarantool and ast_realtime_store, update_ and _update: without a
\* space of that name nothing is written.  Asterisk is told 0.
AstStore(id, d) ==
    LET args == AstArgs(<<PsEndpoints, id, d>>) IN
    /\ ps_endpoints' = IF Arg(args, 1) = PsEndpoints
                       THEN Put(ps_endpoints, Arg(args, 2), Arg(args, 3))
                       ELSE ps_endpoints
    /\ UNCHANGED <<rtpe_calls, histories>>

\* destroy_tarantool and ast_realtime_destroy.
AstDestroy(id) ==
    LET args == AstArgs(<<PsEndpoints, "id", id>>) IN
    /\ ps_endpoints' = IF Arg(args, 1) = PsEndpoints THEN Drop(ps_endpoints, Arg(args, 3))
                                                     ELSE ps_endpoints
    /\ UNCHANGED <<rtpe_calls, histories>>

Next ==
    \/ \E n \in Nodes, c \in Calls : RtpeSave(n, c)
    \/ \E c \in Calls : RtpeDelete(c)
    \/ \E c \in Calls : KamSave(c)
    \/ \E c \in Calls : KamDelete(c)
    \/ \E c \in Calls : OsSet(c)
    \/ \E c \in Calls : OsRemove(c)
    \/ \E id \in Endpoints, d \in Data : AstStore(id, d)
    \/ \E id \in Endpoints : AstDestroy(id)
    \/ \E k \in Keys : DeadlinePasses(k)
    \/ \E k \in Keys : Purge(k)

Spec == Init /\ [][Next]_vars
-----------------------------------------------------------------------------
(***************************************************************************)
(* Properties                                                              *)
(***************************************************************************)

\* The spaces and histories have their types; a session's key is a Call-ID
\* or the packed text of tnt_save_call_sg.
TypeOK ==
    /\ IsSpace(rtpe_calls, Keys, Sessions)
    /\ IsSpace(ps_endpoints, Endpoints, Data)
    /\ owner \in [Calls -> Nodes \cup {None}]
    /\ taken \subseteq Calls

\* The stacks share their state: what tnt_get_call_buf reads of a session that
\* RTPEngine saved, that nobody deleted and whose deadline lies ahead, is what
\* was written last under the Call-ID as a whole, node and payload: RTPEngine's
\* own, or OpenSIPS' when tarantool_set has replaced it.  Nothing that Kamailio
\* or Asterisk store and nothing the cleaner deletes gets in the way.  A
\* Call-ID that begins with '[' never reaches the procedure.
SharedRead ==
    \A c \in Calls \ Bracketed : owner[c] # None =>
        KamReads(c) = IF c \in taken THEN OsTuple
                      ELSE [node |-> owner[c], payload |-> "map", live |-> TRUE]

\* rtpe_call_restore(node) returns every session the node saved, nobody
\* deleted and whose deadline lies ahead, unless OpenSIPS has replaced its
\* tuple; rtpe_call_restore of no node returns those as well.  What Kamailio
\* stores, or fails to store, under the same Call-ID does not move a session.
RestoreSeesOwner ==
    \A c \in Calls : owner[c] # None =>
        /\ c \in call_restore(None)
        /\ c \notin taken => c \in call_restore(owner[c])
=============================================================================
