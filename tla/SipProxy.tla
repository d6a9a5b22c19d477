------------------------------ MODULE SipProxy ------------------------------
(***************************************************************************)
(* The SIP proxy of docker/kamailio_entrypoint.c: one process that routes  *)
(* datagrams between callers, the called side (the UAS) and RTPEngine, and *)
(* asks Tarantool for a node on every INVITE through the client of the     *)
(* Kamailio module (KamailioClient), which blocks it meanwhile.            *)
(*                                                                         *)
(* The caller of a call is kept in g_sessions, a table with open           *)
(* addressing.  Datagrams may be lost, repeated and reordered: any of them *)
(* may arrive whenever the proxy waits for one.                            *)
(***************************************************************************)
EXTENDS KamailioClient, FiniteSetsExt

CONSTANTS
    Calls,        \* Call-IDs
    Blank,        \* the empty one
    Addrs,        \* where datagrams come from
    Uas,          \* the address of the called side, a member of Addrs
    Rtpe,         \* the address of RTPEngine
    Default,      \* the server at the head of tnt_srv_list
    Slots,        \* MAX_SESSIONS
    Probes,       \* how far the table is searched, 1024 in the code
    Hash,         \* hash_call_id
    None

ASSUME ProxyAssumption ==
    /\ Uas \in Addrs /\ None \notin Addrs \cup Calls /\ Default \in Servers
    /\ Blank \notin Calls \cup {None}
    /\ Slots \in Nat \ {0} /\ Probes \in 1..Slots
    /\ Hash \in [Calls \cup {Blank} -> 0..Slots - 1]

VARIABLES
    g_sessions,   \* slot -> call and address; Blank in a free one
    invite,       \* the call whose INVITE is being handled, or None
    out,          \* where the last datagram handled was sent, and RTPEngine
                  \* when it was told
    caller        \* history: call -> where its last INVITE that found a
                  \* place came from, None once the session is deleted

proxyVars == <<g_sessions, invite, out, caller>>

Empty == [call |-> Blank, addr |-> None]

ProxyInit ==
    /\ Init /\ ~optional
    /\ g_sessions = [i \in 0..Slots - 1 |-> Empty]
    /\ invite = None /\ out = {}
    /\ caller = [c \in Calls |-> None]
-----------------------------------------------------------------------------
(***************************************************************************)
(* g_sessions.  A search visits Probes slots from the hash of the Call-ID  *)
(* on, round the end of the table.                                         *)
(***************************************************************************)
Slot(c, i) == (Hash[c] + i) % Slots

\* The steps at which a search for c meets one of the calls given.
Meets(c, calls) == {i \in 0..Probes - 1 : g_sessions[Slot(c, i)].call \in calls}

Room(c) == Meets(c, {c, Blank})

\* A slot that gets an empty Call-ID stays free.
store_session(c, a) ==
    IF c = Blank \/ Room(c) = {} THEN UNCHANGED <<g_sessions, caller>>
    ELSE /\ g_sessions' = [g_sessions EXCEPT ![Slot(c, Min(Room(c)))] =
                              [call |-> c, addr |-> a]]
         /\ caller' = [caller EXCEPT ![c] = a]

\* Empty slots are passed over.
Matches_StopAtEmpty(c) ==
    {i \in Meets(c, {c} \ {Blank}) : \A j \in 0..i - 1 : g_sessions[Slot(c, j)].call # Blank}
Matches(c) == Meets(c, {c} \ {Blank})

find_session(c) ==
    IF Matches(c) = {} THEN None ELSE g_sessions[Slot(c, Min(Matches(c)))].addr

\* Only the first match is emptied.  (The address stays behind in the code
\* and is not looked at.)
delete_session(c) ==
    /\ g_sessions' = IF Matches(c) = {} THEN g_sessions
                     ELSE [g_sessions EXCEPT ![Slot(c, Min(Matches(c)))] = Empty]
    /\ caller' = [d \in Calls |-> IF d = c THEN None ELSE caller[d]]
-----------------------------------------------------------------------------
(***************************************************************************)
(* main                                                                    *)
(***************************************************************************)

\* The result of tnt_child_init is not looked at.
StartAnyway ==
    /\ pc = "off" /\ invite = None
    /\ pc' = "idle"
    /\ UNCHANGED <<connVars, wire, srv, boot, optional, got, streak, proxyVars>>

Waiting == pc = "idle" /\ invite = None

\* An INVITE is stored, then rtpe_select_node is called and its result not
\* used.  The answer to the call is awaited before anything else is done.
Invite(c, a) ==
    /\ Waiting
    /\ store_session(c, a)
    /\ invite' = c
    /\ Begin(Default)
    /\ UNCHANGED out

Forward ==
    /\ pc = "idle" /\ invite # None
    /\ out' = {Rtpe, Uas}
    /\ invite' = None
    /\ UNCHANGED <<vars, g_sessions, caller>>

\* 180 and 200: back to the UAS when there is no session.
Response(c) ==
    /\ Waiting
    /\ out' = {IF find_session(c) # None THEN find_session(c) ELSE Uas}
    /\ UNCHANGED <<vars, g_sessions, invite, caller>>

Ack ==
    /\ Waiting
    /\ out' = {Uas}
    /\ UNCHANGED <<vars, g_sessions, invite, caller>>

ByeFromUas(c) ==
    /\ Waiting
    /\ out' = {Rtpe} \cup ({find_session(c)} \ {None})
    /\ delete_session(c)
    /\ UNCHANGED <<vars, invite>>

\* The session of a call that its caller ends is kept.
ByeFromCaller ==
    /\ Waiting
    /\ out' = {Rtpe, Uas}
    /\ UNCHANGED <<vars, g_sessions, invite, caller>>

\* The process ends and is started again.
ProxyRestart ==
    /\ Restart
    /\ g_sessions' = [i \in 0..Slots - 1 |-> Empty]
    /\ invite' = None /\ out' = {}
    /\ caller' = [c \in Calls |-> None]

ClientStep == Worker /\ UNCHANGED proxyVars
ClockStep == Tick /\ UNCHANGED proxyVars

\* c is what extract_call_id makes of the datagram: the rest of the first line
\* that says Call-ID, which may be empty; without that line a fixed Call-ID,
\* one of Calls.
Datagram ==
    \/ \E c \in Calls \cup {Blank} : (\E a \in Addrs : Invite(c, a)) \/ Response(c) \/ ByeFromUas(c)
    \/ Ack
    \/ Addrs # {Uas} /\ ByeFromCaller

ProxyNext == Datagram \/ StartAnyway \/ Forward \/ ClientStep \/ ClockStep \/ ProxyRestart

\* Every receive of the client has a timeout, so the process always goes on.
ProxySpec ==
    /\ ProxyInit /\ [][ProxyNext]_<<vars, proxyVars>>
    /\ WF_<<vars, proxyVars>>(ClientStep) /\ WF_<<vars, proxyVars>>(Forward)
    /\ WF_<<vars, proxyVars>>(StartAnyway)
-----------------------------------------------------------------------------
(***************************************************************************)
(* Properties                                                              *)
(***************************************************************************)

\* find_session and store_session: a response is sent to where the last
\* INVITE of its call that found a place came from, as long as the UAS has not
\* ended the call since, whatever other calls were stored and deleted in the
\* slots searched before.  Of an INVITE without room, or with an empty
\* Call-ID, and of the older entry that a delete may leave behind, nothing is
\* said.
RoutesToLatest ==
    [][\A c \in Calls : Response(c) /\ caller[c] # None => out' = {caller[c]}]_<<vars, proxyVars>>

\* The INVITE handler of main: however Tarantool behaves, an INVITE that is
\* received is forwarded in the end, unless the process is restarted.
InviteForwarded == invite # None ~> invite = None
=============================================================================
