---------------------------- MODULE KamailioClient ----------------------------
(***************************************************************************)
(* The client of the Kamailio module                                       *)
(* (kamailio_tarantool/ndb_tarantool/tarantool_client.c): one connection   *)
(* per configured server in every worker process, reconnection, timeouts   *)
(* and the cooldown of an unreachable server.                              *)
(*                                                                         *)
(* A worker is one thread.  tnt_exec_call and tnt_exec_eval do the same to *)
(* the connection; tnt_save_call_sg and tnt_get_call_buf go through        *)
(* tnt_exec_call.  A connection is the sequence of reply parts still to be *)
(* read: each reply is a length ("head") and a packet ("body"); a part is  *)
(* own when it answers the last request.  A receive may time out at any    *)
(* moment and a connection may break at any moment.  tnt_child_init and    *)
(* the login are in the model, and the end of a worker, clean or not.      *)
(***************************************************************************)
EXTENDS Integers, Sequences

CONSTANTS
    Servers,
    Users,             \* the servers a user is configured for
    AllowedTimeouts,   \* allowed_timeouts
    DisableTime        \* disable_time, in seconds

ASSUME KamailioAssumption ==
    /\ AllowedTimeouts \in Nat \ {0} /\ DisableTime \in Nat
    /\ Servers # {} /\ Users \subseteq Servers

VARIABLES
    connected,   \* server -> connected, with fd >= 0
    fd,          \* server -> fd >= 0
    disabled,    \* server -> the flag of that name
    errors,      \* server -> consecutive_errors
    wait,        \* server -> seconds until restore_tick
    wire,        \* server -> parts still to be read
    pc, srv,     \* where the worker is, and its server
    boot,        \* servers tnt_child_init has still to connect to
    optional,    \* init_without_tarantool
    got,         \* history: whose reply the last call returned
    streak       \* history: failed exchanges in a row since the cooldown,
                 \* counted up to AllowedTimeouts

vars == <<connected, fd, disabled, errors, wait, wire, pc, srv, boot, optional,
          got, streak>>
connVars == <<connected, fd, disabled, errors, wait>>

Parts == [part : {"head", "body"}, own : BOOLEAN]

\* tnt_add_server: a server as it is registered, whatever else its
\* specification says.  One with an impossible port is not in Servers.
Fresh(value) == [s \in Servers |-> value]

\* The worker enters tnt_child_init.
Init ==
    /\ connected = Fresh(FALSE) /\ fd = Fresh(FALSE) /\ disabled = Fresh(FALSE)
    /\ errors = Fresh(0) /\ wait = Fresh(0) /\ streak = Fresh(0)
    /\ wire = Fresh(<<>>)
    /\ pc = "boot" /\ srv \in Servers
    /\ boot = Servers /\ optional \in BOOLEAN
    /\ got = "none"

\* The worker ends, after tnt_child_destroy and tnt_destroy_all or by a
\* crash: its sockets are closed either way.  Another takes its place.
Restart ==
    /\ connected' = Fresh(FALSE) /\ fd' = Fresh(FALSE) /\ disabled' = Fresh(FALSE)
    /\ errors' = Fresh(0) /\ wait' = Fresh(0) /\ streak' = Fresh(0)
    /\ wire' = Fresh(<<>>)
    /\ pc' = "boot" /\ boot' = Servers
    /\ got' = "none"
    /\ UNCHANGED <<srv, optional>>
-----------------------------------------------------------------------------
(***************************************************************************)
(* tnt_conn_close, tnt_conn_fail and the socket helpers                    *)
(***************************************************************************)
Close ==
    /\ connected' = [connected EXCEPT ![srv] = FALSE]
    /\ fd' = [fd EXCEPT ![srv] = FALSE]
    /\ wire' = [wire EXCEPT ![srv] = <<>>]

\* tnt_socket_send_all, tnt_socket_recv_all: all of it, or a failure.  The
\* server's answer, whole or the beginning of it, may come at any time after
\* the request; it is put on the wire here and read, or not, by later steps.
Stale(parts) == [i \in DOMAIN parts |-> [parts[i] EXCEPT !.own = FALSE]]

SendAll ==
    wire' = [wire EXCEPT ![srv] = Stale(@) \o
                <<[part |-> "head", own |-> TRUE], [part |-> "body", own |-> TRUE]>>]

RecvAll == wire' = [wire EXCEPT ![srv] = Tail(@)]

NextStreak(n) == IF n < AllowedTimeouts THEN n + 1 ELSE n

\* e errors and m failures (history) have gone before.
Fail_StaysOpen(e, m) ==
    /\ errors' = [errors EXCEPT ![srv] = e + 1]
    /\ disabled' = [disabled EXCEPT ![srv] = e + 1 >= AllowedTimeouts]
    /\ wait' = [wait EXCEPT ![srv] = IF e + 1 >= AllowedTimeouts THEN DisableTime ELSE @]
    /\ streak' = [streak EXCEPT ![srv] = NextStreak(m)]
    /\ UNCHANGED <<connected, fd, wire>>
Fail(e, m) ==
    /\ Close
    /\ errors' = [errors EXCEPT ![srv] = e + 1]
    /\ disabled' = [disabled EXCEPT ![srv] = e + 1 >= AllowedTimeouts]
    /\ wait' = [wait EXCEPT ![srv] = IF e + 1 >= AllowedTimeouts THEN DisableTime ELSE @]
    /\ streak' = [streak EXCEPT ![srv] = NextStreak(m)]
-----------------------------------------------------------------------------
(***************************************************************************)
(* tnt_conn_connect                                                        *)
(***************************************************************************)
Begin(s) ==
    /\ pc = "idle"
    /\ srv' = s
    /\ got' = "none"
    /\ pc' = IF connected[s] /\ fd[s] THEN "send" ELSE "connect"
    /\ UNCHANGED <<connVars, wire, boot, optional, streak>>

\* tnt_child_init goes through the list of servers, whatever its order.
ChildInit(s) ==
    /\ pc = "boot" /\ s \in boot
    /\ srv' = s
    /\ pc' = "connect"
    /\ UNCHANGED <<connVars, wire, boot, optional, got, streak>>

\* Where the caller of tnt_conn_connect goes on.  tnt_child_init takes the
\* next server, or gives up at the first failure.
Returns(ok) ==
    /\ boot' = IF ok \/ optional THEN boot \ {srv} ELSE {}
    /\ pc' = CASE boot = {} -> IF ok THEN "send" ELSE "idle"
               [] boot # {} /\ ~ok /\ ~optional -> "off"
               [] boot # {} /\ (ok \/ optional) ->
                      IF boot \ {srv} = {} THEN "idle" ELSE "boot"
    /\ UNCHANGED <<srv, optional, got>>

InCooldown(s) == disabled[s] /\ wait[s] > 0

\* What the counters are once the cooldown has been looked at.
ErrorsBefore_Kept(s) == errors[s]
ErrorsBefore(s) == IF disabled[s] THEN 0 ELSE errors[s]
StreakBefore(s) == IF disabled[s] THEN 0 ELSE streak[s]

ConnectBarred ==
    /\ pc = "connect" /\ InCooldown(srv)
    /\ Close
    /\ Returns(FALSE)
    /\ UNCHANGED <<disabled, errors, wait, streak>>

\* socket() fails or the address is bad: closed, and not counted.
ConnectImpossible ==
    /\ pc = "connect" /\ ~InCooldown(srv)
    /\ Close
    /\ disabled' = [disabled EXCEPT ![srv] = FALSE]
    /\ errors' = [errors EXCEPT ![srv] = ErrorsBefore(srv)]
    /\ streak' = [streak EXCEPT ![srv] = StreakBefore(srv)]
    /\ Returns(FALSE)
    /\ UNCHANGED wait

\* connect() fails or times out.
ConnectFails ==
    /\ pc = "connect" /\ ~InCooldown(srv)
    /\ Fail(ErrorsBefore(srv), StreakBefore(srv))
    /\ Returns(FALSE)

\* connect() succeeds; the greeting is awaited.
Connect ==
    /\ pc = "connect" /\ ~InCooldown(srv)
    /\ connected' = [connected EXCEPT ![srv] = FALSE]
    /\ fd' = [fd EXCEPT ![srv] = TRUE]
    /\ wire' = [wire EXCEPT ![srv] = <<>>]
    /\ disabled' = [disabled EXCEPT ![srv] = FALSE]
    /\ errors' = [errors EXCEPT ![srv] = ErrorsBefore(srv)]
    /\ streak' = [streak EXCEPT ![srv] = StreakBefore(srv)]
    /\ pc' = "greeting"
    /\ UNCHANGED <<wait, srv, boot, optional, got>>

Ready_KeepsErrors ==
    /\ connected' = [connected EXCEPT ![srv] = TRUE]
    /\ Returns(TRUE)
    /\ UNCHANGED <<fd, disabled, errors, wait, streak>>
Ready ==
    /\ connected' = [connected EXCEPT ![srv] = TRUE]
    /\ errors' = [errors EXCEPT ![srv] = 0]
    /\ Returns(TRUE)
    /\ UNCHANGED <<fd, disabled, wait, streak>>

\* The whole greeting is read; a login follows where a user is configured.
Greeting ==
    /\ pc = "greeting"
    /\ \/ srv \notin Users /\ Ready
       \/ /\ srv \in Users
          /\ pc' = "auth"
          /\ UNCHANGED <<connVars, srv, boot, optional, got, streak>>
    /\ UNCHANGED wire
-----------------------------------------------------------------------------
(***************************************************************************)
(* tnt_auth_scramble                                                       *)
(***************************************************************************)
AuthSend ==
    /\ pc = "auth"
    /\ SendAll
    /\ pc' = "authhead"
    /\ UNCHANGED <<connVars, srv, boot, optional, got, streak>>

AuthHead ==
    /\ pc = "authhead" /\ wire[srv][1].part = "head"
    /\ RecvAll
    /\ pc' = "authbody"
    /\ UNCHANGED <<connVars, srv, boot, optional, got, streak>>

\* The packet holds the type IPROTO_OK.
AuthOk ==
    /\ pc = "authbody"
    /\ RecvAll
    /\ Ready

\* No greeting or only a part of it; a salt that is none; an error, a
\* timeout or an end of file in the login; a reply that is malformed, too
\* long, without memory for it, or a refusal.
HandshakeFails ==
    /\ pc \in {"greeting", "auth", "authhead", "authbody"}
    /\ Fail(errors[srv], streak[srv])
    /\ Returns(FALSE)
-----------------------------------------------------------------------------
(***************************************************************************)
(* tnt_exec_call, tnt_exec_eval                                            *)
(***************************************************************************)
Send ==
    /\ pc = "send"
    /\ SendAll
    /\ pc' = "recv"
    /\ UNCHANGED <<connVars, srv, boot, optional, got, streak>>

\* An error, a timeout or an end of file on the way, a length that is none
\* or too large.
IoFails_Retries ==
    /\ pc \in {"send", "recv", "body"}
    /\ Fail(errors[srv], streak[srv])
    /\ pc' = "connect"
    /\ UNCHANGED <<srv, boot, optional, got>>
IoFails ==
    /\ pc \in {"send", "recv", "body"}
    /\ Fail(errors[srv], streak[srv])
    /\ pc' = "idle"
    /\ UNCHANGED <<srv, boot, optional, got>>

\* A well-formed length.
RecvHead ==
    /\ pc = "recv" /\ wire[srv][1].part = "head"
    /\ RecvAll
    /\ pc' = "body"
    /\ UNCHANGED <<connVars, srv, boot, optional, got, streak>>

\* No memory for the packet: it stays unread and the connection open.
NoMemory ==
    /\ pc = "body"
    /\ pc' = "idle"
    /\ UNCHANGED <<connVars, wire, srv, boot, optional, got, streak>>

\* The packet.  No sync id is compared.  An error code ends the call
\* without a success; both leave the connection open.
RecvBody ==
    /\ pc = "body"
    /\ got' = IF wire[srv][1].own THEN "own" ELSE "stale"
    /\ RecvAll
    /\ \/ errors' = [errors EXCEPT ![srv] = 0]
       \/ UNCHANGED errors
    /\ streak' = [streak EXCEPT ![srv] = 0]
    /\ pc' = "idle"
    /\ UNCHANGED <<connected, fd, disabled, wait, srv, boot, optional>>

Tick ==
    /\ \E s \in Servers : wait[s] > 0
    /\ wait' = [s \in Servers |-> IF wait[s] > 0 THEN wait[s] - 1 ELSE 0]
    /\ UNCHANGED <<connected, fd, disabled, errors, wire, pc, srv, boot, optional,
                   got, streak>>

Worker ==
    \/ \E s \in Servers : ChildInit(s)
    \/ ConnectBarred \/ ConnectImpossible \/ ConnectFails \/ Connect
    \/ Greeting \/ AuthSend \/ AuthHead \/ AuthOk \/ HandshakeFails
    \/ Send \/ IoFails \/ RecvHead \/ NoMemory \/ RecvBody

Next == (\E s \in Servers : Begin(s)) \/ Worker \/ Tick \/ Restart

Spec == Init /\ [][Next]_vars
-----------------------------------------------------------------------------
(***************************************************************************)
(* Properties                                                              *)
(***************************************************************************)

\* Flags, counters and the wire have their types; no count passes the limit.
TypeOK ==
    /\ connected \in [Servers -> BOOLEAN] /\ fd \in [Servers -> BOOLEAN]
    /\ disabled \in [Servers -> BOOLEAN]
    /\ errors \in [Servers -> 0..AllowedTimeouts]
    /\ streak \in [Servers -> 0..AllowedTimeouts]
    /\ wait \in [Servers -> 0..DisableTime]
    /\ wire \in [Servers -> Seq(Parts)]
    /\ pc \in {"off", "boot", "idle", "connect", "greeting", "auth", "authhead", "authbody",
              "send", "recv", "body"}
    /\ srv \in Servers /\ boot \subseteq Servers /\ optional \in BOOLEAN
    /\ got \in {"none", "own", "stale"}

\* tnt_exec_call compares no sync id; still a reply that comes after its
\* timeout is never returned for a later call, nor one left unread.
RepliesMatch == got # "stale"

\* tnt_conn_fail: a server is put into cooldown only after allowed_timeouts
\* failures in a row, and has no connection then.
CooldownJustified ==
    \A s \in Servers :
        /\ errors[s] <= streak[s]
        /\ disabled[s] => streak[s] >= AllowedTimeouts /\ ~fd[s] /\ ~connected[s]
=============================================================================
