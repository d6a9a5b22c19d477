----------------------------- MODULE CacheDbPool -----------------------------
(***************************************************************************)
(* The connection pool of the OpenSIPS driver                              *)
(* (opensips_tarantool/cachedb_tarantool/cachedb_tarantool_dbase.c): round *)
(* robin, lazy reconnection and a circuit breaker per connection.          *)
(*                                                                         *)
(* A worker process has its own pool (child_init) and one thread, which    *)
(* runs setup_pool and then one operation after another: tarantool_get,    *)
(* _set, _remove, _raw_query, call_proc and eval_expr all make one request *)
(* on one connection and treat its outcome alike.  Every wait is a place   *)
(* of its own (pc) where the server may change its condition:              *)
(*   "up"       accepts and answers,                                       *)
(*   "down"     refuses connections and closes the ones it had,            *)
(*   "broken"   accepts, then closes or sends garbage; or its name does    *)
(*              not resolve,                                               *)
(*   "stalled"  accepts and stays silent.                                  *)
(* The clock is the time left of each connection's disable_time.           *)
(***************************************************************************)
EXTENDS Integers, FiniteSets

CONSTANTS
    PoolSize,
    AllowedErrors,   \* allowed_errors
    DisableTime,     \* disable_time, in seconds
    LazyConnect,     \* lazy_connect
    User,            \* the URL names a user and a password
    FallbackSpace,   \* 512, whatever space the URL names
    MaxResets        \* bound: connections the network cuts while the server is up

ASSUME CacheDbAssumption ==
    /\ {PoolSize, AllowedErrors, FallbackSpace} \subseteq Nat \ {0}
    /\ DisableTime \in Nat /\ MaxResets \in Nat
    /\ {LazyConnect, User} \subseteq BOOLEAN

VARIABLES
    conns,         \* slot -> [fd, peer, state, errors, wait]
    current_idx,   \* the slot the next operation takes
    space_id,      \* 0 until resolved
    pc,            \* where the worker is
    slot,          \* the slot it works on
    setup,         \* it is inside setup_pool
    server,        \* the server's condition
    resets,        \* connections cut so far
    streak,        \* history: failures in a row of each slot, up to AllowedErrors
    missed         \* history: operations in a row without an answer, for each
                   \* slot that was usable all the while

vars == <<conns, current_idx, space_id, pc, slot, setup, server, resets, streak,
          missed>>

Slots == 0..PoolSize - 1
States == {"DISCONNECTED", "AUTHENTICATED", "ERROR", "DISABLED"}
Conns == [fd : BOOLEAN, peer : BOOLEAN, state : States, errors : Nat,
          wait : 0..DisableTime]

Init ==
    /\ conns = [i \in Slots |-> [fd |-> FALSE, peer |-> FALSE,
                   state |-> "DISCONNECTED", errors |-> 0, wait |-> 0]]
    /\ current_idx = 0
    /\ space_id = 0
    /\ setup = ~LazyConnect
    /\ pc = IF LazyConnect THEN "idle" ELSE "connect"
    /\ slot = 0
    /\ server \in {"up", "down"}
    /\ resets = 0
    /\ streak = [i \in Slots |-> 0]
    /\ missed = [i \in Slots |-> 0]
-----------------------------------------------------------------------------
(***************************************************************************)
(* Outcomes                                                                *)
(***************************************************************************)
Set(c) == conns' = [conns EXCEPT ![slot] = c]
Conn == conns[slot]

Usable(c) == c.fd /\ c.state = "AUTHENTICATED"

Closed(c, state) == [c EXCEPT !.fd = FALSE, !.peer = FALSE, !.state = state]

\* A failure that is counted: conn_error, and connect() in connect_single.
Counted(c) ==
    IF c.errors + 1 >= AllowedErrors
    THEN [Closed(c, "DISABLED") EXCEPT !.errors = @ + 1, !.wait = DisableTime]
    ELSE [Closed(c, "ERROR") EXCEPT !.errors = @ + 1]

\* A connection that is ready for requests.
Ready_KeepsErrors(c) == [c EXCEPT !.state = "AUTHENTICATED"]
Ready(c) == [c EXCEPT !.state = "AUTHENTICATED", !.errors = 0]

\* The history starts afresh when a disabled slot is tried again.
Streak(n) == streak' = [streak EXCEPT ![slot] = n]
PastFailures == IF Conn.state = "DISABLED" THEN 0 ELSE streak[slot]
FailedAgain ==
    Streak(IF PastFailures < AllowedErrors THEN PastFailures + 1 ELSE PastFailures)

\* The operation is over; setup_pool goes on with its next connection.
EndOperation ==
    IF setup /\ slot + 1 \in Slots
    THEN pc' = "connect" /\ slot' = slot + 1 /\ setup' = setup
    ELSE pc' = "idle" /\ slot' = slot /\ setup' = FALSE

\* The operation ends without an answer; conns' is known.
GiveUp ==
    /\ EndOperation
    /\ missed' = [i \in Slots |->
          IF setup \/ ~Usable(conns'[i]) THEN 0 ELSE missed[i] + 1]

\* connect_single succeeded: get_conn drains the socket and the request is
\* sent, or setup_pool goes on.
Connected ==
    IF setup THEN EndOperation
             ELSE pc' = "send" /\ UNCHANGED <<slot, setup>>
-----------------------------------------------------------------------------
(***************************************************************************)
(* get_conn and connect_single                                             *)
(***************************************************************************)
\* The counter of the round robin wraps at the size of the pool.
NextIdx == IF current_idx + 1 >= PoolSize THEN 0 ELSE current_idx + 1

\* get_conn: the next slot in turn, ready or not.
TakeSlot_KeepsBad ==
    /\ pc = "idle"
    /\ slot' = current_idx
    /\ current_idx' = IF Usable(conns[current_idx]) THEN NextIdx ELSE current_idx
    /\ pc' = IF Usable(conns[current_idx]) THEN "send" ELSE "connect"
    /\ UNCHANGED <<conns, space_id, setup, server, resets, streak, missed>>
TakeSlot ==
    /\ pc = "idle"
    /\ slot' = current_idx
    /\ current_idx' = NextIdx
    /\ pc' = IF Usable(conns[current_idx]) THEN "send" ELSE "connect"
    /\ UNCHANGED <<conns, space_id, setup, server, resets, streak, missed>>

\* The gate of connect_single: a disabled slot is not tried before its time.
Barred_Forever(c) == c.state = "DISABLED"
Barred(c) == c.state = "DISABLED" /\ c.wait > 0

\* What is left of the slot when it is tried.
Reopened_SameCount(c) ==
    IF c.state = "DISABLED" THEN Closed(c, "DISCONNECTED") ELSE c
Reopened(c) ==
    IF c.state = "DISABLED" THEN [Closed(c, "DISCONNECTED") EXCEPT !.errors = 0]
                            ELSE c

ConnectBarred ==
    /\ pc = "connect" /\ Barred(Conn)
    /\ UNCHANGED <<conns, current_idx, space_id, server, resets, streak>>
    /\ GiveUp

\* connect() fails.
ConnectRefused ==
    /\ pc = "connect" /\ ~Barred(Conn) /\ server = "down"
    /\ Set(Counted(Reopened(Conn)))
    /\ FailedAgain
    /\ GiveUp
    /\ UNCHANGED <<current_idx, space_id, server, resets>>

\* socket() or getaddrinfo() fails: not counted.
ConnectImpossible ==
    /\ pc = "connect" /\ ~Barred(Conn) /\ server = "broken"
    /\ Set(Closed(Reopened(Conn), "ERROR"))
    /\ Streak(PastFailures)
    /\ GiveUp
    /\ UNCHANGED <<current_idx, space_id, server, resets>>

Connect ==
    /\ pc = "connect" /\ ~Barred(Conn) /\ server # "down"
    /\ Set([Reopened(Conn) EXCEPT !.fd = TRUE, !.peer = TRUE])
    /\ Streak(PastFailures)
    /\ pc' = "greeting"
    /\ UNCHANGED <<current_idx, space_id, slot, setup, server, resets, missed>>

\* The end of connect_single.
Authenticated ==
    /\ Set(Ready(Conn))
    /\ IF space_id = 0 THEN pc' = "resolve" /\ UNCHANGED <<slot, setup>>
                       ELSE Connected

\* The greeting, with the salt of the login; auth_scramble sends its request.
\* Without a user nothing looks at it: any 128 bytes pass.
Greeted ==
    /\ pc = "greeting" /\ Conn.peer
    /\ server = "up" \/ (server = "broken" /\ ~User)
    /\ IF User THEN pc' = "auth" /\ UNCHANGED <<conns, slot, setup>>
               ELSE Authenticated
    /\ UNCHANGED <<current_idx, space_id, server, resets, streak, missed>>

\* Any reply logs in: auth_scramble compares the first key of the header
\* with 0, which it is, and never its value, the code of a refusal.
LoggedIn ==
    /\ pc = "auth" /\ Conn.peer /\ server = "up"
    /\ Authenticated
    /\ UNCHANGED <<current_idx, space_id, server, resets, streak, missed>>

\* End of file, or (with a user) no salt, or no packet: closed, not counted.
NotGreeted_Leaks ==
    /\ pc \in {"greeting", "auth"} /\ (~Conn.peer \/ server = "broken")
    /\ Set([Conn EXCEPT !.state = "ERROR"])
    /\ FailedAgain
    /\ GiveUp
    /\ UNCHANGED <<current_idx, space_id, server, resets>>
NotGreeted ==
    /\ pc \in {"greeting", "auth"} /\ (~Conn.peer \/ server = "broken")
    /\ Set(Closed(Conn, "ERROR"))
    /\ FailedAgain
    /\ GiveUp
    /\ UNCHANGED <<current_idx, space_id, server, resets>>

\* resolve_space_id looks for the answer in the packet's header map, where
\* it never is, and falls back.  Its result is not looked at.
Resolved ==
    /\ pc = "resolve" /\ Conn.peer /\ server = "up"
    /\ space_id' = FallbackSpace
    /\ Connected
    /\ UNCHANGED <<conns, current_idx, server, resets, streak, missed>>

NotResolved ==
    /\ pc = "resolve" /\ (~Conn.peer \/ server = "broken")
    /\ Connected
    /\ UNCHANGED <<conns, current_idx, space_id, server, resets, streak, missed>>
-----------------------------------------------------------------------------
(***************************************************************************)
(* The request                                                             *)
(***************************************************************************)

\* Writing to a connection that the peer has closed may still succeed.
Send ==
    /\ pc = "send"
    /\ pc' = "recv"
    /\ UNCHANGED <<conns, current_idx, space_id, slot, setup, server, resets,
                   streak, missed>>

\* send(), read_frame or the sync check fails: conn_error.
RequestFails ==
    /\ pc \in {"send", "recv"} /\ (~Conn.peer \/ (pc = "recv" /\ server = "broken"))
    /\ Set(Counted(Conn))
    /\ FailedAgain
    /\ GiveUp
    /\ UNCHANGED <<current_idx, space_id, server, resets>>

\* A reply, of success or with an error code; both leave the connection as
\* it is.  tnt_recv_all starts again after a timeout, so there is no other
\* way out of "recv".
Reply ==
    /\ pc = "recv" /\ Conn.peer /\ server = "up"
    /\ Streak(0)
    /\ missed' = [i \in Slots |-> 0]
    /\ EndOperation
    /\ UNCHANGED <<conns, current_idx, space_id, server, resets>>

\* destroy, when the worker exits: teardown closes what is open.
tarantool_destroy ==
    /\ pc = "idle"
    /\ conns' = [i \in Slots |-> Closed(conns[i], "DISCONNECTED")]
    /\ pc' = "gone"
    /\ UNCHANGED <<current_idx, space_id, slot, setup, server, resets, streak,
                   missed>>

Worker ==
    \/ TakeSlot \/ ConnectBarred \/ ConnectRefused \/ ConnectImpossible
    \/ Connect \/ Greeted \/ LoggedIn \/ NotGreeted \/ Resolved \/ NotResolved
    \/ Send \/ RequestFails \/ Reply
-----------------------------------------------------------------------------
(***************************************************************************)
(* The server, the network and the clock                                   *)
(***************************************************************************)
ServerTurns(s) ==
    /\ server' = s
    /\ conns' = IF s = "down" THEN [i \in Slots |-> [conns[i] EXCEPT !.peer = FALSE]]
                              ELSE conns
    /\ UNCHANGED <<current_idx, space_id, pc, slot, setup, resets, streak, missed>>

NetworkCuts(i) ==
    /\ resets < MaxResets
    /\ conns[i].peer
    /\ conns' = [conns EXCEPT ![i].peer = FALSE]
    /\ resets' = resets + 1
    /\ UNCHANGED <<current_idx, space_id, pc, slot, setup, server, streak, missed>>

Tick ==
    /\ \E i \in Slots : conns[i].wait > 0
    /\ conns' = [i \in Slots |->
          [conns[i] EXCEPT !.wait = IF @ > 0 THEN @ - 1 ELSE 0]]
    /\ UNCHANGED <<current_idx, space_id, pc, slot, setup, server, resets, streak,
                   missed>>

Next ==
    \/ Worker
    \/ tarantool_destroy
    \/ \E s \in {"up", "down", "broken", "stalled"} : ServerTurns(s)
    \/ \E i \in Slots : NetworkCuts(i)
    \/ Tick

\* The worker keeps being asked, what can go on does, and time passes.
Safety == Init /\ [][Next]_vars
Spec == Safety /\ WF_vars(Worker) /\ WF_vars(Tick)
-----------------------------------------------------------------------------
(***************************************************************************)
(* Properties                                                              *)
(***************************************************************************)

\* Slots, counters and the worker have their types; no error count passes
\* the limit.
TypeOK ==
    /\ conns \in [Slots -> Conns]
    /\ \A i \in Slots : conns[i].errors <= AllowedErrors
    /\ current_idx \in Slots /\ slot \in Slots
    /\ space_id \in Nat
    /\ pc \in {"idle", "connect", "greeting", "auth", "resolve", "send", "recv",
             "gone"}
    /\ setup \in BOOLEAN
    /\ server \in {"up", "down", "broken", "stalled"}
    /\ resets \in Nat
    /\ streak \in [Slots -> 0..AllowedErrors]
    /\ missed \in [Slots -> Nat]

\* conn_error and connect_single disable a slot only after allowed_errors
\* failures in a row, with no reply in between, across reconnections and
\* earlier disabled periods.
BreakerJustified ==
    \A i \in Slots :
        /\ conns[i].errors <= streak[i]
        /\ conns[i].state = "DISABLED" => streak[i] >= AllowedErrors

\* Between operations an open descriptor belongs to a connection that will
\* be used, and to no other: no error path of connect_single or conn_error
\* leaks one.
NoHalfOpen ==
    \A i \in Slots :
        (pc \in {"idle", "gone"} \/ i # slot) =>
            (conns[i].fd <=> conns[i].state = "AUTHENTICATED")

\* get_conn makes one attempt, on the slot whose turn it is: an operation
\* fails on a bad slot although another one is usable.  The round robin
\* goes on after a failure too, so a usable slot is reached after at most
\* PoolSize - 1 failed operations, however the others fail.
UsableReached == \A i \in Slots : missed[i] < PoolSize

\* An outage is not for ever: once the server is up for good, operations of
\* a worker that does not exit are answered on every slot again and again,
\* the disabled ones included.
Recovers ==
    <>[](server = "up" /\ pc # "gone") =>
        \A i \in Slots : []<>(pc = "recv" /\ slot = i)

\* query_timeout: a request is answered or given up.
RequestEnds == pc = "recv" ~> pc # "recv"
=============================================================================
