---------------------------- MODULE AsteriskPool ----------------------------
(***************************************************************************)
(* The connection pool of the Asterisk resource module                     *)
(* (asterisk_tarantool/res/res_tarantool.c) and the threads that use it:   *)
(* dialplan functions and realtime writes ("plain"), the CDR backend       *)
(* ("cdr", which holds cdr_lock around its call), realtime reads           *)
(* ("realtime", which hold one connection while they call) and callers     *)
(* that name an unconfigured profile ("missing").                          *)
(*                                                                         *)
(* There is one profile.  Asterisk's mutexes are recursive.  A connection  *)
(* is the sequence of reply parts that are still to be read from it: each  *)
(* reply is a length ("head") and a packet ("body"); a part is own when it *)
(* answers the last request that was sent.  The network may fail, or be    *)
(* slower than the timeout, at any moment.                                 *)
(***************************************************************************)
EXTENDS Integers, Sequences, FiniteSets, SequencesExt

CONSTANTS
    Threads,
    Program,     \* what each thread runs
    PoolSize,
    Requests,    \* bound: requests a thread makes before it is done
    None

ASSUME PoolAssumption ==
    /\ PoolSize \in Nat \ {0}
    /\ Requests \in Nat \ {0}
    /\ Program \in [Threads -> {"plain", "cdr", "realtime", "missing"}]
    /\ None \notin Threads

VARIABLES
    profiles_lock,   \* owner of the list's lock
    prof_lock,       \* owner of the profile's lock
    cdr_lock,        \* owner of cdr_tarantool's lock
    sock_lock,       \* socket -> [owner, depth]
    connected,       \* socket -> the flag of that name
    wire,            \* socket -> parts still to be read
    pc, probe,       \* thread -> where it is, and its loop variable
    held,            \* thread -> sockets acquired, innermost first
    left,            \* thread -> requests still to be made
    got              \* history: thread -> whose reply its last call returned

vars == <<profiles_lock, prof_lock, cdr_lock, sock_lock, connected, wire, pc,
          probe, held, left, got>>
lockVars == <<profiles_lock, prof_lock, cdr_lock, sock_lock>>

Sockets == 1..PoolSize
Owners == Threads \cup {None}
Parts == [part : {"head", "body"}, own : BOOLEAN]
PCs == {"idle", "cdr_lock", "profiles_lock", "prof_lock", "probe", "connect",
        "fallback", "fallback_connect", "args", "send", "recv", "release",
        "return", "done"}

Init ==
    /\ profiles_lock = None /\ prof_lock = None /\ cdr_lock = None
    /\ sock_lock = [s \in Sockets |-> [owner |-> None, depth |-> 0]]
    /\ connected = [s \in Sockets |-> FALSE]
    /\ wire = [s \in Sockets |-> <<>>]
    /\ pc = [t \in Threads |-> "idle"]
    /\ probe = [t \in Threads |-> 1]
    /\ held = [t \in Threads |-> <<>>]
    /\ left = [t \in Threads |-> Requests]
    /\ got = [t \in Threads |-> "none"]
-----------------------------------------------------------------------------
(***************************************************************************)
(* Locks and connections                                                   *)
(***************************************************************************)
Goto(t, where) == pc' = [pc EXCEPT ![t] = where]

\* A recursive mutex is free for its owner too.
Free(t, s) == sock_lock[s].owner \in {None, t}
Lock(t, s) == [sock_lock EXCEPT ![s] = [owner |-> t, depth |-> @.depth + 1]]
Unlocked_Twice(l) == [owner |-> None, depth |-> l.depth - 2]
Unlocked(l) == IF l.depth > 1 THEN [l EXCEPT !.depth = @ - 1]
                              ELSE [owner |-> None, depth |-> 0]
Unlock(s) == [sock_lock EXCEPT ![s] = Unlocked(@)]

Open(s) ==
    /\ connected' = [connected EXCEPT ![s] = TRUE]
    /\ wire' = [wire EXCEPT ![s] = <<>>]
Close(s) ==
    /\ connected' = [connected EXCEPT ![s] = FALSE]
    /\ wire' = [wire EXCEPT ![s] = <<>>]

\* acquire_conn returns socket s; the profile's lock is given up.
Acquired(t, s) ==
    /\ prof_lock' = None
    /\ held' = [held EXCEPT ![t] = <<s>> \o @]
    /\ Goto(t, IF Program[t] = "realtime" /\ held[t] = <<>> THEN "args" ELSE "send")
-----------------------------------------------------------------------------
(***************************************************************************)
(* ast_tarantool_acquire_conn                                              *)
(***************************************************************************)
Begin(t) ==
    /\ pc[t] = "idle"
    /\ left' = [left EXCEPT ![t] = @ - 1]
    /\ got' = [got EXCEPT ![t] = "none"]
    /\ Goto(t, IF Program[t] = "cdr" THEN "cdr_lock" ELSE "profiles_lock")
    /\ UNCHANGED <<lockVars, connected, wire, probe, held>>

LockCdr(t) ==
    /\ pc[t] = "cdr_lock" /\ cdr_lock = None
    /\ cdr_lock' = t
    /\ Goto(t, "profiles_lock")
    /\ UNCHANGED <<profiles_lock, prof_lock, sock_lock, connected, wire, probe,
                   held, left, got>>

LockProfiles(t) ==
    /\ pc[t] = "profiles_lock" /\ profiles_lock = None
    /\ \/ /\ Program[t] # "missing"
          /\ profiles_lock' = t
          /\ Goto(t, "prof_lock")
       \/ /\ Program[t] = "missing"      \* find_profile: locked and unlocked
          /\ Goto(t, "return")
          /\ UNCHANGED profiles_lock
    /\ UNCHANGED <<prof_lock, cdr_lock, sock_lock, connected, wire, probe,
                   held, left, got>>

LockProf(t) ==
    /\ pc[t] = "prof_lock" /\ prof_lock = None
    /\ prof_lock' = t
    /\ profiles_lock' = None
    /\ probe' = [probe EXCEPT ![t] = 1]
    /\ Goto(t, "probe")
    /\ UNCHANGED <<cdr_lock, sock_lock, connected, wire, held, left, got>>

\* The loop over the sockets, with trylock.
ProbeFree(t) ==
    LET s == probe[t] IN
    /\ pc[t] = "probe" /\ s \in Sockets /\ Free(t, s)
    /\ sock_lock' = Lock(t, s)
    /\ \/ connected[s] /\ Acquired(t, s)
       \/ ~connected[s] /\ Goto(t, "connect") /\ UNCHANGED <<prof_lock, held>>
    /\ UNCHANGED <<profiles_lock, cdr_lock, connected, wire, probe, left, got>>

ProbeBusy(t) ==
    LET s == probe[t] IN
    /\ pc[t] = "probe" /\ s \in Sockets /\ ~Free(t, s)
    /\ probe' = [probe EXCEPT ![t] = @ + 1]
    /\ UNCHANGED <<lockVars, connected, wire, pc, held, left, got>>

\* tnt_socket_connect: closes what is left of the old connection, then
\* connects and checks the greeting.
ConnectOk(t) ==
    /\ pc[t] = "connect"
    /\ Open(probe[t])
    /\ Acquired(t, probe[t])
    /\ UNCHANGED <<profiles_lock, cdr_lock, sock_lock, probe, left, got>>

ConnectFails(t) ==
    /\ pc[t] = "connect"
    /\ Close(probe[t])
    /\ sock_lock' = Unlock(probe[t])
    /\ probe' = [probe EXCEPT ![t] = @ + 1]
    /\ Goto(t, "probe")
    /\ UNCHANGED <<profiles_lock, prof_lock, cdr_lock, held, left, got>>

ProbedAll(t) ==
    /\ pc[t] = "probe" /\ probe[t] \notin Sockets
    /\ Goto(t, "fallback")
    /\ UNCHANGED <<lockVars, connected, wire, probe, held, left, got>>

\* Waits for the first socket, with the profile's lock held.
Fallback_NoWait(t) ==
    /\ pc[t] = "fallback"
    /\ sock_lock' = Lock(t, 1)
    /\ \/ connected[1] /\ Acquired(t, 1)
       \/ ~connected[1] /\ Goto(t, "fallback_connect") /\ UNCHANGED <<prof_lock, held>>
    /\ UNCHANGED <<profiles_lock, cdr_lock, connected, wire, probe, left, got>>
Fallback(t) ==
    /\ pc[t] = "fallback" /\ Free(t, 1)
    /\ sock_lock' = Lock(t, 1)
    /\ \/ connected[1] /\ Acquired(t, 1)
       \/ ~connected[1] /\ Goto(t, "fallback_connect") /\ UNCHANGED <<prof_lock, held>>
    /\ UNCHANGED <<profiles_lock, cdr_lock, connected, wire, probe, left, got>>

\* The result of this connect is not looked at.
FallbackConnect(t) ==
    /\ pc[t] = "fallback_connect"
    /\ Open(1) \/ Close(1)
    /\ Acquired(t, 1)
    /\ UNCHANGED <<profiles_lock, cdr_lock, sock_lock, probe, left, got>>

Acquire(t) ==
    \/ LockProfiles(t) \/ LockProf(t)
    \/ ProbeFree(t) \/ ProbeBusy(t) \/ ProbedAll(t)
    \/ ConnectOk(t) \/ ConnectFails(t)
    \/ Fallback(t) \/ FallbackConnect(t)
-----------------------------------------------------------------------------
(***************************************************************************)
(* ast_tarantool_exec_raw on the innermost socket                          *)
(***************************************************************************)
Sock(t) == Head(held[t])

Stale(parts) == [i \in DOMAIN parts |-> [parts[i] EXCEPT !.own = FALSE]]
Reply == <<[part |-> "head", own |-> TRUE], [part |-> "body", own |-> TRUE]>>

Send(t) ==
    /\ pc[t] = "send" /\ connected[Sock(t)]
    /\ wire' = [wire EXCEPT ![Sock(t)] = Stale(@) \o Reply]
    /\ Goto(t, "recv")
    /\ UNCHANGED <<lockVars, connected, probe, held, left, got>>

NotConnected(t) ==
    /\ pc[t] = "send" /\ ~connected[Sock(t)]
    /\ Goto(t, "release")
    /\ UNCHANGED <<lockVars, connected, wire, probe, held, left, got>>

\* A short write, a timeout, an end of file or a bad length: the connection
\* is closed and the call fails.
IoFails_StaysOpen(t) ==
    /\ pc[t] \in {"send", "recv"} /\ connected[Sock(t)]
    /\ Goto(t, "release")
    /\ UNCHANGED <<lockVars, connected, wire, probe, held, left, got>>
IoFails(t) ==
    /\ pc[t] \in {"send", "recv"} /\ connected[Sock(t)]
    /\ Close(Sock(t))
    /\ Goto(t, "release")
    /\ UNCHANGED <<lockVars, probe, held, left, got>>

\* A well-formed length, then its packet.  No sync id is compared.
RecvReply(t) ==
    LET w == wire[Sock(t)] IN
    /\ pc[t] = "recv"
    /\ Len(w) >= 2 /\ w[1].part = "head"
    /\ got' = [got EXCEPT ![t] = IF w[2].own THEN "own" ELSE "stale"]
    /\ wire' = [wire EXCEPT ![Sock(t)] = SubSeq(w, 3, Len(w))]
    /\ Goto(t, "release")
    /\ UNCHANGED <<lockVars, connected, probe, held, left>>

\* No memory for a large packet: the call fails, the packet stays unread.
RecvNoMemory(t) ==
    LET w == wire[Sock(t)] IN
    /\ pc[t] = "recv"
    /\ Len(w) >= 2 /\ w[1].part = "head"
    /\ wire' = [wire EXCEPT ![Sock(t)] = Tail(w)]
    /\ Goto(t, "release")
    /\ UNCHANGED <<lockVars, connected, probe, held, left, got>>

Exec(t) ==
    Send(t) \/ NotConnected(t) \/ IoFails(t) \/ RecvReply(t) \/ RecvNoMemory(t)
-----------------------------------------------------------------------------
(***************************************************************************)
(* The callers                                                             *)
(***************************************************************************)

\* realtime_tarantool has a socket: it calls, which acquires another, or
\* gives up because the arguments do not fit its buffer.
RealtimeArgs(t) ==
    /\ pc[t] = "args"
    /\ Goto(t, "profiles_lock") \/ Goto(t, "release")
    /\ UNCHANGED <<lockVars, connected, wire, probe, held, left, got>>

\* release_conn of the innermost socket; realtime_tarantool then releases
\* its own.
Release(t) ==
    /\ pc[t] = "release"
    /\ sock_lock' = Unlock(Sock(t))
    /\ held' = [held EXCEPT ![t] = Tail(@)]
    /\ Goto(t, IF Tail(held[t]) = <<>> THEN "return" ELSE "release")
    /\ UNCHANGED <<profiles_lock, prof_lock, cdr_lock, connected, wire, probe,
                   left, got>>

Return(t) ==
    /\ pc[t] = "return"
    /\ cdr_lock' = IF Program[t] = "cdr" THEN None ELSE cdr_lock
    /\ Goto(t, IF left[t] > 0 THEN "idle" ELSE "done")
    /\ UNCHANGED <<profiles_lock, prof_lock, sock_lock, connected, wire, probe,
                   held, left, got>>

ThreadStep(t) ==
    \/ Begin(t) \/ LockCdr(t) \/ Acquire(t) \/ RealtimeArgs(t)
    \/ Exec(t) \/ Release(t) \/ Return(t)

Next == \E t \in Threads : ThreadStep(t)

\* A thread that can go on does.  With a bounded number of requests nobody
\* can overtake a waiting thread for ever.
Spec == Init /\ [][Next]_vars /\ \A t \in Threads : WF_vars(ThreadStep(t))
-----------------------------------------------------------------------------
(***************************************************************************)
(* Properties                                                              *)
(***************************************************************************)

\* Locks, connections and threads have their types; no mutex is unlocked
\* more often than it was locked.
TypeOK ==
    /\ {profiles_lock, prof_lock, cdr_lock} \subseteq Owners
    /\ sock_lock \in [Sockets -> [owner : Owners, depth : Nat]]
    /\ connected \in [Sockets -> BOOLEAN]
    /\ wire \in [Sockets -> Seq(Parts)]
    /\ pc \in [Threads -> PCs]
    /\ probe \in [Threads -> 1..PoolSize + 1]
    /\ held \in [Threads -> Seq(Sockets)]
    /\ left \in [Threads -> Nat]
    /\ got \in [Threads -> {"none", "own", "stale"}]

\* The sockets a thread reads, writes or (re)connects.
Uses(t) ==
    ToSet(held[t]) \cup (IF pc[t] = "connect" THEN {probe[t]} ELSE {})
                   \cup (IF pc[t] = "fallback_connect" THEN {1} ELSE {})

\* acquire_conn hands a socket to one thread at a time, over the trylock
\* loop, the reconnects and the blocking fallback.
SocketExclusive ==
    \A t, u \in Threads : t # u => Uses(t) \cap Uses(u) = {}

\* exec_raw compares no sync id; yet no call ever returns the reply to an
\* earlier request: a connection with an answer outstanding is closed, and a
\* packet left unread is not taken for a length.
RepliesMatch == \A t \in Threads : got[t] # "stale"

\* Every call returns: threads never wait for each other in a circle.
AllServed == <>(\A t \in Threads : pc[t] = "done")
=============================================================================
