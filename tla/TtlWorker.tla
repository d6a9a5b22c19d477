------------------------------ MODULE TtlWorker ------------------------------
(***************************************************************************)
(* The TTL cleaner of tarantool_backend/app/ttl_worker.lua and the session *)
(* spaces it drains, with the procedures of rtpe_service.lua that write    *)
(* them (rtpe_call_upsert, rtpe_call_delete) and the failover read         *)
(* (rtpe_call_restore).                                                    *)
(*                                                                         *)
(* The cleaner is a fiber: each of its actions is what it does between two *)
(* yields.  It yields after every delete (the WAL write), between batches  *)
(* and in its sleep; not between collecting a batch and the first delete   *)
(* of it, nor while it looks at a space without expired tuples.  Its       *)
(* statistics counters are left out.                                       *)
(***************************************************************************)
EXTENDS Integers, Sequences, FiniteSets, FiniteSetsExt, Spaces

CONSTANTS
    SpaceOrder,   \* the space names, in the order a sweep drains them
    Keys,         \* primary keys: Call-IDs, contacts
    Nodes,        \* media nodes
    Cleaners,     \* fibers that start() may create
    BatchSize,    \* keys collected at a time (500)
    Ttls,         \* ttl_sec arguments; 0 stands for a missing or bad one
    DefaultTtl,   \* 3600
    MaxTime,      \* bound: the clock stops here
    MaxErrors,    \* bound: failed deletes and restarts
    AllowStop,    \* stop() and start() are called at run time
    LateWrites    \* a session may be written again once it has expired

ASSUME TtlAssumption ==
    /\ BatchSize \in Nat \ {0}
    /\ Ttls \subseteq Nat
    /\ DefaultTtl \in Nat \ {0}
    /\ MaxTime \in Nat /\ MaxErrors \in Nat
    /\ {AllowStop, LateWrites} \subseteq BOOLEAN
    /\ SpaceOrder \in Seq(STRING) /\ SpaceOrder # <<>>

VARIABLES
    rows,        \* the spaces: name -> Keys -> [node, created_at, expires_at]
    now,         \* fiber.time(), in seconds
    is_running,  \* the module's flag
    cleaners,    \* the live cleaner fibers and their locals
    errors,      \* failed deletes and restarts so far
    promised     \* history: name -> Keys -> deadline the writer was told

vars == <<rows, now, is_running, cleaners, errors, promised>>

SpaceNames == {SpaceOrder[i] : i \in DOMAIN SpaceOrder}
Rows == [node : Nodes, created_at : Nat, expires_at : Nat]
Locals == [pc : {"deleting", "failed", "sleeping"}, at : DOMAIN SpaceOrder, sweep : Nat,
           keys : Seq(Keys)]
Sleeping == [pc |-> "sleeping", at |-> 1, sweep |-> 0, keys |-> <<>>]
-----------------------------------------------------------------------------
(***************************************************************************)
(* Sessions                                                                *)
(***************************************************************************)
Ttl(ttl_sec) == IF ttl_sec > 0 THEN ttl_sec ELSE DefaultTtl

\* A refresh keeps the creation time of the tuple it replaces.
CreatedAt_OfTuple(sp, k) ==
    IF k \in DOMAIN rows[sp] THEN rows[sp][k].created_at ELSE -1
CreatedAt(sp, k) == IF k \in DOMAIN rows[sp] THEN rows[sp][k].created_at ELSE now

\* The writer's side: Call-IDs are not used again and a session is refreshed
\* before its deadline, unless LateWrites.
MayWrite(sp, k) ==
    LateWrites \/ (k \in DOMAIN promised[sp] => promised[sp][k] > now)

\* call_upsert(call_id, node_id, payload, ttl_sec); the answer carries the
\* new deadline.
call_upsert(sp, k, n, ttl_sec) ==
    LET expires_at == now + Ttl(ttl_sec)
    IN  /\ MayWrite(sp, k)
        /\ expires_at <= MaxTime
        /\ rows' = [rows EXCEPT ![sp] = Put(@, k,
                [node |-> n, created_at |-> CreatedAt(sp, k), expires_at |-> expires_at])]
        /\ promised' = [promised EXCEPT ![sp] = Put(@, k, expires_at)]
        /\ UNCHANGED <<now, is_running, cleaners, errors>>

\* call_delete(call_id).  The history keeps the key as spent.
call_delete(sp, k) ==
    /\ k \in DOMAIN rows[sp]
    /\ rows' = [rows EXCEPT ![sp] = Drop(@, k)]
    /\ promised' = [promised EXCEPT ![sp] = Put(@, k, now)]
    /\ UNCHANGED <<now, is_running, cleaners, errors>>

\* The Call-IDs call_restore(node_id) returns.
call_restore(sp, n) ==
    {k \in DOMAIN rows[sp] : rows[sp][k].node = n /\ rows[sp][k].expires_at > now}
-----------------------------------------------------------------------------
(***************************************************************************)
(* The cleaner                                                             *)
(***************************************************************************)

\* index.by_expire:pairs(now, {iterator = 'LE'})
Expired_Strict(expires_at, t) == expires_at < t
Expired_Late(expires_at, t) == expires_at <= t + 1
Expired(expires_at, t) == expires_at <= t

ExpiredKeys(sp, t) ==
    {k \in DOMAIN rows[sp] : Expired(rows[sp][k].expires_at, t)}

\* The batches the loop of drain_space may collect: expired keys, latest
\* deadline first, at most BatchSize of them.
Batches(sp, t) ==
    LET E == ExpiredKeys(sp, t)
        n == Min({BatchSize, Cardinality(E)})
    IN  {q \in [1..n -> E] :
            \A i \in 1..n :
                /\ \A j \in 1..i - 1 : q[j] # q[i]
                /\ \A k \in E \ {q[j] : j \in 1..i - 1} :
                      rows[sp][q[i]].expires_at >= rows[sp][k].expires_at}

\* The spaces a sweep started at t still has work in, from the i-th on.
Pending(i, t) == {j \in DOMAIN SpaceOrder : j >= i /\ ExpiredKeys(SpaceOrder[j], t) # {}}

\* The locals of a fiber whose delete in the i-th space has raised an error:
\* the keys it had collected are gone with drain_space.
Failed(i, t) == [pc |-> "failed", at |-> i, sweep |-> t, keys |-> <<>>]

\* Fiber c goes on with the i-th space of a sweep started at t: it collects
\* a batch in the first space that has one and deletes the first key, which
\* may fail, or comes to the end of the sweep and sleeps.
Drain(c, i, t, running) ==
    \/ /\ running
       /\ Pending(i, t) # {}
       /\ LET at == Min(Pending(i, t))
              sp == SpaceOrder[at]
          IN  \E q \in Batches(sp, t) :
                /\ rows' = [rows EXCEPT ![sp] = Drop(@, q[1])]
                /\ cleaners' = Put(cleaners, c,
                      [pc |-> "deleting", at |-> at, sweep |-> t, keys |-> Tail(q)])
       /\ UNCHANGED errors
    \/ /\ running
       /\ Pending(i, t) # {}
       /\ errors < MaxErrors
       /\ errors' = errors + 1
       /\ cleaners' = Put(cleaners, c, Failed(Min(Pending(i, t)), t))
       /\ UNCHANGED rows
    \/ /\ ~running \/ Pending(i, t) = {}
       /\ cleaners' = Put(cleaners, c, Sleeping)
       /\ UNCHANGED <<rows, errors>>

\* The next key of the batch.  Neither the flag nor the key's deadline is
\* looked at.
DeleteNext(c) ==
    /\ cleaners[c].pc = "deleting" /\ cleaners[c].keys # <<>>
    /\ rows' = [rows EXCEPT ![SpaceOrder[cleaners[c].at]] =
                    Drop(@, Head(cleaners[c].keys))]
    /\ cleaners' = [cleaners EXCEPT ![c].keys = Tail(@)]
    /\ UNCHANGED <<now, is_running, errors, promised>>

NextBatch(c) ==
    /\ cleaners[c].pc = "deleting" /\ cleaners[c].keys = <<>>
    /\ Drain(c, cleaners[c].at, cleaners[c].sweep, is_running)
    /\ UNCHANGED <<now, is_running, promised>>

\* The delete of a later key raises an error, which ends drain_space ...
DeleteFails(c) ==
    /\ errors < MaxErrors
    /\ cleaners[c].pc = "deleting" /\ cleaners[c].keys # <<>>
    /\ errors' = errors + 1
    /\ cleaners' = Put(cleaners, c, Failed(cleaners[c].at, cleaners[c].sweep))
    /\ UNCHANGED <<rows, now, is_running, promised>>

\* ... pcall catches it, and the sweep goes on with the next space.
NextSpace(c) ==
    /\ cleaners[c].pc = "failed"
    /\ Drain(c, cleaners[c].at + 1, cleaners[c].sweep, is_running)
    /\ UNCHANGED <<now, is_running, promised>>

\* The sleep is over: another sweep, or the fiber ends.
WakeUp_Ignores(c) ==
    /\ cleaners[c].pc = "sleeping"
    /\ Drain(c, 1, now, TRUE)
    /\ UNCHANGED <<now, is_running, promised>>
WakeUp(c) ==
    /\ cleaners[c].pc = "sleeping"
    /\ \/ is_running /\ Drain(c, 1, now, TRUE)
       \/ ~is_running /\ cleaners' = Drop(cleaners, c) /\ UNCHANGED <<rows, errors>>
    /\ UNCHANGED <<now, is_running, promised>>

CleanerStep(c) ==
    /\ c \in DOMAIN cleaners
    /\ DeleteNext(c) \/ NextBatch(c) \/ NextSpace(c) \/ WakeUp(c)

\* start(): the new fiber runs at once, up to its first yield.
start(c) ==
    /\ AllowStop /\ ~is_running /\ c \notin DOMAIN cleaners
    /\ is_running' = TRUE
    /\ Drain(c, 1, now, TRUE)
    /\ UNCHANGED <<now, promised>>

stop ==
    /\ AllowStop /\ is_running
    /\ is_running' = FALSE
    /\ UNCHANGED <<rows, now, cleaners, errors, promised>>

\* The instance stops and comes back: the spaces survive, and init.lua
\* starts a cleaner (asleep until the instance is up).
Restart(c) ==
    /\ errors < MaxErrors
    /\ errors' = errors + 1
    /\ is_running' = TRUE
    /\ cleaners' = Put(EmptySpace, c, Sleeping)
    /\ UNCHANGED <<rows, now, promised>>

Tick ==
    /\ now < MaxTime
    /\ now' = now + 1
    /\ UNCHANGED <<rows, is_running, cleaners, errors, promised>>
-----------------------------------------------------------------------------
Init ==
    /\ rows = [sp \in SpaceNames |-> EmptySpace]
    /\ now = 0
    /\ is_running = TRUE
    /\ \E c \in Cleaners : cleaners = Put(EmptySpace, c, Sleeping)
    /\ errors = 0
    /\ promised = [sp \in SpaceNames |-> EmptySpace]

Next ==
    \/ \E sp \in SpaceNames, k \in Keys, n \in Nodes, ttl_sec \in Ttls :
          call_upsert(sp, k, n, ttl_sec)
    \/ \E sp \in SpaceNames, k \in Keys : call_delete(sp, k)
    \/ \E c \in Cleaners : CleanerStep(c)
    \/ \E c \in DOMAIN cleaners : DeleteFails(c)
    \/ \E c \in Cleaners : start(c)
    \/ stop
    \/ \E c \in Cleaners : Restart(c)
    \/ Tick

\* The scheduler runs every ready fiber and the clock goes on.
Fairness == WF_vars(Tick) /\ \A c \in Cleaners : WF_vars(CleanerStep(c))

Safety == Init /\ [][Next]_vars
Spec == Safety /\ Fairness
-----------------------------------------------------------------------------
(***************************************************************************)
(* Properties                                                              *)
(***************************************************************************)

\* Spaces, flag and the locals of the fibers have their types; a fiber in a
\* batch is at a space that exists.
TypeOK ==
    /\ DOMAIN rows = SpaceNames /\ DOMAIN promised = SpaceNames
    /\ \A sp \in SpaceNames : /\ IsSpace(rows[sp], Keys, Rows)
                              /\ IsSpace(promised[sp], Keys, Nat)
    /\ now \in Nat /\ errors \in Nat
    /\ is_running \in BOOLEAN
    /\ IsSpace(cleaners, Cleaners, Locals)

\* A session whose writer was told a deadline that has not come, and who has
\* not deleted it, is still there for call_restore: the cleaner (drain_space)
\* removes no live session, whatever it interleaves with.
NothingLost ==
    \A sp \in SpaceNames : \A k \in DOMAIN promised[sp] :
        promised[sp][k] > now => \E n \in Nodes : k \in call_restore(sp, n)

\* drain_space works in every space of a sweep: unless the cleaner is
\* stopped, an expired tuple is purged or refreshed, also after failed
\* deletes, restarts, and a stop() with its start().
ExpiredPurged ==
    <>[]is_running =>
        \A sp \in SpaceNames, k \in Keys :
            []<>(k \in DOMAIN rows[sp] => rows[sp][k].expires_at > now)

\* stop() lets every cleaner fiber end, wherever the flag reaches it.
StopEndsCleaners == <>[](~is_running) => []<>(DOMAIN cleaners = {})
=============================================================================
