# TLA+ models of the Tarantool VoIP backend

The repository gives four SIP stacks (Asterisk, OpenSIPS, Kamailio, RTPEngine)
a shared in-memory backend on Tarantool. This directory holds TLA+ models of
the backend's stored procedures and of the four C clients, the TLC
configurations that check them on small instances, and proofs, checked by TLAPS,
of their safety properties for all instances.

## 1. Inventory

| Component | Source | State | Operations | What is hard |
|---|---|---|---|---|
| Prepaid billing | `tarantool_backend/app/billing_service.lua` | spaces `subscribers`, `tariffs`, `kam_dialogs`, `cdrs` | `authorize_call`, `finalize_cdr`, `add_subscriber`, `update_balance`, `set_tariff` | every statement commits alone and yields: teardowns, top-ups and the cleaner interleave, and a crash leaves half a teardown |
| TTL cleaner | `app/ttl_worker.lua` | the session spaces, the flag `is_running`, one fiber | `start`, `stop`, `drain_space` | batches are collected before a yield and deleted after it |
| Session procedures | `app/rtpe_service.lua` | space `rtpe_calls` (512), the node table | `call_upsert`, `call_delete`, `call_get`, `call_restore`; `node_heartbeat`, `select_optimal_node` | written by three stacks under one key |
| Asterisk procedures | `app/asterisk_service.lua` | spaces `ps_*`, `asterisk_cdrs` | `ast_realtime_*`, `ast_cdr_save` | the shape of the arguments |
| Schema, start-up | `app/schema.lua`, `init.lua` | the spaces, `wal_mode = 'write'` | `box.cfg`, `schema.init`, `ttl_worker.start` | what survives a restart |
| Asterisk client | `asterisk_tarantool/` | a pool of sockets and mutexes per profile | acquire, release, call, eval; realtime, CDR, dialplan functions | threads, nested acquisition, replies without a checked sync id |
| OpenSIPS module | `opensips_tarantool/cachedb_tarantool/` | a pool per worker with a circuit breaker per connection | get, set, remove, raw query, call, eval | reconnects, breaker, silent servers |
| RTPEngine driver | `rtpengine_tarantool/src/tarantool.c` | one connection, cooldown, sync ids | save, delete (pipelined), restore | replies of earlier writes in front of the one waited for |
| Kamailio module | `kamailio_tarantool/ndb_tarantool/` | one connection per server and worker, cooldown | start of a worker, login, call, eval, `save_call_sg`, `get_call_buf` | late replies, cooldown |
| SIP proxies | `docker/kamailio_entrypoint.c`, `docker/opensips_entrypoint.c` | a table from Call-IDs to callers | INVITE, 180/200, ACK, BYE | open addressing with deletions; one thread that waits for Tarantool |
| MessagePack | `msgpuck.h`, three variants | none | encoders, decoders, `mp_next` | lengths where an encoding changes |

The stacks talk to the backend over IProto. RTPEngine calls
`rtpe_call_upsert`/`_delete`/`_restore`; Kamailio calls procedures by name from
its script, the billing ones among them; OpenSIPS reads and writes space 512
itself; Asterisk calls `ast_realtime_*` and `ast_cdr_save`. The SIP proxies ask
`rtpe_select_node` for a media node on every INVITE, which goes by the heartbeats
of the nodes. The cleaner deletes from the spaces all of them write.

No procedure opens a transaction. A statement commits by itself, its fiber
yields until the WAL write is done, and reads do not yield. That is the grain of
the backend's models: an action is what a fiber does from one yield to the next.

## 2. Modules

| Module | Models | Notes |
|---|---|---|
| `Spaces` | a memtx space as a partial function from keys to tuples | external: only what the procedures rely on |
| `Ledger` | abstract billing: open, close, expire, top up, each in one step | the specification `Billing` implements |
| `Billing` | `billing_service.lua`, and the cleaner where it meets `kam_dialogs` | `finalize_cdr` is four actions |
| `TtlWorker` | `ttl_worker.lua` and the writers of the spaces it drains | |
| `AsteriskPool` | `res_tarantool.c` and its users in `res_config`, `cdr`, `func` | mutexes are recursive, as Asterisk's are |
| `CacheDbPool` | the connections of `cachedb_tarantool_dbase.c` | one worker process, its pool, and the server's condition |
| `RtpeDriver` | `rtpengine_tarantool/src/tarantool.c` | one client, its connection, and the server's end of it |
| `KamailioClient` | `tarantool_client.c` | one worker, its servers |
| `SipProxy` | `docker/kamailio_entrypoint.c` | extends `KamailioClient`: the proxy waits while the client works |
| `SharedState` | what the procedures receive of what the clients pack, on the spaces they share | requests succeed here; the connections are the subject of the others |
| `NodeRegistry` | `node_heartbeat` and `select_optimal_node` | extends `SharedState`: the nodes announce the sessions they keep, die and return |
| `MsgPack` | the encoders and decoders of `msgpuck.h` as the OpenSIPS and RTPEngine modules use them | operators, no state |
| `Frames` | the packets of `tarantool_set`, `tarantool_get`, `resolve_space_id`, `rtpe_tarantool_save_call` and `_restore_calls` | operators; the server's replies are external |
| `SharedWire` | `NodeRegistry` seen through `Frames` | what is on the spaces can be read back |
| `BillingProofs` | theorems about `Billing`: types, limit, deadlines, one charge; the sums of money, and that it implements `Ledger` | |
| `TtlProofs` | theorems about `TtlWorker` | |
| `AsteriskProofs` | theorems about `AsteriskPool` | |
| `CacheDbProofs` | theorems about `CacheDbPool` | |
| `RtpeProofs` | theorems about `RtpeDriver` | |
| `KamailioProofs` | theorems about `KamailioClient` and `SipProxy` | |
| `Iteration` | theorems about a loop of n rounds, for any step | its instances are the loops of `MsgPack` and `Frames` |
| `SharedProofs` | theorems about `SharedState`, `NodeRegistry`, `MsgPack`, `Frames` and `SharedWire` | |
| `MC...` | the instances for TLC | |

### Billing

The state is the four spaces, the Call-IDs with a media session, the clock, the
fibers inside `finalize_cdr` with their locals (`jobs`) and the keys the cleaner
has collected (`batch`). Three variables are history: `credited`, what provisioning
and top-ups gave a subscriber, `waived`, what was billed beyond a balance and never
taken because the balance is cut at zero, and `charges`, the debits made for the
present dialog of a call. A CDR has the `billed_amount` of the code, which is the whole
cost. Money is an integer. `finalize_cdr` reads the dialog and debits
(`FinalizeDebit`), writes the CDR (`WriteCdr`), deletes the dialog
(`DeleteDialog`) and the media session (`DeleteMedia`). `FinalizeNoDebit` is the
path without subscriber. `StatementFails` ends a procedure in the middle, `Crash`
ends all of them and keeps the spaces.

Three constants say what the environment promises. `SerialCalls`: requests about
one Call-ID do not overlap. `SpacedTeardowns`: two teardowns of one Call-ID are a
second apart. `Failures`: the instance may stop and statements may fail. A
property is checked under the promises it needs, and `billing_overlap` shows
what happens without them.

### TtlWorker

A cleaner fiber is asleep or in a batch of a space (`cleaners`). `Drain` goes on to
the next space with expired tuples, collects a batch in the order of the index
and deletes the first key, all before it yields. `DeleteNext` deletes a further
key without a look at its deadline. Any delete may fail, the first of a batch (in `Drain`)
or a later one (`DeleteFails`); that ends the pass over the space, and the sweep goes
on with the next one (`NextSpace`). `promised` is history: the deadline the
writer of a session was told. `LateWrites` allows a session to be written again
after its deadline.

### AsteriskPool

Threads run a "plain" call (dialplan functions, realtime writes), a "cdr" call
(under `cdr_lock`), a "realtime" read (which keeps one socket while it calls) or a
call on a "missing" profile. Each lock taken is a step. A connection is the
sequence of reply parts still to be read, each marked as belonging to the last
request or to an earlier one.

### CacheDbPool, RtpeDriver, KamailioClient

The worker is one thread, so its steps interleave with the server, the network
and the clock, not with each other. Every place where it waits is a value of `pc`;
connecting has one for the greeting and one for the login.

`CacheDbPool` has the server's condition (up, down, broken, stalled), which may change
wherever the worker waits. `RtpeDriver` has the two directions of the connection:
requests written and not executed, reply parts not read, and a reply of which only the
length has arrived; a reply with sessions may be longer than the 1048576 bytes that
`rtpe_tarantool_restore_calls` accepts. Requests of a connection that is gone may be executed later
(`late`, `ExecuteLate`), after those of the next connection; a restore among them changes
nothing. A login that the server
refuses passes for a success in both drivers; `granted` in `RtpeDriver` says whether
the server executes what it is sent. `KamailioClient` lets every exchange fail at any
point, from the start of the worker (`tnt_child_init` over the list of servers) on, and
compares the login's code.

In all three `streak`, `missed`, `told` and the like are history variables: they never
guard an action.

### SipProxy

`g_sessions` is a table of `Slots` entries that is searched for `Probes` steps from
the hash of a Call-ID on, as in the code with its 32768 (`MAX_SESSIONS`) and 1024. `store_session` takes
the first slot that is empty or has the call, `find_session` passes over empty slots,
`delete_session` empties the first match. A datagram without Call-ID has the call `Blank`,
which is also what a free slot holds: the slot it is stored in stays free, and no search finds it.
Datagrams are not kept on a network: any of
them may arrive whenever the proxy waits, which covers loss, repetition and reordering.
On an INVITE the proxy is inside the client's call until that returns. `caller`
is history: where the last stored INVITE of a call came from.

### SharedState, NodeRegistry

A request is a sequence of arguments. Asterisk and Kamailio put them into one
text; a text is a value the server does not look into. A parameter of Kamailio that
begins with `[` is left out, Call-IDs included (`Bracketed`). Of a deadline the module
knows whether it lies ahead (`live`): `DeadlinePasses` ends that, `rtpe_call_restore`
returns live sessions only, and the cleaner deletes the others (`Purge`). `owner` (which
RTPEngine keeps the call, until it is deleted or its deadline passes) and `taken`
(OpenSIPS has replaced its tuple) are history.

In `NodeRegistry` a node announces the number of sessions it keeps (or a gauge the
procedure corrects), dies without a word and returns; `cluster_nodes` keeps the age of
the last heartbeat and `downFor` (history) the time since the node died, both up to the
window. `select_optimal_node` is the loop over the space as a fold.

### MsgPack, Frames, SharedWire

A packet is a sequence of cells: a byte, or a text with its length as one cell, so that
a string of 256 bytes costs nothing and its length is still encoded byte by byte.
Numbers are the sequences of their bytes, because ids exceed TLC's integers; sizes are
naturals below 2^24. Encoders
choose the width of a length as the code does; decoders read what is there, and go on
at a wrong place after a wrong length as the code would. The decoders' loops are
`Times` a step that has a name of its own; those of `rtpe_tarantool_restore_calls` are, from the
inside out, `PayloadStep`, `RowStep` (in `ReadRow`), `ItemStep`, `GroupStep` and `BodyStep` (in
`ReadBody`), behind `SyncStep` (in `ReadHeader`). The recursion of `mp_next` is a count of the
objects still to skip, and as every round skips a tag at least, the number of cells bounds
the rounds. `SharedWire` says of the sessions on the space which
packets carried them and that the reader gets them back, for every combination of the
lengths given. `HdrBuf`, `PacketBuf` and `MaxReply` are the limits of the code: what
the first two do not hold is written beyond them, so the properties speak of requests
that fit, and a reply above the third closes the connection.

## 3. Runs

| Run | Expectation | Properties | Bounds | States |
|---|---|---|---|---|
| `billing` | pass | `TypeOK`, `ChargedOnce`, `MoneyConserved`, `LimitRespected`, `LooksAtomic` | 1 subscriber, 2 calls, 2 fibers, clock to 4, limit 1 | 669,626 |
| `billing_failures` | pass | `RecordedWasTaken`, `DeadlineBounded`, `DialogsReleased` | 1 subscriber, 2 calls, 1 fiber, 2 tariffs, crashes and failing statements | 697,056 |
| `billing_overlap` | violation | `ChargedOnce` | as `billing`, without the promises | |
| `ttl` | pass | `TypeOK`, `NothingLost`, `ExpiredPurged`, `StopEndsCleaners` | 2 spaces, 2 keys, 2 fibers, 1 failed delete or restart, clock to 2 | 243,718 |
| `ttl_refresh` | violation | `NothingLost` | the same with late writes, clock to 3 | |
| `asterisk_pool` | pass | `TypeOK`, `SocketExclusive`, `RepliesMatch` | 4 threads of all kinds, 2 sockets | |
| `asterisk_pool_nested` | violation | `AllServed` | 2 threads, 1 socket | |
| `opensips_pool` | pass | `TypeOK`, `BreakerJustified`, `NoHalfOpen`, `UsableReached`, `Recovers` | 3 connections, breaker at 2 errors, a login, 2 cuts | 319,948 |
| `opensips_timeout` | violation | `RequestEnds` | 2 connections | |
| `rtpengine_pipeline` | pass | `TypeOK`, `RestoreSeesSaves`, `PipelineKept`, `RestoreEnds` | 2 calls, a login, 5 operations, 2 cuts | 502,124 |
| `kamailio_client` | pass | `TypeOK`, `RepliesMatch`, `CooldownJustified`, `RoutesToLatest`, `InviteForwarded` | 2 servers, one with a login; 3 calls and the empty Call-ID, 2 addresses, 3 slots, 2 probes | 349,152 |
| `shared_state` | pass | `TypeOK`, `SharedRead`, `RestoreSeesOwner`, `RegistryTypeOK`, `NotLongDead`, `BestIsLeast`, `RestoredAsSaved`, `OsReadsOwn` | 2 calls, one of them beginning with `[`, 2 nodes, window 2; Call-IDs of 1, 31, 32, 127, 128 and 256 bytes, values of 0, 1, 31, 32 and 127 | 992,673 |

What the passing runs show:

* **billing.** With the requests about one call in sequence, the statements of
  different calls may interleave as they like: a dialog is debited once, a balance is
  what was credited less what the CDRs bill, but for what the cut at zero waived (no lost
  update between a teardown and a top-up), the limit of concurrent calls holds at every authorization, and
  `Billing` implements `Ledger`. The refinement mapping takes a teardown to happen
  when it debits: its dialog counts as gone and its record as written from then
  on.
* **billing_failures.** A teardown that is cut short loses a record at worst: the CDRs never
  bill more than what left the balance and what was waived at zero. No deadline is beyond the cap,
  also with a tariff whose quotient is 0/0. Dialogs whose BYE never comes are
  released.
* **ttl.** Sessions refreshed before their deadline are never purged, whatever the
  cleaner, a second cleaner, restarts and failed deletes do; what has expired goes in the
  end, and `stop()` ends every cleaner.
* **asterisk_pool.** A socket is used by one thread at a time over trylock, reconnect
  and fallback, and although no sync id is compared, no call returns the reply of
  another.
* **opensips_pool.** A connection is disabled only after `allowed_errors` failures in a
  row, no error path leaves a descriptor behind, and an outage ends. An operation tries
  one slot and fails with it, but a slot that is usable is never more than
  `PoolSize - 1` failed operations away.
* **rtpengine_pipeline.** A restore, behind any number of pipelined writes whose replies
  are still coming in, returns what was saved and not what was deleted on its
  connection, when the login was granted. What the driver was promised is kept unless
  a request left behind by an earlier connection, for the same call, is executed late. The
  wait of a restore ends once its reply is there, behind whatever else, or the connection
  is gone; a silent server is waited for without end (section 5).
* **kamailio_client.** A late reply is never taken for the answer to a later command. The
  proxy's table, with collisions, holes and entries left behind, gives the latest
  caller of a call that has a session; INVITEs that found no room and entries left behind
  by a deletion are exempt. INVITEs are forwarded whatever Tarantool does.
* **shared_state.** Of a session that RTPEngine saved, that is not deleted and whose deadline
  lies ahead, Kamailio reads node and payload as one of the two writers left them,
  whatever the other stacks and the cleaner do, and `rtpe_call_restore` returns it. No call is sent to a
  node that has been dead for the whole window, and the one chosen has the fewest calls by
  the announcements that count. Sessions and values are read back out of packets as
  they were written, at every length that fits the buffers, in three orders of the keys and
  both groupings of the rows, and never out of the reply to another request.

What the violations show (quotations in `PROJECT.json`, "findings"):

* **billing_overlap.** Two teardowns of one call overlap: both read the dialog, both
  debit. The documentation calls the teardown atomic.
* **ttl_refresh.** A tuple that expired, was collected, and was written again before its
  turn came is deleted with its new deadline ahead.
* **asterisk_pool_nested.** A realtime read holds its socket and needs the profile's lock;
  another thread holds that lock and waits for the socket.
* **opensips_timeout.** A receive timeout is retried without end, so `query_timeout` does
  not end a request to a silent server.

**Bounds.** Two of everything that interleaves (calls, fibers, keys, sockets, servers)
is what the hazards need: each is a race of two actors over one item, or an item
and a neighbour that must not be touched. The clocks are long enough for a
deadline to be set, moved and passed. Bounds are constants with names starting
with `Max` (and `Requests`); they guard the environment's actions, never a
step inside a procedure. The one exception is `MaxTime` in the guards of
`authorize_call` and `call_upsert`, which leaves out deadlines that the clock will not
reach. Symmetry is used only in runs without liveness, and never over nodes, whose order
`select_optimal_node` depends on. Three calls over three slots with two probes are the
smallest table in which a search wraps, collides, meets a hole and finds no room. The
lengths of `shared_state` are those on both sides of every change of encoding below
64 KiB and of the 128 bytes of `cid_buf`. A window of 2 tells a fresh heartbeat from an
old and from a too old one.

**Fairness.** In `Billing` and `TtlWorker`: the fibers that are ready run (Tarantool's
scheduler is a queue) and the clock goes on. In `AsteriskPool`: every thread that
can go on does. In `CacheDbPool` and `RtpeDriver`: the worker goes on and the clock
too. Nothing is assumed of the server: `RestoreEnds` has the arrival of the reply or the
loss of the connection as its hypothesis, because the receive timeout does not end the
wait. In `CacheDbPool` the worker's steps include `TakeSlot`, so there the worker is also
assumed to be asked for an operation again and again, without which no slot could be
seen to recover. In `SipProxy` the process goes on: every receive of the Kamailio client has a
timeout that it honours, so its steps cannot be held up. No other client is assumed to
make a request and no datagram to arrive; no server is assumed to come back: `Recovers` has
that as its hypothesis.

## 4. Proofs

`BillingProofs` proves, for every choice of the constants that satisfies
`BillingAssumption`:

* `TypeCorrect`: `Safety => []TypeOK`. One step per action.
* `LimitIsRespected`: `Safety => LimitRespected`. From the types and the
  finiteness of the set of dialogs (`FiniteDialogs`, an invariant proved there): only `authorize_call` adds a dialog, and it adds
  one, under the guard.
* `DeadlinesAreBounded`: `Safety => []DeadlineBounded`. Inductive together with the types:
  `MaxDurationCapped` bounds what `authorize_call` grants (the quotient is a natural number
  once the funds check has passed), `AuthorizeBounded` the deadline that it sets, for a new
  dialog and for one that is there; no other step moves a deadline, and the clock only
  adds to the bound.
* `ChargedAtMostOnce`: with `SerialCalls` and without `Failures`,
  `Safety => []ChargedOnce`. `ChargedOnce` is not inductive. The invariant
  `ChargeInv` adds that at most one teardown of a call is under way
  (`OneTeardown`), that a call whose dialog is there and which is not being torn down
  has not been charged (`NotYetCharged`), and that the dialog of a teardown that has
  deleted it is gone (`DialogGone`). A debit then finds `charges[c] = 0`.

and of the money:

* `MoneyIsConserved`: with `SpacedTeardowns` and without `Failures`,
  `Safety => []MoneyConserved`. The invariant `NoGap` says that for every subscriber
  what was credited and waived is the balance, plus the CDRs, plus what the teardowns under
  way have billed and not recorded (`Gap(s) = 0`). A CDR must not replace another for that:
  `OwnKeys` says that the keys of the teardowns under way are not in `cdrs` and differ.
* `RecordedIsTaken`: `Safety => []RecordedWasTaken` under all failures, top-ups and
  deductions. The gap is then at least 0 and every step keeps or widens it: a debit bills
  what leaves the balance and what `Shortfall` waives, also when it lifts a negative
  balance to zero.
* `ImplementsLedger`: with `SerialCalls` and `SpacedTeardowns` and without `Failures`,
  `Safety => LooksAtomic`. One lemma per kind of step: an authorization opens, a debit
  closes, the cleaner expires, provisioning sets an account, and the three statements
  after the debit stutter. That a debit finds its dialog open in `Ledger` (`TeardownOpens`)
  rests on `ChargeInv`.

`TtlProofs` proves, for every number of spaces, keys and fibers, every batch size and TTL:

* `TtlTypes`: `Safety => []TypeOK`, with the finiteness of the spaces, on which the size of
  a batch rests, and that no sweep began in the future.
* `NothingIsLost`: without `LateWrites`, `Safety => []NothingLost`. The invariant `Kept` adds
  that a tuple whose promised deadline is ahead is there with that deadline (`Told`), and that
  every key a cleaner has collected and not yet deleted is past the deadline that was
  promised (`BatchesSpent`), which is what `DeleteNext` does not look at.

`AsteriskProofs` proves, for every number of threads and sockets and every mix of callers,
from one invariant:

* `PoolTypes`, `SocketsAreExclusive`, `RepliesAreOwn`: `TypeOK`, `SocketExclusive` and
  `RepliesMatch` always hold. `Nesting` says how many sockets a thread holds at each place
  (two only in a realtime read), `Owned` that the depth of a recursive mutex is the number of
  times its owner has the socket and that nobody else has it, and `Unread` what may be left
  on a connection: nothing, or the packet for which there was no memory, which is never
  read as a length.

`RtpeProofs` proves, for every set of calls and every configuration:

* `DriverTypes`: `Spec => []TypeOK`, with `Connected` (the operation and the connection go
  together, the error count stays below the limit until the client is disabled).
* `RestoreIsCurrent`: `Spec => []RestoreSeesSaves`. `Numbered` says that sync ids are older than
  the next one, `Awaited` that while a restore waits, only the last request of the
  connection has its sync id, and that whatever carries it agrees with what was promised.
* `PipelineIsKept`: `Spec => []PipelineKept`. What a row of requests leaves in the space is a
  fold; `Piped` states its result without one: the last request for a call decides, or the
  space as it was.

`KamailioProofs` proves, for every set of servers and every setting that satisfies
`KamailioAssumption` (a limit below 1 acts in `tnt_conn_fail` as 1 does, the count being
compared after it was raised):

* `TypeCorrect`: `Spec => []TypeOK`; in particular no error count passes
  `allowed_timeouts`.
* `CooldownIsJustified`: `Spec => []CooldownJustified`. The invariant `Counters` adds
  that a server that is not disabled has fewer errors than the limit, that a connected
  one has none, and that a command under way has a connection.
* `NoStaleReply`: `Spec => []RepliesMatch`. The invariant `Unread` says what may be
  unread on a connection. Between commands it is nothing, or the one packet for which
  `tnt_exec_call` had no memory; the next command then takes that packet for a length,
  fails and closes the connection. Every other failure closes it at once. So when a
  packet is read, it is the only one there and it answers the command.

* `ProxyKeepsClient`: the three also hold of `ProxySpec`, whose steps are steps of the client
  or leave it alone.
* `ResponsesReachCaller`: `ProxySpec => RoutesToLatest`, for every number of slots and probes
  and every hash; `CallMatches` keeps free slots and the empty Call-ID apart from calls. The invariant `Routed` is that, of the slots a search for a call visits, the
  first with the call in it has the address of its last stored INVITE (`Holds`). Storing takes
  an earlier or the same slot, deleting forgets the caller, and no other call's entry matches.

The lemmas `AfterConnect`, `FailKeeps` and `ReadyKeeps` say what a connect, a counted
failure and a completed login leave of these invariants; the actions of the start, of the
login and of a command all end in one of them.

`CacheDbProofs` proves, for every size of the pool and every setting that satisfies
`CacheDbAssumption`:

* `TypeCorrect`: `Safety => []TypeOK`; in particular no error count passes
  `allowed_errors`. The invariant `Counters` is needed for it: a slot that is not disabled
  has a count below the limit, so that one more failure cannot pass it.
* `BreakerIsJustified`: `Safety => []BreakerJustified`. With `Counters`, and from
  `Reopened`: a disabled slot that is tried again starts from nothing, as its history does.
* `NothingHalfOpen`: `Safety => []NoHalfOpen`. `NoHalfOpen` says nothing of the slot that is
  being worked on; `Descriptors` does: only during the handshake may a descriptor belong
  to a connection that is not logged in, and a request is made on one that is.
* `UsableIsReached`: `Safety => []UsableReached`. The invariant `Missed` bounds the operations
  that a usable slot has missed by the number of turns since its own (`Turns`), which
  `get_conn` raises by one and which is below `PoolSize`; the operation under way has not
  been missed yet.

`GiveUpKeeps` and `ReadyKeeps` say what a failed operation and a login leave of the
invariant; `CountedKeeps` and `ClosedKeeps` apply the first to the two kinds of failure.

`SharedProofs` proves, for every set of calls, nodes and endpoints and every window, of
`RegistrySpec`:

* `SharedTypes`, `SessionsAreShared`, `OwnersRestore`: `TypeOK`, `SharedRead` and
  `RestoreSeesOwner` always hold. `Found` says that the tuple of a call with an owner is in the
  space under its Call-ID, and is OpenSIPS' when the call is in `taken` and the owner's
  otherwise; both are live. The lemmas `RtpeArrives`, `TextArrives`, `StringArrives` and
  `ArrayLost` say what the procedures receive.
* `RegistryTypes`, `NoDeadNode`: `RegistryTypeOK` and `NotLongDead`. `Announced` compares the age
  of a node's heartbeat with the time since it died.
* `SelectIsLeast`: `BestIsLeast`, by what the loop has chosen after each round (`Round`).

and of the encodings of `MsgPack`:

* `NumbersAreReadBack`, `HeadsAreReadBack`, `StringsAreReadBack`: a decoder returns what the encoder
  of its type wrote in front of any buffer, and the buffer, for every number of 64 bits, every
  size of an array or a map and every string below 2^24. `HeadRoundTrip` argues for all types at
  once: the tags of a type tell the widths apart (`Unambiguous`), and leading zeros do not
  change a number (`StripPad`).

and of the packets:

* `NextSkipsEncoded`: `mp_next` in front of an array or a map of encoded numbers and strings, of
  every width, stops right behind it. The lemma behind it, `NextSkipsObject`, is used for the
  nested objects of the replies: `Skips(k, o)` says of the cells o that they are k objects, that
  is, from any count j + k of objects to skip, with o in front of any buffer, as many rounds as
  o has cells at most lead to the count j and the buffer. Encoded numbers and strings are one
  object, objects in a row add up (`SkipsBoth`), and a head with what it announces is one object
  (`SkipsHead`).
* `HeaderRead`, a lemma: of every header of a reply `check_iproto_status` finds the code and
  the sync id, `tarantool_get` and `rtpe_tarantool_restore_calls` come to its end, and
  `resolve_space_id` settles for 512.
* `OsReadsBack`: `RegistrySpec => []OsReadsOwn`, from `GetReadsBack`, for requests that fit `hdr_buf`. `SetRequest` and `GetRequest`
  take the requests apart as the encoders put them together, `SetFields` and `GetFields` say that
  the server finds space, tuple and key in them, and `TupleRead` and `ReplyRead` that the loop of
  `tarantool_get` ends with the seventh field.
* `NodesAreRestored`: `RegistrySpec => []RestoredAsSaved`, from the lemma
  `RepliesAreReadBack`, `RestoreReads(S)` for every set S of calls whose requests fit `packet_buf`
  and whose reply is not above a mebibyte, and from `Keyed`: a session of a node has a Call-ID as
  its key, because the texts that Kamailio stores come without a node. On the way out,
  `UpsertRequest` takes a request of `pack_call_upsert` apart and `RowSaved` makes the server's row
  of it, its keys and those of the payload turned by r. On the way back there is a lemma for each
  loop: `PayloadRead` and `RowRead` say which fields are filled in, `ItemRead`, `GroupRead` and
  `BodyRead` which calls are handed over and that what follows is untouched (`Yields` and `Gives`), so
  that a Call-ID without room does not shift the next row.

`Iteration` has the rule for the loops, generic facts on which the above rest: states that follow one another by the step lead to the
last of them (`Ends`), and few rounds are the step applied as often (`FewRounds`). Two kinds of
loops have theorems of their own: one whose rounds add to a set (`Gathers`) and one whose rounds
fill in the fields of a record, whatever their order (`Fills`). Like the folds
below, the recursive function in `Times` is characterised by a least round at which it would
differ.

**Sums and folds.** `SumFunctionOnSet` and `FoldLeft` are defined by a table over the subsets of
their domain. Induction over data is not available, but two such tables that differ would have
a smallest set at which they do, and none can (`SumsUnique`, `RoundsUnique` and their like,
from the well-foundedness of the subsets of a finite set). What a loop computes then follows by
writing the table down and checking it.

**Assumptions.** Constants have the assumptions named in their modules, which TLC evaluates in
every run. `SpaceOrder` is not empty (the cleaner's list is a literal in the code). In
`SharedState` nil is neither a value nor a session, and a packed text is neither a Call-ID nor
the name of a space: it is a JSON text or a packed array, and those do not have that form.
In `NodeRegistry` the order of the primary key lists every node once, and there are
finitely many calls. In `SharedWire` the lengths, and the number of calls, are below 2^24, the sizes that `MsgPack`
has; that takes nothing away, because the theorems speak of requests that fit the 256 bytes of
`hdr_buf` and the 2048 of `packet_buf` and of replies up to a mebibyte. A Call-ID has a byte at least, as in SIP: `rtpe_tarantool_restore_calls`
takes an empty one for a row without Call-ID (`tarantool.c:950`). The promises about the environment (`SerialCalls`, `SpacedTeardowns`,
`Failures`, `LateWrites`) are hypotheses of the theorems that need them; `billing_overlap` and
`ttl_refresh` show that they are needed.

**Only model-checked.** The liveness properties (`DialogsReleased`, `ExpiredPurged`,
`StopEndsCleaners`, `AllServed`, `Recovers`, `RequestEnds`, `RestoreEnds`, `InviteForwarded`): fairness
is out of the prover's reach. Every invariant and every other action property of the passing runs
is the statement of a theorem.

## 5. Divergences seen while modelling

These follow from single lines and are part of the models; no run is spent on them.

* `cdr_id` has a resolution of one second (`billing_service.lua:173`), `schema.lua:215`
  calls it unique. `SpacedTeardowns` is the promise that hides it.
* `authorize_call` reserves no credit (`billing_service.lua:113`; comment at 111:
  "register the active SIP dialog and reservation").
* The CDR keeps the full cost when the balance was cut at zero
  (`billing_service.lua:165`, `182`; `schema.lua:222` "Total amount deducted from balance"), and
  a teardown lifts a negative balance to zero. `waived` is the difference.
* A debit whose CDR was not written (crash, failing statement) leaves no trace
  (`billing_service.lua:174`; `QUICKSTART.md:41` "Atomically debits balance ...").
* `stop()` followed at once by `start()` leaves two cleaners (`ttl_worker.lua:59`).
* The fallback of `acquire_conn` hands out a socket that failed to connect
  (`res_tarantool.c:193`; `res_tarantool.h:65` "Pointer to connected socket or NULL").
* The error counts of OpenSIPS and Kamailio are cleared by a reconnect
  (`cachedb_tarantool_dbase.c:551`, `tarantool_client.c:577`), so failing requests on a
  server that accepts connections never open the breaker or start the cooldown.
* `resolve_space_id` reads only the header of the reply and settles for 512
  (`cachedb_tarantool_dbase.c:679`), also when the URL names another space.
* The RTPEngine and OpenSIPS drivers take any reply to the login for a success: they compare
  the first key of its header with 0, not the code behind it (`tarantool.c:330`,
  `cachedb_tarantool_dbase.c:426`). The connection counts as authenticated and its requests
  are refused; a refused restore passes for one without sessions.
* `rtpe_tarantool_save_call` answers 0 once the request is in the socket buffer
  (`tarantool.c:706`), `tnt_socket_drain` may take half a reply (`tarantool.c:230`), and
  `tnt_socket_recv_all` retries its timeout (`tarantool.c:213`), although the driver's
  `README.md:93` has a "Sync timeout in milliseconds": a restore waits for a silent server
  without end, as an OpenSIPS request does.
* `rtpe_tarantool_save_call` packs into `packet_buf[2048]` (`tarantool.c:667`) and the packer
  only compares the size of the buffer with 512 (`tarantool.c:554`): a Call-ID of some 1.8 kB
  is written beyond it. A reply above 1048576 bytes, some thousands of sessions, closes the
  connection and restores nothing (`tarantool.c:829`).
* A callback that answers non-zero to stop the restore (`tarantool.h:88` "or non-zero to stop
  iteration") only leaves the inner array (`tarantool.c:962`); names of keys are compared up to
  the length that was received (`strncmp`, `tarantool.c:893`), so a prefix passes for the name.
* OpenSIPS' `tarantool_set` replaces the tuple of a Call-ID with `node_id` "opensips"
  (`cachedb_tarantool_dbase.c:1123`): `rtpe_call_restore` no longer returns it.
* `tnt_exec_call` drops parameters that begin with `[` (`tarantool_client.c:743`), the form
  the module's README shows, and a Call-ID of that form with them; `tnt_get_call_buf` then
  answers 0, as it does for any nil (`tarantool_client.c:1078`).
* `ast_tarantool_call` sends its JSON text as one argument (`res_tarantool.c:352`), so
  `ast_realtime_*` finds no space of that name, and `realtime_tarantool` answers with the
  fields it was asked for (`res_config_tarantool.c:118`). For the same reason the key of a
  record of `ast_cdr_save` is the whole JSON text and its other columns are empty
  (`asterisk_service.lua:191`).
* Without a user name OpenSIPS takes any 128 bytes for a greeting
  (`cachedb_tarantool_dbase.c:532`).
* `rtpe_tarantool_restore_calls` leaves out sessions whose Call-ID has 128 bytes or more
  (`tarantool.c:896`); `tarantool_get` of a session that RTPEngine saved returns an empty
  value with success; the frame of `tarantool_set` has 256 bytes for key and value
  (`cachedb_tarantool_dbase.c:1088`), which `OsReadsOwn` has as its hypothesis.
* An error reply with a foreign sync id counts as an error of the request and not as a
  mismatch when its code comes first in the header (`check_iproto_status`).
* `mp_next` skips only the tag of floats and extension types (`msgpuck.h`).
* The Asterisk module's `mp_decode_uint` yields 32 bits and does not read a 64-bit integer,
  the form in which the server sends the sync id; the loop of `ast_tarantool_exec_raw` over
  the header goes on at the wrong place and may take an error for a success.
* A reload of `res_tarantool` leaves existing profiles as they are, whatever the file says now,
  and does not handle the configuration API's answer for an unchanged file.
* A request of a connection that was closed may be executed after the next connection's
  (`tarantool.c:985`); `PipelineKept` and `RestoreSeesSaves` exempt the calls concerned.
* Between two heartbeats every call goes to the same node (`rtpe_service.lua:162`).
* In the proxy (`kamailio_entrypoint.c`): the session of a call that its caller ends is never
  deleted, an INVITE that finds no room is forwarded and its responses go to the called side,
  and a call stored twice (in a hole in front of its first entry) leaves the older entry behind
  when it is deleted. On the OpenSIPS pool (`opensips_entrypoint.c`) a silent server stops
  the proxy (`opensips_timeout`). `rtpengine_entrypoint.c` answers "delete" by deleting
  `sample-call-id-12345`, whatever call was named.

## 6. Not modelled

SHA-1 and base64 (bytes in, bytes out; the login stages have their outcomes); the Asterisk
variant of MessagePack; the values of the restore callback (it is taken to succeed); orders of
the keys of a row other than its three rotations; what a write beyond a buffer leads to; a
drain that stops in the middle of a reply right before a byte that looks like the start of a
length; heartbeats under way when their node dies; URL and configuration parsing; unloading of
the Asterisk module; `ast_cdr_save`, for which see section 5; field formats, indexes and grants
of the schema; `get_live_stats`, `voip_routing_lookup` and other reads; the KEMI and script
wrappers; the SIP proxy on the OpenSIPS pool; the RTPEngine stand-in, demo server, example
configurations, benchmarks and tests.

Four hazards have no property:

* `authorize_call` sets no credit aside (`billing_service.lua:113`). What calls cost beyond a
  balance depends on how many run at once and for how long the proxies let them, of which the
  backend is told nothing; no bound holds of the code alone.
* Two teardowns of a call within one second share a CDR key (`billing_service.lua:173`), and a
  write that was answered with success is lost with its connection (`tarantool.c:706`). The code
  gives no promise that could be checked: section 5 describes both.
* The key of an Asterisk CDR (`asterisk_service.lua:191`), as said above.

## 7. Plan

Done: `Billing` with `Ledger`, `TtlWorker`, the four clients with their logins, the proxy,
`SharedState`, `NodeRegistry` and the packets; proofs of every safety property that the passing
runs check.

Next: a composition of `RtpeDriver` and `TtlWorker`: a restore after failover returns the
sessions whose deadline has not passed.

## 8. Running

    tlc -config billing.cfg MCBilling
    tlc -config shared_state.cfg MCSharedWire
    for m in Billing Ttl Asterisk CacheDb Rtpe Kamailio Shared; do tlapm ${m}Proofs.tla; done
    tlapm Iteration.tla

The module of each run is in `PROJECT.json`.
