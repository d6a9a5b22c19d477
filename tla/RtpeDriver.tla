------------------------------ MODULE RtpeDriver ------------------------------
(***************************************************************************)
(* The RTPEngine driver (rtpengine_tarantool/src/tarantool.c) against the  *)
(* media sessions it keeps in the backend.                                 *)
(*                                                                         *)
(* save_call and delete_call are pipelined: they send their request and    *)
(* return; the replies are thrown away by the drain of a later operation.  *)
(* restore_calls waits for the reply with its own sync id.  A client has   *)
(* one connection and is used by one thread; a connection carries requests *)
(* one way, in order, and replies the other way.  A reply is a length      *)
(* ("head") and a packet ("body"), which may arrive apart.  Requests of a  *)
(* connection that is gone may have reached the server: it may execute     *)
(* them later, between those of a new connection.                          *)
(***************************************************************************)
EXTENDS Integers, Sequences, FiniteSets, SequencesExt

CONSTANTS
    Calls,
    AllowedErrors,
    DisableTime,
    NoTarantoolRequired,   \* no_tarantool_required
    User,                  \* a user name is configured
    MaxOps,                \* bound: operations (sync ids)
    MaxCuts,               \* bound: connections cut by the network
    None

ASSUME RtpeAssumption ==
    /\ AllowedErrors \in Nat \ {0} /\ DisableTime \in Nat \ {0}
    /\ MaxOps \in Nat /\ MaxCuts \in Nat
    /\ NoTarantoolRequired \in BOOLEAN /\ User \in BOOLEAN
    /\ None \notin Calls

VARIABLES
    open,       \* sock_fd >= 0
    state,      \* the client's state
    errors,     \* consecutive_errors
    wait,       \* seconds left of disabled_until
    sync_id,
    op,         \* the operation under way
    peer,       \* the server's end of the connection is there
    requests,   \* requests on their way to the server
    replies,    \* parts of replies the client has not read
    owed,       \* sync id of the reply whose body has yet to arrive, or None
    granted,    \* the server lets this connection call the procedures
    late,       \* requests of earlier connections the server has yet to execute
    store,      \* the sessions in space rtpe_calls
    listening,  \* the server accepts connections
    cuts,
    told,       \* history: what the last 0 returned on this connection promised
    restored    \* history: sessions the last restore_calls returned, or None

connVars == <<open, state, errors, wait>>
wireVars == <<peer, requests, replies, owed, granted, late>>
vars == <<connVars, sync_id, op, wireVars, store, listening, cuts, told, restored>>

Idle == [kind |-> "idle", call |-> None, sync |-> 0, pc |-> "idle"]
Requests == [kind : {"save", "delete", "restore"}, call : Calls \cup {None}, sync : Nat]
Ops == [kind : {"idle", "save", "delete", "restore"}, call : Calls \cup {None},
        sync : Nat, pc : {"idle", "connect", "greeting", "auth", "send", "recv"}]
Parts == [part : {"head", "body"}, sync : Nat, calls : SUBSET Calls, long : BOOLEAN]

Init ==
    /\ open = FALSE /\ state = "DISCONNECTED" /\ errors = 0 /\ wait = 0
    /\ sync_id = 1
    /\ op = Idle
    /\ peer = FALSE /\ requests = <<>> /\ replies = <<>> /\ owed = None
    /\ granted = FALSE /\ late = <<>>
    /\ store = {}
    /\ listening = TRUE
    /\ cuts = 0
    /\ told = [c \in Calls |-> "nothing"]
    /\ restored = None
-----------------------------------------------------------------------------
(***************************************************************************)
(* The connection                                                          *)
(***************************************************************************)
Return == op' = Idle

\* Of what is on its way the server has read some and keeps it for later, if
\* the connection may call the procedures.
Abandon ==
    /\ peer' = FALSE /\ requests' = <<>> /\ owed' = None
    /\ \E n \in 0..Len(requests) :
           late' = IF granted THEN late \o SubSeq(requests, 1, n) ELSE late
    /\ UNCHANGED granted
NoWire == Abandon /\ replies' = <<>>

\* rtpe_tarantool_close
Close == open' = FALSE /\ NoWire

\* After an error that is counted: the state is then either s or disabled.
Count_Late(s) ==
    /\ errors' = errors + 1
    /\ IF errors > AllowedErrors
       THEN state' = "DISABLED" /\ wait' = DisableTime
       ELSE state' = s /\ UNCHANGED wait
Count(s) ==
    /\ errors' = errors + 1
    /\ IF errors + 1 >= AllowedErrors
       THEN state' = "DISABLED" /\ wait' = DisableTime
       ELSE state' = s /\ UNCHANGED wait

\* The answer of save_call and delete_call after a failure is 0 when
\* Tarantool is not required.
Forgiven == NoTarantoolRequired /\ op.kind # "restore"

\* The call is recorded as saved or deleted when its operation answers 0.
Promise == told' = IF op.kind = "restore" THEN told
                                          ELSE [told EXCEPT ![op.call] = op.kind]
AnswerFailure == IF Forgiven THEN Promise ELSE UNCHANGED told
-----------------------------------------------------------------------------
(***************************************************************************)
(* save_call, delete_call, restore_calls                                   *)
(***************************************************************************)

\* restore_calls takes its sync id only once it is connected.
Begin(kind, c) ==
    /\ op = Idle /\ sync_id <= MaxOps
    /\ op' = [kind |-> kind, call |-> c, sync |-> sync_id,
              pc |-> IF open /\ state = "AUTHENTICATED" THEN "send" ELSE "connect"]
    /\ sync_id' = IF kind = "restore" THEN sync_id ELSE sync_id + 1
    /\ restored' = None
    /\ UNCHANGED <<connVars, wireVars, store, listening, cuts, told>>

save_call(c) == Begin("save", c)
delete_call(c) == Begin("delete", c)
restore_calls == Begin("restore", None)

\* rtpe_tarantool_connect within disabled_until.
ConnectBarred ==
    /\ op.pc = "connect" /\ state = "DISABLED" /\ wait > 0
    /\ AnswerFailure
    /\ Return
    /\ UNCHANGED <<connVars, sync_id, wireVars, store, listening, cuts, restored>>

\* A new connection: what was said on the old one is no longer owed.
Connect ==
    /\ op.pc = "connect" /\ ~(state = "DISABLED" /\ wait > 0) /\ listening
    /\ open' = TRUE /\ state' = "CONNECTING" /\ UNCHANGED wait
    /\ errors' = IF state = "DISABLED" THEN 0 ELSE errors
    /\ peer' = TRUE /\ requests' = <<>> /\ replies' = <<>> /\ owed' = None
    /\ granted' = FALSE /\ UNCHANGED late
    /\ op' = [op EXCEPT !.pc = "greeting"]
    /\ told' = [c \in Calls |-> "nothing"]
    /\ UNCHANGED <<sync_id, store, listening, cuts, restored>>

ConnectFails ==
    /\ op.pc = "connect" /\ ~(state = "DISABLED" /\ wait > 0) /\ ~listening
    /\ Close
    /\ IF state = "DISABLED"
       THEN /\ errors' = 1
            /\ state' = IF AllowedErrors = 1 THEN "DISABLED" ELSE "ERROR"
            /\ wait' = IF AllowedErrors = 1 THEN DisableTime ELSE 0
       ELSE Count("ERROR")
    /\ AnswerFailure
    /\ Return
    /\ UNCHANGED <<sync_id, store, listening, cuts, restored>>

\* Without a user name the server decides what a guest may do.
Greeted ==
    /\ op.pc = "greeting" /\ peer
    /\ IF User
       THEN /\ op' = [op EXCEPT !.pc = "auth"]
            /\ UNCHANGED <<state, errors, granted>>
       ELSE /\ op' = [op EXCEPT !.pc = "send"]
            /\ state' = "AUTHENTICATED" /\ errors' = 0
            /\ granted' \in BOOLEAN
    /\ UNCHANGED <<open, wait, sync_id, peer, requests, replies, owed, late, store,
                   listening, cuts, told, restored>>

\* tnt_auth_scramble: the second byte of the reply that it compares with 0 is
\* the key of the status and not the status, so a refusal passes as well.
\* The login has a sync id of its own.
Login ==
    /\ op.pc = "auth" /\ peer
    /\ granted' \in BOOLEAN
    /\ state' = "AUTHENTICATED" /\ errors' = 0
    /\ sync_id' = sync_id + 1
    /\ op' = [op EXCEPT !.pc = "send"]
    /\ UNCHANGED <<open, wait, peer, requests, replies, owed, late, store, listening,
                   cuts, told, restored>>

NotGreeted ==
    /\ op.pc \in {"greeting", "auth"} /\ ~peer
    /\ Close
    /\ Count("ERROR")
    /\ AnswerFailure
    /\ Return
    /\ UNCHANGED <<sync_id, store, listening, cuts, restored>>

Written_AfterDrain(r) == IF replies = <<>> THEN Append(requests, r) ELSE requests
Written(r) == Append(requests, r)

\* What has arrived is thrown away, be it half a reply; then the request is
\* written.  The kernel takes it also when the server has gone.
Send ==
    /\ op.pc = "send"
    /\ replies' = <<>>
    /\ LET s == IF op.kind = "restore" THEN sync_id ELSE op.sync
       IN  /\ requests' = IF peer
                          THEN Written([kind |-> op.kind, call |-> op.call, sync |-> s])
                          ELSE requests
           /\ IF op.kind = "restore"
              THEN /\ op' = [op EXCEPT !.pc = "recv", !.sync = s]
                   /\ sync_id' = s + 1 /\ UNCHANGED errors
              ELSE Return /\ errors' = 0 /\ UNCHANGED sync_id
    /\ Promise
    /\ UNCHANGED <<open, state, wait, peer, owed, granted, late, store, listening, cuts,
                   restored>>

SendFails ==
    /\ op.pc = "send" /\ ~peer
    /\ Close
    /\ IF op.kind = "restore"
       THEN state' = "DISCONNECTED" /\ UNCHANGED <<errors, wait>>
       ELSE Count("DISCONNECTED")
    /\ AnswerFailure
    /\ Return
    /\ UNCHANGED <<sync_id, store, listening, cuts, restored>>
-----------------------------------------------------------------------------
(***************************************************************************)
(* The wait of restore_calls                                               *)
(***************************************************************************)
WholeReply == Len(replies) >= 2 /\ replies[1].part = "head" /\ ~replies[1].long

IsMine_Any(part) == TRUE
IsMine(part) == part.sync = op.sync

\* Replies to earlier requests are skipped.
RecvOther ==
    /\ op.pc = "recv" /\ WholeReply /\ ~IsMine(replies[2])
    /\ replies' = SubSeq(replies, 3, Len(replies))
    /\ UNCHANGED <<connVars, sync_id, op, peer, requests, owed, granted, late, store,
                   listening, cuts, told, restored>>

\* An error reply has no sessions in it and passes for an empty answer.
RecvMine ==
    /\ op.pc = "recv" /\ WholeReply /\ IsMine(replies[2])
    /\ restored' = replies[2].calls
    /\ replies' = SubSeq(replies, 3, Len(replies))
    /\ Return
    /\ UNCHANGED <<connVars, sync_id, peer, requests, owed, granted, late, store,
                   listening, cuts, told>>

EndOfFile_Ignored == FALSE
EndOfFile == ~peer /\ ~WholeReply

\* End of file, a length above 1048576, or the rest of a reply of which the
\* drain took the length or more: it does not begin like a length.
RecvFails ==
    /\ op.pc = "recv"
    /\ \/ EndOfFile
       \/ replies # <<>> /\ (replies[1].part = "body" \/ replies[1].long)
    /\ Close
    /\ state' = "DISCONNECTED"
    /\ Return
    /\ UNCHANGED <<errors, wait, sync_id, store, listening, cuts, told, restored>>
-----------------------------------------------------------------------------
(***************************************************************************)
(* The server, the network and the clock                                   *)
(***************************************************************************)
Applied(sessions, r) ==
    CASE r.kind = "save" -> sessions \cup {r.call}
      [] r.kind = "delete" -> sessions \ {r.call}
      [] OTHER -> sessions

Found(r) == IF r.kind = "restore" /\ granted THEN store ELSE {}
Part(part, r, long) ==
    [part |-> part, sync |-> r.sync, calls |-> Found(r), long |-> long]

\* A request is executed, or refused; the reply arrives at once or in two
\* pieces.  One with sessions in it may be longer than restore_calls accepts.
Execute ==
    /\ peer /\ requests # <<>> /\ owed = None
    /\ LET r == Head(requests)
       IN  /\ store' = IF granted THEN Applied(store, r) ELSE store
           /\ \E long \in IF Found(r) = {} THEN {FALSE} ELSE BOOLEAN :
                 \/ /\ replies' = replies \o <<Part("head", r, long), Part("body", r, long)>>
                    /\ UNCHANGED owed
                 \/ /\ replies' = Append(replies, Part("head", r, long))
                    /\ owed' = Part("body", r, long)
    /\ requests' = Tail(requests)
    /\ UNCHANGED <<connVars, sync_id, op, peer, granted, late, listening, cuts, told,
                   restored>>

\* A request of a connection that is gone: whatever was promised for the
\* call on the new one is no longer sure.
ExecuteLate ==
    /\ late # <<>>
    /\ store' = Applied(store, Head(late))
    /\ late' = Tail(late)
    /\ told' = [c \in Calls |-> IF c = Head(late).call THEN "nothing" ELSE told[c]]
    /\ UNCHANGED <<connVars, sync_id, op, peer, requests, replies, owed, granted,
                   listening, cuts, restored>>

DeliverRest ==
    /\ peer /\ owed # None
    /\ replies' = Append(replies, owed)
    /\ owed' = None
    /\ UNCHANGED <<connVars, sync_id, op, peer, requests, granted, late, store,
                   listening, cuts, told, restored>>

\* The connection breaks with requests and replies on their way.
Cut ==
    /\ peer /\ cuts < MaxCuts
    /\ cuts' = cuts + 1
    /\ Abandon
    /\ UNCHANGED <<connVars, sync_id, op, replies, store, listening, told, restored>>

\* The server stops accepting, or starts again.
ServerTurns ==
    /\ listening' = ~listening
    /\ UNCHANGED <<connVars, sync_id, op, wireVars, store, cuts, told, restored>>

Tick ==
    /\ wait > 0
    /\ wait' = wait - 1
    /\ UNCHANGED <<open, state, errors, sync_id, op, wireVars, store, listening,
                   cuts, told, restored>>

Client ==
    \/ ConnectBarred \/ Connect \/ ConnectFails \/ Greeted \/ Login \/ NotGreeted
    \/ Send \/ SendFails \/ RecvOther \/ RecvMine \/ RecvFails

Next ==
    \/ \E c \in Calls : save_call(c) \/ delete_call(c)
    \/ restore_calls
    \/ Client
    \/ Execute \/ ExecuteLate \/ DeliverRest \/ Cut \/ ServerTurns \/ Tick

\* The client's thread goes on.  Nothing is assumed of the server and the
\* network.
Spec == Init /\ [][Next]_vars /\ WF_vars(Client)
-----------------------------------------------------------------------------
(***************************************************************************)
(* Properties                                                              *)
(***************************************************************************)

\* The client, the wire and the store have their types, and the error count
\* never passes allowed_errors.
TypeOK ==
    /\ open \in BOOLEAN /\ peer \in BOOLEAN /\ listening \in BOOLEAN /\ granted \in BOOLEAN
    /\ state \in {"DISCONNECTED", "CONNECTING", "AUTHENTICATED", "DISABLED", "ERROR"}
    /\ errors \in 0..AllowedErrors /\ wait \in 0..DisableTime
    /\ sync_id \in Nat /\ cuts \in Nat
    /\ op \in Ops
    /\ requests \in Seq(Requests) /\ late \in Seq(Requests) /\ replies \in Seq(Parts)
    /\ owed = None \/ owed \in Parts
    /\ store \subseteq Calls
    /\ told \in [Calls -> {"nothing", "save", "delete"}]
    /\ restored = None \/ restored \subseteq Calls

\* restore_calls, behind any number of pipelined requests whose replies are
\* still coming in, returns the sessions saved on this connection and none
\* that was deleted on it.  Two things undo a promise: a login that was
\* refused, and a request for the same call from a connection that is gone.
RestoreSeesSaves ==
    (restored # None /\ peer /\ granted) =>
        \A c \in Calls : /\ told[c] = "save" => c \in restored
                         /\ told[c] = "delete" => c \notin restored

\* A save or delete that answered 0 is on its way or done while the
\* connection lives: requests are executed in the order they were made, and
\* what is left of earlier connections disturbs no other call.
PipelineKept ==
    (peer /\ granted) => \A c \in Calls :
        LET final == FoldLeft(Applied, store, requests)
        IN  /\ told[c] = "save" => c \in final
            /\ told[c] = "delete" => c \notin final

\* The reply to restore_calls has arrived, whole.
Answered == \E i \in DOMAIN replies : replies[i].part = "body" /\ replies[i].sync = op.sync

\* restore_calls ends once its reply is there, behind whatever the pipeline
\* and the drain have left in front of it, or once the connection is gone.
\* A server that stays silent is waited for without end: tnt_socket_recv_all
\* starts again when the timeout of the socket has expired.
RestoreEnds == op.pc = "recv" /\ (~peer \/ Answered) ~> op.pc # "recv"
=============================================================================
