------------------------------- MODULE Billing -------------------------------
(***************************************************************************)
(* The prepaid billing procedures of tarantool_backend/app/                *)
(* billing_service.lua: call authorization, teardown with balance          *)
(* deduction and CDR, provisioning, and the TTL cleaner where it meets     *)
(* them (the kam_dialogs space).                                           *)
(*                                                                         *)
(* Each request runs in a fiber of its own.  authorize_call and the        *)
(* provisioning calls make one statement, so they are one action.          *)
(* finalize_cdr makes four; another fiber may run after each of them, the  *)
(* instance may stop, or a statement may raise an error.                   *)
(*                                                                         *)
(* Money is an integer number of the smallest unit.  A CDR keeps only      *)
(* what the properties tell apart: who is billed (caller) and how much     *)
(* (billed_amount, which is the whole cost also when the balance does not  *)
(* cover it and is cut at zero).                                           *)
(***************************************************************************)
EXTENDS Integers, Sequences, FiniteSets, Functions, Spaces

CONSTANTS
    Subs,            \* subscriber ids
    Calls,           \* SIP Call-IDs
    MediaCalls,      \* the Call-IDs whose media RTPEngine stores
    Unknown,         \* the caller "unknown" of a CDR without dialog
    Fibers,          \* fibers that may run finalize_cdr at the same time
    Dests,           \* dialled numbers, sequences of digits
    Prefixes,        \* prefixes a tariff may be set for, and DefaultPrefix
    DefaultPrefix,   \* the tariff key 'default'
    TariffTuples,    \* tariffs that may be set: [rate, fee]
    StandardRate,    \* the rate used when there is no tariff or no dialog (0.05)
    Balances,        \* initial balances
    Limits,          \* values of max_concurrent_calls
    Deltas,          \* amounts of update_balance
    Durations,       \* durations the SIP proxies report
    Minute,          \* seconds in a billed minute (60)
    Grace,           \* slack of a dialog's deadline (300)
    DurationCap,     \* longest granted duration (86400)
    Statuses,        \* statuses the operator's system sets
    MaxTime,         \* bound: the clock stops here
    MaxCdrs,         \* bound: no teardown is reported once there are so many
    MaxDebits,       \* bound: debits made for one dialog
    MaxBalance,      \* bound: no top-up above it
    SerialCalls,     \* requests about one Call-ID do not overlap
    SpacedTeardowns, \* two teardowns of one Call-ID are a second apart
    Failures         \* the instance may stop, a statement may raise an error

ASSUME BillingAssumption ==
    /\ Unknown \notin Subs
    /\ MediaCalls \subseteq Calls
    /\ TariffTuples \subseteq [rate : Nat, fee : Nat]
    /\ StandardRate \in Nat
    /\ Balances \subseteq Nat /\ Limits \subseteq Nat /\ Deltas \subseteq Int
    /\ Durations \subseteq Nat
    /\ Minute \in Nat \ {0}
    /\ Grace \in Nat /\ DurationCap \in Nat /\ MaxTime \in Nat
    /\ Statuses \subseteq {"active", "blocked"}
    /\ MaxCdrs \in Nat /\ MaxDebits \in Nat /\ MaxBalance \in Nat
    /\ {SerialCalls, SpacedTeardowns, Failures} \subseteq BOOLEAN

VARIABLES
    subscribers,   \* space: Subs -> [balance, status, max_concurrent_calls]
    tariffs,       \* space: Prefixes -> [rate, fee]
    kam_dialogs,   \* space: Calls -> [caller, rate, fee, expires_at]
    cdrs,          \* space: <<call, end_epoch>> -> [caller, billed]
    rtpe_calls,    \* the Call-IDs that have a media session
    now,           \* fiber.time(), in seconds
    jobs,          \* the fibers inside finalize_cdr and their locals
    batch,         \* keys the TTL cleaner collected and has yet to delete
    credited,      \* history: balance changes not made by a teardown
    waived,        \* history: what was billed beyond the balances
    charges        \* history: debits made for the call's present dialog

vars == <<subscribers, tariffs, kam_dialogs, cdrs, rtpe_calls, now, jobs,
          batch, credited, waived, charges>>

SubTuples == [balance : Int, status : {"active", "blocked"},
              max_concurrent_calls : Nat]
DialogTuples == [caller : Subs, rate : Nat, fee : Nat, expires_at : Nat]
CdrTuples == [caller : Subs \cup {Unknown}, billed : Nat]
Jobs == [pc : {"cdr", "dialog", "media"}, call : Calls, end_epoch : Nat,
         caller : Subs \cup {Unknown}, billed : Nat]
Tariffs == [rate : Nat, fee : Nat]
-----------------------------------------------------------------------------
(***************************************************************************)
(* Rating                                                                  *)
(***************************************************************************)

\* The lengths at which the search of match_tariff, from the whole number
\* downwards, stops: at most one.
MatchLengths(dest) ==
    {n \in 1..Len(dest) :
        /\ SubSeq(dest, 1, n) \in DOMAIN tariffs
        /\ \A m \in n + 1..Len(dest) : SubSeq(dest, 1, m) \notin DOMAIN tariffs}

match_tariff(dest) ==
    IF MatchLengths(dest) # {}
    THEN tariffs[SubSeq(dest, 1, CHOOSE n \in MatchLengths(dest) : TRUE)]
    ELSE IF DefaultPrefix \in DOMAIN tariffs THEN tariffs[DefaultPrefix]
    ELSE [rate |-> StandardRate, fee |-> 0]

DialogsOf(s) == {c \in DOMAIN kam_dialogs : kam_dialogs[c].caller = s}

\* Dialogs of the caller in index by_caller; the deadline plays no part.
count_active_calls(s) == Cardinality(DialogsOf(s))

LimitReached_Late(active, limit) == active > limit
LimitReached(active, limit) == active >= limit

\* balance < connect_fee + rate / 6, in integers.
Insufficient(balance, t) == 6 * balance < 6 * t.fee + t.rate

\* A free tariff gives infinity, which the cap turns into DurationCap.
MaxDuration_NoCap(balance, t) ==
    LET d == ((balance - t.fee) * Minute) \div t.rate
    IN  IF t.rate = 0 THEN DurationCap ELSE d
MaxDuration(balance, t) ==
    LET d == ((balance - t.fee) * Minute) \div t.rate
    IN  IF t.rate = 0 \/ d > DurationCap THEN DurationCap ELSE d

\* With a free tariff and nothing above the fee the quotient is 0/0: the
\* upsert of the not-a-number deadline raises an error.
DeadlineIsNaN(balance, t) == t.rate = 0 /\ balance = t.fee

\* What authorize_call answers, in the order of its checks.
Verdict(s, dest) ==
    LET sub == subscribers[s]
        t   == match_tariff(dest)
    IN  IF s \notin DOMAIN subscribers THEN "SUBSCRIBER_NOT_FOUND"
        ELSE IF sub.status # "active" THEN "SUBSCRIBER_BLOCKED"
        ELSE IF LimitReached(count_active_calls(s), sub.max_concurrent_calls)
             THEN "MAX_CONCURRENT_CALLS_EXCEEDED"
        ELSE IF Insufficient(sub.balance, t) THEN "INSUFFICIENT_FUNDS"
        ELSE IF DeadlineIsNaN(sub.balance, t) THEN "ERROR"
        ELSE "ALLOWED"

\* Started minutes are billed in full.
Billed(rate, fee, dur) == fee + ((dur + Minute - 1) \div Minute) * rate

NewBalance_Negative(balance, billed) == balance - billed
NewBalance(balance, billed) ==
    IF balance - billed > 0 THEN balance - billed ELSE 0

\* History: the part of a bill that the balance does not cover.
Shortfall(balance, billed) == IF billed > balance THEN billed - balance ELSE 0

CdrKey_CallOnly(c, end_epoch) == <<c, 0>>
CdrKey(c, end_epoch) == <<c, end_epoch>>
-----------------------------------------------------------------------------
(***************************************************************************)
(* The environment's promises, each chosen by a constant                   *)
(***************************************************************************)
Quiet(c) == SerialCalls => \A f \in DOMAIN jobs : jobs[f].call # c

Spaced(c) == SpacedTeardowns =>
                /\ <<c, now>> \notin DOMAIN cdrs
                /\ \A f \in DOMAIN jobs :
                      <<jobs[f].call, jobs[f].end_epoch>> # <<c, now>>

Init ==
    /\ subscribers = EmptySpace
    /\ tariffs = EmptySpace
    /\ kam_dialogs = EmptySpace
    /\ cdrs = EmptySpace
    /\ rtpe_calls = {}
    /\ now = 0
    /\ jobs = EmptySpace
    /\ batch = {}
    /\ credited = [s \in Subs |-> 0]
    /\ waived = [s \in Subs |-> 0]
    /\ charges = [c \in Calls |-> 0]
-----------------------------------------------------------------------------
(***************************************************************************)
(* Requests                                                                *)
(***************************************************************************)

\* authorize_call(caller, callee, call_id): a refusal changes nothing, an
\* allowed call is upserted; an upsert of a present Call-ID moves its
\* deadline only.
authorize_call(s, dest, c) ==
    /\ Quiet(c)
    /\ Verdict(s, dest) = "ALLOWED"
    /\ LET t == match_tariff(dest)
           expires_at == now + MaxDuration(subscribers[s].balance, t) + Grace
       IN  /\ expires_at <= MaxTime
           /\ IF c \in DOMAIN kam_dialogs
              THEN /\ kam_dialogs' = [kam_dialogs EXCEPT
                                         ![c].expires_at = expires_at]
                   /\ charges' = charges
              ELSE /\ kam_dialogs' = Put(kam_dialogs, c,
                          [caller |-> s, rate |-> t.rate, fee |-> t.fee,
                           expires_at |-> expires_at])
                   /\ charges' = [charges EXCEPT ![c] = 0]
    /\ UNCHANGED <<subscribers, tariffs, cdrs, rtpe_calls, now, jobs, batch,
                   credited, waived>>

\* add_subscriber(sub_id, initial_balance, _, max_calls)
add_subscriber(s, balance, limit) ==
    /\ subscribers' = Put(subscribers, s,
            [balance |-> balance, status |-> "active",
             max_concurrent_calls |-> limit])
    /\ credited' = [credited EXCEPT ![s] = @ + balance -
            (IF s \in DOMAIN subscribers THEN subscribers[s].balance ELSE 0)]
    /\ UNCHANGED <<tariffs, kam_dialogs, cdrs, rtpe_calls, now, jobs, batch,
                   waived, charges>>

\* update_balance(sub_id, delta_amount)
update_balance(s, delta) ==
    /\ s \in DOMAIN subscribers
    /\ subscribers[s].balance + delta <= MaxBalance
    /\ subscribers[s].balance + delta >= -MaxBalance
    /\ subscribers' = [subscribers EXCEPT ![s].balance = @ + delta]
    /\ credited' = [credited EXCEPT ![s] = @ + delta]
    /\ UNCHANGED <<tariffs, kam_dialogs, cdrs, rtpe_calls, now, jobs, batch,
                   waived, charges>>

\* The operator's system suspends or reinstates a subscriber directly in
\* the space; no procedure of the backend does.
SetStatus(s, status) ==
    /\ s \in DOMAIN subscribers
    /\ subscribers' = [subscribers EXCEPT ![s].status = status]
    /\ UNCHANGED <<tariffs, kam_dialogs, cdrs, rtpe_calls, now, jobs, batch,
                   credited, waived, charges>>

\* set_tariff(prefix, _, cost_per_minute, connect_fee)
set_tariff(p, t) ==
    /\ tariffs' = Put(tariffs, p, t)
    /\ UNCHANGED <<subscribers, kam_dialogs, cdrs, rtpe_calls, now, jobs,
                   batch, credited, waived, charges>>

\* RTPEngine stores the call's media session (rtpe_call_upsert).
MediaUpsert(c) ==
    /\ rtpe_calls' = rtpe_calls \cup {c}
    /\ UNCHANGED <<subscribers, tariffs, kam_dialogs, cdrs, now, jobs, batch,
                   credited, waived, charges>>
-----------------------------------------------------------------------------
(***************************************************************************)
(* finalize_cdr(call_id, duration_sec, ...)                                *)
(***************************************************************************)
CallerOf_NoFallback(c) ==
    IF c \in DOMAIN kam_dialogs THEN kam_dialogs[c].caller ELSE "nil"
CallerOf(c) == IF c \in DOMAIN kam_dialogs THEN kam_dialogs[c].caller ELSE Unknown

BilledFor(c, dur) ==
    IF c \in DOMAIN kam_dialogs
    THEN Billed(kam_dialogs[c].rate, kam_dialogs[c].fee, dur)
    ELSE Billed(StandardRate, 0, dur)

\* The locals of a finalize_cdr that starts now.
Job(c, dur, pc) ==
    [pc |-> pc, call |-> c, end_epoch |-> now, caller |-> CallerOf(c),
     billed |-> BilledFor(c, dur)]

CdrOf(job) == [caller |-> job.caller, billed |-> job.billed]

\* The dialog is read, the cost computed, and the first statement sets the
\* subscriber's balance.
FinalizeDebit_Later(f, c, dur) ==
    /\ f \notin DOMAIN jobs
    /\ Quiet(c) /\ Spaced(c)
    /\ Cardinality(DOMAIN cdrs) < MaxCdrs
    /\ charges[c] < MaxDebits
    /\ CallerOf(c) \in DOMAIN subscribers
    /\ cdrs' = Put(cdrs, CdrKey(c, now), CdrOf(Job(c, dur, "dialog")))
    /\ jobs' = Put(jobs, f, Job(c, dur, "dialog"))
    /\ charges' = [charges EXCEPT ![c] = @ + 1]
    /\ UNCHANGED <<subscribers, tariffs, kam_dialogs, rtpe_calls, now, batch,
                   credited, waived>>
FinalizeDebit(f, c, dur) ==
    /\ f \notin DOMAIN jobs
    /\ Quiet(c) /\ Spaced(c)
    /\ Cardinality(DOMAIN cdrs) < MaxCdrs
    /\ charges[c] < MaxDebits
    /\ CallerOf(c) \in DOMAIN subscribers
    /\ LET s   == CallerOf(c)
           old == subscribers[s].balance
       IN  /\ subscribers' = [subscribers EXCEPT
                  ![s].balance = NewBalance(old, BilledFor(c, dur))]
           /\ waived' = [waived EXCEPT ![s] = @ + Shortfall(old, BilledFor(c, dur))]
    /\ jobs' = Put(jobs, f, Job(c, dur, "cdr"))
    /\ charges' = [charges EXCEPT ![c] = @ + 1]
    /\ UNCHANGED <<tariffs, kam_dialogs, cdrs, rtpe_calls, now, batch, credited>>

\* No such subscriber: nothing to debit, the first statement is the CDR's.
FinalizeNoDebit(f, c, dur) ==
    /\ f \notin DOMAIN jobs
    /\ Quiet(c) /\ Spaced(c)
    /\ Cardinality(DOMAIN cdrs) < MaxCdrs
    /\ CallerOf(c) \notin DOMAIN subscribers
    /\ jobs' = Put(jobs, f, Job(c, dur, "dialog"))
    /\ cdrs' = Put(cdrs, CdrKey(c, now), CdrOf(Job(c, dur, "dialog")))
    /\ UNCHANGED <<subscribers, tariffs, kam_dialogs, rtpe_calls, now, batch,
                   credited, waived, charges>>

WriteCdr(f) ==
    /\ f \in DOMAIN jobs /\ jobs[f].pc = "cdr"
    /\ cdrs' = Put(cdrs, CdrKey(jobs[f].call, jobs[f].end_epoch), CdrOf(jobs[f]))
    /\ jobs' = [jobs EXCEPT ![f].pc = "dialog"]
    /\ UNCHANGED <<subscribers, tariffs, kam_dialogs, rtpe_calls, now, batch,
                   credited, waived, charges>>

DeleteDialog_Skipped(f) ==
    /\ f \in DOMAIN jobs /\ jobs[f].pc = "dialog"
    /\ jobs' = [jobs EXCEPT ![f].pc = "media"]
    /\ UNCHANGED <<subscribers, tariffs, kam_dialogs, cdrs, rtpe_calls, now,
                   batch, credited, waived, charges>>
DeleteDialog(f) ==
    /\ f \in DOMAIN jobs /\ jobs[f].pc = "dialog"
    /\ kam_dialogs' = Drop(kam_dialogs, jobs[f].call)
    /\ jobs' = [jobs EXCEPT ![f].pc = "media"]
    /\ UNCHANGED <<subscribers, tariffs, cdrs, rtpe_calls, now, batch,
                   credited, waived, charges>>

DeleteMedia(f) ==
    /\ f \in DOMAIN jobs /\ jobs[f].pc = "media"
    /\ rtpe_calls' = rtpe_calls \ {jobs[f].call}
    /\ jobs' = Drop(jobs, f)
    /\ UNCHANGED <<subscribers, tariffs, kam_dialogs, cdrs, now, batch,
                   credited, waived, charges>>

FinalizeStep(f) == WriteCdr(f) \/ DeleteDialog(f) \/ DeleteMedia(f)
-----------------------------------------------------------------------------
(***************************************************************************)
(* The clock, the TTL cleaner on kam_dialogs, and failures                 *)
(***************************************************************************)
Tick ==
    /\ now < MaxTime
    /\ now' = now + 1
    /\ UNCHANGED <<subscribers, tariffs, kam_dialogs, cdrs, rtpe_calls, jobs,
                   batch, credited, waived, charges>>

\* The iterator LE of index by_expire.
Expired_GE(expires_at, t) == expires_at >= t
Expired(expires_at, t) == expires_at <= t

ExpiredDialogs ==
    {c \in DOMAIN kam_dialogs : Expired(kam_dialogs[c].expires_at, now)}

\* drain_space collects the expired keys and deletes the first of them
\* before it yields ...
PurgeFirst ==
    /\ batch = {}
    /\ \E c \in ExpiredDialogs :
          /\ kam_dialogs' = Drop(kam_dialogs, c)
          /\ batch' = ExpiredDialogs \ {c}
    /\ UNCHANGED <<subscribers, tariffs, cdrs, rtpe_calls, now, jobs,
                   credited, waived, charges>>

\* ... and the others later, without looking at their deadline again.
PurgeNext ==
    /\ \E c \in batch :
          /\ kam_dialogs' = Drop(kam_dialogs, c)
          /\ batch' = batch \ {c}
    /\ UNCHANGED <<subscribers, tariffs, cdrs, rtpe_calls, now, jobs,
                   credited, waived, charges>>

Purge == PurgeFirst \/ PurgeNext

\* A statement raises an error (a refused tuple, a failed WAL write): it
\* has no effect and the procedure ends there.
StatementFails(f) ==
    /\ Failures
    /\ f \in DOMAIN jobs
    /\ jobs' = Drop(jobs, f)
    /\ UNCHANGED <<subscribers, tariffs, kam_dialogs, cdrs, rtpe_calls, now,
                   batch, credited, waived, charges>>

\* The instance stops and recovers from its WAL: the statements made so far
\* survive, the fibers do not.
Crash ==
    /\ Failures
    /\ jobs # EmptySpace \/ batch # {}
    /\ jobs' = EmptySpace
    /\ batch' = {}
    /\ UNCHANGED <<subscribers, tariffs, kam_dialogs, cdrs, rtpe_calls, now,
                   credited, waived, charges>>
-----------------------------------------------------------------------------
Next ==
    \/ \E s \in Subs, dest \in Dests, c \in Calls : authorize_call(s, dest, c)
    \/ \E s \in Subs, b \in Balances, l \in Limits : add_subscriber(s, b, l)
    \/ \E s \in Subs, d \in Deltas : update_balance(s, d)
    \/ \E s \in Subs, st \in Statuses : SetStatus(s, st)
    \/ \E p \in Prefixes, t \in TariffTuples : set_tariff(p, t)
    \/ \E c \in MediaCalls : MediaUpsert(c)
    \/ \E f \in Fibers, c \in Calls, dur \in Durations : FinalizeDebit(f, c, dur)
    \/ \E f \in Fibers, c \in Calls, dur \in Durations : FinalizeNoDebit(f, c, dur)
    \/ \E f \in Fibers : FinalizeStep(f)
    \/ \E f \in Fibers : StatementFails(f)
    \/ Tick
    \/ Purge
    \/ Crash

\* The scheduler runs every ready fiber and the clock goes on.
Fairness ==
    /\ \A f \in Fibers : WF_vars(FinalizeStep(f))
    /\ WF_vars(Purge)
    /\ WF_vars(Tick)

Safety == Init /\ [][Next]_vars
Spec == Safety /\ Fairness
-----------------------------------------------------------------------------
(***************************************************************************)
(* Properties                                                              *)
(***************************************************************************)

\* Every space, local and history variable has its type; in particular a
\* CDR names a subscriber or "unknown", never nil.
TypeOK ==
    /\ IsSpace(subscribers, Subs, SubTuples)
    /\ IsSpace(tariffs, Prefixes, Tariffs)
    /\ IsSpace(kam_dialogs, Calls, DialogTuples)
    /\ IsSpace(cdrs, Calls \X Nat, CdrTuples)
    /\ rtpe_calls \subseteq Calls
    /\ now \in Nat
    /\ IsSpace(jobs, Fibers, Jobs)
    /\ batch \subseteq Calls
    /\ credited \in [Subs -> Int]
    /\ waived \in [Subs -> Nat]
    /\ charges \in [Calls -> Nat]

\* authorize_call's anti-fraud limit: no step gives a subscriber more dialogs
\* than before unless the new number is within its max_concurrent_calls,
\* whatever the teardowns, re-authorizations and purges in between.
LimitRespected ==
    [][\A s \in Subs :
          count_active_calls(s)' > count_active_calls(s) =>
             /\ s \in DOMAIN subscribers
             /\ count_active_calls(s)' <= subscribers[s].max_concurrent_calls
      ]_kam_dialogs

\* finalize_cdr: the dialog's caller is debited at most once, however many
\* teardowns are reported for the call.
ChargedOnce == \A c \in Calls : charges[c] <= 1

\* The billed amounts of a subscriber's CDRs, and of the teardowns that have
\* debited it and not yet written their CDR.
Recorded(s) ==
    SumFunctionOnSet([k \in DOMAIN cdrs |-> cdrs[k].billed],
                     {k \in DOMAIN cdrs : cdrs[k].caller = s})
InFlight(s) ==
    SumFunctionOnSet([f \in DOMAIN jobs |-> jobs[f].billed],
                     {f \in DOMAIN jobs : jobs[f].pc = "cdr" /\ jobs[f].caller = s})

\* The books balance: a balance is what provisioning and top-ups credited
\* less the billed_amount of the subscriber's CDRs (or of those finalize_cdr
\* is about to write), but for what the cut at zero waived.  No update of a
\* teardown or a top-up is lost, whatever the interleaving.
MoneyConserved ==
    \A s \in DOMAIN subscribers :
        subscribers[s].balance =
            credited[s] + waived[s] - Recorded(s) - InFlight(s)

\* The calls of the teardowns that have debited and not deleted the dialog.
Closing == {jobs[f].call : f \in {g \in DOMAIN jobs :
                jobs[g].pc \in {"cdr", "dialog"}}}

\* Also when the instance stops or a statement of finalize_cdr fails, the
\* billed_amount of the CDRs comes to no more than what left the balance and
\* what the cut at zero waived: a teardown that is cut short may lose a
\* record, it never leaves a record of a debit that was not made.
RecordedWasTaken ==
    \A s \in DOMAIN subscribers :
        Recorded(s) + InFlight(s) <=
            credited[s] - subscribers[s].balance + waived[s]

\* However large the balance, cheap the tariff and often the call is
\* authorized again, no dialog stands longer than the cap of authorize_call
\* and the grace: the quotient behind max_duration_sec never gets into a
\* deadline as infinity or as not-a-number.
DeadlineBounded ==
    \A c \in DOMAIN kam_dialogs :
        kam_dialogs[c].expires_at <= now + DurationCap + Grace

\* A dialog whose BYE is lost does not hold a channel of its caller for
\* ever: finalize_cdr or the TTL cleaner removes it.
DialogsReleased ==
    \A c \in Calls : c \in DOMAIN kam_dialogs ~> c \notin DOMAIN kam_dialogs

\* What the ledger of the backend's promises is here: a teardown takes place
\* when it debits, its CDR counts as written and its dialog as gone from
\* then on.
Account == [s \in DOMAIN subscribers |-> subscribers[s].balance]
OpenCalls == [c \in DOMAIN kam_dialogs \ Closing |-> kam_dialogs[c].caller]
RecordOf(c, e, cdr) == [call |-> c, end_epoch |-> e, caller |-> cdr.caller,
                        billed |-> cdr.billed]
Records ==
    {RecordOf(k[1], k[2], cdrs[k]) : k \in DOMAIN cdrs} \cup
    {RecordOf(jobs[f].call, jobs[f].end_epoch, CdrOf(jobs[f])) :
        f \in {g \in DOMAIN jobs : jobs[g].pc = "cdr"}}
L == INSTANCE Ledger WITH account <- Account, open <- OpenCalls, records <- Records

\* authorize_call, finalize_cdr and the TTL cleaner, with their statements
\* interleaved, look like the single steps of Ledger.
LooksAtomic == L!LedgerSpec
=============================================================================
