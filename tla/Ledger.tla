------------------------------- MODULE Ledger -------------------------------
(***************************************************************************)
(* What the billing backend promises its callers, with every procedure a   *)
(* single step: a call is opened for a subscriber, and closing it debits   *)
(* the subscriber, records the call and ends it at once.                   *)
(***************************************************************************)
EXTENDS Integers, FiniteSets, Spaces

CONSTANTS Subs, Calls, Unknown

VARIABLES
    account,   \* space: Subs -> balance
    open,      \* space: Calls -> subscriber that pays
    records    \* set of [call, end_epoch, caller, billed]

ledgerVars == <<account, open, records>>

LedgerInit ==
    /\ account = EmptySpace
    /\ open = EmptySpace
    /\ records = {}

Floor0(n) == IF n > 0 THEN n ELSE 0

Open(c, s) ==
    /\ s \in DOMAIN account
    /\ c \notin DOMAIN open
    /\ open' = Put(open, c, s)
    /\ UNCHANGED <<account, records>>

\* r is the record the closing of its call adds.
Close(r) ==
    /\ r.call \in DOMAIN open
    /\ r.caller = open[r.call]
    /\ account' = [account EXCEPT ![r.caller] = Floor0(@ - r.billed)]
    /\ open' = Drop(open, r.call)
    /\ records' = records \cup {r}

\* The teardown of a call that is not open is recorded and costs nobody.
CloseUnknown(r) ==
    /\ r.call \notin DOMAIN open
    /\ r.caller = Unknown
    /\ records' = records \cup {r}
    /\ UNCHANGED <<account, open>>

\* A call whose teardown never came is given up.
Expire(c) ==
    /\ c \in DOMAIN open
    /\ open' = Drop(open, c)
    /\ UNCHANGED <<account, records>>

\* Provisioning and top-ups.
SetAccount(s, balance) ==
    /\ account' = Put(account, s, balance)
    /\ UNCHANGED <<open, records>>

\* The record, if any, that a step adds.
Added == records' \ records

LedgerNext ==
    \/ \E c \in Calls, s \in Subs : Open(c, s)
    \/ \E r \in Added : Close(r)
    \/ \E r \in Added : CloseUnknown(r)
    \/ \E c \in Calls : Expire(c)
    \/ \E s \in DOMAIN account' :
          account'[s] \in Int /\ SetAccount(s, account'[s])

LedgerSpec == LedgerInit /\ [][LedgerNext]_ledgerVars
=============================================================================
