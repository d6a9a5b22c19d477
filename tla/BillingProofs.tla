---------------------------- MODULE BillingProofs ----------------------------
(***************************************************************************)
(* Theorems about Billing, for every set of subscribers, calls, fibers and *)
(* tariffs: types, the limit, deadlines and one charge; then the money,    *)
(* what the balances, the CDRs and the teardowns under way add up to, and  *)
(* that the procedures implement Ledger.                                   *)
(***************************************************************************)
EXTENDS Billing, FiniteSetTheorems, WellFoundedInduction, TLAPS

(***************************************************************************)
(* Spaces                                                                  *)
(***************************************************************************)

\* space:replace keeps a space a space.
LEMMA PutIsSpace ==
    ASSUME NEW K, NEW T, NEW sp, IsSpace(sp, K, T), NEW k \in K, NEW t \in T
    PROVE  /\ IsSpace(Put(sp, k, t), K, T)
           /\ DOMAIN Put(sp, k, t) = DOMAIN sp \cup {k}
           /\ Put(sp, k, t)[k] = t
           /\ \A j \in DOMAIN sp \ {k} : Put(sp, k, t)[j] = sp[j]
BY DEF IsSpace, Put

\* space:delete keeps a space a space.
LEMMA DropIsSpace ==
    ASSUME NEW K, NEW T, NEW sp, IsSpace(sp, K, T), NEW k
    PROVE  /\ IsSpace(Drop(sp, k), K, T)
           /\ DOMAIN Drop(sp, k) = DOMAIN sp \ {k}
           /\ \A j \in DOMAIN sp \ {k} : Drop(sp, k)[j] = sp[j]
BY DEF IsSpace, Drop

\* An update of one tuple keeps a space a space.
LEMMA ExceptIsSpace ==
    ASSUME NEW K, NEW T, NEW sp, IsSpace(sp, K, T), NEW k \in DOMAIN sp,
           NEW t \in T
    PROVE  IsSpace([sp EXCEPT ![k] = t], K, T)
BY DEF IsSpace

\* A space that was just created holds only tuples of any type.
LEMMA EmptyIsSpace ==
    ASSUME NEW K, NEW T
    PROVE  IsSpace(EmptySpace, K, T) /\ DOMAIN EmptySpace = {}
BY DEF IsSpace, EmptySpace
-----------------------------------------------------------------------------
(***************************************************************************)
(* Rating                                                                  *)
(***************************************************************************)

\* match_tariff always finds a tariff.
LEMMA MatchTariffType ==
    ASSUME TypeOK, NEW dest
    PROVE  match_tariff(dest) \in Tariffs
<1>1. \A p \in DOMAIN tariffs : tariffs[p] \in Tariffs
  BY DEF TypeOK, IsSpace
<1>2. CASE MatchLengths(dest) # {}
  <2>1. (CHOOSE n \in MatchLengths(dest) : TRUE) \in MatchLengths(dest)
    BY <1>2
  <2>2. SubSeq(dest, 1, CHOOSE n \in MatchLengths(dest) : TRUE) \in DOMAIN tariffs
    BY <2>1 DEF MatchLengths
  <2> QED
    BY <1>1, <1>2, <2>2 DEF match_tariff
<1>3. CASE MatchLengths(dest) = {} /\ DefaultPrefix \in DOMAIN tariffs
  BY <1>1, <1>3 DEF match_tariff
<1>4. CASE MatchLengths(dest) = {} /\ DefaultPrefix \notin DOMAIN tariffs
  <2>1. match_tariff(dest) = [rate |-> StandardRate, fee |-> 0]
    BY <1>4 DEF match_tariff
  <2> QED
    BY <2>1, BillingAssumption DEF Tariffs
<1> QED
  BY <1>2, <1>3, <1>4

\* The product and the quotient that the rating computes are natural numbers.
LEMMA ProductNat ==
    ASSUME NEW a \in Nat, NEW b \in Nat
    PROVE  a * b \in Nat
OBVIOUS

\* The divisions of authorize_call and finalize_cdr give natural numbers.
LEMMA QuotientNat ==
    ASSUME NEW a \in Nat, NEW b \in Nat \ {0}
    PROVE  a \div b \in Nat
OBVIOUS

\* A call that passes the funds check is granted a duration that is not
\* negative.
LEMMA MaxDurationNat ==
    ASSUME NEW balance \in Int, NEW t \in Tariffs, ~Insufficient(balance, t)
    PROVE  MaxDuration(balance, t) \in Nat
<1>1. t.rate \in Nat /\ t.fee \in Nat
  BY DEF Tariffs
<1>2. balance - t.fee \in Nat
  BY <1>1 DEF Insufficient
<1>3. DurationCap \in Nat /\ Minute \in Nat
  BY BillingAssumption
<1>4. CASE t.rate = 0
  BY <1>3, <1>4 DEF MaxDuration
<1>5. CASE t.rate # 0
  <2>1. (balance - t.fee) * Minute \in Nat
    BY <1>2, <1>3, ProductNat
  <2>2. ((balance - t.fee) * Minute) \div t.rate \in Nat
    BY <2>1, <1>1, <1>5, QuotientNat
  <2> QED
    BY <2>2, <1>3 DEF MaxDuration
<1> QED
  BY <1>4, <1>5

\* The cost of a call is a natural number.
LEMMA BilledNat ==
    ASSUME NEW rate \in Nat, NEW fee \in Nat, NEW dur \in Nat
    PROVE  Billed(rate, fee, dur) \in Nat
<1>1. Minute \in Nat \ {0}
  BY BillingAssumption
<1>2. dur + Minute - 1 \in Nat
  BY <1>1
<1>3. (dur + Minute - 1) \div Minute \in Nat
  BY <1>1, <1>2, QuotientNat
<1>4. ((dur + Minute - 1) \div Minute) * rate \in Nat
  BY <1>3, ProductNat
<1> QED
  BY <1>4 DEF Billed
-----------------------------------------------------------------------------
(***************************************************************************)
(* Type correctness                                                        *)
(***************************************************************************)

\* What the verdict "ALLOWED" of authorize_call stands for.
LEMMA AllowedMeans ==
    ASSUME NEW s, NEW dest, Verdict(s, dest) = "ALLOWED"
    PROVE  /\ s \in DOMAIN subscribers
           /\ ~LimitReached(count_active_calls(s), subscribers[s].max_concurrent_calls)
           /\ ~Insufficient(subscribers[s].balance, match_tariff(dest))
BY DEF Verdict

\* The first statement of finalize_cdr leaves a well-typed job.
LEMMA JobType ==
    ASSUME TypeOK, NEW c \in Calls, NEW dur \in Durations, NEW pc \in {"cdr", "dialog"}
    PROVE  Job(c, dur, pc) \in Jobs /\ BilledFor(c, dur) \in Nat
<1>1. \A d \in DOMAIN kam_dialogs : kam_dialogs[d] \in DialogTuples
  BY DEF TypeOK, IsSpace
<1>2. dur \in Nat /\ StandardRate \in Nat
  BY BillingAssumption
<1>3. CallerOf(c) \in Subs \cup {Unknown}
  BY <1>1 DEF CallerOf, DialogTuples
<1>4. BilledFor(c, dur) \in Nat
  <2>1. CASE c \in DOMAIN kam_dialogs
    <3>1. kam_dialogs[c].rate \in Nat /\ kam_dialogs[c].fee \in Nat
      BY <1>1, <2>1 DEF DialogTuples
    <3> QED
      BY <3>1, <2>1, <1>2, BilledNat DEF BilledFor
  <2>2. CASE c \notin DOMAIN kam_dialogs
    BY <2>2, <1>2, BilledNat DEF BilledFor
  <2> QED
    BY <2>1, <2>2
<1>5. now \in Nat
  BY DEF TypeOK
<1> QED
  BY <1>3, <1>4, <1>5 DEF Job, Jobs

\* The spaces schema.lua creates, empty, have their types.
LEMMA TypeInit == Init => TypeOK
<1> SUFFICES ASSUME Init PROVE TypeOK
  OBVIOUS
<1>1. /\ IsSpace(subscribers, Subs, SubTuples)
      /\ IsSpace(tariffs, Prefixes, Tariffs)
      /\ IsSpace(kam_dialogs, Calls, DialogTuples)
      /\ IsSpace(cdrs, Calls \X Nat, CdrTuples)
      /\ IsSpace(jobs, Fibers, Jobs)
  BY EmptyIsSpace DEF Init
<1> QED
  BY <1>1 DEF Init, TypeOK

\* Every procedure, cleaner step and failure keeps the types.
LEMMA TypeNext == TypeOK /\ [Next]_vars => TypeOK'
<1> SUFFICES ASSUME TypeOK, [Next]_vars PROVE TypeOK'
  OBVIOUS
<1>1. ASSUME NEW s \in Subs, NEW dest \in Dests, NEW c \in Calls,
             authorize_call(s, dest, c)
      PROVE  TypeOK'
  <2> DEFINE t == match_tariff(dest)
             e == now + MaxDuration(subscribers[s].balance, t) + Grace
  <2>1. s \in DOMAIN subscribers /\ ~Insufficient(subscribers[s].balance, t)
    BY <1>1, AllowedMeans DEF authorize_call
  <2>2. t \in Tariffs
    BY MatchTariffType
  <2>3. subscribers[s].balance \in Int
    BY <2>1 DEF TypeOK, IsSpace, SubTuples
  <2>4. MaxDuration(subscribers[s].balance, t) \in Nat
    BY <2>1, <2>2, <2>3, MaxDurationNat
  <2>5. e \in Nat
    BY <2>4, BillingAssumption DEF TypeOK
  <2>6. IsSpace(kam_dialogs, Calls, DialogTuples)
    BY DEF TypeOK
  <2>7. IsSpace(kam_dialogs, Calls, DialogTuples)' /\ (charges \in [Calls -> Nat])'
    <3> HIDE DEF e
    <3>1. CASE c \in DOMAIN kam_dialogs
      <4>1. [kam_dialogs[c] EXCEPT !.expires_at = e] \in DialogTuples
        BY <2>5, <2>6, <3>1 DEF IsSpace, DialogTuples
      <4>2. kam_dialogs' = [kam_dialogs EXCEPT ![c] =
                               [kam_dialogs[c] EXCEPT !.expires_at = e]]
        BY <1>1, <3>1 DEF authorize_call, e
      <4>3. IsSpace(kam_dialogs', Calls, DialogTuples)
        BY <4>1, <4>2, <2>6, <3>1, ExceptIsSpace
      <4> QED
        BY <4>3, <1>1, <3>1 DEF authorize_call, TypeOK
    <3>2. CASE c \notin DOMAIN kam_dialogs
      <4> DEFINE d == [caller |-> s, rate |-> t.rate, fee |-> t.fee, expires_at |-> e]
      <4>1. d \in DialogTuples
        BY <2>2, <2>5 DEF Tariffs, DialogTuples
      <4>2. kam_dialogs' = Put(kam_dialogs, c, d)
        BY <1>1, <3>2 DEF authorize_call, e
      <4> HIDE DEF d
      <4>3. IsSpace(kam_dialogs', Calls, DialogTuples)
        BY <4>1, <4>2, <2>6, PutIsSpace
      <4>4. charges' = [charges EXCEPT ![c] = 0]
        BY <1>1, <3>2 DEF authorize_call
      <4> QED
        BY <4>3, <4>4 DEF TypeOK
    <3> QED
      BY <3>1, <3>2
  <2> QED
    BY <2>7, <1>1 DEF authorize_call, TypeOK
<1>2. ASSUME NEW s \in Subs, NEW b \in Balances, NEW l \in Limits,
             add_subscriber(s, b, l)
      PROVE  TypeOK'
  <2> DEFINE d == [balance |-> b, status |-> "active", max_concurrent_calls |-> l]
  <2>1. b \in Int /\ d \in SubTuples
    BY BillingAssumption DEF SubTuples
  <2>2. IsSpace(subscribers', Subs, SubTuples)
    <3>1. subscribers' = Put(subscribers, s, d)
      BY <1>2 DEF add_subscriber
    <3> QED
      BY <3>1, <2>1, PutIsSpace DEF TypeOK
  <2>3. (credited \in [Subs -> Int])'
    <3>1. s \in DOMAIN subscribers => subscribers[s].balance \in Int
      BY DEF TypeOK, IsSpace, SubTuples
    <3> QED
      BY <3>1, <2>1, <1>2 DEF add_subscriber, TypeOK
  <2> QED
    BY <2>2, <2>3, <1>2 DEF add_subscriber, TypeOK
<1>3. ASSUME NEW s \in Subs, NEW d \in Deltas, update_balance(s, d)
      PROVE  TypeOK'
  <2>1. s \in DOMAIN subscribers /\ d \in Int
    BY <1>3, BillingAssumption DEF update_balance
  <2>2. [subscribers[s] EXCEPT !.balance = @ + d] \in SubTuples
    BY <2>1 DEF TypeOK, IsSpace, SubTuples
  <2>3. subscribers' = [subscribers EXCEPT ![s] =
                           [subscribers[s] EXCEPT !.balance = @ + d]]
    BY <1>3 DEF update_balance
  <2>4. IsSpace(subscribers', Subs, SubTuples)
    BY <2>1, <2>2, <2>3, ExceptIsSpace DEF TypeOK
  <2>5. (credited \in [Subs -> Int])'
    BY <2>1, <1>3 DEF update_balance, TypeOK
  <2> QED
    BY <2>4, <2>5, <1>3 DEF update_balance, TypeOK
<1>4. ASSUME NEW s \in Subs, NEW st \in Statuses, SetStatus(s, st)
      PROVE  TypeOK'
  <2>1. s \in DOMAIN subscribers /\ st \in {"active", "blocked"}
    BY <1>4, BillingAssumption DEF SetStatus
  <2>2. [subscribers[s] EXCEPT !.status = st] \in SubTuples
    BY <2>1 DEF TypeOK, IsSpace, SubTuples
  <2>3. subscribers' = [subscribers EXCEPT ![s] =
                           [subscribers[s] EXCEPT !.status = st]]
    BY <1>4 DEF SetStatus
  <2>4. IsSpace(subscribers', Subs, SubTuples)
    BY <2>1, <2>2, <2>3, ExceptIsSpace DEF TypeOK
  <2> QED
    BY <2>4, <1>4 DEF SetStatus, TypeOK
<1>5. ASSUME NEW p \in Prefixes, NEW t \in TariffTuples, set_tariff(p, t)
      PROVE  TypeOK'
  <2>1. t \in Tariffs
    BY BillingAssumption DEF Tariffs
  <2>2. IsSpace(tariffs', Prefixes, Tariffs)
    BY <2>1, <1>5, PutIsSpace DEF set_tariff, TypeOK
  <2> QED
    BY <2>2, <1>5 DEF set_tariff, TypeOK
<1>6. ASSUME NEW c \in MediaCalls, MediaUpsert(c)
      PROVE  TypeOK'
  BY <1>6, BillingAssumption DEF MediaUpsert, TypeOK
<1>7. ASSUME NEW f \in Fibers, NEW c \in Calls, NEW dur \in Durations,
             FinalizeDebit(f, c, dur)
      PROVE  TypeOK'
  <2> DEFINE s == CallerOf(c)
             new == NewBalance(subscribers[s].balance, BilledFor(c, dur))
             job == Job(c, dur, "cdr")
  <2>1. s \in DOMAIN subscribers
    BY <1>7 DEF FinalizeDebit
  <2>2. subscribers[s] \in SubTuples /\ subscribers[s].balance \in Int
    BY <2>1 DEF TypeOK, IsSpace, SubTuples
  <2>3. BilledFor(c, dur) \in Nat
    BY JobType
  <2>4. new \in Int
    BY <2>2, <2>3 DEF NewBalance
  <2>5. job \in Jobs
    BY JobType
  <2>12. Shortfall(subscribers[s].balance, BilledFor(c, dur)) \in Nat
    BY <2>2, <2>3 DEF Shortfall
  <2>13. waived' = [waived EXCEPT ![s] =
                       @ + Shortfall(subscribers[s].balance, BilledFor(c, dur))]
    BY <1>7 DEF FinalizeDebit
  <2>6. [subscribers[s] EXCEPT !.balance = new] \in SubTuples
    BY <2>2, <2>4 DEF SubTuples
  <2>7. subscribers' = [subscribers EXCEPT ![s] =
                            [subscribers[s] EXCEPT !.balance = new]]
    BY <1>7 DEF FinalizeDebit
  <2>8. jobs' = Put(jobs, f, job)
    BY <1>7 DEF FinalizeDebit
  <2> HIDE DEF job, new, s
  <2>9. IsSpace(subscribers', Subs, SubTuples)
    BY <2>1, <2>6, <2>7, ExceptIsSpace DEF TypeOK
  <2>10. IsSpace(jobs', Fibers, Jobs)
    BY <2>5, <2>8, PutIsSpace DEF TypeOK
  <2>11. (charges \in [Calls -> Nat])'
    BY <1>7 DEF FinalizeDebit, TypeOK
  <2>14. (waived \in [Subs -> Nat])'
    <3> DEFINE short == Shortfall(subscribers[s].balance, BilledFor(c, dur))
    <3>1. /\ waived \in [Subs -> Nat] /\ short \in Nat
          /\ waived' = [waived EXCEPT ![s] = waived[s] + short]
      BY <2>12, <2>13 DEF TypeOK
    <3> HIDE DEF short
    <3>2. ASSUME NEW v \in Subs PROVE waived'[v] \in Nat
      BY <3>1, <3>2
    <3> QED
      BY <3>1, <3>2
  <2> QED
    BY <2>9, <2>10, <2>11, <2>14, <1>7 DEF FinalizeDebit, TypeOK
<1>8. ASSUME NEW f \in Fibers, NEW c \in Calls, NEW dur \in Durations,
             FinalizeNoDebit(f, c, dur)
      PROVE  TypeOK'
  <2> DEFINE job == Job(c, dur, "dialog")
  <2>1. job \in Jobs
    BY JobType
  <2>2. jobs' = Put(jobs, f, job) /\ cdrs' = Put(cdrs, <<c, now>>, CdrOf(job))
    BY <1>8 DEF FinalizeNoDebit, CdrKey
  <2> HIDE DEF job
  <2>3. CdrOf(job) \in CdrTuples
    BY <2>1 DEF CdrOf, CdrTuples, Jobs
  <2>4. <<c, now>> \in Calls \X Nat
    BY DEF TypeOK
  <2>5. IsSpace(jobs', Fibers, Jobs)
    BY <2>1, <2>2, PutIsSpace DEF TypeOK
  <2>6. IsSpace(cdrs', Calls \X Nat, CdrTuples)
    BY <2>2, <2>3, <2>4, PutIsSpace DEF TypeOK
  <2> QED
    BY <2>5, <2>6, <1>8 DEF FinalizeNoDebit, TypeOK
<1>9. ASSUME NEW f \in Fibers, WriteCdr(f)
      PROVE  TypeOK'
  <2>1. f \in DOMAIN jobs /\ jobs[f] \in Jobs
    BY <1>9 DEF WriteCdr, TypeOK, IsSpace
  <2>2. CdrOf(jobs[f]) \in CdrTuples
    BY <2>1 DEF CdrOf, CdrTuples, Jobs
  <2>3. <<jobs[f].call, jobs[f].end_epoch>> \in Calls \X Nat
    BY <2>1 DEF Jobs
  <2>4. IsSpace(cdrs', Calls \X Nat, CdrTuples)
    <3>1. cdrs' = Put(cdrs, <<jobs[f].call, jobs[f].end_epoch>>, CdrOf(jobs[f]))
      BY <1>9 DEF WriteCdr, CdrKey
    <3> QED
      BY <3>1, <2>2, <2>3, PutIsSpace DEF TypeOK
  <2>5. [jobs[f] EXCEPT !.pc = "dialog"] \in Jobs
    BY <2>1 DEF Jobs
  <2>6. jobs' = [jobs EXCEPT ![f] = [jobs[f] EXCEPT !.pc = "dialog"]]
    BY <1>9 DEF WriteCdr
  <2>7. IsSpace(jobs', Fibers, Jobs)
    BY <2>1, <2>5, <2>6, ExceptIsSpace DEF TypeOK
  <2> QED
    BY <2>4, <2>7, <1>9 DEF WriteCdr, TypeOK
<1>10. ASSUME NEW f \in Fibers, DeleteDialog(f)
       PROVE  TypeOK'
  <2>1. f \in DOMAIN jobs /\ jobs[f] \in Jobs
    BY <1>10 DEF DeleteDialog, TypeOK, IsSpace
  <2>2. [jobs[f] EXCEPT !.pc = "media"] \in Jobs
    BY <2>1 DEF Jobs
  <2>3. jobs' = [jobs EXCEPT ![f] = [jobs[f] EXCEPT !.pc = "media"]]
    BY <1>10 DEF DeleteDialog
  <2>4. IsSpace(jobs', Fibers, Jobs)
    BY <2>1, <2>2, <2>3, ExceptIsSpace DEF TypeOK
  <2>5. IsSpace(kam_dialogs', Calls, DialogTuples)
    BY <1>10, DropIsSpace DEF DeleteDialog, TypeOK
  <2> QED
    BY <2>4, <2>5, <1>10 DEF DeleteDialog, TypeOK
<1>11. ASSUME NEW f \in Fibers, DeleteMedia(f)
       PROVE  TypeOK'
  <2>1. IsSpace(jobs', Fibers, Jobs)
    BY <1>11, DropIsSpace DEF DeleteMedia, TypeOK
  <2> QED
    BY <2>1, <1>11 DEF DeleteMedia, TypeOK
<1>12. ASSUME NEW f \in Fibers, StatementFails(f)
       PROVE  TypeOK'
  <2>1. IsSpace(jobs', Fibers, Jobs)
    BY <1>12, DropIsSpace DEF StatementFails, TypeOK
  <2> QED
    BY <2>1, <1>12 DEF StatementFails, TypeOK
<1>13. CASE Tick
  BY <1>13 DEF Tick, TypeOK
<1>14. CASE PurgeFirst
  <2>1. PICK c \in ExpiredDialogs : /\ kam_dialogs' = Drop(kam_dialogs, c)
                                    /\ batch' = ExpiredDialogs \ {c}
    BY <1>14 DEF PurgeFirst
  <2>2. IsSpace(kam_dialogs', Calls, DialogTuples)
    BY <2>1, DropIsSpace DEF TypeOK
  <2>3. batch' \subseteq Calls
    BY <2>1 DEF ExpiredDialogs, TypeOK, IsSpace
  <2> QED
    BY <2>2, <2>3, <1>14 DEF PurgeFirst, TypeOK
<1>15. CASE PurgeNext
  <2>1. PICK c \in batch : /\ kam_dialogs' = Drop(kam_dialogs, c)
                           /\ batch' = batch \ {c}
    BY <1>15 DEF PurgeNext
  <2>2. IsSpace(kam_dialogs', Calls, DialogTuples)
    BY <2>1, DropIsSpace DEF TypeOK
  <2> QED
    BY <2>1, <2>2, <1>15 DEF PurgeNext, TypeOK
<1>16. CASE Crash
  <2>1. IsSpace(jobs', Fibers, Jobs)
    BY <1>16, EmptyIsSpace DEF Crash
  <2> QED
    BY <2>1, <1>16 DEF Crash, TypeOK
<1>17. CASE UNCHANGED vars
  BY <1>17 DEF vars, TypeOK
<1> QED
  BY <1>1, <1>2, <1>3, <1>4, <1>5, <1>6, <1>7, <1>8, <1>9, <1>10, <1>11, <1>12,
     <1>13, <1>14, <1>15, <1>16, <1>17 DEF Next, FinalizeStep, Purge

\* Every behaviour of the procedures, failures and crashes included, keeps
\* the types of the spaces, the locals and the history.
THEOREM TypeCorrect == Safety => []TypeOK
<1> QED
  BY TypeInit, TypeNext, PTL DEF Safety
-----------------------------------------------------------------------------
(***************************************************************************)
(* The limit of concurrent calls                                           *)
(***************************************************************************)

\* Only authorize_call adds to kam_dialogs; other steps delete or do nothing.
LEMMA DialogSteps ==
    ASSUME [Next]_vars
    PROVE  \/ kam_dialogs' = kam_dialogs
           \/ \E k : kam_dialogs' = Drop(kam_dialogs, k)
           \/ \E s \in Subs, dest \in Dests, c \in Calls : authorize_call(s, dest, c)
<1>1. ASSUME NEW f \in Fibers, FinalizeStep(f)
      PROVE  \/ kam_dialogs' = kam_dialogs
             \/ \E k : kam_dialogs' = Drop(kam_dialogs, k)
  BY <1>1 DEF FinalizeStep, WriteCdr, DeleteDialog, DeleteMedia
<1>2. ASSUME Purge
      PROVE  \E k : kam_dialogs' = Drop(kam_dialogs, k)
  BY <1>2 DEF Purge, PurgeFirst, PurgeNext, ExpiredDialogs
<1> QED
  BY <1>1, <1>2 DEF Next, vars, add_subscriber, update_balance, SetStatus,
     set_tariff, MediaUpsert, FinalizeDebit, FinalizeNoDebit, StatementFails,
     Tick, Crash

\* A dialog keeps its caller, and authorize_call adds the one it is about.
LEMMA AuthorizeAdds ==
    ASSUME TypeOK, NEW s \in Subs, NEW dest, NEW c \in Calls,
           authorize_call(s, dest, c)
    PROVE  /\ DOMAIN kam_dialogs' = DOMAIN kam_dialogs \cup {c}
           /\ \A d \in DOMAIN kam_dialogs :
                 kam_dialogs'[d].caller = kam_dialogs[d].caller
           /\ c \notin DOMAIN kam_dialogs => kam_dialogs'[c].caller = s
<1> DEFINE t == match_tariff(dest)
           e == now + MaxDuration(subscribers[s].balance, t) + Grace
<1>0. /\ kam_dialogs = [k \in DOMAIN kam_dialogs |-> kam_dialogs[k]]
      /\ \A d \in DOMAIN kam_dialogs : kam_dialogs[d] \in DialogTuples
  BY DEF TypeOK, IsSpace
<1>1. CASE c \in DOMAIN kam_dialogs
  <2>1. kam_dialogs' = [kam_dialogs EXCEPT ![c] =
                           [kam_dialogs[c] EXCEPT !.expires_at = e]]
    BY <1>1 DEF authorize_call
  <2> HIDE DEF e
  <2>2. [kam_dialogs[c] EXCEPT !.expires_at = e].caller = kam_dialogs[c].caller
    BY <1>0, <1>1 DEF DialogTuples
  <2> QED
    BY <1>0, <1>1, <2>1, <2>2
<1>2. CASE c \notin DOMAIN kam_dialogs
  <2> DEFINE d == [caller |-> s, rate |-> t.rate, fee |-> t.fee, expires_at |-> e]
  <2>1. kam_dialogs' = Put(kam_dialogs, c, d)
    BY <1>2 DEF authorize_call
  <2>2. d.caller = s
    OBVIOUS
  <2> HIDE DEF d
  <2> QED
    BY <1>2, <2>1, <2>2 DEF Put
<1> QED
  BY <1>1, <1>2

\* The set of dialogs is finite at all times, so it can be counted.
FiniteDialogs == IsFiniteSet(DOMAIN kam_dialogs)

\* No step makes the set of dialogs infinite: each adds at most one.
LEMMA FiniteNext == TypeOK /\ FiniteDialogs /\ [Next]_vars => FiniteDialogs'
<1> SUFFICES ASSUME TypeOK, FiniteDialogs, [Next]_vars PROVE FiniteDialogs'
  OBVIOUS
<1>1. CASE kam_dialogs' = kam_dialogs
  BY <1>1 DEF FiniteDialogs
<1>2. ASSUME NEW k, kam_dialogs' = Drop(kam_dialogs, k) PROVE FiniteDialogs'
  <2>1. DOMAIN kam_dialogs' \subseteq DOMAIN kam_dialogs
    BY <1>2 DEF Drop
  <2> QED
    BY <2>1, FS_Subset DEF FiniteDialogs
<1>3. ASSUME NEW s \in Subs, NEW dest \in Dests, NEW c \in Calls,
             authorize_call(s, dest, c)
      PROVE  FiniteDialogs'
  <2>1. DOMAIN kam_dialogs' = DOMAIN kam_dialogs \cup {c}
    BY <1>3, AuthorizeAdds
  <2> QED
    BY <2>1, FS_AddElement DEF FiniteDialogs
<1> QED
  BY <1>1, <1>2, <1>3, DialogSteps

\* One step keeps to the limit.
LEMMA LimitStep ==
    ASSUME TypeOK, FiniteDialogs, [Next]_vars, NEW s \in Subs,
           count_active_calls(s)' > count_active_calls(s)
    PROVE  /\ s \in DOMAIN subscribers
           /\ count_active_calls(s)' <= subscribers[s].max_concurrent_calls
<1>1. DialogsOf(s) \subseteq DOMAIN kam_dialogs
  BY DEF DialogsOf
<1>2. IsFiniteSet(DialogsOf(s)) /\ Cardinality(DialogsOf(s)) \in Nat
  BY <1>1, FS_Subset, FS_CardinalityType DEF FiniteDialogs
<1>3. ASSUME DialogsOf(s)' \subseteq DialogsOf(s) PROVE FALSE
  <2>1. IsFiniteSet(DialogsOf(s)')
    BY <1>2, <1>3, FS_Subset
  <2>2. Cardinality(DialogsOf(s)') \in Nat
    BY <2>1, FS_CardinalityType
  <2>3. Cardinality(DialogsOf(s)') <= Cardinality(DialogsOf(s))
    BY <1>2, <1>3, FS_Subset
  <2> QED
    BY <1>2, <2>2, <2>3 DEF count_active_calls
<1>4. CASE kam_dialogs' = kam_dialogs
  BY <1>3, <1>4 DEF DialogsOf
<1>5. ASSUME NEW k, kam_dialogs' = Drop(kam_dialogs, k) PROVE FALSE
  BY <1>3, <1>5 DEF DialogsOf, Drop
<1>6. ASSUME NEW u \in Subs, NEW dest \in Dests, NEW c \in Calls,
             authorize_call(u, dest, c)
      PROVE  /\ s \in DOMAIN subscribers
             /\ count_active_calls(s)' <= subscribers[s].max_concurrent_calls
  <2>1. /\ DOMAIN kam_dialogs' = DOMAIN kam_dialogs \cup {c}
        /\ \A d \in DOMAIN kam_dialogs :
              kam_dialogs'[d].caller = kam_dialogs[d].caller
        /\ c \notin DOMAIN kam_dialogs => kam_dialogs'[c].caller = u
    BY <1>6, AuthorizeAdds
  <2>2. c \notin DOMAIN kam_dialogs /\ s = u
    BY <2>1, <1>3 DEF DialogsOf
  <2>3. DialogsOf(s)' = DialogsOf(s) \cup {c} /\ c \notin DialogsOf(s)
    BY <2>1, <2>2 DEF DialogsOf
  <2>4. Cardinality(DialogsOf(s)') = Cardinality(DialogsOf(s)) + 1
    BY <2>3, <1>2, FS_AddElement
  <2>5. /\ s \in DOMAIN subscribers
        /\ ~LimitReached(count_active_calls(s), subscribers[s].max_concurrent_calls)
    BY <1>6, <2>2, AllowedMeans DEF authorize_call
  <2>6. subscribers[s].max_concurrent_calls \in Nat
    BY <2>5 DEF TypeOK, IsSpace, SubTuples
  <2> QED
    BY <1>2, <2>4, <2>5, <2>6 DEF count_active_calls, LimitReached
<1> QED
  BY <1>4, <1>5, <1>6, <1>3, DialogSteps

\* authorize_call keeps every subscriber within its max_concurrent_calls in
\* every interleaving with teardowns, purges, failures and provisioning.
THEOREM LimitIsRespected == Safety => LimitRespected
<1>1. Init => FiniteDialogs
  BY EmptyIsSpace, FS_EmptySet DEF Init, FiniteDialogs
<1>2. TypeOK /\ FiniteDialogs /\ [Next]_vars =>
        [\A s \in Subs :
            count_active_calls(s)' > count_active_calls(s) =>
               /\ s \in DOMAIN subscribers
               /\ count_active_calls(s)' <= subscribers[s].max_concurrent_calls
        ]_kam_dialogs
  BY LimitStep
<1> QED
  BY <1>1, <1>2, FiniteNext, TypeCorrect, PTL DEF Safety, LimitRespected
-----------------------------------------------------------------------------
(***************************************************************************)
(* Deadlines                                                               *)
(***************************************************************************)

\* The cap of authorize_call bounds every granted duration.
LEMMA MaxDurationCapped ==
    ASSUME NEW balance \in Int, NEW t \in Tariffs, ~Insufficient(balance, t)
    PROVE  MaxDuration(balance, t) <= DurationCap
<1> DEFINE d == ((balance - t.fee) * Minute) \div t.rate
<1>1. DurationCap \in Nat
  BY BillingAssumption
<1>2. CASE t.rate = 0 \/ d > DurationCap
  BY <1>1, <1>2 DEF MaxDuration
<1>3. CASE ~(t.rate = 0 \/ d > DurationCap)
  <2>1. MaxDuration(balance, t) = d
    BY <1>3 DEF MaxDuration
  <2>2. d \in Nat
    BY <2>1, MaxDurationNat
  <2> QED
    BY <1>1, <1>3, <2>1, <2>2
<1> QED
  BY <1>2, <1>3

\* An authorization gives its call a deadline within the cap and leaves the
\* other dialogs alone.
LEMMA AuthorizeBounded ==
    ASSUME TypeOK, DeadlineBounded,
           NEW s \in Subs, NEW dest \in Dests, NEW c \in Calls,
           authorize_call(s, dest, c)
    PROVE  DeadlineBounded'
<1> DEFINE t == match_tariff(dest)
           e == now + MaxDuration(subscribers[s].balance, t) + Grace
<1>1. /\ subscribers[s] \in SubTuples
      /\ subscribers[s].balance \in Int
      /\ t \in Tariffs
      /\ ~Insufficient(subscribers[s].balance, t)
  BY AllowedMeans, MatchTariffType
     DEF authorize_call, TypeOK, IsSpace, SubTuples
<1>2. /\ MaxDuration(subscribers[s].balance, t) \in Nat
      /\ MaxDuration(subscribers[s].balance, t) <= DurationCap
  BY <1>1, MaxDurationNat, MaxDurationCapped
<1>3. now \in Nat /\ Grace \in Nat /\ DurationCap \in Nat
  BY BillingAssumption DEF TypeOK
<1>4. now' = now /\ e <= now + DurationCap + Grace
  <2>1. now' = now
    BY DEF authorize_call
  <2> QED
    BY <1>2, <1>3, <2>1
<1>5. /\ DOMAIN kam_dialogs' = DOMAIN kam_dialogs \cup {c}
      /\ kam_dialogs'[c].expires_at = e
      /\ \A k \in DOMAIN kam_dialogs \ {c} : kam_dialogs'[k] = kam_dialogs[k]
  <2>0. /\ kam_dialogs = [k \in DOMAIN kam_dialogs |-> kam_dialogs[k]]
        /\ \A k \in DOMAIN kam_dialogs : kam_dialogs[k] \in DialogTuples
    BY DEF TypeOK, IsSpace
  <2>1. CASE c \in DOMAIN kam_dialogs
    <3>1. kam_dialogs' = [kam_dialogs EXCEPT ![c].expires_at = e]
      BY <2>1 DEF authorize_call
    <3>2. kam_dialogs[c] \in DialogTuples
      BY <2>0, <2>1
    <3> HIDE DEF e
    <3> QED
      BY <2>0, <2>1, <3>1, <3>2 DEF DialogTuples
  <2>2. CASE c \notin DOMAIN kam_dialogs
    <3>1. kam_dialogs' = Put(kam_dialogs, c,
                [caller |-> s, rate |-> t.rate, fee |-> t.fee, expires_at |-> e])
      BY <2>2 DEF authorize_call
    <3> HIDE DEF e, t
    <3> QED
      BY <2>2, <3>1 DEF Put
  <2> QED
    BY <2>1, <2>2
<1> HIDE DEF e, t
<1> QED
  BY <1>4, <1>5 DEF DeadlineBounded

\* Every step keeps the deadlines bounded.
LEMMA BoundedNext ==
    TypeOK /\ DeadlineBounded /\ [Next]_vars => DeadlineBounded'
<1> SUFFICES ASSUME TypeOK, DeadlineBounded, [Next]_vars PROVE DeadlineBounded'
  OBVIOUS
<1>0. /\ now \in Nat /\ Grace \in Nat /\ DurationCap \in Nat
      /\ \A k \in DOMAIN kam_dialogs : kam_dialogs[k].expires_at \in Nat
  BY BillingAssumption DEF TypeOK, IsSpace, DialogTuples
<1>1. CASE UNCHANGED <<kam_dialogs, now>>
  BY <1>1 DEF DeadlineBounded
<1>2. ASSUME NEW k, kam_dialogs' = Drop(kam_dialogs, k), UNCHANGED now
      PROVE  DeadlineBounded'
  BY <1>2 DEF DeadlineBounded, Drop
<1>3. CASE Tick
  <2>1. kam_dialogs' = kam_dialogs /\ now' = now + 1
    BY <1>3 DEF Tick
  <2> QED
    BY <1>0, <2>1 DEF DeadlineBounded
<1>4. ASSUME NEW f \in Fibers, FinalizeStep(f) PROVE DeadlineBounded'
  BY <1>1, <1>2, <1>4 DEF FinalizeStep, WriteCdr, DeleteDialog, DeleteMedia
<1>5. CASE Purge
  BY <1>2, <1>5 DEF Purge, PurgeFirst, PurgeNext
<1> QED
  BY <1>1, <1>3, <1>4, <1>5, AuthorizeBounded
     DEF Next, add_subscriber, update_balance, SetStatus, set_tariff, MediaUpsert,
         FinalizeDebit, FinalizeNoDebit, StatementFails, Crash, vars

\* No dialog outlives the cap of authorize_call and the grace, whatever the
\* balances, tariffs and repeated authorizations.
THEOREM DeadlinesAreBounded == Safety => []DeadlineBounded
<1>1. Init => DeadlineBounded
  BY EmptyIsSpace DEF Init, DeadlineBounded
<1> QED
  BY <1>1, BoundedNext, TypeCorrect, PTL DEF Safety
-----------------------------------------------------------------------------
(***************************************************************************)
(* One charge per call                                                     *)
(***************************************************************************)

\* The inductive invariant behind ChargedOnce, for requests about one Call-ID
\* that do not overlap and statements that do not fail: one teardown of a
\* call at a time, a call with a dialog and no teardown has not been charged,
\* and a teardown that has deleted its dialog finds no new one.
OneTeardown ==
    \A f, g \in DOMAIN jobs : jobs[f].call = jobs[g].call => f = g
NotYetCharged ==
    \A c \in DOMAIN kam_dialogs :
        (\A f \in DOMAIN jobs : jobs[f].call # c) => charges[c] = 0
DialogGone ==
    \A f \in DOMAIN jobs :
        jobs[f].pc = "media" => jobs[f].call \notin DOMAIN kam_dialogs
ChargeInv == OneTeardown /\ NotYetCharged /\ DialogGone /\ ChargedOnce

\* With no dialog and no teardown under way nobody has been charged.
LEMMA ChargeInit == Init => ChargeInv
BY EmptyIsSpace DEF Init, ChargeInv, OneTeardown, NotYetCharged, DialogGone,
   ChargedOnce

\* With serial requests and no failures every step keeps ChargeInv.
LEMMA ChargeNext ==
    ASSUME SerialCalls = TRUE, Failures = FALSE, TypeOK, ChargeInv, [Next]_vars
    PROVE  ChargeInv'
<1> USE DEF ChargeInv
<1>0. /\ jobs = [f \in DOMAIN jobs |-> jobs[f]]
      /\ \A f \in DOMAIN jobs : jobs[f] \in Jobs
      /\ charges \in [Calls -> Nat]
      /\ DOMAIN kam_dialogs \subseteq Calls
  BY DEF TypeOK, IsSpace
<1>1. ASSUME NEW s \in Subs, NEW dest \in Dests, NEW c \in Calls,
             authorize_call(s, dest, c)
      PROVE  ChargeInv'
  <2>1. DOMAIN kam_dialogs' = DOMAIN kam_dialogs \cup {c}
    BY <1>1, AuthorizeAdds
  <2>2. \A f \in DOMAIN jobs : jobs[f].call # c
    BY <1>1 DEF authorize_call, Quiet
  <2>3. jobs' = jobs
    BY <1>1 DEF authorize_call
  <2>4. charges' = IF c \in DOMAIN kam_dialogs THEN charges
                                               ELSE [charges EXCEPT ![c] = 0]
    BY <1>1 DEF authorize_call
  <2> QED
    BY <1>0, <2>1, <2>2, <2>3, <2>4
       DEF OneTeardown, NotYetCharged, DialogGone, ChargedOnce
<1>2. ASSUME UNCHANGED <<kam_dialogs, jobs, charges>>
      PROVE  ChargeInv'
  BY <1>2 DEF OneTeardown, NotYetCharged, DialogGone, ChargedOnce
<1>3. ASSUME NEW k, kam_dialogs' = Drop(kam_dialogs, k), UNCHANGED <<jobs, charges>>
      PROVE  ChargeInv'
  <2>1. DOMAIN kam_dialogs' \subseteq DOMAIN kam_dialogs
    BY <1>3 DEF Drop
  <2> QED
    BY <1>3, <2>1 DEF OneTeardown, NotYetCharged, DialogGone, ChargedOnce
<1>4. ASSUME NEW f \in Fibers, NEW c \in Calls, NEW job \in Jobs,
             f \notin DOMAIN jobs, Quiet(c),
             job.call = c, job.pc # "media", jobs' = Put(jobs, f, job),
             UNCHANGED kam_dialogs,
             \A d \in Calls \ {c} : charges'[d] = charges[d],
             charges'[c] <= 1
      PROVE  ChargeInv'
  <2>1. \A g \in DOMAIN jobs : jobs[g].call # c
    BY <1>4 DEF Quiet
  <2>2. /\ DOMAIN jobs' = DOMAIN jobs \cup {f}
        /\ jobs'[f] = job
        /\ \A g \in DOMAIN jobs : jobs'[g] = jobs[g]
    BY <1>4 DEF Put
  <2>3. OneTeardown'
    BY <1>4, <2>1, <2>2 DEF OneTeardown
  <2>4. NotYetCharged'
    <3> SUFFICES ASSUME NEW d \in DOMAIN kam_dialogs,
                        \A g \in DOMAIN jobs' : jobs'[g].call # d
                 PROVE  charges'[d] = 0
      BY <1>4 DEF NotYetCharged
    <3>1. d # c
      BY <1>4, <2>2
    <3>2. \A g \in DOMAIN jobs : jobs[g].call # d
      BY <2>2
    <3> QED
      BY <3>1, <3>2, <1>0, <1>4 DEF NotYetCharged
  <2>5. DialogGone'
    BY <1>4, <2>2 DEF DialogGone
  <2>6. ChargedOnce'
    BY <1>4 DEF ChargedOnce
  <2> QED
    BY <2>3, <2>4, <2>5, <2>6
<1>5. ASSUME NEW f \in Fibers, NEW c \in Calls, NEW dur \in Durations,
             FinalizeDebit(f, c, dur)
      PROVE  ChargeInv'
  <2> DEFINE job == Job(c, dur, "cdr")
  <2>1. c \in DOMAIN kam_dialogs
    BY <1>5, BillingAssumption DEF FinalizeDebit, CallerOf, TypeOK, IsSpace
  <2>2. charges[c] = 0
    BY <1>5, <2>1 DEF FinalizeDebit, Quiet, NotYetCharged
  <2>3. charges' = [charges EXCEPT ![c] = @ + 1]
    BY <1>5 DEF FinalizeDebit
  <2>4. charges'[c] <= 1 /\ \A d \in Calls \ {c} : charges'[d] = charges[d]
    BY <2>2, <2>3, <1>0
  <2>5. job \in Jobs
    BY JobType
  <2>6. jobs' = Put(jobs, f, job)
    BY <1>5 DEF FinalizeDebit
  <2>7. job.call = c /\ job.pc # "media"
    BY DEF Job
  <2>8. f \notin DOMAIN jobs /\ Quiet(c) /\ kam_dialogs' = kam_dialogs
    BY <1>5 DEF FinalizeDebit
  <2> HIDE DEF job
  <2> QED
    BY <1>4, <2>4, <2>5, <2>6, <2>7, <2>8
<1>6. ASSUME NEW f \in Fibers, NEW c \in Calls, NEW dur \in Durations,
             FinalizeNoDebit(f, c, dur)
      PROVE  ChargeInv'
  <2> DEFINE job == Job(c, dur, "dialog")
  <2>1. job \in Jobs
    BY JobType
  <2>2. /\ jobs' = Put(jobs, f, job) /\ f \notin DOMAIN jobs /\ Quiet(c)
        /\ kam_dialogs' = kam_dialogs /\ charges' = charges
    BY <1>6 DEF FinalizeNoDebit
  <2>3. job.call = c /\ job.pc # "media"
    BY DEF Job
  <2>4. charges'[c] <= 1
    BY <2>2 DEF ChargedOnce
  <2> HIDE DEF job
  <2> QED
    BY <1>4, <2>1, <2>2, <2>3, <2>4
<1>7. ASSUME NEW f \in Fibers, WriteCdr(f)
      PROVE  ChargeInv'
  <2>1. /\ jobs' = [jobs EXCEPT ![f] = [jobs[f] EXCEPT !.pc = "dialog"]]
        /\ f \in DOMAIN jobs
        /\ UNCHANGED <<kam_dialogs, charges>>
    BY <1>7 DEF WriteCdr
  <2>2. jobs'[f].call = jobs[f].call /\ jobs'[f].pc = "dialog"
    BY <1>0, <2>1 DEF Jobs
  <2>3. DOMAIN jobs' = DOMAIN jobs /\ \A g \in DOMAIN jobs \ {f} : jobs'[g] = jobs[g]
    BY <1>0, <2>1
  <2> QED
    BY <2>1, <2>2, <2>3 DEF OneTeardown, NotYetCharged, DialogGone, ChargedOnce
<1>8. ASSUME NEW f \in Fibers, DeleteDialog(f)
      PROVE  ChargeInv'
  <2>1. /\ jobs' = [jobs EXCEPT ![f] = [jobs[f] EXCEPT !.pc = "media"]]
        /\ f \in DOMAIN jobs
        /\ kam_dialogs' = Drop(kam_dialogs, jobs[f].call)
        /\ charges' = charges
    BY <1>8 DEF DeleteDialog
  <2>2. jobs'[f].call = jobs[f].call
    BY <1>0, <2>1 DEF Jobs
  <2>3. DOMAIN jobs' = DOMAIN jobs /\ \A g \in DOMAIN jobs \ {f} : jobs'[g] = jobs[g]
    BY <1>0, <2>1
  <2>4. DOMAIN kam_dialogs' = DOMAIN kam_dialogs \ {jobs[f].call}
    BY <2>1 DEF Drop
  <2> QED
    BY <2>1, <2>2, <2>3, <2>4 DEF OneTeardown, NotYetCharged, DialogGone, ChargedOnce
<1>9. ASSUME NEW f \in Fibers, DeleteMedia(f)
      PROVE  ChargeInv'
  <2>1. /\ f \in DOMAIN jobs /\ jobs[f].pc = "media"
        /\ jobs' = Drop(jobs, f)
        /\ UNCHANGED <<kam_dialogs, charges>>
    BY <1>9 DEF DeleteMedia
  <2>2. /\ DOMAIN jobs' = DOMAIN jobs \ {f}
        /\ \A g \in DOMAIN jobs \ {f} : jobs'[g] = jobs[g]
    BY <2>1 DEF Drop
  <2>3. NotYetCharged'
    <3> SUFFICES ASSUME NEW d \in DOMAIN kam_dialogs,
                        \A g \in DOMAIN jobs' : jobs'[g].call # d
                 PROVE  charges[d] = 0
      BY <2>1 DEF NotYetCharged
    <3>1. jobs[f].call # d
      BY <2>1 DEF DialogGone
    <3> QED
      BY <3>1, <2>2 DEF NotYetCharged
  <2> QED
    BY <2>1, <2>2, <2>3 DEF OneTeardown, DialogGone, ChargedOnce
<1>10. ASSUME Purge PROVE ChargeInv'
  <2>1. /\ \E k : kam_dialogs' = Drop(kam_dialogs, k)
        /\ UNCHANGED <<jobs, charges>>
    BY <1>10 DEF Purge, PurgeFirst, PurgeNext
  <2> QED
    BY <1>3, <2>1
<1> QED
  BY <1>1, <1>2, <1>5, <1>6, <1>7, <1>8, <1>9, <1>10
     DEF Next, vars, FinalizeStep, add_subscriber, update_balance, SetStatus,
         set_tariff, MediaUpsert, StatementFails, Tick, Crash

\* When the requests about one Call-ID do not overlap and no statement of
\* finalize_cdr fails, the caller of a dialog is debited at most once for it,
\* however often its teardown is reported.
THEOREM ChargedAtMostOnce ==
    ASSUME SerialCalls = TRUE, Failures = FALSE
    PROVE  Safety => []ChargedOnce
<1>1. TypeOK /\ ChargeInv /\ [Next]_vars => ChargeInv'
  BY ChargeNext
<1>2. ChargeInv => ChargedOnce
  BY DEF ChargeInv
<1> QED
  BY <1>1, <1>2, ChargeInit, TypeCorrect, PTL DEF Safety
-----------------------------------------------------------------------------
(***************************************************************************)
(* Sums                                                                    *)
(***************************************************************************)

\* The element SumFunctionOnSet takes next.
Pick(s) == CHOOSE x \in s : TRUE

\* it is the table of partial sums from which SumFunctionOnSet(f, S) is read.
Sums(it, f, S) ==
    it = [s \in SUBSET S |->
            IF s = {} THEN 0 ELSE f[Pick(s)] + it[s \ {Pick(s)}]]

\* SumFunctionOnSet reads the sum off such a table.
LEMMA SumIs ==
    ASSUME NEW f, NEW S
    PROVE  SumFunctionOnSet(f, S) = (CHOOSE it : Sums(it, f, S))[S]
BY DEF SumFunctionOnSet, FoldFunctionOnSet, MapThenFoldSet, Sums, Pick

\* A family of subsets of a finite set that is not empty has a member none of
\* whose proper subsets is in the family.
LEMMA Smallest ==
    ASSUME NEW S, IsFiniteSet(S), NEW B \in SUBSET SUBSET S, B # {}
    PROVE  \E T \in B : \A U \in SUBSET T : U # T => U \notin B
<1>1. IsWellFoundedOn(StrictSubsetOrdering(S), SUBSET S)
  BY FS_StrictSubsetOrderingWellFounded, FS_FiniteSubsetsOfFinite
<1>2. PICK T \in B : \A U \in B : <<U, T>> \notin StrictSubsetOrdering(S)
  BY <1>1, WFMin
<1>3. ASSUME NEW U \in SUBSET T, U # T PROVE U \notin B
  BY <1>2, <1>3 DEF StrictSubsetOrdering
<1> QED
  BY <1>3

\* A finite set has one table of partial sums.
LEMMA SumsUnique ==
    ASSUME NEW f, NEW S, IsFiniteSet(S), NEW a, NEW b, Sums(a, f, S), Sums(b, f, S)
    PROVE  a = b
<1> DEFINE B == {T \in SUBSET S : a[T] # b[T]}
<1>0. B \in SUBSET SUBSET S
  OBVIOUS
<1>1. ASSUME B # {} PROVE FALSE
  <2>1. PICK T \in B : \A U \in SUBSET T : U # T => U \notin B
    <3> HIDE DEF B
    <3> QED
      BY <1>0, <1>1, Smallest
  <2>2. T \in SUBSET S /\ a[T] # b[T]
    BY <2>1
  <2>3. /\ a[T] = IF T = {} THEN 0 ELSE f[Pick(T)] + a[T \ {Pick(T)}]
        /\ b[T] = IF T = {} THEN 0 ELSE f[Pick(T)] + b[T \ {Pick(T)}]
    BY <2>2 DEF Sums
  <2>4. T # {} 
    BY <2>2, <2>3
  <2>5. Pick(T) \in T
    BY <2>4 DEF Pick
  <2>6. T \ {Pick(T)} \notin B
    BY <2>1, <2>5
  <2> QED
    BY <2>2, <2>3, <2>4, <2>6
<1>2. \A T \in SUBSET S : a[T] = b[T]
  BY <1>1
<1>3. /\ a = [s \in SUBSET S |-> a[s]]
      /\ b = [s \in SUBSET S |-> b[s]]
  BY DEF Sums
<1> QED
  BY <1>2, <1>3

\* The table of a set holds the tables of its subsets.
LEMMA SumsRestrict ==
    ASSUME NEW f, NEW S, NEW T \in SUBSET S, NEW a, Sums(a, f, S)
    PROVE  Sums([s \in SUBSET T |-> a[s]], f, T)
<1> DEFINE r == [s \in SUBSET T |-> a[s]]
<1>1. ASSUME NEW s \in SUBSET T
      PROVE  r[s] = IF s = {} THEN 0 ELSE f[Pick(s)] + r[s \ {Pick(s)}]
  <2>1. a[s] = IF s = {} THEN 0 ELSE f[Pick(s)] + a[s \ {Pick(s)}]
    BY DEF Sums
  <2>2. s \ {Pick(s)} \in SUBSET T
    OBVIOUS
  <2> QED
    BY <2>1, <2>2
<1>2. r = [s \in SUBSET T |-> r[s]]
  OBVIOUS
<1> HIDE DEF r
<1>3. r = [s \in SUBSET T |->
            IF s = {} THEN 0 ELSE f[Pick(s)] + r[s \ {Pick(s)}]]
  BY <1>1, <1>2
<1> QED
  BY <1>3 DEF Sums, r

\* Where there is a table, the sum is the next element's value and the sum of
\* the rest.
LEMMA SumUnfolds ==
    ASSUME NEW f, NEW S, IsFiniteSet(S), NEW a, Sums(a, f, S)
    PROVE  SumFunctionOnSet(f, S) =
              IF S = {} THEN 0
              ELSE f[Pick(S)] + SumFunctionOnSet(f, S \ {Pick(S)})
<1> DEFINE T == S \ {Pick(S)}
           r == [s \in SUBSET T |-> a[s]]
<1>1. IsFiniteSet(T)
  BY FS_Subset
<1>2. Sums(r, f, T)
  BY SumsRestrict
<1>3. Sums(CHOOSE it : Sums(it, f, S), f, S) /\ Sums(CHOOSE it : Sums(it, f, T), f, T)
  BY <1>2
<1>4. SumFunctionOnSet(f, S) = a[S]
  BY <1>3, SumIs, SumsUnique
<1>5. SumFunctionOnSet(f, T) = r[T]
  BY <1>3, <1>1, <1>2, SumIs, SumsUnique
<1>6. r[T] = a[T]
  OBVIOUS
<1>7. a[S] = IF S = {} THEN 0 ELSE f[Pick(S)] + a[T]
  BY DEF Sums
<1> QED
  BY <1>4, <1>5, <1>6, <1>7

\* Every finite set has a table: a smallest set without one would get it from
\* the sums of its proper subsets.
LEMMA SumsExist ==
    ASSUME NEW f, NEW S, IsFiniteSet(S)
    PROVE  \E it : Sums(it, f, S)
<1> DEFINE B == {T \in SUBSET S : ~\E it : Sums(it, f, T)}
<1>0. B \in SUBSET SUBSET S
  OBVIOUS
<1>1. ASSUME B # {} PROVE FALSE
  <2>1. PICK T \in B : \A U \in SUBSET T : U # T => U \notin B
    <3> HIDE DEF B
    <3> QED
      BY <1>0, <1>1, Smallest
  <2>2. T \in SUBSET S /\ ~\E it : Sums(it, f, T)
    BY <2>1
  <2> DEFINE v(s) == IF s = {} THEN 0
                     ELSE f[Pick(s)] + SumFunctionOnSet(f, s \ {Pick(s)})
             h == [s \in SUBSET T |-> v(s)]
  <2>3. ASSUME NEW s \in SUBSET T, s # T PROVE SumFunctionOnSet(f, s) = v(s)
    <3>1. s \in SUBSET S /\ s \notin B
      BY <2>1, <2>2, <2>3
    <3>2. PICK it : Sums(it, f, s)
      BY <3>1
    <3>3. IsFiniteSet(s)
      BY <3>1, FS_Subset
    <3> QED
      BY <3>2, <3>3, SumUnfolds
  <2>4. ASSUME NEW s \in SUBSET T, s # {}
        PROVE  h[s \ {Pick(s)}] = SumFunctionOnSet(f, s \ {Pick(s)})
    <3>1. Pick(s) \in s
      BY <2>4 DEF Pick
    <3>2. s \ {Pick(s)} \in SUBSET T /\ s \ {Pick(s)} # T
      BY <3>1
    <3> QED
      BY <3>2, <2>3
  <2>5. ASSUME NEW s \in SUBSET T
        PROVE  h[s] = IF s = {} THEN 0 ELSE f[Pick(s)] + h[s \ {Pick(s)}]
    <3>1. h[s] = v(s)
      OBVIOUS
    <3> HIDE DEF h
    <3> QED
      BY <3>1, <2>4
  <2>6. h = [s \in SUBSET T |-> h[s]]
    OBVIOUS
  <2> HIDE DEF h
  <2>7. h = [s \in SUBSET T |->
               IF s = {} THEN 0 ELSE f[Pick(s)] + h[s \ {Pick(s)}]]
    BY <2>5, <2>6
  <2>8. Sums(h, f, T)
    BY <2>7 DEF Sums
  <2> QED
    BY <2>8, <2>2
<1> QED
  BY <1>1

\* The equation by which SumFunctionOnSet is computed.
LEMMA SumStep ==
    ASSUME NEW f, NEW S, IsFiniteSet(S)
    PROVE  SumFunctionOnSet(f, S) =
              IF S = {} THEN 0
              ELSE f[Pick(S)] + SumFunctionOnSet(f, S \ {Pick(S)})
<1>1. PICK it : Sums(it, f, S)
  BY SumsExist
<1> QED
  BY <1>1, SumUnfolds

\* A sum of integers is an integer.
LEMMA SumInt ==
    ASSUME NEW f, NEW S, IsFiniteSet(S), \A x \in S : f[x] \in Int
    PROVE  SumFunctionOnSet(f, S) \in Int
<1> DEFINE B == {T \in SUBSET S : SumFunctionOnSet(f, T) \notin Int}
<1>0. B \in SUBSET SUBSET S
  OBVIOUS
<1>1. ASSUME B # {} PROVE FALSE
  <2>1. PICK T \in B : \A U \in SUBSET T : U # T => U \notin B
    <3> HIDE DEF B
    <3> QED
      BY <1>0, <1>1, Smallest
  <2>2. T \in SUBSET S /\ IsFiniteSet(T) /\ SumFunctionOnSet(f, T) \notin Int
    BY <2>1, FS_Subset
  <2>3. T # {}
    <3>1. T = {} => SumFunctionOnSet(f, T) = 0
      BY <2>2, SumStep
    <3> QED
      BY <2>2, <3>1
  <2>4. Pick(T) \in T
    BY <2>3 DEF Pick
  <2>5. SumFunctionOnSet(f, T \ {Pick(T)}) \in Int
    BY <2>1, <2>2, <2>4
  <2>6. f[Pick(T)] \in Int
    BY <2>2, <2>4
  <2>7. SumFunctionOnSet(f, T) = f[Pick(T)] + SumFunctionOnSet(f, T \ {Pick(T)})
    BY <2>2, <2>3, SumStep
  <2> QED
    BY <2>2, <2>5, <2>6, <2>7
<1> QED
  BY <1>1

\* The order plays no part: any element can be taken out first.
LEMMA SumRemove ==
    ASSUME NEW f, NEW S, IsFiniteSet(S), \A x \in S : f[x] \in Int, NEW k \in S
    PROVE  SumFunctionOnSet(f, S) = f[k] + SumFunctionOnSet(f, S \ {k})
<1> DEFINE B == {T \in SUBSET S : \E x \in T :
                    SumFunctionOnSet(f, T) # f[x] + SumFunctionOnSet(f, T \ {x})}
<1>0. B \in SUBSET SUBSET S
  OBVIOUS
<1>1. ASSUME B # {} PROVE FALSE
  <2>1. PICK T \in B : \A U \in SUBSET T : U # T => U \notin B
    <3> HIDE DEF B
    <3> QED
      BY <1>0, <1>1, Smallest
  <2>2. T \in SUBSET S /\ IsFiniteSet(T)
    BY <2>1, FS_Subset
  <2>3. PICK x \in T : SumFunctionOnSet(f, T) # f[x] + SumFunctionOnSet(f, T \ {x})
    BY <2>1
  <2> DEFINE y == Pick(T)
             R == (T \ {x}) \ {y}
  <2>4. y \in T
    BY <2>3 DEF Pick
  <2> HIDE DEF y
  <2>5. SumFunctionOnSet(f, T) = f[y] + SumFunctionOnSet(f, T \ {y})
    BY <2>2, <2>3, SumStep DEF y
  <2>6. x # y
    BY <2>3, <2>5
  <2>7. SumFunctionOnSet(f, T \ {y}) = f[x] + SumFunctionOnSet(f, (T \ {y}) \ {x})
    <3>1. T \ {y} \notin B /\ x \in T \ {y} /\ T \ {y} \in SUBSET S
      BY <2>1, <2>2, <2>4, <2>6
    <3> QED
      BY <3>1
  <2>8. SumFunctionOnSet(f, T \ {x}) = f[y] + SumFunctionOnSet(f, R)
    <3>1. T \ {x} \notin B /\ y \in T \ {x} /\ T \ {x} \in SUBSET S
      BY <2>1, <2>2, <2>4, <2>6
    <3> QED
      BY <3>1
  <2>9. (T \ {y}) \ {x} = R
    OBVIOUS
  <2>10. f[x] \in Int /\ f[y] \in Int /\ SumFunctionOnSet(f, R) \in Int
    <3>1. IsFiniteSet(R) /\ R \subseteq S
      BY <2>2, FS_Subset
    <3> QED
      BY <3>1, <2>2, <2>3, <2>4, SumInt
  <2>11. SumFunctionOnSet(f, T \ {y}) = f[x] + SumFunctionOnSet(f, R)
    BY <2>7, <2>9
  <2> HIDE DEF R
  <2>12. f[y] + (f[x] + SumFunctionOnSet(f, R)) = f[x] + (f[y] + SumFunctionOnSet(f, R))
    BY <2>10
  <2> QED
    BY <2>3, <2>5, <2>8, <2>11, <2>12
<1>2. S \notin B
  BY <1>1
<1> QED
  BY <1>2

\* Only the values at the elements of the set count.
LEMMA SumCongruent ==
    ASSUME NEW f, NEW g, NEW S, IsFiniteSet(S), \A x \in S : f[x] = g[x]
    PROVE  SumFunctionOnSet(f, S) = SumFunctionOnSet(g, S)
<1> DEFINE B == {T \in SUBSET S : SumFunctionOnSet(f, T) # SumFunctionOnSet(g, T)}
<1>0. B \in SUBSET SUBSET S
  OBVIOUS
<1>1. ASSUME B # {} PROVE FALSE
  <2>1. PICK T \in B : \A U \in SUBSET T : U # T => U \notin B
    <3> HIDE DEF B
    <3> QED
      BY <1>0, <1>1, Smallest
  <2>2. T \in SUBSET S /\ IsFiniteSet(T)
    BY <2>1, FS_Subset
  <2>3. T # {}
    BY <2>1, <2>2, SumStep
  <2>4. Pick(T) \in T
    BY <2>3 DEF Pick
  <2>5. SumFunctionOnSet(f, T \ {Pick(T)}) = SumFunctionOnSet(g, T \ {Pick(T)})
    BY <2>1, <2>2, <2>4
  <2>6. f[Pick(T)] = g[Pick(T)]
    BY <2>2, <2>4
  <2>7. /\ SumFunctionOnSet(f, T) = f[Pick(T)] + SumFunctionOnSet(f, T \ {Pick(T)})
        /\ SumFunctionOnSet(g, T) = g[Pick(T)] + SumFunctionOnSet(g, T \ {Pick(T)})
    BY <2>2, <2>3, SumStep
  <2> QED
    BY <2>1, <2>5, <2>6, <2>7
<1> QED
  BY <1>1

\* A sum changes by what one changed element contributes before and after.
LEMMA SumChange ==
    ASSUME NEW f, NEW S, IsFiniteSet(S), \A x \in S : f[x] \in Int,
           NEW g, NEW T, IsFiniteSet(T), \A x \in T : g[x] \in Int,
           NEW k, S \ {k} = T \ {k}, \A x \in S \ {k} : f[x] = g[x]
    PROVE  SumFunctionOnSet(g, T) = SumFunctionOnSet(f, S)
              - (IF k \in S THEN f[k] ELSE 0) + (IF k \in T THEN g[k] ELSE 0)
<1> DEFINE R == S \ {k}
<1>1. IsFiniteSet(R)
  BY FS_Subset
<1>2. SumFunctionOnSet(f, R) = SumFunctionOnSet(g, R)
  BY <1>1, SumCongruent
<1>3. SumFunctionOnSet(f, R) \in Int
  BY <1>1, SumInt
<1>4. SumFunctionOnSet(f, S) = (IF k \in S THEN f[k] ELSE 0) + SumFunctionOnSet(f, R)
  <2>1. CASE k \in S
    BY <2>1, SumRemove
  <2>2. CASE k \notin S
    <3>1. R = S
      BY <2>2
    <3> HIDE DEF R
    <3> QED
      BY <3>1, <2>2, <1>3
  <2> QED
    BY <2>1, <2>2
<1>5. SumFunctionOnSet(g, T) = (IF k \in T THEN g[k] ELSE 0) + SumFunctionOnSet(g, R)
  <2>0. R = T \ {k}
    OBVIOUS
  <2>1. CASE k \in T
    BY <2>0, <2>1, SumRemove
  <2>2. CASE k \notin T
    <3>1. R = T
      BY <2>0, <2>2
    <3> HIDE DEF R
    <3> QED
      BY <3>1, <2>2, <1>2, <1>3
  <2> QED
    BY <2>1, <2>2
<1>6. (k \in S => f[k] \in Int) /\ (k \in T => g[k] \in Int)
  OBVIOUS
<1> HIDE DEF R
<1> QED
  BY <1>2, <1>3, <1>4, <1>5, <1>6

-----------------------------------------------------------------------------
(***************************************************************************)
(* What one statement does to the two sums                                 *)
(***************************************************************************)

\* Recorded and InFlight as functions of the space they are taken over.
CdrSum(sp, s) == SumFunctionOnSet([k \in DOMAIN sp |-> sp[k].billed],
                                  {k \in DOMAIN sp : sp[k].caller = s})
JobSum(sp, s) ==
    SumFunctionOnSet([f \in DOMAIN sp |-> sp[f].billed],
                     {f \in DOMAIN sp : sp[f].pc = "cdr" /\ sp[f].caller = s})

\* What one CDR, and one teardown, contributes to them.
CdrShare(sp, k, s) ==
    IF k \in DOMAIN sp /\ sp[k].caller = s THEN sp[k].billed ELSE 0
JobShare(sp, f, s) ==
    IF f \in DOMAIN sp /\ sp[f].pc = "cdr" /\ sp[f].caller = s
    THEN sp[f].billed ELSE 0

\* A changed CDR changes the sum by the difference of its shares.
LEMMA CdrSumChange ==
    ASSUME NEW K, NEW a, IsSpace(a, K, CdrTuples), IsFiniteSet(DOMAIN a),
           NEW b, IsSpace(b, K, CdrTuples), IsFiniteSet(DOMAIN b),
           NEW k, DOMAIN a \ {k} = DOMAIN b \ {k},
           \A j \in DOMAIN a \ {k} : a[j] = b[j], NEW s
    PROVE  /\ CdrSum(a, s) \in Int
           /\ CdrSum(b, s) = CdrSum(a, s) - CdrShare(a, k, s) + CdrShare(b, k, s)
<1> DEFINE f == [j \in DOMAIN a |-> a[j].billed]
           S == {j \in DOMAIN a : a[j].caller = s}
           g == [j \in DOMAIN b |-> b[j].billed]
           T == {j \in DOMAIN b : b[j].caller = s}
<1>1. IsFiniteSet(S) /\ IsFiniteSet(T)
  BY FS_Subset
<1>2. (\A j \in S : f[j] \in Int) /\ (\A j \in T : g[j] \in Int)
  BY DEF IsSpace, CdrTuples
<1>3. S \ {k} = T \ {k} /\ \A j \in S \ {k} : f[j] = g[j]
  OBVIOUS
<1>4. /\ CdrShare(a, k, s) = IF k \in S THEN f[k] ELSE 0
      /\ CdrShare(b, k, s) = IF k \in T THEN g[k] ELSE 0
  BY DEF CdrShare
<1>5. /\ CdrSum(a, s) = SumFunctionOnSet(f, S)
      /\ CdrSum(b, s) = SumFunctionOnSet(g, T)
  BY DEF CdrSum
<1> HIDE DEF f, S, g, T
<1>6. SumFunctionOnSet(f, S) \in Int
  BY <1>1, <1>2, SumInt
<1>7. SumFunctionOnSet(g, T) = SumFunctionOnSet(f, S)
              - (IF k \in S THEN f[k] ELSE 0) + (IF k \in T THEN g[k] ELSE 0)
  BY <1>1, <1>2, <1>3, SumChange
<1> QED
  BY <1>4, <1>5, <1>6, <1>7

\* The same for the teardowns under way.
LEMMA JobSumChange ==
    ASSUME NEW a, IsSpace(a, Fibers, Jobs), IsFiniteSet(DOMAIN a),
           NEW b, IsSpace(b, Fibers, Jobs), IsFiniteSet(DOMAIN b),
           NEW k, DOMAIN a \ {k} = DOMAIN b \ {k},
           \A j \in DOMAIN a \ {k} : a[j] = b[j], NEW s
    PROVE  /\ JobSum(a, s) \in Int
           /\ JobSum(b, s) = JobSum(a, s) - JobShare(a, k, s) + JobShare(b, k, s)
<1> DEFINE f == [j \in DOMAIN a |-> a[j].billed]
           S == {j \in DOMAIN a : a[j].pc = "cdr" /\ a[j].caller = s}
           g == [j \in DOMAIN b |-> b[j].billed]
           T == {j \in DOMAIN b : b[j].pc = "cdr" /\ b[j].caller = s}
<1>1. IsFiniteSet(S) /\ IsFiniteSet(T)
  BY FS_Subset
<1>2. (\A j \in S : f[j] \in Int) /\ (\A j \in T : g[j] \in Int)
  BY DEF IsSpace, Jobs
<1>3. S \ {k} = T \ {k} /\ \A j \in S \ {k} : f[j] = g[j]
  OBVIOUS
<1>4. /\ JobShare(a, k, s) = IF k \in S THEN f[k] ELSE 0
      /\ JobShare(b, k, s) = IF k \in T THEN g[k] ELSE 0
  BY DEF JobShare
<1>5. /\ JobSum(a, s) = SumFunctionOnSet(f, S)
      /\ JobSum(b, s) = SumFunctionOnSet(g, T)
  BY DEF JobSum
<1> HIDE DEF f, S, g, T
<1>6. SumFunctionOnSet(f, S) \in Int
  BY <1>1, <1>2, SumInt
<1>7. SumFunctionOnSet(g, T) = SumFunctionOnSet(f, S)
              - (IF k \in S THEN f[k] ELSE 0) + (IF k \in T THEN g[k] ELSE 0)
  BY <1>1, <1>2, <1>3, SumChange
<1> QED
  BY <1>4, <1>5, <1>6, <1>7
-----------------------------------------------------------------------------
(***************************************************************************)
(* The books                                                               *)
(***************************************************************************)

\* Subscribers are never deleted, so the caller of a dialog is one.
CallersKnown ==
    \A c \in DOMAIN kam_dialogs : kam_dialogs[c].caller \in DOMAIN subscribers

\* Every step keeps the callers.
LEMMA CallersNext == TypeOK /\ CallersKnown /\ [Next]_vars => CallersKnown'
<1> SUFFICES ASSUME TypeOK, CallersKnown, [Next]_vars PROVE CallersKnown'
  OBVIOUS
<1>1. DOMAIN subscribers \subseteq DOMAIN subscribers'
  <2>1. /\ subscribers = [s \in DOMAIN subscribers |-> subscribers[s]]
    BY DEF TypeOK, IsSpace
  <2>2. ASSUME NEW s, NEW rec, subscribers' = [subscribers EXCEPT ![s] = rec]
        PROVE  DOMAIN subscribers \subseteq DOMAIN subscribers'
    BY <2>1, <2>2
  <2>3. ASSUME NEW s, NEW rec, subscribers' = Put(subscribers, s, rec)
        PROVE  DOMAIN subscribers \subseteq DOMAIN subscribers'
    BY <2>3 DEF Put
  <2>4. ASSUME NEW f \in Fibers, FinalizeStep(f) PROVE subscribers' = subscribers
    BY <2>4 DEF FinalizeStep, WriteCdr, DeleteDialog, DeleteMedia
  <2> QED
    BY <2>2, <2>3, <2>4
       DEF Next, vars, authorize_call, add_subscriber, update_balance, SetStatus,
           set_tariff, MediaUpsert, FinalizeDebit, FinalizeNoDebit, StatementFails,
           Tick, Purge, PurgeFirst, PurgeNext, Crash
<1>2. CASE kam_dialogs' = kam_dialogs
  BY <1>1, <1>2 DEF CallersKnown
<1>3. ASSUME NEW k, kam_dialogs' = Drop(kam_dialogs, k) PROVE CallersKnown'
  BY <1>1, <1>3 DEF CallersKnown, Drop
<1>4. ASSUME NEW s \in Subs, NEW dest \in Dests, NEW c \in Calls,
             authorize_call(s, dest, c)
      PROVE  CallersKnown'
  <2>1. /\ DOMAIN kam_dialogs' = DOMAIN kam_dialogs \cup {c}
        /\ \A d \in DOMAIN kam_dialogs :
              kam_dialogs'[d].caller = kam_dialogs[d].caller
        /\ c \notin DOMAIN kam_dialogs => kam_dialogs'[c].caller = s
    BY <1>4, AuthorizeAdds
  <2>2. s \in DOMAIN subscribers
    BY <1>4, AllowedMeans DEF authorize_call
  <2> QED
    BY <1>1, <2>1, <2>2 DEF CallersKnown
<1> QED
  BY <1>2, <1>3, <1>4, DialogSteps

\* There are finitely many CDRs and teardowns, so they can be added up.
FiniteBooks == IsFiniteSet(DOMAIN cdrs) /\ IsFiniteSet(DOMAIN jobs)

\* A statement changes one CDR and one teardown at most; only a stop of the
\* instance drops all teardowns.
LEMMA BookSteps ==
    ASSUME TypeOK, [Next]_vars
    PROVE  /\ \E k : /\ DOMAIN cdrs' \ {k} = DOMAIN cdrs \ {k}
                     /\ \A j \in DOMAIN cdrs \ {k} : cdrs'[j] = cdrs[j]
           /\ \/ Crash
              \/ \E f : /\ DOMAIN jobs' \ {f} = DOMAIN jobs \ {f}
                        /\ \A j \in DOMAIN jobs \ {f} : jobs'[j] = jobs[j]
<1> DEFINE C == \E k : /\ DOMAIN cdrs' \ {k} = DOMAIN cdrs \ {k}
                       /\ \A j \in DOMAIN cdrs \ {k} : cdrs'[j] = cdrs[j]
           J == \E f : /\ DOMAIN jobs' \ {f} = DOMAIN jobs \ {f}
                       /\ \A j \in DOMAIN jobs \ {f} : jobs'[j] = jobs[j]
<1>1. (cdrs' = cdrs => C) /\ (jobs' = jobs => J)
  OBVIOUS
<1>2. ASSUME NEW k, NEW t, cdrs' = Put(cdrs, k, t) PROVE C
  BY <1>2 DEF Put
<1>3. ASSUME NEW f, NEW job, jobs' = Put(jobs, f, job) PROVE J
  BY <1>3 DEF Put
<1>4. ASSUME NEW f, jobs' = Drop(jobs, f) PROVE J
  BY <1>4 DEF Drop
<1>5. ASSUME NEW f, NEW job, jobs' = [jobs EXCEPT ![f] = job] PROVE J
  <2>1. jobs = [j \in DOMAIN jobs |-> jobs[j]]
    BY DEF TypeOK, IsSpace
  <2> QED
    BY <1>5, <2>1
<1> HIDE DEF C, J
<1>6. ASSUME NEW f \in Fibers, FinalizeStep(f) PROVE C /\ J
  <2>1. CASE WriteCdr(f)
    BY <2>1, <1>2, <1>5 DEF WriteCdr
  <2>2. CASE DeleteDialog(f)
    BY <2>2, <1>1, <1>5 DEF DeleteDialog
  <2>3. CASE DeleteMedia(f)
    BY <2>3, <1>1, <1>4 DEF DeleteMedia
  <2> QED
    BY <1>6, <2>1, <2>2, <2>3 DEF FinalizeStep
<1>7. ASSUME NEW f \in Fibers, NEW c \in Calls, NEW dur \in Durations,
             FinalizeDebit(f, c, dur) \/ FinalizeNoDebit(f, c, dur)
      PROVE  C /\ J
  BY <1>7, <1>1, <1>2, <1>3 DEF FinalizeDebit, FinalizeNoDebit
<1>8. ASSUME NEW f \in Fibers, StatementFails(f) PROVE C /\ J
  BY <1>8, <1>1, <1>4 DEF StatementFails
<1>9. Crash => C
  BY <1>1 DEF Crash
<1>10. UNCHANGED <<cdrs, jobs>> => C /\ J
  BY <1>1
<1>11. C /\ (Crash \/ J)
  BY <1>6, <1>7, <1>8, <1>9, <1>10
     DEF Next, vars, authorize_call, add_subscriber, update_balance, SetStatus,
         set_tariff, MediaUpsert, Tick, Purge, PurgeFirst, PurgeNext
<1> QED
  BY <1>11 DEF C, J

\* No step makes the books infinite.
LEMMA FiniteBooksNext == TypeOK /\ FiniteBooks /\ [Next]_vars => FiniteBooks'
<1> SUFFICES ASSUME TypeOK, FiniteBooks, [Next]_vars PROVE FiniteBooks'
  OBVIOUS
<1>1. ASSUME NEW A, IsFiniteSet(A), NEW B, NEW k, B \ {k} = A \ {k}
      PROVE  IsFiniteSet(B)
  <2>1. IsFiniteSet(A \cup {k}) /\ B \subseteq A \cup {k}
    BY <1>1, FS_AddElement
  <2> QED
    BY <2>1, FS_Subset
<1>2. IsFiniteSet(DOMAIN cdrs')
  BY <1>1, BookSteps DEF FiniteBooks
<1>3. CASE Crash
  BY <1>2, <1>3, EmptyIsSpace, FS_EmptySet DEF Crash, FiniteBooks
<1>4. ASSUME NEW f, DOMAIN jobs' \ {f} = DOMAIN jobs \ {f} PROVE FiniteBooks'
  BY <1>1, <1>2, <1>4 DEF FiniteBooks
<1> QED
  BY <1>3, <1>4, BookSteps

\* The account of a subscriber; one that does not exist has no money.
Balance(s) == IF s \in DOMAIN subscribers THEN subscribers[s].balance ELSE 0

\* What came to the account or was waived.
Credit(s) == credited[s] + waived[s]

\* What was credited or waived and is neither on the account nor in the books.
Gap(s) == Credit(s) - Recorded(s) - InFlight(s) - Balance(s)

\* The sums are integers, and so is what is missing.
LEMMA GapInt ==
    ASSUME TypeOK, FiniteBooks, NEW s \in Subs
    PROVE  /\ CdrSum(cdrs, s) \in Int /\ JobSum(jobs, s) \in Int
           /\ Balance(s) \in Int /\ Credit(s) \in Int
           /\ Gap(s) = Credit(s) - CdrSum(cdrs, s) - JobSum(jobs, s) - Balance(s)
           /\ Gap(s) \in Int
<1>1. CdrSum(cdrs, s) \in Int /\ JobSum(jobs, s) \in Int
  BY CdrSumChange, JobSumChange DEF TypeOK, FiniteBooks
<1>2. Balance(s) \in Int /\ Credit(s) \in Int
  BY DEF Balance, Credit, TypeOK, IsSpace, SubTuples
<1>3. Gap(s) = Credit(s) - CdrSum(cdrs, s) - JobSum(jobs, s) - Balance(s)
  BY DEF Gap, Recorded, InFlight, CdrSum, JobSum
<1> QED
  BY <1>1, <1>2, <1>3

\* A statement that changes CDR k and teardown f changes the gap by what it
\* credits, less the changes of the account and of the two shares.
LEMMA GapChange ==
    ASSUME TypeOK, FiniteBooks, TypeOK', FiniteBooks', NEW s \in Subs,
           NEW k, DOMAIN cdrs' \ {k} = DOMAIN cdrs \ {k},
           \A j \in DOMAIN cdrs \ {k} : cdrs'[j] = cdrs[j],
           NEW f, DOMAIN jobs' \ {f} = DOMAIN jobs \ {f},
           \A j \in DOMAIN jobs \ {f} : jobs'[j] = jobs[j]
    PROVE  Gap(s)' = Gap(s) + (Credit(s)' - Credit(s)) - (Balance(s)' - Balance(s))
              + (CdrShare(cdrs, k, s) - CdrShare(cdrs', k, s))
              + (JobShare(jobs, f, s) - JobShare(jobs', f, s))
<1>1. CdrSum(cdrs', s) =
         CdrSum(cdrs, s) - CdrShare(cdrs, k, s) + CdrShare(cdrs', k, s)
  BY CdrSumChange DEF TypeOK, FiniteBooks
<1>2. JobSum(jobs', s) =
         JobSum(jobs, s) - JobShare(jobs, f, s) + JobShare(jobs', f, s)
  BY JobSumChange DEF TypeOK, FiniteBooks
<1>3. /\ CdrSum(cdrs, s) \in Int /\ JobSum(jobs, s) \in Int
      /\ Balance(s) \in Int /\ Credit(s) \in Int
      /\ Gap(s) = Credit(s) - CdrSum(cdrs, s) - JobSum(jobs, s) - Balance(s)
  BY GapInt
<1>4. /\ CdrSum(cdrs', s) \in Int /\ JobSum(jobs', s) \in Int
      /\ Balance(s)' \in Int /\ Credit(s)' \in Int
  <2>1. CdrSum(cdrs', s) \in Int /\ JobSum(jobs', s) \in Int
    BY CdrSumChange, JobSumChange DEF TypeOK, FiniteBooks
  <2>2. Balance(s)' \in Int /\ Credit(s)' \in Int
    BY DEF Balance, Credit, TypeOK, IsSpace, SubTuples
  <2> QED
    BY <2>1, <2>2
<1>5. Gap(s)' = Credit(s)' - CdrSum(cdrs', s) - JobSum(jobs', s) - Balance(s)'
  BY DEF Gap, Recorded, InFlight, CdrSum, JobSum
<1>6. /\ CdrShare(cdrs, k, s) \in Int /\ CdrShare(cdrs', k, s) \in Int
      /\ JobShare(jobs, f, s) \in Int /\ JobShare(jobs', f, s) \in Int
  BY DEF CdrShare, JobShare, TypeOK, IsSpace, CdrTuples, Jobs
<1> QED
  BY <1>1, <1>2, <1>3, <1>4, <1>5, <1>6

\* The same for a statement that leaves the CDRs alone.
LEMMA GapJobs ==
    ASSUME TypeOK, FiniteBooks, TypeOK', FiniteBooks', NEW s \in Subs,
           UNCHANGED cdrs,
           NEW f, DOMAIN jobs' \ {f} = DOMAIN jobs \ {f},
           \A j \in DOMAIN jobs \ {f} : jobs'[j] = jobs[j]
    PROVE  Gap(s)' = Gap(s) + (Credit(s)' - Credit(s)) - (Balance(s)' - Balance(s))
              + (JobShare(jobs, f, s) - JobShare(jobs', f, s))
<1> DEFINE d == (Credit(s)' - Credit(s)) - (Balance(s)' - Balance(s))
           e == JobShare(jobs, f, s) - JobShare(jobs', f, s)
           x == CdrShare(cdrs, f, s)
<1>1. Gap(s)' = Gap(s) + (Credit(s)' - Credit(s)) - (Balance(s)' - Balance(s))
              + (x - CdrShare(cdrs', f, s))
              + (JobShare(jobs, f, s) - JobShare(jobs', f, s))
  BY GapChange
<1>2. CdrShare(cdrs', f, s) = x /\ x \in Int
  BY DEF CdrShare, TypeOK, IsSpace, CdrTuples
<1>3. Balance(s) \in Int /\ Credit(s) \in Int /\ Gap(s) \in Int
  BY GapInt
<1>4. Balance(s)' \in Int /\ Credit(s)' \in Int
  BY DEF Balance, Credit, TypeOK, IsSpace, SubTuples
<1>5. JobShare(jobs, f, s) \in Int /\ JobShare(jobs', f, s) \in Int
  BY DEF JobShare, TypeOK, IsSpace, Jobs
<1> HIDE DEF x
<1> QED
  BY <1>1, <1>2, <1>3, <1>4, <1>5

\* The keys of the CDRs a step of finalize_cdr replaces.
Writes(k) ==
    \/ \E f \in Fibers :
          WriteCdr(f) /\ k = CdrKey(jobs[f].call, jobs[f].end_epoch)
    \/ \E f \in Fibers, c \in Calls, dur \in Durations :
          FinalizeNoDebit(f, c, dur) /\ k = CdrKey(c, now)

\* What can happen to the gap of a subscriber in one step: nothing, or a CDR
\* that is replaced, a teardown that fails or a stop of the instance takes
\* amounts out of the books.
GapOutcome(s) ==
    \/ Gap(s)' = Gap(s)
    \/ \E k : Writes(k) /\ Gap(s)' = Gap(s) + CdrShare(cdrs, k, s)
    \/ Failures /\ \E f : Gap(s)' = Gap(s) + JobShare(jobs, f, s)
    \/ Failures /\ Gap(s)' = Gap(s) + JobSum(jobs, s)

\* Provisioning and top-ups credit what they add to the account.
LEMMA GapProvisioning ==
    ASSUME TypeOK, FiniteBooks, TypeOK', FiniteBooks', NEW s \in Subs, NEW u \in Subs,
           UNCHANGED <<cdrs, jobs>>, NEW d \in Int,
           credited' = [credited EXCEPT ![u] = @ + d], UNCHANGED waived,
           Balance(u)' = Balance(u) + d,
           s # u => Balance(s)' = Balance(s)
    PROVE  Gap(s)' = Gap(s)
<1>1. /\ Balance(s) \in Int /\ Credit(s) \in Int /\ Gap(s) \in Int
      /\ CdrSum(cdrs, s) \in Int /\ JobSum(jobs, s) \in Int
      /\ Gap(s) = Credit(s) - CdrSum(cdrs, s) - JobSum(jobs, s) - Balance(s)
  BY GapInt
<1>2. credited \in [Subs -> Int] /\ waived \in [Subs -> Nat]
  BY DEF TypeOK
<1>3. Gap(s)' = Credit(s)' - CdrSum(cdrs, s) - JobSum(jobs, s) - Balance(s)'
  BY DEF Gap, Recorded, InFlight, CdrSum, JobSum
<1>4. CASE s = u
  <2>1. credited'[s] = credited[s] + d /\ waived'[s] = waived[s]
    BY <1>2, <1>4
  <2>2. Credit(s)' = Credit(s) + d
    BY <1>2, <2>1 DEF Credit
  <2> QED
    BY <1>1, <1>3, <1>4, <2>2
<1>5. CASE s # u
  <2>1. Credit(s)' = Credit(s)
    BY <1>2, <1>5 DEF Credit
  <2> QED
    BY <1>1, <1>3, <1>5, <2>1
<1> QED
  BY <1>4, <1>5

\* The first statement of finalize_cdr moves its amount from the account into
\* the teardown; what the account does not have is waived.
LEMMA GapDebit ==
    ASSUME TypeOK, FiniteBooks, TypeOK', FiniteBooks', NEW s \in Subs,
           NEW f \in Fibers, NEW c \in Calls, NEW dur \in Durations,
           FinalizeDebit(f, c, dur)
    PROVE  Gap(s)' = Gap(s)
<1> DEFINE u == CallerOf(c)
           old == subscribers[u].balance
           cost == BilledFor(c, dur)
           new == NewBalance(old, cost)
           short == Shortfall(old, cost)
           job == Job(c, dur, "cdr")
<1>1. /\ u \in DOMAIN subscribers /\ f \notin DOMAIN jobs
      /\ subscribers' = [subscribers EXCEPT ![u].balance = new]
      /\ jobs' = Put(jobs, f, job)
      /\ waived' = [waived EXCEPT ![u] = @ + short]
      /\ UNCHANGED <<cdrs, credited>>
  BY DEF FinalizeDebit
<1>2. old \in Int /\ subscribers[u] \in SubTuples
  BY <1>1 DEF TypeOK, IsSpace, SubTuples
<1>3. /\ cost \in Nat /\ new \in Int /\ short \in Nat
      /\ new = old - cost + short
  <2>1. cost \in Nat
    BY JobType
  <2> QED
    BY <2>1, <1>2 DEF NewBalance, Shortfall
<1>4. job.pc = "cdr" /\ job.caller = u /\ job.billed = cost
  BY DEF Job
<1> HIDE DEF u, new, job, cost, short
<1>5. Balance(s)' - Balance(s) = IF s = u THEN new - old ELSE 0
  <2> DEFINE rec == [subscribers[u] EXCEPT !.balance = new]
  <2>1. rec.balance = new
    BY <1>2 DEF SubTuples
  <2>2. subscribers' = [subscribers EXCEPT ![u] = rec]
    BY <1>1
  <2> HIDE DEF rec
  <2>3. /\ DOMAIN subscribers' = DOMAIN subscribers
        /\ subscribers'[u] = rec
        /\ \A v \in DOMAIN subscribers \ {u} : subscribers'[v] = subscribers[v]
    BY <1>1, <2>2
  <2>4. CASE s = u
    BY <1>1, <2>1, <2>3, <2>4 DEF Balance
  <2>5. CASE s # u
    <3>1. Balance(s)' = Balance(s) /\ Balance(s) \in Int
      BY <2>3, <2>5, GapInt DEF Balance
    <3> QED
      BY <3>1, <2>5
  <2> QED
    BY <2>4, <2>5
<1>6. /\ DOMAIN jobs' \ {f} = DOMAIN jobs \ {f}
      /\ \A j \in DOMAIN jobs \ {f} : jobs'[j] = jobs[j]
      /\ f \in DOMAIN jobs' /\ jobs'[f] = job
  BY <1>1 DEF Put
<1>7. JobShare(jobs, f, s) = 0
  BY <1>1 DEF JobShare
<1>8. JobShare(jobs', f, s) = IF s = u THEN cost ELSE 0
  BY <1>4, <1>6 DEF JobShare
<1>9. Gap(s)' = Gap(s) + (Credit(s)' - Credit(s)) - (Balance(s)' - Balance(s))
              + (JobShare(jobs, f, s) - JobShare(jobs', f, s))
  BY <1>1, <1>6, GapJobs
<1>10. Balance(s) \in Int /\ Credit(s) \in Int /\ Gap(s) \in Int
  BY GapInt
<1>11. Credit(s)' - Credit(s) = IF s = u THEN short ELSE 0
  <2>1. waived \in [Subs -> Nat] /\ credited \in [Subs -> Int]
    BY DEF TypeOK
  <2>2. waived'[s] = IF s = u THEN waived[s] + short ELSE waived[s]
    BY <1>1, <2>1
  <2> QED
    BY <1>1, <1>3, <2>1, <2>2 DEF Credit
<1> HIDE DEF old
<1>14. Credit(s)' \in Int /\ Balance(s)' \in Int
  BY DEF Credit, Balance, TypeOK, IsSpace, SubTuples
<1>12. CASE s = u
  BY <1>14, <1>2, <1>3, <1>5, <1>7, <1>8, <1>9, <1>10, <1>11, <1>12
<1>13. CASE s # u
  BY <1>14, <1>5, <1>7, <1>8, <1>9, <1>10, <1>11, <1>13
<1> QED
  BY <1>12, <1>13

\* A teardown that costs nobody replaces a CDR at most: its own is nobody's.
LEMMA GapNoDebit ==
    ASSUME TypeOK, CallersKnown, FiniteBooks, TypeOK', FiniteBooks', NEW s \in Subs,
           NEW f \in Fibers, NEW c \in Calls, NEW dur \in Durations,
           FinalizeNoDebit(f, c, dur)
    PROVE  GapOutcome(s)
<1> DEFINE job == Job(c, dur, "dialog")
           k == CdrKey(c, now)
           t == CdrOf(job)
<1>1. /\ f \notin DOMAIN jobs
      /\ cdrs' = Put(cdrs, k, t)
      /\ jobs' = Put(jobs, f, job)
      /\ UNCHANGED <<subscribers, credited, waived>>
  BY DEF FinalizeNoDebit
<1>2. job.pc = "dialog" /\ t.caller # s
  <2>1. CallerOf(c) = Unknown
    BY DEF FinalizeNoDebit, CallerOf, CallersKnown
  <2> QED
    BY <2>1, BillingAssumption DEF Job, CdrOf
<1>3. Writes(k)
  BY DEF Writes
<1> HIDE DEF job, t, k
<1>4. /\ DOMAIN cdrs' \ {k} = DOMAIN cdrs \ {k}
      /\ \A j \in DOMAIN cdrs \ {k} : cdrs'[j] = cdrs[j]
      /\ DOMAIN jobs' \ {f} = DOMAIN jobs \ {f}
      /\ \A j \in DOMAIN jobs \ {f} : jobs'[j] = jobs[j]
      /\ cdrs'[k] = t /\ jobs'[f] = job
  BY <1>1 DEF Put
<1>5. /\ JobShare(jobs, f, s) = 0 /\ JobShare(jobs', f, s) = 0
      /\ CdrShare(cdrs', k, s) = 0
  BY <1>1, <1>2, <1>4 DEF JobShare, CdrShare
<1>6. Gap(s)' = Gap(s) + (Credit(s)' - Credit(s)) - (Balance(s)' - Balance(s))
              + (CdrShare(cdrs, k, s) - CdrShare(cdrs', k, s))
              + (JobShare(jobs, f, s) - JobShare(jobs', f, s))
  BY <1>4, GapChange
<1>7. Balance(s) \in Int /\ Credit(s) \in Int /\ Gap(s) \in Int
  BY GapInt
<1>8. Balance(s)' = Balance(s) /\ Credit(s)' = Credit(s)
  BY <1>1 DEF Balance, Credit
<1>9. CdrShare(cdrs, k, s) \in Int
  BY DEF CdrShare, TypeOK, IsSpace, CdrTuples
<1>10. Gap(s)' = Gap(s) + CdrShare(cdrs, k, s)
  BY <1>5, <1>6, <1>7, <1>8, <1>9
<1> QED
  BY <1>3, <1>10 DEF GapOutcome

\* The statement that writes the CDR moves the amount from the teardown into
\* the CDR; what the replaced CDR recorded, if there is one, is lost.
LEMMA GapWriteCdr ==
    ASSUME TypeOK, FiniteBooks, TypeOK', FiniteBooks', NEW s \in Subs,
           NEW f \in Fibers, WriteCdr(f)
    PROVE  GapOutcome(s)
<1> DEFINE job == jobs[f]
           k == CdrKey(job.call, job.end_epoch)
           t == CdrOf(job)
           done == [job EXCEPT !.pc = "dialog"]
<1>1. /\ f \in DOMAIN jobs /\ job.pc = "cdr"
      /\ cdrs' = Put(cdrs, k, t)
      /\ jobs' = [jobs EXCEPT ![f] = done]
      /\ UNCHANGED <<subscribers, credited, waived>>
  BY DEF WriteCdr
<1>2. job \in Jobs /\ jobs = [j \in DOMAIN jobs |-> jobs[j]]
  BY <1>1 DEF TypeOK, IsSpace
<1>3. /\ t.caller = job.caller /\ t.billed = job.billed
      /\ done.pc = "dialog" /\ job.billed \in Int
  BY <1>2 DEF CdrOf, Jobs
<1>4. Writes(k)
  BY DEF Writes
<1> HIDE DEF t, k, done
<1>5. /\ DOMAIN cdrs' \ {k} = DOMAIN cdrs \ {k}
      /\ \A j \in DOMAIN cdrs \ {k} : cdrs'[j] = cdrs[j]
      /\ k \in DOMAIN cdrs' /\ cdrs'[k] = t
  BY <1>1 DEF Put
<1>6. /\ DOMAIN jobs' = DOMAIN jobs
      /\ \A j \in DOMAIN jobs \ {f} : jobs'[j] = jobs[j]
      /\ jobs'[f] = done
  BY <1>1, <1>2
<1>7. /\ JobShare(jobs, f, s) = IF job.caller = s THEN job.billed ELSE 0
      /\ CdrShare(cdrs', k, s) = IF job.caller = s THEN job.billed ELSE 0
      /\ JobShare(jobs', f, s) = 0
  BY <1>1, <1>3, <1>5, <1>6 DEF JobShare, CdrShare
<1>8. Gap(s)' = Gap(s) + (Credit(s)' - Credit(s)) - (Balance(s)' - Balance(s))
              + (CdrShare(cdrs, k, s) - CdrShare(cdrs', k, s))
              + (JobShare(jobs, f, s) - JobShare(jobs', f, s))
  BY <1>5, <1>6, GapChange
<1>9. Balance(s) \in Int /\ Credit(s) \in Int /\ Gap(s) \in Int
  BY GapInt
<1>10. Balance(s)' = Balance(s) /\ Credit(s)' = Credit(s)
  BY <1>1 DEF Balance, Credit
<1>11. CdrShare(cdrs, k, s) \in Int
  BY DEF CdrShare, TypeOK, IsSpace, CdrTuples
<1>12. Gap(s)' = Gap(s) + CdrShare(cdrs, k, s)
  <2> HIDE DEF job
  <2>1. CASE job.caller = s
    BY <1>3, <1>7, <1>8, <1>9, <1>10, <1>11, <2>1
  <2>2. CASE job.caller # s
    BY <1>7, <1>8, <1>9, <1>10, <1>11, <2>2
  <2> QED
    BY <2>1, <2>2
<1> QED
  BY <1>4, <1>12 DEF GapOutcome

\* Every step of the procedures and of the failures has one of the outcomes.
LEMMA GapNext ==
    ASSUME TypeOK, CallersKnown, FiniteBooks, [Next]_vars, NEW s \in Subs
    PROVE  GapOutcome(s)
<1>0. TypeOK' /\ FiniteBooks'
  BY TypeNext, FiniteBooksNext
<1>1. ASSUME UNCHANGED <<subscribers, cdrs, jobs, credited, waived>> PROVE GapOutcome(s)
  BY <1>1 DEF GapOutcome, Gap, Credit, Recorded, InFlight, Balance
<1>2. ASSUME NEW u \in Subs, NEW b \in Balances, NEW l \in Limits,
             add_subscriber(u, b, l)
      PROVE  GapOutcome(s)
  <2> DEFINE rec == [balance |-> b, status |-> "active", max_concurrent_calls |-> l]
             d == b - Balance(u)
  <2>1. b \in Int /\ Balance(u) \in Int /\ credited[u] \in Int
    BY BillingAssumption, GapInt DEF TypeOK
  <2>2. subscribers' = Put(subscribers, u, rec) /\ rec.balance = b
    BY <1>2 DEF add_subscriber
  <2> HIDE DEF rec
  <2>3. /\ DOMAIN subscribers' = DOMAIN subscribers \cup {u}
        /\ subscribers'[u] = rec
        /\ \A v \in DOMAIN subscribers \ {u} : subscribers'[v] = subscribers[v]
    BY <2>2 DEF Put
  <2>4. Balance(u)' = Balance(u) + d
    BY <2>1, <2>2, <2>3 DEF Balance
  <2>5. s # u => Balance(s)' = Balance(s)
    BY <2>3 DEF Balance
  <2>6. credited' = [credited EXCEPT ![u] = @ + d]
    <3>1. credited' = [credited EXCEPT ![u] = credited[u] + b - Balance(u)]
      BY <1>2 DEF add_subscriber, Balance, TypeOK
    <3>2. credited[u] + b - Balance(u) = credited[u] + d
      BY <2>1
    <3> HIDE DEF d
    <3> QED
      BY <3>1, <3>2
  <2>7. d \in Int
    BY <2>1
  <2>8. UNCHANGED <<cdrs, jobs, waived>>
    BY <1>2 DEF add_subscriber
  <2> HIDE DEF d
  <2> QED
    BY <1>0, <2>4, <2>5, <2>6, <2>7, <2>8, GapProvisioning DEF GapOutcome
<1>3. ASSUME NEW u \in Subs, NEW d \in Deltas, update_balance(u, d)
      PROVE  GapOutcome(s)
  <2> DEFINE rec == [subscribers[u] EXCEPT !.balance = @ + d]
  <2>1. /\ u \in DOMAIN subscribers /\ d \in Int
        /\ subscribers' = [subscribers EXCEPT ![u] = rec]
        /\ credited' = [credited EXCEPT ![u] = @ + d]
        /\ UNCHANGED <<cdrs, jobs, waived>>
    BY <1>3, BillingAssumption DEF update_balance
  <2>2. rec.balance = subscribers[u].balance + d
    BY <2>1 DEF TypeOK, IsSpace, SubTuples
  <2> HIDE DEF rec
  <2>3. /\ DOMAIN subscribers' = DOMAIN subscribers
        /\ subscribers'[u] = rec
        /\ \A v \in DOMAIN subscribers \ {u} : subscribers'[v] = subscribers[v]
    BY <2>1
  <2>4. Balance(u)' = Balance(u) + d
    BY <2>1, <2>2, <2>3 DEF Balance
  <2>5. s # u => Balance(s)' = Balance(s)
    BY <2>3 DEF Balance
  <2> QED
    BY <1>0, <2>1, <2>4, <2>5, GapProvisioning DEF GapOutcome
<1>4. ASSUME NEW u \in Subs, NEW st \in Statuses, SetStatus(u, st)
      PROVE  GapOutcome(s)
  <2> DEFINE rec == [subscribers[u] EXCEPT !.status = st]
  <2>1. /\ u \in DOMAIN subscribers
        /\ subscribers' = [subscribers EXCEPT ![u] = rec]
        /\ UNCHANGED <<cdrs, jobs, credited, waived>>
    BY <1>4 DEF SetStatus
  <2>2. rec.balance = subscribers[u].balance
    BY <2>1 DEF TypeOK, IsSpace, SubTuples
  <2> HIDE DEF rec
  <2>3. Balance(s)' = Balance(s)
    BY <2>1, <2>2 DEF Balance
  <2> QED
    BY <2>1, <2>3 DEF GapOutcome, Gap, Credit, Recorded, InFlight
<1>5. ASSUME NEW f \in Fibers, FinalizeStep(f) PROVE GapOutcome(s)
  <2>0. /\ Balance(s) \in Int /\ Credit(s) \in Int /\ Gap(s) \in Int
        /\ jobs = [j \in DOMAIN jobs |-> jobs[j]]
        /\ \A j \in DOMAIN jobs : jobs[j] \in Jobs
    BY GapInt DEF TypeOK, IsSpace
  <2>1. CASE WriteCdr(f)
    BY <1>0, <2>1, GapWriteCdr
  <2>2. ASSUME UNCHANGED <<cdrs, subscribers, credited, waived>>,
               DOMAIN jobs' \ {f} = DOMAIN jobs \ {f},
               \A j \in DOMAIN jobs \ {f} : jobs'[j] = jobs[j],
               JobShare(jobs, f, s) = 0, JobShare(jobs', f, s) = 0
        PROVE  GapOutcome(s)
    <3>1. Gap(s)' = Gap(s) + (Credit(s)' - Credit(s)) - (Balance(s)' - Balance(s))
              + (JobShare(jobs, f, s) - JobShare(jobs', f, s))
      BY <1>0, <2>2, GapJobs
    <3>2. Balance(s)' = Balance(s) /\ Credit(s)' = Credit(s)
      BY <2>2 DEF Balance, Credit
    <3>3. Gap(s)' = Gap(s)
      BY <2>0, <2>2, <3>1, <3>2
    <3> QED
      BY <3>3 DEF GapOutcome
  <2>3. CASE DeleteDialog(f)
    <3> DEFINE done == [jobs[f] EXCEPT !.pc = "media"]
    <3>1. /\ f \in DOMAIN jobs /\ jobs[f].pc = "dialog"
          /\ jobs' = [jobs EXCEPT ![f] = done]
          /\ UNCHANGED <<cdrs, subscribers, credited, waived>>
      BY <2>3 DEF DeleteDialog
    <3>2. done.pc = "media"
      BY <2>0, <3>1 DEF Jobs
    <3> HIDE DEF done
    <3>3. /\ DOMAIN jobs' = DOMAIN jobs /\ jobs'[f] = done
          /\ \A j \in DOMAIN jobs \ {f} : jobs'[j] = jobs[j]
      BY <2>0, <3>1
    <3>4. JobShare(jobs, f, s) = 0 /\ JobShare(jobs', f, s) = 0
      BY <3>1, <3>2, <3>3 DEF JobShare
    <3> QED
      BY <2>2, <3>1, <3>3, <3>4
  <2>4. CASE DeleteMedia(f)
    <3>1. /\ f \in DOMAIN jobs /\ jobs[f].pc = "media"
          /\ jobs' = Drop(jobs, f)
          /\ UNCHANGED <<cdrs, subscribers, credited, waived>>
      BY <2>4 DEF DeleteMedia
    <3>2. /\ DOMAIN jobs' = DOMAIN jobs \ {f}
          /\ \A j \in DOMAIN jobs \ {f} : jobs'[j] = jobs[j]
      BY <3>1 DEF Drop
    <3>3. JobShare(jobs, f, s) = 0 /\ JobShare(jobs', f, s) = 0
      BY <3>1, <3>2 DEF JobShare
    <3> QED
      BY <2>2, <3>1, <3>2, <3>3
  <2> QED
    BY <1>5, <2>1, <2>3, <2>4 DEF FinalizeStep
<1>6. ASSUME NEW f \in Fibers, StatementFails(f) PROVE GapOutcome(s)
  <2>1. /\ Failures /\ f \in DOMAIN jobs
        /\ jobs' = Drop(jobs, f)
        /\ UNCHANGED <<cdrs, subscribers, credited, waived>>
    BY <1>6 DEF StatementFails
  <2>2. /\ DOMAIN jobs' = DOMAIN jobs \ {f}
        /\ \A j \in DOMAIN jobs \ {f} : jobs'[j] = jobs[j]
    BY <2>1 DEF Drop
  <2>3. JobShare(jobs', f, s) = 0
    BY <2>2 DEF JobShare
  <2>4. Gap(s)' = Gap(s) + (Credit(s)' - Credit(s)) - (Balance(s)' - Balance(s))
              + (JobShare(jobs, f, s) - JobShare(jobs', f, s))
    BY <1>0, <2>1, <2>2, GapJobs
  <2>5. Balance(s)' = Balance(s) /\ Credit(s)' = Credit(s)
    BY <2>1 DEF Balance, Credit
  <2>6. /\ Balance(s) \in Int /\ Credit(s) \in Int /\ Gap(s) \in Int
        /\ JobShare(jobs, f, s) \in Int
    BY GapInt DEF JobShare, TypeOK, IsSpace, Jobs
  <2>7. Gap(s)' = Gap(s) + JobShare(jobs, f, s)
    BY <2>3, <2>4, <2>5, <2>6
  <2> QED
    BY <2>1, <2>7 DEF GapOutcome
<1>7. CASE Crash
  <2>1. /\ Failures /\ jobs' = EmptySpace
        /\ UNCHANGED <<cdrs, subscribers, credited, waived>>
    BY <1>7 DEF Crash
  <2>2. JobSum(jobs', s) = 0
    <3> DEFINE F == [f \in DOMAIN jobs' |-> jobs'[f].billed]
               S == {f \in DOMAIN jobs' : jobs'[f].pc = "cdr" /\ jobs'[f].caller = s}
    <3>1. S = {}
      BY <2>1, EmptyIsSpace
    <3>2. JobSum(jobs', s) = SumFunctionOnSet(F, S)
      BY DEF JobSum
    <3> HIDE DEF F, S
    <3> QED
      BY <3>1, <3>2, SumStep, FS_EmptySet
  <2>3. /\ Balance(s) \in Int /\ Credit(s) \in Int /\ Gap(s) \in Int
        /\ CdrSum(cdrs, s) \in Int /\ JobSum(jobs, s) \in Int
        /\ Gap(s) = Credit(s) - CdrSum(cdrs, s) - JobSum(jobs, s) - Balance(s)
    BY GapInt
  <2>4. Gap(s)' = Credit(s)' - CdrSum(cdrs', s) - JobSum(jobs', s) - Balance(s)'
    BY DEF Gap, Recorded, InFlight, CdrSum, JobSum
  <2>5. /\ Balance(s)' = Balance(s) /\ Credit(s)' = Credit(s)
        /\ CdrSum(cdrs', s) = CdrSum(cdrs, s)
    BY <2>1 DEF Balance, Credit
  <2>6. Gap(s)' = Gap(s) + JobSum(jobs, s)
    BY <2>2, <2>3, <2>4, <2>5
  <2> QED
    BY <2>1, <2>6 DEF GapOutcome
<1>8. ASSUME NEW f \in Fibers, NEW c \in Calls, NEW dur \in Durations,
             FinalizeDebit(f, c, dur)
      PROVE  GapOutcome(s)
  BY <1>0, <1>8, GapDebit DEF GapOutcome
<1>9. ASSUME NEW f \in Fibers, NEW c \in Calls, NEW dur \in Durations,
             FinalizeNoDebit(f, c, dur)
      PROVE  GapOutcome(s)
  BY <1>0, <1>9, GapNoDebit
<1> QED
  BY <1>1, <1>2, <1>3, <1>4, <1>5, <1>6, <1>7, <1>8, <1>9
     DEF Next, vars, authorize_call, set_tariff, MediaUpsert, Tick, Purge,
         PurgeFirst, PurgeNext
-----------------------------------------------------------------------------
(***************************************************************************)
(* Money is conserved                                                      *)
(***************************************************************************)

\* When two teardowns of one Call-ID are a second apart, no CDR is replaced:
\* the key of a teardown under way is its own, and no CDR has it yet.
OwnKeys ==
    /\ \A f, g \in DOMAIN jobs :
          jobs[f].call = jobs[g].call /\ jobs[f].end_epoch = jobs[g].end_epoch
             => f = g
    /\ \A f \in DOMAIN jobs : jobs[f].pc = "cdr" =>
          CdrKey(jobs[f].call, jobs[f].end_epoch) \notin DOMAIN cdrs

\* The inductive invariant behind MoneyConserved: nobody has a gap, not even
\* who is not yet a subscriber.
NoGap == FiniteBooks /\ OwnKeys /\ CallersKnown /\ \A s \in Subs : Gap(s) = 0

\* Empty books leave nobody a gap.
LEMMA GapInit ==
    Init => FiniteBooks /\ OwnKeys /\ CallersKnown /\ \A s \in Subs : Gap(s) = 0
<1> SUFFICES ASSUME Init
             PROVE  FiniteBooks /\ OwnKeys /\ CallersKnown /\ \A s \in Subs : Gap(s) = 0
  OBVIOUS
<1>1. DOMAIN cdrs = {} /\ DOMAIN jobs = {} /\ DOMAIN subscribers = {}
  BY EmptyIsSpace DEF Init
<1>2. FiniteBooks
  BY <1>1, FS_EmptySet DEF FiniteBooks
<1>3. OwnKeys /\ CallersKnown
  BY <1>1, EmptyIsSpace DEF OwnKeys, CallersKnown, Init
<1>4. ASSUME NEW s \in Subs PROVE Gap(s) = 0
  <2> DEFINE S == {k \in DOMAIN cdrs : cdrs[k].caller = s}
             T == {f \in DOMAIN jobs : jobs[f].pc = "cdr" /\ jobs[f].caller = s}
             F == [k \in DOMAIN cdrs |-> cdrs[k].billed]
             G == [f \in DOMAIN jobs |-> jobs[f].billed]
  <2>1. S = {} /\ T = {}
    BY <1>1
  <2>2. Recorded(s) = SumFunctionOnSet(F, S) /\ InFlight(s) = SumFunctionOnSet(G, T)
    BY DEF Recorded, InFlight
  <2> HIDE DEF S, T, F, G
  <2>3. Recorded(s) = 0 /\ InFlight(s) = 0
    BY <2>1, <2>2, SumStep, FS_EmptySet
  <2>4. Balance(s) = 0 /\ Credit(s) = 0
    BY <1>1 DEF Balance, Credit, Init
  <2> QED
    BY <2>3, <2>4 DEF Gap
<1> QED
  BY <1>2, <1>3, <1>4

\* No teardown writes a CDR that exists, when teardowns are spaced.
LEMMA NothingOverwritten ==
    ASSUME SpacedTeardowns = TRUE, OwnKeys, NEW k, Writes(k)
    PROVE  k \notin DOMAIN cdrs
BY DEF Writes, OwnKeys, WriteCdr, FinalizeNoDebit, Spaced, CdrKey

\* Spaced teardowns keep their keys apart.
LEMMA OwnKeysNext ==
    ASSUME SpacedTeardowns = TRUE, TypeOK, OwnKeys, [Next]_vars
    PROVE  OwnKeys'
<1>0. /\ jobs = [f \in DOMAIN jobs |-> jobs[f]]
      /\ \A f \in DOMAIN jobs : jobs[f] \in Jobs
  BY DEF TypeOK, IsSpace
<1>1. ASSUME UNCHANGED <<cdrs, jobs>> PROVE OwnKeys'
  BY <1>1 DEF OwnKeys
<1>2. ASSUME NEW f \in Fibers, NEW c \in Calls, NEW job \in Jobs,
             f \notin DOMAIN jobs, Spaced(c),
             job.call = c, job.end_epoch = now, jobs' = Put(jobs, f, job),
             \/ cdrs' = cdrs
             \/ job.pc # "cdr" /\ \E t : cdrs' = Put(cdrs, CdrKey(c, now), t)
      PROVE  OwnKeys'
  <2>1. /\ DOMAIN jobs' = DOMAIN jobs \cup {f} /\ jobs'[f] = job
        /\ \A g \in DOMAIN jobs : jobs'[g] = jobs[g]
    BY <1>2 DEF Put
  <2>2. /\ <<c, now>> \notin DOMAIN cdrs
        /\ \A g \in DOMAIN jobs : <<jobs[g].call, jobs[g].end_epoch>> # <<c, now>>
    BY <1>2 DEF Spaced
  <2>3. DOMAIN cdrs' = DOMAIN cdrs
           \/ (job.pc # "cdr" /\ DOMAIN cdrs' = DOMAIN cdrs \cup {<<c, now>>})
    BY <1>2 DEF Put, CdrKey
  <2>4. ASSUME NEW g \in DOMAIN jobs', NEW h \in DOMAIN jobs',
               jobs'[g].call = jobs'[h].call, jobs'[g].end_epoch = jobs'[h].end_epoch
        PROVE  g = h
    BY <1>2, <2>1, <2>2, <2>4 DEF OwnKeys
  <2>5. ASSUME NEW g \in DOMAIN jobs', jobs'[g].pc = "cdr"
        PROVE  CdrKey(jobs'[g].call, jobs'[g].end_epoch) \notin DOMAIN cdrs'
    <3>1. CASE g = f
      BY <1>2, <2>1, <2>2, <2>3, <2>5, <3>1 DEF CdrKey
    <3>2. CASE g # f
      <4>1. g \in DOMAIN jobs /\ jobs'[g] = jobs[g]
        BY <2>1, <3>2
      <4>2. CdrKey(jobs[g].call, jobs[g].end_epoch) \notin DOMAIN cdrs
        BY <4>1, <2>5 DEF OwnKeys
      <4> QED
        BY <4>1, <4>2, <2>2, <2>3 DEF CdrKey
    <3> QED
      BY <3>1, <3>2
  <2> QED
    BY <2>4, <2>5 DEF OwnKeys, CdrKey
<1>3. ASSUME NEW f \in Fibers, NEW c \in Calls, NEW dur \in Durations,
             FinalizeDebit(f, c, dur)
      PROVE  OwnKeys'
  <2> DEFINE job == Job(c, dur, "cdr")
  <2>1. /\ f \notin DOMAIN jobs /\ Spaced(c) /\ cdrs' = cdrs
        /\ jobs' = Put(jobs, f, job)
    BY <1>3 DEF FinalizeDebit
  <2>2. job \in Jobs
    BY JobType
  <2>3. job.call = c /\ job.end_epoch = now
    BY DEF Job
  <2> HIDE DEF job
  <2> QED
    BY <1>2, <2>1, <2>2, <2>3
<1>4. ASSUME NEW f \in Fibers, NEW c \in Calls, NEW dur \in Durations,
             FinalizeNoDebit(f, c, dur)
      PROVE  OwnKeys'
  <2> DEFINE job == Job(c, dur, "dialog")
  <2>1. /\ f \notin DOMAIN jobs /\ Spaced(c)
        /\ \E t : cdrs' = Put(cdrs, CdrKey(c, now), t)
        /\ jobs' = Put(jobs, f, job)
    BY <1>4 DEF FinalizeNoDebit
  <2>2. job \in Jobs
    BY JobType
  <2>3. job.call = c /\ job.end_epoch = now /\ job.pc # "cdr"
    BY DEF Job
  <2> HIDE DEF job
  <2> QED
    BY <1>2, <2>1, <2>2, <2>3
<1>5. ASSUME NEW f \in Fibers, NEW p \in {"dialog", "media"}, f \in DOMAIN jobs,
             jobs' = [jobs EXCEPT ![f] = [jobs[f] EXCEPT !.pc = p]],
             \/ cdrs' = cdrs
             \/ \E t : cdrs' = Put(cdrs, CdrKey(jobs[f].call, jobs[f].end_epoch), t)
      PROVE  OwnKeys'
  <2>1. /\ DOMAIN jobs' = DOMAIN jobs
        /\ \A g \in DOMAIN jobs \ {f} : jobs'[g] = jobs[g]
    BY <1>0, <1>5
  <2>2. jobs'[f].call = jobs[f].call /\ jobs'[f].end_epoch = jobs[f].end_epoch
        /\ jobs'[f].pc # "cdr"
    BY <1>0, <1>5 DEF Jobs
  <2>3. DOMAIN cdrs' \subseteq
           DOMAIN cdrs \cup {CdrKey(jobs[f].call, jobs[f].end_epoch)}
    BY <1>5 DEF Put
  <2>4. ASSUME NEW g \in DOMAIN jobs', jobs'[g].pc = "cdr"
        PROVE  CdrKey(jobs'[g].call, jobs'[g].end_epoch) \notin DOMAIN cdrs'
    <3>1. g # f /\ g \in DOMAIN jobs /\ jobs'[g] = jobs[g]
      BY <2>1, <2>2, <2>4
    <3>2. CdrKey(jobs[g].call, jobs[g].end_epoch) \notin DOMAIN cdrs
      BY <3>1, <2>4 DEF OwnKeys
    <3>3. CdrKey(jobs[g].call, jobs[g].end_epoch) #
             CdrKey(jobs[f].call, jobs[f].end_epoch)
      BY <3>1, <1>5 DEF OwnKeys, CdrKey
    <3> QED
      BY <3>1, <3>2, <3>3, <2>3
  <2>5. \A g, h \in DOMAIN jobs' :
           jobs'[g].call = jobs'[h].call /\ jobs'[g].end_epoch = jobs'[h].end_epoch
              => g = h
    BY <2>1, <2>2 DEF OwnKeys
  <2> QED
    BY <2>4, <2>5 DEF OwnKeys, CdrKey
<1>6. ASSUME DOMAIN jobs' \subseteq DOMAIN jobs,
             \A g \in DOMAIN jobs' : jobs'[g] = jobs[g],
             cdrs' = cdrs
      PROVE  OwnKeys'
  BY <1>6 DEF OwnKeys
<1>7. ASSUME NEW f \in Fibers, FinalizeStep(f) PROVE OwnKeys'
  <2>1. CASE WriteCdr(f)
    BY <2>1, <1>5 DEF WriteCdr
  <2>2. CASE DeleteDialog(f)
    BY <2>2, <1>5 DEF DeleteDialog
  <2>3. CASE DeleteMedia(f)
    <3>1. jobs' = Drop(jobs, f) /\ cdrs' = cdrs
      BY <2>3 DEF DeleteMedia
    <3> QED
      BY <3>1, <1>6 DEF Drop
  <2> QED
    BY <1>7, <2>1, <2>2, <2>3 DEF FinalizeStep
<1>8. ASSUME NEW f \in Fibers, StatementFails(f) PROVE OwnKeys'
  <2>1. jobs' = Drop(jobs, f) /\ cdrs' = cdrs
    BY <1>8 DEF StatementFails
  <2> QED
    BY <2>1, <1>6 DEF Drop
<1>9. CASE Crash
  <2>1. DOMAIN jobs' = {} /\ cdrs' = cdrs
    BY <1>9, EmptyIsSpace DEF Crash
  <2> QED
    BY <2>1, <1>6
<1> QED
  BY <1>1, <1>3, <1>4, <1>7, <1>8, <1>9
     DEF Next, vars, authorize_call, add_subscriber, update_balance, SetStatus,
         set_tariff, MediaUpsert, Tick, Purge, PurgeFirst, PurgeNext

\* When the teardowns of one Call-ID are a second apart and no statement
\* fails, every balance is what was credited to it, or waived when it was cut
\* at zero, less what the CDRs and the teardowns under way bill: no update of finalize_cdr,
\* update_balance or add_subscriber is lost, whatever the interleaving.
THEOREM MoneyIsConserved ==
    ASSUME SpacedTeardowns = TRUE, Failures = FALSE
    PROVE  Safety => []MoneyConserved
<1>1. Init => NoGap
  BY GapInit DEF NoGap
<1>2. TypeOK /\ NoGap /\ [Next]_vars => NoGap'
  <2> SUFFICES ASSUME TypeOK, NoGap, [Next]_vars PROVE NoGap'
    OBVIOUS
  <2>1. FiniteBooks /\ OwnKeys /\ CallersKnown
    BY DEF NoGap
  <2>2. FiniteBooks' /\ OwnKeys' /\ CallersKnown'
    BY <2>1, FiniteBooksNext, OwnKeysNext, CallersNext
  <2>3. ASSUME NEW s \in Subs PROVE Gap(s)' = 0
    <3>1. Gap(s) = 0
      BY DEF NoGap
    <3>2. GapOutcome(s)
      BY <2>1, GapNext
    <3>3. ASSUME NEW k, Writes(k) PROVE CdrShare(cdrs, k, s) = 0
      BY <2>1, <3>3, NothingOverwritten DEF CdrShare
    <3> QED
      BY <3>1, <3>2, <3>3 DEF GapOutcome
  <2> QED
    BY <2>2, <2>3 DEF NoGap
<1>3. TypeOK /\ NoGap => MoneyConserved
  <2> SUFFICES ASSUME TypeOK, NoGap, NEW s \in DOMAIN subscribers
               PROVE  subscribers[s].balance =
                         credited[s] + waived[s] - Recorded(s) - InFlight(s)
    BY DEF MoneyConserved
  <2>1. s \in Subs /\ FiniteBooks /\ Gap(s) = 0
    BY DEF TypeOK, IsSpace, NoGap
  <2>2. Recorded(s) = CdrSum(cdrs, s) /\ InFlight(s) = JobSum(jobs, s)
    BY DEF Recorded, InFlight, CdrSum, JobSum
  <2>3. /\ Balance(s) = subscribers[s].balance /\ Credit(s) = credited[s] + waived[s]
        /\ credited[s] \in Int /\ waived[s] \in Int
    BY <2>1 DEF Balance, Credit, TypeOK
  <2>4. /\ CdrSum(cdrs, s) \in Int /\ JobSum(jobs, s) \in Int
        /\ Balance(s) \in Int /\ Credit(s) \in Int
        /\ Gap(s) = Credit(s) - CdrSum(cdrs, s) - JobSum(jobs, s) - Balance(s)
    BY <2>1, GapInt
  <2> QED
    BY <2>1, <2>2, <2>3, <2>4
<1> QED
  BY <1>1, <1>2, <1>3, TypeCorrect, PTL DEF Safety
-----------------------------------------------------------------------------
(***************************************************************************)
(* No record without a payment                                             *)
(***************************************************************************)

\* A sum of amounts that are not negative is not negative.
LEMMA SumNat ==
    ASSUME NEW f, NEW S, IsFiniteSet(S), \A x \in S : f[x] \in Nat
    PROVE  SumFunctionOnSet(f, S) \in Nat
<1> DEFINE B == {T \in SUBSET S : SumFunctionOnSet(f, T) \notin Nat}
<1>0. B \in SUBSET SUBSET S
  OBVIOUS
<1>1. ASSUME B # {} PROVE FALSE
  <2>1. PICK T \in B : \A U \in SUBSET T : U # T => U \notin B
    <3> HIDE DEF B
    <3> QED
      BY <1>0, <1>1, Smallest
  <2>2. T \in SUBSET S /\ IsFiniteSet(T) /\ SumFunctionOnSet(f, T) \notin Nat
    BY <2>1, FS_Subset
  <2>3. T # {}
    <3>1. T = {} => SumFunctionOnSet(f, T) = 0
      BY <2>2, SumStep
    <3> QED
      BY <2>2, <3>1
  <2>4. Pick(T) \in T
    BY <2>3 DEF Pick
  <2>5. SumFunctionOnSet(f, T \ {Pick(T)}) \in Nat
    BY <2>1, <2>2, <2>4
  <2>6. f[Pick(T)] \in Nat
    BY <2>2, <2>4
  <2>7. SumFunctionOnSet(f, T) = f[Pick(T)] + SumFunctionOnSet(f, T \ {Pick(T)})
    BY <2>2, <2>3, SumStep
  <2> QED
    BY <2>2, <2>5, <2>6, <2>7
<1> QED
  BY <1>1

\* Whatever the interleaving, in one second or not, when a statement of
\* finalize_cdr fails and when the instance stops between two of them: the
\* billed amounts of the CDRs come to no more than what left the balance and
\* what the cut at zero waived.
THEOREM RecordedIsTaken == Safety => []RecordedWasTaken
<1> DEFINE Inv == FiniteBooks /\ CallersKnown /\ \A s \in Subs : Gap(s) >= 0
<1>1. Init => Inv
  BY GapInit
<1>2. TypeOK /\ Inv /\ [Next]_vars => Inv'
  <2> SUFFICES ASSUME TypeOK, Inv, [Next]_vars PROVE Inv'
    OBVIOUS
  <2>1. FiniteBooks' /\ CallersKnown'
    BY FiniteBooksNext, CallersNext
  <2>2. ASSUME NEW s \in Subs PROVE Gap(s)' >= 0
    <3>1. Gap(s) \in Int /\ Gap(s) >= 0
      BY GapInt
    <3>2. GapOutcome(s)
      BY GapNext
    <3>3. \A k : CdrShare(cdrs, k, s) \in Nat
      BY DEF CdrShare, TypeOK, IsSpace, CdrTuples
    <3>4. \A f : JobShare(jobs, f, s) \in Nat
      BY DEF JobShare, TypeOK, IsSpace, Jobs
    <3>5. JobSum(jobs, s) \in Nat
      <4> DEFINE F == [f \in DOMAIN jobs |-> jobs[f].billed]
                 S == {f \in DOMAIN jobs : jobs[f].pc = "cdr" /\ jobs[f].caller = s}
      <4>1. IsFiniteSet(S) /\ \A f \in S : F[f] \in Nat
        BY FS_Subset DEF FiniteBooks, TypeOK, IsSpace, Jobs
      <4>2. JobSum(jobs, s) = SumFunctionOnSet(F, S)
        BY DEF JobSum
      <4> HIDE DEF F, S
      <4> QED
        BY <4>1, <4>2, SumNat
    <3> QED
      BY <3>1, <3>2, <3>3, <3>4, <3>5 DEF GapOutcome
  <2> QED
    BY <2>1, <2>2
<1>3. TypeOK /\ Inv => RecordedWasTaken
  <2> SUFFICES ASSUME TypeOK, Inv, NEW s \in DOMAIN subscribers
               PROVE  Recorded(s) + InFlight(s) <=
                         credited[s] - subscribers[s].balance + waived[s]
    BY DEF RecordedWasTaken
  <2>1. s \in Subs /\ FiniteBooks /\ Gap(s) >= 0
    BY DEF TypeOK, IsSpace
  <2>2. Recorded(s) = CdrSum(cdrs, s) /\ InFlight(s) = JobSum(jobs, s)
    BY DEF Recorded, InFlight, CdrSum, JobSum
  <2>3. /\ Balance(s) = subscribers[s].balance /\ Credit(s) = credited[s] + waived[s]
        /\ credited[s] \in Int /\ waived[s] \in Int
    BY <2>1 DEF Balance, Credit, TypeOK
  <2> QED
    BY <2>1, <2>2, <2>3, GapInt
<1> HIDE DEF Inv
<1> QED
  BY <1>1, <1>2, <1>3, TypeCorrect, PTL DEF Safety
-----------------------------------------------------------------------------
(***************************************************************************)
(* Billing implements Ledger                                               *)
(***************************************************************************)

\* An authorization opens its call in the ledger, or moves a deadline, which
\* the ledger does not know.
LEMMA LedgerAuthorize ==
    ASSUME TypeOK, SerialCalls = TRUE,
           NEW s \in Subs, NEW dest \in Dests, NEW c \in Calls,
           authorize_call(s, dest, c)
    PROVE  [L!LedgerNext]_L!ledgerVars
<1>1. /\ DOMAIN kam_dialogs' = DOMAIN kam_dialogs \cup {c}
      /\ \A d \in DOMAIN kam_dialogs :
            kam_dialogs'[d].caller = kam_dialogs[d].caller
      /\ c \notin DOMAIN kam_dialogs => kam_dialogs'[c].caller = s
  BY AuthorizeAdds
<1>2. UNCHANGED <<subscribers, cdrs, jobs>> /\ c \notin Closing
  BY DEF authorize_call, Quiet, Closing
<1>3. Account' = Account /\ Records' = Records /\ Closing' = Closing
  BY <1>2 DEF Account, Records, Closing, CdrOf, RecordOf
<1>4. CASE c \in DOMAIN kam_dialogs
  <2>1. OpenCalls' = OpenCalls
    BY <1>1, <1>3, <1>4 DEF OpenCalls
  <2> QED
    BY <1>3, <2>1 DEF L!ledgerVars
<1>5. CASE c \notin DOMAIN kam_dialogs
  <2>1. c \notin DOMAIN OpenCalls /\ s \in DOMAIN Account
    BY <1>5, AllowedMeans DEF authorize_call, OpenCalls, Account
  <2>2. OpenCalls' = Put(OpenCalls, c, s)
    BY <1>1, <1>2, <1>3, <1>5 DEF OpenCalls, Put
  <2>3. L!Open(c, s)
    BY <1>3, <2>1, <2>2 DEF L!Open, L!Put, Put
  <2> QED
    BY <2>3 DEF L!LedgerNext
<1> QED
  BY <1>4, <1>5

\* Provisioning and top-ups set an account.
LEMMA LedgerSetAccount ==
    ASSUME TypeOK, NEW u, NEW rec, rec.balance \in Int,
           \/ subscribers' = Put(subscribers, u, rec)
           \/ u \in DOMAIN subscribers /\ subscribers' = [subscribers EXCEPT ![u] = rec],
           UNCHANGED <<kam_dialogs, cdrs, jobs>>
    PROVE  [L!LedgerNext]_L!ledgerVars
<1>1. /\ DOMAIN subscribers' = DOMAIN subscribers \cup {u}
      /\ subscribers'[u] = rec
      /\ \A s \in DOMAIN subscribers \ {u} : subscribers'[s] = subscribers[s]
  <2>1. subscribers = [s \in DOMAIN subscribers |-> subscribers[s]]
    BY DEF TypeOK, IsSpace
  <2> QED
    BY <2>1 DEF Put
<1>2. OpenCalls' = OpenCalls /\ Records' = Records
  BY DEF OpenCalls, Records, Closing, CdrOf, RecordOf
<1>3. /\ DOMAIN Account' = DOMAIN Account \cup {u}
      /\ Account'[u] = rec.balance
      /\ Account' = Put(Account, u, rec.balance)
  BY <1>1 DEF Account, Put
<1>4. L!SetAccount(u, Account'[u])
  BY <1>2, <1>3 DEF L!SetAccount, L!Put, Put
<1> QED
  BY <1>3, <1>4 DEF L!LedgerNext

\* A step that changes neither accounts, records nor open calls is none of
\* the ledger's.
LEMMA LedgerStutter ==
    ASSUME Account' = Account, OpenCalls' = OpenCalls, Records' = Records
    PROVE  [L!LedgerNext]_L!ledgerVars
BY DEF L!ledgerVars

\* The cleaner and the last steps of a teardown: the dialog of call c goes,
\* the teardowns keep what they have closed.
LEMMA LedgerDrop ==
    ASSUME TypeOK, NEW c \in Calls, kam_dialogs' = Drop(kam_dialogs, c),
           UNCHANGED <<subscribers, cdrs, jobs>>
    PROVE  [L!LedgerNext]_L!ledgerVars
<1>1. Account' = Account /\ Records' = Records /\ Closing' = Closing
  BY DEF Account, Records, Closing, CdrOf, RecordOf
<1>2. OpenCalls' = Drop(OpenCalls, c)
  BY <1>1 DEF OpenCalls, Drop
<1>3. CASE c \in DOMAIN OpenCalls
  <2>1. L!Expire(c)
    BY <1>1, <1>2, <1>3 DEF L!Expire, L!Drop, Drop
  <2> QED
    BY <2>1 DEF L!LedgerNext
<1>4. CASE c \notin DOMAIN OpenCalls
  <2>1. OpenCalls' = OpenCalls
    BY <1>2, <1>4 DEF Drop, OpenCalls
  <2> QED
    BY <1>1, <2>1, LedgerStutter
<1> QED
  BY <1>3, <1>4

\* The first statement of a teardown: what it makes of accounts, open calls
\* and records.  r is its record.
LEMMA TeardownOpens ==
    ASSUME TypeOK, SpacedTeardowns = TRUE, SerialCalls = TRUE,
           NEW f \in Fibers, NEW c \in Calls, NEW job \in Jobs,
           f \notin DOMAIN jobs, Quiet(c), Spaced(c),
           job.call = c, job.end_epoch = now, jobs' = Put(jobs, f, job),
           kam_dialogs' = kam_dialogs,
           \/ job.pc = "cdr" /\ cdrs' = cdrs
           \/ job.pc = "dialog" /\ cdrs' = Put(cdrs, CdrKey(c, now), CdrOf(job)),
           NEW r, r = RecordOf(c, now, CdrOf(job))
    PROVE  /\ c \in DOMAIN kam_dialogs => c \in DOMAIN OpenCalls
           /\ OpenCalls' = Drop(OpenCalls, c)
           /\ Records' = Records \cup {r}
           /\ r \notin Records
<1>1. /\ DOMAIN jobs' = DOMAIN jobs \cup {f} /\ jobs'[f] = job
      /\ \A g \in DOMAIN jobs : jobs'[g] = jobs[g]
  BY DEF Put
<1>2. \A g \in DOMAIN jobs : jobs[g].call # c
  BY DEF Quiet
<1>3. /\ <<c, now>> \notin DOMAIN cdrs
      /\ DOMAIN cdrs \subseteq Calls \X Nat
  BY DEF Spaced, TypeOK, IsSpace
<1>4. c \notin Closing /\ Closing' = Closing \cup {c}
  <2>1. c \notin Closing
    BY <1>2 DEF Closing
  <2>2. \A d : d \in Closing' <=>
           \E g \in DOMAIN jobs' : jobs'[g].pc \in {"cdr", "dialog"} /\ d = jobs'[g].call
    BY DEF Closing
  <2>3. \A d : d \in Closing <=>
           \E g \in DOMAIN jobs : jobs[g].pc \in {"cdr", "dialog"} /\ d = jobs[g].call
    BY DEF Closing
  <2>4. \A d : d \in Closing' <=> d \in Closing \/ d = c
    BY <1>1, <2>2, <2>3
  <2> QED
    BY <2>1, <2>4
<1>5. OpenCalls' = Drop(OpenCalls, c)
  BY <1>4 DEF OpenCalls, Drop
<1>6. c \in DOMAIN kam_dialogs => c \in DOMAIN OpenCalls
  BY <1>4 DEF OpenCalls
<1>7. \A x : x \in Records <=>
        \/ \E k \in DOMAIN cdrs : x = RecordOf(k[1], k[2], cdrs[k])
        \/ \E g \in DOMAIN jobs : /\ jobs[g].pc = "cdr"
              /\ x = RecordOf(jobs[g].call, jobs[g].end_epoch, CdrOf(jobs[g]))
  BY DEF Records
<1>8. \A x : x \in Records' <=>
        \/ \E k \in DOMAIN cdrs' : x = RecordOf(k[1], k[2], cdrs'[k])
        \/ \E g \in DOMAIN jobs' : /\ jobs'[g].pc = "cdr"
              /\ x = RecordOf(jobs'[g].call, jobs'[g].end_epoch, CdrOf(jobs'[g]))
  BY DEF Records, RecordOf, CdrOf
<1>9. r \notin Records
  <2>1. ASSUME NEW k \in DOMAIN cdrs, r = RecordOf(k[1], k[2], cdrs[k]) PROVE FALSE
    <3>1. r.call = k[1] /\ r.end_epoch = k[2]
      BY <2>1 DEF RecordOf
    <3>2. r.call = c /\ r.end_epoch = now
      BY DEF RecordOf
    <3>3. k = <<k[1], k[2]>>
      BY <1>3
    <3> QED
      BY <3>1, <3>2, <3>3, <1>3
  <2>2. ASSUME NEW g \in DOMAIN jobs,
               r = RecordOf(jobs[g].call, jobs[g].end_epoch, CdrOf(jobs[g]))
        PROVE  FALSE
    <3>1. r.call = jobs[g].call /\ r.call = c
      BY <2>2 DEF RecordOf
    <3> QED
      BY <3>1, <1>2
  <2> QED
    BY <1>7, <2>1, <2>2
<1>10. Records' = Records \cup {r}
  <2>1. CASE job.pc = "cdr" /\ cdrs' = cdrs
    <3>1. \A x : x \in Records' <=> x \in Records \/ x = r
      BY <1>1, <1>7, <1>8, <2>1
    <3> QED
      BY <3>1
  <2>2. CASE job.pc = "dialog" /\ cdrs' = Put(cdrs, CdrKey(c, now), CdrOf(job))
    <3> DEFINE k == <<c, now>>
               t == CdrOf(job)
    <3>1. /\ DOMAIN cdrs' = DOMAIN cdrs \cup {k} /\ cdrs'[k] = t
          /\ \A j \in DOMAIN cdrs : cdrs'[j] = cdrs[j]
      BY <1>3, <2>2 DEF Put, CdrKey
    <3>2. RecordOf(k[1], k[2], t) = r
      OBVIOUS
    <3>3. job.pc # "cdr"
      BY <2>2
    <3> HIDE DEF k, t
    <3>4. \A x : (\E j \in DOMAIN cdrs' : x = RecordOf(j[1], j[2], cdrs'[j])) <=>
             (\E j \in DOMAIN cdrs : x = RecordOf(j[1], j[2], cdrs[j])) \/ x = r
      BY <3>1, <3>2
    <3>5. \A x :
            (\E g \in DOMAIN jobs' : /\ jobs'[g].pc = "cdr"
                /\ x = RecordOf(jobs'[g].call, jobs'[g].end_epoch, CdrOf(jobs'[g])))
            <=>
            (\E g \in DOMAIN jobs : /\ jobs[g].pc = "cdr"
                /\ x = RecordOf(jobs[g].call, jobs[g].end_epoch, CdrOf(jobs[g])))
      BY <1>1, <3>3
    <3>6. \A x : x \in Records' <=> x \in Records \/ x = r
      BY <1>7, <1>8, <3>4, <3>5
    <3> QED
      BY <3>6
  <2> QED
    BY <2>1, <2>2
<1> QED
  BY <1>5, <1>6, <1>9, <1>10

\* A teardown that debits closes its call in the ledger.
LEMMA LedgerDebit ==
    ASSUME TypeOK, SpacedTeardowns = TRUE, SerialCalls = TRUE,
           NEW f \in Fibers, NEW c \in Calls, NEW dur \in Durations,
           FinalizeDebit(f, c, dur)
    PROVE  [L!LedgerNext]_L!ledgerVars
<1> DEFINE u == CallerOf(c)
           old == subscribers[u].balance
           billed == BilledFor(c, dur)
           new == NewBalance(old, billed)
           job == Job(c, dur, "cdr")
           rec == [subscribers[u] EXCEPT !.balance = new]
           r == RecordOf(c, now, CdrOf(job))
<1>1. /\ u \in DOMAIN subscribers /\ f \notin DOMAIN jobs /\ Quiet(c) /\ Spaced(c)
      /\ subscribers' = [subscribers EXCEPT ![u] = rec]
      /\ jobs' = Put(jobs, f, job)
      /\ UNCHANGED <<cdrs, kam_dialogs>>
  BY DEF FinalizeDebit
<1>2. /\ old \in Int /\ subscribers[u] \in SubTuples
      /\ subscribers = [s \in DOMAIN subscribers |-> subscribers[s]]
  BY <1>1 DEF TypeOK, IsSpace, SubTuples
<1>3. c \in DOMAIN kam_dialogs /\ u = kam_dialogs[c].caller
  BY <1>1, BillingAssumption DEF CallerOf, TypeOK, IsSpace
<1>4. billed \in Nat
  BY JobType
<1>5. job \in Jobs
  BY JobType
<1>6. /\ job.call = c /\ job.end_epoch = now /\ job.pc = "cdr"
      /\ r.call = c /\ r.caller = u /\ r.billed = billed
  BY DEF Job, CdrOf, RecordOf
<1>7. new = L!Floor0(old - billed)
  BY DEF NewBalance, L!Floor0
<1>8. rec.balance = new
  BY <1>2 DEF SubTuples
<1> HIDE DEF job
<1>9. /\ c \in DOMAIN OpenCalls
      /\ OpenCalls' = Drop(OpenCalls, c)
      /\ Records' = Records \cup {r}
      /\ r \notin Records
  BY <1>1, <1>3, <1>5, <1>6, TeardownOpens
<1> HIDE DEF r, rec, new, billed, u
<1>10. OpenCalls[c] = u
  BY <1>3, <1>9 DEF OpenCalls
<1>11. Account' = [Account EXCEPT ![u] = new] /\ Account[u] = old
  BY <1>1, <1>2, <1>8 DEF Account
<1>12. Account' = [Account EXCEPT ![r.caller] = L!Floor0(@ - r.billed)]
  BY <1>6, <1>7, <1>11
<1>13. L!Close(r)
  BY <1>6, <1>9, <1>10, <1>12 DEF L!Close, L!Drop, Drop
<1>14. r \in L!Added
  BY <1>9 DEF L!Added
<1> QED
  BY <1>13, <1>14 DEF L!LedgerNext

\* A teardown that finds no dialog is recorded for "unknown".
LEMMA LedgerNoDebit ==
    ASSUME TypeOK, CallersKnown, SpacedTeardowns = TRUE, SerialCalls = TRUE,
           NEW f \in Fibers, NEW c \in Calls, NEW dur \in Durations,
           FinalizeNoDebit(f, c, dur)
    PROVE  [L!LedgerNext]_L!ledgerVars
<1> DEFINE job == Job(c, dur, "dialog")
           r == RecordOf(c, now, CdrOf(job))
<1>1. /\ f \notin DOMAIN jobs /\ Quiet(c) /\ Spaced(c)
      /\ CallerOf(c) \notin DOMAIN subscribers
      /\ jobs' = Put(jobs, f, job)
      /\ cdrs' = Put(cdrs, CdrKey(c, now), CdrOf(job))
      /\ UNCHANGED <<subscribers, kam_dialogs>>
  BY DEF FinalizeNoDebit
<1>2. c \notin DOMAIN kam_dialogs /\ CallerOf(c) = Unknown
  BY <1>1 DEF CallerOf, CallersKnown
<1>3. job \in Jobs
  BY JobType
<1>4. /\ job.call = c /\ job.end_epoch = now /\ job.pc = "dialog"
      /\ r.call = c /\ r.caller = Unknown
  BY <1>2 DEF Job, CdrOf, RecordOf
<1> HIDE DEF job
<1>5. /\ OpenCalls' = Drop(OpenCalls, c)
      /\ Records' = Records \cup {r}
      /\ r \notin Records
  BY <1>1, <1>3, <1>4, TeardownOpens
<1> HIDE DEF r
<1>6. c \notin DOMAIN OpenCalls /\ OpenCalls' = OpenCalls
  BY <1>2, <1>5 DEF OpenCalls, Drop
<1>7. Account' = Account
  BY <1>1 DEF Account
<1>8. L!CloseUnknown(r)
  BY <1>4, <1>5, <1>6, <1>7 DEF L!CloseUnknown
<1>9. r \in L!Added
  BY <1>5 DEF L!Added
<1> QED
  BY <1>8, <1>9 DEF L!LedgerNext

\* The later statements of a teardown change nothing in the ledger.
LEMMA LedgerFinalizeStep ==
    ASSUME TypeOK, OwnKeys, NEW f \in Fibers, FinalizeStep(f)
    PROVE  [L!LedgerNext]_L!ledgerVars
<1>0. /\ jobs = [g \in DOMAIN jobs |-> jobs[g]]
      /\ \A g \in DOMAIN jobs : jobs[g] \in Jobs
  BY DEF TypeOK, IsSpace
<1>1. /\ \A x : x \in Records <=>
           \/ \E k \in DOMAIN cdrs : x = RecordOf(k[1], k[2], cdrs[k])
           \/ \E g \in DOMAIN jobs : /\ jobs[g].pc = "cdr"
                 /\ x = RecordOf(jobs[g].call, jobs[g].end_epoch, CdrOf(jobs[g]))
      /\ \A x : x \in Records' <=>
           \/ \E k \in DOMAIN cdrs' : x = RecordOf(k[1], k[2], cdrs'[k])
           \/ \E g \in DOMAIN jobs' : /\ jobs'[g].pc = "cdr"
                 /\ x = RecordOf(jobs'[g].call, jobs'[g].end_epoch, CdrOf(jobs'[g]))
  BY DEF Records, RecordOf, CdrOf
<1>2. /\ \A d : d \in Closing <=>
           \E g \in DOMAIN jobs : jobs[g].pc \in {"cdr", "dialog"} /\ d = jobs[g].call
      /\ \A d : d \in Closing' <=>
           \E g \in DOMAIN jobs' : jobs'[g].pc \in {"cdr", "dialog"} /\ d = jobs'[g].call
  BY DEF Closing
<1>3. ASSUME NEW p, f \in DOMAIN jobs,
             jobs' = [jobs EXCEPT ![f] = [jobs[f] EXCEPT !.pc = p]]
      PROVE  /\ DOMAIN jobs' = DOMAIN jobs
             /\ jobs'[f].pc = p /\ jobs'[f].call = jobs[f].call
             /\ \A g \in DOMAIN jobs \ {f} : jobs'[g] = jobs[g]
  BY <1>0, <1>3 DEF Jobs
<1>4. CASE WriteCdr(f)
  <2> DEFINE k == <<jobs[f].call, jobs[f].end_epoch>>
             t == CdrOf(jobs[f])
             r == RecordOf(jobs[f].call, jobs[f].end_epoch, t)
  <2>1. /\ f \in DOMAIN jobs /\ jobs[f].pc = "cdr"
        /\ jobs' = [jobs EXCEPT ![f] = [jobs[f] EXCEPT !.pc = "dialog"]]
        /\ cdrs' = Put(cdrs, k, t)
        /\ UNCHANGED <<subscribers, kam_dialogs>>
    BY <1>4 DEF WriteCdr, CdrKey
  <2>2. k \notin DOMAIN cdrs
    BY <2>1 DEF OwnKeys, CdrKey
  <2>3. RecordOf(k[1], k[2], t) = r
    OBVIOUS
  <2>4. /\ DOMAIN jobs' = DOMAIN jobs
        /\ jobs'[f].pc = "dialog" /\ jobs'[f].call = jobs[f].call
        /\ \A g \in DOMAIN jobs \ {f} : jobs'[g] = jobs[g]
    BY <1>3, <2>1
  <2>5. Closing' = Closing
    <3>1. \A d : d \in Closing' <=> d \in Closing
      BY <1>2, <2>1, <2>4
    <3> QED
      BY <3>1
  <2>6. /\ DOMAIN cdrs' = DOMAIN cdrs \cup {k} /\ cdrs'[k] = t
        /\ \A j \in DOMAIN cdrs : cdrs'[j] = cdrs[j]
    BY <2>1, <2>2 DEF Put
  <2>7. \A x : (\E j \in DOMAIN cdrs' : x = RecordOf(j[1], j[2], cdrs'[j])) <=>
             (\E j \in DOMAIN cdrs : x = RecordOf(j[1], j[2], cdrs[j])) \/ x = r
    <3> HIDE DEF k, t, r
    <3> QED
      BY <2>3, <2>6
  <2>8. \A x :
            (\E g \in DOMAIN jobs : /\ jobs[g].pc = "cdr"
                /\ x = RecordOf(jobs[g].call, jobs[g].end_epoch, CdrOf(jobs[g])))
            <=>
            \/ x = r
            \/ \E g \in DOMAIN jobs' : /\ jobs'[g].pc = "cdr"
                /\ x = RecordOf(jobs'[g].call, jobs'[g].end_epoch, CdrOf(jobs'[g]))
    BY <2>1, <2>4
  <2>9. Records' = Records
    <3>1. \A x : x \in Records' <=> x \in Records
      <4> HIDE DEF r
      <4> QED
        BY <1>1, <2>7, <2>8
    <3> QED
      BY <3>1
  <2>10. Account' = Account /\ OpenCalls' = OpenCalls
    BY <2>1, <2>5 DEF Account, OpenCalls
  <2> QED
    BY <2>9, <2>10, LedgerStutter
<1>5. CASE DeleteDialog(f)
  <2>1. /\ f \in DOMAIN jobs /\ jobs[f].pc = "dialog"
        /\ jobs' = [jobs EXCEPT ![f] = [jobs[f] EXCEPT !.pc = "media"]]
        /\ kam_dialogs' = Drop(kam_dialogs, jobs[f].call)
        /\ UNCHANGED <<subscribers, cdrs>>
    BY <1>5 DEF DeleteDialog
  <2>2. /\ DOMAIN jobs' = DOMAIN jobs
        /\ jobs'[f].pc = "media" /\ jobs'[f].call = jobs[f].call
        /\ \A g \in DOMAIN jobs \ {f} : jobs'[g] = jobs[g]
    BY <1>3, <2>1
  <2>3. Closing = Closing' \cup {jobs[f].call}
    <3>1. \A d : d \in Closing <=> d \in Closing' \/ d = jobs[f].call
      BY <1>2, <2>1, <2>2
    <3> QED
      BY <3>1
  <2>4. OpenCalls' = OpenCalls
    BY <2>1, <2>3 DEF OpenCalls, Drop
  <2>5. Records' = Records
    <3>1. \A x : x \in Records' <=> x \in Records
      BY <1>1, <2>1, <2>2
    <3> QED
      BY <3>1
  <2>6. Account' = Account
    BY <2>1 DEF Account
  <2> QED
    BY <2>4, <2>5, <2>6, LedgerStutter
<1>6. CASE DeleteMedia(f)
  <2>1. /\ f \in DOMAIN jobs /\ jobs[f].pc = "media"
        /\ jobs' = Drop(jobs, f)
        /\ UNCHANGED <<subscribers, cdrs, kam_dialogs>>
    BY <1>6 DEF DeleteMedia
  <2>2. /\ DOMAIN jobs' = DOMAIN jobs \ {f}
        /\ \A g \in DOMAIN jobs \ {f} : jobs'[g] = jobs[g]
    BY <2>1 DEF Drop
  <2>3. Closing' = Closing
    <3>1. \A d : d \in Closing' <=> d \in Closing
      BY <1>2, <2>1, <2>2
    <3> QED
      BY <3>1
  <2>4. Records' = Records
    <3>1. \A x : x \in Records' <=> x \in Records
      BY <1>1, <2>1, <2>2
    <3> QED
      BY <3>1
  <2>5. Account' = Account /\ OpenCalls' = OpenCalls
    BY <2>1, <2>3 DEF Account, OpenCalls
  <2> QED
    BY <2>4, <2>5, LedgerStutter
<1> QED
  BY <1>4, <1>5, <1>6 DEF FinalizeStep

\* One step of the procedures is a step of the ledger or none.
LEMMA LedgerStep ==
    ASSUME TypeOK, CallersKnown, OwnKeys, SerialCalls = TRUE,
           SpacedTeardowns = TRUE, Failures = FALSE, [Next]_vars
    PROVE  [L!LedgerNext]_L!ledgerVars
<1>1. ASSUME NEW s \in Subs, NEW b \in Balances, NEW l \in Limits,
             add_subscriber(s, b, l)
      PROVE  [L!LedgerNext]_L!ledgerVars
  <2> DEFINE rec == [balance |-> b, status |-> "active", max_concurrent_calls |-> l]
  <2>1. /\ subscribers' = Put(subscribers, s, rec)
        /\ UNCHANGED <<kam_dialogs, cdrs, jobs>>
    BY <1>1 DEF add_subscriber
  <2>2. rec.balance \in Int
    BY BillingAssumption
  <2> HIDE DEF rec
  <2> QED
    BY <2>1, <2>2, LedgerSetAccount
<1>2. ASSUME NEW s \in Subs, NEW d \in Deltas, update_balance(s, d)
      PROVE  [L!LedgerNext]_L!ledgerVars
  <2> DEFINE rec == [subscribers[s] EXCEPT !.balance = @ + d]
  <2>1. /\ s \in DOMAIN subscribers /\ d \in Int
        /\ subscribers' = [subscribers EXCEPT ![s] = rec]
        /\ UNCHANGED <<kam_dialogs, cdrs, jobs>>
    BY <1>2, BillingAssumption DEF update_balance
  <2>2. rec.balance \in Int
    BY <2>1 DEF TypeOK, IsSpace, SubTuples
  <2> HIDE DEF rec
  <2> QED
    BY <2>1, <2>2, LedgerSetAccount
<1>3. ASSUME NEW s \in Subs, NEW st \in Statuses, SetStatus(s, st)
      PROVE  [L!LedgerNext]_L!ledgerVars
  <2> DEFINE rec == [subscribers[s] EXCEPT !.status = st]
  <2>1. /\ s \in DOMAIN subscribers
        /\ subscribers' = [subscribers EXCEPT ![s] = rec]
        /\ UNCHANGED <<kam_dialogs, cdrs, jobs>>
    BY <1>3 DEF SetStatus
  <2>2. rec.balance \in Int
    BY <2>1 DEF TypeOK, IsSpace, SubTuples
  <2> HIDE DEF rec
  <2> QED
    BY <2>1, <2>2, LedgerSetAccount
<1>4. CASE UNCHANGED <<subscribers, kam_dialogs, cdrs, jobs>>
  BY <1>4, LedgerStutter DEF Account, OpenCalls, Records, Closing, CdrOf, RecordOf
<1>5. CASE Purge
  <2>1. \E c \in Calls : kam_dialogs' = Drop(kam_dialogs, c)
    BY <1>5 DEF Purge, PurgeFirst, PurgeNext, ExpiredDialogs, TypeOK, IsSpace
  <2>2. UNCHANGED <<subscribers, cdrs, jobs>>
    BY <1>5 DEF Purge, PurgeFirst, PurgeNext
  <2> QED
    BY <2>1, <2>2, LedgerDrop
<1> QED
  BY <1>1, <1>2, <1>3, <1>4, <1>5, LedgerAuthorize, LedgerDebit, LedgerNoDebit,
     LedgerFinalizeStep
     DEF Next, vars, set_tariff, MediaUpsert, StatementFails, Tick, Crash

\* When the requests about one Call-ID do not overlap, its teardowns are a
\* second apart and no statement fails, the procedures implement Ledger: with
\* their statements interleaved they do what atomic procedures would do.
THEOREM ImplementsLedger ==
    ASSUME SerialCalls = TRUE, SpacedTeardowns = TRUE, Failures = FALSE
    PROVE  Safety => LooksAtomic
<1>1. Init => L!LedgerInit
  <2> SUFFICES ASSUME Init PROVE L!LedgerInit
    OBVIOUS
  <2>1. /\ DOMAIN subscribers = {} /\ DOMAIN kam_dialogs = {}
        /\ DOMAIN cdrs = {} /\ DOMAIN jobs = {}
    BY EmptyIsSpace DEF Init
  <2>2. Account = EmptySpace /\ OpenCalls = EmptySpace /\ Records = {}
    BY <2>1 DEF Account, OpenCalls, Records, EmptySpace
  <2> QED
    BY <2>2 DEF L!LedgerInit, L!EmptySpace, EmptySpace
<1>2. Init => OwnKeys /\ CallersKnown
  BY GapInit, EmptyIsSpace DEF Init, CallersKnown
<1>3. TypeOK /\ OwnKeys /\ [Next]_vars => OwnKeys'
  BY OwnKeysNext
<1>4. TypeOK /\ OwnKeys /\ CallersKnown /\ [Next]_vars => [L!LedgerNext]_L!ledgerVars
  BY LedgerStep
<1> QED
  BY <1>1, <1>2, <1>3, <1>4, CallersNext, TypeCorrect, PTL
     DEF Safety, LooksAtomic, L!LedgerSpec
=============================================================================
