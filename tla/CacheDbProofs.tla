---------------------------- MODULE CacheDbProofs ----------------------------
(***************************************************************************)
(* Theorems about CacheDbPool, for every size of the pool and every        *)
(* setting of its breaker.                                                 *)
(***************************************************************************)
EXTENDS CacheDbPool, TLAPS

\* Where the slot has a connection that is not logged in, and where it has
\* one that is.
Handshake == {"greeting", "auth"}
Using == {"resolve", "send", "recv"}

\* Until the pool is torn down, a slot that is not disabled has an error
\* count below the limit, and one that is logged in has none.
Counters ==
    pc # "gone" =>
        \A i \in Slots :
            /\ conns[i].state # "DISABLED" => conns[i].errors < AllowedErrors
            /\ conns[i].state = "AUTHENTICATED" => conns[i].errors = 0

\* NoHalfOpen at every moment: only during a handshake may a descriptor
\* belong to a connection that is not logged in.
Descriptors ==
    /\ \A i \in Slots :
          (i # slot \/ pc \notin Handshake) =>
              (conns[i].fd <=> conns[i].state = "AUTHENTICATED")
    /\ pc \in Handshake => conns[slot].fd /\ conns[slot].state # "DISABLED"
    /\ pc \in Using => conns[slot].state = "AUTHENTICATED"

\* Operations that have begun since it was the turn of slot i.
Turns(i) == IF i < current_idx THEN current_idx - 1 - i
                               ELSE current_idx - 1 - i + PoolSize

\* No slot misses more operations than were begun since its turn; the one
\* under way has not been missed yet.
Missed ==
    /\ \A i \in Slots : missed[i] < PoolSize
    /\ setup => \A i \in Slots : missed[i] = 0
    /\ pc = "idle" => \A i \in Slots : missed[i] <= Turns(i)
    /\ ~setup /\ pc \notin {"idle", "gone"} =>
           \A i \in Slots \ {slot} : missed[i] < Turns(i)

IInv == TypeOK /\ Counters /\ BreakerJustified /\ Descriptors /\ Missed
-----------------------------------------------------------------------------
(***************************************************************************)
(* What the outcomes make of a slot                                        *)
(***************************************************************************)

\* Fields of the records that the outcomes build.
LEMMA Outcomes ==
    ASSUME NEW c \in Conns, NEW st \in States
    PROVE  /\ Closed(c, st) \in Conns
           /\ Closed(c, st).fd = FALSE
           /\ Closed(c, st).state = st
           /\ Closed(c, st).errors = c.errors
           /\ Ready(c) \in Conns
           /\ Ready(c).fd = c.fd
           /\ Ready(c).state = "AUTHENTICATED"
           /\ Ready(c).errors = 0
BY DEF Conns, Closed, Ready, States

\* A counted failure closes the slot and disables it at the limit.
LEMMA CountedOutcome ==
    ASSUME NEW c \in Conns
    PROVE  /\ Counted(c) \in Conns
           /\ Counted(c).fd = FALSE
           /\ Counted(c).errors = c.errors + 1
           /\ c.errors + 1 >= AllowedErrors => Counted(c).state = "DISABLED"
           /\ c.errors + 1 < AllowedErrors => Counted(c).state = "ERROR"
<1>1. /\ Closed(c, "DISABLED") \in Conns
      /\ Closed(c, "DISABLED").fd = FALSE
      /\ Closed(c, "DISABLED").state = "DISABLED"
      /\ Closed(c, "DISABLED").errors = c.errors
      /\ Closed(c, "ERROR") \in Conns
      /\ Closed(c, "ERROR").fd = FALSE
      /\ Closed(c, "ERROR").state = "ERROR"
      /\ Closed(c, "ERROR").errors = c.errors
  BY Outcomes DEF States
<1>2. AllowedErrors \in Nat /\ DisableTime \in 0..DisableTime /\ c.errors \in Nat
  BY CacheDbAssumption DEF Conns
<1>3. CASE c.errors + 1 >= AllowedErrors
  <2> DEFINE d == Closed(c, "DISABLED")
  <2>1. Counted(c) = [d EXCEPT !.errors = d.errors + 1, !.wait = DisableTime]
    BY <1>3 DEF Counted
  <2>2. d \in Conns /\ d.fd = FALSE /\ d.state = "DISABLED" /\ d.errors = c.errors
    BY <1>1
  <2> HIDE DEF d
  <2>3. d = [fd |-> d.fd, peer |-> d.peer, state |-> d.state,
             errors |-> d.errors, wait |-> d.wait]
    BY <2>2 DEF Conns
  <2>4. Counted(c) = [fd |-> d.fd, peer |-> d.peer, state |-> d.state,
                      errors |-> d.errors + 1, wait |-> DisableTime]
    BY <2>1, <2>3
  <2>5. /\ d.fd \in BOOLEAN /\ d.peer \in BOOLEAN /\ d.state \in States
        /\ d.errors + 1 \in Nat
    BY <1>2, <2>2 DEF Conns
  <2>6. Counted(c) \in Conns
    BY <1>2, <2>4, <2>5 DEF Conns
  <2> QED
    BY <1>2, <1>3, <2>2, <2>4, <2>6
<1>4. CASE ~(c.errors + 1 >= AllowedErrors)
  <2> DEFINE d == Closed(c, "ERROR")
  <2>1. Counted(c) = [d EXCEPT !.errors = d.errors + 1]
    BY <1>4 DEF Counted
  <2>2. d \in Conns /\ d.fd = FALSE /\ d.state = "ERROR" /\ d.errors = c.errors
    BY <1>1
  <2> HIDE DEF d
  <2>3. /\ Counted(c) \in Conns
        /\ Counted(c).fd = d.fd
        /\ Counted(c).state = d.state
        /\ Counted(c).errors = d.errors + 1
    BY <1>2, <2>1, <2>2 DEF Conns
  <2> QED
    BY <1>2, <1>4, <2>2, <2>3
<1> QED
  BY <1>3, <1>4

\* A disabled slot that is tried again starts from nothing.
LEMMA ReopenedOutcome ==
    ASSUME NEW c \in Conns
    PROVE  /\ Reopened(c) \in Conns
           /\ c.state = "DISABLED" => /\ Reopened(c).errors = 0
                                      /\ Reopened(c).state = "DISCONNECTED"
           /\ c.state # "DISABLED" => Reopened(c) = c
<1>1. /\ Closed(c, "DISCONNECTED") \in Conns
      /\ Closed(c, "DISCONNECTED").state = "DISCONNECTED"
  BY Outcomes DEF States
<1> QED
  BY <1>1 DEF Reopened, Conns
-----------------------------------------------------------------------------
(***************************************************************************)
(* How operations begin and end                                            *)
(***************************************************************************)

\* Numbers that every step needs.
LEMMA Sizes ==
    /\ PoolSize \in Nat /\ PoolSize >= 1
    /\ AllowedErrors \in Nat /\ AllowedErrors >= 1
    /\ \A i \in Slots : i \in Nat /\ i < PoolSize
BY CacheDbAssumption DEF Slots

\* The slot after the last one in setup_pool.
LEMMA NextSlot ==
    ASSUME TypeOK, EndOperation
    PROVE  /\ slot' \in Slots /\ setup' \in BOOLEAN
           /\ pc' \in {"idle", "connect"}
           /\ setup' => setup
           /\ pc' = "connect" => setup /\ setup'
BY DEF TypeOK, EndOperation

\* A failed operation leaves a closed slot d with k failures in a row.
LEMMA GiveUpKeeps ==
    ASSUME IInv, pc \notin {"idle", "gone"},
           NEW d \in Conns, d.fd = FALSE, d.state # "AUTHENTICATED",
           d.state # "DISABLED" => d.errors < AllowedErrors,
           d.errors <= AllowedErrors,
           NEW k \in 0..AllowedErrors, d.errors <= k,
           d.state = "DISABLED" => k >= AllowedErrors,
           conns' = [conns EXCEPT ![slot] = d],
           streak' = [streak EXCEPT ![slot] = k],
           GiveUp, UNCHANGED <<current_idx, space_id, server, resets>>
    PROVE  IInv'
<1>1. /\ slot \in Slots /\ current_idx \in Slots /\ setup \in BOOLEAN
      /\ conns \in [Slots -> Conns] /\ streak \in [Slots -> 0..AllowedErrors]
      /\ missed \in [Slots -> Nat]
  BY DEF IInv, TypeOK
<1>2. /\ conns' \in [Slots -> Conns]
      /\ conns'[slot] = d
      /\ \A i \in Slots \ {slot} : conns'[i] = conns[i]
  BY <1>1
<1>3. /\ streak' \in [Slots -> 0..AllowedErrors]
      /\ streak'[slot] = k
      /\ \A i \in Slots \ {slot} : streak'[i] = streak[i]
  BY <1>1
<1>4. /\ slot' \in Slots /\ setup' \in BOOLEAN
      /\ pc' \in {"idle", "connect"}
      /\ setup' => setup
      /\ pc' = "connect" => setup /\ setup'
  BY NextSlot DEF IInv, GiveUp
<1>5. /\ missed' \in [Slots -> Nat]
      /\ \A i \in Slots : setup => missed'[i] = 0
      /\ missed'[slot] = 0
      /\ \A i \in Slots \ {slot} : missed'[i] = 0 \/ missed'[i] = missed[i] + 1
  BY <1>1, <1>2 DEF GiveUp, Usable
<1>6. TypeOK'
  <2>1. \A i \in Slots : conns'[i].errors <= AllowedErrors
    BY <1>1, <1>2 DEF IInv, TypeOK
  <2> QED
    BY <1>1, <1>2, <1>3, <1>4, <1>5, <2>1 DEF IInv, TypeOK
<1>7. Counters'
  BY <1>1, <1>2, <1>4 DEF IInv, Counters
<1>8. BreakerJustified'
  BY <1>1, <1>2, <1>3 DEF IInv, BreakerJustified
<1>9. Descriptors'
  <2>1. \A i \in Slots : conns'[i].fd <=> conns'[i].state = "AUTHENTICATED"
    BY <1>1, <1>2 DEF IInv, Descriptors
  <2> QED
    BY <1>4, <2>1 DEF Descriptors, Handshake, Using
<1>10. Missed'
  <2>1. \A i \in Slots : Turns(i) \in Nat /\ Turns(i) < PoolSize /\ Turns(i)' = Turns(i)
    BY <1>1, Sizes DEF Turns
  <2>2. CASE setup
    BY <1>1, <1>4, <1>5, <2>1, <2>2, Sizes DEF Missed
  <2>3. CASE ~setup
    <3>1. \A i \in Slots \ {slot} : missed[i] < Turns(i)
      BY <2>3 DEF IInv, Missed
    <3>2. \A i \in Slots : missed'[i] <= Turns(i)
      BY <1>1, <1>5, <2>1, <3>1
    <3> HIDE DEF Turns
    <3>3. \A i \in Slots : missed'[i] < PoolSize
      BY <1>5, <2>1, <3>2, Sizes
    <3> QED
      BY <1>4, <2>1, <2>3, <3>2, <3>3 DEF Missed
  <2> QED
    BY <1>1, <2>2, <2>3
<1> QED
  BY <1>6, <1>7, <1>8, <1>9, <1>10 DEF IInv

\* A login leaves a slot d without errors, from which the worker goes on.
LEMMA ReadyKeeps ==
    ASSUME IInv, pc \in Handshake \cup {"resolve"},
           NEW d \in Conns, d.fd = TRUE, d.state = "AUTHENTICATED", d.errors = 0,
           conns' = [conns EXCEPT ![slot] = d],
           Connected \/ (pc' = "resolve" /\ UNCHANGED <<slot, setup>>),
           space_id' \in Nat,
           UNCHANGED <<current_idx, server, resets, streak, missed>>
    PROVE  IInv'
<1>1. /\ slot \in Slots /\ current_idx \in Slots /\ setup \in BOOLEAN
      /\ conns \in [Slots -> Conns] /\ streak \in [Slots -> 0..AllowedErrors]
      /\ missed \in [Slots -> Nat]
  BY DEF IInv, TypeOK
<1>2. /\ conns' \in [Slots -> Conns]
      /\ conns'[slot] = d
      /\ \A i \in Slots \ {slot} : conns'[i] = conns[i]
  BY <1>1
<1>3. /\ slot' \in Slots /\ setup' \in BOOLEAN
      /\ pc' \in {"idle", "connect", "resolve", "send"}
      /\ setup' => setup
      /\ ~setup => pc' \in {"resolve", "send"}
      /\ pc' \in {"resolve", "send"} => slot' = slot /\ setup' = setup
      /\ pc' = "connect" => setup'
  <2>1. CASE pc' = "resolve" /\ UNCHANGED <<slot, setup>>
    BY <1>1, <2>1
  <2>2. CASE Connected /\ setup
    <3>1. EndOperation
      BY <2>2 DEF Connected
    <3> QED
      BY <1>1, <2>2, <3>1, NextSlot DEF IInv
  <2>3. CASE Connected /\ ~setup
    BY <1>1, <2>3 DEF Connected
  <2> QED
    BY <2>1, <2>2, <2>3
<1>4. TypeOK'
  <2>1. \A i \in Slots : conns'[i].errors <= AllowedErrors
    BY <1>1, <1>2, Sizes DEF IInv, TypeOK
  <2> QED
    BY <1>1, <1>2, <1>3, <2>1 DEF IInv, TypeOK
<1>5. Counters'
  BY <1>1, <1>2, Sizes DEF IInv, Counters, Handshake
<1>6. BreakerJustified'
  BY <1>1, <1>2 DEF IInv, BreakerJustified
<1>7. Descriptors'
  <2>1. \A i \in Slots : conns'[i].fd <=> conns'[i].state = "AUTHENTICATED"
    BY <1>1, <1>2 DEF IInv, Descriptors
  <2> QED
    BY <1>2, <1>3, <2>1 DEF Descriptors, Handshake, Using
<1>8. Missed'
  <2>1. \A i \in Slots : Turns(i) \in Nat /\ Turns(i)' = Turns(i)
    BY <1>1, Sizes DEF Turns
  <2>2. CASE setup
    <3>1. \A i \in Slots : missed'[i] = 0
      BY <2>2 DEF IInv, Missed
    <3>2. ~(~setup' /\ pc' \notin {"idle", "gone"})
      BY <1>3, <2>2
    <3>3. \A i \in Slots : missed'[i] < PoolSize /\ missed'[i] <= Turns(i)'
      BY <2>1, <3>1, Sizes
    <3> QED
      BY <3>1, <3>2, <3>3 DEF Missed
  <2>3. CASE ~setup
    BY <1>3, <2>1, <2>3 DEF IInv, Missed, Handshake
  <2> QED
    BY <1>1, <2>2, <2>3
<1> QED
  BY <1>4, <1>5, <1>6, <1>7, <1>8 DEF IInv

\* Only the peer's end of connections and the clock change.
LEMMA EnvironmentKeeps ==
    ASSUME IInv, conns' \in [Slots -> Conns],
           \A i \in Slots : /\ conns'[i].fd = conns[i].fd
                            /\ conns'[i].state = conns[i].state
                            /\ conns'[i].errors = conns[i].errors,
           server' \in {"up", "down", "broken", "stalled"}, resets' \in Nat,
           UNCHANGED <<current_idx, space_id, pc, slot, setup, streak, missed>>
    PROVE  IInv'
<1>1. slot \in Slots
  BY DEF IInv, TypeOK
<1>2. TypeOK'
  BY DEF IInv, TypeOK
<1>3. Counters'
  BY DEF IInv, Counters
<1>4. BreakerJustified'
  BY DEF IInv, BreakerJustified
<1>5. Descriptors'
  BY <1>1 DEF IInv, Descriptors
<1>6. Missed'
  BY DEF IInv, Missed, Turns
<1> QED
  BY <1>2, <1>3, <1>4, <1>5, <1>6 DEF IInv

\* get_conn moves on by one turn.
LEMMA TakeSlotKeeps ==
    ASSUME IInv, TakeSlot
    PROVE  IInv'
<1>1. /\ slot \in Slots /\ current_idx \in Slots /\ setup \in BOOLEAN
      /\ missed \in [Slots -> Nat]
  BY DEF IInv, TypeOK
<1>2. /\ pc = "idle" /\ slot' = current_idx
      /\ pc' \in {"send", "connect"}
      /\ pc' = "send" => conns[current_idx].state = "AUTHENTICATED"
      /\ UNCHANGED <<conns, space_id, setup, server, resets, streak, missed>>
  BY DEF TakeSlot, Usable
<1>3. /\ current_idx' \in Slots
      /\ \A i \in Slots \ {current_idx} : Turns(i)' = Turns(i) + 1
      /\ \A i \in Slots : Turns(i) \in Nat
  <2>1. current_idx' = IF current_idx + 1 >= PoolSize THEN 0 ELSE current_idx + 1
    BY DEF TakeSlot, NextIdx
  <2> QED
    BY <1>1, <2>1, Sizes DEF Turns, Slots
<1>4. TypeOK'
  BY <1>1, <1>2, <1>3 DEF IInv, TypeOK
<1>5. Counters'
  BY <1>2 DEF IInv, Counters
<1>6. BreakerJustified'
  BY <1>2 DEF IInv, BreakerJustified
<1>7. Descriptors'
  BY <1>1, <1>2 DEF IInv, Descriptors, Handshake, Using
<1>8. Missed'
  <2>1. \A i \in Slots : missed[i] <= Turns(i) /\ missed[i] < PoolSize
    BY <1>2 DEF IInv, Missed
  <2>2. \A i \in Slots \ {slot'} : missed'[i] < Turns(i)'
    BY <1>1, <1>2, <1>3, <2>1
  <2> QED
    BY <1>2, <2>1, <2>2 DEF IInv, Missed
<1> QED
  BY <1>4, <1>5, <1>6, <1>7, <1>8 DEF IInv

\* The history that goes with a failure.
LEMMA FailureCounted ==
    ASSUME TypeOK, FailedAgain
    PROVE  \E k \in 0..AllowedErrors :
              /\ streak' = [streak EXCEPT ![slot] = k]
              /\ k = IF PastFailures < AllowedErrors THEN PastFailures + 1
                                                     ELSE PastFailures
<1>1. PastFailures \in 0..AllowedErrors
  BY Sizes DEF TypeOK, PastFailures, Conn
<1> DEFINE k == IF PastFailures < AllowedErrors THEN PastFailures + 1
                                                ELSE PastFailures
<1>2. k \in 0..AllowedErrors
  BY <1>1, Sizes
<1>3. streak' = [streak EXCEPT ![slot] = k]
  BY DEF FailedAgain, Streak
<1> QED
  BY <1>2, <1>3

\* The slot that the worker is about to try, and its history.
LEMMA Tried ==
    ASSUME IInv, pc # "gone"
    PROVE  /\ Conn \in Conns /\ Reopened(Conn) \in Conns
           /\ Reopened(Conn).state # "DISABLED"
           /\ Conn.state # "DISABLED" => Reopened(Conn) = Conn
           /\ Reopened(Conn).errors \in Nat
           /\ Reopened(Conn).errors < AllowedErrors
           /\ Reopened(Conn).errors <= PastFailures
           /\ PastFailures \in 0..AllowedErrors
<1>1. /\ slot \in Slots /\ conns \in [Slots -> Conns]
      /\ streak \in [Slots -> 0..AllowedErrors]
  BY DEF IInv, TypeOK
<1>2. Conn \in Conns /\ Conn = conns[slot]
  BY <1>1 DEF Conn
<1>3. /\ Reopened(Conn) \in Conns
      /\ Conn.state = "DISABLED" => /\ Reopened(Conn).errors = 0
                                    /\ Reopened(Conn).state = "DISCONNECTED"
      /\ Conn.state # "DISABLED" => Reopened(Conn) = Conn
  BY <1>2, ReopenedOutcome
<1>4. CASE Conn.state = "DISABLED"
  BY <1>2, <1>3, <1>4, Sizes DEF PastFailures
<1>5. CASE Conn.state # "DISABLED"
  <2>1. Conn.errors < AllowedErrors /\ Conn.errors <= streak[slot]
    BY <1>1, <1>2, <1>5 DEF IInv, Counters, BreakerJustified
  <2>2. Conn.errors \in Nat
    BY <1>2 DEF Conns
  <2> QED
    BY <1>1, <1>2, <1>3, <1>5, <2>1, <2>2 DEF PastFailures
<1> QED
  BY <1>4, <1>5

\* A counted failure keeps the invariant.
LEMMA CountedKeeps ==
    ASSUME IInv, pc \notin {"idle", "gone"},
           conns' = [conns EXCEPT ![slot] = Counted(Reopened(Conn))],
           FailedAgain, GiveUp, UNCHANGED <<current_idx, space_id, server, resets>>
    PROVE  IInv'
<1> DEFINE r == Reopened(Conn)
           d == Counted(r)
<1>1. /\ r \in Conns /\ r.errors \in Nat /\ r.errors < AllowedErrors
      /\ r.errors <= PastFailures /\ PastFailures \in 0..AllowedErrors
  BY Tried
<1>2. PICK k \in 0..AllowedErrors :
         /\ streak' = [streak EXCEPT ![slot] = k]
         /\ k = IF PastFailures < AllowedErrors THEN PastFailures + 1
                                                ELSE PastFailures
  BY FailureCounted DEF IInv
<1>3. /\ d \in Conns /\ d.fd = FALSE /\ d.errors = r.errors + 1
      /\ r.errors + 1 >= AllowedErrors => d.state = "DISABLED"
      /\ r.errors + 1 < AllowedErrors => d.state = "ERROR"
  BY <1>1, CountedOutcome
<1> HIDE DEF r, d
<1>4. /\ d.state # "AUTHENTICATED"
      /\ d.state # "DISABLED" => d.errors < AllowedErrors
      /\ d.errors <= AllowedErrors
      /\ d.errors <= k
      /\ d.state = "DISABLED" => k >= AllowedErrors
  BY <1>1, <1>2, <1>3, Sizes
<1>5. conns' = [conns EXCEPT ![slot] = d]
  BY DEF d, r
<1> QED
  BY <1>2, <1>3, <1>4, <1>5, GiveUpKeeps

\* A failure that is not counted keeps the invariant, whether the history
\* counts it or not.
LEMMA ClosedKeeps ==
    ASSUME IInv, pc \notin {"idle", "gone"},
           conns' = [conns EXCEPT ![slot] = Closed(Reopened(Conn), "ERROR")],
           FailedAgain \/ Streak(PastFailures),
           GiveUp, UNCHANGED <<current_idx, space_id, server, resets>>
    PROVE  IInv'
<1> DEFINE r == Reopened(Conn)
           d == Closed(r, "ERROR")
<1>1. /\ r \in Conns /\ r.errors \in Nat /\ r.errors < AllowedErrors
      /\ r.errors <= PastFailures /\ PastFailures \in 0..AllowedErrors
  BY Tried
<1>2. \E k \in 0..AllowedErrors :
         streak' = [streak EXCEPT ![slot] = k] /\ k >= PastFailures
  <2>1. CASE FailedAgain
    BY <1>1, <2>1, FailureCounted, Sizes DEF IInv
  <2>2. CASE Streak(PastFailures)
    <3>1. PastFailures >= PastFailures
      BY <1>1, Sizes
    <3>2. streak' = [streak EXCEPT ![slot] = PastFailures]
      BY <2>2 DEF Streak
    <3> QED
      BY <1>1, <3>1, <3>2
  <2> QED
    BY <2>1, <2>2
<1>3. PICK k \in 0..AllowedErrors :
         streak' = [streak EXCEPT ![slot] = k] /\ k >= PastFailures
  BY <1>2
<1>4. d \in Conns /\ d.fd = FALSE /\ d.errors = r.errors /\ d.state = "ERROR"
  BY <1>1, Outcomes DEF States
<1>5. conns' = [conns EXCEPT ![slot] = d]
  OBVIOUS
<1> HIDE DEF r, d
<1>6. d.errors < AllowedErrors /\ d.errors <= AllowedErrors /\ d.errors <= k
  BY <1>1, <1>3, <1>4, Sizes
<1> QED
  BY <1>3, <1>4, <1>5, <1>6, GiveUpKeeps
-----------------------------------------------------------------------------
(***************************************************************************)
(* The invariant                                                           *)
(***************************************************************************)

\* A new pool.
LEMMA InitHolds == Init => IInv
<1> SUFFICES ASSUME Init PROVE IInv
  OBVIOUS
<1> DEFINE c == [fd |-> FALSE, peer |-> FALSE, state |-> "DISCONNECTED",
                 errors |-> 0, wait |-> 0]
<1>1. c \in Conns
  BY CacheDbAssumption DEF Conns, States
<1>2. /\ conns \in [Slots -> Conns]
      /\ \A i \in Slots : conns[i] = c
  BY <1>1 DEF Init
<1>3. /\ 0 \in Slots /\ current_idx = 0 /\ slot = 0
      /\ pc \in {"idle", "connect"}
      /\ setup \in BOOLEAN
      /\ pc = "connect" => setup
  <2>1. 0 \in Slots
    BY CacheDbAssumption DEF Slots
  <2> QED
    BY <2>1 DEF Init
<1>4. /\ \A i \in Slots : streak[i] = 0 /\ missed[i] = 0
      /\ streak \in [Slots -> 0..AllowedErrors] /\ missed \in [Slots -> Nat]
  BY Sizes DEF Init
<1>5. TypeOK
  BY <1>2, <1>3, <1>4, Sizes DEF Init, TypeOK
<1>6. Counters /\ BreakerJustified
  BY <1>2, <1>4, Sizes DEF Counters, BreakerJustified
<1>7. Descriptors
  BY <1>2, <1>3 DEF Descriptors, Handshake, Using
<1>8. Missed
  <2>1. \A i \in Slots : missed[i] <= Turns(i) /\ missed[i] < PoolSize
    BY <1>3, <1>4, Sizes DEF Turns
  <2> QED
    BY <1>3, <1>4, <2>1 DEF Missed
<1> QED
  BY <1>5, <1>6, <1>7, <1>8 DEF IInv

\* Every step keeps the invariant.
LEMMA NextKeeps == IInv /\ [Next]_vars => IInv'
<1> SUFFICES ASSUME IInv, [Next]_vars PROVE IInv'
  OBVIOUS
<1>0. /\ slot \in Slots /\ conns \in [Slots -> Conns]
      /\ Conn = conns[slot] /\ Conn \in Conns
      /\ streak \in [Slots -> 0..AllowedErrors]
  BY DEF IInv, TypeOK, Conn
<1>1. CASE ConnectBarred
  <2>1. /\ pc = "connect" /\ Conn.state = "DISABLED" /\ GiveUp
        /\ UNCHANGED <<conns, current_idx, space_id, server, resets, streak>>
    BY <1>1 DEF ConnectBarred, Barred
  <2>2. Conn.fd = FALSE
    BY <1>0, <2>1 DEF IInv, Descriptors, Handshake, Conns
  <2>3. /\ conns' = [conns EXCEPT ![slot] = Conn]
        /\ streak' = [streak EXCEPT ![slot] = streak[slot]]
        /\ streak[slot] \in 0..AllowedErrors
    BY <1>0, <2>1
  <2>4. /\ Conn.errors <= streak[slot] /\ streak[slot] >= AllowedErrors
        /\ Conn.errors <= AllowedErrors
    BY <1>0, <2>1 DEF IInv, BreakerJustified, TypeOK
  <2> QED
    BY <1>0, <2>1, <2>2, <2>3, <2>4, GiveUpKeeps
<1>2. CASE ConnectRefused
  BY <1>2, CountedKeeps DEF ConnectRefused, Set
<1>3. CASE ConnectImpossible
  BY <1>3, ClosedKeeps DEF ConnectImpossible, Set
<1>4. CASE NotGreeted
  <2>1. pc \in Handshake /\ Conn.state # "DISABLED"
    BY <1>0, <1>4 DEF NotGreeted, IInv, Descriptors, Handshake
  <2>2. Reopened(Conn) = Conn
    BY <2>1, Tried DEF Handshake
  <2> QED
    BY <1>4, <2>1, <2>2, ClosedKeeps DEF NotGreeted, Set, Handshake
<1>5. CASE RequestFails
  <2>1. pc \in Using /\ Conn.state = "AUTHENTICATED"
    BY <1>0, <1>5 DEF RequestFails, IInv, Descriptors, Using
  <2>2. Reopened(Conn) = Conn
    BY <2>1, Tried DEF Using
  <2> QED
    BY <1>5, <2>1, <2>2, CountedKeeps DEF RequestFails, Set, Using
<1>6. CASE TakeSlot
  BY <1>6, TakeSlotKeeps
<1>7. CASE Connect
  <2> DEFINE r == Reopened(Conn)
             d == [r EXCEPT !.fd = TRUE, !.peer = TRUE]
  <2>1. /\ pc = "connect" /\ pc' = "greeting"
        /\ conns' = [conns EXCEPT ![slot] = d]
        /\ streak' = [streak EXCEPT ![slot] = PastFailures]
        /\ UNCHANGED <<current_idx, space_id, slot, setup, server, resets, missed>>
    BY <1>7 DEF Connect, Set, Streak
  <2>2. /\ r \in Conns /\ r.state # "DISABLED" /\ r.errors \in Nat
        /\ Conn.state # "DISABLED" => r = Conn
        /\ r.errors < AllowedErrors /\ r.errors <= PastFailures
        /\ PastFailures \in 0..AllowedErrors
    BY <2>1, Tried
  <2> HIDE DEF r
  <2>3. /\ d \in Conns /\ d.fd = TRUE /\ d.state = r.state /\ d.errors = r.errors
    BY <2>2 DEF Conns
  <2> HIDE DEF d
  <2>4. /\ conns' \in [Slots -> Conns] /\ conns'[slot] = d
        /\ \A i \in Slots \ {slot} : conns'[i] = conns[i]
        /\ streak' \in [Slots -> 0..AllowedErrors] /\ streak'[slot] = PastFailures
        /\ \A i \in Slots \ {slot} : streak'[i] = streak[i]
    BY <1>0, <2>1, <2>2, <2>3
  <2>5. TypeOK'
    <3>1. \A i \in Slots : conns'[i].errors <= AllowedErrors
      BY <2>2, <2>3, <2>4, Sizes DEF IInv, TypeOK
    <3> QED
      BY <2>1, <2>4, <3>1 DEF IInv, TypeOK
  <2>6. Counters'
    <3>1. r.state = "AUTHENTICATED" => r.errors = 0
      <4>1. CASE Conn.state = "DISABLED"
        BY <1>0, <4>1, ReopenedOutcome DEF r
      <4>2. CASE Conn.state # "DISABLED"
        BY <1>0, <2>1, <2>2, <4>2 DEF IInv, Counters
      <4> QED
        BY <4>1, <4>2
    <3> QED
      BY <2>1, <2>2, <2>3, <2>4, <3>1 DEF IInv, Counters
  <2>7. BreakerJustified'
    BY <2>2, <2>3, <2>4 DEF IInv, BreakerJustified
  <2>8. Descriptors'
    BY <2>1, <2>2, <2>3, <2>4 DEF IInv, Descriptors, Handshake, Using
  <2>9. Missed'
    BY <2>1 DEF IInv, Missed, Turns
  <2> QED
    BY <2>5, <2>6, <2>7, <2>8, <2>9 DEF IInv
<1>8. ASSUME Authenticated, pc \in Handshake,
             UNCHANGED <<current_idx, space_id, server, resets, streak, missed>>
      PROVE  IInv'
  <2>1. /\ Ready(Conn) \in Conns /\ Ready(Conn).fd = Conn.fd
        /\ Ready(Conn).state = "AUTHENTICATED" /\ Ready(Conn).errors = 0
    BY <1>0, Outcomes DEF States
  <2>2. Conn.fd = TRUE
    BY <1>0, <1>8 DEF IInv, Descriptors, Conns
  <2>3. /\ conns' = [conns EXCEPT ![slot] = Ready(Conn)]
        /\ Connected \/ (pc' = "resolve" /\ UNCHANGED <<slot, setup>>)
    BY <1>8 DEF Authenticated, Set
  <2>4. space_id' \in Nat
    BY <1>8 DEF IInv, TypeOK
  <2> QED
    BY <1>8, <2>1, <2>2, <2>3, <2>4, ReadyKeeps
<1>9. ASSUME UNCHANGED <<conns, current_idx, space_id, slot, setup, server, resets,
                         streak, missed>>,
             \/ pc = "greeting" /\ pc' = "auth"
             \/ pc = "send" /\ pc' = "recv"
      PROVE  IInv'
  <2>1. TypeOK' /\ Counters' /\ BreakerJustified'
    BY <1>9 DEF IInv, TypeOK, Counters, BreakerJustified
  <2>2. Descriptors'
    BY <1>9 DEF IInv, Descriptors, Handshake, Using
  <2>3. Missed'
    BY <1>9 DEF IInv, Missed, Turns
  <2> QED
    BY <2>1, <2>2, <2>3 DEF IInv
<1>10. CASE Greeted
  <2>1. CASE User
    BY <1>9, <1>10, <2>1 DEF Greeted
  <2>2. CASE ~User
    BY <1>8, <1>10, <2>2 DEF Greeted, Handshake
  <2> QED
    BY <2>1, <2>2
<1>11. CASE LoggedIn
  BY <1>8, <1>11 DEF LoggedIn, Handshake
<1>12. CASE Resolved \/ NotResolved
  <2>1. /\ pc = "resolve" /\ Connected
        /\ UNCHANGED <<conns, current_idx, server, resets, streak, missed>>
    BY <1>12 DEF Resolved, NotResolved
  <2>2. space_id' \in Nat
    BY <1>12, CacheDbAssumption DEF Resolved, NotResolved, IInv, TypeOK
  <2>3. Conn.state = "AUTHENTICATED" /\ Conn.errors = 0 /\ Conn.fd = TRUE
    BY <1>0, <2>1 DEF IInv, Descriptors, Counters, Using, Handshake, Conns
  <2>4. conns' = [conns EXCEPT ![slot] = Conn]
    BY <1>0, <2>1
  <2> QED
    BY <1>0, <2>1, <2>2, <2>3, <2>4, ReadyKeeps
<1>13. CASE Send
  BY <1>9, <1>13 DEF Send
<1>14. CASE Reply
  <2>1. /\ pc = "recv" /\ EndOperation
        /\ streak' = [streak EXCEPT ![slot] = 0]
        /\ missed' = [i \in Slots |-> 0]
        /\ UNCHANGED <<conns, current_idx, space_id, server, resets>>
    BY <1>14 DEF Reply, Streak
  <2>2. /\ slot' \in Slots /\ setup' \in BOOLEAN
        /\ pc' \in {"idle", "connect"}
        /\ pc' = "connect" => setup'
    BY <2>1, NextSlot DEF IInv
  <2>3. Conn.state = "AUTHENTICATED" /\ Conn.errors = 0
    BY <1>0, <2>1 DEF IInv, Descriptors, Counters, Using
  <2>4. /\ streak' \in [Slots -> 0..AllowedErrors] /\ streak'[slot] = 0
        /\ \A i \in Slots \ {slot} : streak'[i] = streak[i]
        /\ missed' \in [Slots -> Nat] /\ \A i \in Slots : missed'[i] = 0
    BY <1>0, <2>1, Sizes
  <2>5. TypeOK'
    BY <2>1, <2>2, <2>4 DEF IInv, TypeOK
  <2>6. Counters'
    BY <2>1 DEF IInv, Counters
  <2>7. BreakerJustified'
    BY <1>0, <2>1, <2>3, <2>4 DEF IInv, BreakerJustified
  <2>8. Descriptors'
    BY <2>1, <2>2 DEF IInv, Descriptors, Handshake, Using
  <2>9. Missed'
    <3>1. \A i \in Slots : Turns(i)' \in Nat
      BY <2>1, Sizes DEF Turns, IInv, TypeOK
    <3> QED
      BY <2>2, <2>4, <3>1, Sizes DEF Missed
  <2> QED
    BY <2>5, <2>6, <2>7, <2>8, <2>9 DEF IInv
<1>15. CASE tarantool_destroy
  <2>1. /\ pc' = "gone"
        /\ conns' = [i \in Slots |-> Closed(conns[i], "DISCONNECTED")]
        /\ UNCHANGED <<current_idx, space_id, slot, setup, server, resets, streak,
                       missed>>
    BY <1>15 DEF tarantool_destroy
  <2>2. \A i \in Slots : /\ conns'[i] \in Conns /\ conns'[i].fd = FALSE
                         /\ conns'[i].state = "DISCONNECTED"
                         /\ conns'[i].errors = conns[i].errors
    <3> SUFFICES ASSUME NEW i \in Slots
                 PROVE  /\ conns'[i] \in Conns /\ conns'[i].fd = FALSE
                        /\ conns'[i].state = "DISCONNECTED"
                        /\ conns'[i].errors = conns[i].errors
      OBVIOUS
    <3>1. conns[i] \in Conns /\ conns'[i] = Closed(conns[i], "DISCONNECTED")
      BY <1>0, <2>1
    <3>2. "DISCONNECTED" \in States
      BY DEF States
    <3>3. /\ Closed(conns[i], "DISCONNECTED") \in Conns
          /\ Closed(conns[i], "DISCONNECTED").fd = FALSE
          /\ Closed(conns[i], "DISCONNECTED").state = "DISCONNECTED"
          /\ Closed(conns[i], "DISCONNECTED").errors = conns[i].errors
      BY <3>1, <3>2, Outcomes
    <3> QED
      BY <3>1, <3>3
  <2>3. conns' \in [Slots -> Conns]
    BY <2>1, <2>2
  <2>4. TypeOK'
    BY <2>1, <2>2, <2>3 DEF IInv, TypeOK
  <2>5. Counters' /\ BreakerJustified'
    BY <2>1, <2>2 DEF IInv, Counters, BreakerJustified
  <2>6. Descriptors'
    BY <2>1, <2>2 DEF Descriptors, Handshake, Using
  <2>7. Missed'
    BY <2>1 DEF IInv, Missed, Turns
  <2> QED
    BY <2>4, <2>5, <2>6, <2>7 DEF IInv
<1>16. ASSUME NEW st \in {"up", "down", "broken", "stalled"}, ServerTurns(st)
       PROVE  IInv'
  <2>1. /\ conns' \in [Slots -> Conns]
        /\ \A i \in Slots : /\ conns'[i].fd = conns[i].fd
                            /\ conns'[i].state = conns[i].state
                            /\ conns'[i].errors = conns[i].errors
    BY <1>0, <1>16 DEF ServerTurns, Conns
  <2> QED
    BY <1>16, <2>1, EnvironmentKeeps DEF ServerTurns, IInv, TypeOK
<1>17. ASSUME NEW j \in Slots, NetworkCuts(j)
       PROVE  IInv'
  <2>1. /\ conns' \in [Slots -> Conns]
        /\ \A i \in Slots : /\ conns'[i].fd = conns[i].fd
                            /\ conns'[i].state = conns[i].state
                            /\ conns'[i].errors = conns[i].errors
    BY <1>0, <1>17 DEF NetworkCuts, Conns
  <2> QED
    BY <1>17, <2>1, EnvironmentKeeps DEF NetworkCuts, IInv, TypeOK
<1>18. CASE Tick
  <2>1. /\ conns' \in [Slots -> Conns]
        /\ \A i \in Slots : /\ conns'[i].fd = conns[i].fd
                            /\ conns'[i].state = conns[i].state
                            /\ conns'[i].errors = conns[i].errors
    <3> DEFINE w(i) == IF conns[i].wait > 0 THEN conns[i].wait - 1 ELSE 0
    <3>1. conns' = [i \in Slots |-> [conns[i] EXCEPT !.wait = w(i)]]
      BY <1>18 DEF Tick
    <3>2. \A i \in Slots : conns[i] \in Conns /\ w(i) \in 0..DisableTime
      BY <1>0, CacheDbAssumption DEF Conns
    <3> HIDE DEF w
    <3> QED
      BY <3>1, <3>2 DEF Conns
  <2> QED
    BY <1>18, <2>1, EnvironmentKeeps DEF Tick, IInv, TypeOK
<1>19. CASE UNCHANGED vars
  BY <1>0, <1>19, EnvironmentKeeps DEF vars, IInv, TypeOK
<1> QED
  BY <1>1, <1>2, <1>3, <1>4, <1>5, <1>6, <1>7, <1>10, <1>11, <1>12, <1>13, <1>14,
     <1>15, <1>16, <1>17, <1>18, <1>19 DEF Next, Worker

\* The invariant holds throughout.
LEMMA Invariance == Safety => []IInv
<1> QED
  BY InitHolds, NextKeeps, PTL DEF Safety
-----------------------------------------------------------------------------
(***************************************************************************)
(* Theorems                                                                *)
(***************************************************************************)

\* The pool is well typed and no error count passes allowed_errors.
THEOREM TypeCorrect == Safety => []TypeOK
<1>1. IInv => TypeOK
  BY DEF IInv
<1> QED
  BY <1>1, Invariance, PTL

\* conn_error and connect_single disable a slot only after allowed_errors
\* failures in a row.
THEOREM BreakerIsJustified == Safety => []BreakerJustified
<1>1. IInv => BreakerJustified
  BY DEF IInv
<1> QED
  BY <1>1, Invariance, PTL

\* No path of connect_single, conn_error or the teardown leaves a descriptor
\* behind.
THEOREM NothingHalfOpen == Safety => []NoHalfOpen
<1>1. IInv => NoHalfOpen
  BY DEF IInv, Descriptors, NoHalfOpen, Handshake
<1> QED
  BY <1>1, Invariance, PTL

\* The round robin of get_conn reaches a usable slot after at most
\* PoolSize - 1 failed operations.
THEOREM UsableIsReached == Safety => []UsableReached
<1>1. IInv => UsableReached
  BY DEF IInv, Missed, UsableReached
<1> QED
  BY <1>1, Invariance, PTL
=============================================================================
