----------------------------- MODULE TtlProofs -----------------------------
(***************************************************************************)
(* Theorems about TtlWorker, for every number of spaces, keys, nodes and   *)
(* cleaner fibers, every batch size and every TTL.                         *)
(***************************************************************************)
EXTENDS TtlWorker, SequenceTheorems, FiniteSetTheorems, WellFoundedInduction, TLAPS

\* What Cardinality of a batch's candidates rests on.
FiniteSpaces == \A sp \in SpaceNames : IsFiniteSet(DOMAIN rows[sp])

\* A sweep was not started in the future.
SweepsBegun == \A c \in DOMAIN cleaners : cleaners[c].sweep <= now

Typed == TypeOK /\ FiniteSpaces /\ SweepsBegun

\* Every tuple was promised to a writer, and until its deadline comes the
\* tuple is the one that was promised.
Told ==
    \A sp \in SpaceNames :
        /\ DOMAIN rows[sp] \subseteq DOMAIN promised[sp]
        /\ \A k \in DOMAIN promised[sp] :
              promised[sp][k] > now =>
                  k \in DOMAIN rows[sp] /\ rows[sp][k].expires_at = promised[sp][k]

\* What a cleaner with the locals l has collected and not deleted yet is past
\* its deadline in p, also at time t: nobody writes it again.
SpentBatch(l, p, t) ==
    \A i \in 1..Len(l.keys) :
        /\ l.keys[i] \in DOMAIN p[SpaceOrder[l.at]]
        /\ p[SpaceOrder[l.at]][l.keys[i]] <= t
BatchesSpent == \A c \in DOMAIN cleaners : SpentBatch(cleaners[c], promised, now)

\* The inductive invariant.
Kept == Typed /\ Told /\ BatchesSpent
-----------------------------------------------------------------------------
(***************************************************************************)
(* Operators                                                               *)
(***************************************************************************)

\* Min picks the least element of a set of natural numbers.
LEMMA LeastOf ==
    ASSUME NEW S \in SUBSET Nat, S # {}
    PROVE  Min(S) \in S /\ \A y \in S : Min(S) <= y
<1>1. PICK m \in S : TRUE
  OBVIOUS
<1> DEFINE B == {T \in SUBSET (0..m) : \E x \in S : T = 0..x}
           R == StrictSubsetOrdering(0..m)
<1>2. IsWellFoundedOn(R, SUBSET (0..m))
  <2>1. m \in Int /\ 0 \in Int
    BY <1>1
  <2>2. IsFiniteSet(0..m)
    BY <2>1, FS_Interval
  <2> HIDE DEF B
  <2> QED
    BY <2>2, FS_StrictSubsetOrderingWellFounded, FS_FiniteSubsetsOfFinite
<1>3. B \subseteq SUBSET (0..m) /\ 0..m \in B
  BY <1>1
<1>4. PICK T \in B : \A U \in B : <<U, T>> \notin R
  <2> HIDE DEF B, R
  <2> QED
    BY <1>2, <1>3, WFMin
<1>5. PICK x \in S : T = 0..x /\ x <= m
  <2>1. PICK x \in S : T = 0..x /\ T \in SUBSET (0..m)
    BY <1>4
  <2>2. x \in 0..x /\ x \in Nat
    OBVIOUS
  <2>3. x \in 0..m
    BY <2>1, <2>2
  <2> QED
    BY <2>1, <2>3
<1>6. ASSUME NEW y \in S, ~ x <= y PROVE FALSE
  <2>1. 0..y \in SUBSET (0..m) /\ 0..y \in SUBSET (0..x) /\ x \notin 0..y /\ x \in 0..x
    BY <1>1, <1>5, <1>6
  <2>2. 0..y \in B
    BY <2>1
  <2>3. <<0..y, T>> \in R
    BY <1>3, <1>4, <1>5, <2>1 DEF StrictSubsetOrdering
  <2> QED
    BY <1>4, <2>2, <2>3
<1> QED
  BY <1>6 DEF Min

\* The names of the spaces.
LEMMA Names ==
    /\ 1 \in DOMAIN SpaceOrder
    /\ DOMAIN SpaceOrder \subseteq Nat
    /\ \A i \in DOMAIN SpaceOrder : SpaceOrder[i] \in SpaceNames
<1>1. SpaceOrder \in Seq(STRING) /\ SpaceOrder # <<>>
  BY TtlAssumption
<1>2. /\ Len(SpaceOrder) \in Nat /\ Len(SpaceOrder) # 0
      /\ DOMAIN SpaceOrder = 1..Len(SpaceOrder)
  BY <1>1, EmptySeq, LenProperties
<1>3. 1 \in DOMAIN SpaceOrder /\ DOMAIN SpaceOrder \subseteq Nat
  BY <1>2
<1> QED
  BY <1>3 DEF SpaceNames

\* A fiber between two sweeps.
LEMMA SleepingType == Sleeping \in Locals
<1>1. <<>> \in Seq(Keys) /\ 1 \in DOMAIN SpaceOrder
  BY Names
<1> QED
  BY <1>1 DEF Sleeping, Locals

\* A fiber whose delete has failed.
LEMMA FailedType ==
    ASSUME NEW i \in DOMAIN SpaceOrder, NEW t \in Nat PROVE Failed(i, t) \in Locals
<1>1. <<>> \in Seq(Keys)
  OBVIOUS
<1> QED
  BY <1>1 DEF Failed, Locals

\* Fiber c has no keys in hand after the step.
Rests(c) ==
    \E l \in Locals : /\ l.keys = <<>> /\ l.sweep <= now
                      /\ cleaners' = Put(cleaners, c, l)

\* A fiber that goes to sleep rests, and one whose delete has failed.
LEMMA RestsWhen ==
    ASSUME Typed, NEW c, NEW i \in DOMAIN SpaceOrder, NEW t \in Nat, t <= now,
           \/ cleaners' = Put(cleaners, c, Sleeping)
           \/ cleaners' = Put(cleaners, c, Failed(i, t))
    PROVE  Rests(c)
<1>1. Sleeping \in Locals /\ Sleeping.keys = <<>> /\ Sleeping.sweep <= now
  BY SleepingType DEF Sleeping, Typed, TypeOK
<1>2. Failed(i, t) \in Locals /\ Failed(i, t).keys = <<>> /\ Failed(i, t).sweep <= now
  BY FailedType DEF Failed
<1> QED
  BY <1>1, <1>2 DEF Rests

\* The batch drain_space collects in a space with expired tuples is not
\* empty, and consists of keys that had expired when the sweep began.
LEMMA BatchKeys ==
    ASSUME Typed, NEW sp \in SpaceNames, NEW t, ExpiredKeys(sp, t) # {},
           NEW q \in Batches(sp, t)
    PROVE  /\ q \in Seq(Keys) /\ Len(q) >= 1
           /\ \A i \in 1..Len(q) : q[i] \in ExpiredKeys(sp, t)
<1> DEFINE E == ExpiredKeys(sp, t)
           n == Min({BatchSize, Cardinality(E)})
<1>1. E \subseteq DOMAIN rows[sp] /\ IsFiniteSet(DOMAIN rows[sp])
      /\ DOMAIN rows[sp] \subseteq Keys
  BY DEF Typed, FiniteSpaces, TypeOK, IsSpace, ExpiredKeys
<1>2. IsFiniteSet(E) /\ Cardinality(E) \in Nat /\ Cardinality(E) # 0
  <2> HIDE DEF E
  <2>1. IsFiniteSet(E)
    BY <1>1, FS_Subset
  <2>2. Cardinality(E) \in Nat
    BY <2>1, FS_CardinalityType
  <2> QED
    BY <2>1, <2>2, FS_EmptySet DEF E
<1>3. n \in {BatchSize, Cardinality(E)}
  <2>1. {BatchSize, Cardinality(E)} \in SUBSET Nat
    BY <1>2, TtlAssumption
  <2> QED
    BY <2>1, LeastOf
<1>4. n \in Nat /\ n >= 1
  <2> HIDE DEF n, E
  <2> QED
    BY <1>2, <1>3, TtlAssumption
<1>5. q \in [1..n -> E]
  BY DEF Batches
<1> HIDE DEF n, E
<1>6. q \in Seq(Keys)
  <2>1. q \in [1..n -> Keys]
    BY <1>1, <1>5
  <2> QED
    BY <1>4, <2>1, SeqDef
<1>7. Len(q) = n
  <2>1. Len(q) \in Nat /\ 1..Len(q) = 1..n
    BY <1>5, <1>6, LenProperties
  <2> QED
    BY <1>4, <2>1
<1> QED
  BY <1>4, <1>5, <1>6, <1>7 DEF E
-----------------------------------------------------------------------------
(***************************************************************************)
(* What a step does to a space                                             *)
(***************************************************************************)

\* A delete removes one key and leaves the other tuples as they are.
LEMMA RowsDrop ==
    ASSUME Typed, NEW sp \in SpaceNames, NEW k,
           rows' = [rows EXCEPT ![sp] = Drop(@, k)]
    PROVE  /\ DOMAIN rows' = SpaceNames
           /\ \A s \in SpaceNames :
                 /\ IsSpace(rows'[s], Keys, Rows) /\ IsFiniteSet(DOMAIN rows'[s])
                 /\ DOMAIN rows'[s] = IF s = sp THEN DOMAIN rows[s] \ {k}
                                                ELSE DOMAIN rows[s]
                 /\ \A j \in DOMAIN rows'[s] : rows'[s][j] = rows[s][j]
<1>1. DOMAIN rows' = SpaceNames
  BY DEF Typed, TypeOK
<1>2. ASSUME NEW s \in SpaceNames
      PROVE  /\ IsSpace(rows'[s], Keys, Rows) /\ IsFiniteSet(DOMAIN rows'[s])
             /\ DOMAIN rows'[s] = IF s = sp THEN DOMAIN rows[s] \ {k}
                                            ELSE DOMAIN rows[s]
             /\ \A j \in DOMAIN rows'[s] : rows'[s][j] = rows[s][j]
  <2>1. IsSpace(rows[s], Keys, Rows) /\ IsFiniteSet(DOMAIN rows[s])
    BY DEF Typed, TypeOK, FiniteSpaces
  <2>2. CASE s # sp
    <3>1. rows'[s] = rows[s]
      BY <2>2 DEF Typed, TypeOK
    <3> QED
      BY <2>1, <2>2, <3>1
  <2>3. CASE s = sp
    <3>1. rows'[s] = Drop(rows[s], k)
      BY <2>3 DEF Typed, TypeOK
    <3>2. IsFiniteSet(DOMAIN rows[s] \ {k})
      BY <2>1, FS_RemoveElement
    <3>3. /\ IsSpace(Drop(rows[s], k), Keys, Rows)
          /\ DOMAIN Drop(rows[s], k) = DOMAIN rows[s] \ {k}
          /\ \A j \in DOMAIN rows[s] \ {k} : Drop(rows[s], k)[j] = rows[s][j]
      BY <2>1 DEF IsSpace, Drop
    <3> QED
      BY <2>3, <3>1, <3>2, <3>3
  <2> QED
    BY <2>2, <2>3
<1> QED
  BY <1>1, <1>2

\* A drain step deletes one expired key and keeps the rest of its batch, or
\* the fiber has nothing in hand.
LEMMA Drained ==
    ASSUME Typed, NEW c \in Cleaners, NEW i, NEW t \in Nat, t <= now, NEW running,
           Drain(c, i, t, running)
    PROVE  \/ rows' = rows /\ Rests(c)
           \/ \E at \in DOMAIN SpaceOrder : \E q \in Seq(Keys) :
                 /\ Len(q) >= 1
                 /\ \A j \in 1..Len(q) : q[j] \in ExpiredKeys(SpaceOrder[at], t)
                 /\ rows' = [rows EXCEPT ![SpaceOrder[at]] = Drop(@, q[1])]
                 /\ cleaners' = Put(cleaners, c, [pc |-> "deleting", at |-> at,
                                                  sweep |-> t, keys |-> Tail(q)])
<1>1. CASE Pending(i, t) # {} /\ \E q \in Batches(SpaceOrder[Min(Pending(i, t))], t) :
              /\ rows' = [rows EXCEPT ![SpaceOrder[Min(Pending(i, t))]] = Drop(@, q[1])]
              /\ cleaners' = Put(cleaners, c,
                    [pc |-> "deleting", at |-> Min(Pending(i, t)), sweep |-> t,
                     keys |-> Tail(q)])
  <2> DEFINE at == Min(Pending(i, t))
  <2>1. at \in Pending(i, t)
    <3>1. Pending(i, t) \in SUBSET Nat
      BY Names DEF Pending
    <3> QED
      BY <1>1, <3>1, LeastOf
  <2>2. at \in DOMAIN SpaceOrder /\ ExpiredKeys(SpaceOrder[at], t) # {}
        /\ SpaceOrder[at] \in SpaceNames
    BY <2>1, Names DEF Pending
  <2> HIDE DEF at
  <2>3. PICK q \in Batches(SpaceOrder[at], t) :
              /\ rows' = [rows EXCEPT ![SpaceOrder[at]] = Drop(@, q[1])]
              /\ cleaners' = Put(cleaners, c,
                    [pc |-> "deleting", at |-> at, sweep |-> t, keys |-> Tail(q)])
    BY <1>1 DEF at
  <2>4. /\ q \in Seq(Keys) /\ Len(q) >= 1
        /\ \A j \in 1..Len(q) : q[j] \in ExpiredKeys(SpaceOrder[at], t)
    BY <2>2, <2>3, BatchKeys
  <2> QED
    BY <2>2, <2>3, <2>4
<1>2. CASE cleaners' = Put(cleaners, c, Sleeping) /\ UNCHANGED rows
  BY <1>2, RestsWhen, Names
<1>3. CASE /\ Pending(i, t) # {} /\ UNCHANGED rows
           /\ cleaners' = Put(cleaners, c, Failed(Min(Pending(i, t)), t))
  <2>1. Min(Pending(i, t)) \in DOMAIN SpaceOrder
    <3>1. Pending(i, t) \in SUBSET Nat /\ Pending(i, t) \subseteq DOMAIN SpaceOrder
      BY Names DEF Pending
    <3> QED
      BY <1>3, <3>1, LeastOf
  <2> QED
    BY <1>3, <2>1, RestsWhen
<1> QED
  BY <1>1, <1>2, <1>3 DEF Drain

\* It keeps types and finiteness.
LEMMA DrainTyped ==
    ASSUME Typed, NEW c \in Cleaners, NEW i, NEW t \in Nat, t <= now, NEW running,
           Drain(c, i, t, running), now' = now, promised' = promised,
           errors' \in Nat, is_running' \in BOOLEAN
    PROVE  Typed'
<1>0. /\ IsSpace(cleaners, Cleaners, Locals)
      /\ \A d \in DOMAIN cleaners : cleaners[d] \in Locals /\ cleaners[d].sweep <= now
      /\ now \in Nat
  BY DEF Typed, TypeOK, SweepsBegun, IsSpace
<1>1. ASSUME NEW l \in Locals, l.sweep <= now, cleaners' = Put(cleaners, c, l)
      PROVE  IsSpace(cleaners', Cleaners, Locals) /\ SweepsBegun'
  <2>1. /\ IsSpace(cleaners', Cleaners, Locals)
        /\ DOMAIN cleaners' = DOMAIN cleaners \cup {c}
        /\ cleaners'[c] = l
        /\ \A d \in DOMAIN cleaners \ {c} : cleaners'[d] = cleaners[d]
    BY <1>0, <1>1 DEF IsSpace, Put
  <2> QED
    BY <1>0, <1>1, <2>1 DEF SweepsBegun
<1>2. CASE rows' = rows /\ Rests(c)
  BY <1>1, <1>2 DEF Typed, TypeOK, FiniteSpaces, Rests
<1>3. ASSUME NEW at \in DOMAIN SpaceOrder, NEW q \in Seq(Keys), Len(q) >= 1,
             rows' = [rows EXCEPT ![SpaceOrder[at]] = Drop(@, q[1])],
             cleaners' = Put(cleaners, c, [pc |-> "deleting", at |-> at,
                                           sweep |-> t, keys |-> Tail(q)])
      PROVE  Typed'
  <2>1. Tail(q) \in Seq(Keys)
    BY <1>3, EmptySeq, HeadTailProperties
  <2> DEFINE l == [pc |-> "deleting", at |-> at, sweep |-> t, keys |-> Tail(q)]
  <2>2. l \in Locals /\ l.sweep <= now
    BY <1>3, <2>1 DEF Locals
  <2> HIDE DEF l
  <2>3. IsSpace(cleaners', Cleaners, Locals) /\ SweepsBegun'
    BY <1>1, <1>3, <2>2 DEF l
  <2>4. SpaceOrder[at] \in SpaceNames
    BY Names
  <2>5. /\ DOMAIN rows' = SpaceNames
        /\ \A s \in SpaceNames :
              IsSpace(rows'[s], Keys, Rows) /\ IsFiniteSet(DOMAIN rows'[s])
    BY <1>3, <2>4, RowsDrop
  <2> QED
    BY <2>3, <2>5 DEF Typed, TypeOK, FiniteSpaces
<1>4. \/ rows' = rows /\ Rests(c)
      \/ \E at \in DOMAIN SpaceOrder : \E q \in Seq(Keys) :
            /\ Len(q) >= 1
            /\ \A j \in 1..Len(q) : q[j] \in ExpiredKeys(SpaceOrder[at], t)
            /\ rows' = [rows EXCEPT ![SpaceOrder[at]] = Drop(@, q[1])]
            /\ cleaners' = Put(cleaners, c, [pc |-> "deleting", at |-> at,
                                             sweep |-> t, keys |-> Tail(q)])
  BY Drained
<1> QED
  BY <1>2, <1>3, <1>4
-----------------------------------------------------------------------------
(***************************************************************************)
(* Types                                                                   *)
(***************************************************************************)

\* The instance starts with empty spaces and a sleeping cleaner.
LEMMA InitTyped == Init => Typed
<1> SUFFICES ASSUME Init PROVE Typed
  OBVIOUS
<1>1. /\ \A K, T : IsSpace(EmptySpace, K, T)
      /\ DOMAIN EmptySpace = {} /\ IsFiniteSet({})
  BY FS_EmptySet DEF IsSpace, EmptySpace
<1>2. PICK c \in Cleaners : cleaners = Put(EmptySpace, c, Sleeping)
  BY DEF Init
<1>3. /\ IsSpace(cleaners, Cleaners, Locals) /\ DOMAIN cleaners = {c}
      /\ cleaners[c] = Sleeping
  <2>1. /\ IsSpace(Put(EmptySpace, c, Sleeping), Cleaners, Locals)
        /\ DOMAIN Put(EmptySpace, c, Sleeping) = DOMAIN EmptySpace \cup {c}
        /\ Put(EmptySpace, c, Sleeping)[c] = Sleeping
    BY <1>1, SleepingType DEF IsSpace, Put
  <2> QED
    BY <1>1, <1>2, <2>1
<1>4. SweepsBegun
  BY <1>3 DEF SweepsBegun, Init, Sleeping
<1> QED
  BY <1>1, <1>3, <1>4 DEF Init, Typed, TypeOK, FiniteSpaces

\* rtpe_call_upsert keeps the types and writes one tuple.
LEMMA UpsertRows ==
    ASSUME Typed, NEW sp \in SpaceNames, NEW k \in Keys, NEW n \in Nodes,
           NEW ttl_sec \in Ttls, call_upsert(sp, k, n, ttl_sec)
    PROVE  /\ Typed'
           /\ \A s \in SpaceNames \ {sp} : rows'[s] = rows[s] /\ promised'[s] = promised[s]
           /\ DOMAIN rows'[sp] = DOMAIN rows[sp] \cup {k}
           /\ DOMAIN promised'[sp] = DOMAIN promised[sp] \cup {k}
           /\ \A j \in DOMAIN rows[sp] \ {k} : rows'[sp][j] = rows[sp][j]
           /\ \A j \in DOMAIN promised[sp] \ {k} : promised'[sp][j] = promised[sp][j]
           /\ rows'[sp][k].expires_at = promised'[sp][k]
<1> DEFINE e == now + Ttl(ttl_sec)
           r == [node |-> n, created_at |-> CreatedAt(sp, k), expires_at |-> e]
<1>1. /\ DOMAIN rows = SpaceNames /\ DOMAIN promised = SpaceNames /\ now \in Nat
      /\ \A s \in SpaceNames : /\ IsSpace(rows[s], Keys, Rows)
                               /\ IsSpace(promised[s], Keys, Nat)
                               /\ IsFiniteSet(DOMAIN rows[s])
  BY DEF Typed, TypeOK, FiniteSpaces
<1>2. e \in Nat
  BY <1>1, TtlAssumption DEF Ttl
<1>3. CreatedAt(sp, k) \in Nat
  BY <1>1 DEF CreatedAt, IsSpace, Rows
<1>4. r \in Rows /\ r.expires_at = e
  BY <1>2, <1>3 DEF Rows
<1>5. /\ rows' = [rows EXCEPT ![sp] = Put(@, k, r)]
      /\ promised' = [promised EXCEPT ![sp] = Put(@, k, e)]
      /\ UNCHANGED <<now, is_running, cleaners, errors>>
  BY DEF call_upsert
<1> HIDE DEF e, r
<1>6. /\ DOMAIN rows' = SpaceNames /\ DOMAIN promised' = SpaceNames
      /\ rows'[sp] = Put(rows[sp], k, r) /\ promised'[sp] = Put(promised[sp], k, e)
      /\ \A s \in SpaceNames \ {sp} : rows'[s] = rows[s] /\ promised'[s] = promised[s]
  BY <1>1, <1>5
<1>7. /\ IsSpace(rows'[sp], Keys, Rows)
      /\ DOMAIN rows'[sp] = DOMAIN rows[sp] \cup {k}
      /\ rows'[sp][k] = r
      /\ \A j \in DOMAIN rows[sp] \ {k} : rows'[sp][j] = rows[sp][j]
  <2>1. /\ IsSpace(Put(rows[sp], k, r), Keys, Rows)
        /\ DOMAIN Put(rows[sp], k, r) = DOMAIN rows[sp] \cup {k}
        /\ Put(rows[sp], k, r)[k] = r
        /\ \A j \in DOMAIN rows[sp] \ {k} : Put(rows[sp], k, r)[j] = rows[sp][j]
    BY <1>1, <1>4 DEF IsSpace, Put
  <2> QED
    BY <1>6, <2>1
<1>8. /\ IsSpace(promised'[sp], Keys, Nat)
      /\ DOMAIN promised'[sp] = DOMAIN promised[sp] \cup {k}
      /\ promised'[sp][k] = e
      /\ \A j \in DOMAIN promised[sp] \ {k} : promised'[sp][j] = promised[sp][j]
  <2>1. /\ IsSpace(Put(promised[sp], k, e), Keys, Nat)
        /\ DOMAIN Put(promised[sp], k, e) = DOMAIN promised[sp] \cup {k}
        /\ Put(promised[sp], k, e)[k] = e
        /\ \A j \in DOMAIN promised[sp] \ {k} : Put(promised[sp], k, e)[j] = promised[sp][j]
    BY <1>1, <1>2 DEF IsSpace, Put
  <2> QED
    BY <1>6, <2>1
<1>9. IsFiniteSet(DOMAIN rows'[sp])
  BY <1>1, <1>7, FS_AddElement
<1>10. \A s \in SpaceNames : /\ IsSpace(rows'[s], Keys, Rows)
                             /\ IsSpace(promised'[s], Keys, Nat)
                             /\ IsFiniteSet(DOMAIN rows'[s])
  <2> TAKE s \in SpaceNames
  <2>1. CASE s = sp
    BY <1>7, <1>8, <1>9, <2>1
  <2>2. CASE s # sp
    BY <1>1, <1>6, <2>2
  <2> QED
    BY <2>1, <2>2
<1>11. Typed'
  BY <1>5, <1>6, <1>10 DEF Typed, TypeOK, FiniteSpaces, SweepsBegun
<1> QED
  BY <1>4, <1>6, <1>7, <1>8, <1>11

\* rtpe_call_delete removes one tuple; its promise ends now.
LEMMA DeleteRows ==
    ASSUME Typed, NEW sp \in SpaceNames, NEW k \in Keys, call_delete(sp, k)
    PROVE  /\ Typed'
           /\ \A s \in SpaceNames : \A j \in DOMAIN rows'[s] :
                 j \in DOMAIN rows[s] /\ rows'[s][j] = rows[s][j]
           /\ \A s \in SpaceNames \ {sp} :
                 DOMAIN rows'[s] = DOMAIN rows[s] /\ promised'[s] = promised[s]
           /\ DOMAIN rows'[sp] = DOMAIN rows[sp] \ {k}
           /\ DOMAIN promised'[sp] = DOMAIN promised[sp] \cup {k}
           /\ promised'[sp][k] = now
           /\ \A j \in DOMAIN promised[sp] \ {k} : promised'[sp][j] = promised[sp][j]
<1>1. /\ rows' = [rows EXCEPT ![sp] = Drop(@, k)]
      /\ promised' = [promised EXCEPT ![sp] = Put(@, k, now)]
      /\ UNCHANGED <<now, is_running, cleaners, errors>>
  BY DEF call_delete
<1>2. /\ DOMAIN rows' = SpaceNames
      /\ \A s \in SpaceNames :
            /\ IsSpace(rows'[s], Keys, Rows) /\ IsFiniteSet(DOMAIN rows'[s])
            /\ DOMAIN rows'[s] = IF s = sp THEN DOMAIN rows[s] \ {k}
                                           ELSE DOMAIN rows[s]
            /\ \A j \in DOMAIN rows'[s] : rows'[s][j] = rows[s][j]
  BY <1>1, RowsDrop
<1>3. /\ DOMAIN promised = SpaceNames /\ now \in Nat
      /\ \A s \in SpaceNames : IsSpace(promised[s], Keys, Nat)
  BY DEF Typed, TypeOK
<1>4. /\ DOMAIN promised' = SpaceNames /\ promised'[sp] = Put(promised[sp], k, now)
      /\ \A s \in SpaceNames \ {sp} : promised'[s] = promised[s]
  BY <1>1, <1>3
<1>5. /\ IsSpace(promised'[sp], Keys, Nat)
      /\ DOMAIN promised'[sp] = DOMAIN promised[sp] \cup {k}
      /\ promised'[sp][k] = now
      /\ \A j \in DOMAIN promised[sp] \ {k} : promised'[sp][j] = promised[sp][j]
  <2>1. /\ IsSpace(Put(promised[sp], k, now), Keys, Nat)
        /\ DOMAIN Put(promised[sp], k, now) = DOMAIN promised[sp] \cup {k}
        /\ Put(promised[sp], k, now)[k] = now
        /\ \A j \in DOMAIN promised[sp] \ {k} :
              Put(promised[sp], k, now)[j] = promised[sp][j]
    BY <1>3 DEF IsSpace, Put
  <2> QED
    BY <1>4, <2>1
<1>6. \A s \in SpaceNames : IsSpace(promised'[s], Keys, Nat)
  <2> TAKE s \in SpaceNames
  <2>1. CASE s = sp
    BY <1>5, <2>1
  <2>2. CASE s # sp
    BY <1>3, <1>4, <2>2
  <2> QED
    BY <2>1, <2>2
<1>7. Typed'
  BY <1>1, <1>2, <1>4, <1>6 DEF Typed, TypeOK, FiniteSpaces, SweepsBegun
<1> QED
  BY <1>2, <1>4, <1>5, <1>7

\* The next delete of a batch.
LEMMA DeleteNextRows ==
    ASSUME Typed, NEW c \in DOMAIN cleaners, DeleteNext(c)
    PROVE  /\ Typed'
           /\ rows' = [rows EXCEPT ![SpaceOrder[cleaners[c].at]] =
                           Drop(@, Head(cleaners[c].keys))]
           /\ SpaceOrder[cleaners[c].at] \in SpaceNames
           /\ DOMAIN cleaners' = DOMAIN cleaners
           /\ \A d \in DOMAIN cleaners \ {c} : cleaners'[d] = cleaners[d]
           /\ cleaners'[c].keys = Tail(cleaners[c].keys)
           /\ cleaners'[c].at = cleaners[c].at
           /\ UNCHANGED <<now, promised>>
<1> DEFINE l == cleaners[c]
           m == [l EXCEPT !.keys = Tail(@)]
           sp == SpaceOrder[l.at]
<1>1. /\ IsSpace(cleaners, Cleaners, Locals) /\ l \in Locals /\ l.sweep <= now
      /\ \A d \in DOMAIN cleaners : cleaners[d].sweep <= now
  BY DEF Typed, TypeOK, SweepsBegun, IsSpace
<1>2. sp \in SpaceNames
  BY <1>1, Names DEF Locals
<1>3. Tail(l.keys) \in Seq(Keys)
  BY <1>1, HeadTailProperties DEF Locals, DeleteNext
<1>4. /\ m \in Locals /\ m.sweep = l.sweep /\ m.at = l.at /\ m.keys = Tail(l.keys)
  BY <1>1, <1>3 DEF Locals
<1>5. /\ rows' = [rows EXCEPT ![sp] = Drop(@, Head(l.keys))]
      /\ cleaners' = [cleaners EXCEPT ![c] = m]
      /\ UNCHANGED <<now, is_running, errors, promised>>
  BY DEF DeleteNext
<1> HIDE DEF m
<1>6. /\ DOMAIN cleaners' = DOMAIN cleaners /\ cleaners'[c] = m
      /\ \A d \in DOMAIN cleaners \ {c} : cleaners'[d] = cleaners[d]
      /\ IsSpace(cleaners', Cleaners, Locals)
  BY <1>1, <1>4, <1>5 DEF IsSpace
<1>7. /\ DOMAIN rows' = SpaceNames
      /\ \A s \in SpaceNames :
            IsSpace(rows'[s], Keys, Rows) /\ IsFiniteSet(DOMAIN rows'[s])
  BY <1>2, <1>5, RowsDrop
<1>8. SweepsBegun'
  BY <1>1, <1>4, <1>5, <1>6 DEF SweepsBegun
<1>9. Typed'
  BY <1>5, <1>6, <1>7, <1>8 DEF Typed, TypeOK, FiniteSpaces
<1> QED
  BY <1>2, <1>4, <1>5, <1>6, <1>9

\* A step of the cleaners that drains: WakeUp, NextBatch, NextSpace, start.
Draining ==
    /\ \E c \in Cleaners : \E i, running : \E t \in Nat :
          t <= now /\ Drain(c, i, t, running)
    /\ UNCHANGED <<now, promised>> /\ errors' \in Nat /\ is_running' \in BOOLEAN

\* A step that leaves the spaces alone.
Idle ==
    /\ UNCHANGED <<rows, promised>> /\ now' \in {now, now + 1}
    /\ errors' \in Nat /\ is_running' \in BOOLEAN
    /\ \/ cleaners' = cleaners
       \/ \E c \in Cleaners : cleaners' = Drop(cleaners, c)
       \/ \E c \in Cleaners : Rests(c)
       \/ \E c \in Cleaners : cleaners' = Put(EmptySpace, c, Sleeping)

\* The steps of the system, by what they do.
LEMMA Steps ==
    ASSUME Typed, [Next]_vars
    PROVE  \/ \E sp \in SpaceNames, k \in Keys, n \in Nodes, ttl_sec \in Ttls :
                 call_upsert(sp, k, n, ttl_sec)
           \/ \E sp \in SpaceNames, k \in Keys : call_delete(sp, k)
           \/ \E c \in DOMAIN cleaners : DeleteNext(c)
           \/ Draining
           \/ Idle
<1>1. /\ now \in Nat /\ errors \in Nat /\ is_running \in BOOLEAN
      /\ DOMAIN cleaners \subseteq Cleaners
      /\ \A c \in DOMAIN cleaners : cleaners[c].sweep \in Nat /\ cleaners[c].sweep <= now
      /\ now <= now
  BY DEF Typed, TypeOK, IsSpace, Locals, SweepsBegun
<1>8. ASSUME NEW c \in Cleaners, NEW i, NEW running, NEW t \in Nat,
             Drain(c, i, t, running)
      PROVE  errors' \in Nat
  BY <1>1, <1>8 DEF Drain
<1>2. ASSUME NEW c \in DOMAIN cleaners, NextBatch(c) \/ NextSpace(c) PROVE Draining
  <2>1. c \in Cleaners /\ cleaners[c].sweep \in Nat /\ cleaners[c].sweep <= now
    BY <1>1
  <2>2. UNCHANGED <<now, promised>> /\ is_running' \in BOOLEAN
    BY <1>1, <1>2 DEF NextBatch, NextSpace
  <2>3. PICK i, running : Drain(c, i, cleaners[c].sweep, running)
    BY <1>2 DEF NextBatch, NextSpace
  <2>4. errors' \in Nat
    BY <1>8, <2>1, <2>3
  <2> QED
    BY <2>1, <2>2, <2>3, <2>4 DEF Draining
<1>9. ASSUME NEW c \in DOMAIN cleaners, DeleteFails(c) PROVE Idle
  <2>1. /\ c \in Cleaners /\ cleaners[c].at \in DOMAIN SpaceOrder
        /\ cleaners[c].sweep \in Nat /\ cleaners[c].sweep <= now
    BY DEF Typed, TypeOK, IsSpace, Locals, SweepsBegun
  <2>2. Rests(c)
    BY <1>9, <2>1, RestsWhen DEF DeleteFails
  <2> QED
    BY <1>1, <1>9, <2>1, <2>2 DEF DeleteFails, Idle
<1>3. ASSUME NEW c \in Cleaners, WakeUp(c) PROVE Draining \/ Idle
  <2>1. CASE Drain(c, 1, now, TRUE)
    <3>1. errors' \in Nat
      BY <1>1, <1>8, <2>1
    <3> QED
      BY <1>1, <1>3, <2>1, <3>1 DEF WakeUp, Draining
  <2>2. CASE cleaners' = Drop(cleaners, c) /\ UNCHANGED <<rows, errors>>
    BY <1>1, <1>3, <2>2 DEF WakeUp, Idle
  <2> QED
    BY <1>3, <2>1, <2>2 DEF WakeUp
<1>4. ASSUME NEW c \in Cleaners, start(c) PROVE Draining
  <2>1. Drain(c, 1, now, TRUE)
    BY <1>4 DEF start
  <2>2. errors' \in Nat
    BY <1>1, <1>8, <2>1
  <2> QED
    BY <1>1, <1>4, <2>1, <2>2 DEF start, Draining
<1>5. ASSUME NEW c \in Cleaners, Restart(c) PROVE Idle
  BY <1>1, <1>5 DEF Restart, Idle
<1>6. CASE stop \/ Tick \/ UNCHANGED vars
  BY <1>1, <1>6 DEF stop, Tick, vars, Idle
<1>7. ASSUME NEW c \in Cleaners, CleanerStep(c)
      PROVE  (\E d \in DOMAIN cleaners : DeleteNext(d)) \/ Draining \/ Idle
  BY <1>2, <1>3, <1>7 DEF CleanerStep
<1> QED
  BY <1>2, <1>4, <1>5, <1>6, <1>7, <1>9 DEF Next

\* Steps that leave the spaces alone keep the types.
LEMMA IdleTyped ==
    ASSUME Typed, Idle PROVE Typed'
<1>1. /\ IsSpace(cleaners, Cleaners, Locals) /\ now \in Nat /\ SweepsBegun
      /\ now' \in Nat /\ now <= now'
      /\ \A d \in DOMAIN cleaners : cleaners[d].sweep \in Nat /\ cleaners[d].sweep <= now
  BY DEF Typed, TypeOK, Idle, SweepsBegun, IsSpace, Locals
<1>2. IsSpace(cleaners', Cleaners, Locals) /\ SweepsBegun'
  <2>1. CASE cleaners' = cleaners
    BY <1>1, <2>1 DEF SweepsBegun
  <2>2. ASSUME NEW c \in Cleaners, cleaners' = Drop(cleaners, c)
        PROVE  IsSpace(cleaners', Cleaners, Locals) /\ SweepsBegun'
    <3>1. /\ IsSpace(Drop(cleaners, c), Cleaners, Locals)
          /\ DOMAIN Drop(cleaners, c) \subseteq DOMAIN cleaners
          /\ \A d \in DOMAIN Drop(cleaners, c) : Drop(cleaners, c)[d] = cleaners[d]
      BY <1>1 DEF IsSpace, Drop
    <3> QED
      BY <1>1, <2>2, <3>1 DEF SweepsBegun
  <2>4. ASSUME NEW c \in Cleaners, NEW l \in Locals, l.sweep <= now,
               cleaners' = Put(cleaners, c, l)
        PROVE  IsSpace(cleaners', Cleaners, Locals) /\ SweepsBegun'
    <3>1. l.sweep \in Nat /\ l.sweep <= now'
      BY <1>1, <2>4 DEF Locals
    <3>2. /\ IsSpace(cleaners', Cleaners, Locals)
          /\ DOMAIN cleaners' = DOMAIN cleaners \cup {c}
          /\ cleaners'[c] = l
          /\ \A d \in DOMAIN cleaners \ {c} : cleaners'[d] = cleaners[d]
      BY <1>1, <2>4 DEF IsSpace, Put
    <3>3. ASSUME NEW d \in DOMAIN cleaners' PROVE cleaners'[d].sweep <= now'
      <4>1. CASE d = c
        BY <3>1, <3>2, <4>1
      <4>2. CASE d # c
        BY <1>1, <3>2, <4>2
      <4> QED
        BY <4>1, <4>2
    <3> QED
      BY <3>2, <3>3 DEF SweepsBegun
  <2>3. ASSUME NEW c \in Cleaners, cleaners' = Put(EmptySpace, c, Sleeping)
        PROVE  IsSpace(cleaners', Cleaners, Locals) /\ SweepsBegun'
    <3>1. /\ IsSpace(Put(EmptySpace, c, Sleeping), Cleaners, Locals)
          /\ DOMAIN Put(EmptySpace, c, Sleeping) = {c}
          /\ Put(EmptySpace, c, Sleeping)[c] = Sleeping
      BY SleepingType DEF IsSpace, Put, EmptySpace
    <3> QED
      BY <1>1, <2>3, <3>1 DEF SweepsBegun, Sleeping
  <2> QED
    BY <2>1, <2>2, <2>3, <2>4 DEF Idle, Rests
<1> QED
  BY <1>1, <1>2 DEF Typed, TypeOK, FiniteSpaces, Idle

\* Every step keeps the types.
LEMMA NextTyped == Typed /\ [Next]_vars => Typed'
<1> SUFFICES ASSUME Typed, [Next]_vars PROVE Typed'
  OBVIOUS
<1>1. CASE \E sp \in SpaceNames, k \in Keys, n \in Nodes, ttl_sec \in Ttls :
              call_upsert(sp, k, n, ttl_sec)
  BY <1>1, UpsertRows
<1>2. CASE \E sp \in SpaceNames, k \in Keys : call_delete(sp, k)
  BY <1>2, DeleteRows
<1>3. CASE \E c \in DOMAIN cleaners : DeleteNext(c)
  BY <1>3, DeleteNextRows
<1>4. CASE Draining
  BY <1>4, DrainTyped DEF Draining
<1>5. CASE Idle
  BY <1>5, IdleTyped
<1> QED
  BY <1>1, <1>2, <1>3, <1>4, <1>5, Steps
-----------------------------------------------------------------------------
(***************************************************************************)
(* Nothing is lost, as long as nobody writes a session again once it has   *)
(* expired                                                                 *)
(***************************************************************************)

\* What drain_space collects is past the deadline its writer was told.
LEMMA SpentKey ==
    ASSUME Kept, NEW sp \in SpaceNames, NEW t \in Nat, t <= now,
           NEW k \in ExpiredKeys(sp, t)
    PROVE  k \in DOMAIN promised[sp] /\ promised[sp][k] <= now
<1>1. /\ k \in DOMAIN rows[sp] /\ rows[sp][k].expires_at <= t
      /\ k \in DOMAIN promised[sp]
      /\ promised[sp][k] > now => rows[sp][k].expires_at = promised[sp][k]
  BY DEF ExpiredKeys, Expired, Kept, Told
<1>2. promised[sp][k] \in Nat /\ now \in Nat
  BY <1>1 DEF Kept, Typed, TypeOK, IsSpace
<1> QED
  BY <1>1, <1>2

\* Deleting it breaks no promise.
LEMMA ToldDrop ==
    ASSUME Kept, NEW sp \in SpaceNames, NEW k, k \in DOMAIN promised[sp],
           promised[sp][k] <= now, rows' = [rows EXCEPT ![sp] = Drop(@, k)],
           UNCHANGED <<now, promised>>
    PROVE  Told'
<1>1. \A s \in SpaceNames :
         /\ DOMAIN rows'[s] = IF s = sp THEN DOMAIN rows[s] \ {k} ELSE DOMAIN rows[s]
         /\ \A j \in DOMAIN rows'[s] : rows'[s][j] = rows[s][j]
  BY RowsDrop DEF Kept
<1>2. promised[sp][k] \in Nat /\ now \in Nat
  BY DEF Kept, Typed, TypeOK, IsSpace
<1>3. ~ promised[sp][k] > now
  BY <1>2
<1>4. ASSUME NEW s \in SpaceNames
      PROVE  /\ DOMAIN rows'[s] \subseteq DOMAIN promised[s]
             /\ \A j \in DOMAIN promised[s] :
                   promised[s][j] > now =>
                       /\ j \in DOMAIN rows'[s]
                       /\ rows'[s][j].expires_at = promised[s][j]
  <2>1. /\ DOMAIN rows[s] \subseteq DOMAIN promised[s]
        /\ \A j \in DOMAIN promised[s] :
              promised[s][j] > now =>
                  j \in DOMAIN rows[s] /\ rows[s][j].expires_at = promised[s][j]
    BY DEF Kept, Told
  <2> QED
    BY <1>1, <1>3, <2>1
<1> QED
  BY <1>4 DEF Told

\* rtpe_call_upsert: its key is in no batch.
LEMMA UpsertKept ==
    ASSUME LateWrites = FALSE, Kept, NEW sp \in SpaceNames, NEW k \in Keys,
           NEW n \in Nodes, NEW ttl_sec \in Ttls, call_upsert(sp, k, n, ttl_sec)
    PROVE  Kept'
<1>1. /\ Typed'
      /\ \A s \in SpaceNames \ {sp} : rows'[s] = rows[s] /\ promised'[s] = promised[s]
      /\ DOMAIN rows'[sp] = DOMAIN rows[sp] \cup {k}
      /\ DOMAIN promised'[sp] = DOMAIN promised[sp] \cup {k}
      /\ \A j \in DOMAIN rows[sp] \ {k} : rows'[sp][j] = rows[sp][j]
      /\ \A j \in DOMAIN promised[sp] \ {k} : promised'[sp][j] = promised[sp][j]
      /\ rows'[sp][k].expires_at = promised'[sp][k]
  BY UpsertRows DEF Kept
<1>2. now' = now /\ cleaners' = cleaners
  BY DEF call_upsert
<1>3. Told'
  <2>1. ASSUME NEW s \in SpaceNames
        PROVE  /\ DOMAIN rows'[s] \subseteq DOMAIN promised'[s]
               /\ \A j \in DOMAIN promised'[s] :
                     promised'[s][j] > now =>
                         /\ j \in DOMAIN rows'[s]
                         /\ rows'[s][j].expires_at = promised'[s][j]
    <3>1. CASE s # sp
      BY <1>1, <3>1 DEF Kept, Told
    <3>2. CASE s = sp
      <4>1. DOMAIN rows[sp] \subseteq DOMAIN promised[sp]
        BY DEF Kept, Told
      <4>2. ASSUME NEW j \in DOMAIN promised'[sp], promised'[sp][j] > now
            PROVE  j \in DOMAIN rows'[sp] /\ rows'[sp][j].expires_at = promised'[sp][j]
        <5>1. CASE j = k
          BY <1>1, <5>1
        <5>2. CASE j # k
          BY <1>1, <4>2, <5>2 DEF Kept, Told
        <5> QED
          BY <5>1, <5>2
      <4> QED
        BY <1>1, <3>2, <4>1, <4>2
    <3> QED
      BY <3>1, <3>2
  <2> QED
    BY <1>2, <2>1 DEF Told
<1>4. k \in DOMAIN promised[sp] => ~ promised[sp][k] <= now
  <2>1. k \in DOMAIN promised[sp] => promised[sp][k] > now
    BY DEF call_upsert, MayWrite
  <2>2. now \in Nat /\ (k \in DOMAIN promised[sp] => promised[sp][k] \in Nat)
    BY DEF Kept, Typed, TypeOK, IsSpace
  <2> QED
    BY <2>1, <2>2
<1>5. BatchesSpent'
  <2>1. ASSUME NEW c \in DOMAIN cleaners, NEW i \in 1..Len(cleaners[c].keys)
        PROVE  LET s == SpaceOrder[cleaners[c].at]
                   j == cleaners[c].keys[i]
               IN  j \in DOMAIN promised'[s] /\ promised'[s][j] <= now
    <3> DEFINE s == SpaceOrder[cleaners[c].at]
               j == cleaners[c].keys[i]
    <3>1. j \in DOMAIN promised[s] /\ promised[s][j] <= now
      BY <2>1 DEF Kept, BatchesSpent, SpentBatch
    <3>2. s \in SpaceNames
      BY Names DEF Kept, Typed, TypeOK, IsSpace, Locals
    <3>3. ~(s = sp /\ j = k)
      BY <1>4, <3>1
    <3> HIDE DEF s, j
    <3>4. j \in DOMAIN promised'[s] /\ promised'[s][j] = promised[s][j]
      BY <1>1, <3>1, <3>2, <3>3
    <3> QED
      BY <3>1, <3>4 DEF s, j
  <2> QED
    BY <1>2, <2>1 DEF BatchesSpent, SpentBatch
<1> QED
  BY <1>1, <1>3, <1>5 DEF Kept

\* rtpe_call_delete ends its own promise.
LEMMA DeleteKept ==
    ASSUME Kept, NEW sp \in SpaceNames, NEW k \in Keys, call_delete(sp, k)
    PROVE  Kept'
<1>1. /\ Typed'
      /\ \A s \in SpaceNames : \A j \in DOMAIN rows'[s] :
            j \in DOMAIN rows[s] /\ rows'[s][j] = rows[s][j]
      /\ \A s \in SpaceNames \ {sp} :
            DOMAIN rows'[s] = DOMAIN rows[s] /\ promised'[s] = promised[s]
      /\ DOMAIN rows'[sp] = DOMAIN rows[sp] \ {k}
      /\ DOMAIN promised'[sp] = DOMAIN promised[sp] \cup {k}
      /\ promised'[sp][k] = now
      /\ \A j \in DOMAIN promised[sp] \ {k} : promised'[sp][j] = promised[sp][j]
  BY DeleteRows DEF Kept
<1>2. now' = now /\ cleaners' = cleaners /\ now \in Nat /\ ~ now > now /\ now <= now
  BY DEF call_delete, Kept, Typed, TypeOK
<1>3. Told'
  <2>1. ASSUME NEW s \in SpaceNames
        PROVE  /\ DOMAIN rows'[s] \subseteq DOMAIN promised'[s]
               /\ \A j \in DOMAIN promised'[s] :
                     promised'[s][j] > now =>
                         /\ j \in DOMAIN rows'[s]
                         /\ rows'[s][j].expires_at = promised'[s][j]
    <3>1. CASE s # sp
      BY <1>1, <3>1 DEF Kept, Told
    <3>2. CASE s = sp
      <4>1. DOMAIN rows[sp] \subseteq DOMAIN promised[sp]
        BY DEF Kept, Told
      <4>2. ASSUME NEW j \in DOMAIN promised'[sp], promised'[sp][j] > now
            PROVE  j \in DOMAIN rows'[sp] /\ rows'[sp][j].expires_at = promised'[sp][j]
        <5>1. j # k
          BY <1>1, <1>2, <4>2
        <5> QED
          BY <1>1, <4>2, <5>1 DEF Kept, Told
      <4> QED
        BY <1>1, <3>2, <4>1, <4>2
    <3> QED
      BY <3>1, <3>2
  <2> QED
    BY <1>2, <2>1 DEF Told
<1>4. BatchesSpent'
  <2>1. ASSUME NEW c \in DOMAIN cleaners, NEW i \in 1..Len(cleaners[c].keys)
        PROVE  LET s == SpaceOrder[cleaners[c].at]
                   j == cleaners[c].keys[i]
               IN  j \in DOMAIN promised'[s] /\ promised'[s][j] <= now
    <3> DEFINE s == SpaceOrder[cleaners[c].at]
               j == cleaners[c].keys[i]
    <3>1. j \in DOMAIN promised[s] /\ promised[s][j] <= now
      BY <2>1 DEF Kept, BatchesSpent, SpentBatch
    <3>2. s \in SpaceNames
      BY Names DEF Kept, Typed, TypeOK, IsSpace, Locals
    <3> HIDE DEF s, j
    <3>4. j \in DOMAIN promised'[s] /\ promised'[s][j] <= now
      BY <1>1, <1>2, <3>1, <3>2
    <3> QED
      BY <3>4 DEF s, j
  <2> QED
    BY <1>2, <2>1 DEF BatchesSpent, SpentBatch
<1> QED
  BY <1>1, <1>3, <1>4 DEF Kept

\* The next delete of a batch: its key was spent when it was collected, and
\* is spent still.
LEMMA DeleteNextKept ==
    ASSUME Kept, NEW c \in DOMAIN cleaners, DeleteNext(c) PROVE Kept'
<1> DEFINE keys == cleaners[c].keys
           sp == SpaceOrder[cleaners[c].at]
<1>1. /\ Typed'
      /\ rows' = [rows EXCEPT ![sp] = Drop(@, Head(keys))]
      /\ sp \in SpaceNames
      /\ DOMAIN cleaners' = DOMAIN cleaners
      /\ \A d \in DOMAIN cleaners \ {c} : cleaners'[d] = cleaners[d]
      /\ cleaners'[c].keys = Tail(keys)
      /\ cleaners'[c].at = cleaners[c].at
      /\ UNCHANGED <<now, promised>>
  BY DeleteNextRows DEF Kept
<1>2. keys \in Seq(Keys) /\ keys # <<>>
  BY DEF Kept, Typed, TypeOK, IsSpace, Locals, DeleteNext
<1> DEFINE tail == Tail(keys)
<1>3. /\ Len(tail) = Len(keys) - 1 /\ Len(keys) \in Nat /\ 1 \in 1..Len(keys)
      /\ Head(keys) = keys[1]
      /\ \A i \in 1..Len(tail) : i + 1 \in 1..Len(keys) /\ tail[i] = keys[i + 1]
  <2>1. /\ Len(tail) = Len(keys) - 1
        /\ \A i \in 1..Len(tail) : tail[i] = keys[i + 1]
    BY <1>2, HeadTailProperties
  <2>2. Len(keys) \in Nat /\ Len(keys) # 0 /\ Head(keys) = keys[1]
    BY <1>2, EmptySeq
  <2> HIDE DEF keys, tail
  <2> QED
    BY <2>1, <2>2
<1>4. \A i \in 1..Len(keys) : keys[i] \in DOMAIN promised[sp] /\ promised[sp][keys[i]] <= now
  BY DEF Kept, BatchesSpent, SpentBatch
<1> HIDE DEF keys, tail, sp
<1>5. Told'
  BY <1>1, <1>3, <1>4, ToldDrop
<1>6. \A i \in 1..Len(tail) : tail[i] \in DOMAIN promised[sp] /\ promised[sp][tail[i]] <= now
  BY <1>3, <1>4
<1>7. SpentBatch(cleaners'[c], promised, now)
  BY <1>1, <1>6 DEF SpentBatch, sp, tail
<1>8. BatchesSpent'
  BY <1>1, <1>7 DEF Kept, BatchesSpent, SpentBatch
<1> QED
  BY <1>1, <1>5, <1>8 DEF Kept

\* A drain step deletes one spent key and keeps the others of its batch.
LEMMA DrainKept ==
    ASSUME Kept, NEW c \in Cleaners, NEW i, NEW t \in Nat, t <= now, NEW running,
           Drain(c, i, t, running), UNCHANGED <<now, promised>>, Typed'
    PROVE  Kept'
<1>1. ASSUME NEW l, SpentBatch(l, promised, now), cleaners' = Put(cleaners, c, l)
      PROVE  BatchesSpent'
  <2>1. /\ DOMAIN cleaners' = DOMAIN cleaners \cup {c} /\ cleaners'[c] = l
        /\ \A d \in DOMAIN cleaners \ {c} : cleaners'[d] = cleaners[d]
    BY <1>1 DEF Put
  <2>2. ASSUME NEW d \in DOMAIN cleaners' PROVE SpentBatch(cleaners'[d], promised, now)
    <3>1. CASE d = c
      BY <1>1, <2>1, <3>1
    <3>2. CASE d # c
      BY <2>1, <3>2 DEF Kept, BatchesSpent
    <3> QED
      BY <3>1, <3>2
  <2> QED
    BY <2>2 DEF BatchesSpent, SpentBatch
<1>2. CASE rows' = rows /\ Rests(c)
  <2>1. PICK l \in Locals : l.keys = <<>> /\ cleaners' = Put(cleaners, c, l)
    BY <1>2 DEF Rests
  <2>2. SpentBatch(l, promised, now)
    BY <2>1 DEF SpentBatch
  <2>3. Told'
    BY <1>2 DEF Kept, Told
  <2> QED
    BY <1>1, <2>1, <2>2, <2>3 DEF Kept
<1>3. ASSUME NEW at \in DOMAIN SpaceOrder, NEW q \in Seq(Keys), Len(q) >= 1,
             \A j \in 1..Len(q) : q[j] \in ExpiredKeys(SpaceOrder[at], t),
             rows' = [rows EXCEPT ![SpaceOrder[at]] = Drop(@, q[1])],
             cleaners' = Put(cleaners, c, [pc |-> "deleting", at |-> at,
                                           sweep |-> t, keys |-> Tail(q)])
      PROVE  Kept'
  <2> DEFINE sp == SpaceOrder[at]
             l == [pc |-> "deleting", at |-> at, sweep |-> t, keys |-> Tail(q)]
             tail == Tail(q)
  <2>1. sp \in SpaceNames
    BY Names
  <2>2. \A j \in 1..Len(q) : q[j] \in DOMAIN promised[sp] /\ promised[sp][q[j]] <= now
    BY <1>3, <2>1, SpentKey
  <2>3. /\ 1 \in 1..Len(q)
        /\ \A j \in 1..Len(tail) : j + 1 \in 1..Len(q) /\ tail[j] = q[j + 1]
    <3>1. /\ Len(tail) = Len(q) - 1 /\ Len(q) \in Nat
          /\ \A j \in 1..Len(tail) : tail[j] = q[j + 1]
      BY <1>3, EmptySeq, HeadTailProperties
    <3> HIDE DEF tail
    <3> QED
      BY <1>3, <3>1
  <2>4. l.at = at /\ l.keys = tail
    OBVIOUS
  <2> HIDE DEF sp, l, tail
  <2>5. Told'
    BY <1>3, <2>1, <2>2, <2>3, ToldDrop DEF sp
  <2>6. \A j \in 1..Len(tail) : tail[j] \in DOMAIN promised[sp] /\ promised[sp][tail[j]] <= now
    BY <2>2, <2>3
  <2>7. SpentBatch(l, promised, now)
    BY <2>4, <2>6 DEF SpentBatch, sp
  <2>8. BatchesSpent'
    BY <1>1, <1>3, <2>7 DEF l
  <2> QED
    BY <2>5, <2>8 DEF Kept
<1>4. \/ rows' = rows /\ Rests(c)
      \/ \E at \in DOMAIN SpaceOrder : \E q \in Seq(Keys) :
            /\ Len(q) >= 1
            /\ \A j \in 1..Len(q) : q[j] \in ExpiredKeys(SpaceOrder[at], t)
            /\ rows' = [rows EXCEPT ![SpaceOrder[at]] = Drop(@, q[1])]
            /\ cleaners' = Put(cleaners, c, [pc |-> "deleting", at |-> at,
                                             sweep |-> t, keys |-> Tail(q)])
  BY Drained DEF Kept
<1> QED
  BY <1>2, <1>3, <1>4

\* The clock, stop, and a restart of the instance.
LEMMA IdleKept ==
    ASSUME Kept, Idle PROVE Kept'
<1>1. Typed'
  BY IdleTyped DEF Kept
<1>2. now \in Nat /\ now' \in Nat /\ now <= now'
  BY DEF Kept, Typed, TypeOK, Idle
<1>3. \A s \in SpaceNames : \A k \in DOMAIN promised[s] : promised[s][k] \in Nat
  BY DEF Kept, Typed, TypeOK, IsSpace
<1>4. Told'
  <2>1. ASSUME NEW s \in SpaceNames, NEW k \in DOMAIN promised[s], promised[s][k] > now'
        PROVE  promised[s][k] > now
    BY <1>2, <1>3, <2>1
  <2> QED
    BY <2>1 DEF Kept, Told, Idle
<1>5. ASSUME NEW l \in Locals, SpentBatch(l, promised, now)
      PROVE  SpentBatch(l, promised, now')
  <2>1. ASSUME NEW i \in 1..Len(l.keys)
        PROVE  /\ l.keys[i] \in DOMAIN promised[SpaceOrder[l.at]]
               /\ promised[SpaceOrder[l.at]][l.keys[i]] <= now'
    <3>1. /\ l.keys[i] \in DOMAIN promised[SpaceOrder[l.at]]
          /\ promised[SpaceOrder[l.at]][l.keys[i]] <= now
      BY <1>5 DEF SpentBatch
    <3>2. SpaceOrder[l.at] \in SpaceNames
      BY Names DEF Locals
    <3>3. promised[SpaceOrder[l.at]][l.keys[i]] \in Nat
      BY <1>3, <3>1, <3>2
    <3> QED
      BY <1>2, <3>1, <3>3
  <2> QED
    BY <2>1 DEF SpentBatch
<1>6. \A d \in DOMAIN cleaners : /\ cleaners[d] \in Locals
                                 /\ SpentBatch(cleaners[d], promised, now)
  BY DEF Kept, Typed, TypeOK, IsSpace, BatchesSpent
<1>7. ASSUME NEW d \in DOMAIN cleaners' PROVE SpentBatch(cleaners'[d], promised, now')
  <2>1. CASE cleaners' = cleaners
    BY <1>5, <1>6, <2>1
  <2>2. CASE \E c \in Cleaners : cleaners' = Drop(cleaners, c)
    BY <1>5, <1>6, <2>2 DEF Drop
  <2>4. CASE \E c \in Cleaners : Rests(c)
    <3>1. PICK c \in Cleaners, l \in Locals :
             l.keys = <<>> /\ cleaners' = Put(cleaners, c, l)
      BY <2>4 DEF Rests
    <3>2. SpentBatch(l, promised, now')
      BY <3>1 DEF SpentBatch
    <3>3. /\ DOMAIN cleaners' = DOMAIN cleaners \cup {c} /\ cleaners'[c] = l
          /\ \A e \in DOMAIN cleaners \ {c} : cleaners'[e] = cleaners[e]
      BY <3>1 DEF Put
    <3>4. CASE d = c
      BY <3>2, <3>3, <3>4
    <3>5. CASE d # c
      BY <1>5, <1>6, <3>3, <3>5
    <3> QED
      BY <3>4, <3>5
  <2>3. CASE \E c \in Cleaners : cleaners' = Put(EmptySpace, c, Sleeping)
    <3>1. SpentBatch(Sleeping, promised, now')
      BY DEF SpentBatch, Sleeping
    <3>2. cleaners'[d] = Sleeping
      BY <2>3 DEF Put, EmptySpace
    <3> QED
      BY <3>1, <3>2
  <2> QED
    BY <2>1, <2>2, <2>3, <2>4 DEF Idle
<1>8. BatchesSpent'
  BY <1>7 DEF BatchesSpent, SpentBatch, Idle
<1> QED
  BY <1>1, <1>4, <1>8 DEF Kept

\* Every step keeps what was promised.
LEMMA NextKept ==
    ASSUME LateWrites = FALSE PROVE Kept /\ [Next]_vars => Kept'
<1> SUFFICES ASSUME Kept, [Next]_vars PROVE Kept'
  OBVIOUS
<1>1. Typed /\ Typed'
  BY NextTyped DEF Kept
<1>2. CASE \E sp \in SpaceNames, k \in Keys, n \in Nodes, ttl_sec \in Ttls :
              call_upsert(sp, k, n, ttl_sec)
  BY <1>2, UpsertKept
<1>3. CASE \E sp \in SpaceNames, k \in Keys : call_delete(sp, k)
  BY <1>3, DeleteKept
<1>4. CASE \E c \in DOMAIN cleaners : DeleteNext(c)
  BY <1>4, DeleteNextKept
<1>5. CASE Draining
  BY <1>1, <1>5, DrainKept DEF Draining
<1>6. CASE Idle
  BY <1>6, IdleKept
<1> QED
  BY <1>1, <1>2, <1>3, <1>4, <1>5, <1>6, Steps
-----------------------------------------------------------------------------
(***************************************************************************)
(* The theorems                                                            *)
(***************************************************************************)

\* The spaces, the flag and the locals of the cleaner fibers keep their
\* types; a fiber in a batch is at a space that exists.
THEOREM TtlTypes == Safety => []TypeOK
<1>1. Typed => TypeOK
  BY DEF Typed
<1> QED
  BY <1>1, InitTyped, NextTyped, PTL DEF Safety

\* drain_space deletes keys it collected before its last yields without
\* another look at them; still no live session is lost, with any number of
\* cleaners, errors, stops and restarts, if Call-IDs are not used again and
\* sessions are refreshed before their deadline.
THEOREM NothingIsLost ==
    ASSUME LateWrites = FALSE PROVE Safety => []NothingLost
<1>1. Init => Kept
  <2> SUFFICES ASSUME Init PROVE Kept
    OBVIOUS
  <2>1. Typed
    BY InitTyped
  <2>2. DOMAIN EmptySpace = {}
    BY DEF EmptySpace
  <2>3. Told
    BY <2>2 DEF Init, Told
  <2>4. PICK c \in Cleaners : cleaners = Put(EmptySpace, c, Sleeping)
    BY DEF Init
  <2>5. DOMAIN cleaners = {c} /\ cleaners[c] = Sleeping
    BY <2>2, <2>4 DEF Put
  <2>6. BatchesSpent
    BY <2>5 DEF BatchesSpent, SpentBatch, Sleeping
  <2> QED
    BY <2>1, <2>3, <2>6 DEF Kept
<1>2. Kept /\ [Next]_vars => Kept'
  BY NextKept
<1>3. Kept => NothingLost
  <2> SUFFICES ASSUME Kept, NEW sp \in SpaceNames, NEW k \in DOMAIN promised[sp],
                      promised[sp][k] > now
               PROVE  \E n \in Nodes : k \in call_restore(sp, n)
    BY DEF NothingLost
  <2>1. k \in DOMAIN rows[sp] /\ rows[sp][k].expires_at = promised[sp][k]
    BY DEF Kept, Told
  <2>2. rows[sp][k].node \in Nodes
    BY <2>1 DEF Kept, Typed, TypeOK, IsSpace, Rows
  <2>3. k \in call_restore(sp, rows[sp][k].node)
    BY <2>1 DEF call_restore
  <2> QED
    BY <2>2, <2>3
<1> QED
  BY <1>1, <1>2, <1>3, PTL DEF Safety
=============================================================================
