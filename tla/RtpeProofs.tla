---------------------------- MODULE RtpeProofs ----------------------------
(***************************************************************************)
(* Theorems about RtpeDriver, for every set of calls, every bound on       *)
(* operations and cuts, and every configuration.                           *)
(***************************************************************************)
EXTENDS RtpeDriver, SequenceTheorems, FiniteSetTheorems, WellFoundedInduction, TLAPS

\* Requests for a call name it.
Named(q) == \A i \in DOMAIN q : q[i].kind # "restore" => q[i].call \in Calls

\* What the promises t say holds in the sessions S.
Agrees(t, S) == \A c \in Calls : /\ t[c] = "save" => c \in S
                                 /\ t[c] = "delete" => c \notin S

\* The operation and the connection go together.
Connected ==
    /\ op.pc # "idle" => op.kind # "idle" /\ restored = None
    /\ op.kind \in {"save", "delete"} => op.call \in Calls /\ op.sync < sync_id
    /\ op.pc = "recv" => op.kind = "restore"
    /\ op.pc \in {"greeting", "auth"} =>
          state = "CONNECTING" /\ told = [c \in Calls |-> "nothing"]
    /\ op.pc \in {"send", "recv"} => state = "AUTHENTICATED"
    /\ peer => open /\ op.pc # "connect" /\ (op.pc = "idle" => state = "AUTHENTICATED")
    /\ state # "DISABLED" => errors < AllowedErrors

\* Requests name their calls, and their sync ids are older than the next.
Numbered ==
    /\ Named(requests) /\ Named(late)
    /\ \A i \in DOMAIN requests : requests[i].sync < sync_id
    /\ owed # None => owed.sync < sync_id

\* restore_calls waits for the last request of the connection; what carries
\* its sync id agrees with what was promised.
Awaited ==
    (op.pc = "recv" /\ peer /\ granted) =>
        /\ \A i \in DOMAIN requests : requests[i].sync = op.sync =>
              i = Len(requests) /\ requests[i].kind = "restore"
        /\ \A i \in DOMAIN replies : replies[i].sync = op.sync =>
              Agrees(told, replies[i].calls)
        /\ owed # None /\ owed.sync = op.sync => Agrees(told, owed.calls)
-----------------------------------------------------------------------------
(***************************************************************************)
(* What a row of requests leaves in the space                              *)
(*                                                                         *)
(* FoldLeft reads its result off a table over the sets of positions.  The  *)
(* table is unique, and the one that holds, for every set of positions,    *)
(* the calls whose last request there is a save is such a table.           *)
(***************************************************************************)

\* The request changes the session of c.
Touches(r, c) == r.kind # "restore" /\ r.call = c

\* The last request for c at a position of s is a save, or there is none and
\* the session was there before.
EndsIn(c, st, q, s) ==
    \/ \E i \in s : /\ Touches(q[i], c) /\ q[i].kind = "save"
                    /\ \A j \in s : j > i => ~Touches(q[j], c)
    \/ c \in st /\ \A j \in s : ~Touches(q[j], c)

Ends(c, st, q) == EndsIn(c, st, q, DOMAIN q)

\* it is the table from which FoldLeft reads the sessions.
Tables(it, st, q) ==
    it = [s \in SUBSET DOMAIN q |->
            IF s = {} THEN st ELSE Applied(it[s \ {Max(s)}], q[Max(s)])]

\* FoldLeft, by which the server applies the requests, reads off such a table.
LEMMA FoldIs ==
    ASSUME NEW st, NEW q
    PROVE  FoldLeft(Applied, st, q) = (CHOOSE it : Tables(it, st, q))[DOMAIN q]
BY DEF FoldLeft, MapThenFoldSet, Tables

\* A family of subsets of a finite set that is not empty has a member none of
\* whose proper subsets is in the family.
LEMMA Smallest ==
    ASSUME NEW S, IsFiniteSet(S), NEW B \in SUBSET SUBSET S, B # {}
    PROVE  \E T \in B : \A U \in SUBSET T : U # T => U \notin B
<1>1. IsWellFoundedOn(StrictSubsetOrdering(S), SUBSET S)
  BY FS_StrictSubsetOrderingWellFounded, FS_FiniteSubsetsOfFinite
<1>2. PICK T \in B : \A U \in B : <<U, T>> \notin StrictSubsetOrdering(S)
  BY <1>1, WFMin
<1>3. ASSUME NEW U \in SUBSET T, U # T PROVE U \notin B
  BY <1>2, <1>3 DEF StrictSubsetOrdering
<1> QED
  BY <1>3

\* Min picks the least element of a set of natural numbers.
LEMMA LeastOf ==
    ASSUME NEW S \in SUBSET Nat, S # {}
    PROVE  Min(S) \in S /\ \A y \in S : Min(S) <= y
<1>1. PICK m \in S : TRUE
  OBVIOUS
<1> DEFINE B == {T \in SUBSET (0..m) : \E x \in S : T = 0..x}
           R == StrictSubsetOrdering(0..m)
<1>2. IsWellFoundedOn(R, SUBSET (0..m))
  <2>1. m \in Int /\ 0 \in Int
    BY <1>1
  <2>2. IsFiniteSet(0..m)
    BY <2>1, FS_Interval
  <2> HIDE DEF B
  <2> QED
    BY <2>2, FS_StrictSubsetOrderingWellFounded, FS_FiniteSubsetsOfFinite
<1>3. B \subseteq SUBSET (0..m) /\ 0..m \in B
  BY <1>1
<1>4. PICK T \in B : \A U \in B : <<U, T>> \notin R
  <2> HIDE DEF B, R
  <2> QED
    BY <1>2, <1>3, WFMin
<1>5. PICK x \in S : T = 0..x /\ x <= m
  <2>1. PICK x \in S : T = 0..x /\ T \in SUBSET (0..m)
    BY <1>4
  <2>2. x \in 0..x /\ x \in Nat
    OBVIOUS
  <2>3. x \in 0..m
    BY <2>1, <2>2
  <2> QED
    BY <2>1, <2>3
<1>6. ASSUME NEW y \in S, ~ x <= y PROVE FALSE
  <2>1. 0..y \in SUBSET (0..m) /\ 0..y \in SUBSET (0..x) /\ x \notin 0..y /\ x \in 0..x
    BY <1>1, <1>5, <1>6
  <2>2. 0..y \in B
    BY <2>1
  <2>3. <<0..y, T>> \in R
    BY <1>3, <1>4, <1>5, <2>1 DEF StrictSubsetOrdering
  <2> QED
    BY <1>4, <2>2, <2>3
<1> QED
  BY <1>6 DEF Min

\* Max picks the greatest element of a set of positions.
LEMMA GreatestOf ==
    ASSUME NEW m \in Nat, NEW S \in SUBSET (1..m), S # {}
    PROVE  Max(S) \in S /\ \A y \in S : Max(S) >= y
<1> DEFINE D == {m - x : x \in S}
<1>1. D \in SUBSET Nat /\ D # {}
  <2>1. \A x \in S : m - x \in Nat
    <3>1. \A x \in 1..m : m - x \in Nat
      OBVIOUS
    <3> QED
      BY <3>1
  <2> QED
    BY <2>1
<1>2. Min(D) \in D /\ \A d \in D : Min(D) <= d
  <2> HIDE DEF D
  <2> QED
    BY <1>1, LeastOf
<1>3. PICK x \in S : Min(D) = m - x
  BY <1>2
<1>4. ASSUME NEW y \in S PROVE x >= y
  <2>1. m - y \in D
    OBVIOUS
  <2>2. m - x <= m - y
    BY <1>2, <1>3, <2>1
  <2> HIDE DEF D
  <2> QED
    BY <2>2
<1> QED
  BY <1>4 DEF Max

\* The positions of a sequence.
LEMMA PositionFacts ==
    ASSUME NEW q \in Seq(Requests)
    PROVE  /\ Len(q) \in Nat /\ DOMAIN q = 1..Len(q) /\ IsFiniteSet(DOMAIN q)
           /\ \A i \in DOMAIN q : q[i] \in Requests /\ i \in Nat
           /\ \A s \in SUBSET DOMAIN q : s # {} => Max(s) \in s /\ \A y \in s : Max(s) >= y
<1>1. Len(q) \in Nat /\ DOMAIN q = 1..Len(q)
  BY LenProperties
<1>2. IsFiniteSet(DOMAIN q)
  <2>1. Len(q) \in Int /\ 1 \in Int
    BY <1>1
  <2> QED
    BY <1>1, <2>1, FS_Interval
<1>3. \A i \in DOMAIN q : q[i] \in Requests /\ i \in Nat
  BY <1>1
<1>4. \A s \in SUBSET DOMAIN q : s # {} => Max(s) \in s /\ \A y \in s : Max(s) >= y
  BY <1>1, GreatestOf
<1> QED
  BY <1>1, <1>2, <1>3, <1>4

\* The table is unique.
LEMMA TablesUnique ==
    ASSUME NEW st, NEW q \in Seq(Requests), NEW a, NEW b, Tables(a, st, q), Tables(b, st, q)
    PROVE  a = b
<1> DEFINE P == DOMAIN q
           B == {T \in SUBSET P : a[T] # b[T]}
<1>0. B \in SUBSET SUBSET P
  OBVIOUS
<1>1. ASSUME B # {} PROVE FALSE
  <2>1. PICK T \in B : \A U \in SUBSET T : U # T => U \notin B
    <3>1. IsFiniteSet(P)
      BY PositionFacts
    <3> HIDE DEF B, P
    <3> QED
      BY <1>0, <1>1, <3>1, Smallest
  <2>2. T \in SUBSET P /\ a[T] # b[T]
    BY <2>1
  <2>3. /\ a[T] = IF T = {} THEN st ELSE Applied(a[T \ {Max(T)}], q[Max(T)])
        /\ b[T] = IF T = {} THEN st ELSE Applied(b[T \ {Max(T)}], q[Max(T)])
    BY <2>2 DEF Tables
  <2>4. T # {}
    BY <2>2, <2>3
  <2>5. Max(T) \in T
    BY <2>2, <2>4, PositionFacts
  <2>6. T \ {Max(T)} \notin B
    BY <2>1, <2>5
  <2>7. a[T \ {Max(T)}] = b[T \ {Max(T)}]
    BY <2>2, <2>6
  <2> QED
    BY <2>2, <2>3, <2>4, <2>7
<1>2. \A T \in SUBSET P : a[T] = b[T]
  BY <1>1
<1>3. /\ a = [s \in SUBSET P |-> a[s]]
      /\ b = [s \in SUBSET P |-> b[s]]
  BY DEF Tables
<1> QED
  BY <1>2, <1>3

\* The table that the requests fill.
Lasts(st, q) == [s \in SUBSET DOMAIN q |-> {c \in Calls : EndsIn(c, st, q, s)}]

\* A request that names its call changes the sessions of no other.
LEMMA AppliedIs ==
    ASSUME NEW S, NEW r \in Requests, NEW c
    PROVE  c \in Applied(S, r) <=> IF Touches(r, c) THEN r.kind = "save" ELSE c \in S
BY DEF Applied, Touches, Requests

\* The last request of a set of positions decides.
LEMMA Round ==
    ASSUME NEW st, NEW q \in Seq(Requests), Named(q), NEW s \in SUBSET DOMAIN q, s # {}
    PROVE  Lasts(st, q)[s] = Applied(Lasts(st, q)[s \ {Max(s)}], q[Max(s)])
<1> DEFINE x == Max(s)
           u == s \ {x}
           L == Lasts(st, q)
<1>1. /\ x \in s /\ \A y \in s : x >= y
      /\ q[x] \in Requests /\ u \in SUBSET DOMAIN q /\ \A y \in s : y \in Nat
  BY PositionFacts
<1>2. /\ L[s] = {c \in Calls : EndsIn(c, st, q, s)}
      /\ L[u] = {c \in Calls : EndsIn(c, st, q, u)}
  BY <1>1 DEF Lasts
<1> HIDE DEF x, L
<1>3. ASSUME NEW c
      PROVE  EndsIn(c, st, q, s) <=>
                IF Touches(q[x], c) THEN q[x].kind = "save" ELSE EndsIn(c, st, q, u)
  <2>1. \A y \in u : y < x
    BY <1>1
  <2>2. \A y \in s : y \in u \/ y = x
    OBVIOUS
  <2>3. CASE Touches(q[x], c)
    BY <1>1, <2>1, <2>2, <2>3 DEF EndsIn
  <2>4. CASE ~Touches(q[x], c)
    BY <1>1, <2>1, <2>2, <2>4 DEF EndsIn
  <2> QED
    BY <2>3, <2>4
<1>4. ASSUME NEW c PROVE c \in L[s] <=> c \in Applied(L[u], q[x])
  <2>1. Touches(q[x], c) => c \in Calls
    BY <1>1 DEF Touches, Named
  <2> HIDE DEF u
  <2> QED
    BY <1>1, <1>2, <1>3, <2>1, AppliedIs
<1>5. L[s] = Applied(L[u], q[x])
  <2>1. Applied(L[u], q[x]) = {c \in Applied(L[u], q[x]) : TRUE}
    BY DEF Applied
  <2> HIDE DEF u
  <2> QED
    BY <1>2, <1>4, <2>1
<1> QED
  BY <1>5 DEF L, x

\* The sessions a row of requests leaves.
LEMMA FoldFinds ==
    ASSUME NEW st \in SUBSET Calls, NEW q \in Seq(Requests), Named(q), NEW c \in Calls
    PROVE  c \in FoldLeft(Applied, st, q) <=> Ends(c, st, q)
<1> DEFINE L == Lasts(st, q)
<1>1. ASSUME NEW s \in SUBSET DOMAIN q
      PROVE  L[s] = IF s = {} THEN st ELSE Applied(L[s \ {Max(s)}], q[Max(s)])
  <2>1. CASE s = {}
    BY <2>1 DEF Lasts, EndsIn
  <2>2. CASE s # {}
    BY <2>2, Round
  <2> QED
    BY <2>1, <2>2
<1>2. L = [s \in SUBSET DOMAIN q |-> L[s]]
  BY DEF Lasts
<1>3. Tables(L, st, q)
  <2> HIDE DEF L
  <2> QED
    BY <1>1, <1>2 DEF Tables
<1>4. Tables(CHOOSE it : Tables(it, st, q), st, q)
  BY <1>3
<1>5. (CHOOSE it : Tables(it, st, q)) = L
  BY <1>3, <1>4, TablesUnique
<1> QED
  BY <1>5, FoldIs DEF Lasts, Ends

\* A request written behind the others decides about its call.
LEMMA EndsAppend ==
    ASSUME NEW st, NEW q \in Seq(Requests), NEW r \in Requests, NEW c
    PROVE  Ends(c, st, Append(q, r)) <=>
              IF Touches(r, c) THEN r.kind = "save" ELSE Ends(c, st, q)
<1> DEFINE n == Len(q)
           p == Append(q, r)
<1>1. /\ n \in Nat /\ DOMAIN q = 1..n /\ DOMAIN p = 1..(n + 1)
      /\ p[n + 1] = r /\ \A i \in 1..n : p[i] = q[i]
  BY LenProperties, AppendProperties
<1> HIDE DEF n, p
<1>2. \A i \in 1..(n + 1) : i \in Nat /\ (i = n + 1 \/ (i \in 1..n /\ i < n + 1))
  BY <1>1
<1>3. \A i \in 1..n : i \in 1..(n + 1) /\ n + 1 > i
  BY <1>1
<1>4. n + 1 \in 1..(n + 1) /\ ~ n + 1 > n + 1
  BY <1>1
<1>5. CASE Touches(r, c)
  <2>1. ASSUME r.kind = "save" PROVE EndsIn(c, st, p, 1..(n + 1))
    <3>1. \A j \in 1..(n + 1) : ~ j > n + 1
      BY <1>1
    <3> QED
      BY <1>1, <1>4, <1>5, <2>1, <3>1 DEF EndsIn
  <2>2. ASSUME EndsIn(c, st, p, 1..(n + 1)) PROVE r.kind = "save"
    BY <1>1, <1>2, <1>3, <1>4, <1>5, <2>2 DEF EndsIn
  <2> QED
    BY <1>1, <1>5, <2>1, <2>2 DEF Ends, p
<1>6. CASE ~Touches(r, c)
  <2>1. EndsIn(c, st, p, 1..(n + 1)) <=> EndsIn(c, st, q, 1..n)
    BY <1>1, <1>2, <1>3, <1>4, <1>6 DEF EndsIn
  <2> QED
    BY <1>1, <1>6, <2>1 DEF Ends, p
<1> QED
  BY <1>5, <1>6

\* The server takes the first request: the others decide as before.
LEMMA EndsTail ==
    ASSUME NEW st, NEW q \in Seq(Requests), q # <<>>, NEW c
    PROVE  Ends(c, st, q) <=> Ends(c, Applied(st, Head(q)), Tail(q))
<1> DEFINE n == Len(q)
           p == Tail(q)
           r == Head(q)
           st2 == Applied(st, r)
<1>1. /\ n \in Nat \ {0} /\ DOMAIN q = 1..n /\ DOMAIN p = 1..(n - 1)
      /\ q[1] = r /\ r \in Requests /\ \A i \in 1..(n - 1) : p[i] = q[i + 1]
  <2>1. n \in Nat /\ n # 0 /\ DOMAIN q = 1..n /\ r = q[1] /\ r \in Requests
    BY LenProperties, EmptySeq, HeadTailProperties
  <2>2. p \in Seq(Requests) /\ Len(p) = n - 1 /\ \A i \in 1..(n - 1) : p[i] = q[i + 1]
    BY HeadTailProperties
  <2>3. DOMAIN p = 1..(n - 1)
    BY <2>2, LenProperties
  <2> QED
    BY <2>1, <2>2, <2>3
<1>2. c \in st2 <=> IF Touches(r, c) THEN r.kind = "save" ELSE c \in st
  BY <1>1, AppliedIs
<1> HIDE DEF n, p, r, st2
<1>3. \A i \in 1..n : i \in Nat /\ (i = 1 \/ (i > 1 /\ i - 1 \in 1..(n - 1) /\ i = (i - 1) + 1))
  BY <1>1
<1>4. \A i \in 1..(n - 1) : i \in Nat /\ i + 1 \in 1..n /\ i + 1 > 1
  BY <1>1
<1>5. 1 \in 1..n
  BY <1>1
<1>6. (\A j \in 1..n : ~Touches(q[j], c)) <=>
          ~Touches(r, c) /\ \A j \in 1..(n - 1) : ~Touches(p[j], c)
  <2>1. ASSUME NEW j \in 1..n, Touches(q[j], c), ~Touches(r, c)
        PROVE  \E k \in 1..(n - 1) : Touches(p[k], c)
    <3>1. j - 1 \in 1..(n - 1) /\ j = (j - 1) + 1
      BY <1>1, <1>3, <2>1
    <3>2. p[j - 1] = q[j]
      BY <1>1, <3>1
    <3> QED
      BY <2>1, <3>1, <3>2
  <2>2. ASSUME NEW j \in 1..(n - 1), Touches(p[j], c) PROVE \E k \in 1..n : Touches(q[k], c)
    BY <1>1, <1>4, <2>2
  <2> QED
    BY <1>1, <1>5, <2>1, <2>2
<1>7. ASSUME EndsIn(c, st, q, 1..n) PROVE EndsIn(c, st2, p, 1..(n - 1))
  <2>1. CASE c \in st /\ \A j \in 1..n : ~Touches(q[j], c)
    BY <1>2, <1>6, <2>1 DEF EndsIn
  <2>2. ASSUME NEW i \in 1..n, Touches(q[i], c), q[i].kind = "save",
               \A j \in 1..n : j > i => ~Touches(q[j], c)
        PROVE  EndsIn(c, st2, p, 1..(n - 1))
    <3>1. ASSUME NEW j \in 1..(n - 1), j + 1 > i PROVE ~Touches(p[j], c)
      BY <1>1, <1>4, <2>2, <3>1
    <3>2. CASE i = 1
      <4>1. \A j \in 1..(n - 1) : ~Touches(p[j], c)
        BY <1>4, <3>1, <3>2
      <4>2. c \in st2
        BY <1>1, <1>2, <2>2, <3>2
      <4> QED
        BY <4>1, <4>2 DEF EndsIn
    <3>3. CASE i # 1
      <4> DEFINE k == i - 1
      <4>1. k \in 1..(n - 1) /\ i = k + 1 /\ k \in Nat
        BY <1>3, <3>3
      <4>2. p[k] = q[i]
        BY <1>1, <4>1
      <4>3. \A j \in 1..(n - 1) : j > k => j + 1 > i
        BY <4>1, <1>4
      <4> HIDE DEF k
      <4> QED
        BY <2>2, <3>1, <4>1, <4>2, <4>3 DEF EndsIn
    <3> QED
      BY <3>2, <3>3
  <2> QED
    BY <1>7, <2>1, <2>2 DEF EndsIn
<1>8. ASSUME EndsIn(c, st2, p, 1..(n - 1)) PROVE EndsIn(c, st, q, 1..n)
  <2>1. CASE c \in st2 /\ \A j \in 1..(n - 1) : ~Touches(p[j], c)
    <3>1. CASE ~Touches(r, c)
      BY <1>2, <1>6, <2>1, <3>1 DEF EndsIn
    <3>2. CASE Touches(r, c)
      <4>1. r.kind = "save"
        BY <1>2, <2>1, <3>2
      <4>2. ASSUME NEW j \in 1..n, j > 1 PROVE ~Touches(q[j], c)
        <5>1. j - 1 \in 1..(n - 1) /\ j = (j - 1) + 1
          BY <1>3, <4>2
        <5>2. p[j - 1] = q[j]
          BY <1>1, <5>1
        <5> QED
          BY <2>1, <5>1, <5>2
      <4> QED
        BY <1>1, <1>5, <3>2, <4>1, <4>2 DEF EndsIn
    <3> QED
      BY <3>1, <3>2
  <2>2. ASSUME NEW i \in 1..(n - 1), Touches(p[i], c), p[i].kind = "save",
               \A j \in 1..(n - 1) : j > i => ~Touches(p[j], c)
        PROVE  EndsIn(c, st, q, 1..n)
    <3> DEFINE k == i + 1
    <3>1. k \in 1..n /\ q[k] = p[i] /\ k \in Nat /\ k > 1
      BY <1>1, <1>4
    <3>2. ASSUME NEW j \in 1..n, j > k PROVE ~Touches(q[j], c)
      <4>1. j - 1 \in 1..(n - 1) /\ j = (j - 1) + 1 /\ j - 1 > i
        BY <1>3, <3>1, <3>2
      <4>2. p[j - 1] = q[j]
        BY <1>1, <4>1
      <4> QED
        BY <2>2, <4>1, <4>2
    <3> HIDE DEF k
    <3> QED
      BY <2>2, <3>1, <3>2 DEF EndsIn
  <2> QED
    BY <1>8, <2>1, <2>2 DEF EndsIn
<1> QED
  BY <1>1, <1>7, <1>8 DEF Ends, p, st2, r
-----------------------------------------------------------------------------
(***************************************************************************)
(* The inductive invariant                                                 *)
(***************************************************************************)

\* PipelineKept, in terms of the last request for a call.
Piped ==
    (peer /\ granted) => \A c \in Calls : /\ told[c] = "save" => Ends(c, store, requests)
                                          /\ told[c] = "delete" => ~Ends(c, store, requests)

Inv == TypeOK /\ Connected /\ Numbered /\ Awaited /\ Piped /\ RestoreSeesSaves

States == {"DISCONNECTED", "CONNECTING", "AUTHENTICATED", "DISABLED", "ERROR"}
Steps == {"idle", "connect", "greeting", "auth", "send", "recv"}

\* The error count and the state have their types, and only a disabled client
\* has used up its errors.
Counted(e, w, st) ==
    /\ e \in 0..AllowedErrors /\ w \in 0..DisableTime /\ st \in States
    /\ st # "DISABLED" => e < AllowedErrors

\* Between two operations of the driver.
LEMMA IdleFacts ==
    Idle \in Ops /\ Idle.pc = "idle" /\ Idle.kind = "idle" /\ Idle.call = None
BY DEF Idle, Ops

\* An operation goes on to its next step.
LEMMA OpMoves ==
    ASSUME NEW o \in Ops, NEW p \in Steps
    PROVE  /\ [o EXCEPT !.pc = p] \in Ops
           /\ [o EXCEPT !.pc = p].pc = p /\ [o EXCEPT !.pc = p].kind = o.kind
           /\ [o EXCEPT !.pc = p].call = o.call /\ [o EXCEPT !.pc = p].sync = o.sync
BY DEF Ops, Steps

\* Nothing was promised, so everything agrees.
LEMMA NothingAgrees ==
    /\ [c \in Calls |-> "nothing"] \in [Calls -> {"nothing", "save", "delete"}]
    /\ \A S : Agrees([c \in Calls |-> "nothing"], S)
BY DEF Agrees

\* An error is counted from a state that is not disabled.
LEMMA CountKeeps ==
    ASSUME Counted(errors, wait, state), state # "DISABLED",
           NEW s \in States \ {"DISABLED"}, Count(s)
    PROVE  Counted(errors', wait', state')
<1>1. /\ errors \in Nat /\ AllowedErrors \in Nat /\ DisableTime \in Nat
      /\ errors < AllowedErrors /\ wait \in 0..DisableTime /\ errors' = errors + 1
  BY RtpeAssumption DEF Counted, Count
<1>2. CASE errors + 1 >= AllowedErrors
  <2>1. errors' = AllowedErrors /\ state' = "DISABLED" /\ wait' = DisableTime
    BY <1>1, <1>2 DEF Count
  <2> QED
    BY <1>1, <2>1 DEF Counted, States
<1>3. CASE ~(errors + 1 >= AllowedErrors)
  <2>1. state' = s /\ wait' = wait
    BY <1>3 DEF Count
  <2> QED
    BY <1>1, <1>3, <2>1 DEF Counted, States
<1> QED
  BY <1>2, <1>3

\* The server keeps some of the requests of a connection that goes.
LEMMA AbandonKeeps ==
    ASSUME Inv, Abandon
    PROVE  /\ peer' = FALSE /\ requests' = <<>> /\ owed' = None /\ granted' = granted
           /\ late' \in Seq(Requests) /\ Named(late')
<1>1. requests \in Seq(Requests) /\ late \in Seq(Requests) /\ Named(requests) /\ Named(late)
  BY DEF Inv, TypeOK, Numbered
<1>2. PICK n \in 0..Len(requests) :
          late' = IF granted THEN late \o SubSeq(requests, 1, n) ELSE late
  BY DEF Abandon
<1>3. CASE ~granted
  BY <1>1, <1>2, <1>3 DEF Abandon, Named
<1>4. CASE granted
  <2> DEFINE q == SubSeq(requests, 1, n)
  <2>1. q \in Seq(Requests) /\ Named(q)
    <3>1. Len(requests) \in Nat /\ DOMAIN requests = 1..Len(requests)
      BY <1>1, LenProperties
    <3>2. \A i \in 1..n : i \in 1..Len(requests) /\ requests[i] \in Requests
      BY <1>1, <3>1
    <3>3. q = [i \in 1..n |-> requests[i]] /\ DOMAIN q = 1..n
      BY <1>1, <3>1
    <3> QED
      BY <1>1, <3>1, <3>2, <3>3 DEF Named
  <2>2. late' = late \o q
    BY <1>2, <1>4
  <2> HIDE DEF q
  <2>3. /\ late \o q \in Seq(Requests) /\ DOMAIN (late \o q) = 1..(Len(late) + Len(q))
        /\ Len(late) \in Nat /\ Len(q) \in Nat
        /\ DOMAIN late = 1..Len(late) /\ DOMAIN q = 1..Len(q)
        /\ \A i \in 1..(Len(late) + Len(q)) :
              (late \o q)[i] = IF i <= Len(late) THEN late[i] ELSE q[i - Len(late)]
    BY <1>1, <2>1, ConcatProperties, LenProperties
  <2>4. Named(late \o q)
    <3>1. ASSUME NEW i \in 1..(Len(late) + Len(q)), ~ i <= Len(late)
          PROVE  i - Len(late) \in 1..Len(q)
      BY <2>3, <3>1
    <3>2. ASSUME NEW i \in 1..(Len(late) + Len(q)), i <= Len(late) PROVE i \in 1..Len(late)
      BY <2>3, <3>2
    <3> QED
      BY <1>1, <2>1, <2>3, <3>1, <3>2 DEF Named
  <2> QED
    BY <2>2, <2>3, <2>4 DEF Abandon
<1> QED
  BY <1>3, <1>4

\* An answer of 0 is a promise for the call of the operation.
LEMMA PromiseKeeps ==
    ASSUME Inv, op.pc # "idle", AnswerFailure \/ Promise
    PROVE  told' \in [Calls -> {"nothing", "save", "delete"}]
<1>1. op.kind = "restore" \/ op.kind \in {"save", "delete"}
  BY DEF Inv, TypeOK, Connected, Ops
<1> QED
  BY <1>1 DEF Inv, TypeOK, AnswerFailure, Promise

\* An operation ends with the connection gone.
LEMMA EndedKeeps ==
    ASSUME Inv, op' = Idle, peer' = FALSE, open' \in BOOLEAN,
           Counted(errors', wait', state'),
           requests' \in {<<>>, requests}, owed' \in {None, owed}, replies' \in {<<>>, replies},
           late' \in Seq(Requests), Named(late'), granted' = granted,
           told' \in [Calls -> {"nothing", "save", "delete"}],
           UNCHANGED <<sync_id, store, listening, cuts, restored>>
    PROVE  Inv'
<1>1. <<>> \in Seq(Requests) /\ <<>> \in Seq(Parts) /\ DOMAIN <<>> = {}
  OBVIOUS
<1>2. TypeOK'
  BY <1>1, IdleFacts DEF Inv, TypeOK, Counted, States
<1>3. Connected'
  BY IdleFacts DEF Connected, Counted
<1>4. Numbered'
  BY <1>1 DEF Inv, Numbered, Named
<1> QED
  BY <1>2, <1>3, <1>4 DEF Inv, Awaited, Piped, RestoreSeesSaves

\* The count as TypeOK and Connected state it.
LEMMA CountedNow == Inv => Counted(errors, wait, state)
BY DEF Inv, TypeOK, Connected, Counted, States
-----------------------------------------------------------------------------
(***************************************************************************)
(* The steps                                                               *)
(***************************************************************************)
LEMMA BeginKeeps ==
    ASSUME Inv, NEW kind, NEW c,
           (kind \in {"save", "delete"} /\ c \in Calls) \/ (kind = "restore" /\ c = None),
           Begin(kind, c)
    PROVE  Inv'
<1>1. op = Idle /\ op.pc = "idle" /\ sync_id \in Nat
  BY IdleFacts DEF Begin, Inv, TypeOK
<1> DEFINE p == IF open /\ state = "AUTHENTICATED" THEN "send" ELSE "connect"
           o == [kind |-> kind, call |-> c, sync |-> sync_id, pc |-> p]
<1>2. \/ p = "send" /\ state = "AUTHENTICATED"
      \/ p = "connect" /\ peer = FALSE
  <2>1. peer \in BOOLEAN /\ (peer => open /\ state = "AUTHENTICATED")
    BY <1>1 DEF Inv, Connected, TypeOK
  <2> QED
    BY <2>1
<1>3. o \in Ops /\ o.kind = kind /\ o.call = c /\ o.sync = sync_id /\ o.pc = p
  BY <1>1 DEF Ops
<1>4. op' = o /\ sync_id' = IF kind = "restore" THEN sync_id ELSE sync_id + 1
  BY DEF Begin
<1>5. /\ restored' = None
      /\ UNCHANGED <<open, state, errors, wait, peer, requests, replies, owed, granted,
                     late, store, listening, cuts, told>>
  BY DEF Begin, connVars, wireVars
<1> HIDE DEF o, p
<1>6. TypeOK'
  BY <1>1, <1>3, <1>4, <1>5 DEF Inv, TypeOK
<1>7. Connected'
  <2>1. op'.kind \in {"save", "delete"} => op'.call \in Calls /\ op'.sync < sync_id'
    BY <1>1, <1>3, <1>4
  <2> QED
    BY <1>2, <1>3, <1>4, <1>5, <2>1 DEF Inv, Connected
<1>8. Numbered'
  <2>1. \A n \in Nat : n < sync_id => n < sync_id'
    BY <1>1, <1>4
  <2>2. /\ \A i \in DOMAIN requests : requests[i].sync \in Nat
        /\ owed # None => owed.sync \in Nat
    BY PositionFacts DEF Inv, TypeOK, Requests, Parts
  <2> QED
    BY <1>5, <2>1, <2>2 DEF Inv, Numbered, Named
<1>9. Awaited' /\ Piped' /\ RestoreSeesSaves'
  BY <1>2, <1>3, <1>4, <1>5 DEF Inv, Awaited, Piped, RestoreSeesSaves
<1> QED
  BY <1>6, <1>7, <1>8, <1>9 DEF Inv

\* The cooldown has not passed: tnt_connect is not tried.
LEMMA ConnectBarredKeeps == ASSUME Inv, ConnectBarred PROVE Inv'
<1>1. /\ op.pc = "connect" /\ peer = FALSE
  BY DEF ConnectBarred, Inv, Connected, TypeOK
<1>2. /\ op' = Idle
      /\ UNCHANGED <<open, state, errors, wait, sync_id, peer, requests, replies, owed,
                     granted, late, store, listening, cuts, restored>>
  BY DEF ConnectBarred, Return, connVars, wireVars
<1>3. told' \in [Calls -> {"nothing", "save", "delete"}]
  BY <1>1, PromiseKeeps DEF ConnectBarred
<1>4. Counted(errors', wait', state') /\ Named(late') /\ late' \in Seq(Requests)
  BY <1>2, CountedNow DEF Inv, Numbered, TypeOK, Named, Counted
<1>5. /\ open' \in BOOLEAN /\ peer' = FALSE
      /\ requests' \in {<<>>, requests} /\ owed' \in {None, owed} /\ replies' \in {<<>>, replies}
  BY <1>1, <1>2 DEF Inv, TypeOK
<1> QED
  BY <1>2, <1>3, <1>4, <1>5, EndedKeeps

\* The TCP connection is made, with nothing sent on it yet.
LEMMA ConnectKeeps == ASSUME Inv, Connect PROVE Inv'
<1>1. /\ op.pc = "connect" /\ op' = [op EXCEPT !.pc = "greeting"]
      /\ open' = TRUE /\ state' = "CONNECTING" /\ wait' = wait
      /\ errors' = IF state = "DISABLED" THEN 0 ELSE errors
      /\ peer' = TRUE /\ requests' = <<>> /\ replies' = <<>> /\ owed' = None
      /\ granted' = FALSE /\ late' = late
      /\ told' = [c \in Calls |-> "nothing"]
      /\ UNCHANGED <<sync_id, store, listening, cuts, restored>>
  BY DEF Connect
<1>2. /\ op' \in Ops /\ op'.pc = "greeting" /\ op'.kind = op.kind /\ op'.call = op.call
      /\ op'.sync = op.sync
  BY <1>1, OpMoves DEF Inv, TypeOK, Steps
<1>3. errors' \in 0..AllowedErrors /\ errors' < AllowedErrors
  BY <1>1, RtpeAssumption DEF Inv, TypeOK, Connected
<1>4. <<>> \in Seq(Requests) /\ <<>> \in Seq(Parts) /\ DOMAIN <<>> = {}
  OBVIOUS
<1>5. TypeOK'
  BY <1>1, <1>2, <1>3, <1>4, NothingAgrees DEF Inv, TypeOK
<1>6. Connected'
  BY <1>1, <1>2, <1>3 DEF Inv, Connected
<1>7. Numbered'
  BY <1>1, <1>4 DEF Inv, Numbered, Named
<1> QED
  BY <1>1, <1>5, <1>6, <1>7 DEF Inv, Awaited, Piped, RestoreSeesSaves

\* No connection is made: the error is counted.
LEMMA ConnectFailsKeeps == ASSUME Inv, ConnectFails PROVE Inv'
<1>1. op.pc = "connect" /\ op' = Idle /\ open' = FALSE /\ replies' = <<>> /\ Abandon
  BY DEF ConnectFails, Close, NoWire, Return
<1>2. UNCHANGED <<sync_id, store, listening, cuts, restored>>
  BY DEF ConnectFails
<1>3. told' \in [Calls -> {"nothing", "save", "delete"}]
  BY <1>1, PromiseKeeps DEF ConnectFails
<1>4. Counted(errors', wait', state')
  <2>1. CASE state = "DISABLED"
    <3>1. /\ errors' = 1
          /\ state' = IF AllowedErrors = 1 THEN "DISABLED" ELSE "ERROR"
          /\ wait' = IF AllowedErrors = 1 THEN DisableTime ELSE 0
      BY <2>1 DEF ConnectFails
    <3> QED
      BY <3>1, RtpeAssumption DEF Counted, States
  <2>2. CASE state # "DISABLED"
    <3>1. Count("ERROR") /\ "ERROR" \in States \ {"DISABLED"}
      BY <2>2 DEF ConnectFails, States
    <3> QED
      BY <2>2, <3>1, CountKeeps, CountedNow
  <2> QED
    BY <2>1, <2>2
<1>5. open' \in BOOLEAN
  BY <1>1
<1>6. /\ peer' = FALSE /\ granted' = granted /\ late' \in Seq(Requests) /\ Named(late')
      /\ requests' \in {<<>>, requests} /\ owed' \in {None, owed} /\ replies' \in {<<>>, replies}
  BY <1>1, AbandonKeeps
<1> QED
  BY <1>1, <1>2, <1>3, <1>4, <1>5, <1>6, EndedKeeps

\* The greeting passes, or the login does.
LEMMA LoggedInKeeps ==
    ASSUME Inv, op.pc \in {"greeting", "auth"}, op' = [op EXCEPT !.pc = "send"],
           state' = "AUTHENTICATED", errors' = 0, granted' \in BOOLEAN,
           sync_id' \in {sync_id, sync_id + 1},
           UNCHANGED <<open, wait, peer, requests, replies, owed, late, store, listening,
                       cuts, told, restored>>
    PROVE  Inv'
<1>1. /\ op' \in Ops /\ op'.pc = "send" /\ op'.kind = op.kind /\ op'.call = op.call
      /\ op'.sync = op.sync
  BY OpMoves DEF Inv, TypeOK, Steps
<1>2. /\ sync_id' \in Nat /\ \A n \in Nat : n < sync_id => n < sync_id'
  BY DEF Inv, TypeOK
<1>3. errors' \in 0..AllowedErrors /\ errors' < AllowedErrors
  BY RtpeAssumption
<1>4. TypeOK'
  BY <1>1, <1>2, <1>3 DEF Inv, TypeOK
<1>5. Connected'
  <2>1. op.sync \in Nat
    BY DEF Inv, TypeOK, Ops
  <2> QED
    BY <1>1, <1>2, <1>3, <2>1 DEF Inv, Connected
<1>6. Numbered'
  <2>1. /\ \A i \in DOMAIN requests : requests[i].sync \in Nat
        /\ owed # None => owed.sync \in Nat
    BY PositionFacts DEF Inv, TypeOK, Requests, Parts
  <2> QED
    BY <1>2, <2>1 DEF Inv, Numbered, Named
<1>7. Awaited'
  BY <1>1 DEF Awaited
<1>8. Piped'
  BY NothingAgrees DEF Inv, Connected, Piped
<1>9. RestoreSeesSaves'
  BY DEF Inv, Connected, RestoreSeesSaves
<1> QED
  BY <1>4, <1>5, <1>6, <1>7, <1>8, <1>9 DEF Inv

\* The greeting is read; without a user the driver is done.
LEMMA GreetedKeeps == ASSUME Inv, Greeted PROVE Inv'
<1>1. /\ op.pc = "greeting"
      /\ UNCHANGED <<open, wait, sync_id, peer, requests, replies, owed, late, store,
                     listening, cuts, told, restored>>
  BY DEF Greeted
<1>2. CASE User
  <2>1. op' = [op EXCEPT !.pc = "auth"] /\ UNCHANGED <<state, errors, granted>>
    BY <1>2 DEF Greeted
  <2>2. /\ op' \in Ops /\ op'.pc = "auth" /\ op'.kind = op.kind /\ op'.call = op.call
        /\ op'.sync = op.sync
    BY <2>1, OpMoves DEF Inv, TypeOK, Steps
  <2>3. TypeOK' /\ Connected' /\ Numbered'
    BY <1>1, <2>1, <2>2 DEF Inv, TypeOK, Connected, Numbered, Named
  <2> QED
    BY <1>1, <2>1, <2>2, <2>3 DEF Inv, Awaited, Piped, RestoreSeesSaves
<1>3. CASE ~User
  BY <1>1, <1>3, LoggedInKeeps DEF Greeted
<1> QED
  BY <1>2, <1>3

\* Any reply to the login passes for a success.
LEMMA LoginKeeps == ASSUME Inv, Login PROVE Inv'
BY LoggedInKeeps DEF Login

\* The handshake fails and the connection is closed.
LEMMA NotGreetedKeeps == ASSUME Inv, NotGreeted PROVE Inv'
<1>1. /\ op.pc \in {"greeting", "auth"} /\ op' = Idle /\ open' = FALSE /\ replies' = <<>>
      /\ Abandon /\ Count("ERROR") /\ AnswerFailure
      /\ UNCHANGED <<sync_id, store, listening, cuts, restored>>
  BY DEF NotGreeted, Close, NoWire, Return
<1>2. state # "DISABLED" /\ "ERROR" \in States \ {"DISABLED"} /\ op.pc # "idle"
  BY <1>1 DEF Inv, Connected, States
<1>3. Counted(errors', wait', state')
  BY <1>1, <1>2, CountKeeps, CountedNow
<1>4. told' \in [Calls -> {"nothing", "save", "delete"}]
  BY <1>1, <1>2, PromiseKeeps
<1>5. open' \in BOOLEAN
  BY <1>1
<1>6. /\ peer' = FALSE /\ granted' = granted /\ late' \in Seq(Requests) /\ Named(late')
      /\ requests' \in {<<>>, requests} /\ owed' \in {None, owed} /\ replies' \in {<<>>, replies}
  BY <1>1, AbandonKeeps
<1> QED
  BY <1>1, <1>3, <1>4, <1>5, <1>6, EndedKeeps

\* A request cannot be written: the connection is closed.
LEMMA SendFailsKeeps == ASSUME Inv, SendFails PROVE Inv'
<1>1. /\ op.pc = "send" /\ op' = Idle /\ open' = FALSE /\ replies' = <<>>
      /\ Abandon /\ AnswerFailure
      /\ UNCHANGED <<sync_id, store, listening, cuts, restored>>
  BY DEF SendFails, Close, NoWire, Return
<1>2. state # "DISABLED" /\ "DISCONNECTED" \in States \ {"DISABLED"}
  BY <1>1 DEF Inv, Connected, States
<1>3. Counted(errors', wait', state')
  <2>1. CASE op.kind = "restore"
    <3>1. state' = "DISCONNECTED" /\ errors' = errors /\ wait' = wait
      BY <2>1 DEF SendFails
    <3> QED
      BY <1>2, <3>1, CountedNow DEF Counted
  <2>2. CASE op.kind # "restore"
    BY <1>2, <2>2, CountKeeps, CountedNow DEF SendFails
  <2> QED
    BY <2>1, <2>2
<1>4. told' \in [Calls -> {"nothing", "save", "delete"}]
  BY <1>1, PromiseKeeps
<1>5. open' \in BOOLEAN
  BY <1>1
<1>6. /\ peer' = FALSE /\ granted' = granted /\ late' \in Seq(Requests) /\ Named(late')
      /\ requests' \in {<<>>, requests} /\ owed' \in {None, owed} /\ replies' \in {<<>>, replies}
  BY <1>1, AbandonKeeps
<1> QED
  BY <1>1, <1>3, <1>4, <1>5, <1>6, EndedKeeps

\* A restore gets no reply: the connection is closed.
LEMMA RecvFailsKeeps == ASSUME Inv, RecvFails PROVE Inv'
<1>1. /\ op.pc = "recv" /\ op' = Idle /\ open' = FALSE /\ replies' = <<>>
      /\ Abandon /\ state' = "DISCONNECTED"
      /\ UNCHANGED <<errors, wait, sync_id, store, listening, cuts, told, restored>>
  BY DEF RecvFails, Close, NoWire, Return
<1>2. Counted(errors', wait', state')
  <2>1. state # "DISABLED"
    BY <1>1 DEF Inv, Connected
  <2> QED
    BY <1>1, <2>1, CountedNow DEF Counted, States
<1>3. told' \in [Calls -> {"nothing", "save", "delete"}] /\ open' \in BOOLEAN
  BY <1>1 DEF Inv, TypeOK
<1>4. /\ peer' = FALSE /\ granted' = granted /\ late' \in Seq(Requests) /\ Named(late')
      /\ requests' \in {<<>>, requests} /\ owed' \in {None, owed} /\ replies' \in {<<>>, replies}
  BY <1>1, AbandonKeeps
<1> QED
  BY <1>1, <1>2, <1>3, <1>4, EndedKeeps

\* save_call and delete_call write their request and promise.
LEMMA SendPipelinedKeeps ==
    ASSUME Inv, Send, op.kind # "restore" PROVE Inv'
<1> DEFINE r == [kind |-> op.kind, call |-> op.call, sync |-> op.sync]
<1>1. /\ op.pc = "send" /\ op' = Idle /\ errors' = 0 /\ replies' = <<>>
      /\ requests' = IF peer THEN Append(requests, r) ELSE requests
      /\ told' = [told EXCEPT ![op.call] = op.kind]
      /\ UNCHANGED <<sync_id, open, state, wait, peer, owed, granted, late, store, listening,
                     cuts, restored>>
  BY DEF Send, Written, Promise, Return
<1>2. /\ op.kind \in {"save", "delete"} /\ op.call \in Calls /\ op.sync < sync_id
      /\ restored = None /\ state = "AUTHENTICATED" /\ op.sync \in Nat
  BY <1>1 DEF Inv, TypeOK, Connected, Ops
<1>3. r \in Requests /\ r.kind = op.kind /\ r.call = op.call /\ r.sync = op.sync
  BY <1>2 DEF Requests
<1> HIDE DEF r
<1>4. requests \in Seq(Requests) /\ told \in [Calls -> {"nothing", "save", "delete"}]
  BY DEF Inv, TypeOK
<1>5. /\ Append(requests, r) \in Seq(Requests)
      /\ DOMAIN requests = 1..Len(requests) /\ Len(requests) \in Nat
      /\ DOMAIN Append(requests, r) = 1..(Len(requests) + 1)
      /\ Append(requests, r)[Len(requests) + 1] = r
      /\ \A i \in 1..Len(requests) : Append(requests, r)[i] = requests[i]
  BY <1>3, <1>4, LenProperties, AppendProperties
<1>6. told' \in [Calls -> {"nothing", "save", "delete"}]
  BY <1>1, <1>2, <1>4
<1>7. requests' \in Seq(Requests) /\ <<>> \in Seq(Parts)
  BY <1>1, <1>4, <1>5
<1>8. TypeOK'
  BY <1>1, <1>6, <1>7, IdleFacts, RtpeAssumption DEF Inv, TypeOK
<1>9. Connected'
  BY <1>1, <1>2, IdleFacts, RtpeAssumption DEF Inv, Connected
<1>10. Numbered'
  <2>1. \A i \in 1..(Len(requests) + 1) : i = Len(requests) + 1 \/ i \in 1..Len(requests)
    BY <1>5
  <2>2. Named(Append(requests, r)) /\ \A i \in DOMAIN Append(requests, r) :
                                         Append(requests, r)[i].sync < sync_id
    BY <1>2, <1>3, <1>5, <2>1 DEF Inv, Numbered, Named
  <2> QED
    BY <1>1, <2>2 DEF Inv, Numbered, Named
<1>11. Piped'
  <2> SUFFICES ASSUME peer, granted, NEW c \in Calls
               PROVE  /\ told'[c] = "save" => Ends(c, store, requests')
                      /\ told'[c] = "delete" => ~Ends(c, store, requests')
    BY <1>1 DEF Piped
  <2>1. Ends(c, store, requests') <=>
           IF Touches(r, c) THEN r.kind = "save" ELSE Ends(c, store, requests)
    BY <1>1, <1>3, <1>4, EndsAppend
  <2>2. Touches(r, c) <=> c = op.call
    BY <1>2, <1>3 DEF Touches
  <2>3. CASE c = op.call
    <3>1. told'[c] = op.kind
      BY <1>1, <1>4, <2>3
    <3> QED
      BY <1>3, <2>1, <2>2, <2>3, <3>1
  <2>4. CASE c # op.call
    <3>1. told'[c] = told[c]
      BY <1>1, <1>4, <2>4
    <3> QED
      BY <2>1, <2>2, <2>4, <3>1 DEF Inv, Piped
  <2> QED
    BY <2>3, <2>4
<1>12. Awaited' /\ RestoreSeesSaves'
  BY <1>1, <1>2, IdleFacts DEF Awaited, RestoreSeesSaves
<1> QED
  BY <1>8, <1>9, <1>10, <1>11, <1>12 DEF Inv

\* restore_calls writes its request, under a sync id of its own, and waits.
LEMMA SendRestoreKeeps ==
    ASSUME Inv, Send, op.kind = "restore" PROVE Inv'
<1> DEFINE r == [kind |-> op.kind, call |-> op.call, sync |-> sync_id]
           o == [op EXCEPT !.pc = "recv", !.sync = sync_id]
<1>1. /\ op.pc = "send" /\ op' = o /\ errors' = errors /\ replies' = <<>>
      /\ requests' = IF peer THEN Append(requests, r) ELSE requests
      /\ told' = told /\ sync_id' = sync_id + 1
      /\ UNCHANGED <<open, state, wait, peer, owed, granted, late, store, listening,
                     cuts, restored>>
  BY DEF Send, Written, Promise
<1>2. restored = None /\ state = "AUTHENTICATED" /\ sync_id \in Nat
  BY <1>1 DEF Inv, TypeOK, Connected
<1>3. r \in Requests /\ r.kind = "restore" /\ r.sync = sync_id
  BY <1>2 DEF Requests, Inv, TypeOK, Ops
<1>4. /\ o \in Ops /\ o.pc = "recv" /\ o.kind = "restore" /\ o.sync = sync_id
  BY <1>2 DEF Ops, Inv, TypeOK
<1> HIDE DEF r, o
<1>5. /\ requests \in Seq(Requests) /\ Append(requests, r) \in Seq(Requests)
      /\ DOMAIN requests = 1..Len(requests) /\ Len(requests) \in Nat
      /\ DOMAIN Append(requests, r) = 1..(Len(requests) + 1)
      /\ Len(Append(requests, r)) = Len(requests) + 1
      /\ Append(requests, r)[Len(requests) + 1] = r
      /\ \A i \in 1..Len(requests) : Append(requests, r)[i] = requests[i]
  BY <1>3, LenProperties, AppendProperties DEF Inv, TypeOK
<1>6. \A n \in Nat : n < sync_id => n < sync_id + 1 /\ n # sync_id
  BY <1>2
<1>7. /\ \A i \in DOMAIN requests : requests[i].sync \in Nat /\ requests[i].sync < sync_id
      /\ owed # None => owed.sync \in Nat /\ owed.sync < sync_id
  BY <1>5, PositionFacts DEF Inv, TypeOK, Requests, Parts, Numbered
<1>8. TypeOK'
  <2>1. requests' \in Seq(Requests) /\ <<>> \in Seq(Parts) /\ sync_id + 1 \in Nat
    BY <1>1, <1>2, <1>5
  <2> QED
    BY <1>1, <1>4, <2>1 DEF Inv, TypeOK
<1>9. Connected'
  BY <1>1, <1>2, <1>4 DEF Inv, Connected
<1>10. \A i \in 1..(Len(requests) + 1) : i = Len(requests) + 1 \/ i \in 1..Len(requests)
  BY <1>5
<1>11. Numbered'
  <2>1. Named(Append(requests, r)) /\ \A i \in DOMAIN Append(requests, r) :
                                         Append(requests, r)[i].sync < sync_id + 1
    <3>1. sync_id < sync_id + 1
      BY <1>2
    <3>2. Named(Append(requests, r))
      BY <1>3, <1>5, <1>10 DEF Inv, Numbered, Named
    <3> QED
      BY <1>3, <1>5, <1>6, <1>7, <1>10, <3>1, <3>2
  <2>2. Named(requests') /\ \A i \in DOMAIN requests' : requests'[i].sync < sync_id'
    BY <1>1, <1>6, <1>7, <2>1 DEF Inv, Numbered
  <2>3. Named(late') /\ (owed' # None => owed'.sync < sync_id')
    BY <1>1, <1>6, <1>7 DEF Inv, Numbered
  <2> QED
    BY <2>2, <2>3 DEF Numbered, Named
<1>12. Awaited'
  <2> SUFFICES ASSUME peer
               PROVE  /\ \A i \in DOMAIN requests' : requests'[i].sync = op'.sync =>
                            i = Len(requests') /\ requests'[i].kind = "restore"
                      /\ \A i \in DOMAIN replies' : FALSE
                      /\ ~(owed' # None /\ owed'.sync = op'.sync)
    BY <1>1 DEF Awaited
  <2>1. requests' = Append(requests, r) /\ op'.sync = sync_id
    BY <1>1, <1>4
  <2>2. \A i \in DOMAIN requests' : requests'[i].sync = sync_id =>
            i = Len(requests') /\ requests'[i].kind = "restore"
    BY <1>3, <1>5, <1>6, <1>7, <1>10, <2>1
  <2>3. DOMAIN replies' = {}
    BY <1>1
  <2>4. ~(owed' # None /\ owed'.sync = sync_id)
    BY <1>1, <1>6, <1>7
  <2> QED
    BY <2>1, <2>2, <2>3, <2>4
<1>13. Piped'
  <2> SUFFICES ASSUME peer, granted, NEW c \in Calls
               PROVE  /\ told[c] = "save" => Ends(c, store, requests')
                      /\ told[c] = "delete" => ~Ends(c, store, requests')
    BY <1>1 DEF Piped
  <2>1. Ends(c, store, requests') <=>
           IF Touches(r, c) THEN r.kind = "save" ELSE Ends(c, store, requests)
    BY <1>1, <1>3, <1>5, EndsAppend
  <2>2. ~Touches(r, c)
    BY <1>3 DEF Touches
  <2> QED
    BY <2>1, <2>2 DEF Inv, Piped
<1>14. RestoreSeesSaves'
  BY <1>1, <1>2 DEF RestoreSeesSaves
<1> QED
  BY <1>8, <1>9, <1>11, <1>12, <1>13, <1>14 DEF Inv

\* Two parts of replies have been read.
LEMMA RestOfReplies ==
    ASSUME Inv, WholeReply
    PROVE  /\ 2 \in DOMAIN replies /\ replies[2] \in Parts
           /\ SubSeq(replies, 3, Len(replies)) \in Seq(Parts)
           /\ \A i \in DOMAIN SubSeq(replies, 3, Len(replies)) :
                 \E j \in DOMAIN replies : SubSeq(replies, 3, Len(replies))[i] = replies[j]
<1> DEFINE n == Len(replies)
           q == SubSeq(replies, 3, n)
<1>1. /\ replies \in Seq(Parts) /\ n \in Nat /\ n >= 2 /\ DOMAIN replies = 1..n
      /\ \A i \in 1..n : replies[i] \in Parts
  BY LenProperties DEF Inv, TypeOK, WholeReply
<1>2. 2 \in 1..n
  BY <1>1
<1>3. /\ q \in Seq(Parts) /\ DOMAIN q = 1..(n - 2)
      /\ \A i \in 1..(n - 2) : i + 2 \in 1..n /\ q[i] = replies[i + 2]
  <2>1. \A i \in 1..(n - 2) : i + 2 \in 1..n /\ (3 + i) - 1 = i + 2
    BY <1>1
  <2>2. q = [i \in 1..(n - 2) |-> replies[i + 2]]
    BY <1>1, <2>1
  <2>3. n - 2 \in Nat
    BY <1>1
  <2> QED
    BY <1>1, <2>1, <2>2, <2>3
<1> HIDE DEF n, q
<1>4. \A i \in DOMAIN q : \E j \in DOMAIN replies : q[i] = replies[j]
  BY <1>1, <1>3
<1> QED
  BY <1>1, <1>2, <1>3, <1>4 DEF q, n

\* A reply with another sync id is read over.
LEMMA RecvOtherKeeps == ASSUME Inv, RecvOther PROVE Inv'
<1>1. /\ WholeReply /\ replies' = SubSeq(replies, 3, Len(replies))
      /\ UNCHANGED <<open, state, errors, wait, sync_id, op, peer, requests, owed, granted,
                     late, store, listening, cuts, told, restored>>
  BY DEF RecvOther, connVars
<1>2. /\ replies' \in Seq(Parts)
      /\ \A i \in DOMAIN replies' : \E j \in DOMAIN replies : replies'[i] = replies[j]
  BY <1>1, RestOfReplies
<1>3. TypeOK' /\ Connected' /\ Numbered'
  BY <1>1, <1>2 DEF Inv, TypeOK, Connected, Numbered, Named
<1>4. Awaited'
  BY <1>1, <1>2 DEF Inv, Awaited
<1> QED
  BY <1>1, <1>3, <1>4 DEF Inv, Piped, RestoreSeesSaves

\* The reply with the sync id of the restore agrees with what was promised.
LEMMA RecvMineKeeps == ASSUME Inv, RecvMine PROVE Inv'
<1>1. /\ op.pc = "recv" /\ WholeReply /\ replies[2].sync = op.sync
      /\ restored' = replies[2].calls
      /\ replies' = SubSeq(replies, 3, Len(replies)) /\ op' = Idle
      /\ UNCHANGED <<open, state, errors, wait, sync_id, peer, requests, owed, granted,
                     late, store, listening, cuts, told>>
  BY DEF RecvMine, connVars, IsMine, Return
<1>2. /\ 2 \in DOMAIN replies /\ replies[2].calls \subseteq Calls
      /\ replies' \in Seq(Parts)
  BY <1>1, RestOfReplies DEF Parts
<1>3. state = "AUTHENTICATED"
  BY <1>1 DEF Inv, Connected
<1>4. TypeOK'
  BY <1>1, <1>2, IdleFacts DEF Inv, TypeOK
<1>5. Connected'
  BY <1>1, <1>3, IdleFacts DEF Inv, Connected
<1>6. Numbered'
  BY <1>1 DEF Inv, Numbered, Named
<1>7. Awaited' /\ Piped'
  BY <1>1, IdleFacts DEF Inv, Awaited, Piped
<1>8. RestoreSeesSaves'
  <2>1. peer /\ granted => Agrees(told, replies[2].calls)
    BY <1>1, <1>2 DEF Inv, Awaited
  <2> QED
    BY <1>1, <2>1 DEF RestoreSeesSaves, Agrees
<1> QED
  BY <1>4, <1>5, <1>6, <1>7, <1>8 DEF Inv

\* The server executes the first request and replies.
LEMMA ExecuteKeeps == ASSUME Inv, Execute PROVE Inv'
<1> DEFINE r == Head(requests)
<1>0. PICK long \in BOOLEAN :
          \/ /\ replies' = replies \o <<Part("head", r, long), Part("body", r, long)>>
             /\ owed' = owed
          \/ replies' = Append(replies, Part("head", r, long)) /\ owed' = Part("body", r, long)
  BY DEF Execute
<1> DEFINE h == Part("head", r, long)
           b == Part("body", r, long)
<1>1. /\ peer /\ requests # <<>> /\ owed = None
      /\ store' = IF granted THEN Applied(store, r) ELSE store
      /\ \/ replies' = replies \o <<h, b>> /\ owed' = owed
         \/ replies' = Append(replies, h) /\ owed' = b
      /\ requests' = Tail(requests)
      /\ UNCHANGED <<open, state, errors, wait, sync_id, op, peer, granted, late, listening,
                     cuts, told, restored>>
  BY <1>0 DEF Execute, connVars
<1>2. requests \in Seq(Requests) /\ replies \in Seq(Parts) /\ store \subseteq Calls
  BY DEF Inv, TypeOK
<1>3. /\ Len(requests) \in Nat \ {0} /\ DOMAIN requests = 1..Len(requests)
      /\ r = requests[1] /\ r \in Requests /\ 1 \in DOMAIN requests
      /\ Tail(requests) \in Seq(Requests)
      /\ DOMAIN Tail(requests) = 1..(Len(requests) - 1)
      /\ \A i \in 1..(Len(requests) - 1) : Tail(requests)[i] = requests[i + 1]
  <2>1. /\ Len(requests) \in Nat /\ Len(requests) # 0 /\ DOMAIN requests = 1..Len(requests)
        /\ r = requests[1] /\ r \in Requests
    BY <1>1, <1>2, LenProperties, EmptySeq, HeadTailProperties
  <2>2. /\ Tail(requests) \in Seq(Requests) /\ Len(Tail(requests)) = Len(requests) - 1
        /\ \A i \in 1..(Len(requests) - 1) : Tail(requests)[i] = requests[i + 1]
    BY <1>1, <1>2, HeadTailProperties
  <2>3. DOMAIN Tail(requests) = 1..(Len(requests) - 1)
    BY <2>2, LenProperties
  <2>4. 1 \in 1..Len(requests) /\ Len(requests) \in Nat \ {0}
    BY <2>1
  <2> QED
    BY <2>1, <2>2, <2>3, <2>4
<1>4. /\ r.sync \in Nat /\ r.sync < sync_id
      /\ r.kind \in {"save", "delete", "restore"}
      /\ r.kind # "restore" => r.call \in Calls
  BY <1>3 DEF Inv, Numbered, Named, Requests
<1> DEFINE S == IF r.kind = "restore" /\ granted THEN store ELSE {}
<1>5. /\ h \in Parts /\ b \in Parts /\ h.sync = r.sync /\ b.sync = r.sync
      /\ h.calls = S /\ b.calls = S
  BY <1>0, <1>2, <1>4 DEF Part, Parts, Found
<1> HIDE DEF r, h, b, S
<1>6. /\ replies' \in Seq(Parts)
      /\ \A i \in DOMAIN replies' :
            \/ i \in DOMAIN replies /\ replies'[i] = replies[i]
            \/ replies'[i] \in {h, b}
  <2> DEFINE n == Len(replies)
  <2>1. n \in Nat /\ DOMAIN replies = 1..n
    BY <1>2, LenProperties
  <2>2. CASE replies' = replies \o <<h, b>>
    <3>1. /\ <<h, b>> \in Seq(Parts) /\ Len(<<h, b>>) = 2
          /\ <<h, b>>[1] = h /\ <<h, b>>[2] = b
      BY <1>5
    <3>2. /\ replies' \in Seq(Parts) /\ DOMAIN replies' = 1..(n + 2)
          /\ \A i \in 1..(n + 2) :
                replies'[i] = IF i <= n THEN replies[i] ELSE <<h, b>>[i - n]
      BY <1>2, <2>2, <3>1, ConcatProperties, LenProperties
    <3> HIDE DEF n
    <3>3. \A i \in 1..(n + 2) : IF i <= n THEN i \in 1..n ELSE i - n \in {1, 2}
      BY <2>1
    <3> QED
      BY <2>1, <3>1, <3>2, <3>3
  <2>3. CASE replies' = Append(replies, h)
    <3>1. /\ replies' \in Seq(Parts) /\ DOMAIN replies' = 1..(n + 1) /\ replies'[n + 1] = h
          /\ \A i \in 1..n : replies'[i] = replies[i]
      BY <1>2, <1>5, <2>3, AppendProperties, LenProperties
    <3> HIDE DEF n
    <3>2. \A i \in 1..(n + 1) : i \in 1..n \/ i = n + 1
      BY <2>1
    <3> QED
      BY <2>1, <3>1, <3>2
  <2> QED
    BY <1>1, <2>2, <2>3
<1>7. owed' = None \/ owed' = b
  BY <1>1
<1>8. store' \subseteq Calls
  <2>1. Applied(store, r) \subseteq Calls
    BY <1>2, <1>4 DEF Applied
  <2> QED
    BY <1>1, <1>2, <2>1
<1>9. TypeOK'
  BY <1>1, <1>3, <1>5, <1>6, <1>7, <1>8 DEF Inv, TypeOK
<1>10. Connected'
  BY <1>1 DEF Inv, Connected
<1>11. \A i \in DOMAIN requests' : /\ i + 1 \in DOMAIN requests
                                   /\ requests'[i] = requests[i + 1]
  <2>1. \A i \in 1..(Len(requests) - 1) : i + 1 \in 1..Len(requests)
    BY <1>3
  <2> QED
    BY <1>1, <1>3, <2>1
<1>12. Numbered'
  <2>1. Named(requests') /\ \A i \in DOMAIN requests' : requests'[i].sync < sync_id
    BY <1>11 DEF Inv, Numbered, Named
  <2>2. owed' # None => owed'.sync < sync_id
    BY <1>4, <1>5, <1>7
  <2> QED
    BY <1>1, <2>1, <2>2 DEF Inv, Numbered, Named
<1>13. granted => \A c \in Calls : Ends(c, store, requests) <=> Ends(c, store', requests')
  BY <1>1, <1>2, EndsTail DEF r
<1>14. Piped'
  BY <1>1, <1>13 DEF Inv, Piped
<1>15. Awaited'
  <2> SUFFICES ASSUME op.pc = "recv", peer, granted
               PROVE  /\ \A i \in DOMAIN requests' : requests'[i].sync = op.sync =>
                            i = Len(requests') /\ requests'[i].kind = "restore"
                      /\ \A i \in DOMAIN replies' : replies'[i].sync = op.sync =>
                            Agrees(told, replies'[i].calls)
                      /\ owed' # None /\ owed'.sync = op.sync => Agrees(told, owed'.calls)
    BY <1>1 DEF Awaited
  <2>1. \A i \in DOMAIN requests : requests[i].sync = op.sync =>
            i = Len(requests) /\ requests[i].kind = "restore"
    BY DEF Inv, Awaited
  <2>2. ASSUME NEW i \in DOMAIN requests', requests'[i].sync = op.sync
        PROVE  i = Len(requests') /\ requests'[i].kind = "restore"
    <3>1. i + 1 = Len(requests) /\ requests'[i].kind = "restore"
      BY <1>11, <2>1, <2>2
    <3>2. Len(requests') = Len(requests) - 1 /\ i \in Nat
      BY <1>1, <1>3, <2>2, LenProperties
    <3> QED
      BY <3>1, <3>2, <1>3
  <2>3. ASSUME r.sync = op.sync PROVE Agrees(told, S)
    <3>1. Len(requests) = 1 /\ r.kind = "restore"
      BY <1>3, <2>1, <2>3
    <3>2. DOMAIN requests' = {} /\ S = store /\ store' = store
      <4>1. DOMAIN requests' = 1..0
        BY <1>1, <1>3, <3>1
      <4>2. 1..0 = {}
        OBVIOUS
      <4> QED
        BY <1>1, <3>1, <4>1, <4>2 DEF S, Applied
    <3>3. \A c \in Calls : Ends(c, store', requests') <=> c \in store
      BY <3>2 DEF Ends, EndsIn
    <3> QED
      BY <1>1, <1>14, <3>2, <3>3 DEF Piped, Agrees
  <2>4. ASSUME NEW i \in DOMAIN replies', replies'[i].sync = op.sync
        PROVE  Agrees(told, replies'[i].calls)
    <3>1. CASE i \in DOMAIN replies /\ replies'[i] = replies[i]
      BY <2>4, <3>1 DEF Inv, Awaited
    <3>2. CASE replies'[i] \in {h, b}
      BY <1>5, <2>3, <2>4, <3>2
    <3> QED
      BY <1>6, <3>1, <3>2
  <2>5. ASSUME owed' # None, owed'.sync = op.sync PROVE Agrees(told, owed'.calls)
    BY <1>5, <1>7, <2>3, <2>5
  <2> QED
    BY <2>2, <2>4, <2>5
<1>16. RestoreSeesSaves'
  BY <1>1 DEF Inv, RestoreSeesSaves
<1> QED
  BY <1>9, <1>10, <1>12, <1>14, <1>15, <1>16 DEF Inv

\* A request of an earlier connection takes back the promise for its call,
\* and disturbs no other.
LEMMA ExecuteLateKeeps == ASSUME Inv, ExecuteLate PROVE Inv'
<1> DEFINE r == Head(late)
<1>1. /\ late # <<>> /\ store' = Applied(store, r) /\ late' = Tail(late)
      /\ told' = [c \in Calls |-> IF c = r.call THEN "nothing" ELSE told[c]]
      /\ UNCHANGED <<open, state, errors, wait, sync_id, op, peer, requests, replies, owed,
                     granted, listening, cuts, restored>>
  BY DEF ExecuteLate, connVars
<1>2. late \in Seq(Requests) /\ store \subseteq Calls /\ Named(late)
  BY DEF Inv, TypeOK, Numbered
<1>3. /\ r \in Requests /\ (r.kind # "restore" => r.call \in Calls)
      /\ Tail(late) \in Seq(Requests) /\ Named(Tail(late))
  <2>1. /\ Len(late) \in Nat /\ Len(late) # 0 /\ DOMAIN late = 1..Len(late)
        /\ r = late[1] /\ r \in Requests
    BY <1>1, <1>2, LenProperties, EmptySeq, HeadTailProperties
  <2>2. /\ Tail(late) \in Seq(Requests) /\ Len(Tail(late)) = Len(late) - 1
        /\ \A i \in 1..(Len(late) - 1) : Tail(late)[i] = late[i + 1]
    BY <1>1, <1>2, HeadTailProperties
  <2>3. DOMAIN Tail(late) = 1..(Len(late) - 1)
    BY <2>2, LenProperties
  <2>4. 1 \in 1..Len(late) /\ \A i \in 1..(Len(late) - 1) : i + 1 \in 1..Len(late)
    BY <2>1
  <2> QED
    BY <1>2, <2>1, <2>2, <2>3, <2>4 DEF Named
<1> HIDE DEF r
<1>4. store' \subseteq Calls
  <2>1. Applied(store, r) \subseteq Calls
    BY <1>2, <1>3 DEF Applied, Requests
  <2> QED
    BY <1>1, <2>1
<1>5. told' \in [Calls -> {"nothing", "save", "delete"}]
  BY <1>1 DEF Inv, TypeOK
<1>6. \A c \in Calls : told'[c] = told[c] \/ told'[c] = "nothing"
  BY <1>1
<1>7. TypeOK'
  BY <1>1, <1>3, <1>4, <1>5 DEF Inv, TypeOK
<1>8. Connected'
  <2>1. told = [c \in Calls |-> "nothing"] => told' = [c \in Calls |-> "nothing"]
    BY <1>1
  <2> QED
    BY <1>1, <2>1 DEF Inv, Connected
<1>9. Numbered'
  BY <1>1, <1>3 DEF Inv, Numbered, Named
<1>10. ASSUME NEW S, Agrees(told, S) PROVE Agrees(told', S)
  BY <1>6, <1>10 DEF Agrees
<1>11. Awaited'
  BY <1>1, <1>10 DEF Inv, Awaited
<1>12. Piped'
  <2> SUFFICES ASSUME peer, granted, NEW c \in Calls
               PROVE  /\ told'[c] = "save" => Ends(c, store', requests)
                      /\ told'[c] = "delete" => ~Ends(c, store', requests)
    BY <1>1 DEF Piped
  <2>1. CASE c = r.call
    BY <1>1, <2>1
  <2>2. CASE c # r.call
    <3>1. c \in store' <=> c \in store
      BY <1>1, <1>3, <2>2, AppliedIs DEF Touches
    <3>2. Ends(c, store', requests) <=> Ends(c, store, requests)
      BY <3>1 DEF Ends, EndsIn
    <3> QED
      BY <1>6, <3>2 DEF Inv, Piped
  <2> QED
    BY <2>1, <2>2
<1>13. RestoreSeesSaves'
  BY <1>1, <1>6 DEF Inv, RestoreSeesSaves
<1> QED
  BY <1>7, <1>8, <1>9, <1>11, <1>12, <1>13 DEF Inv

\* The rest of a reply arrives behind its length.
LEMMA DeliverRestKeeps == ASSUME Inv, DeliverRest PROVE Inv'
<1>1. /\ owed # None /\ replies' = Append(replies, owed) /\ owed' = None
      /\ UNCHANGED <<open, state, errors, wait, sync_id, op, peer, requests, granted, late,
                     store, listening, cuts, told, restored>>
  BY DEF DeliverRest, connVars
<1>2. replies \in Seq(Parts) /\ owed \in Parts
  BY <1>1 DEF Inv, TypeOK
<1>3. /\ replies' \in Seq(Parts)
      /\ \A i \in DOMAIN replies' : \/ i \in DOMAIN replies /\ replies'[i] = replies[i]
                                    \/ replies'[i] = owed
  <2>1. /\ Len(replies) \in Nat /\ DOMAIN replies = 1..Len(replies)
        /\ replies' \in Seq(Parts) /\ DOMAIN replies' = 1..(Len(replies) + 1)
        /\ replies'[Len(replies) + 1] = owed
        /\ \A i \in 1..Len(replies) : replies'[i] = replies[i]
    BY <1>1, <1>2, LenProperties, AppendProperties
  <2>2. \A i \in 1..(Len(replies) + 1) : i \in 1..Len(replies) \/ i = Len(replies) + 1
    BY <2>1
  <2> QED
    BY <2>1, <2>2
<1>4. TypeOK' /\ Connected' /\ Numbered'
  BY <1>1, <1>3 DEF Inv, TypeOK, Connected, Numbered, Named
<1>5. Awaited'
  BY <1>1, <1>3 DEF Inv, Awaited
<1> QED
  BY <1>1, <1>4, <1>5 DEF Inv, Piped, RestoreSeesSaves

\* The network cuts the connection, what was sent may be executed later.
LEMMA CutKeeps == ASSUME Inv, Cut PROVE Inv'
<1>1. /\ Abandon /\ cuts' = cuts + 1
      /\ UNCHANGED <<open, state, errors, wait, sync_id, op, replies, store, listening, told,
                     restored>>
  BY DEF Cut, connVars
<1>2. /\ peer' = FALSE /\ requests' = <<>> /\ owed' = None /\ granted' = granted
      /\ late' \in Seq(Requests) /\ Named(late')
  BY <1>1, AbandonKeeps
<1>3. <<>> \in Seq(Requests) /\ DOMAIN <<>> = {}
  OBVIOUS
<1>4. TypeOK'
  <2>1. cuts' \in Nat
    BY <1>1 DEF Inv, TypeOK
  <2> QED
    BY <1>1, <1>2, <1>3, <2>1 DEF Inv, TypeOK
<1>5. Connected'
  BY <1>1, <1>2 DEF Inv, Connected
<1>6. Numbered'
  BY <1>2, <1>3 DEF Numbered, Named
<1> QED
  BY <1>2, <1>4, <1>5, <1>6 DEF Inv, Awaited, Piped, RestoreSeesSaves

\* The server's door and the clock.
LEMMA OutsideKeeps == ASSUME Inv, ServerTurns \/ Tick PROVE Inv'
<1>1. UNCHANGED <<open, state, errors, sync_id, op, peer, requests, replies, owed, granted,
                  late, store, cuts, told, restored>>
  BY DEF ServerTurns, Tick, connVars, wireVars
<1>2. listening' \in BOOLEAN /\ wait' \in 0..DisableTime
  <2>1. listening \in BOOLEAN /\ wait \in 0..DisableTime /\ DisableTime \in Nat
    BY RtpeAssumption DEF Inv, TypeOK
  <2>2. \/ listening' = ~listening /\ wait' = wait
        \/ listening' = listening /\ wait > 0 /\ wait' = wait - 1
    BY DEF ServerTurns, Tick, connVars
  <2>3. listening' \in BOOLEAN
    BY <2>1, <2>2
  <2>4. wait' \in 0..DisableTime
    BY <2>1, <2>2
  <2> QED
    BY <2>3, <2>4
<1>3. TypeOK' /\ Connected' /\ Numbered'
  BY <1>1, <1>2 DEF Inv, TypeOK, Connected, Numbered, Named
<1> QED
  BY <1>1, <1>3 DEF Inv, Awaited, Piped, RestoreSeesSaves
-----------------------------------------------------------------------------
(***************************************************************************)
(* The theorems                                                            *)
(***************************************************************************)
LEMMA InitInv == Init => Inv
<1> SUFFICES ASSUME Init PROVE Inv
  OBVIOUS
<1>1. <<>> \in Seq(Requests) /\ <<>> \in Seq(Parts) /\ DOMAIN <<>> = {}
  OBVIOUS
<1>2. TypeOK
  <2>1. errors \in 0..AllowedErrors /\ wait \in 0..DisableTime /\ sync_id \in Nat /\ cuts \in Nat
    BY RtpeAssumption DEF Init
  <2>2. told \in [Calls -> {"nothing", "save", "delete"}]
    BY NothingAgrees DEF Init
  <2> QED
    BY <1>1, <2>1, <2>2, IdleFacts DEF Init, TypeOK
<1>3. Connected
  BY IdleFacts, RtpeAssumption DEF Init, Connected
<1>4. Numbered
  BY <1>1 DEF Init, Numbered, Named
<1> QED
  BY <1>2, <1>3, <1>4 DEF Init, Inv, Awaited, Piped, RestoreSeesSaves

\* Every step of the driver, the server and the network keeps the invariant.
LEMMA NextInv == Inv /\ [Next]_vars => Inv'
<1> SUFFICES ASSUME Inv, [Next]_vars PROVE Inv'
  OBVIOUS
<1>1. CASE \/ \E c \in Calls : save_call(c) \/ delete_call(c)
           \/ restore_calls
  BY <1>1, BeginKeeps DEF save_call, delete_call, restore_calls
<1>2. CASE ConnectBarred \/ Connect \/ ConnectFails \/ Greeted \/ Login \/ NotGreeted
  BY <1>2, ConnectBarredKeeps, ConnectKeeps, ConnectFailsKeeps, GreetedKeeps, LoginKeeps,
     NotGreetedKeeps
<1>3. CASE Send \/ SendFails \/ RecvOther \/ RecvMine \/ RecvFails
  BY <1>3, SendPipelinedKeeps, SendRestoreKeeps, SendFailsKeeps, RecvOtherKeeps,
     RecvMineKeeps, RecvFailsKeeps
<1>4. CASE Execute \/ ExecuteLate \/ DeliverRest \/ Cut \/ ServerTurns \/ Tick
  BY <1>4, ExecuteKeeps, ExecuteLateKeeps, DeliverRestKeeps, CutKeeps, OutsideKeeps
<1>5. CASE UNCHANGED vars
  <2>1. UNCHANGED <<open, state, errors, wait, sync_id, op, peer, requests, replies, owed,
                    granted, late, store, listening, cuts, told, restored>>
    BY <1>5 DEF vars, connVars, wireVars
  <2>2. TypeOK' /\ Connected' /\ Numbered'
    BY <2>1 DEF Inv, TypeOK, Connected, Numbered, Named
  <2> QED
    BY <2>1, <2>2 DEF Inv, Awaited, Piped, RestoreSeesSaves
<1> QED
  BY <1>1, <1>2, <1>3, <1>4, <1>5 DEF Next, Client

\* The client, the wire and the store keep their types, and the error count
\* never passes allowed_errors: rtpe_tarantool_connect disables the client
\* when it gets there, and starts to count anew after disabled_until.
THEOREM DriverTypes == Spec => []TypeOK
<1>1. Inv => TypeOK
  BY DEF Inv
<1> QED
  BY <1>1, InitInv, NextInv, PTL DEF Spec

\* restore_calls returns the sessions that the same connection has saved and
\* not deleted, behind any number of pipelined requests and whatever the drain
\* has thrown away.
THEOREM RestoreIsCurrent == Spec => []RestoreSeesSaves
<1>1. Inv => RestoreSeesSaves
  BY DEF Inv
<1> QED
  BY <1>1, InitInv, NextInv, PTL DEF Spec

\* Every save_call and delete_call that answered 0 is done or on its way, in
\* the order of the calls, while the connection lives.
THEOREM PipelineIsKept == Spec => []PipelineKept
<1>1. Inv => PipelineKept
  <2> SUFFICES ASSUME Inv, peer, granted, NEW c \in Calls
               PROVE  LET final == FoldLeft(Applied, store, requests)
                      IN  /\ told[c] = "save" => c \in final
                          /\ told[c] = "delete" => c \notin final
    BY DEF PipelineKept
  <2>1. c \in FoldLeft(Applied, store, requests) <=> Ends(c, store, requests)
    BY FoldFinds DEF Inv, TypeOK, Numbered
  <2> QED
    BY <2>1 DEF Inv, Piped
<1> QED
  BY <1>1, InitInv, NextInv, PTL DEF Spec
=============================================================================
