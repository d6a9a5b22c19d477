----------------------------- MODULE Iteration -----------------------------
(***************************************************************************)
(* What Times of MsgPack computes, for the step Op of any loop.  The loops *)
(* of the decoders are instances of it.                                    *)
(***************************************************************************)
EXTENDS Integers, WellFoundedInduction, TLAPS

CONSTANT Op(_)

Repeated(st, n) ==
    LET after[i \in 0..n] == IF i = 0 THEN st ELSE Op(after[i - 1])
    IN  after[n]

\* A set of natural numbers has a least one.
LEMMA Least ==
    ASSUME NEW S \in SUBSET Nat, S # {}
    PROVE  \E m \in S : \A i \in S : ~ i < m
<1>1. \E m \in S : \A i \in S : <<i, m>> \notin OpToRel(<, Nat)
  BY NatLessThanWellFounded, WFMin
<1> QED
  BY <1>1 DEF OpToRel

\* The states g follow one another from st on, by the step of the loop.
Run(g, st, n) == g[0] = st /\ \A i \in 1..n : g[i] = Op(g[i - 1])

\* A loop of n rounds ends in the last of the states g that follow one another
\* by its step.
THEOREM Ends ==
    ASSUME NEW n \in Nat, NEW g, \A i \in 1..n : g[i] = Op(g[i - 1])
    PROVE  Repeated(g[0], n) = g[n]
<1> DEFINE T(f) == f = [i \in 0..n |-> IF i = 0 THEN g[0] ELSE Op(f[i - 1])]
           f == CHOOSE h : T(h)
<1>1. T([i \in 0..n |-> g[i]])
  <2> DEFINE h == [i \in 0..n |-> g[i]]
  <2>1. \A i \in 0..n : h[i] = IF i = 0 THEN g[0] ELSE Op(h[i - 1])
    OBVIOUS
  <2> QED
    BY <2>1
<1>2. T(f)
  BY <1>1
<1>3. f[0] = g[0] /\ \A i \in 1..n : f[i] = Op(f[i - 1])
  <2> HIDE DEF f
  <2>1. \A i \in 0..n : f[i] = IF i = 0 THEN g[0] ELSE Op(f[i - 1])
    BY <1>2
  <2> QED
    BY <2>1
<1> HIDE DEF f
<1> DEFINE B == {i \in 0..n : f[i] # g[i]}
<1>4. ASSUME B # {} PROVE FALSE
  <2>1. B \subseteq Nat
    OBVIOUS
  <2> HIDE DEF B
  <2>2. PICK m \in B : \A i \in B : ~ i < m
    BY <1>4, <2>1, Least
  <2> USE DEF B
  <2>3. m \in 0..n /\ f[m] # g[m]
    BY <2>2
  <2>4. m \in 1..n /\ m - 1 \in 0..n /\ m - 1 < m
    BY <2>3, <1>3
  <2>5. f[m - 1] = g[m - 1]
    BY <2>2, <2>4
  <2> QED
    BY <2>3, <2>4, <2>5, <1>3
<1>5. f[n] = g[n]
  BY <1>4
<1> QED
  BY <1>5 DEF Repeated, f

\* A loop of no rounds, and a loop whose step changes nothing, end where they
\* begin.
THEOREM Idles ==
    ASSUME NEW n \in Nat, NEW st, n = 0 \/ Op(st) = st
    PROVE  Repeated(st, n) = st
<1> DEFINE g == [i \in 0..n |-> st]
<1>1. g[0] = st /\ g[n] = st /\ \A i \in 1..n : g[i] = Op(g[i - 1])
  OBVIOUS
<1>2. Repeated(g[0], n) = g[n]
  <2> HIDE DEF g
  <2> QED
    BY <1>1, Ends
<1> QED
  BY <1>1, <1>2

\* Every state has states that follow it, as many as the loop has rounds.
LEMMA Runs ==
    ASSUME NEW n \in Nat, NEW st
    PROVE  \E g : Run(g, st, n)
<1> DEFINE R(m) == \E g : Run(g, st, m)
           B == {m \in Nat : ~ R(m)}
<1>1. R(0)
  <2> DEFINE g == [i \in {0} |-> st]
  <2>1. g[0] = st /\ \A i \in 1..0 : g[i] = Op(g[i - 1])
    OBVIOUS
  <2> QED
    BY <2>1 DEF Run
<1>2. ASSUME NEW m \in Nat, R(m) PROVE R(m + 1)
  <2>1. PICK g : Run(g, st, m)
    BY <1>2
  <2> DEFINE h == [i \in 0..(m + 1) |-> IF i = m + 1 THEN Op(g[m]) ELSE g[i]]
  <2>2. h[0] = st
    BY <2>1 DEF Run
  <2>3. ASSUME NEW i \in 1..(m + 1) PROVE h[i] = Op(h[i - 1])
    BY <2>1 DEF Run
  <2>4. Run(h, st, m + 1)
    BY <2>2, <2>3 DEF Run
  <2> QED
    BY <2>4
<1> HIDE DEF R
<1>3. ASSUME B # {} PROVE FALSE
  <2>1. B \subseteq Nat
    OBVIOUS
  <2>2. PICK m \in B : \A i \in B : ~ i < m
    BY <1>3, <2>1, Least
  <2>3. m \in Nat /\ ~ R(m) /\ m # 0
    BY <2>2, <1>1
  <2>4. m - 1 \in Nat /\ m - 1 < m /\ (m - 1) + 1 = m
    BY <2>3
  <2>5. R(m - 1)
    BY <2>2, <2>4
  <2> QED
    BY <1>2, <2>3, <2>4, <2>5
<1>4. R(n)
  BY <1>3
<1> QED
  BY <1>4 DEF R

\* The first round of a loop comes before the others.
THEOREM FirstRound ==
    ASSUME NEW n \in Nat, NEW st
    PROVE  Repeated(st, n + 1) = Repeated(Op(st), n)
<1>1. n + 1 \in Nat
  OBVIOUS
<1>2. PICK g : Run(g, st, n + 1)
  BY <1>1, Runs
<1>3. Repeated(g[0], n + 1) = g[n + 1]
  BY <1>1, <1>2, Ends DEF Run
<1> DEFINE h == [i \in 0..n |-> g[i + 1]]
<1>4. h[0] = Op(st) /\ h[n] = g[n + 1] /\ \A i \in 1..n : h[i] = Op(h[i - 1])
  <2>1. 1 \in 1..(n + 1) /\ 1 - 1 = 0 /\ 0 \in 0..n /\ n \in 0..n /\ 0 + 1 = 1
    OBVIOUS
  <2>2. g[1] = Op(g[0])
    BY <2>1, <1>2 DEF Run
  <2>3. ASSUME NEW i \in 1..n PROVE h[i] = Op(h[i - 1])
    <3>1. i + 1 \in 1..(n + 1) /\ (i + 1) - 1 = i /\ i - 1 \in 0..n /\ (i - 1) + 1 = i /\ i \in 0..n
      OBVIOUS
    <3>2. g[i + 1] = Op(g[(i + 1) - 1])
      BY <3>1, <1>2 DEF Run
    <3> QED
      BY <3>1, <3>2
  <2> QED
    BY <1>2, <2>1, <2>2, <2>3 DEF Run
<1>5. Repeated(h[0], n) = h[n]
  <2> HIDE DEF h
  <2> QED
    BY <1>4, Ends
<1> QED
  BY <1>2, <1>3, <1>4, <1>5 DEF Run

\* The loops over one pair, three pairs and five pairs.
THEOREM FewRounds ==
    ASSUME NEW st
    PROVE  /\ Repeated(st, 1) = Op(st)
           /\ Repeated(st, 3) = Op(Op(Op(st)))
           /\ Repeated(st, 5) = Op(Op(Op(Op(Op(st)))))
<1>1. \A x : Repeated(x, 0) = x
  BY Idles
<1>2. \A n \in Nat : \A x : Repeated(x, n + 1) = Repeated(Op(x), n)
  BY FirstRound
<1>3. 0 + 1 = 1 /\ 1 + 1 = 2 /\ 2 + 1 = 3 /\ 3 + 1 = 4 /\ 4 + 1 = 5
  OBVIOUS
<1>4. \A x : Repeated(x, 1) = Op(x)
  BY <1>1, <1>2, <1>3
<1>5. \A x : Repeated(x, 2) = Op(Op(x))
  BY <1>4, <1>2, <1>3
<1>6. \A x : Repeated(x, 3) = Op(Op(Op(x)))
  BY <1>5, <1>2, <1>3
<1>7. \A x : Repeated(x, 4) = Op(Op(Op(Op(x))))
  BY <1>6, <1>2, <1>3
<1>8. \A x : Repeated(x, 5) = Op(Op(Op(Op(Op(x)))))
  BY <1>7, <1>2, <1>3
<1> QED
  BY <1>4, <1>6, <1>8

\* A loop whose rounds each add to a set, while it moves through a buffer: what
\* follows its i-th element is rest[i].
Added(K, n) == UNION {K[i] : i \in 1..n}
Adds(n, rest, K) ==
    \A i \in 1..n : \A X : Op([calls |-> X, rest |-> rest[i - 1]])
                             = [calls |-> X \cup K[i], rest |-> rest[i]]

\* Such a loop ends with everything that its rounds added.
THEOREM Gathers ==
    ASSUME NEW n \in Nat, NEW rest, NEW K, NEW C, Adds(n, rest, K)
    PROVE  Repeated([calls |-> C, rest |-> rest[0]], n)
             = [calls |-> C \cup Added(K, n), rest |-> rest[n]]
<1> DEFINE X(i) == C \cup UNION {K[j] : j \in 1..i}
           g == [i \in 0..n |-> [calls |-> X(i), rest |-> rest[i]]]
<1>1. X(0) = C
  OBVIOUS
<1>2. ASSUME NEW i \in 1..n
      PROVE  X(i) = X(i - 1) \cup K[i]
  <2>1. 1..i = 1..(i - 1) \cup {i}
    OBVIOUS
  <2> QED
    BY <2>1, Zenon
<1>3. ASSUME NEW i \in 1..n
      PROVE  g[i] = Op(g[i - 1])
  <2>1. i \in 0..n /\ i - 1 \in 0..n
    OBVIOUS
  <2>2. Op([calls |-> X(i - 1), rest |-> rest[i - 1]]) = [calls |-> X(i - 1) \cup K[i], rest |-> rest[i]]
    BY Zenon DEF Adds
  <2> QED
    BY <1>2, <2>1, <2>2, Zenon
<1>4. 0 \in 0..n /\ n \in 0..n
  OBVIOUS
<1>5. g[0] = [calls |-> C, rest |-> rest[0]] /\ g[n] = [calls |-> X(n), rest |-> rest[n]]
  BY <1>1, <1>4, Zenon
<1> HIDE DEF g, X
<1>6. Repeated(g[0], n) = g[n]
  BY <1>3, Ends
<1> QED
  BY <1>5, <1>6 DEF X, Added

\* A loop whose rounds each fill in the fields of one name, from the record full.
Filled(F, of, names, full, I) == [f \in F |-> IF of[f] \in names THEN full[f] ELSE I[f]]
FillsIn(n, rest, F, of, name, full, I) ==
    \A i \in 1..n : \A X : X = [f \in F |-> X[f]] /\ (\A f \in F : X[f] \in {I[f], full[f]}) =>
        Op([info |-> X, rest |-> rest[i - 1]])
          = [info |-> Filled(F, of, {name[i]}, full, X), rest |-> rest[i]]

\* Such a loop ends with the fields of all its names filled in.
THEOREM Fills ==
    ASSUME NEW n \in Nat, NEW rest, NEW F, NEW of, NEW name, NEW full, NEW I,
           I = [f \in F |-> I[f]],
           NEW names, names = {name[i] : i \in 1..n}, FillsIn(n, rest, F, of, name, full, I)
    PROVE  Repeated([info |-> I, rest |-> rest[0]], n)
             = [info |-> Filled(F, of, names, full, I), rest |-> rest[n]]
<1> DEFINE X(i) == Filled(F, of, {name[j] : j \in 1..i}, full, I)
           g == [i \in 0..n |-> [info |-> X(i), rest |-> rest[i]]]
<1>1. X(0) = I
  <2>1. {name[j] : j \in 1..0} = {}
    OBVIOUS
  <2>2. X(0) = [f \in F |-> I[f]]
    BY <2>1, Zenon DEF Filled
  <2> QED
    BY <2>2
<1>2. ASSUME NEW i \in 1..n
      PROVE  X(i) = Filled(F, of, {name[i]}, full, X(i - 1))
  <2>1. 1..i = 1..(i - 1) \cup {i}
    OBVIOUS
  <2>2. {name[j] : j \in 1..i} = {name[j] : j \in 1..(i - 1)} \cup {name[i]}
    BY <2>1, Zenon
  <2> QED
    BY <2>2 DEF Filled
<1>3. ASSUME NEW i \in 1..n
      PROVE  g[i] = Op(g[i - 1])
  <2>1. i \in 0..n /\ i - 1 \in 0..n
    OBVIOUS
  <2> DEFINE Y == X(i - 1)
  <2>2. Y = [f \in F |-> Y[f]] /\ \A f \in F : Y[f] \in {I[f], full[f]}
    BY DEF Filled
  <2>3. X(i) = Filled(F, of, {name[i]}, full, Y)
    BY <1>2
  <2> HIDE DEF Y
  <2>4. Op([info |-> Y, rest |-> rest[i - 1]])
          = [info |-> Filled(F, of, {name[i]}, full, Y), rest |-> rest[i]]
    BY <2>2, Zenon DEF FillsIn
  <2>5. g[i - 1] = [info |-> Y, rest |-> rest[i - 1]] /\ g[i] = [info |-> X(i), rest |-> rest[i]]
    BY <2>1, Zenon DEF Y
  <2> QED
    BY <2>3, <2>4, <2>5, Zenon
<1>4. 0 \in 0..n /\ n \in 0..n
  OBVIOUS
<1>5. g[0] = [info |-> I, rest |-> rest[0]] /\ g[n] = [info |-> X(n), rest |-> rest[n]]
  BY <1>1, <1>4, Zenon
<1> HIDE DEF g, X
<1>6. Repeated(g[0], n) = g[n]
  BY <1>3, Ends
<1> QED
  BY <1>5, <1>6 DEF X
=============================================================================
