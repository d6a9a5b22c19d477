--------------------------- MODULE AsteriskProofs ---------------------------
(***************************************************************************)
(* Theorems about AsteriskPool, for every number of threads, sockets and   *)
(* requests and every mix of callers.                                      *)
(***************************************************************************)
EXTENDS AsteriskPool, SequenceTheorems, TLAPS

\* Where a thread is inside acquire_conn.
Acquiring == {"profiles_lock", "prof_lock", "probe", "connect", "fallback",
              "fallback_connect"}

\* How many sockets a thread holds where: only a realtime read holds one
\* while it acquires another.  h, p, q and n are the thread's held, pc, probe
\* and left.
Nested(t, h, p, q, n) ==
    /\ p \in {"idle", "cdr_lock", "return", "done"} => Len(h) = 0
    /\ p \in Acquiring => Len(h) <= 1
    /\ p \in Acquiring /\ Len(h) = 1 => Program[t] = "realtime"
    /\ p = "args" => Len(h) = 1 /\ Program[t] = "realtime"
    /\ p \in {"send", "recv", "release"} => Len(h) \in 1..2
    /\ p = "connect" => q \in Sockets
    /\ p = "idle" => n > 0
Nesting == \A t \in Threads : Nested(t, held[t], pc[t], probe[t], left[t])

\* How often a thread with these variables has locked socket s.
Times(h, p, q, s) ==
    (IF Len(h) >= 1 /\ h[1] = s THEN 1 ELSE 0)
      + (IF Len(h) >= 2 /\ h[2] = s THEN 1 ELSE 0)
      + (IF p = "connect" /\ q = s THEN 1 ELSE 0)
      + (IF p = "fallback_connect" /\ s = 1 THEN 1 ELSE 0)

\* The recursive mutex of a socket counts the locks of its owner, and nobody
\* else has it locked.
Owned ==
    \A s \in Sockets :
        /\ sock_lock[s].owner = None => sock_lock[s].depth = 0
        /\ \A t \in Threads :
              /\ Times(held[t], pc[t], probe[t], s) > 0 => sock_lock[s].owner = t
              /\ sock_lock[s].owner = t =>
                    sock_lock[s].depth = Times(held[t], pc[t], probe[t], s)

\* What may be unread on a connection.  Outside exec_raw it is nothing, or
\* the packet for which there was no memory; while a reply is awaited, the
\* reply, alone or behind such a packet, which is never read as a length.
Quiet(w) == Len(w) = 0 \/ (Len(w) = 1 /\ w[1].part = "body")
Answer(w) == w = Reply \/ (Len(w) = 3 /\ w[1].part = "body")
Unread ==
    /\ \A s \in Sockets :
          \/ Quiet(wire[s])
          \/ \E t \in Threads : pc[t] = "recv" /\ Sock(t) = s
    /\ \A t \in Threads : pc[t] = "recv" => Answer(wire[Sock(t)])
    /\ RepliesMatch

\* The inductive invariant.
Inv == TypeOK /\ Nesting /\ Owned /\ Unread
-----------------------------------------------------------------------------
(***************************************************************************)
(* Sequences of at most two sockets, and of reply parts                    *)
(***************************************************************************)

\* acquire_conn puts the new socket in front.
LEMMA Push ==
    ASSUME NEW h \in Seq(Sockets), NEW s \in Sockets
    PROVE  /\ <<s>> \o h \in Seq(Sockets)
           /\ Len(<<s>> \o h) = Len(h) + 1
           /\ (<<s>> \o h)[1] = s
           /\ Len(h) >= 1 => (<<s>> \o h)[2] = h[1]
<1>1. <<s>> \in Seq(Sockets) /\ Len(<<s>>) = 1 /\ Len(h) \in Nat
  OBVIOUS
<1>2. /\ <<s>> \o h \in Seq(Sockets)
      /\ Len(<<s>> \o h) = 1 + Len(h)
      /\ \A i \in 1..1 + Len(h) :
            (<<s>> \o h)[i] = IF i <= 1 THEN <<s>>[i] ELSE h[i - 1]
  BY <1>1, ConcatProperties
<1> HIDE DEF Sockets
<1>3. (<<s>> \o h)[1] = s
  BY <1>1, <1>2
<1>4. ASSUME Len(h) >= 1 PROVE (<<s>> \o h)[2] = h[1]
  <2>1. 2 \in 1..1 + Len(h) /\ 2 - 1 = 1
    BY <1>1, <1>4
  <2> QED
    BY <1>2, <2>1
<1> QED
  BY <1>1, <1>2, <1>3, <1>4

\* release_conn takes the innermost socket away.
LEMMA Pop ==
    ASSUME NEW h \in Seq(Sockets), Len(h) >= 1
    PROVE  /\ Head(h) = h[1] /\ h[1] \in Sockets
           /\ Tail(h) \in Seq(Sockets)
           /\ Len(Tail(h)) = Len(h) - 1
           /\ Len(h) >= 2 => Tail(h)[1] = h[2]
           /\ Tail(h) = <<>> <=> Len(h) = 1
<1>1. h # <<>> /\ Len(h) \in Nat
  BY EmptySeq
<1>2. /\ Tail(h) \in Seq(Sockets)
      /\ Len(Tail(h)) = Len(h) - 1
      /\ \A i \in 1..Len(Tail(h)) : Tail(h)[i] = h[i + 1]
  BY <1>1, HeadTailProperties
<1>3. ASSUME Len(h) >= 2 PROVE Tail(h)[1] = h[2]
  <2>1. 1 \in 1..Len(Tail(h)) /\ 1 + 1 = 2
    BY <1>1, <1>2, <1>3
  <2> QED
    BY <1>2, <2>1
<1>4. Tail(h) = <<>> <=> Len(h) = 1
  BY <1>1, <1>2, EmptySeq
<1>5. Head(h) = h[1]
  BY <1>1
<1>6. h[1] \in Sockets
  BY <1>1, ElementOfSeq
<1> QED
  BY <1>2, <1>3, <1>4, <1>5, <1>6

\* A new request's reply comes behind what is unread.
LEMMA SendParts ==
    ASSUME NEW w \in Seq(Parts), Quiet(w)
    PROVE  Stale(w) \o Reply \in Seq(Parts) /\ Answer(Stale(w) \o Reply)
<1>1. /\ Len(w) \in Nat /\ DOMAIN w = 1..Len(w)
      /\ \A i \in 1..Len(w) : w[i] \in Parts
  BY LenProperties, ElementOfSeq
<1>2. Stale(w) = [i \in 1..Len(w) |-> [w[i] EXCEPT !.own = FALSE]]
  BY <1>1 DEF Stale
<1>3. \A i \in 1..Len(w) : /\ [w[i] EXCEPT !.own = FALSE] \in Parts
                           /\ [w[i] EXCEPT !.own = FALSE].part = w[i].part
  BY <1>1 DEF Parts
<1> DEFINE v == Stale(w)
<1>4. v \in Seq(Parts) /\ Len(v) = Len(w) /\ (Len(w) = 1 => v[1].part = w[1].part)
  <2>1. v \in [1..Len(w) -> Parts]
    BY <1>2, <1>3
  <2>2. v \in Seq(Parts)
    BY <1>1, <2>1, SeqDef
  <2>3. Len(v) \in Nat /\ 1..Len(v) = 1..Len(w)
    <3> HIDE DEF v
    <3> QED
      BY <2>1, <2>2, LenProperties
  <2>4. Len(v) = Len(w)
    BY <1>1, <2>3
  <2>5. \A i \in 1..Len(w) : v[i].part = w[i].part
    BY <1>2, <1>3
  <2> HIDE DEF v
  <2>6. Len(w) = 1 => v[1].part = w[1].part
    BY <2>5
  <2> QED
    BY <2>2, <2>4, <2>6
<1>5. Reply \in Seq(Parts) /\ Len(Reply) = 2
  BY DEF Reply, Parts
<1> HIDE DEF v
<1>6. /\ v \o Reply \in Seq(Parts)
      /\ Len(v \o Reply) = Len(v) + 2
      /\ \A i \in 1..Len(v) + 2 :
            (v \o Reply)[i] = IF i <= Len(v) THEN v[i] ELSE Reply[i - Len(v)]
  <2>1. v \in Seq(Parts) /\ Reply \in Seq(Parts)
    BY <1>4, <1>5
  <2>2. /\ v \o Reply \in Seq(Parts)
        /\ Len(v \o Reply) = Len(v) + Len(Reply)
        /\ \A i \in 1..Len(v) + Len(Reply) :
              (v \o Reply)[i] = IF i <= Len(v) THEN v[i] ELSE Reply[i - Len(v)]
    BY <2>1, ConcatProperties
  <2> QED
    BY <1>5, <2>2
<1>7. CASE Len(w) = 0
  <2>1. v = <<>>
    BY <1>4, <1>7
  <2>2. v \o Reply = Reply
    BY <2>1, <1>5, ConcatEmptySeq
  <2> QED
    BY <1>6, <2>2 DEF Answer, v
<1>8. CASE Len(w) = 1 /\ w[1].part = "body"
  <2>1. (v \o Reply)[1] = v[1]
    BY <1>4, <1>6, <1>8
  <2> QED
    BY <1>4, <1>6, <1>8, <2>1 DEF Answer, v
<1> QED
  BY <1>7, <1>8 DEF Quiet

\* A reply that begins with a length is the one that is awaited; without
\* memory for its packet the packet stays.
LEMMA ReadParts ==
    ASSUME NEW w \in Seq(Parts), Answer(w), w[1].part = "head"
    PROVE  /\ w = Reply /\ w[2].own
           /\ SubSeq(w, 3, Len(w)) = <<>>
           /\ Tail(w) \in Seq(Parts) /\ Quiet(Tail(w))
<1>1. w = Reply
  BY DEF Answer
<1>2. Len(w) = 2 /\ w[2].own /\ w[2].part = "body" /\ w # <<>>
  BY <1>1 DEF Reply
<1>3. SubSeq(w, 3, Len(w)) = <<>>
  BY <1>2, SubSeqEmpty
<1>4. /\ Tail(w) \in Seq(Parts) /\ Len(Tail(w)) = 1
      /\ \A i \in 1..Len(Tail(w)) : Tail(w)[i] = w[i + 1]
  BY <1>2, HeadTailProperties
<1>5. Tail(w)[1] = w[2]
  <2>1. 1 \in 1..Len(Tail(w)) /\ 1 + 1 = 2
    BY <1>4
  <2> QED
    BY <1>4, <2>1
<1> QED
  BY <1>1, <1>2, <1>3, <1>4, <1>5 DEF Quiet
-----------------------------------------------------------------------------
(***************************************************************************)
(* What a thread's step does to the locks and to the connections           *)
(***************************************************************************)

\* A step of thread t leaves the variables of the others alone.
OthersKept(t) ==
    \A u \in Threads \ {t} :
        /\ pc'[u] = pc[u] /\ probe'[u] = probe[u] /\ held'[u] = held[u]
        /\ left'[u] = left[u] /\ got'[u] = got[u]

\* It locks nothing, locks a socket that is free for t, or unlocks one of
\* its own; and t's variables record it.
Locks(t, s, n) ==
    \A x \in Sockets : Times(held'[t], pc'[t], probe'[t], x)
                         = Times(held[t], pc[t], probe[t], x) + (IF x = s THEN n ELSE 0)
LockStep(t) ==
    \/ sock_lock' = sock_lock /\ Locks(t, None, 0)
    \/ \E s \in Sockets : Free(t, s) /\ sock_lock' = Lock(t, s) /\ Locks(t, s, 1)
    \/ \E s \in Sockets : /\ Times(held[t], pc[t], probe[t], s) > 0
                          /\ sock_lock' = Unlock(s) /\ Locks(t, s, -1)

\* It leaves all connections alone, and is not waiting for a reply; or it
\* leaves one that t has locked quiet or waiting for t's reply.
WireStep(t) ==
    /\ got'[t] # "stale"
    /\ \/ wire' = wire /\ pc[t] # "recv" /\ pc'[t] # "recv"
       \/ \E x \in Sockets :
             /\ Times(held[t], pc[t], probe[t], x) > 0
             /\ \A s \in Sockets \ {x} : wire'[s] = wire[s]
             /\ pc[t] = "recv" => Head(held[t]) = x
             /\ \/ pc'[t] # "recv" /\ Quiet(wire'[x])
                \/ pc'[t] = "recv" /\ Head(held'[t]) = x /\ Answer(wire'[x])

\* Such a step leaves the recursive mutexes counting their owners' locks.
LEMMA OwnedKept ==
    ASSUME TypeOK, Owned, TypeOK', NEW t \in Threads, OthersKept(t), LockStep(t)
    PROVE  Owned'
<1>0. None \notin Threads /\ PoolSize \in Nat \ {0}
  BY PoolAssumption
<1>1. \A u \in Threads : \A s \in Sockets :
         /\ Times(held[u], pc[u], probe[u], s) \in Nat
         /\ Times(held'[u], pc'[u], probe'[u], s) \in Nat
  BY DEF Times
<1>2. \A u \in Threads \ {t} : \A s \in Sockets :
         Times(held'[u], pc'[u], probe'[u], s) = Times(held[u], pc[u], probe[u], s)
  BY DEF OthersKept
<1> DEFINE Counts(x) ==
             /\ sock_lock'[x].owner = None => sock_lock'[x].depth = 0
             /\ \A u \in Threads :
                   /\ Times(held'[u], pc'[u], probe'[u], x) > 0
                         => sock_lock'[x].owner = u
                   /\ sock_lock'[x].owner = u =>
                         sock_lock'[x].depth = Times(held'[u], pc'[u], probe'[u], x)
<1>3. SUFFICES ASSUME NEW x \in Sockets PROVE Counts(x)
  BY DEF Owned, Times
<1> DEFINE old(u) == Times(held[u], pc[u], probe[u], x)
           new(u) == Times(held'[u], pc'[u], probe'[u], x)
           l == sock_lock[x]
           m == sock_lock'[x]
<1>4. /\ l.owner \in Threads \cup {None} /\ l.depth \in Nat
      /\ m.owner \in Threads \cup {None} /\ m.depth \in Nat
      /\ l = [owner |-> l.owner, depth |-> l.depth]
  BY DEF TypeOK, Owners
<1>5. /\ l.owner = None => l.depth = 0
      /\ \A u \in Threads : /\ old(u) > 0 => l.owner = u
                            /\ l.owner = u => l.depth = old(u)
  BY DEF Owned
<1>6. \A u \in Threads : old(u) \in Nat /\ new(u) \in Nat
  BY <1>1
<1>7. \A u \in Threads \ {t} : new(u) = old(u)
  BY <1>2
<1>8. /\ \A s \in Sockets : Lock(t, s)[x] =
            IF s = x THEN [owner |-> t, depth |-> l.depth + 1] ELSE l
      /\ \A s \in Sockets : Unlock(s)[x] = IF s = x THEN Unlocked(l) ELSE l
  BY DEF Lock, Unlock, TypeOK
<1>9. CASE m = l /\ new(t) = old(t)
  <2> HIDE DEF old, new, l, m
  <2>1. \A u \in Threads : new(u) = old(u)
    BY <1>7, <1>9
  <2> QED
    BY <1>4, <1>5, <1>9, <2>1 DEF old, new, l, m
<1>10. CASE sock_lock' = sock_lock /\ Locks(t, None, 0)
  <2>1. new(t) = old(t)
    <3>1. new(t) = old(t) + (IF x = None THEN 0 ELSE 0)
      BY <1>10 DEF Locks
    <3> HIDE DEF old, new
    <3> QED
      BY <3>1, <1>6
  <2> QED
    BY <1>9, <1>10, <2>1
<1>11. ASSUME NEW s \in Sockets, Free(t, s), sock_lock' = Lock(t, s), Locks(t, s, 1)
       PROVE  Counts(x)
  <2>1. new(t) = old(t) + (IF x = s THEN 1 ELSE 0)
    BY <1>11 DEF Locks
  <2>2. CASE x # s
    <3>1. m = l
      BY <1>8, <1>11, <2>2
    <3>2. new(t) = old(t)
      <4> HIDE DEF old, new
      <4> QED BY <2>1, <2>2, <1>6
    <3> QED
      BY <3>1, <3>2, <1>9
  <2>3. CASE x = s
    <3>1. m.owner = t /\ m.depth = l.depth + 1
      BY <1>8, <1>11, <2>3
    <3>2. l.owner \in {None, t}
      BY <1>11, <2>3 DEF Free
    <3> HIDE DEF old, new, l, m
    <3>3. l.depth = old(t)
      BY <3>2, <1>0, <1>4, <1>5, <1>6
    <3>4. \A u \in Threads \ {t} : new(u) = 0
      BY <3>2, <1>0, <1>5, <1>6, <1>7
    <3> QED
      BY <3>1, <3>3, <3>4, <2>1, <2>3, <1>0, <1>6 DEF old, new, l, m
  <2> QED
    BY <2>2, <2>3
<1>12. ASSUME NEW s \in Sockets, Times(held[t], pc[t], probe[t], s) > 0,
              sock_lock' = Unlock(s), Locks(t, s, -1)
       PROVE  Counts(x)
  <2>1. new(t) = old(t) + (IF x = s THEN -1 ELSE 0)
    BY <1>12 DEF Locks
  <2>2. CASE x # s
    <3>1. m = l
      BY <1>8, <1>12, <2>2
    <3>2. new(t) = old(t)
      <4> HIDE DEF old, new
      <4> QED BY <2>1, <2>2, <1>6
    <3> QED
      BY <3>1, <3>2, <1>9
  <2>3. CASE x = s
    <3>1. m = Unlocked(l) /\ old(t) > 0
      BY <1>8, <1>12, <2>3
    <3>2. /\ l.depth > 1 => m.owner = l.owner /\ m.depth = l.depth - 1
          /\ ~ l.depth > 1 => m.owner = None /\ m.depth = 0
      BY <3>1, <1>4 DEF Unlocked
    <3> HIDE DEF old, new, l, m
    <3>3. l.owner = t /\ l.depth = old(t)
      BY <3>1, <1>5
    <3>4. \A u \in Threads \ {t} : new(u) = 0
      BY <3>3, <1>5, <1>6, <1>7
    <3>5. new(t) = old(t) - 1
      BY <2>1, <2>3, <1>6
    <3> QED
      BY <3>1, <3>2, <3>3, <3>4, <3>5, <1>0, <1>4, <1>6 DEF old, new, l, m
  <2> QED
    BY <2>2, <2>3
<1> QED
  BY <1>10, <1>11, <1>12 DEF LockStep

\* And what is unread is nothing, an abandoned packet, or an awaited reply.
LEMMA UnreadKept ==
    ASSUME Inv, TypeOK', NEW t \in Threads, OthersKept(t), WireStep(t)
    PROVE  Unread'
<1>1. \A u \in Threads : pc[u] = "recv" =>
         /\ Head(held[u]) \in Sockets
         /\ Times(held[u], pc[u], probe[u], Head(held[u])) > 0
  <2> TAKE u \in Threads
  <2> HAVE pc[u] = "recv"
  <2>1. held[u] \in Seq(Sockets) /\ Len(held[u]) \in 1..2
    <3>1. held[u] \in Seq(Sockets)
      BY DEF Inv, TypeOK
    <3>2. Len(held[u]) \in 1..2
      BY DEF Inv, Nesting, Nested
    <3> QED
      BY <3>1, <3>2
  <2>2. Head(held[u]) = held[u][1] /\ Head(held[u]) \in Sockets
    BY <2>1, Pop
  <2> QED
    BY <2>1, <2>2 DEF Times
<1>2. \A x \in Sockets : \A u \in Threads \ {t} :
         Times(held[t], pc[t], probe[t], x) > 0
            => ~ Times(held[u], pc[u], probe[u], x) > 0
  BY DEF Inv, Owned
<1>3. \A u \in Threads : got'[u] # "stale"
  BY DEF Inv, Unread, RepliesMatch, OthersKept, WireStep
<1>4. /\ \A s \in Sockets :
            \/ Quiet(wire[s])
            \/ \E u \in Threads : pc[u] = "recv" /\ Head(held[u]) = s
      /\ \A u \in Threads : pc[u] = "recv" => Answer(wire[Head(held[u])])
  BY DEF Inv, Unread, Sock
<1>5. \A u \in Threads \ {t} : pc'[u] = pc[u] /\ held'[u] = held[u]
  BY DEF OthersKept
<1> DEFINE Served ==
        /\ \A s \in Sockets :
              \/ Quiet(wire'[s])
              \/ \E u \in Threads : pc'[u] = "recv" /\ Head(held'[u]) = s
        /\ \A u \in Threads : pc'[u] = "recv" => Answer(wire'[Head(held'[u])])
<1>6. SUFFICES Served
  BY <1>3 DEF Unread, RepliesMatch, Sock, Quiet, Answer
<1>7. CASE wire' = wire /\ pc[t] # "recv" /\ pc'[t] # "recv"
  BY <1>4, <1>5, <1>7
<1>8. ASSUME NEW x \in Sockets,
             Times(held[t], pc[t], probe[t], x) > 0,
             \A s \in Sockets \ {x} : wire'[s] = wire[s],
             pc[t] = "recv" => Head(held[t]) = x,
             \/ pc'[t] # "recv" /\ Quiet(wire'[x])
             \/ pc'[t] = "recv" /\ Head(held'[t]) = x /\ Answer(wire'[x])
      PROVE  Served
  <2>1. \A u \in Threads \ {t} : pc[u] = "recv" => Head(held[u]) # x
    BY <1>1, <1>2, <1>8
  <2>2. ASSUME NEW s \in Sockets
        PROVE  \/ Quiet(wire'[s])
               \/ \E u \in Threads : pc'[u] = "recv" /\ Head(held'[u]) = s
    <3>1. CASE s = x
      BY <1>8, <3>1
    <3>2. CASE s # x
      BY <1>4, <1>5, <1>8, <3>2
    <3> QED
      BY <3>1, <3>2
  <2>3. ASSUME NEW u \in Threads, pc'[u] = "recv" PROVE Answer(wire'[Head(held'[u])])
    <3>1. CASE u = t
      BY <1>8, <2>3, <3>1
    <3>2. CASE u # t
      BY <1>1, <1>4, <1>5, <1>8, <2>1, <2>3, <3>2
    <3> QED
      BY <3>1, <3>2
  <2> QED
    BY <2>2, <2>3
<1> QED
  BY <1>7, <1>8 DEF WireStep

\* Together: a step that keeps the types and the nesting keeps the invariant.
LEMMA StepKeeps ==
    ASSUME Inv, TypeOK', NEW t \in Threads, OthersKept(t),
           Nested(t, held'[t], pc'[t], probe'[t], left'[t]),
           LockStep(t), WireStep(t)
    PROVE  Inv'
<1>1. Owned' /\ Unread'
  BY OwnedKept, UnreadKept DEF Inv
<1>2. Nesting'
  <2>1. ASSUME NEW u \in Threads
        PROVE  Nested(u, held'[u], pc'[u], probe'[u], left'[u])
    <3>1. CASE u = t
      BY <3>1
    <3>2. CASE u # t
      BY <3>2 DEF OthersKept, Inv, Nesting
    <3> QED
      BY <3>1, <3>2
  <2> QED
    BY <2>1 DEF Nesting, Nested
<1> QED
  BY <1>1, <1>2 DEF Inv

\* The locks counted do not depend on where a thread is, except while it
\* connects; acquire_conn's return only moves the count to the held sockets.
LEMMA TimesPushed ==
    ASSUME NEW h, NEW g, NEW s, NEW x, NEW q, NEW p, NEW r,
           Len(h) = 0 \/ Len(h) = 1,
           Len(g) = Len(h) + 1, g[1] = s, Len(h) >= 1 => g[2] = h[1],
           p \notin {"connect", "fallback_connect"},
           r \notin {"connect", "fallback_connect"}
    PROVE  /\ Times(g, r, q, x) = Times(h, p, q, x) + (IF x = s THEN 1 ELSE 0)
           /\ Times(h, "connect", s, x) = Times(h, p, s, x) + (IF x = s THEN 1 ELSE 0)
           /\ Times(h, "fallback_connect", q, x)
                = Times(h, p, q, x) + (IF x = 1 THEN 1 ELSE 0)
           /\ Times(h, p, q, x) \in Nat
BY DEF Times

\* release_conn gives one lock of its socket back.
LEMMA TimesPopped ==
    ASSUME NEW h, NEW g, NEW x, NEW q, NEW p, NEW r,
           Len(h) = 1 \/ Len(h) = 2,
           Len(g) = Len(h) - 1, Len(h) >= 2 => g[1] = h[2],
           p \notin {"connect", "fallback_connect"},
           r \notin {"connect", "fallback_connect"}
    PROVE  /\ Times(g, r, q, x) = Times(h, p, q, x) + (IF x = h[1] THEN -1 ELSE 0)
           /\ Times(h, p, q, h[1]) > 0
           /\ Times(h, p, q, x) \in Nat
BY DEF Times
-----------------------------------------------------------------------------
(***************************************************************************)
(* The steps                                                               *)
(***************************************************************************)

\* What the invariant says of one thread.
LEMMA OfThread ==
    ASSUME Inv, NEW t \in Threads
    PROVE  /\ held[t] \in Seq(Sockets) /\ Len(held[t]) \in Nat
           /\ held[t] = <<>> <=> Len(held[t]) = 0
           /\ pc[t] \in PCs /\ probe[t] \in 1..PoolSize + 1 /\ left[t] \in Nat
           /\ got[t] \in {"none", "own"}
           /\ Nested(t, held[t], pc[t], probe[t], left[t])
<1>1. held[t] \in Seq(Sockets)
  BY DEF Inv, TypeOK
<1>2. Len(held[t]) \in Nat /\ (held[t] = <<>> <=> Len(held[t]) = 0)
  BY <1>1, EmptySeq
<1>3. pc[t] \in PCs /\ probe[t] \in 1..PoolSize + 1 /\ left[t] \in Nat
  BY DEF Inv, TypeOK
<1>4. got[t] \in {"none", "own"}
  BY DEF Inv, TypeOK, Unread, RepliesMatch
<1>5. Nested(t, held[t], pc[t], probe[t], left[t])
  BY DEF Inv, Nesting
<1> QED
  BY <1>1, <1>2, <1>3, <1>4, <1>5

\* Steps that touch no socket, no connection and no list of held sockets.
LEMMA StillStep ==
    ASSUME Inv, TypeOK', NEW t \in Threads, OthersKept(t),
           UNCHANGED <<sock_lock, wire, held>>, got'[t] # "stale",
           pc[t] \notin {"recv", "connect", "fallback_connect"},
           pc'[t] \notin {"recv", "connect", "fallback_connect"},
           Nested(t, held'[t], pc'[t], probe'[t], left'[t])
    PROVE  Inv'
<1>1. ASSUME NEW x \in Sockets
      PROVE  Times(held'[t], pc'[t], probe'[t], x)
               = Times(held[t], pc[t], probe[t], x) + 0
  BY DEF Times
<1>2. LockStep(t)
  BY <1>1 DEF LockStep, Locks
<1>3. WireStep(t)
  BY DEF WireStep
<1> QED
  BY <1>2, <1>3, StepKeeps

\* acquire_conn's return: the socket is held, and the caller goes on to its
\* request, or realtime_tarantool to its arguments.
LEMMA Returns ==
    ASSUME Inv, NEW t \in Threads, NEW s \in Sockets, pc[t] \in Acquiring,
           Acquired(t, s)
    PROVE  /\ prof_lock' = None
           /\ held' \in [Threads -> Seq(Sockets)] /\ held'[t] = <<s>> \o held[t]
           /\ pc' \in [Threads -> PCs] /\ pc'[t] \in {"args", "send"}
           /\ \A u \in Threads \ {t} : held'[u] = held[u] /\ pc'[u] = pc[u]
           /\ Len(held[t]) <= 1
           /\ \A q, n : Nested(t, held'[t], pc'[t], q, n)
<1>1. held \in [Threads -> Seq(Sockets)] /\ pc \in [Threads -> PCs]
  BY DEF Inv, TypeOK
<1>2. /\ held[t] \in Seq(Sockets) /\ Len(held[t]) \in Nat
      /\ held[t] = <<>> <=> Len(held[t]) = 0
      /\ Nested(t, held[t], pc[t], probe[t], left[t])
  BY OfThread
<1>3. /\ <<s>> \o held[t] \in Seq(Sockets)
      /\ Len(<<s>> \o held[t]) = Len(held[t]) + 1
  BY <1>2, Push
<1>4. /\ held'[t] = <<s>> \o held[t] /\ held' \in [Threads -> Seq(Sockets)]
      /\ \A u \in Threads \ {t} : held'[u] = held[u]
  BY <1>1, <1>3 DEF Acquired
<1>5. /\ pc'[t] = IF Program[t] = "realtime" /\ held[t] = <<>> THEN "args" ELSE "send"
      /\ \A u \in Threads \ {t} : pc'[u] = pc[u]
      /\ pc' \in [Threads -> PCs]
  BY <1>1 DEF Acquired, Goto, PCs
<1>6. Len(held[t]) <= 1
  BY <1>2 DEF Nested
<1>7. Len(held'[t]) = Len(held[t]) + 1
  BY <1>3, <1>4
<1>8. ASSUME NEW q, NEW n PROVE Nested(t, held'[t], pc'[t], q, n)
  BY <1>2, <1>5, <1>6, <1>7 DEF Nested, Acquiring
<1> QED
  BY <1>4, <1>5, <1>6, <1>8 DEF Acquired

\* Locking and unlocking keep the mutexes' type.
LEMMA LockTypes ==
    ASSUME TypeOK, NEW t \in Threads, NEW s \in Sockets
    PROVE  /\ Lock(t, s) \in [Sockets -> [owner : Owners, depth : Nat]]
           /\ Unlock(s) \in [Sockets -> [owner : Owners, depth : Nat]]
<1>1. sock_lock \in [Sockets -> [owner : Owners, depth : Nat]] /\ sock_lock[s].depth \in Nat
  BY DEF TypeOK
<1>2. t \in Owners /\ None \in Owners
  BY DEF Owners
<1>3. [owner |-> t, depth |-> sock_lock[s].depth + 1] \in [owner : Owners, depth : Nat]
  BY <1>1, <1>2
<1>4. Unlocked(sock_lock[s]) \in [owner : Owners, depth : Nat]
  <2>1. CASE sock_lock[s].depth > 1
    <3>1. [sock_lock[s] EXCEPT !.depth = sock_lock[s].depth - 1]
            \in [owner : Owners, depth : Nat]
      BY <1>1, <2>1
    <3> QED
      BY <2>1, <3>1 DEF Unlocked
  <2>2. CASE ~ sock_lock[s].depth > 1
    BY <1>2, <2>2 DEF Unlocked
  <2> QED
    BY <2>1, <2>2
<1> QED
  BY <1>1, <1>3, <1>4 DEF Lock, Unlock

\* A request begins.
LEMMA BeginKeeps ==
    ASSUME Inv, NEW t \in Threads, Begin(t) PROVE Inv'
<1>1. /\ Nested(t, held[t], pc[t], probe[t], left[t]) /\ got[t] # "stale"
      /\ probe[t] \in 1..PoolSize + 1 /\ left[t] \in Nat /\ Len(held[t]) \in Nat
  BY OfThread
<1>2. left[t] - 1 \in Nat /\ Len(held[t]) = 0
  BY <1>1 DEF Nested, Begin
<1>3. TypeOK' /\ OthersKept(t)
  BY <1>1, <1>2, PoolAssumption
  DEF Inv, TypeOK, PCs, Owners, OthersKept, Goto, lockVars, Begin
<1>4. Nested(t, held'[t], pc'[t], probe'[t], left'[t])
  BY <1>1, <1>2, PoolAssumption DEF Inv, TypeOK, Nested, Acquiring, Goto, lockVars, Begin
<1>5. /\ UNCHANGED <<sock_lock, wire, held>> /\ got'[t] # "stale"
      /\ pc[t] \notin {"recv", "connect", "fallback_connect"}
      /\ pc'[t] \notin {"recv", "connect", "fallback_connect"}
  BY <1>1 DEF Inv, TypeOK, Goto, lockVars, Begin
<1> QED
  BY <1>3, <1>4, <1>5, StillStep

\* cdr_tarantool locks around its call.
LEMMA LockCdrKeeps ==
    ASSUME Inv, NEW t \in Threads, LockCdr(t) PROVE Inv'
<1>1. /\ Nested(t, held[t], pc[t], probe[t], left[t]) /\ got[t] # "stale"
      /\ probe[t] \in 1..PoolSize + 1 /\ left[t] \in Nat /\ Len(held[t]) \in Nat
  BY OfThread
<1>3. TypeOK' /\ OthersKept(t)
  BY <1>1, PoolAssumption
  DEF Inv, TypeOK, PCs, Owners, OthersKept, Goto, lockVars, LockCdr
<1>4. Nested(t, held'[t], pc'[t], probe'[t], left'[t])
  BY <1>1, PoolAssumption DEF Inv, TypeOK, Nested, Acquiring, Goto, lockVars, LockCdr
<1>5. /\ UNCHANGED <<sock_lock, wire, held>> /\ got'[t] # "stale"
      /\ pc[t] \notin {"recv", "connect", "fallback_connect"}
      /\ pc'[t] \notin {"recv", "connect", "fallback_connect"}
  BY <1>1 DEF Inv, TypeOK, Goto, lockVars, LockCdr
<1> QED
  BY <1>3, <1>4, <1>5, StillStep

\* acquire_conn looks its profile up.
LEMMA LockProfilesKeeps ==
    ASSUME Inv, NEW t \in Threads, LockProfiles(t) PROVE Inv'
<1>1. /\ Nested(t, held[t], pc[t], probe[t], left[t]) /\ got[t] # "stale"
      /\ probe[t] \in 1..PoolSize + 1 /\ left[t] \in Nat /\ Len(held[t]) \in Nat
  BY OfThread
<1>2. /\ held' = held /\ Len(held[t]) <= 1
      /\ pc'[t] \in {"prof_lock", "return"}
      /\ pc'[t] = "return" => Len(held[t]) = 0
      /\ Len(held[t]) = 1 => Program[t] = "realtime"
  <2>1. /\ held' = held /\ pc[t] = "profiles_lock"
        /\ pc'[t] \in {"prof_lock", "return"}
        /\ pc'[t] = "return" => Program[t] = "missing"
    BY DEF Inv, TypeOK, LockProfiles, Goto
  <2>2. Len(held[t]) <= 1 /\ (Len(held[t]) = 1 => Program[t] = "realtime")
    BY <1>1, <2>1 DEF Nested, Acquiring
  <2>3. Len(held[t]) = 0 \/ Len(held[t]) = 1
    <3>1. \A n \in Nat : n <= 1 => n = 0 \/ n = 1
      OBVIOUS
    <3> QED
      BY <1>1, <2>2, <3>1
  <2>4. "missing" # "realtime"
    OBVIOUS
  <2> QED
    BY <2>1, <2>2, <2>3, <2>4
<1>3. TypeOK' /\ OthersKept(t)
  BY <1>1, <1>2, PoolAssumption
  DEF Inv, TypeOK, PCs, Owners, OthersKept, Goto, lockVars, LockProfiles
<1>4. Nested(t, held'[t], pc'[t], probe'[t], left'[t])
  BY <1>2 DEF Nested, Acquiring
<1>5. /\ UNCHANGED <<sock_lock, wire, held>> /\ got'[t] # "stale"
      /\ pc[t] \notin {"recv", "connect", "fallback_connect"}
      /\ pc'[t] \notin {"recv", "connect", "fallback_connect"}
  BY <1>1 DEF Inv, TypeOK, Goto, lockVars, LockProfiles
<1> QED
  BY <1>3, <1>4, <1>5, StillStep

\* The profile's lock is passed on from the list's.
LEMMA LockProfKeeps ==
    ASSUME Inv, NEW t \in Threads, LockProf(t) PROVE Inv'
<1>1. /\ Nested(t, held[t], pc[t], probe[t], left[t]) /\ got[t] # "stale"
      /\ probe[t] \in 1..PoolSize + 1 /\ left[t] \in Nat /\ Len(held[t]) \in Nat
  BY OfThread
<1>2. 1 \in 1..PoolSize + 1
  BY PoolAssumption
<1>3. TypeOK' /\ OthersKept(t)
  BY <1>1, <1>2, PoolAssumption
  DEF Inv, TypeOK, PCs, Owners, OthersKept, Goto, lockVars, LockProf
<1>4. Nested(t, held'[t], pc'[t], probe'[t], left'[t])
  BY <1>1, <1>2, PoolAssumption DEF Inv, TypeOK, Nested, Acquiring, Goto, lockVars, LockProf
<1>5. /\ UNCHANGED <<sock_lock, wire, held>> /\ got'[t] # "stale"
      /\ pc[t] \notin {"recv", "connect", "fallback_connect"}
      /\ pc'[t] \notin {"recv", "connect", "fallback_connect"}
  BY <1>1 DEF Inv, TypeOK, Goto, lockVars, LockProf
<1> QED
  BY <1>3, <1>4, <1>5, StillStep

\* The trylock fails.
LEMMA ProbeBusyKeeps ==
    ASSUME Inv, NEW t \in Threads, ProbeBusy(t) PROVE Inv'
<1>1. /\ Nested(t, held[t], pc[t], probe[t], left[t]) /\ got[t] # "stale"
      /\ probe[t] \in 1..PoolSize + 1 /\ left[t] \in Nat /\ Len(held[t]) \in Nat
  BY OfThread
<1>2. probe[t] + 1 \in 1..PoolSize + 1
  BY <1>1, PoolAssumption DEF ProbeBusy, Sockets
<1>3. TypeOK' /\ OthersKept(t)
  BY <1>1, <1>2, PoolAssumption
  DEF Inv, TypeOK, PCs, Owners, OthersKept, Goto, lockVars, ProbeBusy
<1>4. Nested(t, held'[t], pc'[t], probe'[t], left'[t])
  BY <1>1, <1>2, PoolAssumption DEF Inv, TypeOK, Nested, Acquiring, Goto, lockVars, ProbeBusy
<1>5. /\ UNCHANGED <<sock_lock, wire, held>> /\ got'[t] # "stale"
      /\ pc[t] \notin {"recv", "connect", "fallback_connect"}
      /\ pc'[t] \notin {"recv", "connect", "fallback_connect"}
  BY <1>1 DEF Inv, TypeOK, Goto, lockVars, ProbeBusy
<1> QED
  BY <1>3, <1>4, <1>5, StillStep

\* All sockets were busy or could not connect.
LEMMA ProbedAllKeeps ==
    ASSUME Inv, NEW t \in Threads, ProbedAll(t) PROVE Inv'
<1>1. /\ Nested(t, held[t], pc[t], probe[t], left[t]) /\ got[t] # "stale"
      /\ probe[t] \in 1..PoolSize + 1 /\ left[t] \in Nat /\ Len(held[t]) \in Nat
  BY OfThread
<1>3. TypeOK' /\ OthersKept(t)
  BY <1>1, PoolAssumption
  DEF Inv, TypeOK, PCs, Owners, OthersKept, Goto, lockVars, ProbedAll
<1>4. Nested(t, held'[t], pc'[t], probe'[t], left'[t])
  BY <1>1, PoolAssumption DEF Inv, TypeOK, Nested, Acquiring, Goto, lockVars, ProbedAll
<1>5. /\ UNCHANGED <<sock_lock, wire, held>> /\ got'[t] # "stale"
      /\ pc[t] \notin {"recv", "connect", "fallback_connect"}
      /\ pc'[t] \notin {"recv", "connect", "fallback_connect"}
  BY <1>1 DEF Inv, TypeOK, Goto, lockVars, ProbedAll
<1> QED
  BY <1>3, <1>4, <1>5, StillStep

\* exec_raw refuses a socket that is not connected.
LEMMA NotConnectedKeeps ==
    ASSUME Inv, NEW t \in Threads, NotConnected(t) PROVE Inv'
<1>1. /\ Nested(t, held[t], pc[t], probe[t], left[t]) /\ got[t] # "stale"
      /\ probe[t] \in 1..PoolSize + 1 /\ left[t] \in Nat /\ Len(held[t]) \in Nat
  BY OfThread
<1>3. TypeOK' /\ OthersKept(t)
  BY <1>1, PoolAssumption
  DEF Inv, TypeOK, PCs, Owners, OthersKept, Goto, lockVars, NotConnected
<1>4. Nested(t, held'[t], pc'[t], probe'[t], left'[t])
  BY <1>1, PoolAssumption DEF Inv, TypeOK, Nested, Acquiring, Goto, lockVars, NotConnected
<1>5. /\ UNCHANGED <<sock_lock, wire, held>> /\ got'[t] # "stale"
      /\ pc[t] \notin {"recv", "connect", "fallback_connect"}
      /\ pc'[t] \notin {"recv", "connect", "fallback_connect"}
  BY <1>1 DEF Inv, TypeOK, Goto, lockVars, NotConnected
<1> QED
  BY <1>3, <1>4, <1>5, StillStep

\* realtime_tarantool calls, or gives up.
LEMMA RealtimeArgsKeeps ==
    ASSUME Inv, NEW t \in Threads, RealtimeArgs(t) PROVE Inv'
<1>1. /\ Nested(t, held[t], pc[t], probe[t], left[t]) /\ got[t] # "stale"
      /\ probe[t] \in 1..PoolSize + 1 /\ left[t] \in Nat /\ Len(held[t]) \in Nat
  BY OfThread
<1>2. /\ held' = held /\ Len(held[t]) = 1 /\ Program[t] = "realtime"
      /\ pc'[t] \in {"profiles_lock", "release"}
  BY <1>1 DEF Inv, TypeOK, Nested, RealtimeArgs, Goto
<1>3. TypeOK' /\ OthersKept(t)
  BY <1>1, <1>2, PoolAssumption
  DEF Inv, TypeOK, PCs, Owners, OthersKept, Goto, lockVars, RealtimeArgs
<1>4. Nested(t, held'[t], pc'[t], probe'[t], left'[t])
  BY <1>2 DEF Nested, Acquiring
<1>5. /\ UNCHANGED <<sock_lock, wire, held>> /\ got'[t] # "stale"
      /\ pc[t] \notin {"recv", "connect", "fallback_connect"}
      /\ pc'[t] \notin {"recv", "connect", "fallback_connect"}
  BY <1>1 DEF Inv, TypeOK, Goto, lockVars, RealtimeArgs
<1> QED
  BY <1>3, <1>4, <1>5, StillStep

\* The call returns.
LEMMA ReturnKeeps ==
    ASSUME Inv, NEW t \in Threads, Return(t) PROVE Inv'
<1>1. /\ Nested(t, held[t], pc[t], probe[t], left[t]) /\ got[t] # "stale"
      /\ probe[t] \in 1..PoolSize + 1 /\ left[t] \in Nat /\ Len(held[t]) \in Nat
  BY OfThread
<1>3. TypeOK' /\ OthersKept(t)
  BY <1>1, PoolAssumption
  DEF Inv, TypeOK, PCs, Owners, OthersKept, Goto, lockVars, Return
<1>4. Nested(t, held'[t], pc'[t], probe'[t], left'[t])
  BY <1>1, PoolAssumption DEF Inv, TypeOK, Nested, Acquiring, Goto, lockVars, Return
<1>5. /\ UNCHANGED <<sock_lock, wire, held>> /\ got'[t] # "stale"
      /\ pc[t] \notin {"recv", "connect", "fallback_connect"}
      /\ pc'[t] \notin {"recv", "connect", "fallback_connect"}
  BY <1>1 DEF Inv, TypeOK, Goto, lockVars, Return
<1> QED
  BY <1>3, <1>4, <1>5, StillStep

\* acquire_conn's return moves the lock it took to the held sockets.
LEMMA ReturnsTimes ==
    ASSUME Inv, NEW t \in Threads, NEW s \in Sockets, pc[t] \in Acquiring,
           Acquired(t, s), NEW x \in Sockets
    PROVE  Times(held'[t], pc'[t], probe[t], x)
             = Times(held[t], "probe", probe[t], x) + (IF x = s THEN 1 ELSE 0)
<1>1. /\ held[t] \in Seq(Sockets) /\ Len(held[t]) \in Nat /\ Len(held[t]) <= 1
      /\ held'[t] = <<s>> \o held[t] /\ pc'[t] \in {"args", "send"}
  BY OfThread, Returns
<1>2. /\ Len(held'[t]) = Len(held[t]) + 1 /\ held'[t][1] = s
      /\ Len(held[t]) >= 1 => held'[t][2] = held[t][1]
  BY <1>1, Push
<1>3. Len(held[t]) = 0 \/ Len(held[t]) = 1
  <2> HIDE DEF Sockets
  <2>1. \A n \in Nat : n <= 1 => n = 0 \/ n = 1
    OBVIOUS
  <2> QED
    BY <1>1, <2>1
<1>4. /\ pc'[t] \notin {"connect", "fallback_connect"}
      /\ "probe" \notin {"connect", "fallback_connect"}
  BY <1>1
<1> QED
  BY <1>2, <1>3, <1>4, TimesPushed

\* The trylock succeeds: the socket is handed over, or connected first.
LEMMA ProbeFreeKeeps ==
    ASSUME Inv, NEW t \in Threads, ProbeFree(t) PROVE Inv'
<1> DEFINE s == probe[t]
<1>1. /\ s \in Sockets /\ Free(t, s) /\ pc[t] = "probe" /\ sock_lock' = Lock(t, s)
      /\ UNCHANGED <<profiles_lock, cdr_lock, connected, wire, probe, left, got>>
  BY DEF ProbeFree
<1>2. /\ Nested(t, held[t], pc[t], probe[t], left[t]) /\ got[t] # "stale"
      /\ Len(held[t]) \in Nat
  BY OfThread
<1>3. sock_lock' \in [Sockets -> [owner : Owners, depth : Nat]]
  BY <1>1, LockTypes DEF Inv
<1>4. None \in Owners
  BY DEF Owners
<1>5. CASE connected[s] /\ Acquired(t, s)
  <2>1. /\ prof_lock' = None
        /\ held' \in [Threads -> Seq(Sockets)]
        /\ pc' \in [Threads -> PCs] /\ pc'[t] \in {"args", "send"}
        /\ \A u \in Threads \ {t} : held'[u] = held[u] /\ pc'[u] = pc[u]
        /\ Nested(t, held'[t], pc'[t], probe'[t], left'[t])
    BY <1>1, <1>5, Returns DEF Acquiring
  <2>2. TypeOK' /\ OthersKept(t)
    BY <1>1, <1>3, <1>4, <2>1 DEF Inv, TypeOK, OthersKept
  <2>3. ASSUME NEW x \in Sockets
        PROVE  Times(held'[t], pc'[t], probe'[t], x)
                 = Times(held[t], pc[t], probe[t], x) + (IF x = s THEN 1 ELSE 0)
    BY <1>1, <1>5, ReturnsTimes DEF Acquiring
  <2>4. LockStep(t)
    BY <1>1, <2>3 DEF LockStep, Locks
  <2>5. WireStep(t)
    BY <1>1, <1>2, <2>1 DEF WireStep
  <2> QED
    BY <2>1, <2>2, <2>4, <2>5, StepKeeps
<1>6. CASE ~connected[s] /\ Goto(t, "connect") /\ UNCHANGED <<prof_lock, held>>
  <2>1. pc'[t] = "connect" /\ TypeOK' /\ OthersKept(t)
    BY <1>1, <1>3, <1>6 DEF Inv, TypeOK, OthersKept, Goto, PCs
  <2>2. Nested(t, held'[t], pc'[t], probe'[t], left'[t])
    BY <1>1, <1>2, <1>6, <2>1 DEF Nested, Acquiring
  <2>3. ASSUME NEW x \in Sockets
        PROVE  Times(held'[t], pc'[t], probe'[t], x)
                 = Times(held[t], pc[t], probe[t], x) + (IF x = s THEN 1 ELSE 0)
    BY <1>1, <1>6, <2>1 DEF Times
  <2>4. LockStep(t)
    BY <1>1, <2>3 DEF LockStep, Locks
  <2>5. WireStep(t)
    BY <1>1, <1>2, <2>1 DEF WireStep
  <2> QED
    BY <2>1, <2>2, <2>4, <2>5, StepKeeps
<1> QED
  BY <1>5, <1>6 DEF ProbeFree

\* The fallback waits for the first socket: as above, for socket 1.
LEMMA FallbackKeeps ==
    ASSUME Inv, NEW t \in Threads, Fallback(t) PROVE Inv'
<1>1. /\ 1 \in Sockets /\ Free(t, 1) /\ pc[t] = "fallback" /\ sock_lock' = Lock(t, 1)
      /\ UNCHANGED <<profiles_lock, cdr_lock, connected, wire, probe, left, got>>
  BY PoolAssumption DEF Fallback, Sockets
<1>2. /\ Nested(t, held[t], pc[t], probe[t], left[t]) /\ got[t] # "stale"
      /\ Len(held[t]) \in Nat
  BY OfThread
<1>3. sock_lock' \in [Sockets -> [owner : Owners, depth : Nat]]
  BY <1>1, LockTypes DEF Inv
<1>4. None \in Owners
  BY DEF Owners
<1>5. CASE connected[1] /\ Acquired(t, 1)
  <2>1. /\ prof_lock' = None
        /\ held' \in [Threads -> Seq(Sockets)]
        /\ pc' \in [Threads -> PCs] /\ pc'[t] \in {"args", "send"}
        /\ \A u \in Threads \ {t} : held'[u] = held[u] /\ pc'[u] = pc[u]
        /\ Nested(t, held'[t], pc'[t], probe'[t], left'[t])
    BY <1>1, <1>5, Returns DEF Acquiring
  <2>2. TypeOK' /\ OthersKept(t)
    BY <1>1, <1>3, <1>4, <2>1 DEF Inv, TypeOK, OthersKept
  <2>3. ASSUME NEW x \in Sockets
        PROVE  Times(held'[t], pc'[t], probe'[t], x)
                 = Times(held[t], pc[t], probe[t], x) + (IF x = 1 THEN 1 ELSE 0)
    <3>1. Times(held'[t], pc'[t], probe[t], x)
            = Times(held[t], "probe", probe[t], x) + (IF x = 1 THEN 1 ELSE 0)
      BY <1>1, <1>5, ReturnsTimes DEF Acquiring
    <3>2. Times(held[t], "probe", probe[t], x) = Times(held[t], "fallback", probe[t], x)
      BY DEF Times
    <3> QED
      BY <1>1, <3>1, <3>2
  <2>4. LockStep(t)
    BY <1>1, <2>3 DEF LockStep, Locks
  <2>5. WireStep(t)
    BY <1>1, <1>2, <2>1 DEF WireStep
  <2> QED
    BY <2>1, <2>2, <2>4, <2>5, StepKeeps
<1>6. CASE ~connected[1] /\ Goto(t, "fallback_connect") /\ UNCHANGED <<prof_lock, held>>
  <2>1. pc'[t] = "fallback_connect" /\ TypeOK' /\ OthersKept(t)
    BY <1>1, <1>3, <1>6 DEF Inv, TypeOK, OthersKept, Goto, PCs
  <2>2. Nested(t, held'[t], pc'[t], probe'[t], left'[t])
    BY <1>1, <1>2, <1>6, <2>1 DEF Nested, Acquiring
  <2>3. ASSUME NEW x \in Sockets
        PROVE  Times(held'[t], pc'[t], probe'[t], x)
                 = Times(held[t], pc[t], probe[t], x) + (IF x = 1 THEN 1 ELSE 0)
    BY <1>1, <1>6, <2>1 DEF Times
  <2>4. LockStep(t)
    BY <1>1, <2>3 DEF LockStep, Locks
  <2>5. WireStep(t)
    BY <1>1, <1>2, <2>1 DEF WireStep
  <2> QED
    BY <2>1, <2>2, <2>4, <2>5, StepKeeps
<1> QED
  BY <1>5, <1>6 DEF Fallback

\* tnt_socket_connect on a socket the thread has locked.
LEMMA ConnectKeeps ==
    ASSUME Inv, NEW t \in Threads, NEW s \in Sockets,
           \/ pc[t] = "connect" /\ s = probe[t]
           \/ pc[t] = "fallback_connect" /\ s = 1,
           Open(s) \/ Close(s), Acquired(t, s),
           UNCHANGED <<profiles_lock, cdr_lock, sock_lock, probe, left, got>>
    PROVE  Inv'
<1>1. got[t] # "stale"
  BY OfThread
<1>2. /\ prof_lock' = None
      /\ held' \in [Threads -> Seq(Sockets)]
      /\ pc' \in [Threads -> PCs] /\ pc'[t] \in {"args", "send"}
      /\ \A u \in Threads \ {t} : held'[u] = held[u] /\ pc'[u] = pc[u]
      /\ Nested(t, held'[t], pc'[t], probe'[t], left'[t])
  BY Returns DEF Acquiring
<1>3. /\ wire' = [wire EXCEPT ![s] = <<>>]
      /\ connected' \in [Sockets -> BOOLEAN]
  BY DEF Inv, TypeOK, Open, Close
<1>4. /\ wire' \in [Sockets -> Seq(Parts)] /\ wire'[s] = <<>>
      /\ \A x \in Sockets \ {s} : wire'[x] = wire[x]
  BY <1>3 DEF Inv, TypeOK
<1>5. None \in Owners
  BY DEF Owners
<1>6. TypeOK' /\ OthersKept(t)
  BY <1>2, <1>3, <1>4, <1>5 DEF Inv, TypeOK, OthersKept
<1>7. ASSUME NEW x \in Sockets
      PROVE  /\ Times(held'[t], pc'[t], probe'[t], x)
                  = Times(held[t], pc[t], probe[t], x) + 0
             /\ x = s => Times(held[t], pc[t], probe[t], x) > 0
  <2>1. Times(held'[t], pc'[t], probe'[t], x)
          = Times(held[t], "probe", probe[t], x) + (IF x = s THEN 1 ELSE 0)
    BY ReturnsTimes DEF Acquiring
  <2>2. Times(held[t], pc[t], probe[t], x)
          = Times(held[t], "probe", probe[t], x) + (IF x = s THEN 1 ELSE 0)
    BY DEF Times
  <2>3. Times(held[t], "probe", probe[t], x) \in Nat
    BY DEF Times
  <2> QED
    BY <2>1, <2>2, <2>3
<1>8. LockStep(t)
  BY <1>7 DEF LockStep, Locks
<1>9. WireStep(t)
  <2>1. Quiet(wire'[s]) /\ Times(held[t], pc[t], probe[t], s) > 0
    BY <1>4, <1>7 DEF Quiet
  <2>2. got'[t] # "stale" /\ pc'[t] # "recv" /\ pc[t] # "recv"
    BY <1>1, <1>2
  <2> QED
    BY <2>1, <2>2, <1>4 DEF WireStep
<1> QED
  BY <1>2, <1>6, <1>8, <1>9, StepKeeps

\* The reconnect works.
LEMMA ConnectOkKeeps ==
    ASSUME Inv, NEW t \in Threads, ConnectOk(t) PROVE Inv'
<1>1. Nested(t, held[t], pc[t], probe[t], left[t])
  BY OfThread
<1>2. probe[t] \in Sockets
  BY <1>1 DEF ConnectOk, Nested
<1> QED
  BY <1>2, ConnectKeeps DEF ConnectOk

\* The fallback's connect, whatever its result.
LEMMA FallbackConnectKeeps ==
    ASSUME Inv, NEW t \in Threads, FallbackConnect(t) PROVE Inv'
<1>1. 1 \in Sockets
  BY PoolAssumption DEF Sockets
<1> QED
  BY <1>1, ConnectKeeps DEF FallbackConnect

\* The reconnect fails: the socket is unlocked and the loop goes on.
LEMMA ConnectFailsKeeps ==
    ASSUME Inv, NEW t \in Threads, ConnectFails(t) PROVE Inv'
<1> DEFINE s == probe[t]
<1>1. /\ Nested(t, held[t], pc[t], probe[t], left[t]) /\ got[t] # "stale"
      /\ probe[t] \in 1..PoolSize + 1
  BY OfThread
<1>2. s \in Sockets /\ pc[t] = "connect" /\ s + 1 \in 1..PoolSize + 1
  <2>1. s \in Sockets /\ pc[t] = "connect"
    BY <1>1 DEF ConnectFails, Nested
  <2> QED
    BY <2>1, PoolAssumption DEF Sockets
<1>3. sock_lock' \in [Sockets -> [owner : Owners, depth : Nat]] /\ sock_lock' = Unlock(s)
  BY <1>2, LockTypes DEF Inv, ConnectFails
<1>4. /\ wire' \in [Sockets -> Seq(Parts)] /\ wire'[s] = <<>>
      /\ \A x \in Sockets \ {s} : wire'[x] = wire[x]
      /\ connected' \in [Sockets -> BOOLEAN]
  BY <1>2 DEF Inv, TypeOK, ConnectFails, Close
<1>5. /\ pc'[t] = "probe" /\ held' = held /\ left' = left /\ got' = got
      /\ UNCHANGED <<profiles_lock, prof_lock, cdr_lock>>
      /\ pc' \in [Threads -> PCs] /\ probe' \in [Threads -> 1..PoolSize + 1]
      /\ \A u \in Threads \ {t} : pc'[u] = pc[u] /\ probe'[u] = probe[u]
  BY <1>2 DEF Inv, TypeOK, ConnectFails, Goto, PCs
<1>6. TypeOK' /\ OthersKept(t)
  BY <1>3, <1>4, <1>5 DEF Inv, TypeOK, OthersKept
<1>7. Nested(t, held'[t], pc'[t], probe'[t], left'[t])
  BY <1>1, <1>2, <1>5 DEF Nested, Acquiring
<1>8. ASSUME NEW x \in Sockets
      PROVE  /\ Times(held'[t], pc'[t], probe'[t], x)
                  = Times(held[t], pc[t], probe[t], x) + (IF x = s THEN -1 ELSE 0)
             /\ x = s => Times(held[t], pc[t], probe[t], x) > 0
  BY <1>2, <1>5 DEF Times
<1>9. LockStep(t)
  BY <1>2, <1>3, <1>8 DEF LockStep, Locks
<1>10. WireStep(t)
  <2>1. Quiet(wire'[s]) /\ Times(held[t], pc[t], probe[t], s) > 0
    BY <1>2, <1>4, <1>8 DEF Quiet
  <2> QED
    BY <2>1, <1>1, <1>2, <1>4, <1>5 DEF WireStep
<1> QED
  BY <1>6, <1>7, <1>9, <1>10, StepKeeps

\* exec_raw on the innermost socket, which the thread has locked: what it
\* leaves on the connection decides.
LEMMA ExecKeeps ==
    ASSUME Inv, NEW t \in Threads, pc[t] \in {"send", "recv"},
           NEW p \in {"recv", "release"}, Goto(t, p),
           NEW w \in Seq(Parts), wire' = [wire EXCEPT ![Sock(t)] = w],
           connected' \in [Sockets -> BOOLEAN],
           NEW g \in {"none", "own"}, got' = [got EXCEPT ![t] = g],
           UNCHANGED <<lockVars, probe, held, left>>,
           p = "recv" => Answer(w), p = "release" => Quiet(w)
    PROVE  Inv'
<1> DEFINE s == Head(held[t])
<1>1. /\ Nested(t, held[t], pc[t], probe[t], left[t])
      /\ held[t] \in Seq(Sockets)
  BY OfThread
<1>2. Len(held[t]) \in 1..2
  BY <1>1 DEF Nested
<1>3. Len(held[t]) >= 1
  <2>1. \A n \in 1..2 : n >= 1
    OBVIOUS
  <2> QED
    BY <1>2, <2>1
<1>4. s \in Sockets /\ s = held[t][1]
  BY <1>1, <1>3, Pop
<1>5. pc'[t] = p /\ pc' \in [Threads -> PCs] /\ \A u \in Threads \ {t} : pc'[u] = pc[u]
  BY DEF Inv, TypeOK, Goto, PCs
<1>6. /\ wire' \in [Sockets -> Seq(Parts)] /\ wire'[s] = w
      /\ \A x \in Sockets \ {s} : wire'[x] = wire[x]
  BY <1>4 DEF Inv, TypeOK, Sock
<1>7. /\ got' \in [Threads -> {"none", "own", "stale"}] /\ got'[t] = g
      /\ \A u \in Threads \ {t} : got'[u] = got[u]
  BY DEF Inv, TypeOK
<1>8. TypeOK' /\ OthersKept(t)
  BY <1>5, <1>6, <1>7 DEF Inv, TypeOK, OthersKept, lockVars
<1>9. Nested(t, held'[t], pc'[t], probe'[t], left'[t])
  BY <1>2, <1>5 DEF Nested, Acquiring
<1>10. Times(held[t], pc[t], probe[t], s) > 0
  BY <1>3, <1>4 DEF Times
<1>11. LockStep(t)
  <2>1. ASSUME NEW x \in Sockets
        PROVE  Times(held'[t], pc'[t], probe'[t], x)
                 = Times(held[t], pc[t], probe[t], x) + 0
    BY <1>5 DEF Times
  <2> QED
    BY <2>1 DEF LockStep, Locks, lockVars
<1>12. WireStep(t)
  BY <1>4, <1>5, <1>6, <1>7, <1>10 DEF WireStep
<1> QED
  BY <1>8, <1>9, <1>11, <1>12, StepKeeps

\* The facts about the connection of a thread in exec_raw.
LEMMA OfSocket ==
    ASSUME Inv, NEW t \in Threads, pc[t] \in {"send", "recv"}
    PROVE  /\ Sock(t) \in Sockets /\ wire[Sock(t)] \in Seq(Parts)
           /\ pc[t] = "send" => Quiet(wire[Sock(t)])
           /\ pc[t] = "recv" => Answer(wire[Sock(t)])
           /\ got = [got EXCEPT ![t] = got[t]] /\ got[t] \in {"none", "own"}
<1>1. Nested(t, held[t], pc[t], probe[t], left[t]) /\ held[t] \in Seq(Sockets)
  BY OfThread
<1>2. Len(held[t]) >= 1
  <2>1. \A n \in 1..2 : n >= 1
    OBVIOUS
  <2> QED
    BY <1>1, <2>1 DEF Nested
<1>3. Sock(t) \in Sockets /\ Sock(t) = held[t][1]
  BY <1>1, <1>2, Pop DEF Sock
<1>4. wire[Sock(t)] \in Seq(Parts)
  BY <1>3 DEF Inv, TypeOK
<1>5. ASSUME pc[t] = "send" PROVE Quiet(wire[Sock(t)])
  <2>1. Times(held[t], pc[t], probe[t], Sock(t)) > 0
    BY <1>2, <1>3 DEF Times
  <2>2. ASSUME NEW u \in Threads, pc[u] = "recv", Sock(u) = Sock(t) PROVE FALSE
    <3>1. Nested(u, held[u], pc[u], probe[u], left[u]) /\ held[u] \in Seq(Sockets)
      BY OfThread
    <3>2. Len(held[u]) >= 1
      <4>1. \A n \in 1..2 : n >= 1
        OBVIOUS
      <4> QED
        BY <2>2, <3>1, <4>1 DEF Nested
    <3>3. Sock(u) = held[u][1]
      BY <3>1, <3>2, Pop DEF Sock
    <3>4. Times(held[u], pc[u], probe[u], Sock(t)) > 0
      BY <2>2, <3>2, <3>3 DEF Times
    <3>5. u = t
      BY <1>3, <2>1, <3>4 DEF Inv, Owned
    <3> QED
      BY <1>5, <2>2, <3>5
  <2> QED
    BY <1>3, <2>2 DEF Inv, Unread
<1>6. pc[t] = "recv" => Answer(wire[Sock(t)])
  BY DEF Inv, Unread
<1>7. got = [got EXCEPT ![t] = got[t]] /\ got[t] \in {"none", "own"}
  <2>1. got[t] \in {"none", "own"}
    BY OfThread
  <2> QED
    BY <2>1 DEF Inv, TypeOK
<1> QED
  BY <1>3, <1>4, <1>5, <1>6, <1>7

\* A request is sent on a quiet connection.
LEMMA SendKeeps ==
    ASSUME Inv, NEW t \in Threads, Send(t) PROVE Inv'
<1> DEFINE w == Stale(wire[Sock(t)]) \o Reply
<1>1. /\ wire[Sock(t)] \in Seq(Parts) /\ Quiet(wire[Sock(t)])
      /\ got = [got EXCEPT ![t] = got[t]] /\ got[t] \in {"none", "own"}
  BY OfSocket DEF Send
<1>2. w \in Seq(Parts) /\ Answer(w)
  BY <1>1, SendParts
<1>3. /\ wire' = [wire EXCEPT ![Sock(t)] = w] /\ Goto(t, "recv") /\ pc[t] = "send"
      /\ UNCHANGED <<lockVars, probe, held, left>> /\ got' = got /\ connected' = connected
  BY DEF Send
<1>4. connected' \in [Sockets -> BOOLEAN]
  BY <1>3 DEF Inv, TypeOK
<1> HIDE DEF w
<1> QED
  BY <1>1, <1>2, <1>3, <1>4, ExecKeeps

\* A failure of the network closes the connection.
LEMMA IoFailsKeeps ==
    ASSUME Inv, NEW t \in Threads, IoFails(t) PROVE Inv'
<1>1. /\ got = [got EXCEPT ![t] = got[t]] /\ got[t] \in {"none", "own"}
      /\ Sock(t) \in Sockets
  BY OfSocket DEF IoFails
<1>2. <<>> \in Seq(Parts) /\ Quiet(<<>>)
  BY DEF Quiet
<1>3. /\ wire' = [wire EXCEPT ![Sock(t)] = <<>>] /\ Goto(t, "release")
      /\ pc[t] \in {"send", "recv"}
      /\ UNCHANGED <<lockVars, probe, held, left>> /\ got' = got
      /\ connected' = [connected EXCEPT ![Sock(t)] = FALSE]
  BY DEF IoFails, Close
<1>4. connected' \in [Sockets -> BOOLEAN]
  BY <1>1, <1>3 DEF Inv, TypeOK
<1> QED
  BY <1>1, <1>2, <1>3, <1>4, ExecKeeps

\* The reply that is read is the awaited one.
LEMMA RecvReplyKeeps ==
    ASSUME Inv, NEW t \in Threads, RecvReply(t) PROVE Inv'
<1> DEFINE w == wire[Sock(t)]
<1>1. w \in Seq(Parts) /\ Answer(w)
  BY OfSocket DEF RecvReply
<1>2. w[2].own /\ SubSeq(w, 3, Len(w)) = <<>>
  BY <1>1, ReadParts DEF RecvReply
<1>3. <<>> \in Seq(Parts) /\ Quiet(<<>>)
  BY DEF Quiet
<1>4. /\ wire' = [wire EXCEPT ![Sock(t)] = <<>>] /\ Goto(t, "release") /\ pc[t] = "recv"
      /\ UNCHANGED <<lockVars, probe, held, left>> /\ connected' = connected
      /\ got' = [got EXCEPT ![t] = "own"]
  BY <1>2 DEF RecvReply
<1>5. connected' \in [Sockets -> BOOLEAN]
  BY <1>4 DEF Inv, TypeOK
<1> QED
  BY <1>3, <1>4, <1>5, ExecKeeps

\* Without memory the packet stays behind.
LEMMA RecvNoMemoryKeeps ==
    ASSUME Inv, NEW t \in Threads, RecvNoMemory(t) PROVE Inv'
<1> DEFINE w == wire[Sock(t)]
<1>1. /\ w \in Seq(Parts) /\ Answer(w)
      /\ got = [got EXCEPT ![t] = got[t]] /\ got[t] \in {"none", "own"}
  BY OfSocket DEF RecvNoMemory
<1>2. Tail(w) \in Seq(Parts) /\ Quiet(Tail(w))
  BY <1>1, ReadParts DEF RecvNoMemory
<1>3. /\ wire' = [wire EXCEPT ![Sock(t)] = Tail(w)] /\ Goto(t, "release")
      /\ pc[t] = "recv" /\ got' = got
      /\ UNCHANGED <<lockVars, probe, held, left>> /\ connected' = connected
  BY DEF RecvNoMemory
<1>4. connected' \in [Sockets -> BOOLEAN]
  BY <1>3 DEF Inv, TypeOK
<1> QED
  BY <1>1, <1>2, <1>3, <1>4, ExecKeeps

\* release_conn unlocks the innermost socket.
LEMMA ReleaseKeeps ==
    ASSUME Inv, NEW t \in Threads, Release(t) PROVE Inv'
<1> DEFINE s == Head(held[t])
<1>1. /\ Nested(t, held[t], pc[t], probe[t], left[t])
      /\ held[t] \in Seq(Sockets) /\ got[t] # "stale" /\ pc[t] = "release"
  BY OfThread DEF Release
<1>2. Len(held[t]) >= 1 /\ (Len(held[t]) = 1 \/ Len(held[t]) = 2)
  <2>1. \A n \in 1..2 : n >= 1 /\ (n = 1 \/ n = 2)
    OBVIOUS
  <2> QED
    BY <1>1, <2>1 DEF Nested
<1>3. /\ s \in Sockets /\ s = held[t][1]
      /\ Tail(held[t]) \in Seq(Sockets) /\ Len(Tail(held[t])) = Len(held[t]) - 1
      /\ Len(held[t]) >= 2 => Tail(held[t])[1] = held[t][2]
      /\ Tail(held[t]) = <<>> <=> Len(held[t]) = 1
  BY <1>1, <1>2, Pop
<1>4. sock_lock' \in [Sockets -> [owner : Owners, depth : Nat]] /\ sock_lock' = Unlock(s)
  BY <1>3, LockTypes DEF Inv, Release, Sock
<1>5. /\ held'[t] = Tail(held[t]) /\ held' \in [Threads -> Seq(Sockets)]
      /\ \A u \in Threads \ {t} : held'[u] = held[u]
  BY <1>3 DEF Inv, TypeOK, Release
<1>6. /\ pc'[t] = IF Tail(held[t]) = <<>> THEN "return" ELSE "release"
      /\ pc' \in [Threads -> PCs] /\ \A u \in Threads \ {t} : pc'[u] = pc[u]
      /\ UNCHANGED <<profiles_lock, prof_lock, cdr_lock, connected, wire, probe, left, got>>
  BY DEF Inv, TypeOK, Release, Goto, PCs
<1>7. TypeOK' /\ OthersKept(t)
  BY <1>4, <1>5, <1>6 DEF Inv, TypeOK, OthersKept
<1>8. Len(held'[t]) = Len(held[t]) - 1 /\ (pc'[t] = "release" <=> Len(held[t]) = 2)
      /\ pc'[t] \in {"return", "release"} /\ (pc'[t] = "return" <=> Len(held[t]) = 1)
  <2>1. "return" # "release" /\ ~(1 = 2)
    OBVIOUS
  <2> QED
    BY <1>2, <1>3, <1>5, <1>6, <2>1
<1>9. Nested(t, held'[t], pc'[t], probe'[t], left'[t])
  BY <1>2, <1>8 DEF Nested, Acquiring
<1>10. ASSUME NEW x \in Sockets
       PROVE  /\ Times(held'[t], pc'[t], probe'[t], x)
                   = Times(held[t], pc[t], probe[t], x) + (IF x = s THEN -1 ELSE 0)
              /\ Times(held[t], pc[t], probe[t], s) > 0
  <2>1. /\ pc[t] \notin {"connect", "fallback_connect"}
        /\ pc'[t] \notin {"connect", "fallback_connect"} /\ probe' = probe
    BY <1>1, <1>6
  <2>2. /\ Len(held'[t]) = Len(held[t]) - 1
        /\ Len(held[t]) >= 2 => held'[t][1] = held[t][2]
    BY <1>3, <1>5
  <2>3. /\ Times(held'[t], pc'[t], probe[t], x)
             = Times(held[t], pc[t], probe[t], x) + (IF x = held[t][1] THEN -1 ELSE 0)
        /\ Times(held[t], pc[t], probe[t], held[t][1]) > 0
    BY <1>2, <2>1, <2>2, TimesPopped
  <2> QED
    BY <1>3, <2>1, <2>3
<1>11. LockStep(t)
  BY <1>3, <1>4, <1>10 DEF LockStep, Locks
<1>12. WireStep(t)
  BY <1>1, <1>6 DEF WireStep
<1> QED
  BY <1>7, <1>9, <1>11, <1>12, StepKeeps
-----------------------------------------------------------------------------
(***************************************************************************)
(* The theorems                                                            *)
(***************************************************************************)

\* At the start no socket is locked and nothing is unread.
LEMMA InitInv == Init => Inv
<1> SUFFICES ASSUME Init PROVE Inv
  OBVIOUS
<1>1. TypeOK
  <2>1. 1 \in 1..PoolSize + 1 /\ Requests \in Nat
    BY PoolAssumption
  <2>2. [owner |-> None, depth |-> 0] \in [owner : Owners, depth : Nat]
    BY DEF Owners
  <2>3. <<>> \in Seq(Parts) /\ <<>> \in Seq(Sockets)
    OBVIOUS
  <2> QED
    BY <2>1, <2>2, <2>3 DEF Init, TypeOK, PCs, Owners
<1>2. Len(<<>>) = 0
  OBVIOUS
<1>3. Nesting
  BY <1>2, PoolAssumption DEF Init, Nesting, Nested, Acquiring
<1>4. Owned
  <2>1. \A t \in Threads : \A s \in Sockets : Times(held[t], pc[t], probe[t], s) = 0
    BY <1>2 DEF Init, Times
  <2> QED
    BY <2>1, PoolAssumption DEF Init, Owned
<1>5. Unread
  BY <1>2 DEF Init, Unread, Quiet, RepliesMatch
<1> QED
  BY <1>1, <1>3, <1>4, <1>5 DEF Inv

\* Every step of every thread keeps the invariant.
LEMMA NextInv == Inv /\ [Next]_vars => Inv'
<1> SUFFICES ASSUME Inv, [Next]_vars PROVE Inv'
  OBVIOUS
<1>1. ASSUME NEW t \in Threads, ThreadStep(t) PROVE Inv'
  <2>1. CASE Begin(t) \/ LockCdr(t) \/ RealtimeArgs(t) \/ Release(t) \/ Return(t)
    BY <2>1, BeginKeeps, LockCdrKeeps, RealtimeArgsKeeps, ReleaseKeeps, ReturnKeeps
  <2>2. CASE LockProfiles(t) \/ LockProf(t) \/ ProbeFree(t) \/ ProbeBusy(t) \/ ProbedAll(t)
    BY <2>2, LockProfilesKeeps, LockProfKeeps, ProbeFreeKeeps, ProbeBusyKeeps,
       ProbedAllKeeps
  <2>3. CASE ConnectOk(t) \/ ConnectFails(t) \/ Fallback(t) \/ FallbackConnect(t)
    BY <2>3, ConnectOkKeeps, ConnectFailsKeeps, FallbackKeeps, FallbackConnectKeeps
  <2>4. CASE Exec(t)
    BY <2>4, SendKeeps, NotConnectedKeeps, IoFailsKeeps, RecvReplyKeeps,
       RecvNoMemoryKeeps DEF Exec
  <2> QED
    BY <1>1, <2>1, <2>2, <2>3, <2>4 DEF ThreadStep, Acquire
<1>2. CASE UNCHANGED vars
  BY <1>2 DEF vars, Inv, TypeOK, Nesting, Owned, Unread, Sock, RepliesMatch
<1> QED
  BY <1>1, <1>2 DEF Next

\* A socket a thread uses is locked by it.
LEMMA UsedIsLocked ==
    ASSUME Inv, NEW t \in Threads, NEW x \in Uses(t)
    PROVE  x \in Sockets /\ Times(held[t], pc[t], probe[t], x) > 0
<1>1. /\ held[t] \in Seq(Sockets) /\ Nested(t, held[t], pc[t], probe[t], left[t])
      /\ Len(held[t]) \in Nat /\ pc[t] \in PCs
  BY OfThread
<1>2. 1 \in Sockets
  BY PoolAssumption DEF Sockets
<1>3. CASE x \in ToSet(held[t])
  <2>1. PICK i \in DOMAIN held[t] : held[t][i] = x
    BY <1>3 DEF ToSet
  <2>2. i \in 1..Len(held[t]) /\ x \in Sockets
    BY <1>1, <2>1, LenProperties, ElementOfSeq
  <2>3. Len(held[t]) <= 2
    <3>1. \A n \in 1..2 : n <= 2
      OBVIOUS
    <3>2. 0 <= 2 /\ 1 <= 2 /\ \A n \in Nat : n <= 1 => n <= 2
      OBVIOUS
    <3> QED
      BY <1>1, <3>1, <3>2 DEF Nested, PCs, Acquiring
  <2>4. \A n \in Nat : \A j \in 1..n : n <= 2 => (j = 1 /\ n >= 1) \/ (j = 2 /\ n >= 2)
    OBVIOUS
  <2>5. \/ i = 1 /\ Len(held[t]) >= 1
        \/ i = 2 /\ Len(held[t]) >= 2
    BY <1>1, <2>2, <2>3, <2>4
  <2> QED
    BY <2>1, <2>2, <2>5 DEF Times
<1>4. CASE pc[t] = "connect" /\ x = probe[t]
  <2>1. x \in Sockets
    BY <1>1, <1>4 DEF Nested
  <2> QED
    BY <1>4, <2>1 DEF Times
<1>5. CASE pc[t] = "fallback_connect" /\ x = 1
  BY <1>2, <1>5 DEF Times
<1> QED
  BY <1>3, <1>4, <1>5 DEF Uses

\* The locks, connections and threads of the pool keep their types; no mutex
\* is unlocked more often than it was locked.
THEOREM PoolTypes == Spec => []TypeOK
<1>1. Inv => TypeOK
  BY DEF Inv
<1> QED
  BY <1>1, InitInv, NextInv, PTL DEF Spec

\* acquire_conn hands a socket to one thread at a time: over the trylock
\* loop, the reconnects and the blocking fallback no two threads ever read,
\* write or reconnect the same connection.
THEOREM SocketsAreExclusive == Spec => []SocketExclusive
<1>1. Inv => SocketExclusive
  BY UsedIsLocked DEF Inv, Owned, SocketExclusive
<1> QED
  BY <1>1, InitInv, NextInv, PTL DEF Spec

\* No call returns the reply to an earlier request, although exec_raw
\* compares no sync id and leaves a packet unread when memory is short.
THEOREM RepliesAreOwn == Spec => []RepliesMatch
<1>1. Inv => RepliesMatch
  BY DEF Inv, Unread
<1> QED
  BY <1>1, InitInv, NextInv, PTL DEF Spec
=============================================================================
