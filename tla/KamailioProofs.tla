--------------------------- MODULE KamailioProofs ---------------------------
(***************************************************************************)
(* Theorems about KamailioClient, for every set of servers and every value *)
(* of allowed_timeouts and disable_time, and about the proxy that uses it  *)
(* (SipProxy), for every table of sessions and every hash function.        *)
(***************************************************************************)
EXTENDS SipProxy, SequenceTheorems, FiniteSetTheorems, WellFoundedInduction, TLAPS

\* Where the worker uses its connection.
Active == {"send", "recv", "body"}
Handshake == {"greeting", "auth", "authhead", "authbody"}

\* The type invariant and CooldownJustified are inductive only together with
\* this: a server that is not disabled has an error count below the limit,
\* and one that is connected has none; during the handshake the server is
\* neither disabled nor connected.
Counters ==
    /\ CooldownJustified
    /\ \A s \in Servers : /\ ~disabled[s] => errors[s] < AllowedTimeouts
                          /\ connected[s] => errors[s] = 0 /\ ~disabled[s]
    /\ pc \in Active => connected[srv]
    /\ pc \in Handshake => ~disabled[srv] /\ ~connected[srv]

\* The two parts of the answer to the command under way.
OwnHead == [part |-> "head", own |-> TRUE]
OwnBody == [part |-> "body", own |-> TRUE]

\* What may be unread on a connection.  Between commands it is nothing, or
\* the packet for which there was no memory; behind such a packet no length
\* can be read, so that connection serves no command any more.
Leftover(w) == Len(w) = 0 \/ (Len(w) = 1 /\ w[1].part = "body")
Expected(w) == Len(w) >= 2 /\ (w[1].part = "head" => Len(w) = 2 /\ w[2] = OwnBody)
Reading == {"recv", "body", "authhead", "authbody"}
Unread ==
    /\ \A s \in Servers : (s # srv \/ pc \notin Reading) => Leftover(wire[s])
    /\ pc = "greeting" => wire[srv] = <<>>
    /\ pc \in {"recv", "authhead"} => Expected(wire[srv])
    /\ pc \in {"body", "authbody"} => Len(wire[srv]) = 1 /\ wire[srv][1] = OwnBody
    /\ RepliesMatch

\* What reading one part leaves.
LEMMA Read ==
    ASSUME NEW w \in Seq(Parts), Len(w) >= 1
    PROVE  /\ Tail(w) \in Seq(Parts)
           /\ Len(Tail(w)) = Len(w) - 1
           /\ Len(w) >= 2 => Tail(w)[1] = w[2]
<1>1. w # <<>>
  BY EmptySeq
<1>2. /\ Tail(w) \in Seq(Parts)
      /\ Len(Tail(w)) = Len(w) - 1
      /\ \A i \in 1..Len(Tail(w)) : Tail(w)[i] = w[i + 1]
  BY <1>1, HeadTailProperties
<1>3. ASSUME Len(w) >= 2 PROVE Tail(w)[1] = w[2]
  <2>1. 1 \in 1..Len(Tail(w))
    BY <1>2, <1>3
  <2>2. Tail(w)[1] = w[1 + 1]
    BY <1>2, <2>1
  <2>3. 1 + 1 = 2
    OBVIOUS
  <2> QED
    BY <2>2, <2>3, Zenon
<1> QED
  BY <1>2, <1>3

\* A send puts the whole answer behind what was left unread.
LEMMA Sent ==
    ASSUME NEW w \in Seq(Parts)
    PROVE  /\ Stale(w) \o <<OwnHead, OwnBody>> \in Seq(Parts)
           /\ Leftover(w) => Expected(Stale(w) \o <<OwnHead, OwnBody>>)
<1> DEFINE old == Stale(w)
           new == <<OwnHead, OwnBody>>
<1>1. new \in Seq(Parts) /\ Len(new) = 2 /\ new[1] = OwnHead /\ new[2] = OwnBody
  BY DEF Parts, OwnHead, OwnBody
<1>2. \A i \in 1..Len(w) : w[i] \in Parts
  OBVIOUS
<1>3. \A i \in 1..Len(w) : [w[i] EXCEPT !.own = FALSE] \in Parts
                          /\ [w[i] EXCEPT !.own = FALSE].part = w[i].part
  BY <1>2 DEF Parts
<1>4. old = [i \in 1..Len(w) |-> [w[i] EXCEPT !.own = FALSE]]
  BY DEF Stale
<1>5. old \in Seq(Parts) /\ Len(old) = Len(w)
  BY <1>3, <1>4
<1>6. \A i \in 1..Len(w) : old[i].part = w[i].part
  BY <1>3, <1>4
<1> HIDE DEF old, new
<1>9. /\ old \o new \in Seq(Parts)
      /\ Len(old \o new) = Len(old) + Len(new)
      /\ \A i \in 1..Len(old) + Len(new) :
            (old \o new)[i] = IF i <= Len(old) THEN old[i] ELSE new[i - Len(old)]
  <2>1. old \in Seq(Parts)
    BY <1>5
  <2>2. new \in Seq(Parts)
    BY <1>1
  <2> QED
    BY ONLY <2>1, <2>2, ConcatProperties
<1>10. 1 \in 1..Len(old) + Len(new) /\ 2 \in 1..Len(old) + Len(new)
  BY <1>1, <1>5
<1>11. /\ (old \o new)[1] = IF 1 <= Len(old) THEN old[1] ELSE new[1 - Len(old)]
       /\ (old \o new)[2] = IF 2 <= Len(old) THEN old[2] ELSE new[2 - Len(old)]
  BY <1>9, <1>10
<1>7. /\ old \o new \in Seq(Parts)
      /\ Len(old \o new) = Len(w) + 2
      /\ Len(w) = 0 => (old \o new)[1] = OwnHead /\ (old \o new)[2] = OwnBody
      /\ Len(w) = 1 => (old \o new)[1] = old[1]
  <2>1. Len(old) = Len(w) /\ Len(new) = 2 /\ Len(w) \in Nat
    BY <1>1, <1>5
  <2>2. ASSUME Len(w) = 0 PROVE (old \o new)[1] = OwnHead /\ (old \o new)[2] = OwnBody
    BY <1>1, <1>11, <2>1, <2>2
  <2>3. ASSUME Len(w) = 1 PROVE (old \o new)[1] = old[1]
    BY <1>11, <2>1, <2>3
  <2> QED
    BY <1>9, <2>1, <2>2, <2>3
<1>8. ASSUME Leftover(w) PROVE Expected(old \o new)
  <2>1. CASE Len(w) = 0
    BY <1>7, <2>1 DEF Expected
  <2>2. CASE Len(w) = 1 /\ w[1].part = "body"
    BY <1>6, <1>7, <2>2 DEF Expected
  <2> QED
    BY <1>8, <2>1, <2>2 DEF Leftover
<1> QED
  BY <1>7, <1>8 DEF old, new

\* The part of the invariant that does not look at the wire.
IInv == TypeOK /\ Counters

\* Where tnt_conn_connect's caller goes on.
LEMMA AfterConnect ==
    ASSUME TypeOK, NEW ok \in BOOLEAN, Returns(ok)
    PROVE  /\ boot' \subseteq Servers /\ optional' \in BOOLEAN
           /\ srv' = srv /\ got' = got
           /\ pc' \in {"send", "idle", "off", "boot"}
           /\ pc' = "send" => ok
<1>1. boot' \subseteq Servers /\ optional' \in BOOLEAN /\ srv' = srv /\ got' = got
  BY DEF TypeOK, Returns
<1>2. CASE boot = {}
  BY <1>1, <1>2 DEF Returns
<1>3. CASE boot # {} /\ ~ok /\ ~optional
  BY <1>1, <1>3 DEF Returns
<1>4. CASE boot # {} /\ (ok \/ optional)
  BY <1>1, <1>4 DEF Returns
<1> QED
  BY <1>2, <1>3, <1>4 DEF TypeOK

\* A failure to connect: tnt_conn_fail counts it, and disables the server
\* exactly when the limit is reached.
LEMMA FailKeeps ==
    ASSUME IInv, NEW e \in 0..AllowedTimeouts - 1, NEW m \in 0..AllowedTimeouts,
           e <= m, Fail(e, m), Returns(FALSE)
    PROVE  IInv'
<1> USE KamailioAssumption DEF IInv, TypeOK, Counters, CooldownJustified, Active, Handshake
<1>1. /\ boot' \subseteq Servers /\ optional' \in BOOLEAN
      /\ srv' = srv /\ got' = got /\ pc' \in {"idle", "off", "boot"}
  BY AfterConnect
<1>2. NextStreak(m) \in 0..AllowedTimeouts /\ e + 1 <= NextStreak(m)
  BY DEF NextStreak
<1>3. TypeOK'
  BY <1>1, <1>2 DEF Fail, Close
<1>4. /\ errors'[srv] = e + 1 /\ streak'[srv] = NextStreak(m)
      /\ disabled'[srv] <=> e + 1 >= AllowedTimeouts
      /\ ~connected'[srv] /\ ~fd'[srv]
  BY DEF Fail, Close
<1>5. \A s \in Servers : s # srv =>
          /\ errors'[s] = errors[s] /\ streak'[s] = streak[s]
          /\ disabled'[s] = disabled[s]
          /\ connected'[s] = connected[s] /\ fd'[s] = fd[s]
  BY DEF Fail, Close
<1>6. ASSUME NEW s \in Servers
      PROVE  /\ errors'[s] <= streak'[s]
             /\ disabled'[s] => streak'[s] >= AllowedTimeouts /\ ~fd'[s] /\ ~connected'[s]
             /\ ~disabled'[s] => errors'[s] < AllowedTimeouts
             /\ connected'[s] => errors'[s] = 0 /\ ~disabled'[s]
  <2>1. CASE s = srv
    BY <1>2, <1>4, <2>1
  <2>2. CASE s # srv
    BY <1>5, <2>2
  <2> QED
    BY <2>1, <2>2
<1> QED
  BY <1>1, <1>3, <1>6

\* The end of a handshake that succeeds.
LEMMA ReadyKeeps ==
    ASSUME IInv, pc \in Handshake, Ready, wire' \in [Servers -> Seq(Parts)]
    PROVE  IInv'
<1> USE KamailioAssumption DEF IInv, TypeOK, Counters, CooldownJustified, Active, Handshake
<1>1. /\ boot' \subseteq Servers /\ optional' \in BOOLEAN
      /\ srv' = srv /\ got' = got /\ pc' \in {"send", "idle", "off", "boot"}
  BY AfterConnect DEF Ready
<1>2. connected' \in [Servers -> BOOLEAN] /\ errors' \in [Servers -> 0..AllowedTimeouts]
  BY DEF Ready
<1>3. fd' = fd /\ disabled' = disabled /\ streak' = streak /\ wait' = wait
  BY DEF Ready
<1>4. TypeOK'
  BY <1>1, <1>2, <1>3
<1>5. /\ connected'[srv] /\ errors'[srv] = 0 /\ ~disabled[srv]
      /\ \A s \in Servers : s # srv => connected'[s] = connected[s] /\ errors'[s] = errors[s]
  BY DEF Ready
<1>6. ASSUME NEW s \in Servers
      PROVE  /\ errors'[s] <= streak'[s]
             /\ disabled'[s] => streak'[s] >= AllowedTimeouts /\ ~fd'[s] /\ ~connected'[s]
             /\ ~disabled'[s] => errors'[s] < AllowedTimeouts
             /\ connected'[s] => errors'[s] = 0 /\ ~disabled'[s]
  <2>1. CASE s = srv
    BY <1>3, <1>5, <2>1
  <2>2. CASE s # srv
    <3>1. connected'[s] = connected[s] /\ errors'[s] = errors[s]
      BY <1>5, <2>2
    <3> QED
      BY <1>3, <3>1
  <2> QED
    BY <2>1, <2>2
<1> QED
  BY <1>1, <1>4, <1>5, <1>6

\* The client starts with every server enabled and no failure counted.
LEMMA InitIInv == Init => IInv
BY KamailioAssumption
   DEF Init, Fresh, IInv, TypeOK, Counters, CooldownJustified, Active, Handshake

\* Every step of the worker and the clock keeps the counters within their
\* limits and the cooldown justified.
LEMMA StepIInv == IInv /\ Unread /\ [Next]_vars => IInv'
<1> SUFFICES ASSUME IInv, Unread, [Next]_vars PROVE IInv'
  OBVIOUS
<1> USE KamailioAssumption DEF IInv, TypeOK, Counters, CooldownJustified, Active, Handshake
<1>1. ASSUME NEW s \in Servers, Begin(s) PROVE IInv'
  BY <1>1 DEF Begin, connVars
<1>13. ASSUME NEW s \in Servers, ChildInit(s) PROVE IInv'
  BY <1>13 DEF ChildInit, connVars
<1>14. CASE Restart
  BY <1>14 DEF Restart, Fresh
<1>2. CASE ConnectBarred
  <2>1. /\ boot' \subseteq Servers /\ optional' \in BOOLEAN
        /\ srv' = srv /\ got' = got /\ pc' \in {"idle", "off", "boot"}
    BY <1>2, AfterConnect DEF ConnectBarred
  <2> QED
    BY <1>2, <2>1 DEF ConnectBarred, Close
<1>3. CASE ConnectImpossible
  <2>1. /\ boot' \subseteq Servers /\ optional' \in BOOLEAN
        /\ srv' = srv /\ got' = got /\ pc' \in {"idle", "off", "boot"}
    BY <1>3, AfterConnect DEF ConnectImpossible
  <2> QED
    BY <1>3, <2>1 DEF ConnectImpossible, Close, InCooldown, ErrorsBefore, StreakBefore
<1>4. CASE ConnectFails
  <2> DEFINE e == ErrorsBefore(srv)
             m == StreakBefore(srv)
  <2>1. e \in 0..AllowedTimeouts - 1 /\ m \in 0..AllowedTimeouts /\ e <= m
    BY DEF ErrorsBefore, StreakBefore
  <2> HIDE DEF e, m
  <2>2. Fail(e, m) /\ Returns(FALSE)
    BY <1>4 DEF ConnectFails, e, m
  <2> QED
    BY ONLY IInv, <2>1, <2>2, FailKeeps
<1>5. CASE Connect
  BY <1>5 DEF Connect, InCooldown, ErrorsBefore, StreakBefore
<1>15. CASE Greeting
  <2>1. CASE srv \notin Users /\ Ready
    <3>1. wire' \in [Servers -> Seq(Parts)] /\ pc \in Handshake
      BY <1>15 DEF Greeting
    <3> QED
      BY <2>1, <3>1, ReadyKeeps
  <2>2. CASE /\ srv \in Users /\ pc' = "auth"
             /\ UNCHANGED <<connVars, srv, boot, optional, got, streak>>
    BY <1>15, <2>2 DEF Greeting, connVars
  <2> QED
    BY <1>15, <2>1, <2>2 DEF Greeting
<1>16. CASE AuthSend
  <2>1. wire' = [wire EXCEPT ![srv] = Stale(wire[srv]) \o <<OwnHead, OwnBody>>]
    BY <1>16 DEF AuthSend, SendAll, OwnHead, OwnBody
  <2>2. wire' \in [Servers -> Seq(Parts)]
    BY <2>1, Sent
  <2> QED
    BY <1>16, <2>2 DEF AuthSend, connVars
<1>17. CASE AuthHead
  <2>1. wire[srv] # <<>>
    BY <1>17 DEF AuthHead, RecvAll, Unread, Expected
  <2>2. wire' \in [Servers -> Seq(Parts)]
    BY <1>17, <2>1 DEF AuthHead, RecvAll
  <2> QED
    BY <1>17, <2>2 DEF AuthHead, RecvAll, connVars
<1>18. CASE AuthOk
  <2>1. pc = "authbody" /\ Len(wire[srv]) = 1 /\ wire[srv] \in Seq(Parts)
    BY <1>18 DEF AuthOk, RecvAll, Unread
  <2>2. Tail(wire[srv]) \in Seq(Parts)
    <3>1. Len(wire[srv]) >= 1
      BY <2>1
    <3> QED
      BY <2>1, <3>1, Read, Zenon
  <2>3. wire' \in [Servers -> Seq(Parts)]
    BY <1>18, <2>2 DEF AuthOk, RecvAll
  <2>4. Ready /\ pc \in Handshake
    BY <1>18 DEF AuthOk, RecvAll
  <2> QED
    BY <2>3, <2>4, ReadyKeeps
<1>19. CASE HandshakeFails
  <2>1. /\ errors[srv] \in 0..AllowedTimeouts - 1 /\ streak[srv] \in 0..AllowedTimeouts
        /\ errors[srv] <= streak[srv]
    BY <1>19 DEF HandshakeFails
  <2>2. Fail(errors[srv], streak[srv]) /\ Returns(FALSE)
    BY <1>19 DEF HandshakeFails
  <2> QED
    BY ONLY IInv, <2>1, <2>2, FailKeeps
<1>6. CASE Send
  <2>1. wire' = [wire EXCEPT ![srv] = Stale(wire[srv]) \o <<OwnHead, OwnBody>>]
    BY <1>6 DEF Send, SendAll, OwnHead, OwnBody
  <2>2. wire' \in [Servers -> Seq(Parts)]
    BY <2>1, Sent
  <2> QED
    BY <1>6, <2>2 DEF Send, connVars
<1>7. CASE IoFails
  BY <1>7 DEF IoFails, Fail, Close, NextStreak
<1>8. CASE RecvHead
  <2>1. wire[srv] # <<>>
    BY <1>8 DEF RecvHead, RecvAll, Unread, Expected
  <2>2. wire' \in [Servers -> Seq(Parts)]
    BY <1>8, <2>1 DEF RecvHead, RecvAll
  <2> QED
    BY <1>8, <2>2 DEF RecvHead, RecvAll, connVars
<1>9. CASE NoMemory
  BY <1>9 DEF NoMemory, connVars
<1>10. CASE RecvBody
  <2>4. pc = "body" /\ Len(wire[srv]) = 1 /\ wire[srv] \in Seq(Parts)
    BY <1>10 DEF RecvBody, RecvAll, Unread
  <2>5. Tail(wire[srv]) \in Seq(Parts)
    <3>1. Len(wire[srv]) >= 1
      BY <2>4
    <3> QED
      BY <2>4, <3>1, Read, Zenon
  <2>1. wire' \in [Servers -> Seq(Parts)]
    BY <1>10, <2>5 DEF RecvBody, RecvAll
  <2>2. errors' \in [Servers -> 0..AllowedTimeouts]
    BY <1>10 DEF RecvBody, RecvAll
  <2>3. \A s \in Servers : errors'[s] = errors[s]
    BY <1>10 DEF RecvBody, RecvAll
  <2> QED
    BY <1>10, <2>1, <2>2, <2>3 DEF RecvBody, RecvAll
<1>11. CASE Tick
  <2>1. wait' \in [Servers -> 0..DisableTime]
    BY <1>11 DEF Tick
  <2> QED
    BY <1>11, <2>1 DEF Tick
<1>12. CASE UNCHANGED vars
  BY <1>12 DEF vars
<1> QED
  BY <1>1, <1>2, <1>3, <1>4, <1>5, <1>6, <1>7, <1>8, <1>9, <1>10, <1>11, <1>12, <1>13,
     <1>14, <1>15, <1>16, <1>17, <1>18, <1>19 DEF Next, Worker

\* At the start nothing is unread.
LEMMA InitUnread == Init => Unread
BY DEF Init, Fresh, Unread, Reading, RepliesMatch, Leftover

\* Every step keeps what is unread as described: replies that come late are
\* gone with the connection they were on.
LEMMA StepUnread == IInv /\ Unread /\ [Next]_vars => Unread'
<1> SUFFICES ASSUME IInv, Unread, [Next]_vars PROVE Unread'
  OBVIOUS
<1> USE DEF IInv, TypeOK, Unread, RepliesMatch, Reading
<1> DEFINE Others == \A s \in Servers : s # srv => wire'[s] = wire[s]
<1>0. ASSUME Close PROVE Others /\ Leftover(wire'[srv])
  BY <1>0 DEF Close, Leftover
<1>20. ASSUME NEW ok \in BOOLEAN, Returns(ok), Others, Leftover(wire'[srv])
       PROVE  Unread'
  <2>1. srv' = srv /\ got' = got /\ pc' \in {"send", "idle", "off", "boot"}
    BY <1>20, AfterConnect
  <2> QED
    BY <1>20, <2>1
<1>1. ASSUME NEW s \in Servers, Begin(s) PROVE Unread'
  BY <1>1 DEF Begin
<1>13. ASSUME NEW s \in Servers, ChildInit(s) PROVE Unread'
  BY <1>13 DEF ChildInit
<1>14. CASE Restart
  BY <1>14 DEF Restart, Fresh, Leftover
<1>2. CASE ConnectBarred
  BY <1>0, <1>2, <1>20 DEF ConnectBarred
<1>3. CASE ConnectImpossible
  BY <1>0, <1>3, <1>20 DEF ConnectImpossible
<1>4. CASE ConnectFails
  BY <1>0, <1>4, <1>20 DEF ConnectFails, Fail
<1>5. CASE Connect
  <2>1. Others /\ Leftover(wire'[srv])
    BY <1>5 DEF Connect, Leftover
  <2> QED
    BY <1>5, <2>1 DEF Connect
<1>15. CASE Greeting
  <2>1. Others /\ wire'[srv] = wire[srv] /\ wire[srv] = <<>>
    BY <1>15 DEF Greeting
  <2>2. CASE srv \notin Users /\ Ready
    <3>1. Leftover(wire'[srv])
      BY <2>1 DEF Leftover
    <3>2. Returns(TRUE)
      BY <2>2 DEF Ready
    <3> QED
      BY <1>20, <2>1, <3>1, <3>2
  <2>3. CASE /\ srv \in Users /\ pc' = "auth"
             /\ UNCHANGED <<connVars, srv, boot, optional, got, streak>>
    BY <1>15, <2>1, <2>3 DEF Greeting
  <2> QED
    BY <1>15, <2>2, <2>3 DEF Greeting
<1>16. CASE AuthSend
  <2>1. wire' = [wire EXCEPT ![srv] = Stale(wire[srv]) \o <<OwnHead, OwnBody>>]
    BY <1>16 DEF AuthSend, SendAll, OwnHead, OwnBody
  <2>2. wire[srv] \in Seq(Parts) /\ Leftover(wire[srv])
    BY <1>16 DEF AuthSend
  <2>3. wire'[srv] = Stale(wire[srv]) \o <<OwnHead, OwnBody>> /\ Others
    BY <2>1
  <2>4. Expected(wire'[srv])
    BY <2>2, <2>3, Sent
  <2> QED
    BY <1>16, <2>3, <2>4 DEF AuthSend
<1>17. CASE AuthHead
  <2>1. Len(wire[srv]) = 2 /\ wire[srv][2] = OwnBody /\ wire[srv] \in Seq(Parts)
    BY <1>17 DEF AuthHead, RecvAll, Expected
  <2>2. wire'[srv] = Tail(wire[srv]) /\ Others
    BY <1>17 DEF AuthHead, RecvAll
  <2>3. Len(wire[srv]) >= 1 /\ Len(wire[srv]) >= 2
    BY <2>1
  <2>4. /\ Len(Tail(wire[srv])) = Len(wire[srv]) - 1
        /\ Tail(wire[srv])[1] = wire[srv][2]
    BY <2>1, <2>3, Read, Zenon
  <2>5. Len(Tail(wire[srv])) = 1
    BY <2>1, <2>4
  <2>6. Len(wire'[srv]) = 1 /\ wire'[srv][1] = OwnBody
    BY ONLY <2>1, <2>2, <2>4, <2>5, Zenon
  <2> QED
    BY <1>17, <2>2, <2>6 DEF AuthHead, RecvAll
<1>18. CASE AuthOk
  <2>1. Len(wire[srv]) = 1 /\ wire'[srv] = Tail(wire[srv]) /\ Others
    BY <1>18 DEF AuthOk, RecvAll
  <2>2. Leftover(wire'[srv])
    BY <2>1 DEF Leftover
  <2> QED
    BY <1>18, <1>20, <2>1, <2>2 DEF AuthOk, RecvAll, Ready
<1>19. CASE HandshakeFails
  BY <1>0, <1>19, <1>20 DEF HandshakeFails, Fail
<1>6. CASE Send
  <2>1. wire' = [wire EXCEPT ![srv] = Stale(wire[srv]) \o <<OwnHead, OwnBody>>]
    BY <1>6 DEF Send, SendAll, OwnHead, OwnBody
  <2>4. wire[srv] \in Seq(Parts) /\ Leftover(wire[srv])
    BY <1>6 DEF Send
  <2>5. wire'[srv] = Stale(wire[srv]) \o <<OwnHead, OwnBody>>
    BY <2>1
  <2>2. Expected(wire'[srv])
    BY <2>4, <2>5, Sent
  <2>3. Others
    BY <2>1
  <2> QED
    BY <1>6, <2>2, <2>3 DEF Send
<1>7. CASE IoFails
  BY <1>0, <1>7 DEF IoFails, Fail
<1>8. CASE RecvHead
  <2>1. Len(wire[srv]) = 2 /\ wire[srv][2] = OwnBody
    BY <1>8 DEF RecvHead, RecvAll, Expected
  <2>2. wire'[srv] = Tail(wire[srv]) /\ Others
    BY <1>8 DEF RecvHead, RecvAll
  <2>4. wire[srv] \in Seq(Parts)
    OBVIOUS
  <2>3. Len(wire'[srv]) = 1 /\ wire'[srv][1] = OwnBody
    <3>1. Len(wire[srv]) >= 1 /\ Len(wire[srv]) >= 2
      BY <2>1
    <3>2. /\ Len(Tail(wire[srv])) = Len(wire[srv]) - 1
          /\ Tail(wire[srv])[1] = wire[srv][2]
      BY <2>4, <3>1, Read, Zenon
    <3>3. Len(Tail(wire[srv])) = 1
      BY <2>1, <3>2
    <3>4. Tail(wire[srv])[1] = OwnBody
      BY <2>1, <3>2, Zenon
    <3> QED
      BY ONLY <2>2, <3>3, <3>4, Zenon
  <2> QED
    BY <1>8, <2>2, <2>3 DEF RecvHead, RecvAll
<1>9. CASE NoMemory
  <2>1. Leftover(wire[srv])
    BY <1>9 DEF NoMemory, Leftover, OwnBody
  <2> QED
    BY <1>9, <2>1 DEF NoMemory
<1>10. CASE RecvBody
  <2>1. Len(wire[srv]) = 1 /\ wire[srv][1] = OwnBody
    BY <1>10 DEF RecvBody, RecvAll
  <2>2. got' = "own"
    BY <1>10, <2>1 DEF RecvBody, RecvAll, OwnBody
  <2>3. wire'[srv] = Tail(wire[srv]) /\ Others
    BY <1>10 DEF RecvBody, RecvAll
  <2>4. Leftover(wire'[srv])
    BY <2>1, <2>3 DEF Leftover
  <2> QED
    BY <1>10, <2>2, <2>3, <2>4 DEF RecvBody, RecvAll
<1>11. CASE Tick
  BY <1>11 DEF Tick
<1>12. CASE UNCHANGED vars
  BY <1>12 DEF vars
<1> QED
  BY <1>1, <1>2, <1>3, <1>4, <1>5, <1>6, <1>7, <1>8, <1>9, <1>10, <1>11, <1>12, <1>13,
     <1>14, <1>15, <1>16, <1>17, <1>18, <1>19 DEF Next, Worker

\* Everything above, in every state of the client.
LEMMA Invariant == Spec => [](IInv /\ Unread)
<1>1. Init => IInv /\ Unread
  BY InitIInv, InitUnread
<1>2. IInv /\ Unread /\ [Next]_vars => IInv' /\ Unread'
  BY StepIInv, StepUnread
<1> QED
  BY <1>1, <1>2, PTL DEF Spec

\* The client's state is well typed; in particular no error count passes
\* allowed_timeouts.
THEOREM TypeCorrect == Spec => []TypeOK
<1>1. IInv => TypeOK
  BY DEF IInv
<1> QED
  BY <1>1, Invariant, PTL

\* A server is in cooldown only after allowed_timeouts failures in a row
\* (tnt_conn_fail), and has no connection then.
THEOREM CooldownIsJustified == Spec => []CooldownJustified
<1>1. IInv => CooldownJustified
  BY DEF IInv, Counters
<1> QED
  BY <1>1, Invariant, PTL

\* No command returns the reply to an earlier one, although tnt_exec_call
\* compares no sync id.
THEOREM NoStaleReply == Spec => []RepliesMatch
<1>1. Unread => RepliesMatch
  BY DEF Unread
<1> QED
  BY <1>1, Invariant, PTL
-----------------------------------------------------------------------------
(***************************************************************************)
(* The SIP proxy                                                           *)
(***************************************************************************)

\* The proxy goes on when tnt_child_init has failed.
LEMMA StartKeeps == ASSUME IInv, Unread, StartAnyway PROVE IInv' /\ Unread'
<1>1. pc = "off" /\ pc' = "idle"
      /\ UNCHANGED <<connected, fd, disabled, errors, wait, wire, srv, boot, optional, got,
                     streak>>
  BY DEF StartAnyway, connVars
<1>2. IInv'
  BY <1>1 DEF IInv, TypeOK, Counters, CooldownJustified, Active, Handshake
<1>3. Unread'
  BY <1>1 DEF Unread, Reading, Leftover, RepliesMatch
<1> QED
  BY <1>2, <1>3

\* Whatever the proxy does, its client takes one of its own steps or starts.
LEMMA ProxySteps ==
    [ProxyNext]_<<vars, proxyVars>> => [Next]_vars \/ StartAnyway
<1> SUFFICES ASSUME [ProxyNext]_<<vars, proxyVars>> PROVE [Next]_vars \/ StartAnyway
  OBVIOUS
<1>1. CASE Datagram
  <2>1. ASSUME NEW c \in Calls \cup {Blank}, NEW a \in Addrs, Invite(c, a) PROVE Next
    BY <2>1, ProxyAssumption DEF Invite, Next
  <2> QED
    BY <1>1, <2>1 DEF Datagram, Response, ByeFromUas, Ack, ByeFromCaller
<1>2. CASE Forward \/ ClientStep \/ ClockStep \/ ProxyRestart \/ UNCHANGED <<vars, proxyVars>>
  BY <1>2 DEF Forward, ClientStep, ClockStep, ProxyRestart, Next
<1> QED
  BY <1>1, <1>2 DEF ProxyNext

\* The client inside the proxy keeps what the theorems above say of it alone,
\* although the proxy does not look at the result of tnt_child_init.
THEOREM ProxyKeepsClient ==
    ProxySpec => []TypeOK /\ []CooldownJustified /\ []RepliesMatch
<1>1. ProxyInit => IInv /\ Unread
  BY InitIInv, InitUnread DEF ProxyInit
<1>2. IInv /\ Unread /\ [ProxyNext]_<<vars, proxyVars>> => IInv' /\ Unread'
  BY ProxySteps, StartKeeps, StepIInv, StepUnread
<1>3. IInv /\ Unread => TypeOK /\ CooldownJustified /\ RepliesMatch
  BY DEF IInv, Counters, Unread
<1> QED
  BY <1>1, <1>2, <1>3, PTL DEF ProxySpec

\* Min picks the least element of a set of natural numbers.
LEMMA LeastOf ==
    ASSUME NEW S \in SUBSET Nat, S # {}
    PROVE  Min(S) \in S /\ \A y \in S : Min(S) <= y
<1>1. PICK m \in S : TRUE
  OBVIOUS
<1> DEFINE B == {T \in SUBSET (0..m) : \E x \in S : T = 0..x}
           R == StrictSubsetOrdering(0..m)
<1>2. IsWellFoundedOn(R, SUBSET (0..m))
  <2>1. m \in Int /\ 0 \in Int
    BY <1>1
  <2>2. IsFiniteSet(0..m)
    BY <2>1, FS_Interval
  <2> HIDE DEF B
  <2> QED
    BY <2>2, FS_StrictSubsetOrderingWellFounded, FS_FiniteSubsetsOfFinite
<1>3. B \subseteq SUBSET (0..m) /\ 0..m \in B
  BY <1>1
<1>4. PICK T \in B : \A U \in B : <<U, T>> \notin R
  <2> HIDE DEF B, R
  <2> QED
    BY <1>2, <1>3, WFMin
<1>5. PICK x \in S : T = 0..x /\ x <= m
  <2>1. PICK x \in S : T = 0..x /\ T \in SUBSET (0..m)
    BY <1>4
  <2>2. x \in 0..x /\ x \in Nat
    OBVIOUS
  <2>3. x \in 0..m
    BY <2>1, <2>2
  <2> QED
    BY <2>1, <2>3
<1>6. ASSUME NEW y \in S, ~ x <= y PROVE FALSE
  <2>1. 0..y \in SUBSET (0..m) /\ 0..y \in SUBSET (0..x) /\ x \notin 0..y /\ x \in 0..x
    BY <1>1, <1>5, <1>6
  <2>2. 0..y \in B
    BY <2>1
  <2>3. <<0..y, T>> \in R
    BY <1>3, <1>4, <1>5, <2>1 DEF StrictSubsetOrdering
  <2> QED
    BY <1>4, <2>2, <2>3
<1> QED
  BY <1>6 DEF Min

\* Of the slots that a search for c visits in table g, the first with c in it
\* holds the address a.
Holds(g, c, a) ==
    \E i \in 0..Probes - 1 :
        /\ g[Slot(c, i)].call = c /\ g[Slot(c, i)].addr = a
        /\ \A j \in 0..Probes - 1 : g[Slot(c, j)].call = c => i <= j

\* The table has its type, and a search meets the session of the last INVITE
\* before any other of the same call.
Routed ==
    /\ g_sessions \in [0..Slots - 1 -> [call : Calls \cup {Blank}, addr : Addrs \cup {None}]]
    /\ caller \in [Calls -> Addrs \cup {None}]
    /\ \A c \in Calls : caller[c] # None => Holds(g_sessions, c, caller[c])

\* The steps of a search are slots of the table.
LEMMA SlotInTable == \A c \in Calls : \A i \in 0..Probes - 1 : Slot(c, i) \in 0..Slots - 1
<1> SUFFICES ASSUME NEW c \in Calls, NEW i \in 0..Probes - 1 PROVE Slot(c, i) \in 0..Slots - 1
  OBVIOUS
<1>1. Slots \in Nat /\ Slots > 0 /\ Hash[c] \in Nat /\ i \in Nat
  BY ProxyAssumption
<1>2. \A n, m \in Nat : m > 0 => n % m \in 0..m - 1
  OBVIOUS
<1>3. Hash[c] + i \in Nat
  BY <1>1
<1> QED
  BY <1>1, <1>2, <1>3 DEF Slot

\* A search meets slots it visits, in the order of the steps.
LEMMA MeetsFirst ==
    ASSUME NEW c \in Calls, NEW calls, Meets(c, calls) # {}
    PROVE  /\ Min(Meets(c, calls)) \in Meets(c, calls)
           /\ Min(Meets(c, calls)) \in 0..Probes - 1
           /\ \A i \in Meets(c, calls) : Min(Meets(c, calls)) <= i
<1>1. Meets(c, calls) \in SUBSET Nat /\ Meets(c, calls) \subseteq 0..Probes - 1
  BY DEF Meets
<1> QED
  BY <1>1, LeastOf

\* No session has an empty Call-ID.
LEMMA CallMatches == Matches(Blank) = {} /\ \A c \in Calls : Matches(c) = Meets(c, {c})
<1>1. {Blank} \ {Blank} = {} /\ \A c \in Calls : {c} \ {Blank} = {c}
  BY ProxyAssumption
<1>2. Meets(Blank, {}) = {}
  BY DEF Meets
<1> QED
  BY <1>1, <1>2, Zenon DEF Matches

\* find_session finds what the table holds.
LEMMA FindsHeld ==
    ASSUME NEW c \in Calls, NEW a, Holds(g_sessions, c, a) PROVE find_session(c) = a
<1>1. PICK i \in 0..Probes - 1 :
          /\ g_sessions[Slot(c, i)].call = c /\ g_sessions[Slot(c, i)].addr = a
          /\ \A j \in 0..Probes - 1 : g_sessions[Slot(c, j)].call = c => i <= j
  BY DEF Holds
<1> DEFINE M == Meets(c, {c})
<1>2. i \in M /\ \A j \in M : i <= j
  BY <1>1 DEF Meets
<1>3. Min(M) \in M /\ Min(M) \in 0..Probes - 1 /\ Min(M) <= i
  BY <1>2, MeetsFirst
<1>4. i <= Min(M)
  BY <1>2, <1>3
<1> HIDE DEF M
<1>5. Min(M) = i
  BY <1>3, <1>4
<1> QED
  BY <1>1, <1>2, <1>5, CallMatches DEF find_session, M

\* A slot that held none of d's sessions and holds none of them afterwards
\* does not change what a search for d finds.
LEMMA OthersHeld ==
    ASSUME NEW g, NEW k, NEW t, NEW d \in Calls, NEW a, Holds(g, d, a),
           DOMAIN g = 0..Slots - 1, g[k].call # d, t.call # d
    PROVE  Holds([g EXCEPT ![k] = t], d, a)
<1> DEFINE h == [g EXCEPT ![k] = t]
<1>1. PICK i \in 0..Probes - 1 :
          /\ g[Slot(d, i)].call = d /\ g[Slot(d, i)].addr = a
          /\ \A j \in 0..Probes - 1 : g[Slot(d, j)].call = d => i <= j
  BY DEF Holds
<1>2. \A j \in 0..Probes - 1 : Slot(d, j) \in DOMAIN g
  BY SlotInTable
<1>3. \A s \in DOMAIN g : IF s = k THEN h[s] = t ELSE h[s] = g[s]
  OBVIOUS
<1> HIDE DEF h
<1>4. h[Slot(d, i)] = g[Slot(d, i)]
  BY <1>1, <1>2, <1>3
<1>5. \A j \in 0..Probes - 1 : h[Slot(d, j)].call = d => g[Slot(d, j)].call = d
  BY <1>2, <1>3
<1>6. Holds(h, d, a)
  BY <1>1, <1>4, <1>5 DEF Holds
<1> QED
  BY <1>6 DEF h

\* store_session: the new session lies before any older one of the call.
LEMMA StoreKeeps ==
    ASSUME Routed, NEW c \in Calls \cup {Blank}, NEW a \in Addrs, store_session(c, a)
    PROVE  Routed'
<1>1. CASE c = Blank \/ Room(c) = {}
  BY <1>1 DEF store_session, Routed
<1>2. CASE c \in Calls /\ c # Blank /\ Room(c) # {}
  <2> DEFINE m == Min(Room(c))
             k == Slot(c, m)
             t == [call |-> c, addr |-> a]
  <2>1. /\ m \in 0..Probes - 1 /\ m \in Room(c) /\ \A i \in Room(c) : m <= i
    BY <1>2, MeetsFirst DEF Room
  <2>2. /\ g_sessions' = [g_sessions EXCEPT ![k] = t]
        /\ caller' = [caller EXCEPT ![c] = a]
    BY <1>2 DEF store_session
  <2>3. /\ DOMAIN g_sessions = 0..Slots - 1 /\ k \in 0..Slots - 1
        /\ g_sessions[k].call \in {c, Blank} /\ Blank \notin Calls /\ a # None
    BY <1>2, <2>1, SlotInTable, ProxyAssumption DEF Routed, Room, Meets
  <2>4. /\ c \in Calls /\ t.call = c /\ t.addr = a
        /\ t \in [call : Calls \cup {Blank}, addr : Addrs \cup {None}]
    BY <1>2
  <2>5. \A i \in 0..Probes - 1 : g_sessions[Slot(c, i)].call \in {c, Blank} => m <= i
    BY <2>1 DEF Room, Meets
  <2> HIDE DEF m, k, t
  <2>6. /\ g_sessions' \in [0..Slots - 1 -> [call : Calls \cup {Blank}, addr : Addrs \cup {None}]]
        /\ caller' \in [Calls -> Addrs \cup {None}]
    BY <2>2, <2>3, <2>4 DEF Routed
  <2>7. Holds(g_sessions', c, a)
    <3>1. g_sessions'[Slot(c, m)] = t
      BY <2>2, <2>3 DEF k
    <3>2. ASSUME NEW j \in 0..Probes - 1, g_sessions'[Slot(c, j)].call = c PROVE m <= j
      <4>1. Slot(c, j) \in DOMAIN g_sessions
        BY <2>3, <2>4, SlotInTable
      <4>2. CASE Slot(c, j) = k
        BY <2>3, <2>5, <4>2
      <4>3. CASE Slot(c, j) # k
        BY <2>2, <2>5, <3>2, <4>1, <4>3
      <4> QED
        BY <4>2, <4>3
    <3> QED
      BY <2>1, <2>4, <3>1, <3>2 DEF Holds
  <2>8. ASSUME NEW d \in Calls, caller'[d] # None PROVE Holds(g_sessions', d, caller'[d])
    <3>1. CASE d = c
      <4>1. caller'[d] = a
        BY <2>2, <3>1 DEF Routed
      <4> QED
        BY <2>7, <3>1, <4>1
    <3>2. CASE d # c
      <4>1. caller'[d] = caller[d] /\ g_sessions[k].call # d /\ t.call # d
        BY <2>2, <2>3, <2>4, <3>2 DEF Routed
      <4>2. Holds(g_sessions, d, caller[d])
        BY <2>8, <4>1 DEF Routed
      <4>3. Holds([g_sessions EXCEPT ![k] = t], d, caller[d])
        BY <2>3, <4>1, <4>2, OthersHeld
      <4> QED
        BY <2>2, <4>1, <4>3
    <3> QED
      BY <3>1, <3>2
  <2> QED
    BY <2>6, <2>8 DEF Routed
<1> QED
  BY <1>1, <1>2

\* delete_session: the slot that is emptied held no other call.
LEMMA DeleteKeeps ==
    ASSUME Routed, NEW c \in Calls \cup {Blank}, delete_session(c) PROVE Routed'
<1>1. /\ caller' \in [Calls -> Addrs \cup {None}]
      /\ \A d \in Calls : caller'[d] = IF d = c THEN None ELSE caller[d]
  BY DEF delete_session, Routed
<1>2. CASE Matches(c) = {}
  <2>1. g_sessions' = g_sessions
    BY <1>2 DEF delete_session
  <2>2. ASSUME NEW d \in Calls, caller'[d] # None PROVE Holds(g_sessions', d, caller'[d])
    BY <1>1, <2>1, <2>2 DEF Routed
  <2> QED
    BY <1>1, <2>1, <2>2 DEF Routed
<1>3. CASE Matches(c) # {}
  <2> DEFINE m == Min(Matches(c))
             k == Slot(c, m)
  <2>0. c \in Calls /\ Matches(c) = Meets(c, {c})
    BY <1>3, CallMatches
  <2>1. m \in 0..Probes - 1 /\ m \in Matches(c)
    BY <1>3, <2>0, MeetsFirst
  <2>2. g_sessions' = [g_sessions EXCEPT ![k] = Empty]
    BY <1>3 DEF delete_session
  <2>3. /\ DOMAIN g_sessions = 0..Slots - 1 /\ k \in 0..Slots - 1 /\ g_sessions[k].call = c
        /\ Blank \notin Calls
    BY <2>0, <2>1, SlotInTable, ProxyAssumption DEF Routed, Meets
  <2>4. /\ Empty \in [call : Calls \cup {Blank}, addr : Addrs \cup {None}]
        /\ Empty.call = Blank
    BY DEF Empty
  <2> HIDE DEF m, k
  <2>5. g_sessions' \in [0..Slots - 1 -> [call : Calls \cup {Blank}, addr : Addrs \cup {None}]]
    BY <2>2, <2>3, <2>4 DEF Routed
  <2>6. ASSUME NEW d \in Calls, caller'[d] # None PROVE Holds(g_sessions', d, caller'[d])
    <3>1. d # c /\ caller'[d] = caller[d]
      BY <1>1, <2>6
    <3>2. Holds(g_sessions, d, caller[d])
      BY <2>6, <3>1 DEF Routed
    <3>3. Holds([g_sessions EXCEPT ![k] = Empty], d, caller[d])
      BY <2>3, <2>4, <3>1, <3>2, OthersHeld
    <3> QED
      BY <2>2, <3>1, <3>3
  <2> QED
    BY <1>1, <2>5, <2>6 DEF Routed
<1> QED
  BY <1>2, <1>3

\* The empty table of a process that starts.
LEMMA StartsEmpty ==
    /\ [i \in 0..Slots - 1 |-> Empty] \in
          [0..Slots - 1 -> [call : Calls \cup {Blank}, addr : Addrs \cup {None}]]
    /\ [c \in Calls |-> None] \in [Calls -> Addrs \cup {None}]
BY DEF Empty

\* find_session returns where the last INVITE of a call came from: neither
\* store_session nor delete_session of another call, in whatever slots the
\* hashes make them share, comes between.
THEOREM ResponsesReachCaller == ProxySpec => RoutesToLatest
<1>1. ProxyInit => Routed
  BY StartsEmpty DEF ProxyInit, Routed
<1>2. Routed /\ [ProxyNext]_<<vars, proxyVars>> => Routed'
  <2> SUFFICES ASSUME Routed, [ProxyNext]_<<vars, proxyVars>> PROVE Routed'
    OBVIOUS
  <2>1. ASSUME NEW c \in Calls \cup {Blank}, NEW a \in Addrs, Invite(c, a) PROVE Routed'
    BY <2>1, StoreKeeps DEF Invite
  <2>2. ASSUME NEW c \in Calls \cup {Blank}, ByeFromUas(c) PROVE Routed'
    BY <2>2, DeleteKeeps DEF ByeFromUas
  <2>3. ASSUME ProxyRestart PROVE Routed'
    BY <2>3, StartsEmpty DEF ProxyRestart, Routed
  <2>4. ASSUME UNCHANGED <<g_sessions, caller>> PROVE Routed'
    BY <2>4 DEF Routed
  <2>5. CASE Datagram
    BY <2>1, <2>2, <2>4, <2>5 DEF Datagram, Response, Ack, ByeFromCaller
  <2>6. CASE StartAnyway \/ Forward \/ ClientStep \/ ClockStep \/ UNCHANGED <<vars, proxyVars>>
    BY <2>4, <2>6 DEF StartAnyway, Forward, ClientStep, ClockStep, proxyVars
  <2> QED
    BY <2>3, <2>5, <2>6 DEF ProxyNext
<1>3. Routed => [\A c \in Calls : Response(c) /\ caller[c] # None => out' = {caller[c]}]_
                   <<vars, proxyVars>>
  <2> SUFFICES ASSUME Routed, NEW c \in Calls, Response(c), caller[c] # None
               PROVE  out' = {caller[c]}
    OBVIOUS
  <2>1. find_session(c) = caller[c]
    BY FindsHeld DEF Routed
  <2> QED
    BY <2>1 DEF Response
<1> QED
  BY <1>1, <1>2, <1>3, PTL DEF ProxySpec, RoutesToLatest
=============================================================================
