------------------------------ MODULE WebProofs ------------------------------
(***************************************************************************)
(* The web server: its event hub, for any number of connections and any    *)
(* channel capacities, and the runner of its proxy, for any number of      *)
(* clients and of runs, which is proved for clients that wait for the      *)
(* answer to each request.                                                 *)
(***************************************************************************)
EXTENDS Hub, ProxyRunner, SequenceTheorems, FiniteSetTheorems, TLAPS

-----------------------------------------------------------------------------
(* The hub: types *)

\* Every hub, producer and handler step keeps the variables in their ranges;
\* no channel holds more than its capacity.
LEMMA TypeStep == HubTypeOK /\ [HubNext]_hubVars => HubTypeOK'
<1> SUFFICES ASSUME HubTypeOK, [HubNext]_hubVars PROVE HubTypeOK'
    OBVIOUS
<1> USE HubAssumption DEF HubTypeOK
<1>0. CASE UNCHANGED hubVars
    BY <1>0 DEF hubVars
<1>1. CASE Broadcast
    BY <1>1 DEF Broadcast
<1>2. CASE Dispatch
  <2>1. Head(queue) \in Nat /\ Tail(queue) \in Seq(Nat) /\ Len(Tail(queue)) = Len(queue) - 1
    BY <1>2 DEF Dispatch
  <2>2. queue' \in Seq(Nat) /\ Len(queue') <= BroadcastCap
    BY <1>2, <2>1 DEF Dispatch
  <2>3. send' \in [Client -> Seq(Nat)]
    BY <1>2, <2>1 DEF Dispatch
  <2>4. \A c \in Client : Len(send'[c]) <= SendCap
    <3> TAKE c \in Client
    <3>1. CASE c \in clients \ Stale
      BY <1>2, <2>1, <3>1 DEF Dispatch, Stale, Full
    <3>2. CASE c \notin clients \ Stale
      BY <1>2, <3>2 DEF Dispatch
    <3> QED BY <3>1, <3>2
  <2>5. log' \in Seq(Nat) /\ closes' \in [Client -> Nat] /\ clients' \in SUBSET Client
    BY <1>2, <2>1 DEF Dispatch
  <2> QED BY <1>2, <2>2, <2>3, <2>4, <2>5 DEF Dispatch
<1>3. ASSUME NEW c \in Client, Register(c) PROVE HubTypeOK'
    BY <1>3 DEF Register
<1>4. ASSUME NEW c \in Client, Unregister(c) PROVE HubTypeOK'
    BY <1>4 DEF Unregister
<1>5. ASSUME NEW c \in Client, Stream(c) PROVE HubTypeOK'
  <2>1. /\ Head(send[c]) \in Nat /\ Tail(send[c]) \in Seq(Nat)
        /\ Len(Tail(send[c])) = Len(send[c]) - 1
    BY <1>5 DEF Stream
  <2>2. send' \in [Client -> Seq(Nat)] /\ got' \in [Client -> Seq(Nat)]
    BY <1>5, <2>1 DEF Stream
  <2>3. \A d \in Client : Len(send'[d]) <= SendCap
    BY <1>5, <2>1 DEF Stream
  <2> QED BY <1>5, <2>2, <2>3 DEF Stream
<1>6. ASSUME NEW c \in Client, SeesClosed(c) PROVE HubTypeOK'
    BY <1>6 DEF SeesClosed
<1>7. ASSUME NEW c \in Client, Disconnect(c) PROVE HubTypeOK'
    BY <1>7 DEF Disconnect
<1> QED
    BY <1>0, <1>1, <1>2, <1>3, <1>4, <1>5, <1>6, <1>7 DEF HubNext, HandlerStep

\* The hub is type correct for any set of connections.
THEOREM HubTypeCorrect == HubSpec => []HubTypeOK
<1>1. HubInit => HubTypeOK
    BY HubAssumption DEF HubInit, HubTypeOK
<1> QED BY <1>1, TypeStep, PTL DEF HubSpec

-----------------------------------------------------------------------------
(* No panic *)

\* Besides NoPanic: a connection that has not been registered yet has no
\* closed channel and one that is gone is not in the map, so that a channel
\* enters the map once.
PanicInv ==
    /\ HubTypeOK
    /\ NoPanic
    /\ \A c \in Client : handler[c] = "connecting" => closes[c] = 0
    /\ \A c \in clients : handler[c] \in {"streaming", "leaving"}

\* Every step keeps a channel from being closed twice.
LEMMA PanicStep == PanicInv /\ [HubNext]_hubVars => PanicInv'
<1> SUFFICES ASSUME PanicInv, [HubNext]_hubVars PROVE PanicInv'
  OBVIOUS
<1>0. HubTypeOK'
  BY TypeStep DEF PanicInv
<1> USE <1>0 DEF PanicInv, NoPanic, HubTypeOK
<1>1. CASE UNCHANGED <<clients, handler, closes>>
  BY <1>1
<1>2. CASE Dispatch
  <2>1. /\ clients' = clients \ Stale /\ handler' = handler
        /\ Stale \subseteq clients
        /\ \A c \in Client :
              closes'[c] = IF c \in Stale THEN closes[c] + 1 ELSE closes[c]
    BY <1>2 DEF Dispatch, Stale
  <2>2. \A c \in Client : handler[c] = "connecting" => c \notin Stale
    BY <2>1
  <2>3. NoPanic'
    BY <2>1
  <2> QED BY <2>1, <2>2, <2>3
<1>3. ASSUME NEW c \in Client, Register(c) PROVE PanicInv'
  BY <1>3 DEF Register
<1>4. ASSUME NEW c \in Client, Unregister(c) PROVE PanicInv'
  BY <1>4 DEF Unregister
<1>5. ASSUME NEW c \in Client, SeesClosed(c) \/ Disconnect(c) PROVE PanicInv'
  BY <1>5 DEF SeesClosed, Disconnect
<1> QED
  BY <1>1, <1>2, <1>3, <1>4, <1>5
     DEF HubNext, HandlerStep, Broadcast, Stream, hubVars

LEMMA PanicInit == HubInit => PanicInv
BY HubAssumption DEF HubInit, HubTypeOK, PanicInv, NoPanic

\* The hub never closes a send channel twice and never sends on a closed one,
\* whatever the order of slow readers, disconnects and broadcasts.
THEOREM HubNeverPanics == HubSpec => []NoPanic
<1>1. PanicInv => NoPanic
  BY DEF PanicInv
<1> QED
  BY <1>1, PanicInit, PanicStep, PTL DEF HubSpec

\* The hub's loop keeps its channels within their capacity and never panics.
THEOREM HubSoundSafe == HubSpec => []HubSound
<1>1. HubTypeOK /\ NoPanic => HubSound
    BY DEF HubSound
<1> QED BY <1>1, HubTypeCorrect, HubNeverPanics, PTL

-----------------------------------------------------------------------------
(* Delivery *)

\* The first k elements of f are those of l after its j-th.
Follows(f, k, l, j) == \A i \in 1..k : f[i] = l[j + i]

\* How far in the log connection c has been served.
Reached(c) == joined[c] + Len(got[c]) + Len(send[c])

\* What connection c was sent, and what waits in its channel, message by message.
StreamInv(c) ==
    /\ joined[c] <= Len(log)
    /\ handler[c] = "connecting" => got[c] = <<>> /\ send[c] = <<>>
    /\ handler[c] # "connecting" =>
          /\ Reached(c) <= Len(log)
          /\ Follows(got[c], Len(got[c]), log, joined[c])
          /\ Follows(send[c], Len(send[c]), log, joined[c] + Len(got[c]))
    /\ c \in clients => Reached(c) = Len(log)

HubInv == PanicInv /\ \A c \in Client : StreamInv(c)

\* l may grow behind what f follows.
LEMMA FollowsGrown ==
    ASSUME NEW f, NEW l, NEW m, NEW j \in Nat, NEW k \in Nat, NEW n \in Nat, j + k <= n,
           Follows(f, k, l, j), \A i \in 1..n : m[i] = l[i]
    PROVE  Follows(f, k, m, j)
  BY DEF Follows

\* One element more.
LEMMA FollowsAppend ==
    ASSUME NEW f, NEW g, NEW l, NEW j \in Nat, NEW k \in Nat, Follows(f, k, l, j),
           \A i \in 1..k : g[i] = f[i], g[k + 1] = l[j + k + 1]
    PROVE  Follows(g, k + 1, l, j)
<1> SUFFICES ASSUME NEW i \in 1..k + 1 PROVE g[i] = l[j + i]
  BY DEF Follows
<1>1. CASE i = k + 1
  BY <1>1
<1>2. CASE i \in 1..k
  BY <1>2 DEF Follows
<1> QED
  BY <1>1, <1>2

\* One element less, at the front.
LEMMA FollowsTail ==
    ASSUME NEW f, NEW g, NEW l, NEW j \in Nat, NEW k \in Nat, k > 0, Follows(f, k, l, j),
           \A i \in 1..k - 1 : g[i] = f[i + 1]
    PROVE  Follows(g, k - 1, l, j + 1)
<1> SUFFICES ASSUME NEW i \in 1..k - 1 PROVE g[i] = l[j + 1 + i]
  BY DEF Follows
<1>1. i + 1 \in 1..k /\ j + (i + 1) = j + 1 + i
  OBVIOUS
<1>2. f[i + 1] = l[j + (i + 1)]
  BY <1>1 DEF Follows
<1> QED
  BY <1>1, <1>2

\* One after the other.
LEMMA FollowsConcat ==
    ASSUME NEW f, NEW g, NEW h, NEW l, NEW j \in Nat, NEW k \in Nat, NEW n \in Nat,
           Follows(f, k, l, j), Follows(g, n, l, j + k),
           \A i \in 1..k + n : h[i] = IF i <= k THEN f[i] ELSE g[i - k]
    PROVE  Follows(h, k + n, l, j)
<1> SUFFICES ASSUME NEW i \in 1..k + n PROVE h[i] = l[j + i]
  BY DEF Follows
<1>1. CASE i <= k
  BY <1>1 DEF Follows
<1>2. CASE ~(i <= k)
  <2>1. i - k \in 1..n /\ j + k + (i - k) = j + i
    BY <1>2
  <2>2. g[i - k] = l[j + k + (i - k)]
    BY <2>1 DEF Follows
  <2> QED
    BY <1>2, <2>1, <2>2
<1> QED
  BY <1>1, <1>2

\* A connection whose own state did not change stays where it is in the log.
LEMMA StreamFrame ==
    ASSUME NEW c \in Client, StreamInv(c), HubTypeOK, log' = log, joined'[c] = joined[c], got'[c] = got[c],
           send'[c] = send[c], handler'[c] = "connecting" <=> handler[c] = "connecting",
           c \in clients' => c \in clients
    PROVE  StreamInv(c)'
  BY DEF StreamInv, Reached

LEMMA RegisterStream ==
    ASSUME HubInv, NEW d \in Client, Register(d), NEW c \in Client
    PROVE  StreamInv(c)'
<1> USE DEF HubInv, PanicInv, HubTypeOK
<1>1. CASE c # d
  BY <1>1, StreamFrame DEF Register
<1>2. CASE c = d
  <2>1. handler'[c] = "streaming" /\ joined'[c] = Len(log) /\ log' = log
    BY <1>2 DEF Register
  <2>2. got'[c] = <<>> /\ send'[c] = <<>>
    BY <1>2 DEF Register, StreamInv
  <2>3. Len(got'[c]) = 0 /\ Len(send'[c]) = 0 /\ Len(log) \in Nat
    BY <2>2
  <2>4. Reached(c)' = Len(log)
    BY <2>1, <2>3 DEF Reached
  <2>5. Follows(got'[c], 0, log, Len(log)) /\ Follows(send'[c], 0, log, Len(log) + 0)
    BY DEF Follows
  <2> QED
    BY <2>1, <2>3, <2>4, <2>5 DEF StreamInv
<1> QED
  BY <1>1, <1>2

\* The position in the log, and the part of it that was written out.
LEMMA ReachedFacts ==
    ASSUME HubTypeOK, NEW c \in Client
    PROVE  /\ joined[c] \in Nat /\ Len(got[c]) \in Nat /\ Len(send[c]) \in Nat /\ Len(log) \in Nat
           /\ joined[c] + Len(got[c]) \in Nat
           /\ Reached(c) = (joined[c] + Len(got[c])) + Len(send[c]) /\ Reached(c) \in Nat
           /\ joined[c] + Len(got[c]) <= Reached(c)
  BY DEF HubTypeOK, Reached

\* The log grows, and so does the channel of every client that stays.
LEMMA DispatchStream ==
    ASSUME HubInv, Dispatch, NEW c \in Client
    PROVE  StreamInv(c)'
<1> DEFINE m == Head(queue)
           at == joined[c] + Len(got[c])
<1>0. /\ StreamInv(c) /\ HubTypeOK /\ HubTypeOK' /\ (c \in clients => handler[c] # "connecting")
      /\ at \in Nat /\ Reached(c) = at + Len(send[c]) /\ at <= Reached(c) /\ Len(send[c]) \in Nat
      /\ Len(log) \in Nat /\ joined[c] \in Nat /\ Len(got[c]) \in Nat /\ Reached(c) \in Nat
  BY TypeStep, ReachedFacts DEF HubInv, PanicInv, HubNext
<1>1. /\ Len(log') = Len(log) + 1 /\ log'[Len(log) + 1] = m
      /\ \A i \in 1..Len(log) : log'[i] = log[i]
  BY <1>0 DEF HubTypeOK, Dispatch
<1>2. joined' = joined /\ got' = got /\ handler' = handler /\ clients' = clients \ Stale
  BY DEF Dispatch
<1>3. Reached(c)' = at + Len(send'[c])
  BY <1>0, <1>2, ReachedFacts DEF HubTypeOK, Reached
<1> HIDE DEF at
<1>4. ASSUME handler[c] # "connecting"
      PROVE  /\ Follows(got[c], Len(got[c]), log', joined[c])
             /\ Follows(send[c], Len(send[c]), log', at)
  <2>1. /\ at <= Len(log) /\ at + Len(send[c]) <= Len(log)
    BY <1>0, <1>4 DEF StreamInv
  <2>2. joined[c] + Len(got[c]) <= Len(log)
    BY <2>1 DEF at
  <2>3. Follows(got[c], Len(got[c]), log, joined[c]) /\ Follows(send[c], Len(send[c]), log, at)
    BY <1>0, <1>4 DEF StreamInv, at
  <2> QED
    BY <1>0, <1>1, <2>1, <2>2, <2>3, FollowsGrown
<1>5. CASE c \in clients \ Stale
  <2>1. /\ Len(send'[c]) = Len(send[c]) + 1 /\ send'[c][Len(send[c]) + 1] = m
        /\ \A i \in 1..Len(send[c]) : send'[c][i] = send[c][i]
    BY <1>0, <1>5 DEF HubTypeOK, Dispatch
  <2>2. handler[c] # "connecting" /\ at + Len(send[c]) = Len(log)
    BY <1>0, <1>5 DEF StreamInv
  <2>3. send'[c][Len(send[c]) + 1] = log'[at + Len(send[c]) + 1]
    BY <1>1, <2>1, <2>2
  <2>4. Follows(send'[c], Len(send[c]) + 1, log', at)
    BY <1>0, <1>4, <2>1, <2>2, <2>3, FollowsAppend
  <2>5. at + Len(send'[c]) = Len(log')
    <3>1. PICK q \in Nat, n \in Nat, a \in Nat : q = Len(send[c]) /\ n = Len(log) /\ a = at
      BY <1>0
    <3>2. Len(send'[c]) = q + 1 /\ Len(log') = n + 1 /\ a + q = n
      BY <1>1, <2>1, <2>2, <3>1
    <3>3. a + (q + 1) = n + 1
      BY <3>2
    <3> QED
      BY <3>1, <3>2, <3>3
  <2>6. joined[c] <= Len(log')
    BY <1>0, <1>1 DEF StreamInv
  <2>7. Reached(c)' <= Len(log')
    BY <1>0, <1>1, <1>3, <2>5
  <2> QED
    BY <1>2, <1>3, <1>4, <2>1, <2>2, <2>4, <2>5, <2>6, <2>7 DEF StreamInv, at
<1>6. CASE c \notin clients \ Stale
  <2>1. send'[c] = send[c] /\ c \notin clients'
    BY <1>0, <1>2, <1>6 DEF HubTypeOK, Dispatch
  <2>2. joined[c] <= Len(log') /\ (handler[c] # "connecting" => Reached(c)' <= Len(log'))
    BY <1>0, <1>1, <1>3, <2>1 DEF StreamInv
  <2> QED
    BY <1>0, <1>2, <1>4, <2>1, <2>2 DEF StreamInv, at
<1> QED
  BY <1>5, <1>6

\* A message moves from the channel to the connection.
LEMMA StreamStream ==
    ASSUME HubInv, NEW d \in Client, Stream(d), NEW c \in Client
    PROVE  StreamInv(c)'
<1>0. StreamInv(c) /\ HubTypeOK /\ HubTypeOK'
  BY TypeStep DEF HubInv, PanicInv, HubNext, HandlerStep
<1>1. CASE c # d
  BY <1>0, <1>1, StreamFrame DEF HubTypeOK, Stream
<1>2. CASE c = d
  <2>1. PICK g \in Seq(Nat), s \in Seq(Nat), j \in Nat : g = got[c] /\ s = send[c] /\ j = joined[c]
    BY <1>0 DEF HubTypeOK
  <2>2. PICK g2 \in Seq(Nat), s2 \in Seq(Nat) : g2 = got'[c] /\ s2 = send'[c]
    BY <1>0 DEF HubTypeOK
  <2>3. /\ log' = log /\ joined' = joined /\ handler' = handler /\ clients' = clients
        /\ handler[c] = "streaming" /\ g2 = Append(g, Head(s)) /\ s2 = Tail(s) /\ s # <<>>
    BY <1>0, <1>2, <2>1, <2>2 DEF HubTypeOK, Stream
  <2>4. /\ Len(g) \in Nat /\ Len(g2) = Len(g) + 1 /\ g2[Len(g) + 1] = s[1]
        /\ \A i \in 1..Len(g) : g2[i] = g[i]
    BY <2>3
  <2>5. /\ Len(s) \in Nat /\ Len(s) > 0 /\ Len(s2) = Len(s) - 1
        /\ \A i \in 1..Len(s) - 1 : s2[i] = s[i + 1]
    BY <2>3, HeadTailProperties
  <2>6. /\ j + Len(g) + Len(s) <= Len(log) /\ j <= Len(log)
        /\ Follows(g, Len(g), log, j) /\ Follows(s, Len(s), log, j + Len(g))
        /\ c \in clients => j + Len(g) + Len(s) = Len(log)
    BY <1>0, <2>1, <2>3 DEF StreamInv, Reached
  <2>7. j + Len(g) \in Nat /\ s[1] = log[j + Len(g) + 1]
    <3>1. 1 \in 1..Len(s)
      BY <2>5
    <3>2. s[1] = log[j + Len(g) + 1]
      BY <2>6, <3>1 DEF Follows
    <3> QED
      BY <2>4, <3>2
  <2>8. Follows(g2, Len(g) + 1, log, j)
    <3>1. g2[Len(g) + 1] = log[j + Len(g) + 1]
      BY <2>4, <2>7
    <3> QED
      BY <2>4, <2>6, <3>1, FollowsAppend
  <2>9. Follows(s2, Len(s) - 1, log, j + Len(g) + 1)
    BY <2>5, <2>6, <2>7, FollowsTail
  <2>10. j + Len(g2) = j + Len(g) + 1 /\ j + Len(g2) + Len(s2) = j + Len(g) + Len(s)
    BY <2>4, <2>5
  <2>11. /\ Follows(g2, Len(g2), log, j) /\ Follows(s2, Len(s2), log, j + Len(g2))
         /\ j + Len(g2) + Len(s2) <= Len(log) /\ (c \in clients => j + Len(g2) + Len(s2) = Len(log))
    BY <2>4, <2>5, <2>6, <2>8, <2>9, <2>10
  <2> QED
    BY <2>1, <2>2, <2>3, <2>6, <2>11 DEF StreamInv, Reached
<1> QED
  BY <1>1, <1>2

\* A handler leaves the hub, or is about to.
LEMMA LeaveStream ==
    ASSUME HubInv, NEW d \in Client, Unregister(d) \/ SeesClosed(d) \/ Disconnect(d), NEW c \in Client
    PROVE  StreamInv(c)'
<1>1. StreamInv(c) /\ HubTypeOK
  BY DEF HubInv, PanicInv
<1>2. /\ log' = log /\ joined' = joined /\ got' = got /\ send' = send /\ clients' \subseteq clients
      /\ handler'[c] = "connecting" <=> handler[c] = "connecting"
  BY <1>1 DEF HubTypeOK, Unregister, SeesClosed, Disconnect
<1> QED
  BY <1>1, <1>2, StreamFrame

LEMMA DeliveryStep == HubInv /\ [HubNext]_hubVars => HubInv'
<1> SUFFICES ASSUME HubInv, [HubNext]_hubVars PROVE HubInv'
  OBVIOUS
<1>1. PanicInv'
  BY PanicStep DEF HubInv
<1>2. ASSUME NEW c \in Client PROVE StreamInv(c)'
  <2>1. CASE UNCHANGED hubVars \/ Broadcast
    BY <2>1, StreamFrame DEF HubInv, PanicInv, hubVars, Broadcast
  <2> QED
    BY <2>1, RegisterStream, DispatchStream, StreamStream, LeaveStream DEF HubNext, HandlerStep
<1> QED
  BY <1>1, <1>2 DEF HubInv

\* The pointwise invariant says what InOrderNoGap says of sequences.
LEMMA StreamInOrder ==
    ASSUME HubInv, NEW c \in Client, handler[c] # "connecting"
    PROVE  /\ Len(Delivered(c)) <= Len(Due(c))
           /\ Delivered(c) = SubSeq(Due(c), 1, Len(Delivered(c)))
           /\ c \in clients => Delivered(c) = Due(c)
<1>1. StreamInv(c) /\ HubTypeOK
  BY DEF HubInv, PanicInv
<1>2. PICK g \in Seq(Nat), s \in Seq(Nat), l \in Seq(Nat), j \in Nat :
        g = got[c] /\ s = send[c] /\ l = log /\ j = joined[c]
  BY <1>1 DEF HubTypeOK
<1>3. /\ j <= Len(l) /\ j + Len(g) + Len(s) <= Len(l)
      /\ Follows(g, Len(g), l, j) /\ Follows(s, Len(s), l, j + Len(g))
      /\ c \in clients => j + Len(g) + Len(s) = Len(l)
  BY <1>1, <1>2 DEF StreamInv, Reached
<1>4. PICK d : d = g \o s
  OBVIOUS
<1>5. PICK e : e = SubSeq(l, j + 1, Len(l))
  OBVIOUS
<1>6. PICK k \in Nat : k = Len(g) + Len(s)
  OBVIOUS
<1>7. d \in Seq(Nat) /\ Len(d) = k /\ Follows(d, k, l, j)
  <2>1. /\ d \in Seq(Nat) /\ Len(d) = Len(g) + Len(s)
        /\ \A i \in 1..Len(g) + Len(s) : d[i] = IF i <= Len(g) THEN g[i] ELSE s[i - Len(g)]
    BY <1>4, ConcatProperties
  <2>2. Len(g) \in Nat /\ Len(s) \in Nat
    OBVIOUS
  <2>3. Follows(d, Len(g) + Len(s), l, j)
    BY <1>3, <2>1, <2>2, FollowsConcat
  <2> QED
    BY <1>6, <2>1, <2>3
<1>8. PICK n \in Nat : n = Len(l) - j
  <2>1. PICK q \in Nat : q = Len(l)
    OBVIOUS
  <2>2. j <= q
    BY <1>3, <2>1
  <2>3. q - j \in Nat
    BY <2>2
  <2> QED
    BY <2>1, <2>3
<1>9. e \in Seq(Nat) /\ Len(e) = n /\ Follows(e, n, l, j)
  <2>1. \A i \in j + 1 .. Len(l) : l[i] \in Nat
    OBVIOUS
  <2>2. /\ e \in Seq(Nat) /\ Len(e) = IF j + 1 <= Len(l) THEN Len(l) - (j + 1) + 1 ELSE 0
        /\ \A i \in 1 .. Len(l) - (j + 1) + 1 : e[i] = l[j + 1 + i - 1]
    <3>1. j + 1 \in Int /\ Len(l) \in Int
      OBVIOUS
    <3> QED
      BY ONLY <1>5, <2>1, <3>1, SubSeqProperties
  <2>3. Len(e) = n
    BY <1>3, <1>8, <2>2
  <2>4. \A i \in 1..n : e[i] = l[j + i]
    BY <1>8, <2>2
  <2> QED
    BY <2>2, <2>3, <2>4 DEF Follows
<1>10. k <= n /\ (c \in clients => k = n)
  BY <1>3, <1>6, <1>8
<1>11. \A i \in 1..k : d[i] = e[i] /\ e[i] \in Nat
  <2> TAKE i \in 1..k
  <2>1. i \in 1..n
    BY <1>10
  <2>2. d[i] = l[j + i] /\ e[i] = l[j + i]
    BY <1>7, <1>9, <2>1 DEF Follows
  <2>3. e[i] \in Nat
    BY <1>9, <2>1
  <2> QED
    BY <2>2, <2>3
<1>12. PICK p : p = SubSeq(e, 1, k)
  OBVIOUS
<1>13. p \in Seq(Nat) /\ Len(p) = k /\ \A i \in 1..k : p[i] = e[i]
  <2>1. /\ p \in Seq(Nat) /\ Len(p) = IF 1 <= k THEN k - 1 + 1 ELSE 0
        /\ \A i \in 1 .. k - 1 + 1 : p[i] = e[1 + i - 1]
    <3>1. 1 \in Int /\ k \in Int /\ \A i \in 1..k : e[i] \in Nat
      BY <1>11
    <3> QED
      BY <1>12, <3>1, SubSeqProperties
  <2>2. Len(p) = k
    BY <2>1
  <2>3. ASSUME NEW i \in 1..k PROVE p[i] = e[i]
    <3>1. i \in 1 .. k - 1 + 1 /\ 1 + i - 1 = i
      OBVIOUS
    <3> QED
      BY <2>1, <3>1
  <2> QED
    BY <2>1, <2>2, <2>3
<1>14. d = p
  BY <1>7, <1>11, <1>13, SeqEqual
<1>15. c \in clients => d = e
  BY <1>7, <1>9, <1>10, <1>11, SeqEqual
<1>16. Delivered(c) = d /\ Due(c) = e
  BY <1>2, <1>4, <1>5 DEF Delivered, Due
<1> QED
  BY <1>7, <1>9, <1>10, <1>12, <1>14, <1>15, <1>16

\* Every connection is sent the dispatched messages from its registration on, in
\* order and without a gap, whatever the slow readers and the drops of clients.
THEOREM HubInOrder == HubSpec => []InOrderNoGap
<1>1. HubInit => HubInv
  BY PanicInit, HubAssumption DEF HubInit, HubInv, StreamInv, Reached
<1>2. HubInv => InOrderNoGap
  BY StreamInOrder DEF HubInv, PanicInv, InOrderNoGap
<1> QED
  BY <1>1, <1>2, DeliveryStep, PTL DEF HubSpec

-----------------------------------------------------------------------------
(* The proxy runner: what holds between the steps *)

\* The last run, if there is one, has come to one of these phases.
LastIn(set) == started > 0 /\ phase[started] \in set

\* The last run has set the state to idle, or there is none.
LastOver == started = 0 \/ phase[started] \in {"ending", "done"}

\* A Stop waits for the WaitGroup.
StopPending == \E c \in Stoppers : stop[c] = "waiting"

\* Runs are numbered in order.  Only the last one is before its end, so that the
\* shared fields p.service and cancelFunc are its own; of the earlier ones
\* nothing is left but the last step, leaving the WaitGroup.
RunsInv ==
    /\ \A r \in Runs : phase[r] = "none" <=> r > started
    /\ \A r \in Runs : r < started => phase[r] \in {"ending", "done"}
    /\ service = started /\ cancelFn = started
    /\ ctx \subseteq 1..started

\* The state says where the last run is.
StateInv ==
    /\ state \in {"idle", "error"} <=> LastOver
    /\ state = "starting" => LastIn({"spawned"})
    /\ state = "running" => LastIn({"entering", "serving", "closing", "closed"})
    /\ state = "stopping" => started \in ctx

\* A service holds OS state until its own goroutine closes it.
HeldInv ==
    /\ \A r \in Runs : r \in held <=> phase[r] \in {"spawned", "entering", "serving", "closing"}
    /\ \A r \in Runs : phase[r] = "serving" => exec[r] = r

\* Whoever cancelled the last run still waits for it; until then the UI may be
\* out of date.
PendingInv ==
    /\ started \in ctx /\ phase[started] # "done" => StopPending
    /\ started = 0 \/ LastIn({"closing", "closed", "ending", "done"}) => ui = "stopped" \/ StopPending

\* A run that was past its start when the shutdown began was seen by the
\* manager, or had been stopped before; the server exits when nobody waits.
ClosingInv ==
    /\ stop[Manager] = "waiting" => closing \in {"closed", "exited"}
    /\ \A r \in Runs : r > started => atSignal[r] = "none"
    /\ closing \in {"looked", "closed"} /\ started \in RunningAtSignal => LastOver \/ started \in ctx
    /\ closing = "exited" /\ GraceSuffices => (started \in RunningAtSignal \cup ctx => LastOver)

IInv == TypeOK /\ RunsInv /\ StateInv /\ HeldInv /\ PendingInv /\ ClosingInv

-----------------------------------------------------------------------------
(* The steps, one by one *)

LEMMA InitIInv == Init => IInv
  BY RunnerAssumption
  DEF Init, IInv, TypeOK, RunsInv, StateInv, HeldInv, PendingInv, ClosingInv, LastOver, LastIn,
      StopPending, Runs, Stoppers, Phases, RunningAtSignal

\* Start finds no run before its end: the state would be busy, or stopping with
\* a Stop that the client waits for.
LEMMA StartStep == ~Concurrent /\ IInv /\ Start => IInv'
<1> SUFFICES ASSUME ~Concurrent, IInv, Start PROVE IInv'
  OBVIOUS
<1> USE RunnerAssumption DEF Runs, Stoppers
<1> DEFINE n == started + 1
<1>1. LastOver /\ ~StopPending /\ closing # "exited"
  BY DEF IInv, StateInv, PendingInv, TypeOK, RunsInv, Start, Busy, MayStart, StopPending, LastOver, Up
<1>2. /\ started \in Nat /\ n \in Runs /\ started' = n /\ service' = n /\ cancelFn' = n
      /\ phase[n] = "none" /\ phase'[n] = "spawned" /\ n \notin ctx
      /\ \A r \in Runs : r # n => phase'[r] = phase[r]
  BY DEF IInv, TypeOK, RunsInv, Start
<1>3. TypeOK'
  BY <1>2 DEF IInv, TypeOK, Start, Phases
<1>4. RunsInv'
  BY <1>1, <1>2, <1>3 DEF IInv, TypeOK, RunsInv, Start, LastOver
<1>5. StateInv'
  BY <1>2, <1>3 DEF Start, StateInv, LastOver, LastIn
<1>6. HeldInv'
  BY <1>2, <1>3 DEF IInv, TypeOK, HeldInv, Start
<1>7. PendingInv'
  BY <1>1, <1>2, <1>3 DEF IInv, TypeOK, PendingInv, Start, LastOver, LastIn, StopPending
<1>8. ClosingInv'
  <2>1. atSignal' = atSignal /\ closing' = closing /\ stop' = stop /\ atSignal[n] = "none"
    BY <1>2 DEF IInv, TypeOK, ClosingInv, Start
  <2> QED
    BY <1>1, <1>2, <1>3, <2>1 DEF IInv, TypeOK, ClosingInv, RunningAtSignal
<1> QED
  BY <1>3, <1>4, <1>5, <1>6, <1>7, <1>8 DEF IInv

LEMMA StartFailsStep == ~Concurrent /\ IInv /\ StartFails => IInv'
<1> SUFFICES ASSUME ~Concurrent, IInv, StartFails PROVE IInv'
  OBVIOUS
<1>1. LastOver /\ ~StopPending
  BY DEF IInv, StateInv, PendingInv, TypeOK, RunsInv, StartFails, Busy, MayStart, StopPending, LastOver
<1> QED
  BY <1>1 DEF IInv, TypeOK, RunsInv, StateInv, HeldInv, PendingInv, ClosingInv, LastOver, LastIn,
      StopPending, StartFails, RunningAtSignal

\* The locked part of Stop, called by a client or by the manager.
LEMMA CancelStep ==
    ASSUME IInv, NEW c \in Stoppers, CancelRun(c),
           (closing' = closing /\ c # Manager) \/ closing' = "closed",
           closing # "exited",
           UNCHANGED <<service, cancelFn, started, phase, exec, held, ui, atSignal>>
    PROVE  IInv'
<1> USE RunnerAssumption DEF Runs, Stoppers
<1>1. started > 0 /\ started \in Nat /\ ctx' = ctx \cup {started} /\ state' = "stopping" /\ ~LastOver
  BY DEF IInv, TypeOK, RunsInv, StateInv, CancelRun, Busy, LastIn, LastOver
<1>2. StopPending' /\ (\A d \in Stoppers : d # c => stop'[d] = stop[d])
  BY DEF IInv, TypeOK, CancelRun, StopPending
<1>3. TypeOK'
  BY <1>1 DEF IInv, TypeOK, CancelRun
<1>4. RunsInv'
  BY <1>1, <1>3 DEF IInv, TypeOK, RunsInv
<1>5. StateInv'
  BY <1>1 DEF StateInv, LastOver
<1>6. HeldInv' /\ PendingInv'
  BY <1>2 DEF IInv, HeldInv, PendingInv, LastIn
<1>7. ClosingInv'
  BY <1>1, <1>2 DEF IInv, ClosingInv, TypeOK, RunningAtSignal, LastOver
<1> QED
  BY <1>3, <1>4, <1>5, <1>6, <1>7 DEF IInv

LEMMA StopReturnsStep ==
    ASSUME IInv, NEW c \in Stoppers, StopReturns(c)
    PROVE  IInv'
<1> USE RunnerAssumption DEF Runs, Stoppers
<1>1. started > 0 => phase[started] = "done"
  BY DEF IInv, TypeOK, RunsInv, StopReturns, Live
<1>2. LastOver'
  BY <1>1 DEF IInv, TypeOK, LastOver, StopReturns
<1>3. TypeOK'
  BY DEF IInv, TypeOK, StopReturns
<1>4. RunsInv' /\ StateInv' /\ HeldInv'
  BY DEF IInv, RunsInv, StateInv, HeldInv, StopReturns, LastOver, LastIn
<1>5. PendingInv'
  BY <1>1 DEF IInv, RunsInv, TypeOK, PendingInv, StopReturns, LastIn
<1>6. ClosingInv'
  BY <1>2, <1>3 DEF IInv, TypeOK, ClosingInv, StopReturns, RunningAtSignal, Up
<1> QED
  BY <1>3, <1>4, <1>5, <1>6 DEF IInv

\* A run that is before its end is the last one, and the fields are its own.
LEMMA RunIsLast ==
    ASSUME IInv, NEW r \in Runs, phase[r] \notin {"none", "ending", "done"}
    PROVE  /\ r = started /\ service = r /\ cancelFn = r /\ r > 0
           /\ ~LastOver /\ state \in {"starting", "running", "stopping"}
<1> USE RunnerAssumption DEF Runs
<1>1. r \in Nat /\ started \in Nat /\ r > 0
  BY DEF IInv, TypeOK
<1>2. ~(r > started) /\ ~(r < started)
  BY DEF IInv, RunsInv
<1>3. r = started
  BY <1>1, <1>2
<1>4. ~LastOver
  BY <1>1, <1>3 DEF LastOver
<1>5. state \in {"starting", "running", "stopping"}
  BY <1>4 DEF IInv, TypeOK, StateInv
<1> QED
  BY <1>1, <1>3, <1>4, <1>5 DEF IInv, RunsInv

LEMMA RunStepInv ==
    ASSUME IInv, NEW r \in Runs, RunStep(r)
    PROVE  IInv'
<1> USE RunnerAssumption DEF Runs
<1>0. Up /\ closing' = closing /\ atSignal' = atSignal
  BY DEF RunStep, RunSetRunning, RunEnter, RunExit, RunClose, RunSetIdle, RunDone
<1>1. CASE RunSetRunning(r)
  <2>1. r = started /\ service = r /\ ~LastOver /\ r > 0
    BY <1>1, RunIsLast DEF RunSetRunning
  <2> QED
    BY <1>1, <2>1
    DEF IInv, TypeOK, RunsInv, StateInv, HeldInv, PendingInv, ClosingInv, LastOver, LastIn, StopPending,
        RunSetRunning, RunningAtSignal, Phases
<1>2. CASE RunEnter(r)
  <2>1. r = started /\ service = r /\ ~LastOver /\ r > 0
    BY <1>2, RunIsLast DEF RunEnter
  <2> QED
    BY <1>2, <2>1
    DEF IInv, TypeOK, RunsInv, StateInv, HeldInv, PendingInv, ClosingInv, LastOver, LastIn, StopPending,
        RunEnter, RunningAtSignal, Phases
<1>3. CASE RunExit(r)
  <2>1. r = started /\ service = r /\ ~LastOver /\ r > 0
    BY <1>3, RunIsLast DEF RunExit
  <2> QED
    BY <1>3, <2>1
    DEF IInv, TypeOK, RunsInv, StateInv, HeldInv, PendingInv, ClosingInv, LastOver, LastIn, StopPending,
        RunExit, RunningAtSignal, Phases
<1>4. CASE RunClose(r)
  <2>1. r = started /\ service = r /\ ~LastOver /\ r > 0
    BY <1>4, RunIsLast DEF RunClose
  <2> QED
    BY <1>4, <2>1
    DEF IInv, TypeOK, RunsInv, StateInv, HeldInv, PendingInv, ClosingInv, LastOver, LastIn, StopPending,
        RunClose, RunningAtSignal, Phases
<1>5. CASE RunSetIdle(r)
  <2>1. r = started /\ service = r /\ ~LastOver /\ r > 0
    BY <1>5, RunIsLast DEF RunSetIdle
  <2> QED
    BY <1>5, <2>1
    DEF IInv, TypeOK, RunsInv, StateInv, HeldInv, PendingInv, ClosingInv, LastOver, LastIn, StopPending,
        RunSetIdle, RunningAtSignal, Phases
<1>6. CASE RunDone(r)
  <2>1. phase[r] = "ending" /\ phase'[r] = "done" /\ \A s \in Runs : s # r => phase'[s] = phase[s]
    BY <1>6 DEF RunDone, IInv, TypeOK
  <2>2. TypeOK'
    BY <1>6 DEF RunDone, IInv, TypeOK, Phases
  <2>3. RunsInv' /\ HeldInv'
    BY <1>6, <2>1, <2>2 DEF RunDone, IInv, RunsInv, HeldInv
  <2>4. LastOver' = LastOver /\ (r = started => LastOver)
    BY <1>6, <2>1 DEF RunDone, IInv, TypeOK, LastOver
  <2>5. StateInv' /\ PendingInv' /\ ClosingInv'
    BY <1>6, <2>1, <2>4
    DEF RunDone, IInv, TypeOK, StateInv, PendingInv, ClosingInv, LastIn, LastOver, StopPending, RunningAtSignal
  <2> QED
    BY <2>2, <2>3, <2>5 DEF IInv
<1> QED
  BY <1>1, <1>2, <1>3, <1>4, <1>5, <1>6 DEF RunStep

\* A run past its start shows as running, or as stopping with a Stop that waits.
LEMMA CloseLooksStep == IInv /\ CloseLooks => IInv'
<1> SUFFICES ASSUME IInv, CloseLooks PROVE IInv'
  OBVIOUS
<1>1. TypeOK' /\ RunsInv' /\ StateInv' /\ HeldInv' /\ PendingInv'
  BY DEF IInv, TypeOK, RunsInv, StateInv, HeldInv, PendingInv, LastOver, LastIn, StopPending, CloseLooks
<1>2. ASSUME closing' \in {"looked", "closed"}, started \in RunningAtSignal' PROVE LastOver \/ started \in ctx
  <2>1. started \in Runs /\ phase[started] \in {"entering", "serving", "closing", "closed"}
    BY <1>2 DEF RunningAtSignal, CloseLooks
  <2>2. state \in {"starting", "running", "stopping"}
    BY <2>1, RunIsLast
  <2>3. state # "running" /\ state # "starting"
    BY <1>2, <2>1 DEF CloseLooks, IInv, StateInv, LastIn
  <2> QED
    BY <2>2, <2>3 DEF IInv, StateInv
<1>3. \A r \in Runs : r > started => phase[r] = "none"
  BY DEF IInv, RunsInv
<1>4. ClosingInv'
  BY <1>2, <1>3 DEF IInv, ClosingInv, CloseLooks, LastOver
<1> QED
  BY <1>1, <1>4 DEF IInv

LEMMA CloseLooksAgainStep == IInv /\ CloseLooksAgain => IInv'
  BY DEF IInv, TypeOK, RunsInv, StateInv, HeldInv, PendingInv, ClosingInv, LastOver, LastIn, StopPending,
      RunningAtSignal, CloseLooksAgain

LEMMA CloseStopsStep == IInv /\ CloseStops => IInv'
<1> SUFFICES ASSUME IInv, CloseStops PROVE IInv'
  OBVIOUS
<1>1. CASE Busy
  BY <1>1, CancelStep DEF CloseStops, Stoppers
<1>2. CASE ~Busy
  BY <1>2
  DEF IInv, TypeOK, RunsInv, StateInv, HeldInv, PendingInv, ClosingInv, LastOver, LastIn, StopPending,
      RunningAtSignal, CloseStops, Busy
<1> QED
  BY <1>1, <1>2

LEMMA ShutDownStep == IInv /\ ShutDown => IInv'
  BY RunnerAssumption
  DEF IInv, TypeOK, RunsInv, StateInv, HeldInv, PendingInv, ClosingInv, LastOver, LastIn, StopPending,
      RunningAtSignal, ShutDown, Stoppers

\* Every step of a system whose clients wait for their answers keeps the
\* invariant.
LEMMA Inductive == ~Concurrent /\ IInv /\ [Next]_vars => IInv'
<1> SUFFICES ASSUME ~Concurrent, IInv, [Next]_vars PROVE IInv'
  OBVIOUS
<1>1. CASE UNCHANGED vars
  BY <1>1
  DEF vars, IInv, TypeOK, RunsInv, StateInv, HeldInv, PendingInv, ClosingInv, LastOver, LastIn, StopPending,
      RunningAtSignal
<1>2. ASSUME NEW c \in Clients, Stop(c) PROVE IInv'
  BY <1>2, CancelStep, RunnerAssumption DEF Stop, Stoppers, Up
<1> QED
  BY <1>1, <1>2, StartStep, StartFailsStep, StopReturnsStep, RunStepInv, CloseLooksStep, CloseLooksAgainStep,
     CloseStopsStep, ShutDownStep
  DEF Next, Exited

-----------------------------------------------------------------------------
(* The theorems *)

\* The runner keeps the invariant for clients that wait.
THEOREM RunnerInvariant == ~Concurrent => (Spec => []IInv)
<1> SUFFICES ASSUME ~Concurrent PROVE Spec => []IInv
  OBVIOUS
<1>1. IInv /\ [Next]_vars => IInv'
  BY Inductive
<1> QED
  BY <1>1, InitIInv, PTL DEF Spec

\* "proxy service is already running or starting": for clients that wait, Start
\* never lets two proxies that nobody stopped run at once.
THEOREM OneLiveRunSafe == ~Concurrent => (Spec => []OneLiveRun)
<1>1. IInv => OneLiveRun
  <2> SUFFICES ASSUME IInv PROVE OneLiveRun
    OBVIOUS
  <2>1. Working \subseteq {started}
    BY RunIsLast DEF Working
  <2>2. Working = {} \/ Working = {started}
    BY <2>1
  <2>3. Cardinality({}) = 0 /\ Cardinality({started}) = 1
    BY FS_EmptySet, FS_Singleton
  <2> QED
    BY <2>2, <2>3 DEF OneLiveRun
<1> QED
  BY <1>1, RunnerInvariant, PTL

\* Each goroutine runs and closes the service made for it, although it finds it
\* through a field that the next Start overwrites.
THEOREM OwnServiceSafe == ~Concurrent => (Spec => []OwnService)
<1>1. IInv => OwnService
  BY DEF IInv, HeldInv, OwnService
<1> QED
  BY <1>1, RunnerInvariant, PTL

\* While a run serves the state is running, or stopping once it was stopped.
THEOREM StateTruthfulSafe == ~Concurrent => (Spec => []StateTruthful)
<1>1. IInv => StateTruthful
  <2> SUFFICES ASSUME IInv, NEW r \in Runs, phase[r] \in {"entering", "serving"}
               PROVE  state = "running" \/ (r \in ctx /\ state = "stopping")
    BY DEF StateTruthful
  <2>1. r = started /\ state \in {"starting", "running", "stopping"}
    BY RunIsLast
  <2> QED
    BY <2>1 DEF IInv, StateInv, LastIn
<1> QED
  BY <1>1, RunnerInvariant, PTL

\* Once nothing runs and no Stop waits, the UI was last told "stopped".
THEOREM UiSettlesSafe == ~Concurrent => (Spec => []UiSettles)
<1>1. IInv => UiSettles
  <2> SUFFICES ASSUME IInv, Live = {}, \A c \in Stoppers : stop[c] = "none" PROVE ui = "stopped"
    BY DEF UiSettles
  <2>1. ~StopPending
    BY DEF StopPending
  <2>2. started = 0 \/ LastIn({"closing", "closed", "ending", "done"})
    <3>1. started > 0 => started \in Runs /\ phase[started] # "none"
      BY RunnerAssumption DEF IInv, TypeOK, RunsInv, Runs
    <3>2. started > 0 => phase[started] = "done"
      BY <3>1 DEF Live
    <3> QED
      BY <3>2 DEF IInv, TypeOK, LastIn
  <2> QED
    BY <2>1, <2>2 DEF IInv, PendingInv
<1> QED
  BY <1>1, RunnerInvariant, PTL

\* A server that was given the time to answer its requests exits with the OS
\* state restored of every run that was running when the shutdown began and of
\* every run that was stopped.
THEOREM RestoredOnExitSafe == ~Concurrent /\ GraceSuffices => (Spec => []RestoredOnExit)
<1> SUFFICES ASSUME ~Concurrent, GraceSuffices PROVE Spec => []RestoredOnExit
  OBVIOUS
<1>1. IInv => RestoredOnExit
  <2> SUFFICES ASSUME IInv, closing = "exited", NEW r \in held, r \in RunningAtSignal \cup ctx PROVE FALSE
    BY DEF RestoredOnExit
  <2>1. r \in Runs /\ phase[r] \in {"spawned", "entering", "serving", "closing"}
    BY DEF IInv, HeldInv, TypeOK
  <2>2. r = started /\ ~LastOver
    BY <2>1, RunIsLast
  <2> QED
    BY <2>2 DEF IInv, ClosingInv
<1> QED
  BY <1>1, RunnerInvariant, PTL

=============================================================================
