------------------------ MODULE SessionEventsProofs ------------------------
(* Proofs about SessionEvents, for any number of clients, publishers and    *)
(* events and any channel capacity.                                         *)
(*                                                                          *)
(* First: no send on a closed channel.  Then, that SessionEvents implements *)
(* EventFeed: what becomes of the order of the events on their way to a     *)
(* client when one is sent, forwarded, received or written, and what the    *)
(* brokers do to it.                                                        *)
EXTENDS SessionEvents, SequenceTheorems, TLAPS

USE EventsAssumption

\* Where a client is in its life, and what each broker leaves alone.
PlaceInv ==
  /\ backend = "memory" => \A c \in Clients : queue[c] = <<>> /\ fwd[c] = "none"
  /\ backend = "redis" => subs = {} /\ \A p \in Publishers : todo[p] = {}
  /\ \A p \in Publishers : todo[p] \subseteq subs
  /\ \A c \in subs : chan[c] = "open" /\ handler[c] \in {"loop", "writing", "cancel"}
  /\ \A c \in Clients :
       /\ fwd[c] = "range" => chan[c] = "open"
       /\ handler[c] \in {"idle", "headers"} =>
            ch[c] = <<>> /\ queue[c] = <<>> /\ pubsub[c] = "none" /\ fwd[c] = "none"
       /\ handler[c] = "writing" => hand[c] \in Events

-----------------------------------------------------------------------------
(* Types                                                                   *)

\* One step of a publisher, a handler, a forwarder or a client preserves the types.
LEMMA TypeStep == TypeOK /\ PlaceInv /\ [Next]_vars => TypeOK'
<1> SUFFICES ASSUME TypeOK, PlaceInv, [Next]_vars PROVE TypeOK'
  OBVIOUS
<1> USE DEF TypeOK, busVars, history, redisVars
<1>1. ASSUME NEW p \in Publishers, PublishMemory(p) PROVE TypeOK'
  BY <1>1 DEF PublishMemory
<1>2. ASSUME NEW p \in Publishers, NEW c \in Clients, PublishSend(p, c) PROVE TypeOK'
  <2>1. Append(ch[c], Event(p)) \in Seq(Events) /\ Len(Append(ch[c], Event(p))) = Len(ch[c]) + 1
    BY DEF Event, Events
  <2>2. ch' \in [Clients -> Seq(Events)] /\ \A d \in Clients : Len(ch'[d]) <= Cap
    BY <1>2, <2>1 DEF PublishSend
  <2>3. todo' \in [Publishers -> SUBSET Clients]
    BY <1>2 DEF PublishSend
  <2> QED BY <1>2, <2>2, <2>3 DEF PublishSend
<1>3. ASSUME NEW p \in Publishers, PublishRedis(p) PROVE TypeOK'
  <2>1. \A c \in Clients : Append(queue[c], <<p, count[p] + 1>>) \in Seq(Events)
    BY DEF Events
  <2>2. PICK reached \in SUBSET Clients :
          queue' = [c \in Clients |-> IF c \in reached THEN Append(queue[c], <<p, count[p] + 1>>)
                                      ELSE queue[c]]
    BY <1>3 DEF PublishRedis
  <2>3. queue' \in [Clients -> Seq(Events)]
    BY <2>1, <2>2
  <2>4. count' \in [Publishers -> Nat]
    BY <1>3 DEF PublishRedis
  <2>5. UNCHANGED <<backend, todo, subs, handler, gone, ch, chan, hand, pubsub, fwd, last, got>>
    BY <1>3 DEF PublishRedis
  <2> QED BY <2>3, <2>4, <2>5
<1>4. ASSUME NEW c \in Clients, SseSubscribe(c) PROVE TypeOK'
  <2>1. last' \in [Clients -> [Publishers -> Nat]]
    BY <1>4 DEF SseSubscribe
  <2>2. handler' \in [Clients -> {"idle", "headers", "loop", "writing", "cancel", "returned"}]
    BY <1>4 DEF SseSubscribe, HGoto
  <2>3. chan' \in [Clients -> {"none", "open", "closed"}]
    BY <1>4 DEF SseSubscribe
  <2>4. subs' \subseteq Clients
    BY <1>4 DEF SseSubscribe
  <2>5. pubsub' \in [Clients -> {"none", "on", "closed"}]
    BY <1>4 DEF SseSubscribe
  <2>6. fwd' \in [Clients -> {"none", "range", "ended"}]
    BY <1>4 DEF SseSubscribe
  <2>7. UNCHANGED <<backend, count, todo, gone, ch, hand, queue, got>>
    BY <1>4 DEF SseSubscribe
  <2> QED BY <2>1, <2>2, <2>3, <2>4, <2>5, <2>6, <2>7
<1>11. ASSUME NEW c \in Clients, SseCancel(c) PROVE TypeOK'
  <2>1. subs' \subseteq Clients /\ pubsub' \in [Clients -> {"none", "on", "closed"}]
        /\ chan' \in [Clients -> {"none", "open", "closed"}]
    BY <1>11 DEF SseCancel
  <2> QED BY <1>11, <2>1 DEF SseCancel, HGoto
<1>5. ASSUME NEW c \in Clients, SseReceive(c) PROVE TypeOK'
  <2>1. Head(ch[c]) \in Events /\ Tail(ch[c]) \in Seq(Events) /\ Len(Tail(ch[c])) <= Cap
    BY <1>5 DEF SseReceive
  <2> QED BY <1>5, <2>1 DEF SseReceive, HGoto
<1>6. ASSUME NEW c \in Clients, SseStops(c) \/ SseHeaders(c) PROVE TypeOK'
  <2>1. handler' \in [Clients -> {"idle", "headers", "loop", "writing", "cancel", "returned"}]
    <3>1. handler' = [handler EXCEPT ![c] = "headers"] \/ handler' = [handler EXCEPT ![c] = "cancel"]
      BY <1>6 DEF SseStops, SseHeaders, HGoto
    <3> QED BY <3>1
  <2>2. UNCHANGED <<backend, busVars, gone, ch, chan, hand, redisVars, history>>
    BY <1>6 DEF SseStops, SseHeaders
  <2> QED BY <2>1, <2>2
<1>12. ASSUME NEW c \in Clients, SseWriteError(c) PROVE TypeOK'
  BY <1>12 DEF SseWriteError, HGoto
<1>13. ASSUME NEW c \in Clients, ClientGone(c) PROVE TypeOK'
  BY <1>13 DEF ClientGone
<1>7. ASSUME NEW c \in Clients, SseWrite(c) PROVE TypeOK'
  <2>1. hand[c][1] \in Publishers /\ hand[c][2] \in Nat
    <3>1. hand[c] \in Events
      BY <1>7 DEF SseWrite, PlaceInv
    <3> QED BY <3>1 DEF Events
  <2>2. last' \in [Clients -> [Publishers -> Nat]]
    BY <1>7, <2>1 DEF SseWrite
  <2>3. got' \in [Clients -> Nat] /\ hand' \in [Clients -> Events \cup {<<>>}]
    BY <1>7 DEF SseWrite
  <2>4. handler' \in [Clients -> {"idle", "headers", "loop", "writing", "cancel", "returned"}]
    BY <1>7 DEF SseWrite, HGoto
  <2>5. UNCHANGED <<backend, busVars, gone, ch, chan, redisVars>>
    BY <1>7 DEF SseWrite
  <2> QED BY <2>2, <2>3, <2>4, <2>5
<1>8. ASSUME NEW c \in Clients, FwdSend(c) PROVE TypeOK'
  <2>1. Head(queue[c]) \in Events /\ Tail(queue[c]) \in Seq(Events)
    BY <1>8 DEF FwdSend
  <2>2. Append(ch[c], Head(queue[c])) \in Seq(Events) /\ Len(Append(ch[c], Head(queue[c]))) = Len(ch[c]) + 1
    BY <2>1
  <2> QED BY <1>8, <2>1, <2>2 DEF FwdSend
<1>9. ASSUME NEW c \in Clients, FwdEnds(c) PROVE TypeOK'
  BY <1>9 DEF FwdEnds
<1>10. CASE UNCHANGED vars
  BY <1>10 DEF vars
<1> QED
  BY <1>1, <1>2, <1>3, <1>4, <1>5, <1>6, <1>7, <1>8, <1>9, <1>10, <1>11, <1>12, <1>13
  DEF Next, PublisherStep, SseStep, FwdStep, ClientStep, FwdCtxDone, FwdRangeEnds

-----------------------------------------------------------------------------
(* Steps                                                                   *)

\* The cases of a step, for the lemmas below.
LEMMA StepCases ==
  ASSUME [Next]_vars
  PROVE  \/ \E p \in Publishers : PublishMemory(p) \/ PublishRedis(p)
         \/ \E p \in Publishers, c \in Clients : PublishSend(p, c)
         \/ \E c \in Clients : \/ SseSubscribe(c) \/ SseReceive(c) \/ SseWrite(c) \/ SseWriteError(c)
                               \/ SseHeaders(c) \/ SseStops(c) \/ SseCancel(c) \/ ClientGone(c)
                               \/ FwdSend(c) \/ (fwd[c] = "range" /\ FwdEnds(c))
         \/ UNCHANGED vars
BY SMTT(30) DEF Next, PublisherStep, SseStep, FwdStep, ClientStep, FwdCtxDone, FwdRangeEnds

\* Every step keeps clients, channels and brokers in step with each other.
LEMMA PlaceStep == TypeOK /\ PlaceInv /\ [Next]_vars => PlaceInv'
<1> SUFFICES ASSUME TypeOK, PlaceInv, [Next]_vars PROVE PlaceInv'
  OBVIOUS
<1> USE DEF PlaceInv, busVars, history, redisVars
<1>1. ASSUME NEW p \in Publishers, PublishMemory(p) PROVE PlaceInv'
  BY <1>1 DEF PublishMemory, TypeOK
<1>2. ASSUME NEW p \in Publishers, PublishRedis(p) PROVE PlaceInv'
  <2>1. \A c \in Clients : handler[c] \in {"idle", "headers"} => queue'[c] = queue[c]
    BY <1>2 DEF PublishRedis
  <2>2. backend # "memory" /\ UNCHANGED <<backend, todo, subs, handler, ch, chan, hand, pubsub, fwd>>
    BY <1>2 DEF PublishRedis
  <2> QED BY <2>1, <2>2
<1>3. ASSUME NEW p \in Publishers, NEW c \in Clients, PublishSend(p, c) PROVE PlaceInv'
  <2>1. c \in subs /\ \A q \in Publishers : todo'[q] \subseteq todo[q]
    BY <1>3 DEF PublishSend, TypeOK
  <2>2. \A d \in Clients : d # c => ch'[d] = ch[d]
    BY <1>3 DEF PublishSend, TypeOK
  <2>3. UNCHANGED <<backend, subs, handler, chan, hand, pubsub, queue, fwd>>
    BY <1>3 DEF PublishSend
  <2> QED BY <2>1, <2>2, <2>3
<1>4. ASSUME NEW c \in Clients, SseSubscribe(c) PROVE PlaceInv'
  <2>1. UNCHANGED <<backend, todo, ch, hand, queue>> /\ chan'[c] = "open" /\ handler'[c] = "loop"
    BY <1>4 DEF SseSubscribe, HGoto, TypeOK
  <2>2. \A d \in Clients : d # c => UNCHANGED <<handler[d], chan[d], pubsub[d], fwd[d]>>
    BY <1>4 DEF SseSubscribe, HGoto, TypeOK
  <2>3. \/ backend = "memory" /\ subs' = subs \cup {c} /\ fwd' = fwd
        \/ backend = "redis" /\ subs' = subs
    BY <1>4 DEF SseSubscribe
  <2>4. subs \subseteq Clients
    BY DEF TypeOK
  <2> QED BY <2>1, <2>2, <2>3, <2>4
<1>5. ASSUME NEW c \in Clients, SseReceive(c) PROVE PlaceInv'
  <2>1. Head(ch[c]) \in Events
    BY <1>5 DEF SseReceive, TypeOK
  <2>2. handler'[c] = "writing" /\ hand'[c] = Head(ch[c])
    BY <1>5 DEF SseReceive, HGoto, TypeOK
  <2>3. \A d \in Clients : d # c => UNCHANGED <<handler[d], ch[d], hand[d]>>
    BY <1>5 DEF SseReceive, HGoto, TypeOK
  <2>4. UNCHANGED <<backend, todo, subs, chan, pubsub, queue, fwd>> /\ subs \subseteq Clients
    BY <1>5 DEF SseReceive, TypeOK
  <2> QED BY <2>1, <2>2, <2>3, <2>4
<1>6. ASSUME NEW c \in Clients, SseWrite(c) \/ SseWriteError(c) \/ SseStops(c) \/ SseHeaders(c) PROVE PlaceInv'
  <2>1. \/ handler[c] \in {"loop", "writing"} /\ handler'[c] \in {"loop", "cancel"}
        \/ handler[c] = "idle" /\ handler'[c] = "headers"
    BY <1>6 DEF SseWrite, SseWriteError, SseStops, SseHeaders, HGoto, TypeOK
  <2>2. \A d \in Clients : d # c => UNCHANGED <<handler[d], hand[d]>>
    BY <1>6 DEF SseWrite, SseWriteError, SseStops, SseHeaders, HGoto, TypeOK
  <2>3. UNCHANGED <<backend, todo, subs, ch, chan, pubsub, queue, fwd>> /\ subs \subseteq Clients
    BY <1>6 DEF SseWrite, SseWriteError, SseStops, SseHeaders, TypeOK
  <2> QED BY <2>1, <2>2, <2>3
<1>7. ASSUME NEW c \in Clients, SseCancel(c) PROVE PlaceInv'
  <2>1. handler'[c] = "returned" /\ UNCHANGED <<backend, todo, ch, hand, queue, fwd>>
    BY <1>7 DEF SseCancel, HGoto, TypeOK
  <2>2. \A d \in Clients : d # c => UNCHANGED <<handler[d], chan[d], pubsub[d]>>
    BY <1>7 DEF SseCancel, HGoto, TypeOK
  <2>3. \/ backend = "memory" /\ subs' = subs \ {c} /\ \A p \in Publishers : todo[p] = {}
        \/ backend = "redis" /\ UNCHANGED <<subs, chan>>
    BY <1>7 DEF SseCancel, RLocked
  <2>4. subs \subseteq Clients
    BY DEF TypeOK
  <2> QED BY <2>1, <2>2, <2>3, <2>4
<1>8. ASSUME NEW c \in Clients, FwdSend(c) PROVE PlaceInv'
  <2>1. fwd[c] = "range" /\ UNCHANGED <<backend, todo, subs, handler, chan, hand, pubsub, fwd>>
    BY <1>8 DEF FwdSend
  <2>2. \A d \in Clients : d # c => UNCHANGED <<ch[d], queue[d]>>
    BY <1>8 DEF FwdSend, TypeOK
  <2>3. backend = "redis"
    BY <2>1 DEF TypeOK
  <2> QED BY <2>1, <2>2, <2>3
<1>9. ASSUME NEW c \in Clients, fwd[c] = "range", FwdEnds(c) PROVE PlaceInv'
  <2>1. backend = "redis" /\ fwd'[c] = "ended"
    BY <1>9 DEF FwdEnds, TypeOK
  <2>2. \A d \in Clients : d # c => UNCHANGED <<chan[d], fwd[d]>>
    BY <1>9 DEF FwdEnds, TypeOK
  <2>3. UNCHANGED <<backend, todo, subs, handler, ch, hand, pubsub, queue>>
    BY <1>9 DEF FwdEnds
  <2>4. handler[c] \notin {"idle", "headers"} /\ subs = {}
    BY <1>9, <2>1
  <2> QED BY <2>1, <2>2, <2>3, <2>4
<1>10. ASSUME NEW c \in Clients, ClientGone(c) PROVE PlaceInv'
  BY <1>10 DEF ClientGone
<1>11. CASE UNCHANGED vars
  BY <1>11 DEF vars
<1> QED BY <1>1, <1>2, <1>3, <1>4, <1>5, <1>6, <1>7, <1>8, <1>9, <1>10, <1>11, StepCases

-----------------------------------------------------------------------------
\* The places of a broker that nobody has used yet.
LEMMA PlaceInit == Init => TypeOK /\ PlaceInv
<1> SUFFICES ASSUME Init PROVE TypeOK /\ PlaceInv
  OBVIOUS
<1>1. TypeOK
  <2>1. \A c \in Clients : Len(ch[c]) <= Cap
    BY DEF Init
  <2> QED BY <2>1 DEF Init, TypeOK
<1>2. PlaceInv
  BY DEF Init, PlaceInv
<1> QED BY <1>1, <1>2

\* Whatever the number of clients, publishers and events and the capacity of the
\* channels: a channel that MemoryBroker.Publish or the forwarder of
\* RedisBroker.Subscribe may send to is open.
THEOREM NoSendOnClosed == Spec => [](TypeOK /\ SendOpen)
<1>1. TypeOK /\ PlaceInv /\ [Next]_vars => TypeOK' /\ PlaceInv'
  BY TypeStep, PlaceStep
<1>2. TypeOK /\ PlaceInv => TypeOK /\ SendOpen
  BY DEF PlaceInv, SendOpen
<1> QED BY <1>1, <1>2, PlaceInit, PTL DEF Spec


-----------------------------------------------------------------------------
(* The order of the events                                                 *)

\* The events of each publisher are in order.
Increasing(s) == \A i, j \in 1..Len(s) : i < j /\ s[i][1] = s[j][1] => s[i][2] < s[j][2]

\* The events of p in s come after its event k, or before it.
Above(s, p, k) == \A i \in 1..Len(s) : s[i][1] = p => k < s[i][2]
Below(s, p, k) == \A i \in 1..Len(s) : s[i][1] = p => s[i][2] < k

\* The events w on their way to a client that has left those up to l behind, when
\* those up to n are published: they are in order and lie between the two.
Between(w, l, n) ==
  /\ Increasing(w)
  /\ \A p \in Publishers : Above(w, p, l[p]) /\ Below(w, p, n[p] + 1) /\ l[p] <= n[p]

\* The event e that is being written to the client lies between l and w.
Held(e, w, l, n) == l[e[1]] < e[2] /\ e[2] <= n[e[1]] /\ Above(w, e[1], e[2])

-----------------------------------------------------------------------------
(* Sequences of events                                                     *)

\* A message at the end of a queue is behind all others.
LEMMA AppendEvent ==
  ASSUME NEW s \in Seq(Events), NEW p \in Publishers, NEW k \in Nat
  PROVE  /\ Append(s, <<p, k>>) \in Seq(Events)
         /\ Increasing(s) /\ Below(s, p, k) => Increasing(Append(s, <<p, k>>))
         /\ \A q \in Publishers, m \in Nat : Above(s, q, m) /\ (q = p => m < k) => Above(Append(s, <<p, k>>), q, m)
         /\ \A q \in Publishers, m \in Nat : Below(s, q, m) /\ (q = p => k < m) => Below(Append(s, <<p, k>>), q, m)
<1> DEFINE t == Append(s, <<p, k>>)
<1>1. <<p, k>> \in Events
  BY DEF Events
<1>2. t \in Seq(Events) /\ Len(t) = Len(s) + 1 /\ Len(s) \in Nat
  BY <1>1
<1>3. \A i \in 1..Len(s) : t[i] = s[i]
  BY <1>1
<1>4. t[Len(s) + 1][1] = p /\ t[Len(s) + 1][2] = k
  BY <1>1
<1> HIDE DEF t
<1>5. \A i \in 1..Len(t) : i \in 1..Len(s) \/ i = Len(s) + 1
  BY <1>2
<1>6. \A i, j \in 1..Len(t) : i < j => i \in 1..Len(s)
  BY <1>2
<1>7. ASSUME Increasing(s), Below(s, p, k) PROVE Increasing(t)
  <2> SUFFICES ASSUME NEW i \in 1..Len(t), NEW j \in 1..Len(t), i < j, t[i][1] = t[j][1]
               PROVE  t[i][2] < t[j][2]
    BY DEF Increasing
  <2>1. i \in 1..Len(s) /\ t[i] = s[i]
    BY <1>3, <1>6
  <2>2. CASE j \in 1..Len(s)
    <3>1. t[j] = s[j]
      BY <1>3, <2>2
    <3> QED BY <1>7, <2>1, <2>2, <3>1 DEF Increasing
  <2>3. CASE j = Len(s) + 1
    <3>1. s[i][1] = p
      BY <1>4, <2>1, <2>3
    <3>2. s[i][2] < k
      BY <1>7, <2>1, <3>1 DEF Below
    <3> QED BY <1>4, <2>1, <2>3, <3>2
  <2> QED BY <1>5, <2>2, <2>3
<1>8. ASSUME NEW q \in Publishers, NEW m \in Nat, Above(s, q, m), q = p => m < k PROVE Above(t, q, m)
  BY <1>3, <1>4, <1>5, <1>8 DEF Above
<1>9. ASSUME NEW q \in Publishers, NEW m \in Nat, Below(s, q, m), q = p => k < m PROVE Below(t, q, m)
  BY <1>3, <1>4, <1>5, <1>9 DEF Below
<1> QED BY <1>2, <1>7, <1>8, <1>9 DEF t

\* What a queue satisfies, it satisfies without its first message, and the first
\* message comes before the others.
LEMMA TailEvent ==
  ASSUME NEW s \in Seq(Events), s # <<>>
  PROVE  /\ Head(s) \in Events /\ Tail(s) \in Seq(Events)
         /\ Increasing(s) => Increasing(Tail(s)) /\ Above(Tail(s), Head(s)[1], Head(s)[2])
         /\ \A q \in Publishers, m \in Nat : Above(s, q, m) => Above(Tail(s), q, m)
         /\ \A q \in Publishers, m \in Nat : Below(s, q, m) =>
              Below(Tail(s), q, m) /\ (Head(s)[1] = q => Head(s)[2] < m)
<1> DEFINE t == Tail(s)
<1>1. Head(s) \in Events /\ t \in Seq(Events) /\ Head(s) = s[1] /\ Len(s) \in Nat /\ Len(t) = Len(s) - 1 /\ 1 \in 1..Len(s)
  OBVIOUS
<1>2. \A i \in 1..Len(t) : t[i] = s[i + 1] /\ i + 1 \in 1..Len(s) /\ 1 < i + 1
  BY <1>1
<1> HIDE DEF t
<1>3. ASSUME Increasing(s) PROVE Increasing(t) /\ Above(t, Head(s)[1], Head(s)[2])
  <2>1. Increasing(t)
    <3> SUFFICES ASSUME NEW i \in 1..Len(t), NEW j \in 1..Len(t), i < j, t[i][1] = t[j][1]
                 PROVE  t[i][2] < t[j][2]
      BY DEF Increasing
    <3>1. i + 1 < j + 1
      OBVIOUS
    <3> QED BY SMTT(30), <1>2, <1>3, <3>1 DEF Increasing
  <2>2. Above(t, Head(s)[1], Head(s)[2])
    BY <1>1, <1>2, <1>3 DEF Increasing, Above
  <2> QED BY <2>1, <2>2
<1>4. ASSUME NEW q \in Publishers, NEW m \in Nat, Above(s, q, m) PROVE Above(t, q, m)
  BY <1>2, <1>4 DEF Above
<1>5. ASSUME NEW q \in Publishers, NEW m \in Nat, Below(s, q, m) PROVE Below(t, q, m) /\ (Head(s)[1] = q => Head(s)[2] < m)
  BY <1>1, <1>2, <1>5 DEF Below
<1> QED BY <1>1, <1>2, <1>3, <1>4, <1>5 DEF t

\* An event is a publisher and a number.
LEMMA EventParts ==
  ASSUME NEW e \in Events
  PROVE  e[1] \in Publishers /\ e[2] \in Nat /\ e = <<e[1], e[2]>>
BY DEF Events

\* A message that goes from the queue to the channel keeps its place.
LEMMA Forwarded ==
  ASSUME NEW s \in Seq(Events), NEW u \in Seq(Events), u # <<>>
  PROVE  Append(s, Head(u)) \o Tail(u) = s \o u
<1>1. Head(u) \in Events /\ Tail(u) \in Seq(Events) /\ <<Head(u)>> \in Seq(Events)
  BY HeadTailProperties
<1>2. <<Head(u)>> \o Tail(u) = u
  <2> DEFINE v == <<Head(u)>> \o Tail(u)
  <2>1. v \in Seq(Events) /\ Len(v) = Len(u)
    BY <1>1
  <2>2. \A i \in 1..Len(u) : v[i] = u[i]
    BY <1>1
  <2> HIDE DEF v
  <2>3. v = u
    BY <2>1, <2>2, SeqEqual
  <2> QED BY <2>3 DEF v
<1>3. Append(s, Head(u)) = s \o <<Head(u)>>
  BY <1>1, AppendIsConcat
<1> QED BY SMTT(30), <1>1, <1>2, <1>3, ConcatAssociative

\* A message at the end of the queue is the last on its way.
LEMMA Queued ==
  ASSUME NEW s \in Seq(Events), NEW u \in Seq(Events), NEW e \in Events
  PROVE  s \o Append(u, e) = Append(s \o u, e)
<1>1. Append(u, e) = u \o <<e>> /\ <<e>> \in Seq(Events) /\ s \o u \in Seq(Events)
  BY AppendIsConcat
<1>2. Append(s \o u, e) = (s \o u) \o <<e>>
  BY <1>1, AppendIsConcat
<1> QED BY <1>1, <1>2, ConcatAssociative

\* What is received from the channel is the first of the events on their way.
LEMMA Received ==
  ASSUME NEW s \in Seq(Events), NEW u \in Seq(Events), s # <<>>
  PROVE  /\ s \o u # <<>> /\ Head(s \o u) = Head(s)
         /\ Tail(s) \o u = Tail(s \o u)
<1> DEFINE v == s \o u
<1>1. v \in Seq(Events) /\ Len(v) = Len(s) + Len(u) /\ Len(s) \in Nat \ {0} /\ Len(u) \in Nat
  OBVIOUS
<1>2. v # <<>> /\ Head(v) = Head(s)
  BY <1>1
<1>3. Tail(s) \in Seq(Events) /\ Len(Tail(s)) = Len(s) - 1 /\ Tail(v) \in Seq(Events) /\ Len(Tail(v)) = Len(v) - 1
  BY <1>1, <1>2, HeadTailProperties
<1>4. Tail(s) \o u \in Seq(Events) /\ Len(Tail(s) \o u) = Len(Tail(v))
  BY <1>1, <1>3
<1>5. ASSUME NEW i \in 1..Len(Tail(v)) PROVE (Tail(s) \o u)[i] = Tail(v)[i]
  BY <1>1, <1>2, <1>3
<1>6. Tail(s) \o u = Tail(v)
  BY <1>3, <1>4, <1>5, SeqEqual
<1> QED BY <1>2, <1>6

-----------------------------------------------------------------------------
(* The events on their way                                                 *)

\* An event that is published, or sent: a new last one between the same bounds.
LEMMA BetweenAppend ==
  ASSUME NEW w \in Seq(Events), NEW l \in [Publishers -> Nat], NEW n \in [Publishers -> Nat],
         NEW p \in Publishers, NEW k \in Nat,
         Between(w, l, n), Below(w, p, k), l[p] < k, k <= n[p]
  PROVE  /\ Append(w, <<p, k>>) \in Seq(Events) /\ Between(Append(w, <<p, k>>), l, n)
         /\ \A e \in Events : Held(e, w, l, n) /\ (e[1] = p => e[2] < k) => Held(e, Append(w, <<p, k>>), l, n)
         /\ \A q \in Publishers, m \in Nat : Below(w, q, m) /\ (q = p => k < m) => Below(Append(w, <<p, k>>), q, m)
<1> DEFINE t == Append(w, <<p, k>>)
<1>1. /\ t \in Seq(Events)
      /\ Increasing(w) /\ Below(w, p, k) => Increasing(t)
      /\ \A q \in Publishers, m \in Nat : Above(w, q, m) /\ (q = p => m < k) => Above(t, q, m)
      /\ \A q \in Publishers, m \in Nat : Below(w, q, m) /\ (q = p => k < m) => Below(t, q, m)
  BY AppendEvent
<1> HIDE DEF t
<1>2. ASSUME NEW q \in Publishers PROVE Above(t, q, l[q]) /\ Below(t, q, n[q] + 1)
  <2>1. l[q] \in Nat /\ n[q] + 1 \in Nat /\ (q = p => l[q] < k) /\ (q = p => k < n[q] + 1)
    OBVIOUS
  <2> QED BY <1>1, <2>1 DEF Between
<1>3. ASSUME NEW e \in Events, Held(e, w, l, n), e[1] = p => e[2] < k PROVE Held(e, t, l, n)
  BY <1>1, <1>3, EventParts DEF Held
<1>4. Between(t, l, n)
  BY <1>1, <1>2 DEF Between
<1> QED BY <1>1, <1>3, <1>4 DEF t

\* An event that is received.
LEMMA BetweenTail ==
  ASSUME NEW w \in Seq(Events), w # <<>>, NEW l \in [Publishers -> Nat], NEW n \in [Publishers -> Nat],
         Between(w, l, n)
  PROVE  Between(Tail(w), l, n) /\ Held(Head(w), Tail(w), l, n)
<1>1. Between(Tail(w), l, n)
  BY TailEvent DEF Between
<1>2. Head(w) \in Events /\ Head(w) = w[1] /\ 1 \in 1..Len(w)
  OBVIOUS
<1>3. Head(w)[1] \in Publishers /\ Head(w)[2] \in Nat
  BY <1>2, EventParts
<1>4. l[Head(w)[1]] < Head(w)[2]
  BY <1>2, <1>3 DEF Between, Above
<1>5. Head(w)[2] < n[Head(w)[1]] + 1
  BY <1>2, <1>3 DEF Between, Below
<1>6. Head(w)[2] <= n[Head(w)[1]]
  BY <1>3, <1>5
<1>7. Above(Tail(w), Head(w)[1], Head(w)[2])
  BY TailEvent DEF Between
<1> QED BY <1>1, <1>4, <1>6, <1>7 DEF Held

\* An event that is written.
LEMMA BetweenWrite ==
  ASSUME NEW w \in Seq(Events), NEW l \in [Publishers -> Nat], NEW n \in [Publishers -> Nat],
         NEW e \in Events, Between(w, l, n), Held(e, w, l, n)
  PROVE  Between(w, [l EXCEPT ![e[1]] = e[2]], n)
<1> DEFINE m == [l EXCEPT ![e[1]] = e[2]]
<1>1. e[1] \in Publishers /\ e[2] \in Nat
  BY EventParts
<1>2. m[e[1]] = e[2] /\ \A p \in Publishers : p # e[1] => m[p] = l[p]
  BY <1>1
<1> HIDE DEF m
<1>3. ASSUME NEW p \in Publishers PROVE Above(w, p, m[p]) /\ Below(w, p, n[p] + 1) /\ m[p] <= n[p]
  <2>1. CASE p = e[1]
    BY <1>2, <2>1 DEF Between, Held
  <2>2. CASE p # e[1]
    BY <1>2, <2>2 DEF Between
  <2> QED BY <2>1, <2>2
<1>4. Between(w, m, n)
  BY <1>3 DEF Between
<1> QED BY <1>4 DEF m

\* More that is published.
LEMMA BetweenMore ==
  ASSUME NEW w \in Seq(Events), NEW l \in [Publishers -> Nat], NEW n \in [Publishers -> Nat],
         NEW m \in [Publishers -> Nat], \A p \in Publishers : n[p] <= m[p], Between(w, l, n)
  PROVE  /\ Between(w, l, m)
         /\ \A e \in Events : Held(e, w, l, n) => Held(e, w, l, m)
<1>1. ASSUME NEW p \in Publishers PROVE Below(w, p, m[p] + 1) /\ l[p] <= m[p]
  <2>1. n[p] \in Nat /\ m[p] \in Nat /\ l[p] \in Nat /\ n[p] <= m[p] /\ l[p] <= n[p] /\ Below(w, p, n[p] + 1)
    BY DEF Between
  <2>2. \A i \in 1..Len(w) : w[i] \in Events
    OBVIOUS
  <2>3. \A i \in 1..Len(w) : w[i][2] \in Nat
    BY <2>2, EventParts
  <2> QED BY <2>1, <2>3 DEF Below
<1>2. ASSUME NEW e \in Events, Held(e, w, l, n) PROVE Held(e, w, l, m)
  <2>1. e[1] \in Publishers /\ e[2] \in Nat
    BY EventParts
  <2>2. n[e[1]] \in Nat /\ m[e[1]] \in Nat /\ n[e[1]] <= m[e[1]]
    BY <2>1
  <2> QED BY <1>2, <2>1, <2>2 DEF Held
<1> QED BY <1>1, <1>2 DEF Between

-----------------------------------------------------------------------------
(* What is on its way to a client                                          *)

\* The events on their way to c: in its channel, and behind them in its queue.
Coming(c) == ch[c] \o queue[c]

\* A subscriber that a Publish of p has yet to send to has not seen its event.
Unseen(p, c) ==
  c \in todo[p] =>
    /\ last[c][p] < count[p] /\ Below(Coming(c), p, count[p])
    /\ handler[c] = "writing" /\ hand[c][1] = p => hand[c][2] < count[p]

Ordered(c) ==
  /\ Between(Coming(c), last[c], count)
  /\ handler[c] = "writing" => Held(hand[c], Coming(c), last[c], count)
  /\ \A p \in Publishers : Unseen(p, c)

OrderInv == \A c \in Clients : Ordered(c)

\* The inductive invariant.
IInv == TypeOK /\ PlaceInv /\ OrderInv

-----------------------------------------------------------------------------
(* The order of the events                                                 *)

\* The types of what belongs to a client.
LEMMA Lists ==
  ASSUME TypeOK, NEW c \in Clients
  PROVE  /\ ch[c] \in Seq(Events) /\ queue[c] \in Seq(Events) /\ Coming(c) \in Seq(Events)
         /\ last[c] \in [Publishers -> Nat] /\ count \in [Publishers -> Nat]
         /\ \A p \in Publishers : last[c][p] \in Nat /\ count[p] \in Nat
<1>1. ch[c] \in Seq(Events) /\ queue[c] \in Seq(Events)
  BY DEF TypeOK
<1>2. Coming(c) \in Seq(Events)
  BY <1>1 DEF Coming
<1>3. last[c] \in [Publishers -> Nat] /\ count \in [Publishers -> Nat]
  BY DEF TypeOK
<1> QED BY <1>1, <1>2, <1>3

\* With the MemoryBroker the channel is all there is.
LEMMA NoQueue ==
  ASSUME TypeOK, PlaceInv, backend = "memory", NEW c \in Clients
  PROVE  queue[c] = <<>> /\ Coming(c) = ch[c]
<1>1. queue[c] = <<>>
  BY DEF PlaceInv
<1> QED BY <1>1, Lists, ConcatEmptySeq DEF Coming

\* A step that leaves a client's events, and what is published, alone.
LEMMA Untouched ==
  ASSUME NEW c \in Clients, Ordered(c), Coming(c)' = Coming(c), UNCHANGED <<last[c], count>>,
         handler'[c] = "writing" => handler[c] = "writing" /\ hand'[c] = hand[c],
         \A p \in Publishers : c \in todo'[p] => c \in todo[p]
  PROVE  Ordered(c)'
<1>1. Between(Coming(c), last[c], count)'
  BY DEF Ordered
<1>2. ASSUME handler'[c] = "writing" PROVE Held(hand[c], Coming(c), last[c], count)'
  BY <1>2 DEF Ordered
<1>3. ASSUME NEW p \in Publishers PROVE Unseen(p, c)'
  BY DEF Ordered, Unseen
<1> QED BY <1>1, <1>2, <1>3 DEF Ordered

\* A publisher that takes up its next event is ahead of all its subscribers.
LEMMA OrderPublishMemory ==
  ASSUME IInv, TypeOK', NEW p \in Publishers, PublishMemory(p), NEW c \in Clients
  PROVE  Ordered(c)'
<1>1. /\ count' = [count EXCEPT ![p] = @ + 1] /\ todo' = [todo EXCEPT ![p] = subs]
      /\ UNCHANGED <<handler, ch, hand, queue, last>>
  BY DEF PublishMemory, redisVars, history
<1>2. TypeOK /\ PlaceInv /\ Ordered(c)
  BY DEF IInv, OrderInv
<1>3. /\ Coming(c) \in Seq(Events) /\ last[c] \in [Publishers -> Nat] /\ count \in [Publishers -> Nat]
      /\ \A q \in Publishers : last[c][q] \in Nat /\ count[q] \in Nat
  BY <1>2, Lists
<1>4. Coming(c)' = Coming(c)
  BY <1>1 DEF Coming
<1>5. count'[p] = count[p] + 1 /\ \A q \in Publishers : q # p => count'[q] = count[q]
  BY <1>1, <1>3
<1>6. \A q \in Publishers \ {p} : todo'[q] = todo[q]
  BY <1>1, <1>2 DEF TypeOK
<1>7. count' \in [Publishers -> Nat]
  BY DEF TypeOK
<1>8. ASSUME NEW q \in Publishers PROVE count[q] <= count'[q]
  <2>1. CASE q = p
    BY <1>3, <1>5, <2>1
  <2>2. CASE q # p
    BY <1>3, <1>5, <2>2
  <2> QED BY <2>1, <2>2
<1>9. Between(Coming(c), last[c], count)
  BY <1>2 DEF Ordered
<1>10. /\ Between(Coming(c), last[c], count')
       /\ \A e \in Events : Held(e, Coming(c), last[c], count) => Held(e, Coming(c), last[c], count')
  BY <1>3, <1>7, <1>8, <1>9, BetweenMore
<1>11. ASSUME handler[c] = "writing" PROVE hand[c] \in Events /\ Held(hand[c], Coming(c), last[c], count)
  BY <1>2, <1>11 DEF PlaceInv, Ordered
<1>12. Unseen(p, c)'
  <2>1. last[c][p] < count[p] + 1 /\ Below(Coming(c), p, count[p] + 1)
    BY <1>3, <1>9 DEF Between
  <2>2. ASSUME handler[c] = "writing", hand[c][1] = p PROVE hand[c][2] < count[p] + 1
    <3>1. hand[c][2] \in Nat /\ hand[c][2] <= count[p]
      BY <1>11, <2>2, EventParts DEF Held
    <3> QED BY <1>3, <3>1
  <2> QED BY <1>1, <1>4, <1>5, <2>1, <2>2 DEF Unseen
<1>13. ASSUME NEW q \in Publishers \ {p} PROVE Unseen(q, c)'
  BY <1>1, <1>2, <1>4, <1>5, <1>6 DEF Ordered, Unseen
<1>14. Between(Coming(c), last[c], count)'
  BY <1>1, <1>4, <1>10
<1>15. ASSUME handler'[c] = "writing" PROVE Held(hand[c], Coming(c), last[c], count)'
  BY <1>1, <1>4, <1>10, <1>11, <1>15
<1> QED BY <1>12, <1>13, <1>14, <1>15 DEF Ordered

\* A message that Redis passes on is the newest of its publisher.
LEMMA OrderPublishRedis ==
  ASSUME IInv, TypeOK', NEW p \in Publishers, PublishRedis(p), NEW c \in Clients
  PROVE  Ordered(c)'
<1>1. /\ count' = [count EXCEPT ![p] = @ + 1] /\ backend = "redis"
      /\ UNCHANGED <<handler, ch, hand, todo, last>>
  BY DEF PublishRedis, history
<1>2. TypeOK /\ PlaceInv /\ Ordered(c)
  BY DEF IInv, OrderInv
<1>3. /\ Coming(c) \in Seq(Events) /\ last[c] \in [Publishers -> Nat] /\ count \in [Publishers -> Nat]
      /\ \A q \in Publishers : last[c][q] \in Nat /\ count[q] \in Nat
  BY <1>2, Lists
<1>4. queue'[c] = queue[c] \/ queue'[c] = Append(queue[c], <<p, count[p] + 1>>)
  BY DEF PublishRedis
<1>5. count'[p] = count[p] + 1 /\ \A q \in Publishers : q # p => count'[q] = count[q]
  BY <1>1, <1>3
<1>6. \A q \in Publishers : c \notin todo'[q]
  BY <1>1, <1>2 DEF PlaceInv
<1>7. count' \in [Publishers -> Nat]
  BY DEF TypeOK
<1>8. ASSUME NEW q \in Publishers PROVE count[q] <= count'[q]
  <2>1. CASE q = p
    BY <1>3, <1>5, <2>1
  <2>2. CASE q # p
    BY <1>3, <1>5, <2>2
  <2> QED BY <2>1, <2>2
<1>9. Between(Coming(c), last[c], count)
  BY <1>2 DEF Ordered
<1>10. /\ Between(Coming(c), last[c], count')
       /\ \A e \in Events : Held(e, Coming(c), last[c], count) => Held(e, Coming(c), last[c], count')
  BY <1>3, <1>7, <1>8, <1>9, BetweenMore
<1>11. ASSUME handler[c] = "writing"
       PROVE  hand[c] \in Events /\ Held(hand[c], Coming(c), last[c], count) /\ (hand[c][1] = p => hand[c][2] < count[p] + 1)
  <2>1. hand[c] \in Events /\ Held(hand[c], Coming(c), last[c], count)
    BY <1>2, <1>11 DEF PlaceInv, Ordered
  <2>2. hand[c][2] \in Nat /\ (hand[c][1] = p => hand[c][2] <= count[p])
    BY <2>1, EventParts DEF Held
  <2> QED BY <1>3, <2>1, <2>2
<1>12. CASE Coming(c)' = Coming(c)
  <2>1. Between(Coming(c), last[c], count)'
    BY <1>1, <1>10, <1>12
  <2>2. ASSUME handler'[c] = "writing" PROVE Held(hand[c], Coming(c), last[c], count)'
    BY <1>1, <1>10, <1>11, <1>12, <2>2
  <2> QED BY <1>6, <2>1, <2>2 DEF Ordered, Unseen
<1>13. CASE Coming(c)' = Append(Coming(c), <<p, count[p] + 1>>)
  <2>1. count[p] + 1 \in Nat /\ Below(Coming(c), p, count[p] + 1) /\ last[c][p] < count[p] + 1 /\ count[p] + 1 <= count'[p]
    BY <1>3, <1>5, <1>9 DEF Between
  <2>2. /\ Between(Append(Coming(c), <<p, count[p] + 1>>), last[c], count')
        /\ \A e \in Events : Held(e, Coming(c), last[c], count') /\ (e[1] = p => e[2] < count[p] + 1)
                             => Held(e, Append(Coming(c), <<p, count[p] + 1>>), last[c], count')
    BY <1>3, <1>7, <1>10, <2>1, BetweenAppend
  <2>3. Between(Coming(c), last[c], count)'
    BY <1>1, <1>13, <2>2
  <2>4. ASSUME handler'[c] = "writing" PROVE Held(hand[c], Coming(c), last[c], count)'
    BY <1>1, <1>10, <1>11, <1>13, <2>2, <2>4
  <2> QED BY <1>6, <2>3, <2>4 DEF Ordered, Unseen
<1>14. Coming(c)' = Coming(c) \/ Coming(c)' = Append(Coming(c), <<p, count[p] + 1>>)
  <2>1. CASE queue'[c] = queue[c]
    BY <1>1, <2>1 DEF Coming
  <2>2. CASE queue'[c] = Append(queue[c], <<p, count[p] + 1>>)
    <3>1. <<p, count[p] + 1>> \in Events
      BY <1>3 DEF Events
    <3>2. Coming(c)' = ch[c] \o Append(queue[c], <<p, count[p] + 1>>)
      BY <1>1, <2>2 DEF Coming
    <3> QED BY <1>2, <3>1, <3>2, Lists, Queued DEF Coming
  <2> QED BY <1>4, <2>1, <2>2
<1> QED BY <1>12, <1>13, <1>14

\* A subscriber that is sent an event has seen only earlier ones of its publisher.
LEMMA OrderPublishSend ==
  ASSUME IInv, NEW p \in Publishers, NEW d \in Clients, PublishSend(p, d), NEW c \in Clients
  PROVE  Ordered(c)'
<1>1. /\ d \in todo[p] /\ todo' = [todo EXCEPT ![p] = @ \ {d}]
      /\ ch' = IF Len(ch[d]) < Cap THEN [ch EXCEPT ![d] = Append(@, <<p, count[p]>>)] ELSE ch
      /\ UNCHANGED <<count, handler, hand, queue, last>>
  BY DEF PublishSend, Event, redisVars, history
<1>2. TypeOK /\ PlaceInv /\ Ordered(c)
  BY DEF IInv, OrderInv
<1>3. ch \in [Clients -> Seq(Events)] /\ todo \in [Publishers -> SUBSET Clients]
  BY <1>2 DEF TypeOK
<1>4. todo'[p] = todo[p] \ {d} /\ \A q \in Publishers : q # p => todo'[q] = todo[q]
  BY <1>1, <1>3
<1>5. \A q \in Publishers : c \in todo'[q] => c \in todo[q]
  BY <1>4
<1>6. ch'[c] = ch[c] \/ (c = d /\ ch'[c] = Append(ch[c], <<p, count[p]>>))
  BY <1>1, <1>3
<1>7. CASE ch'[c] = ch[c]
  <2>1. Coming(c)' = Coming(c)
    BY <1>1, <1>7 DEF Coming
  <2> QED BY <1>1, <1>2, <1>5, <2>1, Untouched
<1>8. CASE c = d /\ ch'[c] = Append(ch[c], <<p, count[p]>>)
  <2>1. backend = "memory"
    BY <1>1, <1>2 DEF PlaceInv, TypeOK
  <2>2. queue[c] = <<>> /\ Coming(c) = ch[c]
    BY <1>2, <2>1, NoQueue
  <2>3. /\ Coming(c) \in Seq(Events) /\ last[c] \in [Publishers -> Nat] /\ count \in [Publishers -> Nat]
        /\ \A q \in Publishers : last[c][q] \in Nat /\ count[q] \in Nat
    BY <1>2, Lists
  <2>4. Between(Coming(c), last[c], count) /\ Unseen(p, c)
    BY <1>2 DEF Ordered
  <2>5. Below(Coming(c), p, count[p]) /\ last[c][p] < count[p]
    BY <1>1, <1>8, <2>4 DEF Unseen
  <2>6. count[p] <= count[p]
    BY <2>3
  <2> DEFINE w == Append(Coming(c), <<p, count[p]>>)
  <2>7. /\ w \in Seq(Events) /\ Between(w, last[c], count)
        /\ \A e \in Events : Held(e, Coming(c), last[c], count) /\ (e[1] = p => e[2] < count[p]) => Held(e, w, last[c], count)
        /\ \A q \in Publishers, m \in Nat : Below(Coming(c), q, m) /\ (q = p => count[p] < m) => Below(w, q, m)
    BY <2>3, <2>4, <2>5, <2>6, BetweenAppend
  <2>8. Coming(c)' = w
    <3>1. Coming(c)' = w \o <<>>
      BY <1>1, <1>8, <2>2 DEF Coming
    <3> HIDE DEF w
    <3> QED BY <2>7, <3>1, ConcatEmptySeq
  <2> HIDE DEF w
  <2>9. ASSUME handler[c] = "writing" PROVE Held(hand[c], w, last[c], count)
    <3>1. hand[c] \in Events /\ Held(hand[c], Coming(c), last[c], count)
      BY <1>2, <2>9 DEF PlaceInv, Ordered
    <3>2. hand[c][1] = p => hand[c][2] < count[p]
      BY <1>1, <1>8, <2>4, <2>9 DEF Unseen
    <3> QED BY <2>7, <3>1, <3>2
  <2>10. ASSUME NEW q \in Publishers PROVE Unseen(q, c)'
    <3>1. CASE q = p
      BY <1>4, <1>8, <3>1 DEF Unseen
    <3>2. CASE q # p
      <4>1. Unseen(q, c)
        BY <1>2 DEF Ordered
      <4>2. Below(Coming(c), q, count[q]) => Below(w, q, count[q])
        BY <2>3, <2>7, <3>2
      <4> QED BY <1>1, <1>5, <2>8, <4>1, <4>2 DEF Unseen
    <3> QED BY <3>1, <3>2
  <2>11. Between(Coming(c), last[c], count)'
    BY <1>1, <2>7, <2>8
  <2>12. ASSUME handler'[c] = "writing" PROVE Held(hand[c], Coming(c), last[c], count)'
    BY <1>1, <2>8, <2>9, <2>12
  <2> QED BY <2>10, <2>11, <2>12 DEF Ordered
<1> QED BY <1>6, <1>7, <1>8

\* A new subscriber has left behind what is published and has nothing on its way.
LEMMA OrderSubscribe ==
  ASSUME IInv, NEW d \in Clients, SseSubscribe(d), NEW c \in Clients
  PROVE  Ordered(c)'
<1>1. /\ handler[d] = "headers" /\ handler' = [handler EXCEPT ![d] = "loop"]
      /\ last' = [last EXCEPT ![d] = count]
      /\ UNCHANGED <<count, todo, ch, hand, queue>>
  BY DEF SseSubscribe, HGoto, redisVars
<1>2. TypeOK /\ PlaceInv /\ Ordered(c)
  BY DEF IInv, OrderInv
<1>3. handler \in [Clients -> {"idle", "headers", "loop", "writing", "cancel", "returned"}]
      /\ last \in [Clients -> [Publishers -> Nat]] /\ count \in [Publishers -> Nat]
  BY <1>2 DEF TypeOK
<1>4. Coming(c)' = Coming(c)
  BY <1>1 DEF Coming
<1>5. CASE c # d
  <2>1. UNCHANGED <<last[c], count, handler[c], hand[c]>>
    BY <1>1, <1>3, <1>5
  <2> QED BY <1>1, <1>2, <1>4, <2>1, Untouched
<1>6. CASE c = d
  <2>1. handler'[c] = "loop" /\ last'[c] = count
    BY <1>1, <1>3, <1>6
  <2>2. ch[c] = <<>> /\ queue[c] = <<>>
    BY <1>1, <1>2, <1>6 DEF PlaceInv
  <2>3. Coming(c) = <<>>
    BY <1>2, <2>2, Lists, ConcatEmptySeq DEF Coming
  <2>4. Between(<<>>, count, count)
    BY <1>3 DEF Between, Increasing, Above, Below
  <2>5. ASSUME NEW q \in Publishers PROVE c \notin todo[q]
    BY <1>1, <1>2, <1>6 DEF PlaceInv
  <2>6. Between(Coming(c), last[c], count)'
    BY <1>1, <1>4, <2>1, <2>3, <2>4
  <2> QED BY <1>1, <2>1, <2>5, <2>6 DEF Ordered, Unseen
<1> QED BY <1>5, <1>6

\* The event that a handler takes up is the first on its way.
LEMMA OrderReceive ==
  ASSUME IInv, NEW d \in Clients, SseReceive(d), NEW c \in Clients
  PROVE  Ordered(c)'
<1>1. /\ handler[d] = "loop" /\ ch[d] # <<>>
      /\ ch' = [ch EXCEPT ![d] = Tail(@)] /\ hand' = [hand EXCEPT ![d] = Head(ch[d])]
      /\ handler' = [handler EXCEPT ![d] = "writing"]
      /\ UNCHANGED <<count, todo, queue, last>>
  BY DEF SseReceive, HGoto, busVars, redisVars, history
<1>2. TypeOK /\ PlaceInv /\ Ordered(c)
  BY DEF IInv, OrderInv
<1>3. DOMAIN handler = Clients /\ DOMAIN ch = Clients /\ DOMAIN hand = Clients
  BY <1>2 DEF TypeOK
<1>4. CASE c # d
  <2>1. UNCHANGED <<handler[c], ch[c], hand[c]>>
    BY <1>1, <1>3, <1>4
  <2>2. Coming(c)' = Coming(c)
    BY <1>1, <2>1 DEF Coming
  <2> QED BY <1>1, <1>2, <2>1, <2>2, Untouched
<1>5. CASE c = d
  <2> DEFINE w == Coming(c)
  <2>1. ch'[c] = Tail(ch[c]) /\ hand'[c] = Head(ch[c]) /\ handler'[c] = "writing"
    BY <1>1, <1>3, <1>5
  <2>2. /\ ch[c] \in Seq(Events) /\ queue[c] \in Seq(Events)
        /\ w \in Seq(Events) /\ last[c] \in [Publishers -> Nat] /\ count \in [Publishers -> Nat]
        /\ \A q \in Publishers : last[c][q] \in Nat /\ count[q] \in Nat
    BY <1>2, Lists
  <2>3. w # <<>> /\ Head(ch[c]) = Head(w) /\ Tail(ch[c]) \o queue[c] = Tail(w)
    BY <1>1, <1>5, <2>2, Received DEF Coming
  <2>4. Coming(c)' = Tail(w) /\ hand'[c] = Head(w)
    BY <1>1, <2>1, <2>3 DEF Coming
  <2>5. Between(w, last[c], count)
    BY <1>2 DEF Ordered
  <2>6. \A q \in Publishers : Unseen(q, c)
    BY <1>2 DEF Ordered
  <2>7. ASSUME NEW q \in Publishers, c \in todo[q] PROVE last[c][q] < count[q] /\ Below(w, q, count[q])
    BY <2>6, <2>7 DEF Unseen
  <2> HIDE DEF w
  <2>8. Between(Tail(w), last[c], count) /\ Held(Head(w), Tail(w), last[c], count)
    BY <2>2, <2>3, <2>5, BetweenTail
  <2>9. ASSUME NEW q \in Publishers, c \in todo[q]
        PROVE  Below(Tail(w), q, count[q]) /\ (Head(w)[1] = q => Head(w)[2] < count[q])
    BY <2>2, <2>3, <2>7, <2>9, TailEvent
  <2>10. Between(Coming(c), last[c], count)'
    BY <1>1, <2>4, <2>8
  <2>11. Held(hand[c], Coming(c), last[c], count)'
    BY <1>1, <2>4, <2>8
  <2>12. ASSUME NEW q \in Publishers PROVE Unseen(q, c)'
    BY <1>1, <2>4, <2>7, <2>9 DEF Unseen
  <2> QED BY <2>10, <2>11, <2>12 DEF Ordered
<1> QED BY <1>4, <1>5

\* An event that is written is left behind; those on their way are later ones.
LEMMA OrderWrite ==
  ASSUME IInv, NEW d \in Clients, SseWrite(d), NEW c \in Clients
  PROVE  Ordered(c)'
<1>1. /\ handler[d] = "writing" /\ handler' = [handler EXCEPT ![d] = "loop"]
      /\ last' = [last EXCEPT ![d] = [@ EXCEPT ![hand[d][1]] = hand[d][2]]]
      /\ hand' = [hand EXCEPT ![d] = <<>>]
      /\ UNCHANGED <<count, todo, ch, queue>>
  BY DEF SseWrite, HGoto, busVars, redisVars
<1>2. TypeOK /\ PlaceInv /\ Ordered(c)
  BY DEF IInv, OrderInv
<1>3. DOMAIN handler = Clients /\ DOMAIN last = Clients /\ DOMAIN hand = Clients
  BY <1>2 DEF TypeOK
<1>4. Coming(c)' = Coming(c)
  BY <1>1 DEF Coming
<1>5. CASE c # d
  <2>1. UNCHANGED <<handler[c], last[c], hand[c]>>
    BY <1>1, <1>3, <1>5
  <2> QED BY <1>1, <1>2, <1>4, <2>1, Untouched
<1>6. CASE c = d
  <2> DEFINE e == hand[c]
  <2>1. handler[c] = "writing" /\ handler'[c] = "loop" /\ last'[c] = [last[c] EXCEPT ![e[1]] = e[2]]
    BY <1>1, <1>3, <1>6
  <2>2. /\ Coming(c) \in Seq(Events) /\ last[c] \in [Publishers -> Nat] /\ count \in [Publishers -> Nat]
        /\ \A q \in Publishers : last[c][q] \in Nat /\ count[q] \in Nat
    BY <1>2, Lists
  <2>3. e \in Events /\ Between(Coming(c), last[c], count) /\ Held(e, Coming(c), last[c], count)
    BY <1>2, <2>1 DEF PlaceInv, Ordered
  <2>4. Between(Coming(c), [last[c] EXCEPT ![e[1]] = e[2]], count)
    BY <2>2, <2>3, BetweenWrite
  <2>5. Between(Coming(c), last[c], count)'
    BY <1>1, <1>4, <2>1, <2>4
  <2>6. ASSUME NEW q \in Publishers, c \in todo[q] PROVE last'[c][q] < count[q] /\ Below(Coming(c), q, count[q])
    <3>1. Unseen(q, c)
      BY <1>2 DEF Ordered
    <3>2. last[c][q] < count[q] /\ Below(Coming(c), q, count[q]) /\ (e[1] = q => e[2] < count[q])
      BY <2>1, <2>6, <3>1 DEF Unseen
    <3>3. last'[c][q] = IF q = e[1] THEN e[2] ELSE last[c][q]
      BY <2>1, <2>2
    <3> QED BY <3>2, <3>3
  <2>7. ASSUME NEW q \in Publishers PROVE Unseen(q, c)'
    BY <1>1, <1>4, <2>1, <2>6 DEF Unseen
  <2> QED BY <2>1, <2>5, <2>7 DEF Ordered
<1> QED BY <1>5, <1>6

\* The forwarder moves events on and changes nothing of their order.
LEMMA OrderForward ==
  ASSUME IInv, NEW d \in Clients, FwdSend(d), NEW c \in Clients
  PROVE  Ordered(c)'
<1>1. /\ queue[d] # <<>>
      /\ ch' = [ch EXCEPT ![d] = Append(@, Head(queue[d]))] /\ queue' = [queue EXCEPT ![d] = Tail(@)]
      /\ UNCHANGED <<count, todo, handler, hand, last>>
  BY DEF FwdSend, busVars, history
<1>2. TypeOK /\ Ordered(c)
  BY DEF IInv, OrderInv
<1>3. DOMAIN ch = Clients /\ DOMAIN queue = Clients
  BY <1>2 DEF TypeOK
<1>4. Coming(c)' = Coming(c)
  <2>1. CASE c # d
    BY <1>1, <1>3, <2>1 DEF Coming
  <2>2. CASE c = d
    <3>1. ch'[c] = Append(ch[c], Head(queue[c])) /\ queue'[c] = Tail(queue[c])
      BY <1>1, <1>3, <2>2
    <3>2. Append(ch[c], Head(queue[c])) \o Tail(queue[c]) = ch[c] \o queue[c]
      BY <1>1, <1>2, <2>2, Lists, Forwarded
    <3> QED BY <3>1, <3>2 DEF Coming
  <2> QED BY <2>1, <2>2
<1> QED BY <1>1, <1>2, <1>4, Untouched

\* The other steps of handlers, forwarders and clients.
OtherStep(d) ==
  \/ SseWriteError(d) \/ SseHeaders(d) \/ SseStops(d) \/ SseCancel(d)
  \/ ClientGone(d) \/ FwdEnds(d)

\* They move no event, and no handler begins to write.
LEMMA OrderOthers ==
  ASSUME IInv, NEW d \in Clients, OtherStep(d), NEW c \in Clients
  PROVE  Ordered(c)'
<1>1. UNCHANGED <<count, todo, ch, queue, last>>
  BY DEF OtherStep, SseWriteError, SseHeaders, SseStops, SseCancel, ClientGone, FwdEnds, busVars, redisVars, history
<1>2. TypeOK /\ Ordered(c)
  BY DEF IInv, OrderInv
<1>3. DOMAIN handler = Clients /\ DOMAIN hand = Clients
  BY <1>2 DEF TypeOK
<1>4. handler'[c] = "writing" => handler[c] = "writing" /\ hand'[c] = hand[c]
  <2>1. CASE SseWriteError(d)
    BY <1>3, <2>1 DEF SseWriteError, HGoto
  <2>2. CASE SseHeaders(d) \/ SseStops(d) \/ SseCancel(d)
    <3>1. hand' = hand /\ \E place \in {"headers", "cancel", "returned"} : handler' = [handler EXCEPT ![d] = place]
      BY <2>2 DEF SseHeaders, SseStops, SseCancel, HGoto
    <3> QED BY <1>3, <3>1
  <2>3. CASE ClientGone(d) \/ FwdEnds(d)
    BY <2>3 DEF ClientGone, FwdEnds
  <2> QED BY <2>1, <2>2, <2>3 DEF OtherStep
<1>5. Coming(c)' = Coming(c)
  BY <1>1 DEF Coming
<1> QED BY <1>1, <1>2, <1>4, <1>5, Untouched

-----------------------------------------------------------------------------
(* The inductive invariant                                                 *)

\* Every step of the session's publishers, handlers and forwarders preserves it.
LEMMA InvStep == IInv /\ [Next]_vars => IInv'
<1> SUFFICES ASSUME IInv, [Next]_vars PROVE IInv'
  OBVIOUS
<1>1. TypeOK' /\ PlaceInv'
  BY TypeStep, PlaceStep DEF IInv
<1>2. OrderInv'
  <2> SUFFICES ASSUME NEW c \in Clients PROVE Ordered(c)'
    BY DEF OrderInv
  <2>1. ASSUME NEW p \in Publishers, PublishMemory(p) PROVE Ordered(c)'
    BY <1>1, <2>1, OrderPublishMemory
  <2>2. ASSUME NEW p \in Publishers, PublishRedis(p) PROVE Ordered(c)'
    BY <1>1, <2>2, OrderPublishRedis
  <2>3. ASSUME NEW p \in Publishers, NEW d \in Clients, PublishSend(p, d) PROVE Ordered(c)'
    BY <2>3, OrderPublishSend
  <2>4. ASSUME NEW d \in Clients, SseSubscribe(d) PROVE Ordered(c)'
    BY <2>4, OrderSubscribe
  <2>5. ASSUME NEW d \in Clients, SseReceive(d) PROVE Ordered(c)'
    BY <2>5, OrderReceive
  <2>6. ASSUME NEW d \in Clients, SseWrite(d) PROVE Ordered(c)'
    BY <2>6, OrderWrite
  <2>7. ASSUME NEW d \in Clients, FwdSend(d) PROVE Ordered(c)'
    BY <2>7, OrderForward
  <2>8. ASSUME NEW d \in Clients, OtherStep(d) PROVE Ordered(c)'
    BY <2>8, OrderOthers
  <2>9. CASE UNCHANGED vars
    <3>1. UNCHANGED <<count, todo, ch, queue, last, handler, hand>>
      BY <2>9 DEF vars
    <3>2. Ordered(c) /\ Coming(c)' = Coming(c)
      BY <3>1 DEF IInv, OrderInv, Coming
    <3> QED BY <3>1, <3>2, Untouched
  <2> QED BY <2>1, <2>2, <2>3, <2>4, <2>5, <2>6, <2>7, <2>8, <2>9, StepCases DEF OtherStep
<1> QED BY <1>1, <1>2 DEF IInv

\* It holds of a broker that nobody has used yet.
LEMMA InvInit == Init => IInv
<1> SUFFICES ASSUME Init PROVE IInv
  OBVIOUS
<1>1. TypeOK /\ PlaceInv
  BY PlaceInit
<1>2. ASSUME NEW c \in Clients PROVE Ordered(c)
  <2>1. last[c] = count /\ count \in [Publishers -> Nat] /\ handler[c] = "idle" /\ \A p \in Publishers : todo[p] = {}
    BY DEF Init
  <2>2. ch[c] = <<>> /\ queue[c] = <<>>
    BY DEF Init
  <2>3. Coming(c) = <<>>
    BY <1>1, <2>2, Lists, ConcatEmptySeq DEF Coming
  <2>4. Between(<<>>, count, count)
    BY <2>1 DEF Between, Increasing, Above, Below
  <2> QED BY <2>1, <2>3, <2>4 DEF Ordered, Unseen
<1> QED BY <1>1, <1>2 DEF IInv, OrderInv

\* The invariant holds in every state that is reached.
LEMMA Invariance == Spec => []IInv
<1> QED BY InvInit, InvStep, PTL DEF Spec

-----------------------------------------------------------------------------
(* The promise of EventFeed                                                *)

\* A client's subscription as its handler shows it.
Subscription(place) ==
  IF place \in {"idle", "headers"} THEN "none" ELSE IF place = "returned" THEN "closed" ELSE "open"

status == [c \in Clients |-> Subscription(handler[c])]

\* A step that publishes nothing, gives no client an event and opens or ends no
\* subscription is none of the feed.
LEMMA FeedStutters ==
  ASSUME UNCHANGED <<count, last, got>>,
         \A c \in Clients : Subscription(handler'[c]) = Subscription(handler[c])
  PROVE  UNCHANGED Feed!vars
<1>1. status' = status
  BY DEF status
<1> QED BY <1>1 DEF Feed!vars, status, Subscription

\* Every step of the brokers, the handlers and the clients is a step of the feed
\* or none at all.
LEMMA FeedStep == IInv /\ [Next]_vars => [Feed!Next]_(Feed!vars)
<1> SUFFICES ASSUME IInv, [Next]_vars PROVE Feed!Next \/ UNCHANGED Feed!vars
  OBVIOUS
<1>0. TypeOK /\ PlaceInv /\ \A c \in Clients : Ordered(c)
  BY DEF IInv, OrderInv
<1>1. ASSUME NEW p \in Publishers, PublishMemory(p) \/ PublishRedis(p) PROVE Feed!Next
  <2>1. count' = [count EXCEPT ![p] = @ + 1] /\ UNCHANGED <<handler, last, got>>
    BY <1>1 DEF PublishMemory, PublishRedis, history
  <2>2. Feed!Publish(p)
    BY <2>1 DEF Feed!Publish
  <2> QED BY <2>2 DEF Feed!Next
<1>2. ASSUME NEW p \in Publishers, NEW c \in Clients, PublishSend(p, c) PROVE UNCHANGED Feed!vars
  BY <1>2, FeedStutters DEF PublishSend, history
<1>3. ASSUME NEW c \in Clients, SseSubscribe(c) PROVE Feed!Next
  <2>1. /\ handler[c] = "headers" /\ handler' = [handler EXCEPT ![c] = "loop"]
        /\ last' = [last EXCEPT ![c] = count] /\ UNCHANGED <<count, got>>
    BY <1>3 DEF SseSubscribe, HGoto
  <2>2. status[c] = "none" /\ status' = [status EXCEPT ![c] = "open"]
    BY <1>0, <2>1 DEF TypeOK, status, Subscription
  <2>3. Feed!Open(c)
    BY <2>1, <2>2 DEF Feed!Open, status, Subscription
  <2> QED BY <2>3 DEF Feed!Next
<1>4. ASSUME NEW c \in Clients, SseWrite(c) PROVE Feed!Next
  <2> DEFINE e == hand[c]
  <2>1. /\ handler[c] = "writing" /\ handler' = [handler EXCEPT ![c] = "loop"]
        /\ last' = [last EXCEPT ![c] = [@ EXCEPT ![e[1]] = e[2]]]
        /\ got' = [got EXCEPT ![c] = @ + 1] /\ count' = count
    BY <1>4 DEF SseWrite, HGoto, busVars
  <2>2. e \in Events /\ Held(e, Coming(c), last[c], count)
    BY <1>0, <2>1 DEF PlaceInv, Ordered
  <2>3. e[1] \in Publishers /\ e[2] \in Nat /\ last[c][e[1]] < e[2] /\ e[2] <= count[e[1]]
    BY <2>2, EventParts DEF Held
  <2>4. last[c][e[1]] \in Nat /\ count[e[1]] \in Nat
    BY <1>0, <2>3, Lists
  <2>5. e[2] \in 1..count[e[1]]
    BY <2>3, <2>4
  <2>6. status[c] = "open" /\ status' = status
    BY <1>0, <2>1 DEF TypeOK, status, Subscription
  <2>7. Feed!Deliver(c, e[1], e[2])
    BY <2>1, <2>3, <2>6 DEF Feed!Deliver, status, Subscription
  <2> QED BY <2>3, <2>5, <2>7 DEF Feed!Next
<1>5. ASSUME NEW c \in Clients, SseCancel(c) PROVE Feed!Next
  <2>1. handler[c] = "cancel" /\ handler' = [handler EXCEPT ![c] = "returned"] /\ UNCHANGED <<count, last, got>>
    BY <1>5 DEF SseCancel, HGoto, history
  <2>2. status[c] = "open" /\ status' = [status EXCEPT ![c] = "closed"]
    BY <1>0, <2>1 DEF TypeOK, status, Subscription
  <2>3. Feed!Close(c)
    BY <2>1, <2>2 DEF Feed!Close, status, Subscription
  <2> QED BY <2>3 DEF Feed!Next
<1>6. ASSUME NEW c \in Clients, SseReceive(c) \/ SseWriteError(c) \/ SseHeaders(c) \/ SseStops(c)
      PROVE  UNCHANGED Feed!vars
  <2>1. UNCHANGED <<count, last, got>>
    BY <1>6 DEF SseReceive, SseWriteError, SseHeaders, SseStops, busVars, history
  <2>2. \/ handler[c] \in {"loop", "writing"} /\ \E l \in {"writing", "cancel"} : handler' = [handler EXCEPT ![c] = l]
        \/ handler[c] = "idle" /\ handler' = [handler EXCEPT ![c] = "headers"]
    BY <1>6 DEF SseReceive, SseWriteError, SseHeaders, SseStops, HGoto
  <2>3. DOMAIN handler = Clients
    BY <1>0 DEF TypeOK
  <2>4. \A d \in Clients : Subscription(handler'[d]) = Subscription(handler[d])
    BY <2>2, <2>3 DEF Subscription
  <2> QED BY <2>1, <2>4, FeedStutters
<1>7. ASSUME NEW c \in Clients, ClientGone(c) \/ FwdSend(c) \/ FwdEnds(c) PROVE UNCHANGED Feed!vars
  <2>1. UNCHANGED <<count, last, got, handler>>
    BY <1>7 DEF ClientGone, FwdSend, FwdEnds, busVars, history
  <2> QED BY <2>1, FeedStutters
<1>8. CASE UNCHANGED vars
  <2>1. UNCHANGED <<count, last, got, handler>>
    BY <1>8 DEF vars
  <2> QED BY <2>1, FeedStutters
<1> QED BY <1>1, <1>2, <1>3, <1>4, <1>5, <1>6, <1>7, <1>8, StepCases

\* Whatever the number of clients, publishers and events and the capacity of the
\* channels: either broker with handleSessionEvents behind it gives each client
\* the events of a publisher in order, none twice, none from before it
\* subscribed and none after its handler returned.
THEOREM BrokersImplementFeed == Spec => ImplementsFeed
<1>1. Init => Feed!Init
  BY DEF Init, Feed!Init
<1> QED BY <1>1, Invariance, FeedStep, PTL DEF Spec, ImplementsFeed, Feed!Spec

-----------------------------------------------------------------------------
(* What a client that goes leaves behind                                   *)

\* A client that has gone has a handler, which can only stop; once it has returned
\* no Publish is to send to it, the broker has forgotten it, and a forwarder still at
\* work has had its subscription closed, so that its messages come to an end.
Releasing ==
  \A c \in Clients :
    /\ c \in gone => handler[c] # "idle"
    /\ handler[c] = "returned" => c \in gone /\ c \notin subs /\ \A p \in Publishers : c \notin todo[p]
    /\ handler[c] = "returned" /\ fwd[c] = "range" => pubsub[c] = "closed"

\* A handler never returns with its client still in the map of the MemoryBroker, in
\* the list of a Publish that is under way, or with its Redis subscription open and
\* the forwarder at work: nothing that only the handler could clean up is left to
\* anybody else.  The safety half of SubscriberReleased, for any number of clients
\* and publishers and any channel capacity.
THEOREM SubscribersReleasing == Spec => []Releasing
<1>1. Init => Releasing
  BY DEF Init, Releasing
<1>2. ASSUME TypeOK, PlaceInv, Releasing, [Next]_vars PROVE Releasing'
  <2> USE <1>2
  <2>0. /\ handler \in [Clients -> {"idle", "headers", "loop", "writing", "cancel", "returned"}]
        /\ pubsub \in [Clients -> {"none", "on", "closed"}] /\ fwd \in [Clients -> {"none", "range", "ended"}]
        /\ todo \in [Publishers -> SUBSET Clients] /\ backend \in {"memory", "redis"}
        /\ \A p \in Publishers : todo[p] \subseteq subs
        /\ backend = "memory" => \A c \in Clients : fwd[c] = "none"
        /\ backend = "redis" => subs = {} /\ \A p \in Publishers : todo[p] = {}
    BY DEF TypeOK, PlaceInv
  <2>1. ASSUME NEW p \in Publishers, PublishMemory(p) \/ PublishRedis(p) \/ \E c \in Clients : PublishSend(p, c)
        PROVE  Releasing'
    <3>1. UNCHANGED <<handler, gone, subs, pubsub, fwd>>
      BY <2>1 DEF PublishMemory, PublishRedis, PublishSend, redisVars
    <3>2. \/ todo' = todo \/ todo' = [todo EXCEPT ![p] = subs]
          \/ \E c \in Clients : todo' = [todo EXCEPT ![p] = @ \ {c}]
      BY <2>1 DEF PublishMemory, PublishRedis, PublishSend
    <3>3. \A q \in Publishers : todo'[q] \subseteq subs
      BY <2>0, <3>2
    <3> QED
      BY <3>1, <3>3 DEF Releasing
  <2>2. ASSUME NEW c \in Clients, SseSubscribe(c) PROVE Releasing'
    <3>1. /\ handler[c] = "headers" /\ handler' = [handler EXCEPT ![c] = "loop"] /\ UNCHANGED <<gone, todo>>
          /\ subs' \in {subs, subs \cup {c}}
          /\ \A d \in Clients : d # c => UNCHANGED <<pubsub[d], fwd[d]>>
      BY <2>0, <2>2 DEF SseSubscribe, HGoto, redisVars
    <3> QED
      BY <2>0, <3>1 DEF Releasing
  <2>3. ASSUME NEW c \in Clients, SseReceive(c) \/ SseWrite(c) \/ SseWriteError(c) \/ SseStops(c) \/ SseHeaders(c)
        PROVE  Releasing'
    <3>1. /\ handler[c] # "returned" /\ \E l \in {"headers", "loop", "writing", "cancel"} : handler' = [handler EXCEPT ![c] = l]
          /\ gone' \in {gone, gone \cup {c}} /\ UNCHANGED <<todo, subs, pubsub, fwd>>
      BY <2>3 DEF SseReceive, SseWrite, SseWriteError, SseStops, SseHeaders, HGoto, busVars, redisVars
    <3> QED
      BY <2>0, <3>1 DEF Releasing
  <2>4. ASSUME NEW c \in Clients, SseCancel(c) PROVE Releasing'
    <3>1. /\ handler' = [handler EXCEPT ![c] = "returned"] /\ gone' = gone \cup {c} /\ UNCHANGED <<todo, fwd>>
          /\ \A d \in Clients : d # c => pubsub'[d] = pubsub[d]
      BY <2>0, <2>4 DEF SseCancel, HGoto
    <3>2. /\ c \notin subs' /\ subs' \subseteq subs /\ \A p \in Publishers : c \notin todo[p]
          /\ fwd[c] = "range" => pubsub'[c] = "closed"
      BY <2>0, <2>4 DEF SseCancel, RLocked
    <3> QED
      BY <2>0, <3>1, <3>2 DEF Releasing
  <2>5. ASSUME NEW c \in Clients, ClientGone(c) PROVE Releasing'
    BY <2>5 DEF ClientGone, Releasing, busVars, redisVars
  <2>6. ASSUME NEW c \in Clients, FwdSend(c) \/ FwdEnds(c) PROVE Releasing'
    <3>1. /\ UNCHANGED <<handler, gone, subs, todo, pubsub>>
          /\ \A d \in Clients : fwd'[d] = "range" => fwd[d] = "range"
      BY <2>0, <2>6 DEF FwdSend, FwdEnds, busVars
    <3> QED
      BY <3>1 DEF Releasing
  <2>7. CASE UNCHANGED vars
    BY <2>7 DEF vars, Releasing
  <2> QED
    BY <2>1, <2>2, <2>3, <2>4, <2>5, <2>6, <2>7, StepCases
<1>3. TypeOK /\ PlaceInv /\ [Next]_vars => TypeOK' /\ PlaceInv'
  BY TypeStep, PlaceStep
<1> QED
  BY <1>1, <1>2, <1>3, PlaceInit, PTL DEF Spec

=============================================================================
