--------------------------- MODULE SessionEvents ---------------------------
(***************************************************************************)
(* The events of one session from the broker to the SSE clients: both      *)
(* brokers of session/broker.go and handleSessionEvents of api/server.go.  *)
(* The MemoryBroker sends to the clients' channels one by one under a read *)
(* lock; the RedisBroker leaves that to Redis and has a goroutine per      *)
(* client that moves messages into its channel.  An event is a publisher   *)
(* (a Prompt or a Cancel activity) and a number.                           *)
(***************************************************************************)
EXTENDS Naturals, Sequences, FiniteSets

CONSTANTS
  Clients,     \* requests for the events of the session
  Publishers,  \* activities that publish events of the session
  Cap,         \* capacity of a client's channel (64 in the code)
  MaxEvents,   \* bound: MaxEvents[p] events are published by p
  MaxOpen      \* bound: MaxOpen[b] clients are served over the broker b

ASSUME EventsAssumption ==
  /\ Cap \in Nat \ {0}
  /\ MaxEvents \in [Publishers -> Nat]
  /\ MaxOpen \in [{"memory", "redis"} -> Nat]

VARIABLES
  backend,  \* memory or redis, chosen by session.Open
  count,    \* count[p]: number of the last event p began to publish
  todo,     \* todo[p]: subscribers to which p's MemoryBroker.Publish has yet to send
  subs,     \* MemoryBroker.subs of the session
  handler,  \* handleSessionEvents: its place for each client
  gone,     \* clients whose request context has ended
  ch,       \* the client's channel
  hand,     \* hand[c]: the event being written to c
  chan,     \* the channel's state: none, open or closed
  pubsub,   \* redis: the subscription: none, on or closed
  queue,    \* redis: messages received for the client and not read
  fwd,      \* redis: the forwarding goroutine: none, range or ended
  last,     \* history: last[c][p], the last event of p written to c, or before c's time
  got       \* history: got[c], the number of events written to c

busVars == <<count, todo, subs>>
history == <<last, got>>
redisVars == <<pubsub, queue, fwd>>
vars == <<backend, count, todo, subs, handler, gone, ch, chan, hand, pubsub, queue, fwd, last, got>>

Events == Publishers \X Nat

TypeOK ==
  /\ backend \in {"memory", "redis"}
  /\ count \in [Publishers -> Nat]
  /\ todo \in [Publishers -> SUBSET Clients]
  /\ subs \subseteq Clients
  /\ handler \in [Clients -> {"idle", "headers", "loop", "writing", "cancel", "returned"}]
  /\ gone \subseteq Clients
  /\ ch \in [Clients -> Seq(Events)] /\ \A c \in Clients : Len(ch[c]) <= Cap
  /\ chan \in [Clients -> {"none", "open", "closed"}]
  /\ hand \in [Clients -> Events \cup {<<>>}]
  /\ pubsub \in [Clients -> {"none", "on", "closed"}]
  /\ queue \in [Clients -> Seq(Events)]
  /\ fwd \in [Clients -> {"none", "range", "ended"}]
  /\ last \in [Clients -> [Publishers -> Nat]]
  /\ got \in [Clients -> Nat]

Init ==
  /\ backend \in {"memory", "redis"}
  /\ count = [p \in Publishers |-> 0]
  /\ todo = [p \in Publishers |-> {}]
  /\ subs = {}
  /\ handler = [c \in Clients |-> "idle"]
  /\ gone = {}
  /\ ch = [c \in Clients |-> <<>>]
  /\ chan = [c \in Clients |-> "none"]
  /\ hand = [c \in Clients |-> <<>>]
  /\ pubsub = [c \in Clients |-> "none"]
  /\ queue = [c \in Clients |-> <<>>]
  /\ fwd = [c \in Clients |-> "none"]
  /\ last = [c \in Clients |-> [p \in Publishers |-> 0]]
  /\ got = [c \in Clients |-> 0]

\* Some Publish holds the read lock; until it is done nobody gets the write lock.
RLocked == \E p \in Publishers : todo[p] # {}

Event(p) == <<p, count[p]>>

-----------------------------------------------------------------------------
(* Publishing                                                              *)

\* Activities.publish with the MemoryBroker: the read lock is taken and the
\* subscribers of that moment are gone through, in any order.
PublishMemory(p) ==
  /\ backend = "memory"
  /\ todo[p] = {} /\ count[p] < MaxEvents[p]
  /\ count' = [count EXCEPT ![p] = @ + 1]
  /\ todo' = [todo EXCEPT ![p] = subs]
  /\ UNCHANGED <<backend, subs, handler, gone, ch, chan, hand, redisVars, history>>

\* The select of Publish: a full channel misses the event.
PublishSend(p, c) ==
  /\ c \in todo[p]
  /\ todo' = [todo EXCEPT ![p] = @ \ {c}]
  /\ ch' = IF Len(ch[c]) < Cap THEN [ch EXCEPT ![c] = Append(@, Event(p))] ELSE ch
  /\ UNCHANGED <<backend, count, subs, handler, gone, chan, hand, redisVars, history>>

\* Activities.publish with the RedisBroker.  The server passes the message to
\* the subscriptions it knows of; one it has not got yet, a connection that is
\* down, and a failing PUBLISH lose it.
PublishRedis(p) ==
  /\ backend = "redis"
  /\ count[p] < MaxEvents[p]
  /\ count' = [count EXCEPT ![p] = @ + 1]
  /\ \E reached \in SUBSET {c \in Clients : pubsub[c] = "on"} :
       queue' = [c \in Clients |-> IF c \in reached THEN Append(queue[c], <<p, count[p] + 1>>)
                                   ELSE queue[c]]
  /\ UNCHANGED <<backend, todo, subs, handler, gone, ch, chan, hand, pubsub, fwd, history>>

-----------------------------------------------------------------------------
(* handleSessionEvents                                                     *)

HGoto(c, place) == handler' = [handler EXCEPT ![c] = place]

\* The response headers are written and flushed: the client knows it is served.
SseHeaders(c) ==
  /\ handler[c] = "idle"
  /\ Cardinality({d \in Clients : handler[d] # "idle"}) < MaxOpen[backend]
  /\ HGoto(c, "headers")
  /\ UNCHANGED <<backend, busVars, gone, ch, chan, hand, redisVars, history>>

\* Subscribe of either broker.
SseSubscribe(c) ==
  /\ handler[c] = "headers"
  /\ chan' = [chan EXCEPT ![c] = "open"]
  /\ last' = [last EXCEPT ![c] = count]
  /\ \/ /\ backend = "memory" /\ ~RLocked
        /\ subs' = subs \cup {c}
        /\ UNCHANGED redisVars
     \/ /\ backend = "redis"
        /\ pubsub' = [pubsub EXCEPT ![c] = "on"]
        /\ fwd' = [fwd EXCEPT ![c] = "range"]
        /\ UNCHANGED <<subs, queue>>
  /\ HGoto(c, "loop")
  /\ UNCHANGED <<backend, count, todo, gone, ch, hand, got>>

\* An event is received from the channel and is being written from then on.
SseReceive(c) ==
  /\ handler[c] = "loop" /\ ch[c] # <<>>
  /\ ch' = [ch EXCEPT ![c] = Tail(@)]
  /\ hand' = [hand EXCEPT ![c] = Head(ch[c])]
  /\ HGoto(c, "writing")
  /\ UNCHANGED <<backend, busVars, gone, chan, redisVars, history>>

\* The client takes the event, however late.
SseWrite(c) ==
  /\ handler[c] = "writing"
  /\ last' = [last EXCEPT ![c][hand[c][1]] = hand[c][2]]
  /\ got' = [got EXCEPT ![c] = @ + 1]
  /\ hand' = [hand EXCEPT ![c] = <<>>]
  /\ HGoto(c, "loop")
  /\ UNCHANGED <<backend, busVars, gone, ch, chan, redisVars>>

\* The connection is broken, which ends the request's context too.
SseWriteError(c) ==
  /\ handler[c] = "writing"
  /\ gone' = gone \cup {c}
  /\ hand' = [hand EXCEPT ![c] = <<>>]
  /\ HGoto(c, "cancel")
  /\ UNCHANGED <<backend, busVars, ch, chan, redisVars, history>>

\* The loop ends, on the context or on a closed channel.
SseStops(c) ==
  /\ handler[c] = "loop"
  /\ c \in gone \/ (chan[c] = "closed" /\ ch[c] = <<>>)
  /\ HGoto(c, "cancel")
  /\ UNCHANGED <<backend, busVars, gone, ch, chan, hand, redisVars, history>>

\* Mutant: the subscriber is removed without the lock.
SseCancelUnlocked(c) ==
  /\ handler[c] = "cancel"
  /\ \/ /\ backend = "memory"
        /\ subs' = subs \ {c} /\ chan' = [chan EXCEPT ![c] = "closed"]
        /\ UNCHANGED pubsub
     \/ /\ backend = "redis"
        /\ pubsub' = [pubsub EXCEPT ![c] = "closed"]
        /\ UNCHANGED <<subs, chan>>
  /\ HGoto(c, "returned")
  /\ gone' = gone \cup {c}
  /\ UNCHANGED <<backend, count, todo, ch, hand, queue, fwd, history>>

\* The deferred cancel: the MemoryBroker removes and closes the channel, the
\* RedisBroker closes the subscription.  When the handler has returned, the
\* server ends the request's context.
SseCancel(c) ==
  /\ handler[c] = "cancel"
  /\ \/ /\ backend = "memory" /\ ~RLocked
        /\ subs' = subs \ {c} /\ chan' = [chan EXCEPT ![c] = "closed"]
        /\ UNCHANGED pubsub
     \/ /\ backend = "redis"
        /\ pubsub' = [pubsub EXCEPT ![c] = "closed"]
        /\ UNCHANGED <<subs, chan>>
  /\ HGoto(c, "returned")
  /\ gone' = gone \cup {c}
  /\ UNCHANGED <<backend, count, todo, ch, hand, queue, fwd, history>>

\* The client goes away.
ClientGone(c) ==
  /\ handler[c] # "idle" /\ c \notin gone
  /\ gone' = gone \cup {c}
  /\ UNCHANGED <<backend, busVars, handler, ch, chan, hand, redisVars, history>>

-----------------------------------------------------------------------------
(* The goroutine of RedisBroker.Subscribe                                  *)

FwdEnds(c) ==
  /\ fwd' = [fwd EXCEPT ![c] = "ended"]
  /\ chan' = [chan EXCEPT ![c] = "closed"]
  /\ UNCHANGED <<backend, busVars, handler, gone, ch, hand, pubsub, queue, history>>

\* Mutant: a message that fills the channel is sent again.
FwdSendAgain(c) ==
  /\ fwd[c] = "range" /\ queue[c] # <<>> /\ Len(ch[c]) < Cap
  /\ ch' = [ch EXCEPT ![c] = Append(@, Head(queue[c]))]
  /\ queue' = IF Len(ch[c]) + 1 = Cap THEN queue ELSE [queue EXCEPT ![c] = Tail(@)]
  /\ UNCHANGED <<backend, busVars, handler, gone, chan, hand, pubsub, fwd, history>>

\* The next message goes into the channel once it has room.
FwdSend(c) ==
  /\ fwd[c] = "range" /\ queue[c] # <<>> /\ Len(ch[c]) < Cap
  /\ ch' = [ch EXCEPT ![c] = Append(@, Head(queue[c]))]
  /\ queue' = [queue EXCEPT ![c] = Tail(@)]
  /\ UNCHANGED <<backend, busVars, handler, gone, chan, hand, pubsub, fwd, history>>

\* Mutant: the goroutine waits for room only.
FwdCtxDoneIgnored(c) == fwd[c] = "range" /\ c \in gone /\ pubsub[c] = "none" /\ FwdEnds(c)

\* It has a message and the context has ended.
FwdCtxDone(c) == fwd[c] = "range" /\ queue[c] # <<>> /\ c \in gone /\ FwdEnds(c)

\* The subscription is closed and its messages are used up.
FwdRangeEnds(c) == fwd[c] = "range" /\ queue[c] = <<>> /\ pubsub[c] = "closed" /\ FwdEnds(c)

-----------------------------------------------------------------------------
PublisherStep(p) == PublishMemory(p) \/ PublishRedis(p) \/ (\E c \in Clients : PublishSend(p, c))
SseStep(c)       == SseSubscribe(c) \/ SseReceive(c) \/ SseStops(c) \/ SseCancel(c)
FwdStep(c)       == FwdSend(c) \/ FwdCtxDone(c) \/ FwdRangeEnds(c)
ClientStep(c)    == SseHeaders(c) \/ SseWrite(c) \/ SseWriteError(c) \/ ClientGone(c)

Next ==
  \/ \E p \in Publishers : PublisherStep(p)
  \/ \E c \in Clients : SseStep(c) \/ FwdStep(c) \/ ClientStep(c)

Spec == Init /\ [][Next]_vars

\* Goroutines that can run do, and writing to a client that has gone fails at
\* last.  A client that is there may take as long as it likes.
FairSpec ==
  /\ Spec
  /\ \A p \in Publishers : WF_vars(\E c \in Clients : PublishSend(p, c))
  /\ \A c \in Clients : /\ WF_vars(SseStep(c)) /\ WF_vars(FwdStep(c))
                        /\ WF_vars(c \in gone /\ SseWriteError(c))

-----------------------------------------------------------------------------
(* Properties                                                              *)

\* No send on a closed channel, which would end the process: a channel that a
\* Publish still has to send to, or that the forwarder sends to, is open.
SendOpen ==
  /\ \A p \in Publishers, c \in Clients : c \in todo[p] => chan[c] = "open"
  /\ \A c \in Clients : fwd[c] = "range" => chan[c] = "open"

\* Both brokers with the handler give each client what EventFeed promises: the
\* events of a publisher in order and none twice, from the subscription on.
Feed == INSTANCE EventFeed WITH
  status <- [c \in Clients |-> IF handler[c] \in {"idle", "headers"} THEN "none"
                               ELSE IF handler[c] = "returned" THEN "closed" ELSE "open"]

ImplementsFeed == Feed!Spec

\* Nothing is left of a client that has gone: its handler returns, the broker
\* forgets its channel and the forwarding goroutine ends, full channel or not.
SubscriberReleased ==
  \A c \in Clients : c \in gone ~>
    handler[c] = "returned" /\ c \notin subs /\ fwd[c] # "range"

\* What the SSE test takes for granted: once a client has its response headers,
\* it is subscribed to whatever is published.
HeadersMeanSubscribed == [][\A c \in Clients : handler[c] = "headers" => count' = count]_vars

=============================================================================
