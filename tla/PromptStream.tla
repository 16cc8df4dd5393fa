---------------------------- MODULE PromptStream ----------------------------
(***************************************************************************)
(* One agentHandle of the supervisor (runtime/supervisor/manager.go): the  *)
(* map from run ID to event channel, the Prompt RPCs that subscribe to it, *)
(* and the notification handler that feeds it from the agent's output.     *)
(*                                                                         *)
(* A Prompt subscribes its run ID, sends session/prompt to the agent and   *)
(* then relays events until one of them is final or its context ends; the  *)
(* deferred unsubscribe deletes and closes whatever channel the map holds  *)
(* under its run ID at that moment.  Run IDs come from the request and two *)
(* Prompts may carry the same one.                                         *)
(*                                                                         *)
(* The client is used through what AcpClient establishes: a call gets at   *)
(* most one answer, in the order of the agent's output, and an error if    *)
(* the output ends first.  A channel is named by the Prompt that made it.  *)
(***************************************************************************)
EXTENDS Naturals, Sequences, FiniteSets

CONSTANTS Prompts,    \* the Prompt RPCs
          RunIDs,     \* the run IDs requests carry
          None,       \* no channel, no run
          BufCap,     \* capacity of an event channel (64 in subscribe)
          MaxChunks,  \* bound: non-final events the agent writes per run ID
          MaxZero     \* bound: zero events a Prompt reads from a closed channel

ASSUME StreamAssumption ==
  /\ None \notin Prompts /\ None \notin RunIDs
  /\ BufCap \in Nat \ {0} /\ MaxChunks \in Nat /\ MaxZero \in Nat

VARIABLES
  pc,        \* where each Prompt is
  runID,     \* the run ID of each Prompt
  state,     \* the run state each Prompt holds
  delivered, \* the event types sent to the caller, in order
  answer,    \* the answer to each session/prompt call
  chan,      \* each channel: not made, open or closed
  buf,       \* the events buffered in each channel
  streams,   \* agentHandle.streams: run ID to channel
  dropped,   \* history: Prompts that lost an event to a full channel
  stdin,     \* requests on their way to the agent
  wire,      \* the agent's output on its way to the readLoop
  reader,    \* the readLoop runs, read everything, or ended with output unread
  proc,      \* the agent process
  active,    \* the Prompts the agent works on
  stopping,  \* the Prompts the agent was told to cancel
  emitted    \* history: the event types the agent wrote, per run ID

rpcVars    == <<pc, runID, state, delivered>>
handleVars == <<chan, buf, streams, dropped>>
agentVars  == <<proc, active, stopping, emitted>>
vars == <<pc, runID, state, delivered, answer, chan, buf, streams, dropped,
          stdin, wire, reader, proc, active, stopping, emitted>>

\* Event types: "completed" stands for every type but the other three that
\* carries the Final flag, "" for the zero event a closed channel yields.
FinalTypes == {"completed", "cancelled", "failed"}
EventTypes == {"chunk"} \cup FinalTypes
RunStates  == {"dispatching", "streaming", "completed", "cancelled", "failed"}
Message    == [kind : {"reply"}, to : Prompts, body : {"ok", "error"}]
              \cup [kind : {"event"}, to : RunIDs, body : EventTypes]

TypeOK ==
  /\ pc \in [Prompts -> {"idle", "subscribed", "call", "loop", "unsubscribe", "done"}]
  /\ runID \in [Prompts -> RunIDs \cup {None}]
  /\ state \in [Prompts -> RunStates]
  /\ delivered \in [Prompts -> Seq(EventTypes \cup {""})]
  /\ answer \in [Prompts -> {"none", "ok", "error"}]
  /\ chan \in [Prompts -> {"none", "open", "closed"}]
  /\ buf \in [Prompts -> Seq(EventTypes)]
  /\ streams \in [RunIDs -> Prompts \cup {None}]
  /\ dropped \subseteq Prompts
  /\ stdin \in Seq(Prompts)
  /\ wire \in Seq(Message)
  /\ reader \in {"run", "drained", "cut"}
  /\ proc \in {"up", "exited"}
  /\ active \subseteq Prompts
  /\ stopping \subseteq Prompts
  /\ emitted \in [RunIDs -> Seq(EventTypes)]

\* A handle as EnsureAgent leaves it: agent initialised, handler installed.
Init ==
  /\ pc = [p \in Prompts |-> "idle"]
  /\ runID = [p \in Prompts |-> None]
  /\ state = [p \in Prompts |-> "dispatching"]
  /\ delivered = [p \in Prompts |-> <<>>]
  /\ answer = [p \in Prompts |-> "none"]
  /\ chan = [p \in Prompts |-> "none"]
  /\ buf = [p \in Prompts |-> <<>>]
  /\ streams = [r \in RunIDs |-> None]
  /\ dropped = {}
  /\ stdin = <<>> /\ wire = <<>> /\ reader = "run"
  /\ proc = "up" /\ active = {} /\ stopping = {} /\ emitted = [r \in RunIDs |-> <<>>]

-----------------------------------------------------------------------------
(* Manager.Prompt                                                          *)

\* subscribe(runID): a fresh channel replaces what the map held.
PromptSubscribe(p, r) ==
  /\ pc[p] = "idle"
  /\ pc' = [pc EXCEPT ![p] = "subscribed"]
  /\ runID' = [runID EXCEPT ![p] = r]
  /\ chan' = [chan EXCEPT ![p] = "open"]
  /\ streams' = [streams EXCEPT ![r] = p]
  /\ UNCHANGED <<state, delivered, answer, buf, dropped, stdin, wire, reader, agentVars>>

\* client.Prompt writes the session/prompt request; on a dead agent that fails.
PromptSend(p) ==
  /\ pc[p] = "subscribed"
  /\ pc' = [pc EXCEPT ![p] = "call"]
  /\ \/ /\ proc = "up"
        /\ stdin' = Append(stdin, p)
        /\ UNCHANGED answer
     \/ /\ proc = "exited"
        /\ answer' = [answer EXCEPT ![p] = "error"]
        /\ UNCHANGED stdin
  /\ UNCHANGED <<runID, state, delivered, handleVars, wire, reader, agentVars>>

PromptFails(p) ==
  /\ pc' = [pc EXCEPT ![p] = "unsubscribe"]
  /\ state' = [state EXCEPT ![p] = "failed"]

\* client.Prompt returns: accepted, or an error of the agent or of failAll, which
\* becomes the final item of a failed run.
PromptCallReturns(p) ==
  /\ pc[p] = "call"
  /\ \/ /\ answer[p] = "ok"
        /\ pc' = [pc EXCEPT ![p] = "loop"]
        /\ UNCHANGED state
     \/ /\ answer[p] = "error"
        /\ PromptFails(p)
  /\ UNCHANGED <<runID, delivered, answer, handleVars, stdin, wire, reader, agentVars>>

\* The run state a final event leads to.
FinalState(t) == IF t \in {"cancelled", "failed"} THEN t ELSE "completed"

\* Mutant: the loop goes on after the final event.
PromptReceiveOn(p) ==
  /\ pc[p] = "loop" /\ buf[p] # <<>>
  /\ buf' = [buf EXCEPT ![p] = Tail(@)]
  /\ state' = [state EXCEPT ![p] = FinalState(Head(buf[p]))]
  /\ delivered' = [delivered EXCEPT ![p] = Append(@, Head(buf[p]))]
  /\ UNCHANGED <<pc, runID, answer, chan, streams, dropped, stdin, wire, reader, agentVars>>

\* Mutant: the zero event of a closed channel is taken for the end of the run.
PromptReceiveZeroEnds(p) ==
  LET t == IF buf[p] # <<>> THEN Head(buf[p]) ELSE "" IN
  /\ pc[p] = "loop"
  /\ buf[p] # <<>> \/ chan[p] = "closed"
  /\ buf' = [buf EXCEPT ![p] = IF @ # <<>> THEN Tail(@) ELSE @]
  /\ state' = [state EXCEPT ![p] = IF t # "chunk" THEN FinalState(t) ELSE "streaming"]
  /\ delivered' = [delivered EXCEPT ![p] = Append(@, t)]
  /\ pc' = [pc EXCEPT ![p] = IF t # "chunk" THEN "unsubscribe" ELSE @]
  /\ UNCHANGED <<runID, answer, chan, streams, dropped, stdin, wire, reader, agentVars>>

\* One turn of the event loop: an event, or the zero event of a closed and
\* drained channel, is sent to the caller; a final event ends the loop.
PromptReceive(p) ==
  LET t == IF buf[p] # <<>> THEN Head(buf[p]) ELSE "" IN
  /\ pc[p] = "loop"
  /\ \/ buf[p] # <<>>
     \/ chan[p] = "closed" /\ Len(delivered[p]) < MaxChunks + MaxZero
  /\ buf' = [buf EXCEPT ![p] = IF @ # <<>> THEN Tail(@) ELSE @]
  /\ state' = [state EXCEPT ![p] = IF t \in FinalTypes THEN FinalState(t) ELSE "streaming"]
  /\ delivered' = [delivered EXCEPT ![p] = Append(@, t)]
  /\ pc' = [pc EXCEPT ![p] = IF t \in FinalTypes THEN "unsubscribe" ELSE @]
  /\ UNCHANGED <<runID, answer, chan, streams, dropped, stdin, wire, reader, agentVars>>

\* Mutant: the loop does not select on ctx.Done.
PromptCtxDoneCallOnly(p) ==
  /\ pc[p] = "call" /\ PromptFails(p)
  /\ UNCHANGED <<runID, delivered, answer, handleVars, stdin, wire, reader, agentVars>>

\* Mutant: the failed run is reported in a state the run type does not have.
PromptCtxDoneTimeout(p) ==
  /\ pc[p] \in {"call", "loop"}
  /\ pc' = [pc EXCEPT ![p] = "unsubscribe"]
  /\ state' = [state EXCEPT ![p] = "timeout"]
  /\ UNCHANGED <<runID, delivered, answer, handleVars, stdin, wire, reader, agentVars>>

\* The context ends: the call returns its error, the select of the loop takes
\* ctx.Done, or Send fails because the caller is gone.
PromptCtxDone(p) ==
  /\ \/ pc[p] = "call" /\ PromptFails(p)
     \/ pc[p] = "loop" /\ pc' = [pc EXCEPT ![p] = "unsubscribe"] /\ UNCHANGED state
  /\ UNCHANGED <<runID, delivered, answer, handleVars, stdin, wire, reader, agentVars>>

\* Mutant: the channel is closed and stays in the map.
PromptUnsubscribeKeeps(p) ==
  LET ch == streams[runID[p]] IN
  /\ pc[p] = "unsubscribe"
  /\ pc' = [pc EXCEPT ![p] = "done"]
  /\ chan' = IF ch # None THEN [chan EXCEPT ![ch] = "closed"] ELSE chan
  /\ UNCHANGED <<runID, state, delivered, answer, buf, streams, dropped, stdin, wire, reader, agentVars>>

\* Mutant: every channel of the handle is closed and deleted.
PromptUnsubscribeAll(p) ==
  /\ pc[p] = "unsubscribe"
  /\ pc' = [pc EXCEPT ![p] = "done"]
  /\ streams' = [r \in RunIDs |-> None]
  /\ chan' = [q \in Prompts |-> IF \E r \in RunIDs : streams[r] = q THEN "closed" ELSE chan[q]]
  /\ UNCHANGED <<runID, state, delivered, answer, buf, dropped, stdin, wire, reader, agentVars>>

\* The deferred unsubscribe: close and delete the channel under the run ID,
\* which need not be the one this Prompt subscribed.
PromptUnsubscribe(p) ==
  LET r == runID[p]
      ch == streams[r] IN
  /\ pc[p] = "unsubscribe"
  /\ pc' = [pc EXCEPT ![p] = "done"]
  /\ streams' = [streams EXCEPT ![r] = None]
  /\ chan' = IF ch # None THEN [chan EXCEPT ![ch] = "closed"] ELSE chan
  /\ UNCHANGED <<runID, state, delivered, answer, buf, dropped, stdin, wire, reader, agentVars>>

\* Manager.Cancel and the agent's session/cancel: the agent is told to stop what
\* it runs under the ID; an ID it does not know, or no longer knows, is ignored.
Cancel(r) ==
  /\ proc = "up"
  /\ stopping' = stopping \cup {p \in active : runID[p] = r}
  /\ UNCHANGED <<rpcVars, answer, handleVars, stdin, wire, reader, proc, active, emitted>>

-----------------------------------------------------------------------------
(* The readLoop of the client, calling the handler for each update.        *)

\* Mutant: events are dropped until the Prompt is in its loop.
RouteEventReadyOnly ==
  LET m == Head(wire)
      ch == streams[m.to] IN
  /\ reader = "run" /\ wire # <<>> /\ m.kind = "event"
  /\ wire' = Tail(wire)
  /\ buf' = IF ch # None /\ pc[ch] = "loop" /\ Len(buf[ch]) < BufCap
            THEN [buf EXCEPT ![ch] = Append(@, m.body)] ELSE buf
  /\ UNCHANGED <<rpcVars, answer, chan, streams, dropped, stdin, reader, agentVars>>

\* routeEvent: a non-blocking send to the channel under the event's run ID; the
\* event is dropped when there is none or it is full.
RouteEvent ==
  LET m == Head(wire)
      ch == streams[m.to] IN
  /\ reader = "run" /\ wire # <<>> /\ m.kind = "event"
  /\ wire' = Tail(wire)
  /\ \/ /\ ch # None /\ Len(buf[ch]) < BufCap
        /\ chan[ch] = "open"
        /\ buf' = [buf EXCEPT ![ch] = Append(@, m.body)]
        /\ UNCHANGED dropped
     \/ /\ ch # None /\ Len(buf[ch]) = BufCap
        /\ dropped' = dropped \cup {ch}
        /\ UNCHANGED buf
     \/ /\ ch = None
        /\ UNCHANGED <<buf, dropped>>
  /\ UNCHANGED <<rpcVars, answer, chan, streams, stdin, reader, agentVars>>

RouteReply ==
  LET m == Head(wire) IN
  /\ reader = "run" /\ wire # <<>> /\ m.kind = "reply"
  /\ wire' = Tail(wire)
  /\ answer' = [answer EXCEPT ![m.to] = m.body]
  /\ UNCHANGED <<rpcVars, handleVars, stdin, reader, agentVars>>

\* failAll answers the calls still waiting.  Nobody tells the Prompts that are in
\* their loop.
FailAll == answer' = [p \in Prompts |-> IF pc[p] = "call" /\ answer[p] = "none" THEN "error" ELSE answer[p]]

\* The agent is gone and its output has been read.
ReaderEnd ==
  /\ reader = "run" /\ proc = "exited" /\ wire = <<>>
  /\ reader' = "drained"
  /\ FailAll
  /\ UNCHANGED <<rpcVars, handleVars, stdin, wire, agentVars>>

\* The readLoop stops early: on a malformed line, or because wait reaped the
\* agent and cmd.Wait closed the pipe.
ReaderCut ==
  /\ reader = "run"
  /\ reader' = "cut" /\ wire' = <<>>
  /\ FailAll
  /\ UNCHANGED <<rpcVars, handleVars, stdin, agentVars>>

-----------------------------------------------------------------------------
(* The agent, as examples/echo-agent: it accepts a prompt, then works on it *)
(* concurrently with its request loop.                                     *)

\* A line on stdout, which nobody reads once the readLoop has been cut short.
Write(m) == wire' = IF reader = "cut" THEN wire ELSE Append(wire, m)

AgentAccept(ok) ==
  LET p == Head(stdin) IN
  /\ proc = "up" /\ stdin # <<>>
  /\ stdin' = Tail(stdin)
  /\ Write([kind |-> "reply", to |-> p, body |-> ok])
  /\ active' = IF ok = "ok" THEN active \cup {p} ELSE active
  /\ UNCHANGED <<rpcVars, answer, handleVars, reader, proc, stopping, emitted>>

\* An update for a running prompt; the final one ends it.
AgentEmit(p, t) ==
  LET r == runID[p] IN
  /\ proc = "up" /\ p \in active
  /\ t = "chunk" => Len(emitted[r]) < MaxChunks
  /\ t = "cancelled" => p \in stopping
  /\ Write([kind |-> "event", to |-> r, body |-> t])
  /\ emitted' = [emitted EXCEPT ![r] = Append(@, t)]
  /\ active' = IF t = "chunk" THEN active ELSE active \ {p}
  /\ UNCHANGED <<rpcVars, answer, handleVars, stdin, reader, proc, stopping>>

\* What the agent had not read is lost.
AgentExit ==
  /\ proc = "up"
  /\ proc' = "exited"
  /\ stdin' = <<>> /\ active' = {}
  /\ UNCHANGED <<rpcVars, answer, handleVars, wire, reader, stopping, emitted>>

-----------------------------------------------------------------------------
PromptStep(p) == PromptSend(p) \/ PromptCallReturns(p) \/ PromptReceive(p)
                 \/ PromptUnsubscribe(p)
ReaderStep    == RouteEvent \/ RouteReply \/ ReaderEnd

Next ==
  \/ \E p \in Prompts, r \in RunIDs : PromptSubscribe(p, r)
  \/ \E p \in Prompts : PromptStep(p) \/ PromptCtxDone(p)
  \/ \E r \in RunIDs : Cancel(r)
  \/ ReaderStep
  \/ ReaderCut
  \/ \E ok \in {"ok", "error"} : AgentAccept(ok)
  \/ \E p \in Prompts, t \in EventTypes : AgentEmit(p, t)
  \/ AgentExit

Spec == Init /\ [][Next]_vars

\* The scheduler runs every runnable goroutine.
FairSpec == Spec /\ WF_vars(ReaderStep) /\ \A p \in Prompts : WF_vars(PromptStep(p))

-----------------------------------------------------------------------------
(* Properties                                                              *)

\* No other Prompt uses the run ID of p.
Unshared(p) == \A q \in Prompts \ {p} : runID[q] # runID[p]

\* Whatever run IDs callers reuse, a channel in the map is open: routeEvent
\* never sends on, and unsubscribe never closes, a closed channel (either would
\* panic and take the supervisor down).
MappedChannelsOpen == \A r \in RunIDs : streams[r] # None => chan[streams[r]] = "open"

\* A Prompt whose run ID nobody else uses keeps its own channel, open and in the
\* map, until it unsubscribes: it is never fed another run's events and never
\* reads zero events.
ChannelIsMine ==
  \A p \in Prompts :
    Unshared(p) /\ pc[p] \in {"subscribed", "call", "loop", "unsubscribe"} =>
      /\ chan[p] = "open" /\ streams[runID[p]] = p
      /\ \A i \in 1..Len(delivered[p]) : delivered[p][i] # ""

\* Where the events of run r are in a stretch w of the agent's output.
EventsAt(w, r) == {i \in 1..Len(w) : w[i].kind = "event" /\ w[i].to = r}

\* The events s, followed by those of run r in w, are the events e, in order: at
\* says where in w each event after s is.
Completes(s, w, r, e) ==
  /\ Len(s) <= Len(e)
  /\ \A k \in 1..Len(s) : s[k] = e[k]
  /\ \E at \in [Len(s)+1..Len(e) -> EventsAt(w, r)] :
       /\ \A k \in Len(s)+1..Len(e) : w[at[k]].body = e[k]
       /\ \A j, k \in Len(s)+1..Len(e) : j < k => at[j] < at[k]
       /\ \A i \in EventsAt(w, r) : \E k \in Len(s)+1..Len(e) : at[k] = i

\* Nothing is lost, doubled or reordered: what the caller has been sent, what its
\* channel buffers and what is on the wire is exactly what the agent wrote for
\* the run, unless the readLoop was cut short or the channel overflowed.  It
\* rests on subscribing before prompting.
NoEventLost ==
  \A p \in Prompts :
    Unshared(p) /\ pc[p] = "loop" /\ p \notin dropped /\ reader # "cut" =>
      Completes(delivered[p] \o buf[p], wire, runID[p], emitted[runID[p]])

\* The run state in the final item is the one the agent reported for that run;
\* completed and cancelled are never made up by the supervisor.
OutcomeGenuine ==
  \A p \in Prompts :
    state[p] \in {"completed", "cancelled"} =>
      \E i \in 1..Len(emitted[runID[p]]) : /\ emitted[runID[p]][i] \in FinalTypes
                                           /\ FinalState(emitted[runID[p]][i]) = state[p]

\* Without any help from a deadline, a Prompt whose agent has reported the end
\* of the run returns, also when the agent exits right after its last event,
\* unless the channel overflowed or the readLoop was cut short.
FinalReachesCaller ==
  \A p \in Prompts :
    (/\ pc[p] = "loop" /\ Unshared(p)
     /\ \E i \in 1..Len(emitted[runID[p]]) : emitted[runID[p]][i] \in FinalTypes)
      ~> (pc[p] = "done" \/ p \in dropped \/ reader = "cut" \/ ~Unshared(p))

\* Every stream has a deadline: the activity that prompts runs under a
\* StartToCloseTimeout of ten minutes, which gRPC carries to the supervisor.
Deadline == \A p \in Prompts : WF_vars(PromptCtxDone(p))

\* Under the deadline every Prompt ends, also after the agent died, after its
\* final event was dropped and after its channel was closed by another Prompt.
PromptEnds == Deadline => \A p \in Prompts : (pc[p] = "subscribed") ~> (pc[p] = "done")

=============================================================================
