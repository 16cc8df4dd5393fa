---------------------------- MODULE PromptRelay ----------------------------
(***************************************************************************)
(* The way of a prompt's events from the supervisor to the broker, over    *)
(* two gRPC streams: Runner.Prompt (runtime/local/runner.go) receives the  *)
(* supervisor's items, NodeServer.Prompt (runtime/local/server.go) passes  *)
(* the events on and ends with the run, RemoteNodeClient.Prompt            *)
(* (runtime/client.go) publishes the events and returns the run to the     *)
(* Prompt activity.  Either stream may break at any moment; what was       *)
(* buffered in a broken stream may or may not still arrive.                *)
(***************************************************************************)
EXTENDS Naturals, Sequences

CONSTANT MaxEvents   \* bound: events the supervisor sends before its verdict

ASSUME RelayAssumption == MaxEvents \in Nat

VARIABLES
  sup,       \* the supervisor's stream: open, ended, broken, or cancelled by the Runner
  supItems,  \* items sent by the supervisor and not received
  seq,       \* Manager.Prompt's event counter
  sent,      \* history: sequence numbers of the events sent
  verdict,   \* history: the run state of the supervisor's final item
  runner,    \* Runner.Prompt: receiving, or what it returned
  seen,      \* its variable final: the state of the last run received
  node,      \* the node's stream: open, ended, failed (by the node) or broken
  nodeItems, \* items sent by the node and not received
  client,    \* RemoteNodeClient.Prompt: receiving, or what it returned
  published  \* sequence numbers of the events given to the broker

supVars    == <<sup, supItems, seq, sent, verdict>>
runnerVars == <<runner, seen>>
nodeVars   == <<node, nodeItems>>
clientVars == <<client, published>>
relayVars == <<sup, supItems, seq, sent, verdict, runner, seen, node, nodeItems, client, published>>

Ended     == {"completed", "cancelled", "failed"}
RelayedRuns == Ended \cup {"streaming"}

\* PromptStreamItem: seq is 0 without an event (or one with an empty type), run
\* is "none" without a run.
Items == [seq : Nat, run : RelayedRuns \cup {"none"}, final : BOOLEAN]

RelayTypeOK ==
  /\ sup \in {"open", "ended", "broken", "cancelled"}
  /\ supItems \in Seq(Items)
  /\ seq \in Nat
  /\ sent \in Seq(Nat)
  /\ verdict \in Ended \cup {"none"}
  /\ runner \in RelayedRuns \cup {"recv", "error"}
  /\ seen \in RelayedRuns \cup {"none"}
  /\ node \in {"open", "ended", "failed", "broken"}
  /\ nodeItems \in Seq(Items)
  /\ client \in RelayedRuns \cup {"recv", "error"}
  /\ published \in Seq(Nat)

RelayInit ==
  /\ sup = "open" /\ supItems = <<>> /\ seq = 0 /\ sent = <<>> /\ verdict = "none"
  /\ runner = "recv" /\ seen = "none"
  /\ node = "open" /\ nodeItems = <<>>
  /\ client = "recv" /\ published = <<>>

-----------------------------------------------------------------------------
(* The supervisor's side of its stream: what Manager.Prompt sends.          *)

SupSends(n, run, final) ==
  /\ sup = "open"
  /\ supItems' = Append(supItems, [seq |-> n, run |-> run, final |-> final])
  /\ sent' = IF n = 0 THEN sent ELSE Append(sent, n)
  /\ verdict' = IF final THEN run ELSE verdict
  /\ sup' = IF final THEN "ended" ELSE sup
  /\ UNCHANGED <<runnerVars, nodeVars, clientVars>>

\* The next event of the run, counted in seq; a zero event (module PromptStream)
\* counts too but has no type.
SupEvent    == seq < MaxEvents /\ seq' = seq + 1 /\ SupSends(seq + 1, "streaming", FALSE)
SupZero     == seq < MaxEvents /\ seq' = seq + 1 /\ SupSends(0, "streaming", FALSE)
SupFinal(s) == seq' = seq + 1 /\ SupSends(seq + 1, s, TRUE)

\* The agent refused the prompt: a failed run without an event.
SupRefuse == seq = 0 /\ SupSends(0, "failed", TRUE) /\ UNCHANGED seq

\* The supervisor stops or the connection closes, as in DeleteContainer, or its
\* Prompt returns an error.
SupBreak ==
  /\ sup \in {"open", "ended"}
  /\ sup' = "broken"
  /\ UNCHANGED <<supItems, seq, sent, verdict, runnerVars, nodeVars, clientVars>>

-----------------------------------------------------------------------------
(* Runner.Prompt and NodeServer.Prompt                                      *)

\* Return of Runner.Prompt; NodeServer sends the run as its final item, or ends
\* its stream with the error.  Returning cancels the supervisor's stream.
RunnerReturns(r, items) ==
  /\ runner' = r
  /\ nodeItems' = IF r = "error" \/ node = "broken" THEN items
                  ELSE Append(items, [seq |-> 0, run |-> r, final |-> TRUE])
  /\ node' = IF node = "broken" THEN node ELSE IF r = "error" THEN "failed" ELSE "ended"
  /\ sup' = IF sup = "open" THEN "cancelled" ELSE sup

\* Recv succeeds: pass the event on, then stop if the item is final.  Sending
\* on a broken node stream is an error.
RunnerRecv ==
  LET item == Head(supItems)
      items == IF item.seq = 0 THEN nodeItems
               ELSE Append(nodeItems, [seq |-> item.seq, run |-> "none", final |-> FALSE]) IN
  /\ runner = "recv" /\ supItems # <<>>
  /\ supItems' = Tail(supItems)
  /\ seen' = item.run
  /\ IF item.seq # 0 /\ node = "broken" THEN RunnerReturns("error", nodeItems)
     ELSE IF item.final THEN RunnerReturns(item.run, items)
     ELSE nodeItems' = items /\ UNCHANGED <<runner, node, sup>>
  /\ UNCHANGED <<seq, sent, verdict, clientVars>>

\* Mutant: the Runner does not use the context of the node's stream.
RunnerRecvErrorDetached ==
  /\ runner = "recv" /\ sup = "broken"
  /\ RunnerReturns(IF seen # "none" THEN seen ELSE "error", nodeItems)
  /\ UNCHANGED <<supItems, seq, sent, verdict, seen, clientVars>>

\* Recv fails, because the supervisor's stream broke or because the client of
\* the node's stream is gone and the context ended: the last run seen counts as
\* the result if there was one.
RunnerRecvError ==
  /\ runner = "recv"
  /\ sup = "broken" \/ node = "broken"
  /\ RunnerReturns(IF seen # "none" THEN seen ELSE "error", nodeItems)
  /\ UNCHANGED <<supItems, seq, sent, verdict, seen, clientVars>>

\* The node or the connection to it dies.
NodeBreak ==
  /\ node # "broken" /\ client = "recv"
  /\ node' = "broken"
  /\ UNCHANGED <<supVars, runnerVars, nodeItems, clientVars>>

-----------------------------------------------------------------------------
(* RemoteNodeClient.Prompt                                                  *)

ClientReturns(r) ==
  /\ client' = r
  /\ node' = IF node = "open" THEN "broken" ELSE node

\* Recv succeeds and the event, if any, is published.  Only the final item of
\* the node carries a run.
ClientRecv ==
  LET item == Head(nodeItems) IN
  /\ client = "recv" /\ nodeItems # <<>>
  /\ nodeItems' = Tail(nodeItems)
  /\ published' = IF item.seq = 0 THEN published ELSE Append(published, item.seq)
  /\ IF item.final THEN ClientReturns(item.run) ELSE UNCHANGED <<client, node>>
  /\ UNCHANGED <<supVars, runnerVars>>

\* Mutant: an event the broker does not take is skipped.
ClientPublishErrorSkips ==
  /\ client = "recv" /\ nodeItems # <<>> /\ Head(nodeItems).seq # 0
  /\ nodeItems' = Tail(nodeItems)
  /\ UNCHANGED <<supVars, runnerVars, node, client, published>>

\* The broker does not take the event.
ClientPublishError ==
  /\ client = "recv" /\ nodeItems # <<>> /\ Head(nodeItems).seq # 0
  /\ nodeItems' = Tail(nodeItems)
  /\ ClientReturns("error")
  /\ UNCHANGED <<supVars, runnerVars, published>>

\* Mutant: the error the node ended its stream with is not looked at.
ClientRecvErrorWaits ==
  /\ client = "recv" /\ node = "broken"
  /\ ClientReturns("error")
  /\ UNCHANGED <<supVars, runnerVars, nodeItems, published>>

\* Recv fails.  The code would return the last run seen; no item but the final
\* one carries a run, so there is none.
ClientRecvError ==
  /\ client = "recv"
  /\ node = "broken" \/ (node = "failed" /\ nodeItems = <<>>)
  /\ ClientReturns("error")
  /\ UNCHANGED <<supVars, runnerVars, nodeItems, published>>

-----------------------------------------------------------------------------
SupStep    == SupEvent \/ SupZero \/ (\E s \in Ended : SupFinal(s)) \/ SupRefuse \/ SupBreak
RunnerStep == RunnerRecv \/ RunnerRecvError
ClientStep == ClientRecv \/ ClientPublishError \/ ClientRecvError

RelayNext == SupStep \/ RunnerStep \/ NodeBreak \/ ClientStep

RelaySpec == RelayInit /\ [][RelayNext]_relayVars

\* Both receive loops are scheduled, and Recv notices an ended context in spite
\* of items that keep arriving; nothing obliges the supervisor to go on.
FairRelay == RelaySpec /\ WF_relayVars(RunnerStep) /\ WF_relayVars(RunnerRecvError) /\ WF_relayVars(ClientStep)

-----------------------------------------------------------------------------
(* Properties                                                              *)

\* What the broker and the activity get is true.  The events published are always
\* a prefix of those the supervisor sent, in order and without gaps.  A run that
\* is returned as ended is the supervisor's verdict, and by then every event has
\* been published; a run comes back as still streaming only when the supervisor's
\* stream broke before its verdict arrived.
RelayFaithful ==
  /\ Len(published) <= Len(sent) /\ \A k \in 1..Len(published) : published[k] = sent[k]
  /\ client \in Ended => client = verdict /\ published = sent
  /\ client = "streaming" => sup = "broken"

\* When either stream has ended or broken, the activity gets an answer.
ClientAnswered == (sup # "open" \/ node # "open") ~> (client # "recv")

\* When the activity is gone, the Runner stops too and the supervisor's stream
\* does not stay open: no Prompt of the supervisor outlives its caller.
NoOrphan == (client # "recv") ~> (runner # "recv" /\ sup # "open")

=============================================================================
