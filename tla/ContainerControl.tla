-------------------------- MODULE ContainerControl --------------------------
(***************************************************************************)
(* One container of the control plane: the updates of its                  *)
(* ContainerWorkflow (workflows/workflows.go), the activities they run     *)
(* (workflows/activities.go), the container and session rows these write,  *)
(* and what the node's Runner (runtime/local/runner.go) holds for the      *)
(* container: the registered handle, the supervisors that serve and the    *)
(* directory.                                                              *)
(*                                                                         *)
(* Update handlers run concurrently.  An activity reads the container row, *)
(* calls the node and writes rows back; Temporal starts it again from its  *)
(* first line when an attempt fails, its worker dies or its completion is  *)
(* lost.  Every ProvisionContainer makes a new supervisor, named by a      *)
(* number.                                                                 *)
(***************************************************************************)
EXTENDS Naturals, FiniteSets, Lifecycle

CONSTANTS Updates,      \* the updates sent to the workflow
          kind,         \* what each of them asks for
          digest,       \* the bundle digest an install asks for
          Mixes,        \* bound: the sets of updates sent in one behaviour
          MaxAttempts,  \* RetryPolicy.MaximumAttempts (5 in the code)
          MaxFaults     \* bound: failed attempts without a cause in the model

Kinds == {"start", "install", "createSession", "loadSession", "hibernate", "delete"}

ASSUME ContainerAssumption ==
  /\ kind \in [Updates -> Kinds]
  /\ DOMAIN digest = Updates
  /\ MaxAttempts \in Nat \ {0} /\ MaxFaults \in Nat

VARIABLES
  mix,       \* the updates sent in this behaviour
  row,       \* State in the container row, "none" without a row
  digests,   \* BundleDigests in the container row
  sessions,  \* the sessions that have a row
  pc,        \* where the activity or handler of each update is
  attempt,   \* the attempt of its activity
  copy,      \* State of the container as the attempt knows it
  copyDig,   \* BundleDigests as it read them
  made,      \* the session the attempt made or loaded
  gone,      \* the supervisor DeleteContainer took out of the map
  handle,    \* Runner.containers[id]: the supervisor registered, 0 for none
  serving,   \* the supervisors whose server runs
  stopping,  \* the supervisors DeleteContainer is about to stop
  built,     \* the supervisors made so far
  root,      \* the container's directory
  restarts,  \* restarts of the node
  wf,        \* the container workflow
  wfState,   \* state.Container.State
  deleted,   \* state.Deleted: "yes" or "no"
  children,  \* the session workflows that run
  faults     \* faults so far

rowVars  == <<mix, row, digests, sessions>>
actVars  == <<copy, copyDig, made, gone>>
nodeVars == <<handle, serving, stopping, built, root, restarts>>
wfVars   == <<wf, wfState, deleted, children>>
vars == <<mix, row, digests, sessions, pc, attempt, copy, copyDig, made, gone, handle,
          serving, stopping, built, root, restarts, wf, wfState, deleted,
          children, faults>>

InActivity == {"read", "node", "stop", "write", "note"}
Running    == InActivity \cup {"child", "return"}
SessionKinds  == {"createSession", "loadSession"}
NewSession(u) == <<u, attempt[u]>>
SessionIDs    == Updates \X (1..MaxAttempts)

TypeOK ==
  /\ mix \in Mixes
  /\ row \in {"none", "ready", "hibernating", "deleted"}
  /\ digests \subseteq {digest[u] : u \in Updates}
  /\ sessions \subseteq SessionIDs
  /\ pc \in [Updates -> Running \cup {"idle", "done", "error"}]
  /\ attempt \in [Updates -> 1..MaxAttempts]
  /\ copy \in [Updates -> {"none", "ready", "hibernating", "deleted"}]
  /\ copyDig \in [Updates -> SUBSET {digest[u] : u \in Updates}]
  /\ made \in [Updates -> SessionIDs]
  /\ gone \in [Updates -> 0..built]
  /\ handle \in 0..built
  /\ serving \subseteq 1..built /\ stopping \subseteq 1..built
  /\ built \in Nat
  /\ root \in {"absent", "present"}
  /\ restarts \in Nat
  /\ wf \in {"none", "running", "completed"}
  /\ wfState \in {"requested", "ready", "hibernating", "deleted"}
  /\ deleted \in {"yes", "no"}
  /\ children \subseteq SessionIDs
  /\ faults \in 0..MaxFaults

Init ==
  /\ mix \in Mixes
  /\ row = "none" /\ digests = {} /\ sessions = {}
  /\ pc = [u \in Updates |-> "idle"]
  /\ attempt = [u \in Updates |-> 1]
  /\ copy = [u \in Updates |-> "none"]
  /\ copyDig = [u \in Updates |-> {}]
  /\ made = [u \in Updates |-> <<u, 1>>]
  /\ gone = [u \in Updates |-> 0]
  /\ handle = 0 /\ serving = {} /\ stopping = {}
  /\ built = 0 /\ root = "absent" /\ restarts = 0
  /\ wf = "none" /\ wfState = "requested" /\ deleted = "no" /\ children = {}
  /\ faults = 0

-----------------------------------------------------------------------------
(* Updates and attempts                                                    *)

Goto(u, l) == pc' = [pc EXCEPT ![u] = l]

Fault == faults < MaxFaults /\ faults' = faults + 1

\* StartContainer starts the workflow together with its first update; the other
\* updates need a workflow that runs, and a load a session to name.
Update(u) ==
  /\ pc[u] = "idle" /\ u \in mix
  /\ IF kind[u] = "start" THEN wf = "none" ELSE wf = "running"
  /\ kind[u] = "loadSession" => sessions # {}
  /\ wf' = "running"
  /\ Goto(u, IF kind[u] = "start" THEN "node" ELSE "read")
  /\ UNCHANGED <<rowVars, attempt, actVars, nodeVars, wfState, deleted, children, faults>>

\* Temporal's retry policy.
Retry(u) ==
  \/ /\ attempt[u] < MaxAttempts
     /\ attempt' = [attempt EXCEPT ![u] = @ + 1]
     /\ Goto(u, IF kind[u] = "start" THEN "node" ELSE "read")
  \/ /\ attempt[u] = MaxAttempts
     /\ Goto(u, "error")
     /\ UNCHANGED attempt

\* An attempt fails for a reason outside the model (a store, gRPC or agent
\* error), its worker dies, or its completion does not reach Temporal.
AttemptFails(u) ==
  /\ pc[u] \in InActivity \cup {"child"} \/ (pc[u] = "return" /\ kind[u] \notin SessionKinds)
  /\ Fault
  /\ Retry(u)
  /\ UNCHANGED <<rowVars, actVars, nodeVars, wfVars>>

\* GetContainer or Runner.handle does not find the container.
AttemptNotFound(u) ==
  /\ \/ pc[u] = "read" /\ row = "none"
     \/ pc[u] = "node" /\ handle = 0 /\ kind[u] # "start"
  /\ Retry(u)
  /\ UNCHANGED <<rowVars, actVars, nodeVars, wfVars, faults>>

\* containerNode: the row as it is now.
ReadContainer(u) ==
  /\ pc[u] = "read" /\ row # "none"
  /\ copy' = [copy EXCEPT ![u] = row]
  /\ copyDig' = [copyDig EXCEPT ![u] = digests]
  /\ Goto(u, "node")
  /\ UNCHANGED <<rowVars, attempt, made, gone, nodeVars, wfVars, faults>>

-----------------------------------------------------------------------------
(* The node                                                                *)

\* Mutant: the new handle is not registered.
ProvisionContainerUnregistered(u) ==
  /\ pc[u] = "node" /\ kind[u] = "start"
  /\ built' = built + 1
  /\ serving' = serving \cup {built + 1}
  /\ root' = "present"
  /\ copy' = [copy EXCEPT ![u] = "ready"]
  /\ copyDig' = [copyDig EXCEPT ![u] = {}]
  /\ Goto(u, "write")
  /\ UNCHANGED <<rowVars, attempt, made, gone, handle, stopping, restarts, wfVars, faults>>

\* Runner.ProvisionContainer: a directory, a new supervisor, and a handle that
\* replaces the one registered before.
ProvisionContainer(u) ==
  /\ pc[u] = "node" /\ kind[u] = "start"
  /\ built' = built + 1
  /\ handle' = built + 1
  /\ serving' = serving \cup {built + 1}
  /\ root' = "present"
  /\ copy' = [copy EXCEPT ![u] = "ready"]
  /\ copyDig' = [copyDig EXCEPT ![u] = {}]
  /\ Goto(u, "write")
  /\ UNCHANGED <<rowVars, attempt, made, gone, stopping, restarts, wfVars, faults>>

\* Runner.EnsureAgent, answered by the supervisor (module Supervisor).
EnsureAgent(u) ==
  /\ pc[u] = "node" /\ kind[u] = "install" /\ handle # 0
  /\ Goto(u, "write")
  /\ UNCHANGED <<rowVars, attempt, actVars, nodeVars, wfVars, faults>>

\* Runner.CreateSession: the supervisor gives the session a new ID each time.
CreateSession(u) ==
  /\ pc[u] = "node" /\ kind[u] = "createSession" /\ handle # 0
  /\ made' = [made EXCEPT ![u] = NewSession(u)]
  /\ Goto(u, "write")
  /\ UNCHANGED <<rowVars, attempt, copy, copyDig, gone, nodeVars, wfVars, faults>>

\* Runner.LoadSession of a session the client knows.
LoadSession(u, s) ==
  /\ pc[u] = "node" /\ kind[u] = "loadSession" /\ handle # 0
  /\ s \in sessions
  /\ made' = [made EXCEPT ![u] = s]
  /\ Goto(u, "write")
  /\ UNCHANGED <<rowVars, attempt, copy, copyDig, gone, nodeVars, wfVars, faults>>

\* Runner.HibernateContainer marks the handle and returns it; nothing stops.
HibernateContainer(u) ==
  /\ pc[u] = "node" /\ kind[u] = "hibernate" /\ handle # 0
  /\ copy' = [copy EXCEPT ![u] = "hibernating"]
  /\ Goto(u, "write")
  /\ UNCHANGED <<rowVars, attempt, copyDig, made, gone, nodeVars, wfVars, faults>>

\* Mutant: the handle stays in the map while its server is stopped.
DeleteContainerKeeps(u) ==
  /\ pc[u] = "node" /\ kind[u] = "delete" /\ handle # 0
  /\ stopping' = stopping \cup {handle}
  /\ gone' = [gone EXCEPT ![u] = handle]
  /\ Goto(u, "stop")
  /\ UNCHANGED <<rowVars, attempt, copy, copyDig, made, handle, serving, built, root, restarts, wfVars, faults>>

\* Runner.DeleteContainer, under r.mu: the handle leaves the map.
DeleteContainer(u) ==
  /\ pc[u] = "node" /\ kind[u] = "delete" /\ handle # 0
  /\ handle' = 0
  /\ stopping' = stopping \cup {handle}
  /\ gone' = [gone EXCEPT ![u] = handle]
  /\ Goto(u, "stop")
  /\ UNCHANGED <<rowVars, attempt, copy, copyDig, made, serving, built, root, restarts, wfVars, faults>>

\* ... and without the lock: the server stops and the directory goes.
StopSupervisor(g) ==
  /\ g \in stopping
  /\ stopping' = stopping \ {g}
  /\ serving' = serving \ {g}
  /\ root' = "absent"
  /\ UNCHANGED <<rowVars, pc, attempt, actVars, handle, built, restarts, wfVars, faults>>

\* Mutant: the server is stopped in the background.
DeleteReturnsEarly(u) ==
  /\ pc[u] = "stop"
  /\ copy' = [copy EXCEPT ![u] = "deleted"]
  /\ Goto(u, "write")
  /\ UNCHANGED <<rowVars, attempt, copyDig, made, gone, nodeVars, wfVars, faults>>

DeleteReturns(u) ==
  /\ pc[u] = "stop" /\ gone[u] \notin stopping
  /\ copy' = [copy EXCEPT ![u] = "deleted"]
  /\ Goto(u, "write")
  /\ UNCHANGED <<rowVars, attempt, copyDig, made, gone, nodeVars, wfVars, faults>>

\* agentd-node restarts: its map of containers is in memory only.  (In the midst
\* of DeleteContainer a restart is StopSupervisor with a failed attempt.)
NodeRestart ==
  /\ built > 0 /\ stopping = {} /\ Fault
  /\ handle' = 0 /\ serving' = {}
  /\ restarts' = restarts + 1
  /\ UNCHANGED <<rowVars, pc, attempt, actVars, stopping, built, root, wfVars>>

-----------------------------------------------------------------------------
(* The end of an activity, and of its handler                              *)

\* UpsertContainer of what the node returned, or of the row that was read and is
\* now deleted.
WriteContainer(u) ==
  /\ pc[u] = "write" /\ kind[u] \in {"start", "hibernate", "delete"}
  /\ row' = copy[u] /\ digests' = copyDig[u]
  /\ Goto(u, "return")
  /\ UNCHANGED <<mix, sessions, attempt, actVars, nodeVars, wfVars, faults>>

\* UpsertSession
WriteSession(u) ==
  /\ pc[u] = "write" /\ kind[u] \in SessionKinds
  /\ sessions' = sessions \cup {made[u]}
  /\ Goto(u, "child")
  /\ UNCHANGED <<mix, row, digests, attempt, actVars, nodeVars, wfVars, faults>>

\* UpsertAgentInstance; agent rows are not modelled.
WriteAgent(u) ==
  /\ pc[u] = "write" /\ kind[u] = "install"
  /\ Goto(u, "note")
  /\ UNCHANGED <<rowVars, attempt, actVars, nodeVars, wfVars, faults>>

\* EnsureAgent notes a new digest in the container it read, and writes that
\* container back; an error is ignored.
NoteDigest(u) ==
  /\ pc[u] = "note"
  /\ IF digest[u] \in copyDig[u] THEN UNCHANGED <<row, digests, faults>>
     ELSE \/ row' = copy[u] /\ digests' = copyDig[u] \cup {digest[u]} /\ UNCHANGED faults
          \/ Fault /\ UNCHANGED <<row, digests>>
  /\ Goto(u, "return")
  /\ UNCHANGED <<mix, sessions, attempt, actVars, nodeVars, wfVars>>

\* Mutant: the handler answers before the session workflow has started.
StartChildAnswersFirst(u) ==
  /\ pc[u] = "child" /\ wf = "running"
  /\ Goto(u, "return")
  /\ UNCHANGED <<rowVars, attempt, actVars, nodeVars, wfVars, faults>>

\* The handler starts the session workflow; one with that ID may run already.
StartChild(u) ==
  /\ pc[u] = "child" /\ wf = "running"
  /\ children' = children \cup {made[u]}
  /\ Goto(u, IF made[u] \in children THEN "error" ELSE "return")
  /\ UNCHANGED <<rowVars, attempt, actVars, nodeVars, wf, wfState, deleted, faults>>

\* Mutant: state.Deleted is not set.
HandlerReturnsForgets(u) ==
  /\ pc[u] = "return" /\ wf = "running"
  /\ wfState' = IF kind[u] \in {"start", "hibernate", "delete"} THEN copy[u] ELSE wfState
  /\ Goto(u, "done")
  /\ UNCHANGED <<rowVars, attempt, actVars, nodeVars, wf, deleted, children, faults>>

\* The handler sets the workflow's state and answers.
HandlerReturns(u) ==
  /\ pc[u] = "return" /\ wf = "running"
  /\ wfState' = IF kind[u] \in {"start", "hibernate", "delete"} THEN copy[u] ELSE wfState
  /\ deleted' = IF kind[u] = "delete" THEN "yes" ELSE deleted
  /\ Goto(u, "done")
  /\ UNCHANGED <<rowVars, attempt, actVars, nodeVars, wf, children, faults>>

\* Await: deleted and AllHandlersFinished.  The session workflows end with
\* their parent.
Complete ==
  /\ wf = "running" /\ deleted = "yes"
  /\ \A u \in Updates : pc[u] \notin Running
  /\ wf' = "completed" /\ children' = {}
  /\ UNCHANGED <<rowVars, pc, attempt, actVars, nodeVars, wfState, deleted, faults>>

-----------------------------------------------------------------------------
Step(u) ==
  \/ AttemptNotFound(u) \/ ReadContainer(u)
  \/ ProvisionContainer(u) \/ EnsureAgent(u) \/ CreateSession(u) \/ HibernateContainer(u)
  \/ \E s \in SessionIDs : LoadSession(u, s)
  \/ DeleteContainer(u) \/ DeleteReturns(u)
  \/ WriteContainer(u) \/ WriteSession(u) \/ WriteAgent(u) \/ NoteDigest(u)
  \/ StartChild(u) \/ HandlerReturns(u)

Next ==
  \/ \E u \in Updates : Update(u) \/ Step(u) \/ AttemptFails(u)
  \/ \E g \in stopping : StopSupervisor(g)
  \/ NodeRestart
  \/ Complete

Spec == Init /\ [][Next]_vars

\* Temporal drives accepted updates and the workflow on (each update has finitely
\* many steps, so that fairness to all of them together is enough); the node
\* finishes what it has begun.
FairSpec ==
  /\ Spec
  /\ WF_vars(\E u \in Updates : Step(u))
  /\ WF_vars(\E g \in stopping : StopSupervisor(g))
  /\ WF_vars(Complete)

-----------------------------------------------------------------------------
(* Properties                                                              *)

\* The handle that is registered is one whose server runs, and nobody is about
\* to stop it: no call of the Runner is sent to a stopped supervisor, however
\* DeleteContainer and a retried ProvisionContainer interleave.  Until a second
\* ProvisionContainer its directory is there too.
HandleServes ==
  handle # 0 => /\ handle \in serving \ stopping
                /\ built = 1 => root = "present"

\* A container whose row says ready or hibernating is backed by a supervisor
\* that serves, as long as no delete has begun and the node did not restart,
\* whatever attempts failed on the way.
RowBacked ==
  /\ row \in {"ready", "hibernating"} /\ restarts = 0
  /\ \A u \in Updates : kind[u] = "delete" => pc[u] = "idle"
  => handle \in serving

\* A delete is answered with success only after the supervisor it found has
\* stopped, also when it took several attempts.
DeleteReleases ==
  \A u \in Updates :
    kind[u] = "delete" /\ pc[u] \in {"write", "return", "done"} =>
      gone[u] # 0 /\ gone[u] \notin serving

\* A session that was returned to the client has its row and, until the
\* container workflow completes, its workflow.
ReturnedSessionLives ==
  \A u \in Updates :
    kind[u] \in SessionKinds /\ pc[u] = "done" =>
      made[u] \in sessions /\ (made[u] \in children \/ wf = "completed")

\* The container workflow completes after a delete that succeeded.
DeleteCompletes ==
  (\E u \in Updates : kind[u] = "delete" /\ pc[u] = "done") ~> (wf = "completed")

\* A deleted container stays deleted.
DeletedIsFinal == [][row = "deleted" => validateTransition(containerTransitions, row, row')]_vars

=============================================================================
