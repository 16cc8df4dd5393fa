----------------------------- MODULE Supervisor -----------------------------
(***************************************************************************)
(* The supervisors of a node's containers (runtime/supervisor/manager.go): *)
(* the agents each has started, by agent and bundle digest, and the        *)
(* sessions it has opened on them.  EnsureAgent looks an agent up under a  *)
(* read lock, starts and initialises a process without any lock, and       *)
(* registers it under the write lock.  gRPC runs every request in its own  *)
(* goroutine.  Managers share nothing; how a request finds its manager is  *)
(* module NodeRunner.                                                      *)
(*                                                                         *)
(* A process, its agentHandle and its agent instance are named by the      *)
(* EnsureAgent call that made them.                                        *)
(***************************************************************************)
EXTENDS Naturals, FiniteSets

CONSTANTS Managers,    \* the supervisors
          Ensures,     \* the EnsureAgent calls
          Keys,        \* agent ID and bundle digest
          agentKey,    \* the key each EnsureAgent call asks for
          Opens,       \* the CreateSession and LoadSession calls
          SessionIDs,  \* the sessions they name
          None         \* no agent, no manager

ASSUME SupervisorAssumption ==
  /\ agentKey \in [Ensures -> Keys]
  /\ None \notin Ensures \cup Managers \cup SessionIDs

VARIABLES
  pc,        \* where each EnsureAgent is
  at,        \* the manager that serves it
  agent,     \* the instance it returned
  proc,      \* the process each EnsureAgent started
  instance,  \* agentHandle.instance.State
  handler,   \* the handles whose routeEvent is installed in the client
  agents,    \* Manager.agents
  opc,       \* where each session call is
  oat,       \* the manager that serves it
  target,    \* AgentInstanceID of the session call
  session,   \* the session it names
  sessions   \* Manager.sessions: the agent instance of each session

ensureVars == <<pc, at, agent>>
openVars   == <<opc, oat, target, session>>
svars == <<pc, at, agent, proc, instance, handler, agents, opc, oat, target, session, sessions>>

SupTypeOK ==
  /\ pc \in [Ensures -> {"idle", "start", "initialize", "register", "done", "error"}]
  /\ at \in [Ensures -> Managers \cup {None}]
  /\ agent \in [Ensures -> Ensures \cup {None}]
  /\ proc \in [Ensures -> {"none", "up", "exited", "killed"}]
  /\ instance \in [Ensures -> {"none", "ready", "exited"}]
  /\ handler \subseteq Ensures
  /\ agents \in [Managers -> [Keys -> Ensures \cup {None}]]
  /\ opc \in [Opens -> {"idle", "call", "store", "done", "error"}]
  /\ oat \in [Opens -> Managers \cup {None}]
  /\ target \in [Opens -> Ensures \cup {None}]
  /\ session \in [Opens -> SessionIDs \cup {None}]
  /\ sessions \in [Managers -> [SessionIDs -> Ensures \cup {None}]]

\* NewManager
SupInit ==
  /\ pc = [e \in Ensures |-> "idle"]
  /\ at = [e \in Ensures |-> None]
  /\ agent = [e \in Ensures |-> None]
  /\ proc = [e \in Ensures |-> "none"]
  /\ instance = [e \in Ensures |-> "none"]
  /\ handler = {}
  /\ agents = [m \in Managers |-> [k \in Keys |-> None]]
  /\ opc = [o \in Opens |-> "idle"]
  /\ oat = [o \in Opens |-> None]
  /\ target = [o \in Opens |-> None]
  /\ session = [o \in Opens |-> None]
  /\ sessions = [m \in Managers |-> [s \in SessionIDs |-> None]]

-----------------------------------------------------------------------------
(* EnsureAgent                                                             *)

Goto(e, l) == pc' = [pc EXCEPT ![e] = l]

\* The response: the instance of the agent a.
Respond(e, a) ==
  /\ Goto(e, "done")
  /\ agent' = [agent EXCEPT ![e] = a]

\* A registered agent is returned as it is, exited or not.
EnsureLookup(e, m) ==
  /\ pc[e] = "idle"
  /\ at' = [at EXCEPT ![e] = m]
  /\ LET a == agents[m][agentKey[e]] IN
     IF a # None THEN Respond(e, a)
     ELSE Goto(e, "start") /\ UNCHANGED agent
  /\ UNCHANGED <<proc, instance, handler, agents, openVars, sessions>>

\* Mutant: the handle is registered before the agent is initialised.
EnsureStartPublishes(e) ==
  /\ pc[e] = "start"
  /\ Goto(e, "initialize")
  /\ proc' = [proc EXCEPT ![e] = "up"]
  /\ agents' = [agents EXCEPT ![at[e]][agentKey[e]] = e]
  /\ UNCHANGED <<at, agent, instance, handler, openVars, sessions>>

\* acp.StartCommand
EnsureStart(e) ==
  /\ pc[e] = "start"
  /\ \/ Goto(e, "initialize") /\ proc' = [proc EXCEPT ![e] = "up"]
     \/ Goto(e, "error") /\ UNCHANGED proc
  /\ UNCHANGED <<at, agent, instance, handler, agents, openVars, sessions>>

\* client.Initialize answers; the handler is installed and wait started.
EnsureInitialized(e) ==
  /\ pc[e] = "initialize" /\ proc[e] = "up"
  /\ Goto(e, "register")
  /\ instance' = [instance EXCEPT ![e] = "ready"]
  /\ handler' = handler \cup {e}
  /\ UNCHANGED <<at, agent, proc, agents, openVars, sessions>>

\* Mutant: the process is not killed.
EnsureInitFailsLeaks(e) ==
  /\ pc[e] = "initialize"
  /\ Goto(e, "error")
  /\ UNCHANGED <<at, agent, proc, instance, handler, agents, openVars, sessions>>

\* It does not: an error of the agent, its exit, or the end of the context.  The
\* process is killed.
EnsureInitFails(e) ==
  /\ pc[e] = "initialize"
  /\ Goto(e, "error")
  /\ proc' = [proc EXCEPT ![e] = "killed"]
  /\ UNCHANGED <<at, agent, instance, handler, agents, openVars, sessions>>

\* Mutant: the handle does not get into the map.
EnsureRegisterForgets(e) ==
  /\ pc[e] = "register"
  /\ UNCHANGED agents
  /\ Respond(e, e)
  /\ UNCHANGED <<at, proc, instance, handler, openVars, sessions>>

EnsureRegister(e) ==
  /\ pc[e] = "register"
  /\ agents' = [agents EXCEPT ![at[e]][agentKey[e]] = e]
  /\ Respond(e, e)
  /\ UNCHANGED <<at, proc, instance, handler, openVars, sessions>>

AgentExit(e) ==
  /\ proc[e] = "up"
  /\ proc' = [proc EXCEPT ![e] = "exited"]
  /\ UNCHANGED <<ensureVars, instance, handler, agents, openVars, sessions>>

\* Mutant: an agent that exits leaves the map.
WaitRemoves(e) ==
  /\ proc[e] = "exited" /\ instance[e] = "ready"
  /\ instance' = [instance EXCEPT ![e] = "exited"]
  /\ agents' = [m \in Managers |-> [k \in Keys |-> IF agents[m][k] = e THEN None ELSE agents[m][k]]]
  /\ UNCHANGED <<ensureVars, proc, handler, openVars, sessions>>

\* Mutant: only registered agents are watched.
WaitRegistered(e) ==
  /\ proc[e] = "exited" /\ instance[e] = "ready" /\ agents[at[e]][agentKey[e]] = e
  /\ instance' = [instance EXCEPT ![e] = "exited"]
  /\ UNCHANGED <<ensureVars, proc, handler, agents, openVars, sessions>>

\* agentHandle.wait, which EnsureAgent starts once the agent is initialised.
Wait(e) ==
  /\ proc[e] = "exited" /\ instance[e] = "ready"
  /\ instance' = [instance EXCEPT ![e] = "exited"]
  /\ UNCHANGED <<ensureVars, proc, handler, agents, openVars, sessions>>

-----------------------------------------------------------------------------
(* CreateSession and LoadSession                                           *)

OGoto(o, l) == opc' = [opc EXCEPT ![o] = l]

\* agentByID: does manager m still have the handle of instance a in its map?
agentByID(m, a) == \E k \in Keys : agents[m][k] = a

\* A client names an instance some supervisor gave out, and a session: a new ID, or
\* for LoadSession one that may exist.
OpenLookup(o, m, a, s) ==
  /\ opc[o] = "idle"
  /\ \E e \in Ensures : agent[e] = a
  /\ oat' = [oat EXCEPT ![o] = m]
  /\ target' = [target EXCEPT ![o] = a]
  /\ session' = [session EXCEPT ![o] = s]
  /\ OGoto(o, IF agentByID(m, a) THEN "call" ELSE "error")
  /\ UNCHANGED <<ensureVars, proc, instance, handler, agents, sessions>>

\* client.NewSession or client.LoadSession
OpenCall(o) ==
  /\ opc[o] = "call"
  /\ \/ proc[target[o]] = "up" /\ OGoto(o, "store")
     \/ OGoto(o, "error")
  /\ UNCHANGED <<ensureVars, proc, instance, handler, agents, oat, target, session, sessions>>

OpenStore(o) ==
  /\ opc[o] = "store"
  /\ sessions' = [sessions EXCEPT ![oat[o]][session[o]] = target[o]]
  /\ OGoto(o, "done")
  /\ UNCHANGED <<ensureVars, proc, instance, handler, agents, oat, target, session>>

\* sessionAgent, with which Prompt and Cancel begin: does m find the agent?
sessionAgent(m, s) == sessions[m][s] # None /\ agentByID(m, sessions[m][s])

-----------------------------------------------------------------------------
\* The steps that follow a lookup, and those of the agents themselves.
EnsureStep(e) == EnsureStart(e) \/ EnsureInitialized(e) \/ EnsureInitFails(e) \/ EnsureRegister(e)
OpenStep(o)   == OpenCall(o) \/ OpenStore(o)

Inside == \/ \E e \in Ensures : EnsureStep(e) \/ AgentExit(e) \/ Wait(e)
          \/ \E o \in Opens : OpenStep(o)

\* The supervisors alone: any request may reach any of them at any time.
SupNext ==
  \/ \E e \in Ensures, m \in Managers : EnsureLookup(e, m)
  \/ \E o \in Opens, m \in Managers, a \in Ensures, s \in SessionIDs : OpenLookup(o, m, a, s)
  \/ Inside

SupSpec == SupInit /\ [][SupNext]_svars

-----------------------------------------------------------------------------
(* Properties                                                              *)

\* Whoever opens a session talks to an agent that answered initialize and whose
\* updates are routed: EnsureAgent publishes a handle only when it is complete,
\* so that no update of a session's first prompt can miss the handler.
SessionsAreRouted ==
  \A m \in Managers, s \in SessionIDs : sessions[m][s] # None =>
    sessions[m][s] \in handler /\ instance[sessions[m][s]] # "none"

\* A call that fails leaves no process behind, and a process nobody answers for
\* is one that a call is still busy with or that was registered.
NoStrayProcess ==
  \A e \in Ensures :
    proc[e] = "up" => pc[e] \in {"initialize", "register"} \/ (pc[e] = "done" /\ agent[e] = e)

\* Prompt and Cancel find the agent of a session its supervisor holds unless another
\* EnsureAgent for the same agent and bundle took its place in that supervisor's
\* map: nothing else makes a session unreachable there, not even the agent's exit.
OnlyReplacedSessionsLost ==
  \A m \in Managers, s \in SessionIDs :
    sessions[m][s] # None /\ ~sessionAgent(m, s) =>
      \E e \in Ensures \ {sessions[m][s]} :
        agentKey[e] = agentKey[sessions[m][s]] /\ agents[m][agentKey[e]] = e

=============================================================================
