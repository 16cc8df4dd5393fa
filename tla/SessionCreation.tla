-------------------------- MODULE SessionCreation --------------------------
(***************************************************************************)
(* POST /v1/sessions and POST /v1/containers/{id}/agents                   *)
(* (handleCreateSession and handleInstallAgent of api/server.go) with the  *)
(* planning functions, the scheduler (scheduler/round_robin.go) and the    *)
(* registry sync.  A request reads the catalog and the container rows,     *)
(* chooses or starts a container, installs its agent and creates the       *)
(* session, while other requests do the same, registry documents are       *)
(* written to the catalog, and containers are hibernated, deleted or lost. *)
(* The updates it makes are used through what module ContainerControl says *)
(* of them.                                                                *)
(***************************************************************************)
EXTENDS Planning, FiniteSets

CONSTANTS
  Requests,    \* create-session and install-agent requests
  Inputs,      \* Inputs[q]: what request q may ask for
  Docs,        \* registry documents: sequences of agents
  Nodes,       \* the scheduler's node IDs, a sequence
  Containers,  \* container IDs
  none

\* There are finitely many requests, and none is no value of the program's; a
\* document is a sequence, and a manual agent has the fields of an agent.
ASSUME CreationAssumption ==
  /\ IsFiniteSet(Requests)
  /\ none \notin Containers /\ none \notin {"panic", "agent", "entrypoint"}
  /\ \A doc \in Docs : doc \in Seq({doc[i] : i \in DOMAIN doc})
  /\ \A q \in Requests : \A i \in Inputs[q] :
       i # none /\ (i.manual # none => {"id", "version"} \subseteq DOMAIN i.manual)

VARIABLES
  catalog,  \* the registry store: agents by ID
  feed,     \* the entries a registry sync has yet to write
  rows,     \* the container store: rows by ID, of those that exist
  alive,    \* containers whose workflow and node handle exist
  next,     \* RoundRobin.next
  pc,       \* a request's place
  input,    \* what it asks for
  agent,    \* the agent it resolved
  bundle,   \* its bundle
  plan,     \* its plan
  place,    \* its container
  node,     \* the node chosen for a new container
  copy,     \* the container row its EnsureAgent activity read
  why,      \* the error it failed with
  peak      \* history: the most requests in flight at a time

local == <<input, agent, bundle, plan, place, node, copy, why>>
vars == <<catalog, feed, rows, alive, next, pc, input, agent, bundle, plan, place, node, copy, why, peak>>

Places == {"idle", "find", "resolve", "compile", "list", "pick", "start", "install", "write", "create",
           "done", "failed"}
InFlight == {q \in Requests : pc[q] \notin {"idle", "done", "failed"}}

TypeOK ==
  /\ \A id \in DOMAIN catalog : catalog[id].id = id
  /\ DOMAIN rows \subseteq Containers
  /\ \A c \in DOMAIN rows : rows[c].state \in {"ready", "hibernating", "deleted"}
  /\ alive \subseteq Containers
  /\ next \in Nat
  /\ pc \in [Requests -> Places]
  /\ place \in [Requests -> Containers \cup {none}]
  /\ \A q \in Requests : pc[q] \in {"install", "write", "create", "done"} => place[q] # none

Init ==
  /\ catalog = <<>> /\ feed = <<>> /\ rows = <<>> /\ alive = {} /\ next = 0 /\ peak = 0
  /\ pc = [q \in Requests |-> "idle"]
  /\ input = [q \in Requests |-> none] /\ agent = input /\ bundle = input /\ plan = input
  /\ place = input /\ node = input /\ copy = input /\ why = input

Goto(q, p) == pc' = [pc EXCEPT ![q] = p]

Fail(q, err) ==
  /\ Goto(q, "failed")
  /\ why' = [why EXCEPT ![q] = err]
  /\ UNCHANGED <<catalog, feed, rows, alive, next, input, agent, bundle, plan, place, node, copy, peak>>

-----------------------------------------------------------------------------
(* The request, up to its placement                                        *)

Begin(q) ==
  /\ pc[q] = "idle"
  /\ \E i \in Inputs[q] : /\ input' = [input EXCEPT ![q] = i]
                         /\ Goto(q, IF i.op = "install" THEN "find" ELSE "resolve")
  /\ peak' = IF Cardinality(InFlight) + 1 > peak THEN Cardinality(InFlight) + 1 ELSE peak
  /\ UNCHANGED <<catalog, feed, rows, alive, next, agent, bundle, plan, place, node, copy, why>>

\* An install-agent request looks its container up first.
FindContainer(q) ==
  /\ pc[q] = "find"
  /\ IF input[q].container \notin DOMAIN rows THEN Fail(q, "not found")
     ELSE Goto(q, "resolve") /\ UNCHANGED <<catalog, feed, rows, alive, next, local, peak>>

\* A manual agent gets an ID and a version if it has none; it is not validated.
ManualAgent(a) ==
  [a EXCEPT !.id = IF @ = "" THEN "generated" ELSE @,
            !.version = IF @ = "" THEN "manual" ELSE @]

\* resolveAgentBundle, with the bundle workflow and its activity.
ResolveAgentBundle(q) ==
  LET in == input[q]
      a == IF in.manual # none THEN ManualAgent(in.manual)
           ELSE IF in.agent \in DOMAIN catalog THEN catalog[in.agent] ELSE none
      r == Resolve(a, in.platform) IN
  /\ pc[q] = "resolve"
  /\ IF a = none THEN Fail(q, "not found")
     ELSE IF r.err # "" THEN Fail(q, r.err)
     ELSE /\ agent' = [agent EXCEPT ![q] = a] /\ bundle' = [bundle EXCEPT ![q] = r]
          /\ Goto(q, "compile")
          /\ UNCHANGED <<catalog, feed, rows, alive, next, input, plan, place, node, copy, why, peak>>

\* The profile is the request's, or that of the container it names.
CompilePlan(q) ==
  LET in == input[q]
      profile == IF in.container = none THEN in.profile ELSE rows[in.container].profile
      r == CompileExecutionPlan(agent[q], bundle[q], profile, in.session, in.llm,
                                normalizePolicy(in.policy)) IN
  /\ pc[q] = "compile"
  /\ IF in.container # none /\ in.container \notin DOMAIN rows THEN Fail(q, "not found")
     ELSE IF r.err # "" THEN Fail(q, r.err)
     ELSE /\ plan' = [plan EXCEPT ![q] = r] /\ place' = [place EXCEPT ![q] = in.container]
          /\ Goto(q, IF in.container = none THEN "list" ELSE "install")
          /\ UNCHANGED <<catalog, feed, rows, alive, next, input, agent, bundle, node, copy, why, peak>>

-----------------------------------------------------------------------------
(* RoundRobin.SelectPlacement                                              *)

\* Mutant: only idle containers are taken, and no code makes one idle.
UsableIdle(wish) ==
  {c \in DOMAIN rows : rows[c].state = "idle" /\ (wish = none \/ rows[c].node = wish)}

\* Rows the loop accepts.  Nothing counts CurrentRuns, so that Capacity excludes
\* no container.
Usable(wish) ==
  {c \in DOMAIN rows : rows[c].state \in {"ready", "idle"} /\ (wish = none \/ rows[c].node = wish)}

\* ListContainers and the loop: the first row that fits, in an order of the
\* store's.  The request's placement names no node at this point.
ListContainers(q) ==
  LET fit == Usable(plan[q].node) IN
  /\ pc[q] = "list"
  /\ IF fit = {} /\ Nodes = <<>> THEN Fail(q, "no capacity")
     ELSE /\ \/ fit = {} /\ Goto(q, "pick") /\ UNCHANGED place
             \/ \E c \in fit : place' = [place EXCEPT ![q] = c] /\ Goto(q, "install")
          /\ UNCHANGED <<catalog, feed, rows, alive, next, input, agent, bundle, plan, node, copy, why, peak>>

\* The next node in turn, whatever node the profile asks for.
PickNode(q) ==
  /\ pc[q] = "pick"
  /\ node' = [node EXCEPT ![q] = Nodes[(next % Len(Nodes)) + 1]]
  /\ next' = next + 1
  /\ Goto(q, "start")
  /\ UNCHANGED <<catalog, feed, rows, alive, input, agent, bundle, plan, place, copy, why, peak>>

-----------------------------------------------------------------------------
(* The updates of the container workflow                                   *)

\* StartContainer takes a new ID and provisions the container on the node; the row
\* gets the plan's profile.
NewID == CHOOSE c \in Containers : c \notin DOMAIN rows

Started(q, c) ==
  /\ DOMAIN rows # Containers
  /\ rows' = Over([x \in {c} |-> [state |-> "ready", node |-> node[q],
                                   profile |-> [node |-> node[q], terminal |-> plan[q].terminal]]], rows)
  /\ alive' = alive \cup {c}

StartContainer(q) ==
  /\ pc[q] = "start"
  /\ Started(q, NewID) /\ place' = [place EXCEPT ![q] = NewID]
  /\ Goto(q, "install")
  /\ UNCHANGED <<catalog, feed, next, input, agent, bundle, plan, node, copy, why, peak>>

\* The update fails after the container was provisioned and its row written.
StartContainerLeaves(q) ==
  /\ pc[q] = "start"
  /\ Started(q, NewID)
  /\ Goto(q, "failed") /\ why' = [why EXCEPT ![q] = "update"]
  /\ UNCHANGED <<catalog, feed, next, input, agent, bundle, plan, place, node, copy, peak>>

\* The store, Temporal or the activity behind it refuses: the container is gone, or
\* for a reason of its own.
UpdateFails(q) ==
  /\ \/ pc[q] \in {"find", "resolve", "list", "start", "install", "write", "create"}
     \/ pc[q] = "compile" /\ input[q].container # none
  /\ Fail(q, "update")

\* InstallAgent: the activity reads the row and has the node ensure the agent.
InstallAgent(q) ==
  /\ pc[q] = "install" /\ place[q] \in alive
  /\ copy' = [copy EXCEPT ![q] = rows[place[q]]]
  /\ Goto(q, "write")
  /\ UNCHANGED <<catalog, feed, rows, alive, next, input, agent, bundle, plan, place, node, why, peak>>

\* Mutant: an agent's installation makes the container busy.
NoteDigestBusy(q) ==
  /\ pc[q] = "write"
  /\ rows' = [rows EXCEPT ![place[q]] = [copy[q] EXCEPT !.state = "busy"]]
  /\ Goto(q, "create")
  /\ UNCHANGED <<catalog, feed, alive, next, local, peak>>

\* If the bundle is new to the container, the row goes back as it was read, with
\* the digest added.
NoteDigest(q) ==
  /\ pc[q] = "write"
  /\ rows' = [rows EXCEPT ![place[q]] = copy[q]] \/ UNCHANGED rows
  /\ Goto(q, IF input[q].op = "install" THEN "done" ELSE "create")
  /\ UNCHANGED <<catalog, feed, alive, next, local, peak>>

CreateSession(q) ==
  /\ pc[q] = "create" /\ place[q] \in alive
  /\ Goto(q, "done")
  /\ UNCHANGED <<catalog, feed, rows, alive, next, local, peak>>

-----------------------------------------------------------------------------
(* What goes on besides                                                    *)

\* Syncer.Sync of a document; one that does not parse changes nothing.
Sync(doc) ==
  /\ feed = <<>> /\ Parse(doc).err = ""
  /\ feed' = Parse(doc).entries
  /\ UNCHANGED <<catalog, rows, alive, next, pc, local, peak>>

\* UpsertCatalog writes entry by entry, without a transaction (MemoryStore does so
\* under its lock).  An entry replaces the one of its ID; agents that a document
\* no longer has stay.
SyncEntry ==
  /\ feed # <<>>
  /\ catalog' = Upsert(catalog, Head(feed))
  /\ feed' = Tail(feed)
  /\ UNCHANGED <<rows, alive, next, pc, local, peak>>

\* A write fails: the entries before it stay.
SyncFails ==
  /\ feed # <<>>
  /\ feed' = <<>>
  /\ UNCHANGED <<catalog, rows, alive, next, pc, local, peak>>

SetState(c, state) ==
  /\ c \in alive
  /\ rows' = [rows EXCEPT ![c].state = state]

HibernateContainer(c) ==
  /\ SetState(c, "hibernating")
  /\ UNCHANGED <<catalog, feed, alive, next, pc, local, peak>>

DeleteContainer(c) ==
  /\ SetState(c, "deleted")
  /\ alive' = alive \ {c}
  /\ UNCHANGED <<catalog, feed, next, pc, local, peak>>

\* The node restarts: its handles are gone, the rows stay.
ContainerLost(c) ==
  /\ c \in alive
  /\ alive' = alive \ {c}
  /\ UNCHANGED <<catalog, feed, rows, next, pc, local, peak>>

Step(q) ==
  \/ Begin(q) \/ FindContainer(q) \/ ResolveAgentBundle(q) \/ CompilePlan(q) \/ ListContainers(q) \/ PickNode(q)
  \/ StartContainer(q) \/ StartContainerLeaves(q) \/ UpdateFails(q)
  \/ InstallAgent(q) \/ NoteDigest(q) \/ CreateSession(q)

Next ==
  \/ \E q \in Requests : Step(q)
  \/ \E doc \in Docs : Sync(doc)
  \/ SyncEntry \/ SyncFails
  \/ \E c \in Containers : HibernateContainer(c) \/ DeleteContainer(c) \/ ContainerLost(c)

Spec == Init /\ [][Next]_vars

-----------------------------------------------------------------------------
(* Properties                                                              *)

\* Agents from the registry never bring the resolver down, and a plan is refused
\* for its authentication only.  A plan that was compiled can be run: it is for
\* the agent asked for and one of its platforms; in hosted mode it allows
\* terminal authentication only if policy and profile do; and no variable of the
\* agent or the session hides the key of the LLM profile.
PlanSound ==
  \A q \in Requests :
    /\ why[q] = "panic" => input[q].manual # none
    /\ why[q] \notin {"agent", "entrypoint"}
    /\ plan[q] # none =>
         LET in == input[q] policy == normalizePolicy(in.policy) IN
         /\ plan[q].agent = agent[q].id /\ bundle[q].entrypoint # <<>>
         /\ agent[q].platforms # {} =>
              bundle[q].platform \in {normalizePlatform(p) : p \in agent[q].platforms}
         /\ policy.hosted /\ plan[q].terminal => policy.terminal
         /\ in.llm.key # "" => plan[q].env["KEY"] = in.llm.key

\* Requests reuse containers: as long as none asks for a node, there are never
\* more ready containers than there were requests in flight at one
\* time, whatever fails half way, is hibernated or written back.
ContainersBounded ==
  (\A q \in Requests : input[q] # none => input[q].profile.node = none)
    => Cardinality({c \in DOMAIN rows : rows[c].state = "ready"}) <= peak

=============================================================================
