----------------------- MODULE SessionCreationProofs -----------------------
(***************************************************************************)
(* Proofs about the creation of sessions, for any requests, documents,     *)
(* nodes and container IDs.                                                *)
(*                                                                         *)
(* The bound on ready containers is not inductive.  A row that was read    *)
(* before its container was hibernated makes it ready again when it is     *)
(* written back, and a request that found none ready is yet to start one:  *)
(* the invariant counts both with the containers that are ready.           *)
(***************************************************************************)
EXTENDS SessionCreation, FiniteSetTheorems, TLAPS

-----------------------------------------------------------------------------
(* The inductive invariant                                                  *)

States == {"ready", "hibernating", "deleted"}

\* The functions over the requests, and what a place of a request says of it.
ShapeInv ==
  /\ DOMAIN input = Requests /\ DOMAIN agent = Requests /\ DOMAIN bundle = Requests
  /\ DOMAIN plan = Requests /\ DOMAIN copy = Requests /\ DOMAIN why = Requests
  /\ pc \in [Requests -> Places]
  /\ place \in [Requests -> Containers \cup {none}]
  /\ \A q \in Requests : pc[q] \in {"install", "write", "create", "done"} => place[q] # none
  /\ \A q \in Requests : IF pc[q] = "idle" THEN input[q] = none ELSE input[q] \in Inputs[q]

\* Only validated agents are in the catalog or on their way to it.
CatalogInv ==
  /\ \A id \in DOMAIN catalog : catalog[id].id = id /\ validateAgent(catalog[id])
  /\ feed \in Seq({feed[i] : i \in DOMAIN feed})
  /\ \A i \in 1..Len(feed) : validateAgent(feed[i])

\* The rows, and the copies of rows that are about to be written back.
IsRow(r) == r.state \in States /\ "state" \in DOMAIN r

RowsInv ==
  /\ DOMAIN rows \subseteq Containers /\ IsFiniteSet(DOMAIN rows) /\ next \in Nat
  /\ \A c \in DOMAIN rows : IsRow(rows[c])
  /\ alive \subseteq DOMAIN rows
  /\ \A q \in Requests : pc[q] = "write" => IsRow(copy[q])

\* The agent and the bundle of a request, and its plan.
Resolved(q) ==
  /\ agent[q].id # "" /\ bundle[q].entrypoint # <<>>
  /\ agent[q].platforms # {} => bundle[q].platform \in {normalizePlatform(p) : p \in agent[q].platforms}

Planned(q) ==
  LET in == input[q] policy == normalizePolicy(in.policy) IN
  /\ plan[q].agent = agent[q].id
  /\ policy.hosted /\ plan[q].terminal => policy.terminal
  /\ in.llm.key # "" => plan[q].env["KEY"] = in.llm.key

RequestOK(q) ==
  /\ pc[q] = "idle" => why[q] = none
  /\ pc[q] \in {"idle", "find", "resolve"} => plan[q] = none
  /\ pc[q] = "compile" => plan[q] = none /\ Resolved(q)
  /\ plan[q] # none => Resolved(q) /\ Planned(q)
  /\ pc[q] = "list" => plan[q].node = input[q].profile.node
  /\ why[q] = "panic" => input[q].manual # none
  /\ why[q] \notin {"agent", "entrypoint"}

RequestInv == \A q \in Requests : RequestOK(q)

\* Containers that are ready, or will be when a copy is written back, and the
\* requests that are about to start one.
Ready    == {c \in DOMAIN rows : rows[c].state = "ready"}
Writing  == {q \in Requests : pc[q] = "write" /\ copy[q].state = "ready"}
Coming   == {place[q] : q \in Writing}
Starting == {q \in Requests : pc[q] \in {"pick", "start"}}
Unpinned == \A q \in Requests : input[q] # none => input[q].profile.node = none

PeakInv == peak \in Nat /\ Cardinality(InFlight) <= peak

BoundInv == Unpinned => Cardinality(Ready \cup Coming) + Cardinality(Starting) <= peak

CreationInv == ShapeInv /\ CatalogInv /\ RowsInv /\ RequestInv /\ PeakInv /\ BoundInv

-----------------------------------------------------------------------------
(* The planning functions                                                   *)

\* A validated agent is resolved, or refused for its platform: its distribution
\* has its payload.
LEMMA ResolveValidated ==
  ASSUME NEW a, NEW p, validateAgent(a)
  PROVE  Resolve(a, p).err \in {"", "platform"}
BY DEF Resolve, validateAgent, Fails

\* An agent that was resolved has an entrypoint, and its bundle is for one of its
\* platforms, if it names any.
LEMMA ResolveSound ==
  ASSUME NEW a, NEW p, Resolve(a, p).err = ""
  PROVE  /\ Resolve(a, p).entrypoint # <<>>
         /\ a.platforms # {} => Resolve(a, p).platform \in {normalizePlatform(x) : x \in a.platforms}
<1> DEFINE w == IF p = NoPlatform THEN Host ELSE p
<1>1. ~(a.platforms # {} /\ \A x \in a.platforms : normalizePlatform(x) # w)
  BY DEF Resolve, Fails
<1>2. a.dist \in {"binary", "npx", "uvx"} /\ a.payload # "nil"
  BY <1>1 DEF Resolve, Fails
<1>3. Resolve(a, p).entrypoint = Entrypoint(a) /\ Resolve(a, p).platform = w
  BY <1>1, <1>2 DEF Resolve
<1>4. Entrypoint(a) # <<>>
  BY <1>2 DEF Entrypoint
<1> QED
  BY <1>1, <1>3, <1>4

\* Resolve fails for three reasons only.
LEMMA ResolveErrors ==
  ASSUME NEW a, NEW p
  PROVE  Resolve(a, p).err \in {"", "platform", "distribution", "panic"}
BY DEF Resolve, Fails

\* An agent with an ID and a bundle with an entrypoint are refused for their
\* authentication only.
LEMMA CompileErrors ==
  ASSUME NEW a, NEW b, NEW prof, NEW s, NEW llm, NEW pol, a.id # "", b.entrypoint # <<>>
  PROVE  CompileExecutionPlan(a, b, prof, s, llm, pol).err \in {"", "auth"}
BY DEF CompileExecutionPlan, Fails

\* The key of the LLM profile is in its variables, whatever they say of it.
LEMMA KeyInjected ==
  ASSUME NEW llm, llm.key # ""
  PROVE  "KEY" \in DOMAIN injectLLMProfileEnv(llm) /\ injectLLMProfileEnv(llm)["KEY"] = llm.key
<1>1. llm # NoLLM
  <2>1. NoLLM.key = ""
    BY DEF NoLLM
  <2> QED
    BY <2>1
<1> DEFINE k == [KEY |-> llm.key]
           g == Over(llm.env, [PROVIDER |-> "profile"])
<1>2. injectLLMProfileEnv(llm) = Over(k, g)
  BY <1>1 DEF injectLLMProfileEnv
<1>3. "KEY" \in DOMAIN k /\ k["KEY"] = llm.key
  OBVIOUS
<1> HIDE DEF k, g
<1> QED
  BY <1>2, <1>3 DEF Over

\* What a plan says that was compiled.
Says(r, a, prof, llm, pol) ==
  /\ r.agent = a.id /\ r.node = prof.node
  /\ pol.hosted /\ r.terminal => pol.terminal
  /\ llm.key # "" => r.env["KEY"] = llm.key

LEMMA CompileSound ==
  ASSUME NEW a, NEW b, NEW prof, NEW s, NEW llm, NEW pol,
         CompileExecutionPlan(a, b, prof, s, llm, pol).err = ""
  PROVE  Says(CompileExecutionPlan(a, b, prof, s, llm, pol), a, prof, llm, pol)
<1> DEFINE r == CompileExecutionPlan(a, b, prof, s, llm, pol)
           inner == Over(s.env, a.env)
<1>1. a.id # "" /\ ~(~prof.terminal /\ a.terminal /\ pol.hosted) /\ b.entrypoint # <<>>
  BY DEF CompileExecutionPlan, Fails
<1>2. /\ r.agent = a.id /\ r.node = prof.node
      /\ r.env = Over(injectLLMProfileEnv(llm), inner)
      /\ r.terminal = IF pol.hosted THEN pol.terminal /\ prof.terminal ELSE prof.terminal
  BY <1>1 DEF CompileExecutionPlan
<1>3. pol.hosted /\ r.terminal => pol.terminal
  <2> HIDE DEF r
  <2> QED BY <1>2, Zenon
<1>4. llm.key # "" => r.env["KEY"] = llm.key
  <2> HIDE DEF r, inner
  <2> QED BY <1>2, KeyInjected DEF Over
<1> HIDE DEF r
<1>5. Says(r, a, prof, llm, pol)
  BY <1>2, <1>3, <1>4, Zenon DEF Says
<1> QED
  BY <1>5 DEF r

-----------------------------------------------------------------------------
(* The catalog                                                              *)

LEMMA CatalogStep ==
  ASSUME CatalogInv, [Next]_vars
  PROVE  CatalogInv'
<1>1. CASE \E doc \in Docs : Sync(doc)
  <2>1. PICK doc \in Docs : Sync(doc)
    BY <1>1
  <2>2. \A i \in DOMAIN doc : validateAgent(doc[i])
    BY <2>1 DEF Sync, Parse, Fails
  <2>3. feed' = doc /\ catalog' = catalog
    BY <2>1, <2>2 DEF Sync, Parse
  <2>4. doc \in Seq({doc[i] : i \in DOMAIN doc})
    BY CreationAssumption
  <2>5. DOMAIN doc = 1..Len(doc)
    BY <2>4
  <2> QED
    BY <2>2, <2>3, <2>4, <2>5 DEF CatalogInv
<1>2. CASE SyncEntry
  <2>1. feed # <<>> /\ catalog' = Upsert(catalog, Head(feed)) /\ feed' = Tail(feed)
    BY <1>2 DEF SyncEntry
  <2> DEFINE F == {feed[i] : i \in DOMAIN feed}
  <2>2. feed \in Seq(F) /\ feed # <<>>
    BY <2>1 DEF CatalogInv
  <2> HIDE DEF F
  <2>3. Len(feed) \in Nat \ {0} /\ Head(feed) = feed[1]
    BY <2>2
  <2>4. /\ Tail(feed) \in Seq(F) /\ Len(Tail(feed)) = Len(feed) - 1
        /\ \A i \in 1..Len(Tail(feed)) : Tail(feed)[i] = feed[i + 1]
    BY <2>2
  <2>5. validateAgent(Head(feed))
    BY <2>3 DEF CatalogInv
  <2>6. \A i \in 1..Len(Tail(feed)) : validateAgent(Tail(feed)[i])
    BY <2>3, <2>4 DEF CatalogInv
  <2>7. \A id \in DOMAIN Upsert(catalog, Head(feed)) :
          LET a == Upsert(catalog, Head(feed))[id] IN a.id = id /\ validateAgent(a)
    BY <2>5 DEF CatalogInv, Upsert, Over
  <2>8. Tail(feed) \in Seq({Tail(feed)[i] : i \in DOMAIN Tail(feed)})
    <3> DEFINE t == Tail(feed)
    <3>1. t \in Seq(F)
      BY <2>4
    <3> HIDE DEF t
    <3>2. Len(t) \in Nat /\ t \in [1..Len(t) -> F]
      BY <3>1
    <3>3. t \in [1..Len(t) -> {t[i] : i \in DOMAIN t}]
      BY <3>2
    <3>4. t \in Seq({t[i] : i \in DOMAIN t})
      BY <3>2, <3>3
    <3> QED
      BY <3>4 DEF t
  <2> QED
    BY <2>1, <2>6, <2>7, <2>8 DEF CatalogInv
<1>3. CASE SyncFails
  BY <1>3 DEF SyncFails, CatalogInv
<1>4. CASE UNCHANGED <<catalog, feed>>
  BY <1>4 DEF CatalogInv
<1> QED
  <2>1. ASSUME NEW q \in Requests, Step(q)
        PROVE  UNCHANGED <<catalog, feed>>
    BY <2>1 DEF Step, Begin, FindContainer, ResolveAgentBundle, CompilePlan, ListContainers, PickNode,
                StartContainer, StartContainerLeaves, UpdateFails, InstallAgent, NoteDigest,
                CreateSession, Fail
  <2>2. ASSUME NEW c, HibernateContainer(c) \/ DeleteContainer(c) \/ ContainerLost(c)
        PROVE  UNCHANGED <<catalog, feed>>
    BY <2>2 DEF HibernateContainer, DeleteContainer, ContainerLost
  <2> QED
    BY <1>1, <1>2, <1>3, <1>4, <2>1, <2>2 DEF Next, vars

-----------------------------------------------------------------------------
(* The functions over the requests                                          *)

\* A new container has an ID that no row has.
LEMMA NewIDFree ==
  ASSUME RowsInv, DOMAIN rows # Containers
  PROVE  NewID \in Containers /\ NewID \notin DOMAIN rows
<1>1. \E c \in Containers : c \notin DOMAIN rows
  BY DEF RowsInv
<1> QED
  BY <1>1 DEF NewID

LEMMA ShapeStep ==
  ASSUME ShapeInv, RowsInv, [Next]_vars
  PROVE  ShapeInv'
<1> USE DEF ShapeInv, Goto, Places
<1>1. ASSUME NEW q \in Requests, NEW err, pc[q] # "idle", Fail(q, err)
      PROVE  ShapeInv'
  BY <1>1 DEF Fail
<1>2. ASSUME NEW q \in Requests, Begin(q)
      PROVE  ShapeInv'
  BY <1>2 DEF Begin
<1>3. ASSUME NEW q \in Requests, FindContainer(q)
      PROVE  ShapeInv'
  BY <1>1, <1>3 DEF FindContainer, local
<1>4. ASSUME NEW q \in Requests, ResolveAgentBundle(q)
      PROVE  ShapeInv'
  BY <1>1, <1>4 DEF ResolveAgentBundle
<1>5. ASSUME NEW q \in Requests, CompilePlan(q)
      PROVE  ShapeInv'
  <2>1. CASE \E err : Fail(q, err)
    BY <1>1, <1>5, <2>1 DEF CompilePlan
  <2>2. CASE ~(\E err : Fail(q, err))
    <3>1. /\ pc[q] = "compile"
          /\ input[q].container = none \/ input[q].container \in DOMAIN rows
          /\ place' = [place EXCEPT ![q] = input[q].container]
          /\ pc' = [pc EXCEPT ![q] = IF input[q].container = none THEN "list" ELSE "install"]
          /\ DOMAIN plan' = DOMAIN plan
          /\ UNCHANGED <<input, agent, bundle, copy, why>>
      BY <1>5, <2>2 DEF CompilePlan
    <3> QED
      BY <3>1, CreationAssumption DEF RowsInv
  <2> QED
    BY <2>1, <2>2
<1>6. ASSUME NEW q \in Requests, ListContainers(q)
      PROVE  ShapeInv'
  <2>1. Usable(plan[q].node) \subseteq Containers
    BY DEF Usable, RowsInv
  <2>0. pc[q] = "list"
    BY <1>6 DEF ListContainers
  <2>2. CASE Fail(q, "no capacity")
    BY <1>1, <2>0, <2>2
  <2>3. CASE place' = place /\ pc' = [pc EXCEPT ![q] = "pick"] /\ UNCHANGED local
    BY <2>0, <2>3 DEF local
  <2>4. ASSUME NEW c \in Usable(plan[q].node), place' = [place EXCEPT ![q] = c],
               pc' = [pc EXCEPT ![q] = "install"], UNCHANGED <<input, agent, bundle, plan, copy, why>>
        PROVE  ShapeInv'
    BY <2>0, <2>1, <2>4, CreationAssumption
  <2> QED
    BY <1>6, <2>2, <2>3, <2>4 DEF ListContainers, local
<1>7. ASSUME NEW q \in Requests, PickNode(q)
      PROVE  ShapeInv'
  BY <1>7 DEF PickNode
<1>8. ASSUME NEW q \in Requests, StartContainer(q)
      PROVE  ShapeInv'
  BY <1>8, NewIDFree, CreationAssumption DEF StartContainer, Started
<1>9. ASSUME NEW q \in Requests, StartContainerLeaves(q)
      PROVE  ShapeInv'
  BY <1>9 DEF StartContainerLeaves
<1>10. ASSUME NEW q \in Requests, UpdateFails(q)
       PROVE  ShapeInv'
  BY <1>1, <1>10 DEF UpdateFails
<1>11. ASSUME NEW q \in Requests, InstallAgent(q)
       PROVE  ShapeInv'
  BY <1>11 DEF InstallAgent
<1>12. ASSUME NEW q \in Requests, NoteDigest(q)
       PROVE  ShapeInv'
  BY <1>12 DEF NoteDigest, local
<1>13. ASSUME NEW q \in Requests, CreateSession(q)
       PROVE  ShapeInv'
  BY <1>13 DEF CreateSession, local
<1>14. CASE UNCHANGED <<pc, local>>
  BY <1>14 DEF local
<1> QED
  BY <1>2, <1>3, <1>4, <1>5, <1>6, <1>7, <1>8, <1>9, <1>10, <1>11, <1>12, <1>13, <1>14
  DEF Next, Step, vars, local, Sync, SyncEntry, SyncFails, HibernateContainer, DeleteContainer, ContainerLost

-----------------------------------------------------------------------------
(* The rows                                                                 *)

LEMMA StartedRows ==
  ASSUME NEW q, RowsInv, Started(q, NewID)
  PROVE  /\ NewID \in Containers /\ NewID \notin DOMAIN rows
         /\ DOMAIN rows' = DOMAIN rows \cup {NewID}
         /\ rows'[NewID].state = "ready" /\ IsRow(rows'[NewID])
         /\ \A c \in DOMAIN rows : rows'[c] = rows[c]
         /\ alive' = alive \cup {NewID}
<1>1. NewID \in Containers /\ NewID \notin DOMAIN rows
  BY NewIDFree DEF Started
<1> DEFINE r == [state |-> "ready", node |-> node[q],
                 profile |-> [node |-> node[q], terminal |-> plan[q].terminal]]
           f == [x \in {NewID} |-> r]
<1>2. rows' = Over(f, rows) /\ alive' = alive \cup {NewID}
  BY DEF Started
<1>3. r.state = "ready" /\ IsRow(r)
  BY DEF IsRow, States
<1> HIDE DEF r
<1> QED
  BY <1>1, <1>2, <1>3 DEF Over

\* A step that leaves the rows alone and makes no request a writer.
LEMMA RowsKept ==
  ASSUME RowsInv, UNCHANGED <<rows, copy>>, next' \in Nat, alive' \subseteq alive,
         \A q \in Requests : pc'[q] = "write" => pc[q] = "write"
  PROVE  RowsInv'
BY DEF RowsInv, IsRow

LEMMA RowsStep ==
  ASSUME ShapeInv, RowsInv, [Next]_vars
  PROVE  RowsInv'
<1>0. pc \in [Requests -> Places] /\ DOMAIN copy = Requests /\ next \in Nat
  BY DEF ShapeInv, RowsInv
<1>1. ASSUME NEW q \in Requests, NEW err, Fail(q, err)
      PROVE  RowsInv'
  BY <1>0, <1>1, RowsKept DEF Fail, Goto
<1>2. ASSUME NEW q \in Requests, \/ Begin(q) \/ FindContainer(q) \/ ResolveAgentBundle(q)
                                 \/ CompilePlan(q) \/ ListContainers(q) \/ PickNode(q) \/ UpdateFails(q)
                                 \/ CreateSession(q)
      PROVE  RowsInv'
  <2>1. CASE \E err : Fail(q, err)
    BY <1>1, <2>1
  <2>2. CASE ~(\E err : Fail(q, err))
    <3>1. /\ UNCHANGED <<rows, copy, alive>> /\ next' \in Nat
          /\ \E p \in Places \ {"write"} : pc' = [pc EXCEPT ![q] = p]
      <4> USE <1>0 DEF Goto, Places
      <4>1. CASE Begin(q)
        BY <4>1 DEF Begin
      <4>2. CASE FindContainer(q)
        BY <2>2, <4>2 DEF FindContainer, local
      <4>3. CASE ResolveAgentBundle(q)
        BY <2>2, <4>3 DEF ResolveAgentBundle
      <4>4. CASE CompilePlan(q)
        BY <2>2, <4>4 DEF CompilePlan
      <4>5. CASE ListContainers(q)
        BY <2>2, <4>5 DEF ListContainers
      <4>6. CASE PickNode(q)
        <5>1. next' = next + 1 /\ pc' = [pc EXCEPT ![q] = "start"] /\ UNCHANGED <<rows, alive, copy>>
          BY <4>6 DEF PickNode
        <5>2. next' \in Nat
          BY <5>1
        <5>3. "start" \in Places \ {"write"}
          OBVIOUS
        <5> QED
          BY <5>1, <5>2, <5>3, Zenon
      <4>7. CASE UpdateFails(q)
        BY <2>2, <4>7 DEF UpdateFails
      <4>8. CASE CreateSession(q)
        BY <4>8 DEF CreateSession, local
      <4> QED
        BY <1>2, <4>1, <4>2, <4>3, <4>4, <4>5, <4>6, <4>7, <4>8
    <3> QED
      BY <1>0, <3>1, RowsKept
  <2> QED
    BY <2>1, <2>2
<1>3. ASSUME NEW q \in Requests, StartContainer(q) \/ StartContainerLeaves(q)
      PROVE  RowsInv'
  <2>1. /\ Started(q, NewID) /\ UNCHANGED <<next, copy>>
        /\ \E p \in {"install", "failed"} : pc' = [pc EXCEPT ![q] = p]
    BY <1>3 DEF StartContainer, StartContainerLeaves, Goto
  <2>2. \A r \in Requests : pc'[r] = "write" => pc[r] = "write"
    BY <1>0, <2>1
  <2>3. IsFiniteSet(DOMAIN rows \cup {NewID})
    BY FS_AddElement DEF RowsInv
  <2> QED
    BY <2>1, <2>2, <2>3, StartedRows DEF RowsInv
<1>4. ASSUME NEW q \in Requests, InstallAgent(q)
      PROVE  RowsInv'
  <2>1. place[q] \in DOMAIN rows
    BY <1>4 DEF InstallAgent, RowsInv
  <2> QED
    BY <1>0, <1>4, <2>1 DEF InstallAgent, RowsInv, Goto, IsRow
<1>5. ASSUME NEW q \in Requests, NoteDigest(q)
      PROVE  RowsInv'
  BY <1>0, <1>5 DEF NoteDigest, RowsInv, Goto, IsRow, local
<1>6. ASSUME NEW c \in Containers, HibernateContainer(c) \/ DeleteContainer(c)
      PROVE  RowsInv'
  <2>1. PICK s \in States : c \in alive /\ rows' = [rows EXCEPT ![c].state = s]
    BY <1>6 DEF HibernateContainer, DeleteContainer, SetState, States
  <2>2. c \in DOMAIN rows /\ DOMAIN rows' = DOMAIN rows
    BY <2>1 DEF RowsInv
  <2>3. \A x \in DOMAIN rows : IsRow(rows'[x])
    BY <2>1, <2>2 DEF RowsInv, IsRow
  <2>4. alive' \subseteq alive /\ UNCHANGED <<next, pc, copy>>
    BY <1>6 DEF HibernateContainer, DeleteContainer, local
  <2> QED
    BY <2>2, <2>3, <2>4 DEF RowsInv
<1>7. ASSUME UNCHANGED <<rows, next, pc, copy>>, alive' \subseteq alive
      PROVE  RowsInv'
  BY <1>7 DEF RowsInv
<1> QED
  BY <1>2, <1>3, <1>4, <1>5, <1>6, <1>7
  DEF Next, Step, vars, local, Sync, SyncEntry, SyncFails, ContainerLost

-----------------------------------------------------------------------------
(* The requests                                                             *)

\* Nothing that is said of request r has changed.
Same(r) ==
  /\ pc'[r] = pc[r] /\ why'[r] = why[r] /\ plan'[r] = plan[r]
  /\ agent'[r] = agent[r] /\ bundle'[r] = bundle[r] /\ input'[r] = input[r]

\* A step of one request leaves the others as they were.
LEMMA OthersKept ==
  ASSUME NEW q \in Requests, RequestInv, \A r \in Requests \ {q} : Same(r), RequestOK(q)'
  PROVE  RequestInv'
<1>1. ASSUME NEW r \in Requests \ {q}
      PROVE  RequestOK(r)'
  <2>1. RequestOK(r) /\ Same(r)
    BY DEF RequestInv
  <2> QED
    BY <2>1 DEF RequestOK, Same, Resolved, Planned
<1> QED
  BY <1>1 DEF RequestInv

\* A request that fails may have any error but the two that are excluded, and
\* panics on a manual agent only.
LEMMA FailRequest ==
  ASSUME NEW q \in Requests, NEW err, ShapeInv, RequestInv, Fail(q, err),
         err \notin {"agent", "entrypoint"}, err = "panic" => input[q].manual # none
  PROVE  RequestInv'
<1>1. \A r \in Requests \ {q} : Same(r)
  BY DEF Fail, Goto, ShapeInv, Same
<1>2. /\ pc'[q] = "failed" /\ why'[q] = err
      /\ UNCHANGED <<plan, agent, bundle, input>>
  BY DEF Fail, Goto, ShapeInv
<1>3. RequestOK(q)
  BY DEF RequestInv
<1>4. RequestOK(q)'
  BY <1>2, <1>3 DEF RequestOK, Resolved, Planned
<1> QED
  BY <1>1, <1>4, OthersKept

LEMMA ResolveStep ==
  ASSUME NEW q \in Requests, ShapeInv, CatalogInv, RequestInv, ResolveAgentBundle(q)
  PROVE  RequestInv'
<1> DEFINE in == input[q]
           a == IF in.manual # none THEN ManualAgent(in.manual)
                ELSE IF in.agent \in DOMAIN catalog THEN catalog[in.agent] ELSE none
           r == Resolve(a, in.platform)
<1>1. pc[q] = "resolve" /\ in \in Inputs[q]
  BY DEF ResolveAgentBundle, ShapeInv
<1>2. a = none \/ a.id # ""
  <2>1. CASE in.manual # none
    <3>1. "id" \in DOMAIN in.manual
      BY <1>1, <2>1, CreationAssumption
    <3>2. ManualAgent(in.manual).id # ""
      BY <3>1 DEF ManualAgent
    <3> QED
      BY <2>1, <3>2
  <2>2. CASE in.manual = none
    BY <2>2 DEF CatalogInv, validateAgent
  <2> QED
    BY <2>1, <2>2
<1>3. a # none /\ in.manual = none => r.err \in {"", "platform"}
  BY ResolveValidated DEF CatalogInv
<1>4. r.err \in {"", "platform", "distribution", "panic"}
  BY ResolveErrors
<1>5. r.err = "" => /\ r.entrypoint # <<>>
                    /\ a.platforms # {} => r.platform \in {normalizePlatform(x) : x \in a.platforms}
  BY ResolveSound
<1>6. /\ IF a = none THEN Fail(q, "not found")
         ELSE IF r.err # "" THEN Fail(q, r.err)
         ELSE /\ agent' = [agent EXCEPT ![q] = a] /\ bundle' = [bundle EXCEPT ![q] = r]
              /\ Goto(q, "compile")
              /\ UNCHANGED <<input, plan, why>>
  BY DEF ResolveAgentBundle
<1> HIDE DEF a, r
<1>7. CASE a = none
  BY <1>6, <1>7, FailRequest
<1>8. CASE a # none /\ r.err # ""
  <2>1. Fail(q, r.err)
    BY <1>6, <1>8
  <2>2. r.err \notin {"agent", "entrypoint"} /\ (r.err = "panic" => input[q].manual # none)
    BY <1>3, <1>4, <1>8
  <2> QED
    BY <2>1, <2>2, FailRequest
<1>9. CASE a # none /\ r.err = ""
  <2>1. \A x \in Requests \ {q} : Same(x)
    BY <1>6, <1>9 DEF Goto, ShapeInv, Same
  <2>2. pc'[q] = "compile" /\ agent'[q] = a /\ bundle'[q] = r /\ UNCHANGED <<input, plan, why>>
    BY <1>6, <1>9 DEF Goto, ShapeInv
  <2>3. RequestOK(q)
    BY DEF RequestInv
  <2>4. Resolved(q)'
    BY <1>2, <1>5, <1>9, <2>2 DEF Resolved
  <2>5. RequestOK(q)'
    BY <1>1, <2>2, <2>3, <2>4 DEF RequestOK
  <2> QED
    BY <2>1, <2>5, OthersKept
<1> QED
  BY <1>7, <1>8, <1>9

LEMMA CompileStep ==
  ASSUME NEW q \in Requests, ShapeInv, RequestInv, CompilePlan(q)
  PROVE  RequestInv'
<1> DEFINE in == input[q]
           pol == normalizePolicy(in.policy)
           profile == IF in.container = none THEN in.profile ELSE rows[in.container].profile
           r == CompileExecutionPlan(agent[q], bundle[q], profile, in.session, in.llm, pol)
<1>1. pc[q] = "compile" /\ RequestOK(q)
  BY DEF CompilePlan, RequestInv
<1>2. Resolved(q)
  BY <1>1 DEF RequestOK
<1>3. r.err \in {"", "auth"}
  BY <1>2, CompileErrors DEF Resolved
<1>4. r.err = "" => /\ r.agent = agent[q].id /\ r.node = profile.node
                    /\ pol.hosted /\ r.terminal => pol.terminal
                    /\ in.llm.key # "" => r.env["KEY"] = in.llm.key
  <2> HIDE DEF profile, pol, in
  <2>1. r.err = "" => Says(r, agent[q], profile, in.llm, pol)
    BY CompileSound
  <2> HIDE DEF r
  <2> QED
    BY <2>1, Zenon DEF Says
<1>5. IF in.container # none /\ in.container \notin DOMAIN rows THEN Fail(q, "not found")
      ELSE IF r.err # "" THEN Fail(q, r.err)
      ELSE /\ plan' = [plan EXCEPT ![q] = r]
           /\ pc' = [pc EXCEPT ![q] = IF in.container = none THEN "list" ELSE "install"]
           /\ UNCHANGED <<input, agent, bundle, why>>
  BY DEF CompilePlan, Goto
<1>6. in.container = none => profile.node = in.profile.node
  OBVIOUS
<1> HIDE DEF r, profile
<1>7. CASE \E err \in {"not found", "auth"} : Fail(q, err)
  <2>1. PICK err \in {"not found", "auth"} : Fail(q, err)
    BY <1>7
  <2> QED
    BY <2>1, FailRequest
<1>8. CASE /\ r.err = "" /\ plan' = [plan EXCEPT ![q] = r]
           /\ pc' = [pc EXCEPT ![q] = IF in.container = none THEN "list" ELSE "install"]
           /\ UNCHANGED <<input, agent, bundle, why>>
  <2>1. \A x \in Requests \ {q} : Same(x)
    BY <1>8 DEF ShapeInv, Same
  <2>2. /\ plan'[q] = r /\ pc'[q] = IF in.container = none THEN "list" ELSE "install"
        /\ UNCHANGED <<input, agent, bundle, why>>
    BY <1>8 DEF ShapeInv
  <2>3. Resolved(q)'
    BY <1>2, <2>2 DEF Resolved
  <2>4. Planned(q)'
    <3>1. plan'[q].agent = agent'[q].id
      BY <1>4, <1>8, <2>2
    <3>2. normalizePolicy(input'[q].policy) = pol
      BY <2>2
    <3>3. pol.hosted /\ plan'[q].terminal => pol.terminal
      BY <1>4, <1>8, <2>2, Zenon
    <3>4. input'[q].llm.key # "" => plan'[q].env["KEY"] = input'[q].llm.key
      BY <1>4, <1>8, <2>2
    <3> HIDE DEF pol
    <3> QED
      BY <3>1, <3>2, <3>3, <3>4, Zenon DEF Planned
  <2>5. pc'[q] = "list" => plan'[q].node = input'[q].profile.node
    <3>1. plan'[q].node = profile.node
      BY <1>4, <1>8, <2>2, Zenon
    <3>2. pc'[q] = "list" => in.container = none
      BY <2>2
    <3>3. input'[q].profile.node = in.profile.node
      BY <2>2
    <3> QED
      BY <1>6, <3>1, <3>2, <3>3, Zenon
  <2>6. RequestOK(q)'
    BY <1>1, <2>2, <2>3, <2>4, <2>5 DEF RequestOK
  <2> QED
    BY <2>1, <2>6, OthersKept
<1> QED
  BY <1>3, <1>5, <1>7, <1>8

LEMMA RequestStep ==
  ASSUME ShapeInv, CatalogInv, RequestInv, [Next]_vars
  PROVE  RequestInv'
<1>1. ASSUME NEW q \in Requests, NEW err \in {"not found", "no capacity", "update"}, Fail(q, err)
      PROVE  RequestInv'
  BY <1>1, FailRequest
<1>2. ASSUME NEW q \in Requests, NEW p \in {"resolve", "pick", "start", "install", "write", "create", "done"},
             pc[q] # "idle", p = "resolve" => pc[q] = "find", pc' = [pc EXCEPT ![q] = p],
             UNCHANGED <<input, agent, bundle, plan, why>>
      PROVE  RequestInv'
  <2>1. \A r \in Requests \ {q} : Same(r)
    BY <1>2 DEF ShapeInv, Same
  <2>2. RequestOK(q) /\ pc'[q] = p
    BY <1>2 DEF RequestInv, ShapeInv
  <2>3. RequestOK(q)'
    BY <1>2, <2>2 DEF RequestOK, Resolved, Planned
  <2> QED
    BY <2>1, <2>3, OthersKept
<1>3. ASSUME NEW q \in Requests, Begin(q)
      PROVE  RequestInv'
  <2>1. \A r \in Requests \ {q} : Same(r)
    BY <1>3 DEF Begin, Goto, ShapeInv, Same
  <2>2. /\ pc[q] = "idle" /\ RequestOK(q) /\ pc'[q] \in {"find", "resolve"}
        /\ UNCHANGED <<plan, why, agent, bundle>>
    BY <1>3 DEF Begin, Goto, RequestInv, ShapeInv
  <2>3. RequestOK(q)'
    BY <2>2, CreationAssumption DEF RequestOK
  <2> QED
    BY <2>1, <2>3, OthersKept
<1>4. ASSUME NEW q \in Requests, FindContainer(q) \/ ListContainers(q) \/ UpdateFails(q)
      PROVE  RequestInv'
  <2>1. CASE FindContainer(q)
    BY <1>1, <1>2, <2>1 DEF FindContainer, local, Goto
  <2>2. CASE ListContainers(q)
    BY <1>1, <1>2, <2>2 DEF ListContainers, Goto
  <2>3. CASE UpdateFails(q)
    BY <1>1, <2>3 DEF UpdateFails
  <2> QED
    BY <1>4, <2>1, <2>2, <2>3
<1>5. ASSUME NEW q \in Requests, PickNode(q) \/ StartContainer(q) \/ InstallAgent(q)
      PROVE  RequestInv'
  <2>1. CASE PickNode(q)
    BY <1>2, <2>1 DEF PickNode, Goto
  <2>2. CASE StartContainer(q)
    BY <1>2, <2>2 DEF StartContainer, Goto
  <2>3. CASE InstallAgent(q)
    BY <1>2, <2>3 DEF InstallAgent, Goto
  <2> QED
    BY <1>5, <2>1, <2>2, <2>3
<1>6. ASSUME NEW q \in Requests, StartContainerLeaves(q)
      PROVE  RequestInv'
  <2>1. \A r \in Requests \ {q} : Same(r)
    BY <1>6 DEF StartContainerLeaves, Goto, ShapeInv, Same
  <2>2. /\ RequestOK(q) /\ pc'[q] = "failed" /\ why'[q] = "update"
        /\ UNCHANGED <<input, agent, bundle, plan>>
    BY <1>6 DEF StartContainerLeaves, Goto, RequestInv, ShapeInv
  <2>3. RequestOK(q)'
    BY <2>2 DEF RequestOK, Resolved, Planned
  <2> QED
    BY <2>1, <2>3, OthersKept
<1>7. ASSUME NEW q \in Requests, NoteDigest(q) \/ CreateSession(q)
      PROVE  RequestInv'
  <2>1. CASE NoteDigest(q)
    BY <1>2, <2>1 DEF NoteDigest, Goto, local
  <2>2. CASE CreateSession(q)
    BY <1>2, <2>2 DEF CreateSession, Goto, local
  <2> QED
    BY <1>7, <2>1, <2>2
<1>8. CASE UNCHANGED <<pc, local>>
  BY <1>8 DEF RequestInv, RequestOK, Resolved, Planned, local
<1> QED
  BY <1>3, <1>4, <1>5, <1>6, <1>7, <1>8, ResolveStep, CompileStep
  DEF Next, Step, vars, local, Sync, SyncEntry, SyncFails, HibernateContainer, DeleteContainer, ContainerLost

-----------------------------------------------------------------------------
(* Requests in flight                                                       *)

\* A step of a request that has begun moves that request only.
LEMMA StepMoves ==
  ASSUME NEW q \in Requests, Step(q), ~Begin(q)
  PROVE  /\ pc[q] \notin {"idle", "done", "failed"} /\ peak' = peak /\ input' = input
         /\ \E p : pc' = [pc EXCEPT ![q] = p]
<1> USE DEF Fail, Goto
<1>1. CASE FindContainer(q)
  BY <1>1 DEF FindContainer, local
<1>2. CASE ResolveAgentBundle(q)
  BY <1>2 DEF ResolveAgentBundle
<1>3. CASE CompilePlan(q)
  BY <1>3 DEF CompilePlan
<1>4. CASE ListContainers(q)
  BY <1>4 DEF ListContainers
<1>5. CASE PickNode(q)
  BY <1>5 DEF PickNode
<1>6. CASE StartContainer(q) \/ StartContainerLeaves(q)
  BY <1>6 DEF StartContainer, StartContainerLeaves
<1>7. CASE UpdateFails(q)
  BY <1>7 DEF UpdateFails
<1>8. CASE InstallAgent(q)
  BY <1>8 DEF InstallAgent
<1>9. CASE NoteDigest(q)
  BY <1>9 DEF NoteDigest, local
<1>10. CASE CreateSession(q)
  BY <1>10 DEF CreateSession, local
<1> QED
  BY <1>1, <1>2, <1>3, <1>4, <1>5, <1>6, <1>7, <1>8, <1>9, <1>10 DEF Step

LEMMA PeakStep ==
  ASSUME ShapeInv, PeakInv, [Next]_vars
  PROVE  PeakInv' /\ peak <= peak'
<1>0. IsFiniteSet(InFlight) /\ Cardinality(InFlight) \in Nat
  BY CreationAssumption, FS_Subset, FS_CardinalityType DEF InFlight
<1>1. ASSUME NEW q \in Requests, Begin(q)
      PROVE  PeakInv' /\ peak <= peak'
  <2>1. InFlight' = InFlight \cup {q} /\ q \notin InFlight
    BY <1>1 DEF Begin, Goto, InFlight, ShapeInv
  <2>2. Cardinality(InFlight') = Cardinality(InFlight) + 1
    BY <1>0, <2>1, FS_AddElement
  <2>3. peak' = IF Cardinality(InFlight) + 1 > peak THEN Cardinality(InFlight) + 1 ELSE peak
    BY <1>1 DEF Begin
  <2> QED
    BY <1>0, <2>2, <2>3 DEF PeakInv
<1>2. ASSUME InFlight' \subseteq InFlight, peak' = peak
      PROVE  PeakInv' /\ peak <= peak'
  <2>1. Cardinality(InFlight') <= Cardinality(InFlight) /\ Cardinality(InFlight') \in Nat
    BY <1>0, <1>2, FS_Subset, FS_CardinalityType
  <2> QED
    BY <1>0, <1>2, <2>1 DEF PeakInv
<1>3. ASSUME NEW q \in Requests, Step(q), ~Begin(q)
      PROVE  InFlight' \subseteq InFlight /\ peak' = peak
  BY <1>3, StepMoves DEF InFlight, ShapeInv
<1>4. ASSUME UNCHANGED <<pc, peak>>
      PROVE  InFlight' \subseteq InFlight /\ peak' = peak
  BY <1>4 DEF InFlight
<1> QED
  <2>1. CASE \E q \in Requests : Step(q)
    BY <1>1, <1>2, <1>3, <2>1
  <2>2. CASE UNCHANGED <<pc, peak>>
    BY <1>2, <1>4, <2>2
  <2> QED
    BY <2>1, <2>2
    DEF Next, vars, Sync, SyncEntry, SyncFails, HibernateContainer, DeleteContainer, ContainerLost

-----------------------------------------------------------------------------
(* The number of ready containers                                           *)

LEMMA Narrower ==
  ASSUME NEW A, NEW B, NEW S, NEW T, IsFiniteSet(A), IsFiniteSet(S), B \subseteq A, T \subseteq S
  PROVE  /\ Cardinality(A) \in Nat /\ Cardinality(B) \in Nat
         /\ Cardinality(S) \in Nat /\ Cardinality(T) \in Nat
         /\ Cardinality(B) <= Cardinality(A) /\ Cardinality(T) <= Cardinality(S)
<1>1. IsFiniteSet(B) /\ Cardinality(B) <= Cardinality(A)
  BY FS_Subset
<1>2. IsFiniteSet(T) /\ Cardinality(T) <= Cardinality(S)
  BY FS_Subset
<1> QED
  BY <1>1, <1>2, FS_CardinalityType

\* As many places are coming as there are writers, at most.
LEMMA ComingBound ==
  ASSUME ShapeInv
  PROVE  IsFiniteSet(Coming) /\ Cardinality(Coming) <= Cardinality(Writing)
<1>1. IsFiniteSet(Writing)
  BY CreationAssumption, FS_Subset DEF Writing
<1> DEFINE f == [q \in Writing |-> place[q]]
<1>2. f \in [Writing -> Coming] /\ \A c \in Coming : \E q \in Writing : f[q] = c
  BY DEF Coming
<1>3. f \in Surjection(Writing, Coming)
  BY <1>2 DEF Surjection
<1> QED
  BY <1>1, <1>3, FS_Surjection

LEMMA SetsFinite ==
  ASSUME ShapeInv, RowsInv
  PROVE  IsFiniteSet(Ready \cup Coming) /\ IsFiniteSet(Starting)
<1>1. IsFiniteSet(Ready)
  BY FS_Subset DEF Ready, RowsInv
<1>2. IsFiniteSet(Ready \cup Coming)
  BY <1>1, ComingBound, FS_Union
<1>3. IsFiniteSet(Starting)
  BY CreationAssumption, FS_Subset DEF Starting
<1> QED
  BY <1>2, <1>3

\* A step that adds neither a ready container nor a request that starts one.
LEMMA BoundKept ==
  ASSUME ShapeInv, RowsInv, PeakInv, BoundInv, Unpinned' => Unpinned,
         (Ready \cup Coming)' \subseteq Ready \cup Coming, Starting' \subseteq Starting,
         peak' \in Nat, peak <= peak'
  PROVE  BoundInv'
<1> DEFINE A == Ready \cup Coming
           B == (Ready \cup Coming)'
<1>1. /\ Cardinality(A) \in Nat /\ Cardinality(B) \in Nat
      /\ Cardinality(Starting) \in Nat /\ Cardinality(Starting') \in Nat
      /\ Cardinality(B) <= Cardinality(A) /\ Cardinality(Starting') <= Cardinality(Starting)
  BY SetsFinite, Narrower
<1>2. Unpinned => Cardinality(A) + Cardinality(Starting) <= peak
  BY DEF BoundInv
<1>3. BoundInv' <=> (Unpinned' => Cardinality(B) + Cardinality(Starting') <= peak')
  BY DEF BoundInv
<1> HIDE DEF A, B
<1> QED
  BY <1>1, <1>2, <1>3 DEF PeakInv

\* A request that goes where it neither writes a row nor starts a container.
LEMMA BoundMoves ==
  ASSUME ShapeInv, RowsInv, PeakInv, BoundInv, NEW q \in Requests, NEW p,
         pc' = [pc EXCEPT ![q] = p], p \notin {"write", "pick", "start"}, UNCHANGED <<rows, copy>>,
         \A r \in Requests \ {q} : place'[r] = place[r],
         Unpinned' => Unpinned, peak' \in Nat, peak <= peak'
  PROVE  BoundInv'
<1>1. Writing' \subseteq Writing \ {q} /\ Starting' \subseteq Starting /\ Ready' = Ready
  BY DEF Writing, Starting, Ready, ShapeInv
<1>2. Coming' \subseteq Coming
  BY <1>1 DEF Coming, Writing
<1> QED
  BY <1>1, <1>2, BoundKept

\* There is no ready container: those that start one and those that write one
\* back are different requests in flight.
LEMMA BoundPick ==
  ASSUME ShapeInv, ShapeInv', RowsInv, PeakInv, RequestInv, BoundInv, NEW q \in Requests,
         pc[q] = "list", Usable(plan[q].node) = {},
         pc' = [pc EXCEPT ![q] = "pick"], UNCHANGED <<rows, copy, place, input, peak>>
  PROVE  BoundInv'
<1>1. SUFFICES ASSUME Unpinned'
               PROVE  Cardinality((Ready \cup Coming)') + Cardinality(Starting') <= peak'
  BY DEF BoundInv
<1>2. plan[q].node = none
  <2>1. plan[q].node = input[q].profile.node
    BY DEF RequestInv, RequestOK
  <2>2. input[q] # none
    BY CreationAssumption DEF ShapeInv
  <2> QED
    BY <1>1, <2>1, <2>2 DEF Unpinned
<1>3. Ready = {} /\ Ready' = {}
  BY <1>2 DEF Usable, Ready
<1>4. /\ Writing' \cap Starting' = {}
      /\ Writing' \cup Starting' \subseteq InFlight
  BY DEF Writing, Starting, InFlight, ShapeInv
<1>5. IsFiniteSet(InFlight) /\ Cardinality(InFlight) \in Nat
  BY CreationAssumption, FS_Subset, FS_CardinalityType DEF InFlight
<1>6. IsFiniteSet(Writing') /\ IsFiniteSet(Starting')
  BY <1>4, <1>5, FS_Subset
<1>7. Cardinality(Writing' \cup Starting') = Cardinality(Writing') + Cardinality(Starting')
  <2>1. Cardinality(Writing' \cap Starting') = 0
    BY <1>4, FS_EmptySet
  <2>2. /\ Cardinality(Writing' \cup Starting') =
             Cardinality(Writing') + Cardinality(Starting') - Cardinality(Writing' \cap Starting')
        /\ Cardinality(Writing') \in Nat /\ Cardinality(Starting') \in Nat
    BY <1>6, FS_Union, FS_CardinalityType
  <2> QED
    BY <2>1, <2>2
<1>8. Cardinality(Writing' \cup Starting') <= Cardinality(InFlight)
  BY <1>4, <1>5, FS_Subset
<1>9. IsFiniteSet(Coming') /\ Cardinality(Coming') <= Cardinality(Writing')
  <2>1. (IsFiniteSet(Coming) /\ Cardinality(Coming) <= Cardinality(Writing))'
    BY ComingBound, CreationAssumption, PTL
  <2> QED
    BY <2>1
<1>10. (Ready \cup Coming)' = Coming'
  BY <1>3
<1>11. Cardinality(Coming') \in Nat /\ Cardinality(Writing') \in Nat /\ Cardinality(Starting') \in Nat
  BY <1>6, <1>9, FS_CardinalityType
<1>12. Cardinality((Ready \cup Coming)') = Cardinality(Coming')
  BY <1>10
<1>13. Cardinality(Coming') + Cardinality(Starting') <= Cardinality(InFlight)
  BY <1>5, <1>7, <1>8, <1>9, <1>11
<1>14. Cardinality(Coming') + Cardinality(Starting') <= peak'
  BY <1>5, <1>11, <1>13 DEF PeakInv
<1> QED
  BY <1>12, <1>14

\* A request that has started its container.
LEMMA BoundStarted ==
  ASSUME ShapeInv, RowsInv, PeakInv, BoundInv, NEW q \in Requests, NEW p \in {"install", "failed"},
         pc[q] = "start", Started(q, NewID), pc' = [pc EXCEPT ![q] = p], UNCHANGED <<copy, input, peak>>,
         \A r \in Requests \ {q} : place'[r] = place[r]
  PROVE  BoundInv'
<1> DEFINE A == Ready \cup Coming
           B == (Ready \cup Coming)'
<1>1. Ready' = Ready \cup {NewID}
  BY StartedRows DEF Ready
<1>2. Writing' = Writing /\ q \notin Writing /\ Starting' = Starting \ {q} /\ q \in Starting
  BY DEF Writing, Starting, ShapeInv
<1>3. Coming' = Coming
  <2>1. \A r \in Writing : r \in Requests \ {q}
    BY <1>2 DEF Writing
  <2> QED
    BY <1>2, <2>1 DEF Coming
<1>4. B = A \cup {NewID} /\ (Unpinned' <=> Unpinned)
  BY <1>1, <1>3 DEF Unpinned
<1>5. IsFiniteSet(A) /\ IsFiniteSet(Starting)
  BY SetsFinite
<1>6. Unpinned => Cardinality(A) + Cardinality(Starting) <= peak
  BY DEF BoundInv
<1>7. BoundInv' <=> (Unpinned' => Cardinality(B) + Cardinality(Starting') <= peak')
  BY DEF BoundInv
<1> HIDE DEF A, B
<1>8. Cardinality(A) \in Nat /\ Cardinality(Starting) \in Nat
  BY <1>5, FS_CardinalityType
<1>9. Cardinality(B) \in {Cardinality(A), Cardinality(A) + 1}
  BY <1>4, <1>5, FS_AddElement
<1>10. Cardinality(Starting') = Cardinality(Starting) - 1
  BY <1>2, <1>5, FS_RemoveElement
<1> QED
  BY <1>4, <1>6, <1>7, <1>8, <1>9, <1>10 DEF PeakInv

LEMMA BoundStep ==
  ASSUME ShapeInv, ShapeInv', RowsInv, RequestInv, PeakInv, BoundInv, [Next]_vars
  PROVE  BoundInv'
<1>0. peak \in Nat /\ peak <= peak' /\ peak' \in Nat /\ pc \in [Requests -> Places]
  BY PeakStep DEF PeakInv, ShapeInv
<1>1. ASSUME NEW q \in Requests, NEW p, pc' = [pc EXCEPT ![q] = p], p \notin {"write", "pick", "start"},
             UNCHANGED <<rows, copy, input>>, \A r \in Requests \ {q} : place'[r] = place[r]
      PROVE  BoundInv'
  <2>1. Unpinned' => Unpinned
    BY <1>1 DEF Unpinned
  <2> QED
    BY <1>0, <1>1, <2>1, BoundMoves
<1>2. ASSUME NEW q \in Requests, NEW err, Fail(q, err)
      PROVE  BoundInv'
  BY <1>1, <1>2 DEF Fail, Goto
<1>3. ASSUME NEW q \in Requests, Begin(q)
      PROVE  BoundInv'
  <2>1. Unpinned' => Unpinned
    BY <1>3 DEF Begin, Unpinned, ShapeInv
  <2>2. PICK p \in {"find", "resolve"} : pc' = [pc EXCEPT ![q] = p]
    BY <1>3 DEF Begin, Goto
  <2>3. UNCHANGED <<rows, copy, place>>
    BY <1>3 DEF Begin
  <2> QED
    BY <1>0, <2>1, <2>2, <2>3, BoundMoves
<1>4. ASSUME NEW q \in Requests, FindContainer(q) \/ ResolveAgentBundle(q) \/ CreateSession(q)
      PROVE  BoundInv'
  <2>1. CASE FindContainer(q)
    BY <1>1, <1>2, <2>1 DEF FindContainer, Goto, local
  <2>2. CASE ResolveAgentBundle(q)
    BY <1>1, <1>2, <2>2 DEF ResolveAgentBundle, Goto
  <2>3. CASE CreateSession(q)
    BY <1>1, <2>3 DEF CreateSession, Goto, local
  <2> QED
    BY <1>4, <2>1, <2>2, <2>3
<1>5. ASSUME NEW q \in Requests, CompilePlan(q)
      PROVE  BoundInv'
  <2>1. CASE \E err : Fail(q, err)
    BY <1>2, <2>1
  <2>2. CASE ~(\E err : Fail(q, err))
    <3>1. /\ \E p \in {"list", "install"} : pc' = [pc EXCEPT ![q] = p]
          /\ UNCHANGED <<rows, copy, input>> /\ place' = [place EXCEPT ![q] = input[q].container]
      BY <1>5, <2>2 DEF CompilePlan, Goto
    <3>2. \A r \in Requests \ {q} : place'[r] = place[r]
      BY <3>1 DEF ShapeInv
    <3> QED
      BY <1>1, <3>1, <3>2
  <2> QED
    BY <2>1, <2>2
<1>6. ASSUME NEW q \in Requests, ListContainers(q)
      PROVE  BoundInv'
  <2>1. CASE Fail(q, "no capacity")
    BY <1>2, <2>1
  <2>2. CASE ~Fail(q, "no capacity")
    <3>1. /\ pc[q] = "list" /\ UNCHANGED <<rows, copy, input, peak>>
          /\ \/ /\ Usable(plan[q].node) = {} /\ pc' = [pc EXCEPT ![q] = "pick"] /\ UNCHANGED place
             \/ \E c : place' = [place EXCEPT ![q] = c] /\ pc' = [pc EXCEPT ![q] = "install"]
      BY <1>6, <2>2 DEF ListContainers, Goto
    <3>2. CASE UNCHANGED place /\ Usable(plan[q].node) = {} /\ pc' = [pc EXCEPT ![q] = "pick"]
      BY <3>1, <3>2, BoundPick
    <3>3. CASE \E c : place' = [place EXCEPT ![q] = c] /\ pc' = [pc EXCEPT ![q] = "install"]
      <4>1. \A r \in Requests \ {q} : place'[r] = place[r]
        BY <3>3 DEF ShapeInv
      <4> QED
        BY <1>1, <3>1, <3>3, <4>1
    <3> QED
      BY <3>1, <3>2, <3>3
  <2> QED
    BY <2>1, <2>2
<1>7. ASSUME NEW q \in Requests, PickNode(q)
      PROVE  BoundInv'
  <2>1. pc[q] = "pick" /\ pc' = [pc EXCEPT ![q] = "start"] /\ UNCHANGED <<rows, copy, place, input>>
    BY <1>7 DEF PickNode, Goto
  <2>2. Ready' = Ready /\ Writing' = Writing /\ Starting' = Starting /\ (Unpinned' <=> Unpinned)
    BY <1>0, <2>1 DEF Ready, Writing, Starting, Unpinned
  <2>3. Coming' = Coming
    BY <2>1, <2>2 DEF Coming
  <2> QED
    BY <1>0, <2>2, <2>3, BoundKept
<1>8. ASSUME NEW q \in Requests, StartContainer(q) \/ StartContainerLeaves(q)
      PROVE  BoundInv'
  <2>1. /\ pc[q] = "start" /\ Started(q, NewID) /\ UNCHANGED <<copy, input, peak>>
        /\ \E p \in {"install", "failed"} : pc' = [pc EXCEPT ![q] = p]
        /\ place' = [place EXCEPT ![q] = NewID] \/ UNCHANGED place
    BY <1>8 DEF StartContainer, StartContainerLeaves, Goto
  <2>2. \A r \in Requests \ {q} : place'[r] = place[r]
    BY <2>1 DEF ShapeInv
  <2> QED
    BY <2>1, <2>2, BoundStarted
<1>9. ASSUME NEW q \in Requests, UpdateFails(q)
      PROVE  BoundInv'
  BY <1>2, <1>9 DEF UpdateFails
<1>10. ASSUME NEW q \in Requests, InstallAgent(q)
       PROVE  BoundInv'
  <2>1. /\ pc' = [pc EXCEPT ![q] = "write"] /\ copy' = [copy EXCEPT ![q] = rows[place[q]]]
        /\ UNCHANGED <<rows, place, input>> /\ place[q] \in DOMAIN rows
    BY <1>10 DEF InstallAgent, Goto, RowsInv
  <2>2. /\ Ready' = Ready /\ Starting' \subseteq Starting /\ (Unpinned' <=> Unpinned)
        /\ \A r \in Writing' : r \in Writing \/ (r = q /\ place[q] \in Ready)
    BY <2>1 DEF Ready, Writing, Starting, Unpinned, ShapeInv
  <2>3. Coming' \subseteq Ready \cup Coming
    BY <2>1, <2>2 DEF Coming
  <2> QED
    BY <1>0, <2>2, <2>3, BoundKept
<1>11. ASSUME NEW q \in Requests, NoteDigest(q)
       PROVE  BoundInv'
  <2>1. /\ pc[q] = "write" /\ UNCHANGED <<place, input, copy>>
        /\ rows' = [rows EXCEPT ![place[q]] = copy[q]] \/ UNCHANGED rows
        /\ \E p \in {"done", "create"} : pc' = [pc EXCEPT ![q] = p]
    BY <1>11 DEF NoteDigest, Goto, local
  <2>2. /\ Writing' \subseteq Writing /\ Starting' \subseteq Starting /\ (Unpinned' <=> Unpinned)
        /\ \A c \in Ready' : c \in Ready \/ (c = place[q] /\ q \in Writing)
    BY <2>1 DEF Ready, Writing, Starting, Unpinned, ShapeInv
  <2>3. Coming' \subseteq Coming /\ Ready' \subseteq Ready \cup Coming
    BY <2>1, <2>2 DEF Coming
  <2> QED
    BY <1>0, <2>2, <2>3, BoundKept
<1>12. ASSUME UNCHANGED <<pc, local>>, Ready' \subseteq Ready
       PROVE  BoundInv'
  <2>1. Coming' = Coming /\ Starting' = Starting /\ (Unpinned' <=> Unpinned)
    BY <1>12 DEF Coming, Writing, Starting, Unpinned, local
  <2> QED
    BY <1>0, <1>12, <2>1, BoundKept
<1>13. ASSUME NEW c \in Containers, HibernateContainer(c) \/ DeleteContainer(c)
       PROVE  BoundInv'
  <2>1. PICK s \in {"hibernating", "deleted"} : c \in alive /\ rows' = [rows EXCEPT ![c].state = s]
    BY <1>13 DEF HibernateContainer, DeleteContainer, SetState
  <2>2. Ready' \subseteq Ready
    BY <2>1 DEF Ready, RowsInv, IsRow
  <2>3. UNCHANGED <<pc, local>>
    BY <1>13 DEF HibernateContainer, DeleteContainer
  <2> QED
    BY <1>12, <2>2, <2>3
<1>14. CASE UNCHANGED <<pc, local, rows>>
  <2>1. Ready' = Ready
    BY <1>14 DEF Ready
  <2> QED
    BY <1>12, <1>14, <2>1
<1> QED
  <2>1. CASE \E q \in Requests : Step(q)
    BY <1>3, <1>4, <1>5, <1>6, <1>7, <1>8, <1>9, <1>10, <1>11, <2>1 DEF Step
  <2>2. CASE UNCHANGED vars
    BY <1>14, <2>2 DEF vars, local
  <2> QED
    BY <1>13, <1>14, <2>1, <2>2 DEF Next, Sync, SyncEntry, SyncFails, ContainerLost

-----------------------------------------------------------------------------
(* The invariant, and what follows from it                                  *)

LEMMA CreationInit ==
  ASSUME Init
  PROVE  CreationInv
<1>1. ShapeInv
  BY DEF Init, ShapeInv, Places
<1>2. CatalogInv
  BY DEF Init, CatalogInv
<1>3. RowsInv
  BY FS_EmptySet DEF Init, RowsInv
<1>4. RequestInv
  BY CreationAssumption DEF Init, RequestInv, RequestOK
<1>5. InFlight = {} /\ Ready = {} /\ Writing = {} /\ Starting = {} /\ Cardinality({}) = 0 /\ peak = 0
  BY FS_EmptySet DEF Init, InFlight, Ready, Writing, Starting
<1>6. PeakInv
  BY <1>5 DEF PeakInv
<1>7. Ready \cup Coming = {}
  BY <1>5 DEF Coming
<1>8. BoundInv
  BY <1>5, <1>7 DEF BoundInv
<1> QED
  BY <1>1, <1>2, <1>3, <1>4, <1>6, <1>8 DEF CreationInv

\* The inductive invariant of session creation.
THEOREM CreationInvariant == Spec => []CreationInv
<1>1. Init => CreationInv
  BY CreationInit
<1>2. CreationInv /\ [Next]_vars => CreationInv'
  <2> SUFFICES ASSUME CreationInv, [Next]_vars
               PROVE  CreationInv'
    OBVIOUS
  <2>1. ShapeInv /\ CatalogInv /\ RowsInv /\ RequestInv /\ PeakInv /\ BoundInv
    BY DEF CreationInv
  <2>2. ShapeInv'
    BY <2>1, ShapeStep
  <2>3. CatalogInv'
    BY <2>1, CatalogStep
  <2>4. RowsInv'
    BY <2>1, RowsStep
  <2>5. RequestInv'
    BY <2>1, RequestStep
  <2>6. PeakInv'
    BY <2>1, PeakStep
  <2>7. BoundInv'
    BY <2>1, <2>2, BoundStep
  <2> QED
    BY <2>2, <2>3, <2>4, <2>5, <2>6, <2>7 DEF CreationInv
<1> QED
  BY <1>1, <1>2, PTL DEF Spec

\* The catalog is keyed by its agents' IDs, the rows have known containers and
\* states, and a request that was placed has a container.
THEOREM CreationTyped == Spec => []TypeOK
<1>1. CreationInv => TypeOK
  BY DEF CreationInv, ShapeInv, CatalogInv, RowsInv, IsRow, States, TypeOK
<1> QED
  BY <1>1, CreationInvariant, PTL

\* Registry agents never bring the resolver down, whatever documents are synced
\* meanwhile, and every plan that is compiled can be run, for a platform of its
\* agent, within its policy and with the key of its LLM profile.
THEOREM PlansSound == Spec => []PlanSound
<1>1. CreationInv => PlanSound
  <2> SUFFICES ASSUME CreationInv, NEW q \in Requests
               PROVE  /\ why[q] = "panic" => input[q].manual # none
                      /\ why[q] \notin {"agent", "entrypoint"}
                      /\ plan[q] # none => Resolved(q) /\ Planned(q)
    BY Zenon DEF PlanSound, Resolved, Planned
  <2> QED
    BY DEF CreationInv, RequestInv, RequestOK
<1> QED
  BY <1>1, CreationInvariant, PTL

\* As long as no request asks for a node, at most as many containers are ready as
\* requests were in flight at one time, for any number of requests.
THEOREM ContainersReused == Spec => []ContainersBounded
<1>1. CreationInv => ContainersBounded
  <2> SUFFICES ASSUME CreationInv, Unpinned
               PROVE  Cardinality(Ready) <= peak
    BY DEF ContainersBounded, Unpinned, Ready
  <2>1. IsFiniteSet(Ready \cup Coming) /\ IsFiniteSet(Starting) /\ Ready \subseteq Ready \cup Coming
    BY SetsFinite DEF CreationInv
  <2> DEFINE A == Ready \cup Coming
  <2>2. Cardinality(A) + Cardinality(Starting) <= peak /\ peak \in Nat
    BY DEF CreationInv, BoundInv, PeakInv
  <2>3. IsFiniteSet(A) /\ Ready \subseteq A
    BY <2>1
  <2> HIDE DEF A
  <2>4. /\ Cardinality(A) \in Nat /\ Cardinality(Ready) \in Nat /\ Cardinality(Starting) \in Nat
        /\ Cardinality(Ready) <= Cardinality(A)
    BY <2>1, <2>3, Narrower
  <2> QED
    BY <2>2, <2>4
<1> QED
  BY <1>1, CreationInvariant, PTL
=============================================================================
