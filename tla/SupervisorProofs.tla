-------------------------- MODULE SupervisorProofs --------------------------
(***************************************************************************)
(* Proofs about the supervisors alone, for any number of managers, keys    *)
(* and calls, and any requests: module NodeRunnerProofs shows that a node  *)
(* is one way of making these requests.                                    *)
(*                                                                         *)
(* SupInv adds what a handle is known to be at each place it can be found  *)
(* in: being registered, in the maps, in an answer, in a session.          *)
(***************************************************************************)
EXTENDS Supervisor, TLAPS

\* The agent answered initialize and its updates are routed.
Complete(a) == a \in handler /\ instance[a] # "none"

\* An agent in a map is the work of an EnsureAgent that has ended there.
MapsSound ==
  \A m \in Managers, k \in Keys : agents[m][k] # None =>
    LET a == agents[m][k] IN agentKey[a] = k /\ at[a] = m /\ pc[a] = "done" /\ Complete(a)

EnsuresSound ==
  \A e \in Ensures :
    /\ pc[e] # "idle" => at[e] \in Managers
    /\ pc[e] \in {"idle", "start"} => proc[e] = "none"
    /\ pc[e] = "register" => Complete(e)
    /\ pc[e] = "done" => agent[e] # None /\ agents[at[e]][agentKey[e]] # None
    /\ agent[e] # None => Complete(agent[e])

\* A session call past its lookup, and a session, have an agent whose key is taken.
OpensSound ==
  \A o \in Opens : opc[o] \in {"call", "store"} =>
    /\ oat[o] \in Managers /\ target[o] \in Ensures /\ session[o] \in SessionIDs
    /\ Complete(target[o]) /\ agents[oat[o]][agentKey[target[o]]] # None

SessionsSound ==
  \A m \in Managers, s \in SessionIDs : sessions[m][s] # None =>
    Complete(sessions[m][s]) /\ agents[m][agentKey[sessions[m][s]]] # None

SupInv == SupTypeOK /\ MapsSound /\ EnsuresSound /\ OpensSound /\ SessionsSound /\ NoStrayProcess

-----------------------------------------------------------------------------
\* The three properties follow from the invariant.
LEMMA SupInvImplies ==
  SupInv => SessionsAreRouted /\ NoStrayProcess /\ OnlyReplacedSessionsLost
<1> SUFFICES ASSUME SupInv PROVE SessionsAreRouted /\ NoStrayProcess /\ OnlyReplacedSessionsLost
  OBVIOUS
<1>1. SessionsAreRouted /\ NoStrayProcess
  BY SMTT(30) DEF SupInv, SessionsSound, Complete, SessionsAreRouted
<1>2. OnlyReplacedSessionsLost
  <2> SUFFICES ASSUME NEW m \in Managers, NEW s \in SessionIDs, sessions[m][s] # None,
                      ~sessionAgent(m, s)
               PROVE  \E e \in Ensures \ {sessions[m][s]} :
                        agentKey[e] = agentKey[sessions[m][s]] /\ agents[m][agentKey[e]] = e
    BY DEF OnlyReplacedSessionsLost
  <2>1. sessions[m][s] \in Ensures
    BY DEF SupInv, SupTypeOK
  <2>2. PICK k \in Keys : k = agentKey[sessions[m][s]]
    BY <2>1, SupervisorAssumption
  <2>3. PICK e \in Ensures : e = agents[m][k]
    BY <2>2 DEF SupInv, SupTypeOK, SessionsSound
  <2>4. agentKey[e] = k
    BY <2>3, SupervisorAssumption DEF SupInv, MapsSound
  <2>5. e # sessions[m][s]
    BY <2>3 DEF sessionAgent, agentByID
  <2> QED
    BY <2>2, <2>3, <2>4, <2>5
<1> QED
  BY <1>1, <1>2

LEMMA SupInitInv == SupInit => SupInv
<1> SUFFICES ASSUME SupInit PROVE SupInv
  OBVIOUS
<1> USE SupervisorAssumption DEF SupInit
<1>1. SupTypeOK
  BY DEF SupTypeOK
<1>2. MapsSound /\ EnsuresSound /\ OpensSound /\ SessionsSound /\ NoStrayProcess
  BY DEF MapsSound, EnsuresSound, OpensSound, SessionsSound, NoStrayProcess
<1> QED
  BY <1>1, <1>2 DEF SupInv

-----------------------------------------------------------------------------
(* One lemma for each step.                                                *)

LEMMA EnsureLookupInv ==
  ASSUME SupInv, NEW e \in Ensures, NEW m \in Managers, EnsureLookup(e, m)
  PROVE  SupInv'
<1> USE SupervisorAssumption DEF SupInv, EnsureLookup, openVars, Goto, Respond
<1>0. agentKey[e] \in Keys /\ agents[m][agentKey[e]] \in Ensures \cup {None}
  <2>1. agentKey[e] \in Keys
    BY Zenon
  <2>2. agents \in [Managers -> [Keys -> Ensures \cup {None}]]
    BY DEF SupTypeOK
  <2> QED
    BY <2>1, <2>2 DEF EnsureLookup
<1>1. SupTypeOK'
  BY <1>0, ZenonT(40) DEF SupTypeOK
<1>2. MapsSound'
  BY DEF MapsSound, SupTypeOK, Complete
<1>3. EnsuresSound'
  BY <1>0 DEF EnsuresSound, MapsSound, SupTypeOK, Complete
<1>4. OpensSound' /\ SessionsSound'
  BY DEF OpensSound, SessionsSound, Complete
<1>5. NoStrayProcess'
  BY DEF NoStrayProcess, EnsuresSound, SupTypeOK
<1> QED
  BY <1>1, <1>2, <1>3, <1>4, <1>5

\* The steps of a process that is not in any map yet.
LEMMA EnsureStartInv ==
  ASSUME SupInv, NEW e \in Ensures, EnsureStart(e) \/ EnsureInitFails(e)
  PROVE  SupInv'
<1> USE SupervisorAssumption DEF SupInv, openVars, Goto
<1>0. UNCHANGED <<at, agent, instance, handler, agents, opc, oat, target, session, sessions>>
  BY DEF EnsureStart, EnsureInitFails
<1>1. pc[e] \in {"start", "initialize"} /\ pc'[e] \in {"initialize", "error"}
      /\ pc' \in [Ensures -> {"idle", "start", "initialize", "register", "done", "error"}]
      /\ proc' \in [Ensures -> {"none", "up", "exited", "killed"}]
      /\ \A a \in Ensures \ {e} : pc'[a] = pc[a] /\ proc'[a] = proc[a]
  <2>1. CASE EnsureStart(e)
    <3>1. CASE Goto(e, "initialize") /\ proc' = [proc EXCEPT ![e] = "up"]
      BY <2>1, <3>1, SMTT(30) DEF EnsureStart, SupTypeOK
    <3>2. CASE Goto(e, "error") /\ UNCHANGED proc
      BY <2>1, <3>2, SMTT(30) DEF EnsureStart, SupTypeOK
    <3> QED
      BY <2>1, <3>1, <3>2 DEF EnsureStart
  <2>2. CASE EnsureInitFails(e)
    BY <2>2, SMTT(30) DEF EnsureInitFails, SupTypeOK
  <2> QED
    BY <2>1, <2>2
<1>2. SupTypeOK'
  BY <1>0, <1>1, SMTT(30) DEF SupTypeOK
<1>3. MapsSound' /\ EnsuresSound' /\ OpensSound' /\ SessionsSound'
  BY <1>0, <1>1 DEF MapsSound, EnsuresSound, OpensSound, SessionsSound, Complete, SupTypeOK
<1>4. NoStrayProcess'
  BY <1>0, <1>1, SMTT(30) DEF NoStrayProcess, EnsuresSound, EnsureStart, EnsureInitFails, SupTypeOK
<1> QED
  BY <1>2, <1>3, <1>4

LEMMA EnsureInitializedInv ==
  ASSUME SupInv, NEW e \in Ensures, EnsureInitialized(e)
  PROVE  SupInv'
<1> USE SupervisorAssumption DEF SupInv, EnsureInitialized, openVars, Goto
<1>1. SupTypeOK'
  BY DEF SupTypeOK
<1>2. \A a \in Ensures : Complete(a) \/ a = e => Complete(a)'
  BY DEF Complete, SupTypeOK
<1>3. MapsSound'
  BY <1>2 DEF MapsSound, SupTypeOK
<1>4. EnsuresSound'
  BY <1>2 DEF EnsuresSound, SupTypeOK
<1>5. OpensSound' /\ SessionsSound'
  BY <1>2 DEF OpensSound, SessionsSound, SupTypeOK
<1>6. NoStrayProcess'
  BY DEF NoStrayProcess, SupTypeOK
<1> QED
  BY <1>1, <1>3, <1>4, <1>5, <1>6

LEMMA EnsureRegisterInv ==
  ASSUME SupInv, NEW e \in Ensures, EnsureRegister(e)
  PROVE  SupInv'
<1> USE SupervisorAssumption DEF SupInv, EnsureRegister, openVars, Goto, Respond
<1>1. at[e] \in Managers /\ agentKey[e] \in Keys /\ Complete(e)
  BY DEF EnsuresSound
<1>2. \A m \in Managers, k \in Keys :
        agents'[m][k] = IF m = at[e] /\ k = agentKey[e] THEN e ELSE agents[m][k]
  BY <1>1 DEF SupTypeOK
<1>3. agents' \in [Managers -> [Keys -> Ensures \cup {None}]]
  BY <1>1 DEF SupTypeOK
<1>4. SupTypeOK'
  BY <1>3 DEF SupTypeOK
<1>5. \A a \in Ensures : Complete(a) <=> Complete(a)'
  BY DEF Complete
<1>6. MapsSound'
  BY <1>1, <1>2, <1>5 DEF MapsSound, SupTypeOK
<1>7. EnsuresSound'
  BY <1>1, <1>2, <1>5 DEF EnsuresSound, SupTypeOK
<1>8. OpensSound'
  BY <1>2, <1>5, SMTT(30) DEF OpensSound
<1>9. SessionsSound'
  BY <1>2, <1>5 DEF SessionsSound, SupTypeOK
<1>10. NoStrayProcess'
  BY DEF NoStrayProcess, SupTypeOK
<1> QED
  BY <1>4, <1>6, <1>7, <1>8, <1>9, <1>10

LEMMA AgentInv ==
  ASSUME SupInv, NEW e \in Ensures, AgentExit(e) \/ Wait(e)
  PROVE  SupInv'
<1> USE SupervisorAssumption DEF SupInv, openVars, ensureVars
<1>0. UNCHANGED <<pc, at, agent, handler, agents, opc, oat, target, session, sessions>>
  BY DEF AgentExit, Wait
<1>1. SupTypeOK'
  BY <1>0 DEF SupTypeOK, AgentExit, Wait
<1>2. \A a \in Ensures : /\ instance[a] # "none" => instance'[a] # "none"
                         /\ proc[a] = "none" => proc'[a] = "none"
                         /\ proc'[a] = "up" => proc[a] = "up"
  BY DEF SupTypeOK, AgentExit, Wait
<1>3. \A a \in Ensures : Complete(a) => Complete(a)'
  BY <1>0, <1>2 DEF Complete
<1>4. MapsSound' /\ SessionsSound'
  BY <1>0, <1>3, SMTT(30) DEF MapsSound, SessionsSound, SupTypeOK
<1>5. EnsuresSound' /\ OpensSound'
  BY <1>0, <1>2, <1>3, SMTT(30) DEF EnsuresSound, OpensSound, SupTypeOK
<1>6. NoStrayProcess'
  BY <1>0, <1>2 DEF NoStrayProcess
<1> QED
  BY <1>1, <1>4, <1>5, <1>6

LEMMA OpenInv ==
  ASSUME SupInv, NEW o \in Opens,
         \/ \E m \in Managers, a \in Ensures, s \in SessionIDs : OpenLookup(o, m, a, s)
         \/ OpenStep(o)
  PROVE  SupInv'
<1> USE SupervisorAssumption DEF SupInv, OpenStep, ensureVars, OGoto
<1>0. UNCHANGED <<pc, at, agent, proc, instance, handler, agents>>
  BY SMTT(30) DEF OpenLookup, OpenCall, OpenStore
<1>1. MapsSound' /\ EnsuresSound' /\ NoStrayProcess'
  BY <1>0, SMTT(30) DEF MapsSound, EnsuresSound, NoStrayProcess, Complete
<1>2. ASSUME NEW m \in Managers, NEW a \in Ensures, NEW s \in SessionIDs, OpenLookup(o, m, a, s)
      PROVE  SupTypeOK' /\ OpensSound' /\ SessionsSound'
  <2> USE <1>2 DEF OpenLookup
  <2>1. SupTypeOK'
    BY SMTT(30) DEF SupTypeOK
  <2>2. Complete(a)
    BY SMTT(30) DEF EnsuresSound
  <2>3. agentByID(m, a) => agents[m][agentKey[a]] # None
    BY SMTT(30) DEF agentByID, MapsSound
  <2>4. OpensSound'
    BY <2>2, <2>3, SMTT(30) DEF OpensSound, SupTypeOK, Complete
  <2> QED
    BY <2>1, <2>4 DEF SessionsSound, Complete
<1>3. ASSUME OpenCall(o)
      PROVE  SupTypeOK' /\ OpensSound' /\ SessionsSound'
  BY <1>3, ZenonT(40) DEF OpenCall, SupTypeOK, OpensSound, SessionsSound, Complete
<1>4. ASSUME OpenStore(o)
      PROVE  SupTypeOK' /\ OpensSound' /\ SessionsSound'
  <2> USE <1>4 DEF OpenStore
  <2>1. oat[o] \in Managers /\ target[o] \in Ensures /\ session[o] \in SessionIDs
    BY DEF OpensSound
  <2>2. sessions' \in [Managers -> [SessionIDs -> Ensures \cup {None}]]
    BY <2>1 DEF SupTypeOK
  <2>3. \A m \in Managers, s \in SessionIDs :
          sessions'[m][s] = IF m = oat[o] /\ s = session[o] THEN target[o] ELSE sessions[m][s]
    BY <2>1 DEF SupTypeOK
  <2>4. SupTypeOK'
    BY <2>2 DEF SupTypeOK
  <2>5. SessionsSound'
    BY <1>0, <2>3 DEF SessionsSound, OpensSound, Complete
  <2>6. OpensSound'
    BY DEF OpensSound, Complete, SupTypeOK
  <2> QED
    BY <2>4, <2>5, <2>6
<1> QED
  BY <1>1, <1>2, <1>3, <1>4

LEMMA SupStepInv == SupInv /\ [SupNext]_svars => SupInv'
<1> SUFFICES ASSUME SupInv, [SupNext]_svars PROVE SupInv'
  OBVIOUS
<1>1. CASE UNCHANGED svars
  BY <1>1 DEF svars, SupInv, SupTypeOK, MapsSound, EnsuresSound, OpensSound, SessionsSound,
              NoStrayProcess, Complete
<1>2. CASE SupNext
  BY <1>2, EnsureLookupInv, EnsureStartInv, EnsureInitializedInv, EnsureRegisterInv, AgentInv,
     OpenInv DEF SupNext, Inside, EnsureStep
<1> QED
  BY <1>1, <1>2

\* Every supervisor's sessions are routed and are lost only to a replacement, and no
\* failed call leaves a process, for any number of managers, agents and calls.
THEOREM SupervisorsCorrect ==
  SupSpec => [](SessionsAreRouted /\ NoStrayProcess /\ OnlyReplacedSessionsLost)
BY SupInitInv, SupStepInv, SupInvImplies, PTL DEF SupSpec

\* A supervisor finds the agent of every session it holds, unless another EnsureAgent
\* for the same agent and bundle has taken that agent's place in its map.
THEOREM SessionsLostToReplacement == SupSpec => []OnlyReplacedSessionsLost
BY SupervisorsCorrect, PTL

\* A process past its initialize has a wait goroutine that has not ended before it:
\* its instance says ready, or exited once the process has exited.
Watched ==
  \A e \in Ensures :
    /\ proc[e] \in {"up", "exited"} /\ pc[e] \in {"register", "done"} => instance[e] # "none"
    /\ instance[e] = "exited" => proc[e] = "exited"
    /\ instance[e] # "none" => proc[e] # "killed" /\ pc[e] \in {"register", "done"}

\* No agent that was made ready exits unseen, and none is reported exited while it
\* runs: the safety half of ExitIsNoticed, for any number of agents and calls.
THEOREM ExitsWatched == SupSpec => []Watched
<1>1. SupInit => Watched
  BY DEF SupInit, Watched
<1>2. ASSUME SupInv, Watched, [SupNext]_svars PROVE Watched'
  <2>0. /\ pc \in [Ensures -> {"idle", "start", "initialize", "register", "done", "error"}]
        /\ proc \in [Ensures -> {"none", "up", "exited", "killed"}]
        /\ instance \in [Ensures -> {"none", "ready", "exited"}]
        /\ \A e \in Ensures : pc[e] \in {"idle", "start"} => proc[e] = "none"
    BY <1>2 DEF SupInv, SupTypeOK, EnsuresSound
  <2>1. ASSUME NEW e \in Ensures, NEW m \in Managers, EnsureLookup(e, m) PROVE Watched'
    <3>1. /\ pc[e] = "idle" /\ UNCHANGED <<proc, instance>>
          /\ \E l \in {"done", "start"} : pc' = [pc EXCEPT ![e] = l]
      BY <2>1 DEF EnsureLookup, Respond, Goto
    <3> QED
      BY <1>2, <2>0, <3>1 DEF Watched
  <2>2. ASSUME NEW e \in Ensures, EnsureStart(e) PROVE Watched'
    <3>1. /\ pc[e] = "start" /\ UNCHANGED instance
          /\ \E l \in {"initialize", "error"} : pc' = [pc EXCEPT ![e] = l]
          /\ proc' = proc \/ proc' = [proc EXCEPT ![e] = "up"]
      BY <2>2 DEF EnsureStart, Goto
    <3> QED
      BY <1>2, <2>0, <3>1 DEF Watched
  <2>3. ASSUME NEW e \in Ensures, EnsureInitialized(e) PROVE Watched'
    BY <1>2, <2>0, <2>3 DEF Watched, EnsureInitialized, Goto
  <2>4. ASSUME NEW e \in Ensures, EnsureInitFails(e) PROVE Watched'
    BY <1>2, <2>0, <2>4 DEF Watched, EnsureInitFails, Goto
  <2>5. ASSUME NEW e \in Ensures, EnsureRegister(e) PROVE Watched'
    <3>1. pc[e] = "register" /\ UNCHANGED <<proc, instance>> /\ pc' = [pc EXCEPT ![e] = "done"]
      BY <2>5 DEF EnsureRegister, Respond, Goto
    <3> QED
      BY <1>2, <2>0, <3>1 DEF Watched
  <2>6. ASSUME NEW e \in Ensures, AgentExit(e) \/ Wait(e) PROVE Watched'
    BY <1>2, <2>0, <2>6 DEF Watched, AgentExit, Wait, ensureVars
  <2>7. CASE UNCHANGED <<pc, proc, instance>>
    BY <1>2, <2>7 DEF Watched
  <2>8. ASSUME NEW o \in Opens, OpenStep(o) \/ \E m \in Managers, a \in Ensures, s \in SessionIDs : OpenLookup(o, m, a, s)
        PROVE  UNCHANGED <<pc, proc, instance>>
    BY <2>8 DEF OpenStep, OpenCall, OpenStore, OpenLookup, ensureVars
  <2>9. CASE UNCHANGED svars
    BY <2>7, <2>9 DEF svars
  <2> QED
    BY <1>2, <2>1, <2>2, <2>3, <2>4, <2>5, <2>6, <2>7, <2>8, <2>9 DEF SupNext, Inside, EnsureStep
<1> QED
  BY <1>1, <1>2, SupInitInv, SupStepInv, PTL DEF SupSpec

=============================================================================
