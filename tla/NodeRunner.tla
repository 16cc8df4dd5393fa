----------------------------- MODULE NodeRunner -----------------------------
(***************************************************************************)
(* A node (runtime/local/runner.go): the Runner that provisions containers *)
(* and routes requests to them, composed with the supervisors of module    *)
(* Supervisor, one per ProvisionContainer call.                            *)
(*                                                                         *)
(* Runner and supervisor talk gRPC over a socket file whose path depends   *)
(* only on the container ID, so that all ProvisionContainer calls for one  *)
(* ID share it; it lies in the container's root directory, or outside if   *)
(* that would make it too long.  DialUnix does not block: gRPC connects in *)
(* the background, to whoever listens on the path by then, drops a         *)
(* connection that is idle, and connects again when one is lost.  A        *)
(* request that finds no handle or no connection fails and changes         *)
(* nothing; it may be repeated.                                            *)
(*                                                                         *)
(* A supervisor, its server and its containerHandle are named by the       *)
(* ProvisionContainer call that made them.  The activities call the Runner *)
(* through RemoteNodeClient and NodeServer, which add nothing but the      *)
(* loss of calls and answers.                                              *)
(***************************************************************************)
EXTENDS Supervisor

CONSTANTS Containers,  \* container IDs
          RootSockets, \* those whose socket lies in their root directory
          Deletes,     \* the DeleteContainer calls
          Finds,       \* the Prompt and Cancel calls
          Mixes        \* bound: the calls made, and the containers named, in one behaviour

ASSUME NodeAssumption == None \notin Containers
ASSUME CallsAssumption == Finds \cap Ensures = {}

Calls == Ensures \cup Opens \cup Finds

VARIABLES
  mix,         \* those of this behaviour
  ppc,         \* where each ProvisionContainer call is
  of,          \* its container ID
  since,       \* history: the DeleteContainer calls that had ended when it began
  dir,         \* the containers whose root directory exists
  socket,      \* the server that listens on each container's socket path
  server,      \* the gRPC servers
  conn,        \* the server each handle's ClientConn is connected to
  closed,      \* the handles whose ClientConn is closed
  containers,  \* Runner.containers
  dpc,         \* where each DeleteContainer is
  dh,          \* the handle it took out of the map
  via,         \* the handle a request goes through
  fpc,         \* where each Prompt or Cancel is
  want,        \* its session
  pending,     \* the handles handleBySession has yet to ask
  steady       \* history: handles that have led to the session since it began

provisionVars == <<ppc, of, since>>
wireVars      == <<dir, socket, server, conn, closed>>
deleteVars    == <<dpc, dh>>
findVars      == <<fpc, want, pending>>
nodeVars == <<mix, provisionVars, wireVars, containers, deleteVars, via, findVars, steady>>
vars     == <<svars, nodeVars>>

TypeOK ==
  /\ SupTypeOK
  /\ mix \in Mixes
  /\ ppc \in [Managers -> {"idle", "listen", "register", "done", "error"}]
  /\ of \in [Managers -> Containers \cup {None}]
  /\ since \in [Managers -> SUBSET Deletes]
  /\ dir \subseteq Containers
  /\ socket \in [Containers -> Managers \cup {None}]
  /\ server \in [Managers -> {"none", "serving", "stopped"}]
  /\ conn \in [Managers -> Managers \cup {None}]
  /\ closed \subseteq Managers
  /\ containers \in [Containers -> Managers \cup {None}]
  /\ dpc \in [Deletes -> {"idle", "stop", "remove", "done"}]
  /\ dh \in [Deletes -> Managers \cup {None}]
  /\ via \in [Calls -> Managers \cup {None}]
  /\ fpc \in [Finds -> {"idle", "scan", "send", "reached", "notFound", "error"}]
  /\ want \in [Finds -> SessionIDs \cup {None}]
  /\ pending \in [Finds -> SUBSET Managers]
  /\ steady \in [Finds -> SUBSET Managers]

\* NewRunner
Init ==
  /\ SupInit
  /\ mix \in Mixes
  /\ ppc = [p \in Managers |-> "idle"]
  /\ of = [p \in Managers |-> None]
  /\ since = [p \in Managers |-> {}]
  /\ dir = {}
  /\ socket = [c \in Containers |-> None]
  /\ server = [p \in Managers |-> "none"]
  /\ conn = [p \in Managers |-> None]
  /\ closed = {}
  /\ containers = [c \in Containers |-> None]
  /\ dpc = [d \in Deletes |-> "idle"]
  /\ dh = [d \in Deletes |-> None]
  /\ via = [x \in Calls |-> None]
  /\ fpc = [f \in Finds |-> "idle"]
  /\ want = [f \in Finds |-> None]
  /\ pending = [f \in Finds |-> {}]
  /\ steady = [f \in Finds |-> {}]

-----------------------------------------------------------------------------
(* The wire between Runner and supervisors                                 *)

\* The server that listens on the path of container c, if one does.
Listening(c, m) == socket[c] = m /\ m # None /\ server[m] = "serving"

\* h is connected to the server m.
Connected(h, m) == h \notin closed /\ conn[h] = m /\ m # None /\ server[m] = "serving"

\* A request through h fails: nothing to connect to.
Unreachable(h) ==
  h \in closed \/ ~ \E m \in Managers : Connected(h, m) \/ Listening(of[h], m)

\* A handle that leads elsewhere, or nowhere, after this step is not steady.
Upset(H) == steady' = [f \in Finds |-> steady[f] \ H]

\* gRPC connects a handle in the background, or for the next request.
Connect(h) ==
  /\ ppc[h] \in {"register", "done"} /\ h \notin closed
  /\ ~ \E m \in Managers : Connected(h, m)
  /\ \E m \in Managers : Listening(of[h], m) /\ conn' = [conn EXCEPT ![h] = m]
  /\ UNCHANGED <<svars, mix, provisionVars, dir, socket, server, closed, containers, deleteVars, via, findVars, steady>>

\* gRPC drops a connection that has had no request for its idle timeout.
Idle(h) ==
  /\ conn[h] # None
  /\ \A e \in Ensures : via[e] = h => pc[e] \in {"done", "error"}
  /\ \A o \in Opens : via[o] = h => opc[o] \in {"done", "error"}
  /\ \A f \in Finds : h \notin pending[f] /\ (via[f] = h => fpc[f] # "send")
  /\ conn' = [conn EXCEPT ![h] = None]
  /\ Upset({h})
  /\ UNCHANGED <<svars, mix, provisionVars, dir, socket, server, closed, containers, deleteVars, via, findVars>>

\* server.Stop with the listener's Close, which unlinks the path whoever has bound
\* it by now.
Stop(m) ==
  /\ server' = [server EXCEPT ![m] = "stopped"]
  /\ socket' = [socket EXCEPT ![of[m]] = None]
  /\ Upset({h \in Managers : conn[h] = m})

-----------------------------------------------------------------------------
(* ProvisionContainer                                                      *)

PGoto(p, l) == ppc' = [ppc EXCEPT ![p] = l]

\* os.MkdirAll of the root and the workspace.
Provision(p, c) ==
  /\ ppc[p] = "idle" /\ {p, c} \subseteq mix
  /\ PGoto(p, "listen")
  /\ of' = [of EXCEPT ![p] = c]
  /\ since' = [since EXCEPT ![p] = {d \in Deletes : dpc[d] = "done"}]
  /\ dir' = dir \cup {c}
  /\ UNCHANGED <<svars, mix, socket, server, conn, closed, containers, deleteVars, via, findVars, steady>>

\* One of them fails, and the root may be left; the caller may try again.
ProvisionMkdirFails(p, c) ==
  /\ ppc[p] = "idle" /\ {p, c} \subseteq mix
  /\ dir' = dir \cup {c}
  /\ UNCHANGED <<svars, mix, provisionVars, socket, server, conn, closed, containers, deleteVars, via, findVars, steady>>

\* SupervisorSocket: can the path of container c be bound?
CanBind(c) == c \in RootSockets => c \in dir

\* Mutant: the error of net.Listen is ignored.
ProvisionListenIgnores(p) ==
  /\ ppc[p] = "listen"
  /\ \E m \in {p, None} : socket' = [socket EXCEPT ![of[p]] = m]
  /\ server' = [server EXCEPT ![p] = "serving"]
  /\ PGoto(p, "register")
  /\ UNCHANGED <<svars, mix, of, since, dir, conn, closed, containers, deleteVars, via, findVars, steady>>

\* os.Remove of the path, then net.Listen, which needs the path's directory, and
\* DialUnix.
ProvisionListen(p) ==
  /\ ppc[p] = "listen"
  /\ \/ /\ CanBind(of[p])
        /\ socket' = [socket EXCEPT ![of[p]] = p]
        /\ server' = [server EXCEPT ![p] = "serving"]
        /\ PGoto(p, "register")
     \/ /\ socket' = [socket EXCEPT ![of[p]] = None]
        /\ UNCHANGED server
        /\ PGoto(p, "error")
  /\ UNCHANGED <<svars, mix, of, since, dir, conn, closed, containers, deleteVars, via, findVars, steady>>

\* DialUnix refuses the path.
ProvisionDialFails(p) ==
  /\ ppc[p] = "register" /\ conn[p] = None
  /\ Stop(p)
  /\ PGoto(p, "error")
  /\ UNCHANGED <<svars, mix, of, since, dir, conn, closed, containers, deleteVars, via, findVars>>

\* The handle that was registered before, if any, is forgotten as it is.
ProvisionRegister(p) ==
  /\ ppc[p] = "register"
  /\ containers' = [containers EXCEPT ![of[p]] = p]
  /\ PGoto(p, "done")
  /\ UNCHANGED <<svars, mix, of, since, wireVars, deleteVars, via, findVars, steady>>

-----------------------------------------------------------------------------
(* DeleteContainer                                                         *)

DGoto(d, l) == dpc' = [dpc EXCEPT ![d] = l]

\* The handle leaves the map under the lock; the rest happens without it.
Delete(d, c) ==
  /\ dpc[d] = "idle" /\ d \in mix /\ containers[c] # None
  /\ dh' = [dh EXCEPT ![d] = containers[c]]
  /\ containers' = [containers EXCEPT ![c] = None]
  /\ DGoto(d, "stop")
  /\ UNCHANGED <<svars, mix, provisionVars, wireVars, via, findVars, steady>>

\* The agents the supervisor started are left as they are.
DeleteStop(d) ==
  /\ dpc[d] = "stop"
  /\ Stop(dh[d])
  /\ DGoto(d, "remove")
  /\ UNCHANGED <<svars, mix, provisionVars, dir, conn, closed, containers, dh, via, findVars>>

\* conn.Close, os.Remove of the path, os.RemoveAll of the root.
DeleteRemove(d) ==
  /\ dpc[d] = "remove"
  /\ closed' = closed \cup {dh[d]}
  /\ socket' = [socket EXCEPT ![of[dh[d]]] = None]
  /\ dir' = dir \ {of[dh[d]]}
  /\ Upset({dh[d]})
  /\ DGoto(d, "done")
  /\ UNCHANGED <<svars, mix, provisionVars, server, conn, containers, dh, via, findVars>>

-----------------------------------------------------------------------------
(* EnsureAgent, CreateSession and LoadSession                              *)

\* Runner.handle
Route(x, c) ==
  /\ via[x] = None /\ x \in mix /\ containers[c] # None
  /\ via' = [via EXCEPT ![x] = containers[c]]
  /\ UNCHANGED <<svars, mix, provisionVars, wireVars, containers, deleteVars, findVars, steady>>

\* The request fails on the way; the caller may send it again.
RpcFails(x) ==
  /\ via[x] # None /\ Unreachable(via[x])
  /\ x \in Ensures => pc[x] = "idle"
  /\ x \in Opens => opc[x] = "idle"
  /\ via' = [via EXCEPT ![x] = None]
  /\ UNCHANGED <<svars, mix, provisionVars, wireVars, containers, deleteVars, findVars, steady>>

\* It arrives, and the supervisor begins.
RpcEnsure(e) ==
  /\ \E m \in Managers : via[e] # None /\ Connected(via[e], m) /\ EnsureLookup(e, m)
  /\ UNCHANGED nodeVars

RpcOpen(o, a, s) ==
  /\ \E m \in Managers : via[o] # None /\ Connected(via[o], m) /\ OpenLookup(o, m, a, s)
  /\ UNCHANGED nodeVars

-----------------------------------------------------------------------------
(* handleBySession, with which Prompt and Cancel begin                     *)

FGoto(f, l) == fpc' = [fpc EXCEPT ![f] = l]

Holds(m, s) == sessions[m][s] # None

\* The handles, read under the lock.
FindBegin(f, s) ==
  /\ fpc[f] = "idle" /\ f \in mix
  /\ want' = [want EXCEPT ![f] = s]
  /\ pending' = [pending EXCEPT ![f] = {containers[c] : c \in Containers} \ {None}]
  /\ steady' = [steady EXCEPT ![f] = {h \in {containers[c] : c \in Containers} \ {None} :
                                        \E m \in Managers : Connected(h, m) /\ Holds(m, s)}]
  /\ FGoto(f, "scan")
  /\ UNCHANGED <<svars, mix, provisionVars, wireVars, containers, deleteVars, via>>

\* Mutant: an error of ListSessions ends the search.
FindSkipGivesUp(f, h) ==
  /\ fpc[f] = "scan" /\ h \in pending[f]
  /\ \/ Unreachable(h) /\ FGoto(f, "notFound")
     \/ (\E m \in Managers : Connected(h, m) /\ ~Holds(m, want[f])) /\ UNCHANGED fpc
  /\ pending' = [pending EXCEPT ![f] = @ \ {h}]
  /\ UNCHANGED <<svars, mix, provisionVars, wireVars, containers, deleteVars, via, want, steady>>

\* ListSessions of one handle fails, or does not list the session.
FindSkip(f, h) ==
  /\ fpc[f] = "scan" /\ h \in pending[f]
  /\ Unreachable(h) \/ \E m \in Managers : Connected(h, m) /\ ~Holds(m, want[f])
  /\ pending' = [pending EXCEPT ![f] = @ \ {h}]
  /\ UNCHANGED <<svars, mix, provisionVars, wireVars, containers, deleteVars, via, fpc, want, steady>>

\* It does: this is the handle.
FindHit(f, h) ==
  /\ fpc[f] = "scan" /\ h \in pending[f]
  /\ \E m \in Managers : Connected(h, m) /\ Holds(m, want[f])
  /\ pending' = [pending EXCEPT ![f] = {}]
  /\ via' = [via EXCEPT ![f] = h]
  /\ FGoto(f, "send")
  /\ UNCHANGED <<svars, mix, provisionVars, wireVars, containers, deleteVars, want, steady>>

FindNone(f) ==
  /\ fpc[f] = "scan" /\ pending[f] = {}
  /\ FGoto(f, "notFound")
  /\ UNCHANGED <<svars, mix, provisionVars, wireVars, containers, deleteVars, via, want, pending, steady>>

\* The request itself, which may reach another supervisor than the one asked.
FindSend(f) ==
  /\ fpc[f] = "send"
  /\ \/ Unreachable(via[f]) /\ FGoto(f, "error")
     \/ \E m \in Managers :
          Connected(via[f], m) /\ FGoto(f, IF sessionAgent(m, want[f]) THEN "reached" ELSE "error")
  /\ UNCHANGED <<svars, mix, provisionVars, wireVars, containers, deleteVars, via, want, pending, steady>>

-----------------------------------------------------------------------------
InsideStep == Inside /\ UNCHANGED nodeVars

ProvisionStep(p) == \/ \E c \in Containers : Provision(p, c) \/ ProvisionMkdirFails(p, c)
                    \/ ProvisionListen(p) \/ ProvisionDialFails(p) \/ ProvisionRegister(p)
WireStep(h)      == Connect(h) \/ Idle(h)
DeleteStep(d)    == (\E c \in Containers : Delete(d, c)) \/ DeleteStop(d) \/ DeleteRemove(d)
RequestStep(x)   == (\E c \in Containers : Route(x, c)) \/ RpcFails(x)
FindStep(f)      == \/ \E s \in SessionIDs : FindBegin(f, s)
                    \/ \E h \in Managers : FindSkip(f, h) \/ FindHit(f, h)
                    \/ FindNone(f) \/ FindSend(f)

Next ==
  \/ InsideStep
  \/ \E p \in Managers : ProvisionStep(p) \/ WireStep(p)
  \/ \E d \in Deletes : DeleteStep(d)
  \/ \E x \in Ensures \cup Opens : RequestStep(x)
  \/ \E e \in Ensures : RpcEnsure(e)
  \/ \E o \in Opens, a \in Ensures, s \in SessionIDs : RpcOpen(o, a, s)
  \/ \E f \in Finds : FindStep(f)

Spec == Init /\ [][Next]_vars

\* The goroutines of the requests and of wait run (each has finitely many steps, so
\* that fairness to all of them together is enough).
FairSpec ==
  /\ Spec
  /\ WF_vars((\E e \in Ensures : EnsureStep(e)) /\ UNCHANGED nodeVars)
  /\ WF_vars((\E e \in Ensures : Wait(e)) /\ UNCHANGED nodeVars)

-----------------------------------------------------------------------------
(* Properties                                                              *)

\* A registered handle leads to a supervisor that serves, although all handles of
\* a container share one socket path and gRPC connects late, and its directory is
\* there.  Only a DeleteContainer that had not ended when the handle's
\* ProvisionContainer began takes either away from under it; a ProvisionContainer
\* that fails may take the path.
HandleReaches ==
  \A c \in Containers : containers[c] # None =>
    LET h == containers[c]
        cleared == \E d \in Deletes : dh[d] # None /\ of[dh[d]] = c /\ d \notin since[h] IN
    /\ c \notin dir => cleared
    /\ Unreachable(h) => cleared \/ \E p \in Managers : of[p] = c /\ ppc[p] = "error"

\* The handle of container c leads to supervisor m, now or at its next connection.
LeadsTo(c, m) == /\ containers[c] # None /\ containers[c] \notin closed
                 /\ Connected(containers[c], m) \/ Listening(c, m)

\* DeleteContainer and a second ProvisionContainer leave agent processes behind that
\* no request can reach or stop.  Nothing else does: the agents of a container that
\* was provisioned once and not deleted stay behind its handle, in the map of its
\* supervisor unless another EnsureAgent for the same key replaced them.
OrphansAccounted ==
  \A e \in Ensures : proc[e] = "up" /\ pc[e] \in {"done", "error"} =>
    LET c == of[at[e]] IN
    \/ LeadsTo(c, at[e]) /\ agents[at[e]][agentKey[e]] # None
    \/ \E d \in Deletes : dh[d] # None /\ of[dh[d]] = c
    \/ \E p \in Managers \ {at[e]} : of[p] = c

\* Prompt and Cancel answer not-found for a session only when no handle has led to
\* a supervisor that holds it since they began: containers that fail to answer,
\* or are provisioned or deleted meanwhile, do not hide the sessions of others.
NotFoundGenuine == \A f \in Finds : fpc[f] = "notFound" => steady[f] = {}

\* The exit of an agent that was made ready shows in its instance.
ExitIsNoticed ==
  \A e \in Ensures : (proc[e] = "exited" /\ pc[e] = "done") ~> (instance[e] = "exited")

=============================================================================
