-------------------------- MODULE NodeRunnerProofs --------------------------
(***************************************************************************)
(* Proofs about a node, for any number of containers, calls and sessions.  *)
(*                                                                         *)
(* A node implements SupSpec: each of its steps is a step of the           *)
(* supervisors or leaves them alone, so that what SupervisorProofs shows   *)
(* of them holds of a node.  The rest is about the wire between Runner and *)
(* supervisors.  NodeInv says which container each handle, connection and  *)
(* request belongs to, and when the socket path is known to be bound.      *)
(***************************************************************************)
EXTENDS NodeRunner, SupervisorProofs

\* DeleteContainer has been called for c.
Deleted(c) == \E d \in Deletes : dh[d] # None /\ of[dh[d]] = c

\* ... and had not ended when the ProvisionContainer call h began.
DeletedSince(h) == \E d \in Deletes : dh[d] # None /\ of[dh[d]] = of[h] /\ d \notin since[h]

\* A ProvisionContainer for the container of h failed.
Spoiled(h) == \E p \in Managers : of[p] = of[h] /\ ppc[p] = "error"

\* No other ProvisionContainer has been called for the container of h.
Sole(h) == \A p \in Managers \ {h} : of[p] # of[h]

ProvisionsSound ==
  \A p \in Managers :
    /\ IF ppc[p] = "idle" THEN of[p] = None ELSE of[p] \in Containers
    /\ \A d \in since[p] : dpc[d] = "done"

DeletesSound ==
  \A d \in Deletes :
    IF dpc[d] = "idle" THEN dh[d] = None
    ELSE dh[d] \in Managers /\ ppc[dh[d]] = "done" /\ d \notin since[dh[d]]

\* Handles, connections and requests stay with their container.
WireSound ==
  /\ \A c \in Containers : containers[c] # None => of[containers[c]] = c /\ ppc[containers[c]] = "done"
  /\ \A c \in Containers : socket[c] # None => of[socket[c]] = c
  /\ \A h \in Managers : conn[h] # None => of[h] \in Containers /\ of[conn[h]] = of[h]
  /\ \A h \in closed : \E d \in Deletes : dh[d] = h
  /\ \A e \in Ensures : via[e] # None => ppc[via[e]] = "done"
  /\ \A e \in Ensures : at[e] # None => of[at[e]] \in Containers /\ (Sole(at[e]) => ppc[at[e]] = "done")

\* Some server listens for a handle nothing has disturbed ...
PathKept ==
  \A h \in Managers : ppc[h] \in {"register", "done"} /\ ~DeletedSince(h) /\ ~Spoiled(h) =>
    socket[of[h]] # None /\ server[socket[of[h]]] = "serving"

\* ... and its own one, if the container was provisioned once and not deleted.
SoleServes ==
  \A h \in Managers : ppc[h] \in {"register", "done"} /\ ~Deleted(of[h]) /\ Sole(h) =>
    /\ socket[of[h]] = h /\ server[h] = "serving"
    /\ ppc[h] = "done" => containers[of[h]] = h

\* A steady handle is connected to a supervisor with the session, and yet to be asked.
FindsSound ==
  \A f \in Finds :
    /\ \A h \in steady[f] : \E m \in Managers : Connected(h, m) /\ Holds(m, want[f])
    /\ IF fpc[f] = "idle" THEN steady[f] = {} ELSE want[f] \in SessionIDs
    /\ fpc[f] = "scan" => steady[f] \subseteq pending[f]
    /\ fpc[f] = "notFound" => steady[f] = {}

NodeInv ==
  /\ TypeOK /\ SupInv
  /\ ProvisionsSound /\ DeletesSound /\ WireSound
  /\ PathKept /\ SoleServes /\ FindsSound

\* The directory of a ProvisionContainer call stays until a DeleteContainer beside it.
DirKept == \A h \in Managers : ppc[h] # "idle" /\ ~DeletedSince(h) => of[h] \in dir

-----------------------------------------------------------------------------
(* A node implements the specification of the supervisors.                 *)

\* Most leaves need no more than first-order reasoning about the wire, which is
\* Zenon's; the others cite SMT.
USE Zenon

LEMMA NodeInitRefines == Init => SupInit
BY DEF Init

LEMMA NodeStepRefines == [Next]_vars => [SupNext]_svars
<1> SUFFICES ASSUME [Next]_vars PROVE SupNext \/ UNCHANGED svars
  OBVIOUS
<1>1. CASE UNCHANGED vars
  BY <1>1 DEF vars
<1>2. CASE InsideStep
  BY <1>2 DEF InsideStep, SupNext
<1>3. ASSUME NEW p \in Managers, ProvisionStep(p) \/ WireStep(p)
      PROVE  UNCHANGED svars
  BY <1>3 DEF ProvisionStep, WireStep, Provision, ProvisionMkdirFails, ProvisionListen,
              ProvisionDialFails, ProvisionRegister, Connect, Idle
<1>4. ASSUME NEW d \in Deletes, DeleteStep(d)
      PROVE  UNCHANGED svars
  BY <1>4 DEF DeleteStep, Delete, DeleteStop, DeleteRemove
<1>5. ASSUME NEW x \in Ensures \cup Opens, RequestStep(x)
      PROVE  UNCHANGED svars
  BY <1>5 DEF RequestStep, Route, RpcFails
<1>6. ASSUME NEW e \in Ensures, RpcEnsure(e)
      PROVE  SupNext
  BY <1>6 DEF RpcEnsure, SupNext
<1>7. ASSUME NEW o \in Opens, NEW a \in Ensures, NEW s \in SessionIDs, RpcOpen(o, a, s)
      PROVE  SupNext
  BY <1>7 DEF RpcOpen, SupNext
<1>8. ASSUME NEW f \in Finds, FindStep(f)
      PROVE  UNCHANGED svars
  BY <1>8 DEF FindStep, FindBegin, FindSkip, FindHit, FindNone, FindSend
<1> QED
  BY <1>1, <1>2, <1>3, <1>4, <1>5, <1>6, <1>7, <1>8 DEF Next

\* A node implements the supervisors' specification, which allows any request.
THEOREM NodeImplementsSupervisors == Spec => SupSpec
BY NodeInitRefines, NodeStepRefines, PTL DEF Spec, SupSpec

-----------------------------------------------------------------------------
(* The invariant of the wire.                                              *)

LEMMA NodeInitInv == Init => NodeInv
<1> SUFFICES ASSUME Init PROVE NodeInv
  OBVIOUS
<1>1. SupInv
  BY SupInitInv DEF Init
<1>2. TypeOK
  BY <1>1 DEF TypeOK, SupInv, Init
<1>3. ProvisionsSound /\ DeletesSound /\ PathKept /\ SoleServes /\ FindsSound
  BY DEF Init, ProvisionsSound, DeletesSound, PathKept, SoleServes, FindsSound
<1>4. WireSound
  BY DEF Init, SupInit, WireSound, Calls
<1> QED
  BY <1>1, <1>2, <1>3, <1>4 DEF NodeInv

\* A step of the supervisors alone: no manager serves a request it was not connected
\* for, and sessions only appear.
LEMMA SupervisorStepInv ==
  ASSUME NodeInv, SupInv', UNCHANGED nodeVars,
         \A e \in Ensures : \/ at'[e] = at[e]
                            \/ \E m \in Managers : /\ via[e] # None /\ Connected(via[e], m)
                                                   /\ at'[e] = m,
         \A m \in Managers, s \in SessionIDs : Holds(m, s) => Holds(m, s)'
  PROVE  NodeInv'
<1> USE NodeAssumption, SupervisorAssumption DEF NodeInv, nodeVars, provisionVars, wireVars, deleteVars, findVars
<1>1. TypeOK'
  BY DEF TypeOK, SupInv
<1>2. ProvisionsSound' /\ DeletesSound'
  BY DEF ProvisionsSound, DeletesSound
<1>3. PathKept' /\ SoleServes'
  BY SMT DEF PathKept, SoleServes, Deleted, DeletedSince, Spoiled, Sole
<1>4. WireSound'
  <2>1. ASSUME NEW e \in Ensures, NEW m \in Managers, via[e] # None, Connected(via[e], m)
        PROVE  of[m] \in Containers /\ (Sole(m) => ppc[m] = "done")
    <3>1. via[e] \in Managers /\ conn[via[e]] = m /\ m # None
      BY <2>1, SMT DEF TypeOK, Calls, Connected
    <3>2. of[m] = of[via[e]] /\ of[m] \in Containers /\ ppc[via[e]] = "done"
      BY <2>1, <3>1 DEF WireSound, Calls
    <3> QED
      BY <3>1, <3>2 DEF Sole
  <2>2. \A e \in Ensures : at'[e] # None =>
          of[at'[e]] \in Containers /\ (Sole(at'[e]) => ppc[at'[e]] = "done")
    BY <2>1, SMT DEF WireSound
  <2> QED
    BY <2>2, ZenonT(40) DEF WireSound, Sole
<1>5. FindsSound'
  <2>1. \A f \in Finds : \A h \in steady[f], m \in Managers :
          Connected(h, m) /\ Holds(m, want[f]) => Connected(h, m)' /\ Holds(m, want[f])'
    BY SMT DEF Connected, FindsSound, Holds
  <2> QED
    BY <2>1 DEF FindsSound
<1> QED
  BY <1>1, <1>2, <1>3, <1>4, <1>5

\* Where a handle can be found, and what is there.
LEMMA HandlesTyped ==
  ASSUME TypeOK
  PROVE  /\ \A c \in Containers : containers[c] \in Managers \cup {None} /\ socket[c] \in Managers \cup {None}
         /\ \A h \in Managers : conn[h] \in Managers \cup {None}
         /\ \A e \in Ensures : at[e] \in Managers \cup {None} /\ via[e] \in Managers \cup {None}
         /\ \A d \in Deletes : dh[d] \in Managers \cup {None}
         /\ closed \subseteq Managers /\ \A f \in Finds : steady[f] \subseteq Managers
<1>1. \A e \in Ensures : at[e] \in Managers \cup {None}
  BY SMT DEF TypeOK, SupTypeOK
<1>2. \A e \in Ensures : via[e] \in Managers \cup {None}
  BY DEF TypeOK, Calls
<1> QED
  BY <1>1, <1>2 DEF TypeOK

\* ProvisionContainer goes on, and DeleteContainer does: neither forgets its handle.
LEMMA ProvisionsKept ==
  ASSUME TypeOK, ProvisionsSound, DeletesSound, UNCHANGED <<of, since, dh>>,
         \A h \in Managers : /\ ppc'[h] = "idle" <=> ppc[h] = "idle"
                             /\ ppc[h] = "done" => ppc'[h] = "done",
         \A d \in Deletes : /\ dpc'[d] = "idle" <=> dpc[d] = "idle"
                            /\ dpc[d] = "done" => dpc'[d] = "done"
  PROVE  ProvisionsSound' /\ DeletesSound'
<1>1. \A p \in Managers : since[p] \subseteq Deletes
  BY DEF TypeOK
<1>2. ProvisionsSound'
  BY <1>1 DEF ProvisionsSound
<1>3. DeletesSound'
  BY DEF DeletesSound
<1> QED
  BY <1>2, <1>3

\* A step that changes no container ID keeps WireSound if it registers, binds, connects,
\* closes and routes only what it may.
LEMMA WireKept ==
  ASSUME TypeOK, WireSound, UNCHANGED <<of, at>>,
         \A h \in Managers : ppc[h] = "done" => ppc'[h] = "done",
         \A d \in Deletes : dh[d] # None => dh'[d] = dh[d],
         \A c \in Containers : containers'[c] # None =>
           containers'[c] = containers[c] \/ (of[containers'[c]] = c /\ ppc'[containers'[c]] = "done"),
         \A c \in Containers : socket'[c] # None => socket'[c] = socket[c] \/ of[socket'[c]] = c,
         \A h \in Managers : conn'[h] # None =>
           conn'[h] = conn[h] \/ (of[h] \in Containers /\ of[conn'[h]] = of[h]),
         \A h \in closed' : h \in closed \/ \E d \in Deletes : dh'[d] = h,
         \A e \in Ensures : via'[e] # None => via'[e] = via[e] \/ ppc'[via'[e]] = "done"
  PROVE  WireSound'
<1> USE SupervisorAssumption
<1>1. \A c \in Containers : containers'[c] # None => of[containers'[c]] = c /\ ppc'[containers'[c]] = "done"
  <2>1. ASSUME NEW c \in Containers, containers[c] # None
        PROVE  containers[c] \in Managers /\ of[containers[c]] = c /\ ppc[containers[c]] = "done"
    BY <2>1, HandlesTyped DEF WireSound
  <2> QED
    BY <2>1, SMTT(30)
<1>2. \A c \in Containers : socket'[c] # None => of[socket'[c]] = c
  BY SMT DEF WireSound
<1>3. \A h \in Managers : conn'[h] # None => of[h] \in Containers /\ of[conn'[h]] = of[h]
  BY ZenonT(40) DEF WireSound
<1>4. \A h \in closed' : \E d \in Deletes : dh'[d] = h
  <2>1. \A h \in closed : h # None /\ \E d \in Deletes : dh[d] = h
    BY HandlesTyped, SMT DEF WireSound
  <2> QED
    BY <2>1
<1>5. \A e \in Ensures : via'[e] # None => ppc'[via'[e]] = "done"
  <2>1. ASSUME NEW e \in Ensures, via[e] # None
        PROVE  via[e] \in Managers /\ ppc[via[e]] = "done"
    BY <2>1, HandlesTyped DEF WireSound
  <2> QED
    BY <2>1, SMT
<1>6. \A e \in Ensures : at[e] # None => of[at[e]] \in Containers /\ (Sole(at[e])' => ppc'[at[e]] = "done")
  <2>1. \A h \in Managers : Sole(h)' => Sole(h)
    BY DEF Sole
  <2> QED
    BY <2>1, HandlesTyped DEF WireSound
<1> QED
  BY <1>1, <1>2, <1>3, <1>4, <1>5, <1>6, SMTT(30) DEF WireSound

\* ... and PathKept if it takes a path only from handles whose container a delete or a
\* failed ProvisionContainer has disturbed.
LEMMA PathKeptStep ==
  ASSUME PathKept, ProvisionsSound, UNCHANGED <<of, since>>,
         \A d \in Deletes : dh[d] # None => dh'[d] = dh[d],
         \A h \in Managers : ppc[h] = "error" => ppc'[h] = "error",
         \A h \in Managers : ppc'[h] \in {"register", "done"} =>
           \/ ppc[h] \in {"register", "done"}
           \/ socket'[of[h]] # None /\ server'[socket'[of[h]]] = "serving",
         \A h \in Managers : of[h] \in Containers =>
           \/ socket[of[h]] # None /\ server[socket[of[h]]] = "serving" =>
                socket'[of[h]] # None /\ server'[socket'[of[h]]] = "serving"
           \/ DeletedSince(h)' \/ Spoiled(h)'
  PROVE  PathKept'
<1>1. SUFFICES ASSUME NEW h \in Managers, ppc'[h] \in {"register", "done"}, ~DeletedSince(h)', ~Spoiled(h)'
               PROVE  socket'[of[h]] # None /\ server'[socket'[of[h]]] = "serving"
  BY DEF PathKept
<1>2. ~DeletedSince(h) /\ ~Spoiled(h)
  BY <1>1 DEF DeletedSince, Spoiled
<1>3. CASE ppc[h] \in {"register", "done"}
  <2>1. of[h] \in Containers
    BY <1>3 DEF ProvisionsSound
  <2> QED
    BY <1>1, <1>2, <1>3, <2>1 DEF PathKept
<1> QED
  BY <1>1, <1>3

\* ... and SoleServes if what it does to a handle's own server or entry is done to a
\* deleted or shared container.
LEMMA SoleServesStep ==
  ASSUME SoleServes, UNCHANGED of,
         \A d \in Deletes : dh[d] # None => dh'[d] = dh[d],
         \A h \in Managers : ppc'[h] \in {"register", "done"} =>
           \/ Deleted(of[h])' \/ ~Sole(h)
           \/ ppc'[h] = "register" /\ socket'[of[h]] = h /\ server'[h] = "serving"
           \/ /\ ppc[h] \in {"register", "done"}
              /\ socket'[of[h]] = socket[of[h]] /\ server'[h] = server[h]
              /\ ppc'[h] = "done" => \/ containers'[of[h]] = h
                                     \/ ppc[h] = "done" /\ containers'[of[h]] = containers[of[h]]
  PROVE  SoleServes'
<1>1. SUFFICES ASSUME NEW h \in Managers, ppc'[h] \in {"register", "done"}, ~Deleted(of[h])', Sole(h)'
               PROVE  /\ socket'[of[h]] = h /\ server'[h] = "serving"
                      /\ ppc'[h] = "done" => containers'[of[h]] = h
  BY DEF SoleServes
<1>2. ~Deleted(of[h]) /\ Sole(h)
  BY <1>1 DEF Deleted, Sole
<1> QED
  BY <1>1, <1>2, SMT DEF SoleServes

\* Searches are undisturbed by a step that keeps the connections of the steady handles.
LEMMA FindsKept ==
  ASSUME FindsSound, UNCHANGED <<sessions, fpc, want, pending>>,
         \A f \in Finds : steady'[f] \subseteq steady[f],
         \A f \in Finds : \A h \in steady'[f], m \in Managers : Connected(h, m) => Connected(h, m)'
  PROVE  FindsSound'
BY DEF FindsSound, Holds

LEMMA ProvisionInv ==
  ASSUME NodeInv, SupInv', NEW p \in Managers, NEW c \in Containers, Provision(p, c)
  PROVE  NodeInv'
<1> USE NodeAssumption, SupervisorAssumption DEF NodeInv
<1>0. UNCHANGED <<at, sessions, socket, server, conn, closed, containers, dpc, dh, via, fpc, want, pending, steady>>
  BY DEF Provision, deleteVars, findVars, svars
<1>1. TypeOK'
  BY DEF TypeOK, SupInv, Provision, PGoto, deleteVars, findVars, svars
<1>2. /\ of[p] = None /\ of'[p] = c /\ ppc'[p] = "listen" /\ \A d \in since'[p] : dpc[d] = "done"
      /\ \A h \in Managers \ {p} : of'[h] = of[h] /\ ppc'[h] = ppc[h] /\ since'[h] = since[h]
      /\ ppc[p] = "idle"
  BY SMTT(30) DEF TypeOK, ProvisionsSound, Provision, PGoto
<1>3. ProvisionsSound' /\ DeletesSound'
  BY <1>0, <1>2, SMTT(30) DEF ProvisionsSound, DeletesSound
<1>4. \A h \in Managers \ {p} : of[h] \in Containers =>
        (Deleted(of[h]) => Deleted(of[h])') /\ (DeletedSince(h) => DeletedSince(h)') /\ (Spoiled(h) => Spoiled(h)')
        /\ (Sole(h)' => Sole(h))
  BY <1>0, <1>2, HandlesTyped, SMT DEF Deleted, DeletedSince, Spoiled, Sole
<1>5. PathKept' /\ SoleServes'
  <2>1. \A h \in Managers : ppc'[h] \in {"register", "done"} =>
          h # p /\ of'[h] = of[h] /\ ppc'[h] = ppc[h] /\ of[h] \in Containers
    BY <1>2 DEF ProvisionsSound
  <2>2. PathKept'
    BY <1>0, <1>4, <2>1, ZenonT(40) DEF PathKept
  <2>3. SoleServes'
    <3>1. ASSUME NEW h \in Managers, ppc'[h] \in {"register", "done"}, ~Deleted(of[h])', Sole(h)'
          PROVE  /\ of'[h] = of[h] /\ ppc'[h] = ppc[h]
                 /\ socket[of[h]] = h /\ server[h] = "serving" /\ (ppc[h] = "done" => containers[of[h]] = h)
      BY <1>4, <2>1, <3>1 DEF SoleServes
    <3> QED
      BY <1>0, <3>1, SMTT(30) DEF SoleServes
  <2> QED
    BY <2>2, <2>3
<1>6. WireSound'
  <2>0. c # None /\ p # None
    OBVIOUS
  <2>1. \A b \in Containers : containers[b] # p /\ socket[b] # p
    <3>1. ASSUME NEW b \in Containers
          PROVE  b # None /\ (containers[b] = p => of[p] = b) /\ (socket[b] = p => of[p] = b)
      BY <2>0 DEF WireSound
    <3> QED
      BY <1>2, <3>1
  <2>8. \A h \in Managers : conn[h] # None => h # p /\ conn[h] # p
    <3>1. ASSUME NEW h \in Managers, conn[h] # None PROVE of[h] # None /\ of[conn[h]] # None
      BY <3>1, SMTT(30) DEF WireSound
    <3> QED
      BY <1>2, <3>1, ZenonT(40)
  <2>2. \A e \in Ensures : via[e] # p /\ at[e] # p
    <3>1. ASSUME NEW e \in Ensures
          PROVE  (via[e] = p => ppc[p] = "done") /\ (at[e] = p => of[p] \in Containers)
      BY <2>0, ZenonT(40) DEF WireSound
    <3> QED
      BY <1>2, <3>1
  <2>3. \A e \in Ensures : at[e] # None => of'[at[e]] \in Containers /\ (Sole(at[e])' => ppc'[at[e]] = "done")
    <3>1. ASSUME NEW e \in Ensures, at[e] # None
          PROVE  /\ at[e] \in Managers \ {p} /\ of[at[e]] \in Containers
                 /\ Sole(at[e]) => ppc[at[e]] = "done"
      BY <2>2, <3>1, HandlesTyped DEF WireSound
    <3>2. \A h \in Managers \ {p} : of'[h] = of[h] /\ ppc'[h] = ppc[h] /\ (of[h] \in Containers /\ Sole(h)' => Sole(h))
      BY <1>2, <1>4
    <3> QED
      BY <1>0, <3>1, <3>2
  <2>4. \A b \in Containers : containers[b] # None => of'[containers[b]] = b /\ ppc'[containers[b]] = "done"
    <3>1. ASSUME NEW b \in Containers, containers[b] # None
          PROVE  containers[b] \in Managers \ {p} /\ of[containers[b]] = b /\ ppc[containers[b]] = "done"
      BY <2>1, <3>1, HandlesTyped DEF WireSound
    <3> QED
      BY <1>2, <3>1, SMTT(30)
  <2>9. \A b \in Containers : socket[b] # None => of'[socket[b]] = b
    <3>1. ASSUME NEW b \in Containers, socket[b] # None PROVE socket[b] \in Managers \ {p} /\ of[socket[b]] = b
      BY <2>1, <3>1, HandlesTyped DEF WireSound
    <3> QED
      BY <1>2, <3>1
  <2>5. \A h \in Managers : conn[h] # None => of'[h] \in Containers /\ of'[conn[h]] = of'[h]
    <3>1. ASSUME NEW h \in Managers, conn[h] # None
          PROVE  /\ h \in Managers \ {p} /\ conn[h] \in Managers \ {p}
                 /\ of[h] \in Containers /\ of[conn[h]] = of[h]
      BY <2>8, <3>1, HandlesTyped DEF WireSound
    <3> QED
      BY <1>2, <3>1
  <2>6. \A e \in Ensures : via[e] # None => ppc'[via[e]] = "done"
    <3>1. ASSUME NEW e \in Ensures, via[e] # None
          PROVE  via[e] \in Managers \ {p} /\ ppc[via[e]] = "done"
      BY <2>2, <3>1, HandlesTyped DEF WireSound
    <3> QED
      BY <1>2, <3>1
  <2>7. \A h \in closed : \E d \in Deletes : dh[d] = h
    BY DEF WireSound
  <2> QED
    BY <1>0, <2>3, <2>4, <2>5, <2>6, <2>7, <2>9 DEF WireSound
<1>7. FindsSound'
  BY <1>0, FindsKept DEF Connected
<1> QED
  BY <1>1, <1>3, <1>5, <1>6, <1>7

LEMMA ProvisionMkdirFailsInv ==
  ASSUME NodeInv, SupInv', NEW p \in Managers, NEW c \in Containers, ProvisionMkdirFails(p, c)
  PROVE  NodeInv'
<1> USE DEF NodeInv
<1>0. UNCHANGED <<at, sessions, ppc, of, since, socket, server, conn, closed, containers, dpc, dh, via,
                  fpc, want, pending, steady>>
  BY DEF ProvisionMkdirFails, provisionVars, deleteVars, findVars, svars
<1>1. TypeOK'
  BY DEF TypeOK, SupInv, ProvisionMkdirFails, provisionVars, deleteVars, findVars
<1>2. ProvisionsSound' /\ DeletesSound'
  BY <1>0 DEF ProvisionsSound, DeletesSound
<1>3. PathKept' /\ SoleServes'
  BY <1>0, PathKeptStep, SoleServesStep
<1>4. WireSound'
  BY <1>0, WireKept
<1>5. FindsSound'
  BY <1>0, FindsKept DEF Connected
<1> QED
  BY <1>1, <1>2, <1>3, <1>4, <1>5

LEMMA ProvisionListenInv ==
  ASSUME NodeInv, SupInv', NEW p \in Managers, ProvisionListen(p)
  PROVE  NodeInv'
<1> USE DEF NodeInv
<1>0. UNCHANGED <<at, sessions, of, since, conn, closed, containers, dpc, dh, via, fpc, want, pending, steady>>
  BY DEF ProvisionListen, deleteVars, findVars, svars
<1>1. ppc[p] = "listen" /\ of[p] \in Containers
  BY DEF ProvisionListen, ProvisionsSound
<1>2. TypeOK'
  <2>1. ppc' \in [Managers -> {"idle", "listen", "register", "done", "error"}]
    BY SMTT(30) DEF TypeOK, ProvisionListen, PGoto
  <2>2. socket' \in [Containers -> Managers \cup {None}]
    BY <1>1, SMT DEF TypeOK, ProvisionListen
  <2>3. server' \in [Managers -> {"none", "serving", "stopped"}]
    BY DEF TypeOK, ProvisionListen
  <2>4. UNCHANGED <<mix, dir>>
    BY DEF ProvisionListen
  <2> QED
    BY <1>0, <2>1, <2>2, <2>3, <2>4 DEF TypeOK, SupInv
<1>3. /\ \A h \in Managers \ {p} : ppc'[h] = ppc[h] /\ server'[h] = server[h]
      /\ \A c \in Containers \ {of[p]} : socket'[c] = socket[c]
      /\ \/ socket'[of[p]] = p /\ server'[p] = "serving" /\ ppc'[p] = "register"
         \/ socket'[of[p]] = None /\ server'[p] = server[p] /\ ppc'[p] = "error"
  BY <1>1, SMT DEF TypeOK, ProvisionListen, PGoto
<1>4. ProvisionsSound' /\ DeletesSound'
  BY <1>0, <1>1, <1>3, ProvisionsKept, HandlesTyped
<1>5. \A h \in Managers : /\ ppc[h] = "done" => ppc'[h] = "done"
                          /\ ppc[h] = "error" => ppc'[h] = "error"
                          /\ server[h] = "serving" => server'[h] = "serving"
  BY <1>1, <1>3
<1>6. PathKept'
  <2>1. ASSUME NEW h \in Managers, of[h] \in Containers, socket[of[h]] # None, server[socket[of[h]]] = "serving"
        PROVE  Spoiled(h)' \/ (socket'[of[h]] # None /\ server'[socket'[of[h]]] = "serving")
    <3>1. CASE of[h] = of[p]
      BY <1>0, <1>3, <3>1, SupervisorAssumption DEF Spoiled
    <3>2. CASE of[h] # of[p]
      BY <1>3, <1>5, <2>1, <3>2, HandlesTyped, ZenonT(40)
    <3> QED
      BY <3>1, <3>2
  <2>2. \A h \in Managers : ppc'[h] \in {"register", "done"} =>
          \/ ppc[h] \in {"register", "done"}
          \/ socket'[of[h]] # None /\ server'[socket'[of[h]]] = "serving"
    BY <1>3, SupervisorAssumption, SMT
  <2> QED
    BY <1>0, <1>5, <2>1, <2>2, PathKeptStep
<1>7. SoleServes'
  <2>1. ASSUME NEW h \in Managers \ {p}, ppc[h] \in {"register", "done"}
        PROVE  ~Sole(h) \/ socket'[of[h]] = socket[of[h]]
    BY <1>3, <2>1 DEF Sole, ProvisionsSound
  <2> QED
    BY <1>0, <1>3, <2>1, SoleServesStep
<1>8. WireSound'
  BY <1>0, <1>3, <1>5, WireKept
<1>9. FindsSound'
  BY <1>0, <1>5, FindsKept, HandlesTyped DEF Connected
<1> QED
  BY <1>2, <1>4, <1>6, <1>7, <1>8, <1>9

LEMMA ProvisionDialFailsInv ==
  ASSUME NodeInv, SupInv', NEW p \in Managers, ProvisionDialFails(p)
  PROVE  NodeInv'
<1> USE DEF NodeInv
<1>0. UNCHANGED <<at, sessions, of, since, conn, closed, containers, dpc, dh, via, fpc, want, pending>>
  BY DEF ProvisionDialFails, deleteVars, findVars, svars
<1>1. ppc[p] = "register" /\ of[p] \in Containers
  BY DEF ProvisionDialFails, ProvisionsSound
<1>2. TypeOK'
  BY <1>1 DEF TypeOK, SupInv, ProvisionDialFails, Stop, Upset, PGoto, deleteVars, findVars
<1>3. /\ \A h \in Managers \ {p} : ppc'[h] = ppc[h] /\ server'[h] = server[h]
      /\ \A c \in Containers \ {of[p]} : socket'[c] = socket[c]
      /\ socket'[of[p]] = None /\ ppc'[p] = "error"
  BY <1>1 DEF TypeOK, ProvisionDialFails, Stop, PGoto
<1>4. ProvisionsSound' /\ DeletesSound'
  BY <1>0, <1>1, <1>3, ProvisionsKept, HandlesTyped
<1>5. \A h \in Managers : /\ ppc[h] = "done" => ppc'[h] = "done"
                          /\ ppc[h] = "error" => ppc'[h] = "error"
  BY <1>1, <1>3
<1>6. PathKept'
  <2>1. ASSUME NEW h \in Managers, of[h] \in Containers, socket[of[h]] # None, server[socket[of[h]]] = "serving"
        PROVE  Spoiled(h)' \/ (socket'[of[h]] # None /\ server'[socket'[of[h]]] = "serving")
    <3>1. CASE of[h] = of[p]
      BY <1>0, <1>3, <3>1 DEF Spoiled
    <3>2. CASE of[h] # of[p]
      <4>1. socket[of[h]] \in Managers /\ of[socket[of[h]]] = of[h]
        BY <2>1, HandlesTyped DEF WireSound
      <4>2. server'[socket[of[h]]] = server[socket[of[h]]] /\ socket'[of[h]] = socket[of[h]]
        BY <1>3, <2>1, <3>2, <4>1
      <4> QED
        BY <2>1, <4>2
    <3> QED
      BY <3>1, <3>2
  <2>2. \A h \in Managers : ppc'[h] \in {"register", "done"} => ppc[h] \in {"register", "done"}
    BY <1>3
  <2> QED
    BY <1>0, <1>5, <2>1, <2>2, PathKeptStep
<1>7. SoleServes'
  <2>1. ASSUME NEW h \in Managers, ppc'[h] \in {"register", "done"}
        PROVE  /\ h # p /\ ppc'[h] = ppc[h] /\ server'[h] = server[h]
               /\ ~Sole(h) \/ socket'[of[h]] = socket[of[h]]
    BY <1>3, <2>1 DEF Sole, ProvisionsSound
  <2> QED
    BY <1>0, <2>1, SoleServesStep
<1>8. WireSound'
  BY <1>0, <1>3, <1>5, WireKept
<1>9. FindsSound'
  <2>1. \A f \in Finds : steady'[f] = steady[f] \ {h \in Managers : conn[h] = p}
    BY DEF ProvisionDialFails, Stop, Upset
  <2>2. ASSUME NEW f \in Finds, NEW h \in steady'[f], NEW m \in Managers, Connected(h, m)
        PROVE  Connected(h, m)'
    <3>1. conn[h] = m /\ m # p
      BY <2>1, <2>2, HandlesTyped, SMT DEF Connected
    <3> QED
      BY <1>0, <1>3, <2>2, <3>1, ZenonT(40) DEF Connected
  <2> QED
    BY <1>0, <2>1, <2>2, FindsKept
<1> QED
  BY <1>2, <1>4, <1>6, <1>7, <1>8, <1>9

LEMMA ProvisionRegisterInv ==
  ASSUME NodeInv, SupInv', NEW p \in Managers, ProvisionRegister(p)
  PROVE  NodeInv'
<1> USE DEF NodeInv
<1>0. UNCHANGED <<at, sessions, of, since, socket, server, conn, closed, dpc, dh, via, fpc, want, pending, steady>>
  BY DEF ProvisionRegister, deleteVars, findVars, wireVars, svars
<1>1. ppc[p] = "register" /\ of[p] \in Containers
  BY DEF ProvisionRegister, ProvisionsSound
<1>2. TypeOK'
  BY <1>1 DEF TypeOK, SupInv, ProvisionRegister, PGoto, deleteVars, findVars, wireVars
<1>3. /\ \A h \in Managers \ {p} : ppc'[h] = ppc[h]
      /\ \A c \in Containers \ {of[p]} : containers'[c] = containers[c]
      /\ containers'[of[p]] = p /\ ppc'[p] = "done"
  BY <1>1 DEF TypeOK, ProvisionRegister, PGoto
<1>4. ProvisionsSound' /\ DeletesSound'
  BY <1>0, <1>1, <1>3, ProvisionsKept, HandlesTyped
<1>5. \A h \in Managers : /\ ppc[h] = "done" => ppc'[h] = "done"
                          /\ ppc[h] = "error" => ppc'[h] = "error"
                          /\ ppc'[h] \in {"register", "done"} => ppc[h] \in {"register", "done"}
  BY <1>1, <1>3
<1>6. PathKept'
  BY <1>0, <1>5, PathKeptStep
<1>7. SoleServes'
  <2>1. ASSUME NEW h \in Managers \ {p}, ppc[h] \in {"register", "done"}
        PROVE  ~Sole(h) \/ containers'[of[h]] = containers[of[h]]
    BY <1>3, <2>1 DEF Sole, ProvisionsSound
  <2>2. ASSUME NEW h \in Managers, ppc'[h] \in {"register", "done"}
        PROVE  \/ ~Sole(h)
               \/ ppc'[h] = "done" => \/ containers'[of[h]] = h
                                      \/ ppc[h] = "done" /\ containers'[of[h]] = containers[of[h]]
    BY <1>3, <2>1, <2>2
  <2> QED
    BY <1>0, <1>5, <2>2, SoleServesStep
<1>8. WireSound'
  BY <1>0, <1>3, <1>5, WireKept
<1>9. FindsSound'
  BY <1>0, FindsKept DEF Connected
<1> QED
  BY <1>2, <1>4, <1>6, <1>7, <1>8, <1>9

\* Connections come and go; what they rest on does not change.
LEMMA WireInv ==
  ASSUME NodeInv, SupInv', NEW h \in Managers, WireStep(h)
  PROVE  NodeInv'
<1> USE DEF NodeInv
<1>0. UNCHANGED <<at, sessions, ppc, of, since, socket, server, closed, containers, dpc, dh, via, fpc, want, pending>>
  BY DEF WireStep, Connect, Idle, svars, provisionVars, deleteVars, findVars
<1>1. TypeOK'
  <2>1. UNCHANGED <<mix, dir>>
    BY DEF WireStep, Connect, Idle
  <2>2. conn' \in [Managers -> Managers \cup {None}]
    <3>1. \E m \in Managers \cup {None} : conn' = [conn EXCEPT ![h] = m]
      BY DEF WireStep, Connect, Idle
    <3> QED
      BY <3>1, SMT DEF TypeOK
  <2>3. steady' \in [Finds -> SUBSET Managers]
    <3>1. UNCHANGED steady \/ steady' = [f \in Finds |-> steady[f] \ {h}]
      BY DEF WireStep, Connect, Idle, Upset
    <3> QED
      BY <3>1, HandlesTyped, SMT DEF TypeOK
  <2> QED
    BY <1>0, <2>1, <2>2, <2>3 DEF TypeOK, SupInv
<1>2. ProvisionsSound' /\ DeletesSound'
  BY <1>0, ProvisionsKept
<1>3. PathKept' /\ SoleServes'
  BY <1>0, PathKeptStep, SoleServesStep
<1>4. \A g \in Managers : conn'[g] # None => conn'[g] = conn[g] \/ (of[g] \in Containers /\ of[conn'[g]] = of[g])
  <2>1. CASE Connect(h)
    <3>1. PICK m \in Managers : Listening(of[h], m) /\ conn' = [conn EXCEPT ![h] = m]
      BY <2>1 DEF Connect
    <3>2. of[h] \in Containers
      BY <2>1 DEF Connect, ProvisionsSound
    <3>3. of[m] = of[h]
      BY <3>1, <3>2 DEF Listening, WireSound
    <3>4. conn'[h] = m /\ \A g \in Managers \ {h} : conn'[g] = conn[g]
      BY <3>1, SMTT(30) DEF TypeOK
    <3> QED
      BY <3>2, <3>3, <3>4
  <2>2. CASE Idle(h)
    BY <2>2, SMTT(30) DEF Idle, TypeOK
  <2> QED
    BY <2>1, <2>2 DEF WireStep
<1>5. WireSound'
  BY <1>0, <1>4, WireKept
<1>6. FindsSound'
  <2>1. CASE Connect(h)
    <3>1. \A g, m \in Managers : Connected(g, m) => Connected(g, m)'
      BY <1>0, <2>1, ZenonT(40) DEF Connect, Connected, TypeOK
    <3>2. \A f \in Finds : steady'[f] = steady[f] /\ steady[f] \subseteq Managers
      BY <2>1, HandlesTyped DEF Connect
    <3> QED
      BY <1>0, <3>1, <3>2, FindsKept
  <2>2. CASE Idle(h)
    <3>1. \A f \in Finds : steady'[f] = steady[f] \ {h} /\ steady[f] \subseteq Managers
      BY <2>2, HandlesTyped DEF Idle, Upset
    <3>2. \A g \in Managers \ {h}, m \in Managers : Connected(g, m) => Connected(g, m)'
      BY <1>0, <2>2, SMT DEF Idle, Connected, TypeOK
    <3> QED
      BY <1>0, <3>1, <3>2, FindsKept
  <2> QED
    BY <2>1, <2>2 DEF WireStep
<1> QED
  BY <1>1, <1>2, <1>3, <1>5, <1>6

LEMMA DeleteInv ==
  ASSUME NodeInv, SupInv', NEW d \in Deletes, NEW c \in Containers, Delete(d, c)
  PROVE  NodeInv'
<1> USE DEF NodeInv
<1>0. /\ UNCHANGED <<at, sessions, ppc, of, since, socket, server, conn, closed, via, fpc, want, pending, steady>>
      /\ dpc[d] = "idle" /\ containers[c] # None
  BY DEF Delete, svars, provisionVars, wireVars, findVars
<1>1. containers[c] \in Managers /\ of[containers[c]] = c /\ ppc[containers[c]] = "done"
  BY <1>0, HandlesTyped DEF WireSound
<1>2. TypeOK'
  BY <1>1 DEF TypeOK, SupInv, Delete, DGoto, provisionVars, wireVars, findVars
<1>3. /\ dh[d] = None /\ dh'[d] = containers[c] /\ dpc'[d] = "stop"
      /\ \A b \in Deletes \ {d} : dh'[b] = dh[b] /\ dpc'[b] = dpc[b]
      /\ containers'[c] = None /\ \A b \in Containers \ {c} : containers'[b] = containers[b]
  BY SMT DEF TypeOK, DeletesSound, Delete, DGoto
<1>4. ProvisionsSound' /\ DeletesSound'
  <2>1. \A h \in Managers : \A b \in since[h] : b \in Deletes /\ b # d
    BY <1>0 DEF ProvisionsSound, TypeOK
  <2>2. ProvisionsSound'
    BY <1>0, <1>3, <2>1, ZenonT(40) DEF ProvisionsSound
  <2>3. DeletesSound'
    <3>1. ASSUME NEW b \in Deletes \ {d}
          PROVE  IF dpc'[b] = "idle" THEN dh'[b] = None
                 ELSE dh'[b] \in Managers /\ ppc[dh'[b]] = "done" /\ b \notin since[dh'[b]]
      <4>1. dpc'[b] = dpc[b] /\ dh'[b] = dh[b]
        BY <1>3
      <4>2. IF dpc[b] = "idle" THEN dh[b] = None
            ELSE dh[b] \in Managers /\ ppc[dh[b]] = "done" /\ b \notin since[dh[b]]
        BY DEF DeletesSound
      <4> QED
        BY <4>1, <4>2, SMTT(30)
    <3>2. dh'[d] \in Managers /\ ppc[dh'[d]] = "done" /\ d \notin since[dh'[d]] /\ dpc'[d] # "idle"
      BY <1>1, <1>3, <2>1
    <3> QED
      BY <1>0, <3>1, <3>2 DEF DeletesSound
  <2> QED
    BY <2>2, <2>3
<1>5. \A b \in Deletes : dh[b] # None => dh'[b] = dh[b]
  BY <1>3
<1>6. PathKept'
  BY <1>0, <1>5, PathKeptStep
<1>7. SoleServes'
  <2>1. ASSUME NEW h \in Managers, ppc[h] \in {"register", "done"}
        PROVE  Deleted(of[h])' \/ containers'[of[h]] = containers[of[h]]
    <3>1. of[h] = c => Deleted(of[h])'
      BY <1>0, <1>1, <1>3, SupervisorAssumption DEF Deleted
    <3> QED
      BY <1>3, <2>1, <3>1 DEF ProvisionsSound
  <2> QED
    BY <1>0, <1>5, <2>1, SoleServesStep
<1>8. WireSound'
  BY <1>0, <1>3, <1>5, WireKept
<1>9. FindsSound'
  BY <1>0, FindsKept DEF Connected
<1> QED
  BY <1>2, <1>4, <1>6, <1>7, <1>8, <1>9

\* Stopping the server and removing the path: the container is deleted by then, and
\* only handles begun before this DeleteContainer ended are left without a server.
LEMMA DeleteStopInv ==
  ASSUME NodeInv, SupInv', NEW d \in Deletes, DeleteStop(d) \/ DeleteRemove(d)
  PROVE  NodeInv'
<1> USE DEF NodeInv
<1>0. /\ UNCHANGED <<at, sessions, ppc, of, since, conn, containers, dh, via, fpc, want, pending>>
      /\ dpc[d] \in {"stop", "remove"}
      /\ DeleteStop(d) => UNCHANGED closed
      /\ DeleteRemove(d) => UNCHANGED server
  BY DEF DeleteStop, DeleteRemove, svars, provisionVars, findVars
<1>1. dh[d] \in Managers /\ ppc[dh[d]] = "done" /\ of[dh[d]] \in Containers /\ dh[d] # None
  BY <1>0, SupervisorAssumption DEF DeletesSound, ProvisionsSound
<1>2. TypeOK'
  <2>0. /\ dpc' = [dpc EXCEPT ![d] = "remove"] \/ dpc' = [dpc EXCEPT ![d] = "done"]
        /\ socket' = [socket EXCEPT ![of[dh[d]]] = None]
        /\ server' = [server EXCEPT ![dh[d]] = "stopped"] \/ UNCHANGED server
        /\ \E H : steady' = [f \in Finds |-> steady[f] \ H]
    BY DEF DeleteStop, DeleteRemove, Stop, Upset, DGoto
  <2>1. dpc' \in [Deletes -> {"idle", "stop", "remove", "done"}]
    BY <2>0 DEF TypeOK
  <2>5. socket' \in [Containers -> Managers \cup {None}]
    BY <2>0 DEF TypeOK
  <2>2. closed' \subseteq Managers /\ dir' \subseteq Containers /\ mix' = mix
    BY <1>1 DEF TypeOK, DeleteStop, DeleteRemove
  <2>3. server' \in [Managers -> {"none", "serving", "stopped"}]
    BY <2>0 DEF TypeOK
  <2>4. steady' \in [Finds -> SUBSET Managers]
    BY <2>0, HandlesTyped
  <2> QED
    BY <1>0, <2>1, <2>2, <2>3, <2>4, <2>5 DEF TypeOK, SupInv
<1>3. /\ socket'[of[dh[d]]] = None
      /\ \A c \in Containers \ {of[dh[d]]} : socket'[c] = socket[c]
      /\ \A h \in Managers \ {dh[d]} : server'[h] = server[h] /\ (h \in closed' <=> h \in closed)
      /\ \A b \in Deletes \ {d} : dpc'[b] = dpc[b]
      /\ dpc'[d] \in {"remove", "done"}
  <2>1. CASE DeleteStop(d)
    BY <1>1, <2>1 DEF TypeOK, DeleteStop, Stop, DGoto
  <2>2. CASE DeleteRemove(d)
    BY <1>1, <2>2 DEF TypeOK, DeleteRemove, DGoto
  <2> QED
    BY <2>1, <2>2
<1>4. ProvisionsSound' /\ DeletesSound'
  <2>1. \A b \in Deletes : /\ dpc'[b] = "idle" <=> dpc[b] = "idle"
                           /\ dpc[b] = "done" => dpc'[b] = "done"
    BY <1>0, <1>3
  <2> QED
    BY <1>0, <2>1, ProvisionsKept
<1>5. \A h \in Managers : of[h] = of[dh[d]] => Deleted(of[h])' /\ DeletedSince(h)'
  <2>1. \A h \in Managers : d \notin since[h]
    BY <1>0 DEF ProvisionsSound
  <2> QED
    BY <1>0, <1>1, <2>1 DEF Deleted, DeletedSince
<1>6. PathKept'
  <2>1. ASSUME NEW h \in Managers, of[h] \in Containers, socket[of[h]] # None, server[socket[of[h]]] = "serving",
               of[h] # of[dh[d]]
        PROVE  socket'[of[h]] # None /\ server'[socket'[of[h]]] = "serving"
    <3>1. socket[of[h]] \in Managers /\ of[socket[of[h]]] = of[h]
      BY <2>1, HandlesTyped DEF WireSound
    <3>2. server'[socket[of[h]]] = server[socket[of[h]]] /\ socket'[of[h]] = socket[of[h]]
      BY <1>3, <2>1, <3>1
    <3> QED
      BY <2>1, <3>2
  <2> QED
    BY <1>0, <1>5, <2>1, PathKeptStep
<1>7. SoleServes'
  <2>1. ASSUME NEW h \in Managers, ppc[h] \in {"register", "done"}, of[h] # of[dh[d]]
        PROVE  socket'[of[h]] = socket[of[h]] /\ server'[h] = server[h]
    BY <1>3, <2>1 DEF ProvisionsSound
  <2> QED
    BY <1>0, <1>5, <2>1, SoleServesStep
<1>8. WireSound'
  <2>1. closed' \subseteq closed \cup {dh[d]}
    BY DEF DeleteStop, DeleteRemove
  <2> QED
    BY <1>0, <1>3, <2>1, WireKept
<1>9. FindsSound'
  <2>1. CASE DeleteStop(d)
    <3>1. \A f \in Finds : steady'[f] = steady[f] \ {h \in Managers : conn[h] = dh[d]}
      BY <2>1 DEF DeleteStop, Stop, Upset
    <3>2. ASSUME NEW f \in Finds, NEW h \in steady'[f], NEW m \in Managers, Connected(h, m)
          PROVE  Connected(h, m)'
      <4>1. conn[h] = m /\ m # dh[d]
        BY <3>1, <3>2, HandlesTyped DEF Connected
      <4> QED
        BY <1>0, <1>3, <2>1, <3>2, <4>1 DEF Connected
    <3> QED
      BY <1>0, <3>1, <3>2, FindsKept
  <2>2. CASE DeleteRemove(d)
    <3>1. \A f \in Finds : steady'[f] = steady[f] \ {dh[d]}
      BY <2>2 DEF DeleteRemove, Upset
    <3>2. ASSUME NEW f \in Finds, NEW h \in steady'[f], NEW m \in Managers, Connected(h, m)
          PROVE  Connected(h, m)'
      <4>1. h \in Managers \ {dh[d]}
        BY <3>1, HandlesTyped
      <4> QED
        BY <1>0, <1>3, <2>2, <3>2, <4>1 DEF Connected
    <3> QED
      BY <1>0, <3>1, <3>2, FindsKept
  <2> QED
    BY <2>1, <2>2
<1> QED
  BY <1>2, <1>4, <1>6, <1>7, <1>8, <1>9

LEMMA RequestInv ==
  ASSUME NodeInv, SupInv', NEW x \in Ensures \cup Opens, RequestStep(x)
  PROVE  NodeInv'
<1> USE DEF NodeInv
<1>0. UNCHANGED <<at, sessions, mix, ppc, of, since, dir, socket, server, conn, closed, containers, dpc, dh,
                  fpc, want, pending, steady>>
  BY DEF RequestStep, Route, RpcFails, svars, provisionVars, wireVars, deleteVars, findVars
<1>1. \/ via' = [via EXCEPT ![x] = None]
      \/ \E h \in Managers : ppc[h] = "done" /\ via' = [via EXCEPT ![x] = h]
  <2>1. \A c \in Containers : containers[c] # None => containers[c] \in Managers /\ ppc[containers[c]] = "done"
    BY HandlesTyped DEF WireSound
  <2> QED
    BY <2>1 DEF RequestStep, Route, RpcFails
<1>2. TypeOK'
  BY <1>0, <1>1, SMT DEF TypeOK, SupInv
<1>3. ProvisionsSound' /\ DeletesSound'
  BY <1>0, ProvisionsKept
<1>4. PathKept' /\ SoleServes'
  BY <1>0, PathKeptStep, SoleServesStep
<1>5. \A e \in Ensures : via'[e] # None => via'[e] = via[e] \/ ppc[via'[e]] = "done"
  BY <1>1 DEF TypeOK, Calls
<1>6. WireSound'
  BY <1>0, <1>5, WireKept
<1>7. FindsSound'
  BY <1>0, FindsKept DEF Connected
<1> QED
  BY <1>2, <1>3, <1>4, <1>6, <1>7

\* A search: a steady handle is neither unreachable nor connected to a supervisor
\* without the session, so that FindSkip never drops it.
LEMMA FindInv ==
  ASSUME NodeInv, SupInv', NEW f \in Finds, FindStep(f)
  PROVE  NodeInv'
<1> USE DEF NodeInv
<1>0. UNCHANGED <<at, sessions, mix, ppc, of, since, dir, socket, server, conn, closed, containers, dpc, dh>>
  BY DEF FindStep, FindBegin, FindSkip, FindHit, FindNone, FindSend, svars, provisionVars, wireVars, deleteVars
<1>1. TypeOK'
  <2>0. {containers[c] : c \in Containers} \ {None} \subseteq Managers
    BY HandlesTyped
  <2>1. want' \in [Finds -> SessionIDs \cup {None}]
    <3>1. UNCHANGED want \/ \E s \in SessionIDs : want' = [want EXCEPT ![f] = s]
      BY DEF FindStep, FindBegin, FindSkip, FindHit, FindNone, FindSend
    <3> QED
      BY <3>1 DEF TypeOK
  <2>2. fpc' \in [Finds -> {"idle", "scan", "send", "reached", "notFound", "error"}]
    <3>1. \E l \in {"scan", "send", "reached", "notFound", "error"} :
            fpc' = fpc \/ fpc' = [fpc EXCEPT ![f] = l]
      BY DEF FindStep, FindBegin, FindSkip, FindHit, FindNone, FindSend, FGoto
    <3> QED
      BY <3>1 DEF TypeOK
  <2>3. via' \in [Calls -> Managers \cup {None}]
    BY DEF TypeOK, FindStep, FindBegin, FindSkip, FindHit, FindNone, FindSend, Calls
  <2>4. pending' \in [Finds -> SUBSET Managers]
    <3>1. \A g \in Finds : pending[g] \subseteq Managers
      BY DEF TypeOK
    <3>2. UNCHANGED pending \/ \E H \in SUBSET Managers : pending' = [pending EXCEPT ![f] = H]
      BY <2>0, <3>1 DEF FindStep, FindBegin, FindSkip, FindHit, FindNone, FindSend
    <3> QED
      BY <3>2 DEF TypeOK
  <2>5. steady' \in [Finds -> SUBSET Managers]
    <3>1. UNCHANGED steady \/ \E H \in SUBSET Managers : steady' = [steady EXCEPT ![f] = H]
      BY <2>0 DEF FindStep, FindBegin, FindSkip, FindHit, FindNone, FindSend
    <3> QED
      BY <3>1 DEF TypeOK
  <2> QED
    BY <1>0, <2>1, <2>2, <2>3, <2>4, <2>5 DEF TypeOK, SupInv
<1>2. ProvisionsSound' /\ DeletesSound' /\ PathKept' /\ SoleServes'
  BY <1>0, ProvisionsKept, PathKeptStep, SoleServesStep
<1>3. WireSound'
  <2>1. \A e \in Ensures : via'[e] = via[e]
    <3>1. UNCHANGED via \/ \E h \in Managers : via' = [via EXCEPT ![f] = h]
      BY DEF FindStep, FindBegin, FindSkip, FindHit, FindNone, FindSend
    <3> QED
      BY <3>1, CallsAssumption DEF TypeOK, Calls
  <2> QED
    BY <1>0, <2>1, WireKept
<1>4. \A h, m \in Managers : Connected(h, m) <=> Connected(h, m)'
  BY <1>0 DEF Connected
<1>5. \A g \in Finds \ {f} : /\ fpc'[g] = fpc[g] /\ want'[g] = want[g]
                             /\ pending'[g] = pending[g] /\ steady'[g] = steady[g]
  <2>1. ASSUME NEW s \in SessionIDs, NEW g \in Finds \ {f}, FindBegin(f, s)
        PROVE  fpc'[g] = fpc[g] /\ want'[g] = want[g] /\ pending'[g] = pending[g] /\ steady'[g] = steady[g]
    BY <2>1 DEF FindBegin, FGoto, TypeOK
  <2>2. ASSUME NEW h \in Managers, NEW g \in Finds \ {f}, FindSkip(f, h) \/ FindHit(f, h)
        PROVE  fpc'[g] = fpc[g] /\ want'[g] = want[g] /\ pending'[g] = pending[g] /\ steady'[g] = steady[g]
    BY <2>2, SMT DEF FindSkip, FindHit, FGoto, TypeOK
  <2>3. ASSUME NEW g \in Finds \ {f}, FindNone(f) \/ FindSend(f)
        PROVE  fpc'[g] = fpc[g] /\ want'[g] = want[g] /\ pending'[g] = pending[g] /\ steady'[g] = steady[g]
    BY <2>3 DEF FindNone, FindSend, FGoto, TypeOK
  <2> QED
    BY <2>1, <2>2, <2>3 DEF FindStep
<1> DEFINE Searching ==
             /\ \A h \in steady'[f] : \E m \in Managers : Connected(h, m) /\ Holds(m, want'[f])
             /\ fpc'[f] # "idle" /\ want'[f] \in SessionIDs
             /\ fpc'[f] = "scan" => steady'[f] \subseteq pending'[f]
             /\ fpc'[f] = "notFound" => steady'[f] = {}
<1>6. Searching
  <2>1. ASSUME NEW s \in SessionIDs, FindBegin(f, s) PROVE Searching
    BY <2>1 DEF FindBegin, FGoto, TypeOK
  <2>2. ASSUME NEW h \in Managers, FindSkip(f, h) PROVE Searching
    <3>1. h \notin steady[f]
      <4>1. ASSUME h \in steady[f] PROVE FALSE
        <5>1. PICK m \in Managers : Connected(h, m) /\ Holds(m, want[f])
          BY <4>1 DEF FindsSound
        <5>2. ~Unreachable(h)
          BY <5>1 DEF Unreachable, Connected
        <5> QED
          BY <2>2, <5>1, <5>2 DEF FindSkip, Connected
      <4> QED
        BY <4>1
    <3> QED
      BY <2>2, <3>1 DEF FindSkip, FindsSound, TypeOK
  <2>3. ASSUME NEW h \in Managers, FindHit(f, h) PROVE Searching
    BY <2>3 DEF FindHit, FGoto, FindsSound, TypeOK
  <2>4. ASSUME FindNone(f) PROVE Searching
    BY <2>4 DEF FindNone, FGoto, FindsSound, TypeOK
  <2>5. ASSUME FindSend(f) PROVE Searching
    BY <2>5, SMT DEF FindSend, FGoto, FindsSound, TypeOK
  <2> QED
    BY <2>1, <2>2, <2>3, <2>4, <2>5 DEF FindStep
<1>7. FindsSound'
  <2>1. \A g \in Finds : steady'[g] \subseteq Managers
    BY <1>1 DEF TypeOK
  <2>2. sessions' = sessions
    BY <1>0
  <2>3. ASSUME NEW g \in Finds
        PROVE  /\ \A h \in steady'[g] : \E m \in Managers : Connected(h, m) /\ Holds(m, want'[g])
               /\ IF fpc'[g] = "idle" THEN steady'[g] = {} ELSE want'[g] \in SessionIDs
               /\ fpc'[g] = "scan" => steady'[g] \subseteq pending'[g]
               /\ fpc'[g] = "notFound" => steady'[g] = {}
    <3>1. CASE g = f
      BY <1>6, <3>1
    <3>2. CASE g # f
      BY <1>5, <3>2 DEF FindsSound
    <3> QED
      BY <3>1, <3>2
  <2> QED
    BY <1>4, <2>1, <2>2, <2>3 DEF FindsSound, Holds
<1> QED
  BY <1>1, <1>2, <1>3, <1>7

LEMMA NodeStepInv == NodeInv /\ [Next]_vars => NodeInv'
<1> SUFFICES ASSUME NodeInv, [Next]_vars PROVE NodeInv'
  OBVIOUS
<1>0. SupInv'
  BY NodeStepRefines, SupStepInv DEF NodeInv
<1>1. ASSUME UNCHANGED vars PROVE NodeInv'
  BY <1>0, <1>1, SupervisorStepInv DEF vars, svars, Holds
<1>2. ASSUME InsideStep PROVE NodeInv'
  <2>1. \A e \in Ensures : at'[e] = at[e]
    BY <1>2 DEF InsideStep, Inside, EnsureStep, EnsureStart, EnsureInitialized, EnsureInitFails,
       EnsureRegister, AgentExit, Wait, OpenStep, OpenCall, OpenStore, ensureVars
  <2>2. \A m \in Managers, s \in SessionIDs : Holds(m, s) => Holds(m, s)'
    <3>1. ASSUME NEW o \in Opens, OpenStore(o)
          PROVE  \A m \in Managers, s \in SessionIDs : Holds(m, s) => Holds(m, s)'
      BY <3>1, SupervisorAssumption, SMT DEF OpenStore, Holds, NodeInv, SupInv, SupTypeOK, OpensSound
    <3> QED
      BY <1>2, <3>1 DEF InsideStep, Inside, EnsureStep, EnsureStart, EnsureInitialized, EnsureInitFails,
         EnsureRegister, AgentExit, Wait, OpenStep, OpenCall, Holds
  <2> QED
    BY <1>0, <1>2, <2>1, <2>2, SupervisorStepInv DEF InsideStep
<1>3. ASSUME NEW e \in Ensures, RpcEnsure(e) PROVE NodeInv'
  <2>1. PICK m \in Managers : via[e] # None /\ Connected(via[e], m) /\ EnsureLookup(e, m)
    BY <1>3 DEF RpcEnsure
  <2>2. \A a \in Ensures : at'[a] = at[a] \/ (a = e /\ at'[a] = m)
    BY <2>1 DEF EnsureLookup, NodeInv, SupInv, SupTypeOK
  <2>3. UNCHANGED <<sessions, nodeVars>>
    BY <1>3, <2>1 DEF RpcEnsure, EnsureLookup
  <2> QED
    BY <1>0, <2>1, <2>2, <2>3, SupervisorStepInv DEF Holds
<1>4. ASSUME NEW o \in Opens, NEW a \in Ensures, NEW s \in SessionIDs, RpcOpen(o, a, s) PROVE NodeInv'
  BY <1>0, <1>4, SupervisorStepInv DEF RpcOpen, OpenLookup, ensureVars, Holds
<1>5. ASSUME NEW p \in Managers, ProvisionStep(p) \/ WireStep(p) PROVE NodeInv'
  BY <1>0, <1>5, ProvisionInv, ProvisionMkdirFailsInv, ProvisionListenInv, ProvisionDialFailsInv,
     ProvisionRegisterInv, WireInv DEF ProvisionStep
<1>6. ASSUME NEW d \in Deletes, DeleteStep(d) PROVE NodeInv'
  BY <1>0, <1>6, DeleteInv, DeleteStopInv DEF DeleteStep
<1>7. ASSUME NEW x \in Ensures \cup Opens, RequestStep(x) PROVE NodeInv'
  BY <1>0, <1>7, RequestInv
<1>8. ASSUME NEW f \in Finds, FindStep(f) PROVE NodeInv'
  BY <1>0, <1>8, FindInv
<1> QED
  BY <1>1, <1>2, <1>3, <1>4, <1>5, <1>6, <1>7, <1>8 DEF Next

-----------------------------------------------------------------------------
LEMMA DirKeptStep ==
  ASSUME NodeInv, DirKept, [Next]_vars
  PROVE  DirKept'
<1> USE NodeAssumption DEF NodeInv, provisionVars, deleteVars, wireVars
<1>1. CASE UNCHANGED <<provisionVars, deleteVars, dir>>
  BY <1>1 DEF DirKept, DeletedSince
<1>2. ASSUME NEW p \in Managers, NEW c \in Containers, Provision(p, c)
      PROVE  DirKept'
  <2>1. /\ of' = [of EXCEPT ![p] = c] /\ dir' = dir \cup {c} /\ ppc[p] = "idle"
        /\ \A h \in Managers \ {p} : ppc'[h] = ppc[h] /\ since'[h] = since[h] /\ of'[h] = of[h]
        /\ of'[p] = c /\ UNCHANGED deleteVars
    BY <1>2 DEF Provision, PGoto, TypeOK
  <2>2. ASSUME NEW d \in Deletes, dh[d] # None PROVE dh[d] \in Managers \ {p}
    <3>1. dh[d] \in Managers /\ ppc[dh[d]] = "done"
      BY <2>2 DEF DeletesSound
    <3> QED
      BY <2>1, <3>1
  <2>3. ASSUME NEW h \in Managers \ {p}, DeletedSince(h) PROVE DeletedSince(h)'
    <3>1. PICK d \in Deletes : dh[d] # None /\ of[dh[d]] = of[h] /\ d \notin since[h]
      BY <2>3 DEF DeletedSince
    <3>2. dh'[d] # None /\ of'[dh'[d]] = of'[h] /\ d \notin since'[h]
      BY <2>1, <2>2, <3>1 DEF deleteVars
    <3> QED
      BY <3>2 DEF DeletedSince
  <2> QED
    BY <2>1, <2>3, SMT DEF DirKept
<1>11. ASSUME NEW p \in Managers, NEW c \in Containers, ProvisionMkdirFails(p, c)
       PROVE  DirKept'
  BY <1>11 DEF ProvisionMkdirFails, DirKept, DeletedSince
<1>3. ASSUME NEW p \in Managers,
             ProvisionListen(p) \/ ProvisionDialFails(p) \/ ProvisionRegister(p)
      PROVE  DirKept'
  <2>1. ppc[p] # "idle" /\ UNCHANGED <<of, since, deleteVars, dir>>
    BY <1>3 DEF ProvisionListen, ProvisionDialFails, ProvisionRegister
  <2>2. \A h \in Managers : ppc'[h] # "idle" => ppc[h] # "idle"
    BY <1>3, <2>1 DEF ProvisionListen, ProvisionDialFails, ProvisionRegister, PGoto, TypeOK
  <2> QED
    BY <2>1, <2>2 DEF DirKept, DeletedSince
<1>4. ASSUME NEW d \in Deletes, DeleteStep(d)
      PROVE  DirKept'
  <2>1. CASE \E c \in Containers : Delete(d, c)
    <3>1. dh[d] = None /\ UNCHANGED <<provisionVars, dir>>
      BY <2>1 DEF Delete, DeletesSound
    <3>2. \A b \in Deletes : dh[b] # None => dh'[b] = dh[b]
      BY <2>1, <3>1, SMT DEF Delete, TypeOK
    <3> QED
      BY <3>1, <3>2 DEF DirKept, DeletedSince
  <2>2. CASE DeleteStop(d)
    BY <2>2 DEF DeleteStop, DirKept, DeletedSince
  <2>3. CASE DeleteRemove(d)
    <3>0. dpc[d] = "remove" /\ UNCHANGED <<provisionVars, dh>> /\ dir' = dir \ {of[dh[d]]}
      BY <2>3 DEF DeleteRemove
    <3>1. dh[d] \in Managers /\ dh[d] # None
      BY <3>0, SupervisorAssumption DEF DeletesSound
    <3>2. \A h \in Managers : of[h] = of[dh[d]] => DeletedSince(h)
      BY <3>0, <3>1 DEF DeletedSince, ProvisionsSound
    <3> QED
      BY <3>0, <3>1, <3>2 DEF DirKept, DeletedSince
  <2> QED
    BY <1>4, <2>1, <2>2, <2>3 DEF DeleteStep
<1>5. CASE UNCHANGED vars
  BY <1>1, <1>5 DEF vars, nodeVars
<1>6. CASE InsideStep
  BY <1>1, <1>6 DEF InsideStep, nodeVars
<1>7. ASSUME NEW p \in Managers, WireStep(p)
      PROVE  DirKept'
  BY <1>1, <1>7 DEF WireStep, Connect, Idle
<1>8. ASSUME NEW x \in Ensures \cup Opens, RequestStep(x)
      PROVE  DirKept'
  BY <1>1, <1>8 DEF RequestStep, Route, RpcFails
<1>9. CASE \/ \E e \in Ensures : RpcEnsure(e)
           \/ \E o \in Opens, a \in Ensures, s \in SessionIDs : RpcOpen(o, a, s)
  BY <1>1, <1>9 DEF RpcEnsure, RpcOpen, nodeVars
<1>10. ASSUME NEW f \in Finds, FindStep(f)
       PROVE  DirKept'
  BY <1>1, <1>10 DEF FindStep, FindBegin, FindSkip, FindHit, FindNone, FindSend
<1> QED
  BY <1>2, <1>3, <1>4, <1>5, <1>6, <1>7, <1>8, <1>9, <1>10, <1>11 DEF Next, ProvisionStep

LEMMA NodeInvImplies ==
  NodeInv /\ DirKept => TypeOK /\ HandleReaches /\ OrphansAccounted /\ NotFoundGenuine
<1> SUFFICES ASSUME NodeInv, DirKept PROVE TypeOK /\ HandleReaches /\ OrphansAccounted /\ NotFoundGenuine
  OBVIOUS
<1> USE SupervisorAssumption DEF NodeInv
<1>1. HandleReaches
  <2>0. \A c \in Containers : containers[c] # None =>
          containers[c] \in Managers /\ of[containers[c]] = c /\ ppc[containers[c]] = "done"
    BY HandlesTyped DEF WireSound
  <2> SUFFICES ASSUME NEW c \in Containers, containers[c] # None, ~DeletedSince(containers[c])
               PROVE  c \in dir /\ (~Spoiled(containers[c]) => ~Unreachable(containers[c]))
    BY <2>0 DEF HandleReaches, DeletedSince, Spoiled
  <2>1. containers[c] \in Managers /\ of[containers[c]] = c /\ ppc[containers[c]] = "done"
    BY <2>0
  <2>5. c \in dir
    BY <2>1 DEF DirKept
  <2> SUFFICES ASSUME ~Spoiled(containers[c]) PROVE ~Unreachable(containers[c])
    BY <2>5
  <2>2. socket[c] # None /\ server[socket[c]] = "serving"
    BY <2>1 DEF PathKept
  <2>3. socket[c] \in Managers
    BY <2>2, HandlesTyped
  <2>4. containers[c] \notin closed
    <3>1. ASSUME NEW d \in Deletes, dh[d] = containers[c] PROVE FALSE
      <4>1. d \notin since[containers[c]]
        BY <2>1, <3>1 DEF DeletesSound
      <4> QED
        BY <2>1, <3>1, <4>1 DEF DeletedSince
    <3> QED
      BY <3>1 DEF WireSound
  <2> QED
    BY <2>1, <2>2, <2>3, <2>4 DEF Unreachable, Listening
<1>2. OrphansAccounted
  <2> SUFFICES ASSUME NEW e \in Ensures, proc[e] = "up", pc[e] \in {"done", "error"},
                      ~Deleted(of[at[e]]), Sole(at[e])
               PROVE  LeadsTo(of[at[e]], at[e]) /\ agents[at[e]][agentKey[e]] # None
    BY DEF OrphansAccounted, Deleted, Sole
  <2>1. pc[e] = "done" /\ at[e] \in Managers /\ agents[at[e]][agentKey[e]] # None
    BY DEF SupInv, NoStrayProcess, EnsuresSound
  <2>2. of[at[e]] \in Containers /\ ppc[at[e]] = "done" /\ at[e] # None
    BY <2>1 DEF WireSound
  <2>3. socket[of[at[e]]] = at[e] /\ server[at[e]] = "serving" /\ containers[of[at[e]]] = at[e]
    <3>1. at[e] \in Managers /\ ppc[at[e]] \in {"register", "done"}
      BY <2>1, <2>2, ZenonT(40)
    <3> QED
      BY <2>2, <3>1 DEF SoleServes
  <2>4. at[e] \notin closed
    <3>1. \A h \in closed : \E d \in Deletes : dh[d] = h
      BY DEF WireSound
    <3> QED
      BY <2>2, <3>1, SMT DEF Deleted
  <2> QED
    BY <2>1, <2>2, <2>3, <2>4 DEF LeadsTo, Listening
<1>3. NotFoundGenuine
  BY DEF FindsSound, NotFoundGenuine
<1> QED
  BY <1>1, <1>2, <1>3

\* What the runs check of a node, for any number of containers, calls and sessions:
\* handles lead to a server and have their directory, orphans have a cause, and a
\* session that a steady handle leads to is found.
THEOREM NodeCorrect == Spec => [](TypeOK /\ HandleReaches /\ OrphansAccounted /\ NotFoundGenuine)
<1>1. Init => DirKept
  BY SMT DEF Init, DirKept
<1> QED
  BY <1>1, NodeInitInv, NodeStepInv, DirKeptStep, NodeInvImplies, PTL DEF Spec

\* The properties of the supervisors hold of a node, by refinement.
THEOREM NodeSupervisorsCorrect ==
  Spec => [](SessionsAreRouted /\ NoStrayProcess /\ OnlyReplacedSessionsLost)
BY NodeImplementsSupervisors, SupervisorsCorrect, PTL

\* An agent process that no handle leads to was left behind by a delete of its
\* container or by provisioning the container again.
THEOREM NodeAccountsForOrphans == Spec => []OrphansAccounted
BY NodeCorrect, PTL

\* Prompt and Cancel answer not-found only when no handle has led to a supervisor
\* with the session since they began.
THEOREM NodeNotFoundGenuine == Spec => []NotFoundGenuine
BY NodeCorrect, PTL

\* On a node too every agent that was made ready is waited for, however requests,
\* provisioning and deletion interleave; what ExitIsNoticed rests on.
THEOREM NodeWatchesExits == Spec => []Watched
BY NodeImplementsSupervisors, ExitsWatched, PTL

=============================================================================
