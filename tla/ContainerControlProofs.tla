----------------------- MODULE ContainerControlProofs -----------------------
(***************************************************************************)
(* Proofs about ContainerControl, for any set of updates of any kinds, any *)
(* number of attempts and any number of faults.                            *)
(*                                                                         *)
(* What the properties say of a delete or a session that was answered      *)
(* depends on what its earlier attempts left behind; the invariant follows *)
(* the supervisor a delete took out of the map, the row an attempt read    *)
(* and the session it made through the places of the activity.             *)
(***************************************************************************)
EXTENDS ContainerControl, TLAPS

\* Places only some kinds of updates get to, and what the attempt knows there.
PlacesSound ==
  \A u \in Updates :
    /\ pc[u] = "stop" => kind[u] = "delete"
    /\ pc[u] = "note" => kind[u] = "install"
    /\ pc[u] = "child" => kind[u] \in SessionKinds
    /\ pc[u] \in {"write", "return"} =>
         /\ kind[u] = "start" => copy[u] = "ready"
         /\ kind[u] = "hibernate" => copy[u] = "hibernating"
         /\ kind[u] = "delete" => copy[u] = "deleted"

\* There is no row, and no copy of one, before the first supervisor; and while
\* nobody deletes and the node does not restart, it or a later one is registered.
NoDelete == \A u \in Updates : kind[u] = "delete" => pc[u] = "idle"

RowsSound ==
  /\ row # "none" => built > 0
  /\ \A u \in Updates : copy[u] # "none" => built > 0
  /\ built > 0 /\ restarts = 0 /\ NoDelete => handle # 0

\* A supervisor that a delete took out of the map has stopped or is about to.
GoneSound ==
  \A u \in Updates :
    /\ gone[u] # 0 => gone[u] \in stopping \/ gone[u] \notin serving
    /\ kind[u] = "delete" /\ pc[u] \in {"stop", "write", "return", "done"} => gone[u] # 0
    /\ kind[u] = "delete" /\ pc[u] \in {"write", "return", "done"} => gone[u] \notin stopping

\* A session's row comes before its workflow, and that before the answer.
SessionsSound ==
  \A u \in Updates : kind[u] \in SessionKinds =>
    /\ pc[u] \in {"child", "return", "done"} => made[u] \in sessions
    /\ pc[u] \in {"return", "done"} => made[u] \in children \/ wf = "completed"

CtrInv ==
  TypeOK /\ PlacesSound /\ HandleServes /\ RowsSound /\ GoneSound /\ SessionsSound

LEMMA CtrInit == Init => CtrInv
<1> SUFFICES ASSUME Init PROVE CtrInv
  OBVIOUS
<1> USE ContainerAssumption
<1>1. TypeOK
  BY DEF Init, TypeOK, SessionIDs
<1>2. PlacesSound /\ HandleServes /\ RowsSound /\ GoneSound /\ SessionsSound
  BY DEF Init, PlacesSound, HandleServes, RowsSound, GoneSound, SessionsSound
<1> QED
  BY <1>1, <1>2 DEF CtrInv

-----------------------------------------------------------------------------
(* The steps of updates and attempts.                                      *)

\* Updates are sent, attempts fail: only the place of u changes, to a first line or
\* to the error.
LEMMA RetryInv ==
  ASSUME CtrInv, NEW u \in Updates, Update(u) \/ AttemptFails(u) \/ AttemptNotFound(u)
  PROVE  CtrInv'
<1> USE ContainerAssumption DEF CtrInv
<1>1. UNCHANGED <<mix, row, digests, sessions, actVars, nodeVars, wfState, deleted, children>>
  BY DEF Update, AttemptFails, AttemptNotFound, rowVars, wfVars
<1>2. PICK l \in {"read", "node", "error"} : pc' = [pc EXCEPT ![u] = l]
  BY DEF Update, AttemptFails, AttemptNotFound, Retry, Goto
<1>3. wf' = wf \/ (wf # "completed" /\ wf' = "running")
  BY DEF Update, AttemptFails, AttemptNotFound, wfVars
<1>4. attempt' \in [Updates -> 1..MaxAttempts] /\ faults' \in 0..MaxFaults
  BY DEF Update, AttemptFails, AttemptNotFound, Retry, Fault, TypeOK
<1>5. TypeOK'
  BY <1>1, <1>2, <1>3, <1>4, ZenonT(40) DEF TypeOK, actVars, nodeVars, Running, InActivity, SessionIDs
<1>6. \A v \in Updates : pc'[v] = pc[v] \/ pc'[v] = l
  BY <1>2 DEF TypeOK
<1>7. PlacesSound' /\ GoneSound' /\ SessionsSound'
  BY <1>1, <1>3, <1>6 DEF PlacesSound, GoneSound, SessionsSound, actVars, nodeVars
<1>8. HandleServes' /\ RowsSound'
  BY <1>1, <1>6 DEF HandleServes, RowsSound, NoDelete, actVars, nodeVars
<1> QED
  BY <1>5, <1>7, <1>8

\* Steps inside the activity that leave the node as it is.
LEMMA ActivityInv ==
  ASSUME CtrInv, NEW u \in Updates,
         \/ ReadContainer(u) \/ EnsureAgent(u) \/ CreateSession(u) \/ HibernateContainer(u)
         \/ \E s \in SessionIDs : LoadSession(u, s)
         \/ WriteAgent(u)
  PROVE  CtrInv'
<1> USE ContainerAssumption DEF CtrInv
<1>1. UNCHANGED <<rowVars, attempt, gone, nodeVars, wfVars, faults>>
  BY DEF ReadContainer, EnsureAgent, CreateSession, HibernateContainer, LoadSession, WriteAgent, actVars
<1>2. PICK l \in {"node", "write", "note"} : pc' = [pc EXCEPT ![u] = l]
  BY DEF ReadContainer, EnsureAgent, CreateSession, HibernateContainer, LoadSession, WriteAgent, Goto
<1>3. /\ pc[u] \in {"read", "node", "write"}
      /\ kind[u] = "delete" => pc[u] = "read" /\ l = "node"
      /\ kind[u] = "start" => pc[u] = "read" /\ l = "node"
      /\ l = "note" => kind[u] = "install"
      /\ kind[u] = "hibernate" /\ l = "write" => copy'[u] = "hibernating"
  BY <1>2 DEF ReadContainer, EnsureAgent, CreateSession, HibernateContainer, LoadSession, WriteAgent,
     Goto, TypeOK, SessionKinds
<1>4. /\ copy' \in [Updates -> {"none", "ready", "hibernating", "deleted"}]
      /\ copyDig' \in [Updates -> SUBSET {digest[v] : v \in Updates}]
      /\ made' \in [Updates -> SessionIDs]
  BY DEF ReadContainer, EnsureAgent, CreateSession, HibernateContainer, LoadSession, WriteAgent,
     actVars, TypeOK, NewSession, SessionIDs
<1>5. /\ \A v \in Updates \ {u} : copy'[v] = copy[v] /\ made'[v] = made[v] /\ pc'[v] = pc[v]
      /\ pc'[u] = l
      /\ copy'[u] = copy[u] \/ copy'[u] = row \/ handle # 0
  BY <1>2 DEF ReadContainer, EnsureAgent, CreateSession, HibernateContainer, LoadSession, WriteAgent,
     actVars, TypeOK
<1>6. TypeOK'
  BY <1>1, <1>2, <1>4, ZenonT(40) DEF TypeOK, rowVars, nodeVars, wfVars, Running, InActivity, SessionIDs
<1>7. PlacesSound'
  BY <1>1, <1>3, <1>5 DEF PlacesSound
<1>8. HandleServes'
  BY <1>1 DEF HandleServes, nodeVars
<1>9. RowsSound'
  <2>1. NoDelete' => NoDelete
    BY <1>3, <1>5 DEF NoDelete
  <2>2. handle # 0 => built > 0
    BY DEF TypeOK
  <2> QED
    BY <1>1, <1>5, <2>1, <2>2 DEF RowsSound, rowVars, nodeVars
<1>10. GoneSound'
  BY <1>1, <1>3, <1>5 DEF GoneSound, nodeVars
<1>11. SessionsSound'
  BY <1>1, <1>3, <1>5 DEF SessionsSound, rowVars, wfVars
<1> QED
  BY <1>6, <1>7, <1>8, <1>9, <1>10, <1>11

\* The row writes of an activity, and the end of its handler.
LEMMA WriteInv ==
  ASSUME CtrInv, NEW u \in Updates,
         WriteContainer(u) \/ WriteSession(u) \/ NoteDigest(u) \/ StartChild(u) \/ HandlerReturns(u)
  PROVE  CtrInv'
<1> USE ContainerAssumption DEF CtrInv
<1>1. UNCHANGED <<mix, attempt, actVars, nodeVars, wf>>
  BY SMTT(30) DEF WriteContainer, WriteSession, NoteDigest, StartChild, HandlerReturns, rowVars, wfVars
<1>2. PICK l \in {"return", "child", "done", "error"} : pc' = [pc EXCEPT ![u] = l]
  BY DEF WriteContainer, WriteSession, NoteDigest, StartChild, HandlerReturns, Goto
<1>3. (\A v \in Updates \ {u} : pc'[v] = pc[v]) /\ pc'[u] = l
  BY <1>2, SMTT(30) DEF TypeOK
<1>4. /\ pc[u] \in {"write", "note", "child", "return"}
      /\ l = "return" => pc[u] \in {"write", "note", "child"}
      /\ l = "return" /\ pc[u] = "write" => kind[u] \in {"start", "hibernate", "delete"}
      /\ l = "child" => pc[u] = "write" /\ kind[u] \in SessionKinds
      /\ l = "done" => pc[u] = "return"
      /\ l = "error" => pc[u] = "child"
  BY <1>2, <1>3 DEF WriteContainer, WriteSession, NoteDigest, StartChild, HandlerReturns, Goto, TypeOK
<1>5. row' = row \/ row' = copy[u]
  BY DEF WriteContainer, WriteSession, NoteDigest, StartChild, HandlerReturns, rowVars
<1>6. /\ digests' \subseteq {digest[v] : v \in Updates}
      /\ sessions' \subseteq SessionIDs /\ children' \subseteq SessionIDs
      /\ sessions \subseteq sessions' /\ children \subseteq children'
  BY SMTT(30) DEF WriteContainer, WriteSession, NoteDigest, StartChild, HandlerReturns, rowVars, wfVars, TypeOK
<1>7. wfState' \in {"requested", "ready", "hibernating", "deleted"} /\ deleted' \in {"yes", "no"}
  BY DEF WriteContainer, WriteSession, NoteDigest, StartChild, HandlerReturns, wfVars, TypeOK, PlacesSound
<1>8. faults' \in 0..MaxFaults
  BY DEF WriteContainer, WriteSession, NoteDigest, StartChild, HandlerReturns, Fault, TypeOK
<1>9. /\ l = "child" => made[u] \in sessions'
      /\ l = "return" /\ kind[u] \in SessionKinds => made[u] \in children'
  BY <1>2, <1>3, SMTT(30) DEF WriteContainer, WriteSession, NoteDigest, StartChild, HandlerReturns, Goto, TypeOK,
     PlacesSound, SessionKinds
<1>10. TypeOK'
  BY <1>1, <1>2, <1>5, <1>6, <1>7, <1>8 DEF TypeOK, actVars, nodeVars, Running, InActivity, SessionIDs
<1>11. PlacesSound'
  BY <1>1, <1>3, <1>4 DEF PlacesSound, actVars, SessionKinds
<1>12. HandleServes'
  BY <1>1, SMTT(30) DEF HandleServes, nodeVars
<1>13. RowsSound'
  <2>1. NoDelete' => NoDelete
    BY <1>3, SMTT(30) DEF NoDelete
  <2> QED
    BY <1>1, <1>5, <2>1 DEF RowsSound, actVars, nodeVars
<1>14. GoneSound'
  BY <1>1, <1>3, <1>4 DEF GoneSound, PlacesSound, actVars, nodeVars, SessionKinds
<1>15. SessionsSound'
  BY <1>1, <1>3, <1>4, <1>6, <1>9 DEF SessionsSound, PlacesSound, SessionKinds, actVars
<1> QED
  BY <1>10, <1>11, <1>12, <1>13, <1>14, <1>15, SMTT(30)

-----------------------------------------------------------------------------
(* The steps of the node.                                                  *)

LEMMA ProvisionInv ==
  ASSUME CtrInv, NEW u \in Updates, ProvisionContainer(u)
  PROVE  CtrInv'
<1> USE ContainerAssumption DEF CtrInv
<1>1. /\ pc[u] = "node" /\ kind[u] = "start" /\ built' = built + 1 /\ handle' = built + 1
      /\ serving' = serving \cup {built + 1} /\ root' = "present"
      /\ UNCHANGED <<rowVars, attempt, made, gone, stopping, restarts, wfVars, faults>>
  BY DEF ProvisionContainer
<1>2. /\ \A v \in Updates \ {u} : pc'[v] = pc[v] /\ copy'[v] = copy[v]
      /\ pc'[u] = "write" /\ copy'[u] = "ready"
  BY DEF ProvisionContainer, Goto, TypeOK
<1>3. built \in Nat /\ stopping \subseteq 1..built /\ serving \subseteq 1..built
      /\ \A v \in Updates : gone[v] \in 0..built
  BY SMTT(30) DEF TypeOK
<1>4. TypeOK'
  <2>1. pc' \in [Updates -> Running \cup {"idle", "done", "error"}]
    BY SMTT(30) DEF ProvisionContainer, Goto, TypeOK, Running, InActivity
  <2>2. /\ copy' \in [Updates -> {"none", "ready", "hibernating", "deleted"}]
        /\ copyDig' \in [Updates -> SUBSET {digest[v] : v \in Updates}]
    BY SMTT(30) DEF ProvisionContainer, TypeOK
  <2>3. /\ gone' \in [Updates -> 0..built'] /\ handle' \in 0..built'
        /\ serving' \subseteq 1..built' /\ stopping' \subseteq 1..built' /\ built' \in Nat
    <3>1. built' \in Nat /\ 0..built \subseteq 0..built' /\ 1..built \subseteq 1..built'
          /\ built + 1 \in 1..built' /\ built + 1 \in 0..built'
      BY <1>1, <1>3, SMTT(30)
    <3>2. gone' \in [Updates -> 0..built']
      BY <1>1, <3>1, SMTT(30) DEF TypeOK
    <3> QED
      BY <1>1, <1>3, <3>1, <3>2, ZenonT(40)
  <2> QED
    BY <1>1, <2>1, <2>2, <2>3, SMTT(30) DEF TypeOK, rowVars, wfVars, SessionIDs
<1>5. PlacesSound'
  <2> SUFFICES ASSUME NEW v \in Updates
               PROVE  /\ pc'[v] = "stop" => kind[v] = "delete"
                      /\ pc'[v] = "note" => kind[v] = "install"
                      /\ pc'[v] = "child" => kind[v] \in SessionKinds
                      /\ pc'[v] \in {"write", "return"} =>
                           /\ kind[v] = "start" => copy'[v] = "ready"
                           /\ kind[v] = "hibernate" => copy'[v] = "hibernating"
                           /\ kind[v] = "delete" => copy'[v] = "deleted"
    BY ZenonT(40) DEF PlacesSound
  <2>1. CASE v = u
    <3>1. pc'[v] = "write" /\ copy'[v] = "ready" /\ kind[v] = "start"
      BY <1>1, <1>2, <2>1, ZenonT(40)
    <3> QED
      BY <3>1
  <2>2. CASE v # u
    <3>1. pc'[v] = pc[v] /\ copy'[v] = copy[v]
      BY <1>2, <2>2, ZenonT(40)
    <3> QED
      BY <3>1, ZenonT(40) DEF PlacesSound
  <2> QED
    BY <2>1, <2>2, ZenonT(40)
<1>6. HandleServes'
  <2>1. built + 1 \notin stopping
    BY <1>3, SMTT(30)
  <2>2. handle' \in serving' /\ handle' \notin stopping' /\ root' = "present"
    BY <1>1, <2>1, ZenonT(40)
  <2> QED
    BY <2>2, ZenonT(40) DEF HandleServes
<1>7. RowsSound'
  BY <1>1, <1>3 DEF RowsSound
<1>8. GoneSound'
  <2>1. \A v \in Updates : gone[v] # built + 1
    BY <1>3, SMTT(30)
  <2> QED
    BY <1>1, <1>2, <2>1 DEF GoneSound
<1>9. SessionsSound'
  BY <1>1, <1>2 DEF SessionsSound, rowVars, wfVars, SessionKinds
<1> QED
  BY <1>4, <1>5, <1>6, <1>7, <1>8, <1>9

LEMMA DeleteInv ==
  ASSUME CtrInv, NEW u \in Updates, DeleteContainer(u) \/ DeleteReturns(u)
  PROVE  CtrInv'
<1> USE ContainerAssumption DEF CtrInv
<1>1. UNCHANGED <<rowVars, attempt, copyDig, made, serving, built, root, restarts, wfVars, faults>>
  BY SMTT(30) DEF DeleteContainer, DeleteReturns, nodeVars
<1>2. /\ kind[u] = "delete" /\ pc[u] \in {"node", "stop"}
      /\ \A v \in Updates \ {u} : pc'[v] = pc[v] /\ gone'[v] = gone[v] /\ copy'[v] = copy[v]
      /\ copy' \in [Updates -> {"none", "ready", "hibernating", "deleted"}]
  BY SMTT(30) DEF DeleteContainer, DeleteReturns, Goto, TypeOK, PlacesSound
<1>3. \/ /\ pc'[u] = "stop" /\ handle # 0 /\ handle' = 0 /\ gone'[u] = handle /\ copy'[u] = copy[u]
         /\ stopping' = stopping \cup {handle} /\ gone' \in [Updates -> 0..built]
      \/ /\ pc'[u] = "write" /\ gone[u] \notin stopping /\ copy'[u] = "deleted"
         /\ gone'[u] = gone[u] /\ pc[u] = "stop"
         /\ UNCHANGED <<handle, stopping, gone>>
  BY SMTT(30) DEF DeleteContainer, DeleteReturns, Goto, TypeOK, nodeVars
<1>4. handle # 0 => handle \in serving /\ handle \notin stopping /\ handle \in 1..built
  BY SMTT(30) DEF HandleServes, TypeOK
<1>5. TypeOK'
  <2>1. pc' \in [Updates -> Running \cup {"idle", "done", "error"}]
    BY SMTT(30) DEF DeleteContainer, DeleteReturns, Goto, TypeOK, Running, InActivity
  <2>2. gone' \in [Updates -> 0..built] /\ handle' \in 0..built /\ stopping' \subseteq 1..built
    <3>1. /\ built \in Nat /\ handle \in 0..built /\ stopping \subseteq 1..built
          /\ gone \in [Updates -> 0..built]
      BY DEF TypeOK
    <3>2. CASE handle' = 0 /\ handle # 0 /\ stopping' = stopping \cup {handle} /\ gone' \in [Updates -> 0..built]
      BY <1>4, <3>1, <3>2
    <3>3. CASE UNCHANGED <<handle, stopping, gone>>
      BY <3>1, <3>3
    <3> QED
      BY <1>3, <3>2, <3>3
  <2> QED
    BY <1>1, <1>2, <2>1, <2>2 DEF TypeOK, rowVars, wfVars, SessionIDs
<1>6. PlacesSound'
  BY <1>2, <1>3, SMTT(30) DEF PlacesSound
<1>7. HandleServes'
  BY <1>1, <1>3 DEF HandleServes
<1>8. RowsSound'
  <2>1. ~NoDelete'
    BY <1>2, <1>3, SMTT(30) DEF NoDelete
  <2>2. copy'[u] # "none" => built > 0
    BY <1>2, <1>3, <1>4 DEF RowsSound, GoneSound, TypeOK
  <2> QED
    BY <1>1, <1>2, <2>1, <2>2 DEF RowsSound, rowVars
<1>9. GoneSound'
  BY <1>1, <1>2, <1>3, <1>4, SMTT(30) DEF GoneSound
<1>10. SessionsSound'
  BY <1>1, <1>2 DEF SessionsSound, rowVars, wfVars, SessionKinds
<1> QED
  BY <1>5, <1>6, <1>7, <1>8, <1>9, <1>10, SMTT(30)

LEMMA StopInv ==
  ASSUME CtrInv, (\E g \in stopping : StopSupervisor(g)) \/ NodeRestart
  PROVE  CtrInv'
<1> USE ContainerAssumption DEF CtrInv
<1>1. UNCHANGED <<rowVars, pc, attempt, actVars, built, wfVars>> /\ faults' \in 0..MaxFaults
  BY DEF StopSupervisor, NodeRestart, Fault, TypeOK
<1>2. CASE \E g \in stopping : StopSupervisor(g)
  <2>1. PICK g \in stopping : StopSupervisor(g)
    BY <1>2
  <2>2. /\ stopping' = stopping \ {g} /\ serving' = serving \ {g} /\ root' = "absent"
        /\ UNCHANGED <<handle, restarts, faults>>
    BY <2>1, SMTT(30) DEF StopSupervisor
  <2>3. TypeOK'
    BY <1>1, <2>2 DEF TypeOK, rowVars, actVars, wfVars, Running, InActivity, SessionIDs
  <2>4. HandleServes'
    <3>1. handle # 0 => handle # g
      BY <2>1, ZenonT(40) DEF HandleServes
    <3>2. handle \in 0..built /\ g \in 1..built /\ built \in Nat
      BY <2>1 DEF TypeOK
    <3>3. handle # 0 => built # 1
      BY <3>1, <3>2
    <3> QED
      BY <1>1, <2>2, <3>1, <3>3, SMTT(30) DEF HandleServes
  <2>5. PlacesSound' /\ RowsSound' /\ GoneSound' /\ SessionsSound'
    BY <1>1, <2>2 DEF PlacesSound, RowsSound, NoDelete, GoneSound, SessionsSound, rowVars, actVars, wfVars
  <2> QED
    BY <2>3, <2>4, <2>5
<1>3. CASE NodeRestart
  <2>1. handle' = 0 /\ serving' = {} /\ restarts' = restarts + 1 /\ UNCHANGED <<stopping, root>>
    BY <1>3, SMTT(30) DEF NodeRestart
  <2>2. TypeOK'
    BY <1>1, <2>1 DEF TypeOK, rowVars, actVars, wfVars, Running, InActivity, SessionIDs
  <2>3. HandleServes' /\ PlacesSound' /\ GoneSound' /\ SessionsSound'
    BY <1>1, <2>1, SMTT(30) DEF HandleServes, PlacesSound, GoneSound, SessionsSound, rowVars, actVars, wfVars
  <2>4. RowsSound'
    BY <1>1, <2>1, SMTT(30) DEF RowsSound, TypeOK, rowVars, actVars
  <2> QED
    BY <2>2, <2>3, <2>4
<1> QED
  BY <1>2, <1>3, SMTT(30)

LEMMA CompleteInv ==
  ASSUME CtrInv, Complete
  PROVE  CtrInv'
<1> USE ContainerAssumption DEF CtrInv, Complete
<1>1. TypeOK'
  <2>1. wf' \in {"none", "running", "completed"} /\ children' \subseteq SessionIDs
    OBVIOUS
  <2> QED
    BY <2>1, ZenonT(40) DEF TypeOK, rowVars, actVars, nodeVars, SessionIDs
<1>2. PlacesSound' /\ HandleServes' /\ RowsSound' /\ GoneSound' /\ SessionsSound'
  BY DEF PlacesSound, HandleServes, RowsSound, NoDelete, GoneSound, SessionsSound, rowVars, actVars, nodeVars
<1> QED
  BY <1>1, <1>2, SMTT(30)

-----------------------------------------------------------------------------
LEMMA CtrStep == CtrInv /\ [Next]_vars => CtrInv'
<1> SUFFICES ASSUME CtrInv, [Next]_vars PROVE CtrInv'
  OBVIOUS
<1>1. ASSUME NEW u \in Updates, Update(u) \/ Step(u) \/ AttemptFails(u) PROVE CtrInv'
  BY <1>1, RetryInv, ActivityInv, WriteInv, ProvisionInv, DeleteInv DEF Step
<1>2. CASE UNCHANGED vars
  <2>1. TypeOK'
    BY <1>2, SMTT(30) DEF vars, CtrInv, TypeOK, SessionIDs
  <2>2. PlacesSound' /\ HandleServes' /\ RowsSound' /\ GoneSound' /\ SessionsSound'
    BY <1>2 DEF vars, CtrInv, PlacesSound, HandleServes, RowsSound, NoDelete, GoneSound, SessionsSound
  <2> QED
    BY <2>1, <2>2, SMTT(30) DEF CtrInv
<1> QED
  BY <1>1, <1>2, StopInv, CompleteInv DEF Next

LEMMA CtrImplies == CtrInv => HandleServes /\ RowBacked /\ DeleteReleases /\ ReturnedSessionLives
<1> SUFFICES ASSUME CtrInv PROVE HandleServes /\ RowBacked /\ DeleteReleases /\ ReturnedSessionLives
  OBVIOUS
<1>1. RowBacked
  BY DEF CtrInv, RowBacked, RowsSound, NoDelete, HandleServes
<1>2. DeleteReleases
  BY DEF CtrInv, DeleteReleases, GoneSound
<1>3. ReturnedSessionLives
  BY DEF CtrInv, ReturnedSessionLives, SessionsSound
<1> QED
  BY <1>1, <1>2, <1>3 DEF CtrInv

\* For any updates, with any number of attempts and faults: the registered handle
\* serves, a ready row is backed, a delete that is answered has stopped the
\* supervisor it found, and a session that is returned has its row and workflow.
THEOREM ContainerCorrect ==
  Spec => [](TypeOK /\ HandleServes /\ RowBacked /\ DeleteReleases /\ ReturnedSessionLives)
<1>1. CtrInv => TypeOK
  BY DEF CtrInv
<1> QED
  BY <1>1, CtrInit, CtrStep, CtrImplies, PTL DEF Spec

\* The supervisor registered for the container serves and nobody is about to stop
\* it, through every interleaving of provisioning, deletion, retries and restarts.
THEOREM HandlesServe == Spec => []HandleServes
BY ContainerCorrect, PTL

\* A container whose row says ready or hibernating has a supervisor that serves,
\* until a delete begins or the node restarts.
THEOREM RowsBacked == Spec => []RowBacked
BY ContainerCorrect, PTL

\* A session that was returned has its row and, until the container workflow
\* completes, its workflow.
THEOREM ReturnedSessionsLive == Spec => []ReturnedSessionLives
BY ContainerCorrect, PTL

-----------------------------------------------------------------------------
(* The end of the container workflow.                                      *)

\* No handler runs outside its workflow, and a load that runs has a session to name;
\* state.Deleted says whether a delete was answered; only then the workflow completes.
WorkflowOwns ==
  /\ \A u \in Updates : pc[u] \in Running => wf = "running" /\ (kind[u] = "loadSession" => sessions # {})
  /\ deleted = "yes" <=> \E u \in Updates : kind[u] = "delete" /\ pc[u] = "done"
  /\ wf = "completed" => deleted = "yes"

\* What every step of an update has in common.
LEMMA StepEffect ==
  ASSUME TypeOK, NEW u \in Updates, Update(u) \/ Step(u) \/ AttemptFails(u)
  PROVE  /\ \A v \in Updates : v # u => pc'[v] = pc[v]
         /\ sessions \subseteq sessions'
         /\ wf # "completed" => wf' # "completed"
         /\ \/ /\ pc[u] = "idle" /\ pc'[u] \in {"node", "read"} /\ wf # "completed" /\ wf' = "running"
               /\ deleted' = deleted /\ (kind[u] = "loadSession" => sessions # {})
            \/ pc[u] \in Running /\ pc'[u] # "done" /\ wf' = wf /\ deleted' = deleted
            \/ /\ pc[u] \in Running /\ pc'[u] = "done" /\ wf' = wf
               /\ deleted' = IF kind[u] = "delete" THEN "yes" ELSE deleted
<1>t. u \in DOMAIN pc /\ pc \in [Updates -> Running \cup {"idle", "done", "error"}]
  BY DEF TypeOK
<1>1. CASE Update(u)
  BY <1>1, <1>t DEF Update, Goto, rowVars, Running, InActivity
<1>2. CASE AttemptFails(u) \/ AttemptNotFound(u)
  <2>1. pc[u] \in Running /\ Retry(u) /\ wf' = wf /\ deleted' = deleted /\ sessions' = sessions
    BY <1>2 DEF AttemptFails, AttemptNotFound, Running, InActivity, rowVars, wfVars
  <2>2. \E l \in {"node", "read", "error"} : pc' = [pc EXCEPT ![u] = l]
    BY <2>1 DEF Retry, Goto
  <2> QED
    BY <1>t, <2>1, <2>2
<1>3. CASE ReadContainer(u) \/ ProvisionContainer(u) \/ EnsureAgent(u) \/ CreateSession(u) \/ HibernateContainer(u)
           \/ (\E s \in SessionIDs : LoadSession(u, s)) \/ DeleteContainer(u) \/ DeleteReturns(u)
  <2>1. /\ pc[u] \in Running /\ wf' = wf /\ deleted' = deleted /\ sessions' = sessions
        /\ \E l \in {"node", "stop", "write"} : pc' = [pc EXCEPT ![u] = l]
    BY <1>3 DEF ReadContainer, ProvisionContainer, EnsureAgent, CreateSession, HibernateContainer, LoadSession,
                DeleteContainer, DeleteReturns, Goto, Running, InActivity, rowVars, wfVars
  <2> QED
    BY <1>t, <2>1
<1>4. CASE WriteContainer(u) \/ WriteSession(u) \/ WriteAgent(u) \/ NoteDigest(u) \/ StartChild(u)
  <2>1. /\ pc[u] \in Running /\ wf' = wf /\ deleted' = deleted /\ sessions \subseteq sessions'
        /\ \E l \in {"child", "note", "return", "error"} : pc' = [pc EXCEPT ![u] = l]
    BY <1>4, ZenonT(40) DEF WriteContainer, WriteSession, WriteAgent, NoteDigest, StartChild, Goto, Running, InActivity,
                rowVars, wfVars
  <2> QED
    BY <1>t, <2>1
<1>5. CASE HandlerReturns(u)
  BY <1>5, <1>t DEF HandlerReturns, Goto, Running, InActivity, rowVars
<1> QED
  BY <1>1, <1>2, <1>3, <1>4, <1>5, ZenonT(40) DEF Step

LEMMA OwnsStep ==
  ASSUME TypeOK, WorkflowOwns, [Next]_vars
  PROVE  WorkflowOwns'
<1>1. ASSUME NEW u \in Updates, Update(u) \/ Step(u) \/ AttemptFails(u) PROVE WorkflowOwns'
  <2>1. "idle" \notin Running /\ "done" \notin Running /\ "idle" # "done" /\ "completed" # "running"
        /\ {"node", "read"} \subseteq Running
    BY DEF Running, InActivity
  <2>2. \A v \in Updates : pc'[v] \in Running => wf' = "running" /\ (kind[v] = "loadSession" => sessions' # {})
    BY <1>1, <2>1, StepEffect DEF WorkflowOwns
  <2>3. deleted' = "yes" <=> \E v \in Updates : kind[v] = "delete" /\ pc'[v] = "done"
    BY <1>1, <2>1, StepEffect DEF WorkflowOwns
  <2>4. wf' = "completed" => deleted' = "yes"
    BY <1>1, StepEffect DEF WorkflowOwns
  <2> QED
    BY <2>2, <2>3, <2>4 DEF WorkflowOwns
<1>2. ASSUME NEW g \in stopping, StopSupervisor(g) PROVE WorkflowOwns'
  BY <1>2 DEF StopSupervisor, WorkflowOwns, rowVars, wfVars
<1>3. CASE NodeRestart \/ UNCHANGED vars
  BY <1>3 DEF NodeRestart, WorkflowOwns, rowVars, wfVars, vars
<1>4. CASE Complete
  BY <1>4 DEF Complete, WorkflowOwns, rowVars
<1> QED
  BY <1>1, <1>2, <1>3, <1>4 DEF Next

\* Every update that runs has its workflow running, so that its handler can go on;
\* state.Deleted is set exactly when a delete has been answered, and the workflow
\* completes only after one.  With AllHandlersFinished this is why DeleteCompletes
\* holds under Temporal's fairness, for any updates, attempts and faults.
THEOREM HandlersOwned == Spec => []WorkflowOwns
<1>1. Init => TypeOK /\ WorkflowOwns
  <2>1. Init => WorkflowOwns
    BY DEF Init, WorkflowOwns, Running, InActivity
  <2> QED
    BY <2>1, CtrInit DEF CtrInv
<1>2. CtrInv /\ WorkflowOwns /\ [Next]_vars => WorkflowOwns'
  BY OwnsStep DEF CtrInv
<1> QED
  BY <1>1, <1>2, CtrInit, CtrStep, PTL DEF Spec

\* Once the container workflow has completed nothing of the container changes any
\* more on the control plane: AllHandlersFinished leaves no attempt of an activity
\* to write its row or a session's, no update is accepted, no session workflow
\* starts and no supervisor is made.
THEOREM CompletedIsFinal ==
  Spec => [][wf = "completed" => UNCHANGED <<rowVars, pc, attempt, actVars, wfVars, built>>]_vars
<1>1. ASSUME WorkflowOwns, TypeOK, wf = "completed", [Next]_vars
      PROVE  UNCHANGED <<rowVars, pc, attempt, actVars, wfVars, built>>
  <2>1. ASSUME NEW u \in Updates PROVE ~(Update(u) \/ Step(u) \/ AttemptFails(u))
    <3>1. pc[u] \notin Running
      BY <1>1 DEF WorkflowOwns
    <3> QED
      BY <1>1, <3>1, StepEffect
  <2>2. ASSUME NEW g \in stopping, StopSupervisor(g) PROVE UNCHANGED <<rowVars, pc, attempt, actVars, wfVars, built>>
    BY <2>2 DEF StopSupervisor
  <2>3. CASE NodeRestart
    BY <2>3 DEF NodeRestart
  <2>4. ~Complete
    BY <1>1 DEF Complete
  <2>5. CASE UNCHANGED vars
    BY <2>5 DEF vars, rowVars, actVars, wfVars
  <2> QED
    BY <1>1, <2>1, <2>2, <2>3, <2>4, <2>5 DEF Next
<1>2. WorkflowOwns /\ TypeOK /\ [Next]_vars =>
        [wf = "completed" => UNCHANGED <<rowVars, pc, attempt, actVars, wfVars, built>>]_vars
  BY <1>1
<1> QED
  BY <1>2, HandlersOwned, ContainerCorrect, PTL DEF Spec

=============================================================================
