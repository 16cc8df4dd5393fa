----------------------- MODULE ClientAndConfigProofs -----------------------
(***************************************************************************)
(* Proofs about ConfigLoader, for any callers, readers and versions of the *)
(* file.  That the configuration never goes back is not inductive.  The    *)
(* strengthening says what the mutex protects: only its holder is inside   *)
(* Load, and what the holder has read is at least as new as what is        *)
(* published, because nobody else can publish until it is done.            *)
(*                                                                         *)
(* Then proofs about AcpClient, for any set of calls, any pipe capacity    *)
(* and any amount of noise from the agent.                                 *)
(***************************************************************************)
EXTENDS AcpClient, ConfigLoader, TLAPS

(* The configuration: the inductive invariant                              *)

Inside == {"read", "decode", "store"}

\* The mutex: whoever is inside Load holds it.
Exclusive == \A l \in Loaders : lpc[l] \in Inside => loadMu = l

\* Nothing is newer than the file; what has been read is not older than what is
\* published; what is about to be published decodes.
Ordered ==
  /\ ptr.ver <= file.ver
  /\ \A r \in Readers : seen[r] <= ptr.ver
  /\ \A l \in Loaders :
       /\ lpc[l] \in {"decode", "store"} => /\ ptr.ver <= raw[l].ver /\ raw[l].ver <= file.ver
                                            /\ raw[l].ver # 0 /\ raw[l].form # "missing"
                                            /\ raw[l].form = "good" => raw[l].ver \in good
       /\ lpc[l] = "store" => raw[l].form = "good"

FileGood == /\ file.form = "good" => file.ver \in good
            /\ file.ver = 0 => file.form = "missing"

LoaderInv == LoaderTypeOK /\ Exclusive /\ FileGood /\ Ordered /\ ServedIsGood

-----------------------------------------------------------------------------
LEMMA LoaderStart == LoaderInit => LoaderInv
<1> SUFFICES ASSUME LoaderInit PROVE LoaderInv
  OBVIOUS
<1> USE LoaderAssumption DEF LoaderInit
<1>1. LoaderTypeOK
  BY DEF LoaderTypeOK, Files, Loaders
<1>2. Exclusive /\ FileGood /\ Ordered /\ ServedIsGood
  BY DEF Exclusive, Inside, FileGood, Ordered, ServedIsGood
<1> QED
  BY <1>1, <1>2, SMTT(30) DEF LoaderInv

LEMMA FileInv ==
  ASSUME LoaderInv, NEW form \in {"good", "bad", "missing"}, NEW blank \in SUBSET Defaulted,
         Write(form, blank)
  PROVE  LoaderInv'
<1> USE LoaderAssumption DEF Write, LoaderInv
<1>3. file'.ver = file.ver + 1 /\ file.ver \in Nat /\ file'.form = form
  BY DEF LoaderTypeOK, Files
<1>1. LoaderTypeOK'
  <2>1. file.ver + 1 \in 0..MaxVersion /\ file.ver + 1 \in 1..MaxVersion
    BY <1>3
  <2>2. file' \in Files
    BY <2>1 DEF Files
  <2>3. good' \subseteq 1..MaxVersion
    BY <2>1, ZenonT(40) DEF LoaderTypeOK
  <2> QED
    BY <2>2, <2>3 DEF LoaderTypeOK
<1>2. Exclusive'
  BY DEF Exclusive
<1>4. FileGood'
  BY <1>3, SMTT(30) DEF FileGood
<1>5. Ordered'
  BY <1>3 DEF Ordered, LoaderTypeOK, Files
<1>6. ServedIsGood'
  BY DEF ServedIsGood
<1> QED
  BY <1>1, <1>2, <1>4, <1>5, <1>6

\* The steps of a Load that do not store.
LEMMA LoadInv ==
  ASSUME LoaderInv, NEW l \in Loaders, LoadBegin(l) \/ LoadLock(l) \/ LoadRead(l) \/ LoadDecode(l)
  PROVE  LoaderInv'
<1> USE LoaderAssumption DEF LoaderInv, LoaderGoto, LoadReturn
<1>1. UNCHANGED <<file, good, ptr, seen, live>>
  BY DEF LoadBegin, LoadLock, LoadRead, LoadDecode
<1>2. LoaderTypeOK'
  BY <1>1 DEF LoaderTypeOK, LoadBegin, LoadLock, LoadRead, LoadDecode
<1>3. Exclusive'
  BY SMTT(30) DEF Exclusive, Inside, LoaderTypeOK, Loaders, LoadBegin, LoadLock, LoadRead, LoadDecode
<1>4. FileGood' /\ ServedIsGood'
  BY <1>1 DEF FileGood, ServedIsGood
<1>5. Ordered'
  <2>1. CASE LoadBegin(l) \/ LoadLock(l)
    BY <1>1, <2>1, SMTT(30) DEF Ordered, LoaderTypeOK, LoadBegin, LoadLock
  <2>2. CASE LoadRead(l)
    BY <1>1, <2>2 DEF Ordered, FileGood, LoaderTypeOK, Files, LoadRead
  <2>3. CASE LoadDecode(l)
    BY <1>1, <2>3, SMTT(30) DEF Ordered, LoaderTypeOK, Files, LoadDecode
  <2> QED
    BY <2>1, <2>2, <2>3, SMTT(30)
<1> QED
  BY <1>2, <1>3, <1>4, <1>5

\* The step that stores: nobody else is inside, and what is stored is not older.
LEMMA StoreInv ==
  ASSUME LoaderInv, NEW l \in Loaders, LoadStore(l)
  PROVE  LoaderInv' /\ ptr'.ver >= ptr.ver
<1> USE LoaderAssumption DEF LoaderInv, LoaderGoto, LoadReturn, LoadStore
<1>1. /\ ptr'.ver = raw[l].ver /\ ptr'.blank = {}
      /\ ptr.ver <= raw[l].ver /\ raw[l].ver <= file.ver /\ raw[l].ver \in good
      /\ ptr.ver \in Nat /\ raw[l].ver \in Nat /\ file.ver \in Nat
  BY SMTT(30) DEF Ordered, LoaderTypeOK, Files
<1>2. \A k \in Loaders : k # l => lpc[k] \notin Inside /\ lpc'[k] = lpc[k]
  BY DEF Exclusive, Inside, LoaderTypeOK
<1>3. lpc'[l] = "idle"
  BY DEF LoaderTypeOK
<1>4. LoaderTypeOK'
  BY SMTT(30) DEF LoaderTypeOK, Files
<1>5. Exclusive' /\ FileGood'
  BY <1>2, <1>3, SMTT(30) DEF Exclusive, Inside, FileGood
<1>6. Ordered'
  BY <1>1, <1>2, <1>3, SMTT(30) DEF Ordered, Inside, LoaderTypeOK
<1>7. ServedIsGood'
  BY <1>1 DEF ServedIsGood
<1> QED
  BY <1>1, <1>4, <1>5, <1>6, <1>7, ZenonT(40)

LEMMA SnapshotInv ==
  ASSUME LoaderInv, NEW r \in Readers, Snapshot(r)
  PROVE  LoaderInv' /\ \A q \in Readers : seen'[q] >= seen[q]
<1> USE DEF LoaderInv, Snapshot
<1>1. LoaderTypeOK'
  BY DEF LoaderTypeOK
<1>2. \A q \in Readers : seen'[q] = (IF q = r THEN ptr.ver ELSE seen[q])
  BY DEF LoaderTypeOK
<1>3. Exclusive' /\ FileGood' /\ ServedIsGood'
  BY DEF Exclusive, FileGood, ServedIsGood
<1>4. ptr.ver \in Nat /\ \A q \in Readers : seen[q] \in Nat /\ seen[q] <= ptr.ver
  BY SMTT(30) DEF LoaderTypeOK, Ordered
<1>5. Ordered'
  BY <1>2, <1>4 DEF Ordered
<1> QED
  BY <1>1, <1>2, <1>3, <1>4, <1>5

\* A step keeps the invariant, and neither the configuration nor what a reader has
\* seen of it goes back.
LEMMA LoaderStep ==
  ASSUME LoaderInv, [LoaderNext]_loaderVars
  PROVE  LoaderInv' /\ ptr'.ver >= ptr.ver /\ \A r \in Readers : seen'[r] >= seen[r]
<1>0. ptr.ver \in Nat /\ \A r \in Readers : seen[r] \in Nat
  BY SMTT(30) DEF LoaderInv, LoaderTypeOK
<1>1. CASE UNCHANGED loaderVars
  BY <1>0, <1>1 DEF loaderVars, LoaderInv, LoaderTypeOK, Exclusive, FileGood, Ordered, ServedIsGood
<1>2. ASSUME NEW form \in {"good", "bad", "missing"}, NEW blank \in {{}, Defaulted},
             Write(form, blank)
      PROVE  LoaderInv' /\ UNCHANGED <<ptr, seen>>
  BY <1>2, FileInv, SMTT(30) DEF Write
<1>3. ASSUME NEW l \in Loaders, LoadBegin(l) \/ LoadLock(l) \/ LoadRead(l) \/ LoadDecode(l)
      PROVE  LoaderInv' /\ UNCHANGED <<ptr, seen>>
  BY <1>3, LoadInv, SMTT(30) DEF LoadBegin, LoadLock, LoadRead, LoadDecode
<1>4. ASSUME NEW l \in Loaders, LoadStore(l)
      PROVE  LoaderInv' /\ ptr'.ver >= ptr.ver /\ UNCHANGED seen
  BY <1>4, StoreInv DEF LoadStore
<1>5. ASSUME NEW r \in Readers, Snapshot(r)
      PROVE  LoaderInv' /\ UNCHANGED ptr /\ \A q \in Readers : seen'[q] >= seen[q]
  BY <1>5, SnapshotInv, ZenonT(40) DEF Snapshot
<1>6. ASSUME Cancel
      PROVE  LoaderInv' /\ UNCHANGED <<ptr, seen>>
  <2>1. UNCHANGED <<file, good, loadMu, lpc, raw, ptr, seen>> /\ live' \in BOOLEAN
    BY <1>6, ZenonT(40) DEF Cancel
  <2>2. LoaderTypeOK'
    BY <2>1 DEF LoaderInv, LoaderTypeOK
  <2> QED
    BY <2>1, <2>2 DEF LoaderInv, Exclusive, FileGood, Ordered, ServedIsGood
<1>7. \/ UNCHANGED loaderVars
      \/ \E form \in {"good", "bad", "missing"}, blank \in {{}, Defaulted} : Write(form, blank)
      \/ \E l \in Loaders : LoadBegin(l) \/ LoadLock(l) \/ LoadRead(l) \/ LoadDecode(l)
      \/ \E l \in Loaders : LoadStore(l)
      \/ \E r \in Readers : Snapshot(r)
      \/ Cancel
  BY DEF LoaderNext, LoadStep
<1> QED
  BY <1>0, <1>1, <1>2, <1>3, <1>4, <1>5, <1>6, <1>7

\* Every state has the types of LoaderTypeOK, and whatever is served decoded and is complete.
THEOREM LoaderServesGood == LoaderSpec => [](LoaderTypeOK /\ ServedIsGood)
<1>1. LoaderInv => LoaderTypeOK /\ ServedIsGood
  BY DEF LoaderInv
<1> QED
  BY <1>1, LoaderStart, LoaderStep, PTL DEF LoaderSpec

\* The configuration never goes back, for any number of concurrent Loads.
THEOREM LoaderNeverBack == LoaderSpec => NeverBack
<1>1. LoaderInv /\ [LoaderNext]_loaderVars => [ptr'.ver >= ptr.ver /\ \A r \in Readers : seen'[r] >= seen[r]]_loaderVars
  BY LoaderStep
<1> QED
  BY <1>1, LoaderStart, LoaderStep, PTL DEF LoaderSpec, NeverBack

\* The mutex is held by the Load that is inside, and by nobody else.
HolderInside == \A l \in Loaders : loadMu = l <=> lpc[l] \in Inside

\* No Load returns with the mutex held, whether it failed to read the file, to decode
\* it or stored it, and nobody enters beside its holder: a Load that waits for the
\* mutex waits for one that can go on.  This is the safety half of Reloads.
THEOREM LoaderReleases == LoaderSpec => []HolderInside
<1>1. LoaderInit => HolderInside
  BY LoaderAssumption DEF LoaderInit, HolderInside, Inside
<1>2. ASSUME LoaderTypeOK, HolderInside, [LoaderNext]_loaderVars PROVE HolderInside'
  <2>0. lpc \in [Loaders -> {"idle", "lock", "read", "decode", "store"}] /\ NoHolder \notin Loaders
    BY <1>2, LoaderAssumption DEF LoaderTypeOK
  <2>1. ASSUME NEW l \in Loaders, LoadBegin(l) \/ LoadStep(l) PROVE HolderInside'
    <3>1. CASE LoadBegin(l) \/ LoadLock(l)
      BY <1>2, <2>0, <3>1 DEF LoadBegin, LoadLock, LoaderGoto, HolderInside, Inside
    <3>2. CASE LoadRead(l) \/ LoadDecode(l) \/ LoadStore(l)
      <4>1. /\ lpc[l] \in Inside /\ loadMu = l
            /\ \/ loadMu' = NoHolder /\ lpc' = [lpc EXCEPT ![l] = "idle"]
               \/ loadMu' = loadMu /\ \E p \in Inside : lpc' = [lpc EXCEPT ![l] = p]
        BY <1>2, <3>2 DEF LoadRead, LoadDecode, LoadStore, LoadReturn, LoaderGoto, HolderInside, Inside
      <4>2. \A k \in Loaders : k # l => lpc[k] \notin Inside
        BY <1>2, <4>1 DEF HolderInside
      <4>3. "idle" \notin Inside
        BY DEF Inside
      <4> QED
        BY <2>0, <4>1, <4>2, <4>3 DEF HolderInside
    <3> QED
      BY <2>1, <3>1, <3>2 DEF LoadStep
  <2>2. CASE loadMu' = loadMu /\ lpc' = lpc
    BY <1>2, <2>2 DEF HolderInside
  <2>3. (\E l \in Loaders : LoadBegin(l) \/ LoadStep(l)) \/ (loadMu' = loadMu /\ lpc' = lpc)
    BY <1>2 DEF LoaderNext, Write, Snapshot, Cancel, loaderVars
  <2> QED
    BY <2>1, <2>2, <2>3
<1> QED
  BY <1>1, <1>2, LoaderServesGood, PTL DEF LoaderSpec

-----------------------------------------------------------------------------
(* The client: the inductive invariant                                     *)

\* Where a call is in its life: an idle call is unknown to everybody, one that
\* writes holds c.mu and is registered, one that has not returned has no result.
CallInv ==
  \A c \in Calls :
    /\ pc[c] = "idle" => /\ c \notin pending
                         /\ wait[c] = "open"
                         /\ reader = "send" => env # c
    /\ pc[c] = "encode" => c \in pending
    /\ pc[c] = "encode" <=> mu = c
    /\ pc[c] # "done" <=> result[c] = "none"

\* A reply in a channel, in the readLoop's hands or in the pipe is one the
\* agent has written, and the channel the readLoop is about to use has been
\* taken out of c.pending.
ReplyInv ==
  /\ \A c \in Calls : wait[c] = "reply" => c \in answered
  /\ reader \in {"lookup", "send"} => env \in answered
  /\ reader = "send" => env \notin pending
  /\ \A i \in 1..Len(stdout) : stdout[i] \in Calls => stdout[i] \in answered

\* The inductive invariant.
IInv == TypeOK /\ CallInv /\ ReplyInv /\ SendSafe /\ NoCallForgotten /\ AnswersMatch

USE AcpAssumption

\* One step of any goroutine, or of the agent, preserves the types.
LEMMA TypeStep == TypeOK /\ [Next]_vars => TypeOK'
<1> SUFFICES ASSUME TypeOK, [Next]_vars PROVE TypeOK'
  OBVIOUS
<1> USE DEF TypeOK, callVars, readVars, agentVars
<1>1. ASSUME NEW c \in Calls, CallStep(c) \/ CallCtxDone(c) PROVE TypeOK'
  <2>1. CASE CallRegister(c)
    BY <2>1 DEF CallRegister
  <2>2. CASE CallEncode(c)
    <3>1. stdin' \in Seq(Calls)
      BY <2>2 DEF CallEncode
    <3>2. pc' \in [Calls -> {"idle", "encode", "wait", "done"}]
      BY <2>2 DEF CallEncode, Return
    <3>3. result' \in [Calls -> {"none", "ok", "error", "ctx", "write", "eof"}]
      BY <2>2 DEF CallEncode, Return
    <3> QED BY <2>2, <3>1, <3>2, <3>3 DEF CallEncode
  <2>3. CASE CallReceive(c)
    <3>1. PICK r \in {"ok", "error", "eof"} : Return(c, r)
      BY <2>3 DEF CallReceive
    <3>2. wait' \in [Calls -> {"open", "reply", "error", "drained"}]
      BY <2>3 DEF CallReceive
    <3> QED BY <2>3, <3>1, <3>2 DEF CallReceive, Return
  <2>4. CASE CallCtxDone(c)
    BY <2>4 DEF CallCtxDone, Return
  <2> QED BY <1>1, <2>1, <2>2, <2>3, <2>4 DEF CallStep
<1>2. CASE ReaderStep
  <2>1. CASE ReadDecode
    <3>1. Head(stdout) \in Envelopes /\ Tail(stdout) \in Seq(Envelopes)
      BY <2>1 DEF ReadDecode
    <3>2. reader' \in {"decode", "lookup", "send", "notify", "failAll", "done"}
      BY <2>1 DEF ReadDecode
    <3> QED BY <2>1, <3>1, <3>2 DEF ReadDecode
  <2>2. CASE ReadLookup
    BY <2>2 DEF ReadLookup
  <2>3. CASE ReadSend
    BY <2>3, ZenonT(40) DEF ReadSend
  <2>4. CASE ReadNotify \/ ReadError
    BY <2>4 DEF ReadNotify, ReadError
  <2>5. CASE FailAll
    BY <2>5 DEF FailAll
  <2> QED BY <1>2, <2>1, <2>2, <2>3, <2>4, <2>5 DEF ReaderStep
<1>3. CASE AgentStep
  <2>1. CASE AgentRead
    BY <2>1 DEF AgentRead
  <2>2. CASE AgentReply
    <3>1. busy \in Envelopes /\ busy \in Calls
      BY <2>2 DEF AgentReply, Envelopes
    <3>2. stdout' \in Seq(Envelopes)
      BY <2>2, <3>1 DEF AgentReply
    <3> QED BY <2>2, <3>1, <3>2 DEF AgentReply
  <2> QED BY <1>3, <2>1, <2>2 DEF AgentStep
<1>4. ASSUME NEW m \in Envelopes, AgentNoise(m) PROVE TypeOK'
  BY <1>4 DEF AgentNoise
<1>5. CASE AgentExit \/ Wait \/ Close
  BY <1>5 DEF AgentExit, Wait, Close
<1>6. CASE UNCHANGED vars
  BY <1>6 DEF vars
<1> QED BY <1>1, <1>2, <1>3, <1>4, <1>5, <1>6 DEF Next

\* The state of the client has the types TypeOK gives it: every operation of
\* acp/stdio.go keeps the channel states, the pending map and the lock within
\* their ranges.
THEOREM TypeCorrect == Spec => []TypeOK
<1>1. Init => TypeOK
  BY DEF Init, TypeOK, Envelopes
<1> QED BY <1>1, TypeStep, PTL DEF Spec

\* The invariant is inductive: no step of a call, of the readLoop or of the
\* agent leaves it.
LEMMA InvStep == IInv /\ [Next]_vars => IInv'
<1> SUFFICES ASSUME IInv, [Next]_vars PROVE IInv'
  OBVIOUS
<1>t. TypeOK'
  BY TypeStep DEF IInv
<1> USE DEF IInv, callVars, readVars, agentVars
<1>1. ASSUME NEW c \in Calls, CallStep(c) \/ CallCtxDone(c) PROVE IInv'
  <2>1. CASE CallRegister(c)
    <3>1. CallInv'
      BY <2>1 DEF CallRegister, CallInv, TypeOK, SendSafe, CanSend
    <3>2. ReplyInv'
      BY <2>1 DEF CallRegister, CallInv, ReplyInv, TypeOK
    <3>3. SendSafe' /\ NoCallForgotten' /\ AnswersMatch'
      BY <2>1 DEF CallRegister, CallInv, TypeOK, SendSafe, CanSend, NoCallForgotten, AnswersMatch
    <3> QED BY <1>t, <3>1, <3>2, <3>3
  <2>2. CASE CallEncode(c)
    <3>1. CallInv'
      BY <2>2 DEF CallEncode, Return, CallInv, TypeOK
    <3>2. ReplyInv' /\ SendSafe'
      BY <2>2 DEF CallEncode, ReplyInv, SendSafe, CanSend
    <3>3. NoCallForgotten' /\ AnswersMatch'
      BY <2>2 DEF CallEncode, Return, CallInv, TypeOK, NoCallForgotten, AnswersMatch
    <3> QED BY <1>t, <3>1, <3>2, <3>3
  <2>3. CASE CallReceive(c)
    <3>1. PICK r \in {"ok", "error"} : Return(c, r) /\ (r = "ok" => wait[c] = "reply")
      BY <2>3 DEF CallReceive, NoCallForgotten, SendSafe, CanSend
    <3>2. c \notin pending /\ ~(reader = "send" /\ env = c)
      BY <2>3 DEF CallReceive, SendSafe, CanSend
    <3>3. CallInv'
      BY <2>3, <3>1 DEF CallReceive, Return, CallInv, TypeOK
    <3>4. ReplyInv' /\ SendSafe'
      BY <2>3, <3>2 DEF CallReceive, ReplyInv, SendSafe, CanSend, TypeOK
    <3>5. NoCallForgotten' /\ AnswersMatch'
      BY <2>3, <3>1, <3>2 DEF CallReceive, Return, ReplyInv, TypeOK, NoCallForgotten, AnswersMatch
    <3> QED BY <1>t, <3>3, <3>4, <3>5
  <2>4. CASE CallCtxDone(c)
    <3>1. CallInv'
      BY <2>4 DEF CallCtxDone, Return, CallInv, TypeOK
    <3>2. ReplyInv' /\ SendSafe'
      BY <2>4 DEF CallCtxDone, ReplyInv, SendSafe, CanSend
    <3>3. NoCallForgotten' /\ AnswersMatch'
      BY <2>4 DEF CallCtxDone, Return, TypeOK, NoCallForgotten, AnswersMatch
    <3> QED BY <1>t, <3>1, <3>2, <3>3
  <2> QED BY <1>1, <2>1, <2>2, <2>3, <2>4 DEF CallStep
<1>2. CASE ReaderStep
  <2>1. CASE ReadDecode
    <3>1. env' = stdout[1] /\ stdout # <<>> /\ stdout' = Tail(stdout)
      BY <2>1 DEF ReadDecode, TypeOK
    <3>2. reader' \in {"lookup", "notify", "decode"} /\ (reader' = "lookup" => env' \in Calls)
      BY <2>1 DEF ReadDecode
    <3>3. ReplyInv'
      <4>1. \A i \in 1..Len(stdout') : i + 1 \in 1..Len(stdout) /\ stdout'[i] = stdout[i + 1]
        BY <3>1 DEF TypeOK
      <4>2. \A i \in 1..Len(stdout') : stdout'[i] \in Calls => stdout'[i] \in answered
        BY <4>1 DEF ReplyInv
      <4>3. env' \in Calls => env' \in answered
        BY <3>1 DEF ReplyInv, TypeOK
      <4> QED BY <2>1, <3>2, <4>2, <4>3 DEF ReadDecode, ReplyInv
    <3>4. CallInv' /\ SendSafe' /\ NoCallForgotten' /\ AnswersMatch'
      BY <2>1, <3>2 DEF ReadDecode, CallInv, SendSafe, CanSend, NoCallForgotten, AnswersMatch
    <3> QED BY <1>t, <3>3, <3>4
  <2>2. CASE ReadLookup
    <3>1. ReplyInv' /\ SendSafe'
      BY <2>2 DEF ReadLookup, ReplyInv, SendSafe, CanSend
    <3>2. CallInv'
      BY <2>2 DEF ReadLookup, CallInv, TypeOK
    <3>3. NoCallForgotten' /\ AnswersMatch'
      BY <2>2 DEF ReadLookup, NoCallForgotten, AnswersMatch
    <3> QED BY <1>t, <3>1, <3>2, <3>3
  <2>3. CASE ReadSend
    <3>1. env \in Calls /\ env \notin pending
      BY <2>3 DEF ReadSend, ReplyInv, TypeOK
    <3>2. ReplyInv' /\ SendSafe'
      BY <2>3, <3>1 DEF ReadSend, ReplyInv, SendSafe, CanSend, TypeOK
    <3>3. CallInv'
      BY <2>3, <3>1 DEF ReadSend, CallInv, TypeOK
    <3>4. NoCallForgotten' /\ AnswersMatch'
      BY <2>3, <3>1 DEF ReadSend, NoCallForgotten, AnswersMatch, TypeOK
    <3> QED BY <1>t, <3>2, <3>3, <3>4
  <2>4. CASE ReadNotify \/ ReadError
    BY <2>4, <1>t DEF ReadNotify, ReadError, CallInv, ReplyInv, SendSafe, CanSend, NoCallForgotten, AnswersMatch
  <2>5. CASE FailAll
    <3>1. ReplyInv' /\ SendSafe'
      BY <2>5 DEF FailAll, ReplyInv, SendSafe, CanSend, TypeOK
    <3>2. CallInv'
      BY <2>5 DEF FailAll, CallInv, TypeOK
    <3>3. NoCallForgotten' /\ AnswersMatch'
      BY <2>5 DEF FailAll, NoCallForgotten, AnswersMatch, TypeOK
    <3> QED BY <1>t, <3>1, <3>2, <3>3
  <2> QED BY <1>2, <2>1, <2>2, <2>3, <2>4, <2>5 DEF ReaderStep
<1>3. ASSUME AgentStep \/ \E m \in Envelopes : AgentNoise(m) PROVE IInv'
  <2>1. UNCHANGED <<callVars, wait, pending, mu, readVars>> /\ answered \subseteq answered'
    BY <1>3 DEF AgentStep, AgentRead, AgentReply, AgentNoise
  <2>2. \A i \in 1..Len(stdout') : stdout'[i] \in Calls => stdout'[i] \in answered'
    <3>1. CASE stdout' = stdout
      BY <2>1, <3>1 DEF ReplyInv
    <3>2. ASSUME NEW m \in Envelopes, stdout' = Append(stdout, m), m \in Calls => m \in answered'
          PROVE  \A i \in 1..Len(stdout') : stdout'[i] \in Calls => stdout'[i] \in answered'
      BY <2>1, <3>2 DEF ReplyInv, TypeOK
    <3>3. stdout' = stdout \/ \E m \in Envelopes : stdout' = Append(stdout, m) /\ (m \in Calls => m \in answered')
      BY <1>3 DEF AgentStep, AgentRead, AgentReply, AgentNoise, TypeOK, Envelopes
    <3> QED BY <3>1, <3>2, <3>3
  <2>3. ReplyInv'
    BY <2>1, <2>2 DEF ReplyInv
  <2>4. CallInv' /\ SendSafe' /\ NoCallForgotten' /\ AnswersMatch'
    BY <2>1 DEF CallInv, SendSafe, CanSend, NoCallForgotten, AnswersMatch
  <2> QED BY <1>t, <2>3, <2>4
<1>4. CASE AgentExit \/ Wait \/ Close \/ UNCHANGED vars
  BY <1>4, <1>t DEF AgentExit, Wait, Close, vars, CallInv, ReplyInv, SendSafe, CanSend, NoCallForgotten, AnswersMatch
<1> QED BY <1>1, <1>2, <1>3, <1>4 DEF Next

\* readLoop and failAll never block on, and never panic at, a reply channel;
\* no waiting call is forgotten or sees io.EOF; a call succeeds only on the
\* agent's own answer.
THEOREM ClientSafe == Spec => [](SendSafe /\ NoCallForgotten /\ AnswersMatch)
<1>1. Init => IInv
  BY DEF Init, IInv, TypeOK, Envelopes, CallInv, ReplyInv, SendSafe, NoCallForgotten, AnswersMatch
<1>2. IInv => SendSafe /\ NoCallForgotten /\ AnswersMatch
  BY DEF IInv
<1> QED BY <1>1, <1>2, InvStep, PTL DEF Spec

\* A call that waits has its reply or its error, is registered, or is in the hands
\* of the readLoop, and none ever sees io.EOF, for any set of calls.
THEOREM ClientForgetsNoCall == Spec => []NoCallForgotten
BY ClientSafe, PTL

\* A call succeeds only on the agent's own answer to it, and an answered call leaves
\* nothing in c.pending, for any set of calls.
THEOREM ClientAnswersMatch == Spec => []AnswersMatch
BY ClientSafe, PTL

-----------------------------------------------------------------------------
(* The client: who can move while a call waits                             *)

\* No pipe holds more than its capacity.
PipeBound == Len(stdin) <= PipeCap /\ Len(stdout) <= PipeCap

LEMMA PipeStep == TypeOK /\ PipeBound /\ [Next]_vars => PipeBound'
<1> SUFFICES ASSUME TypeOK, PipeBound, [Next]_vars PROVE PipeBound'
  OBVIOUS
<1>t. stdin \in Seq(Calls) /\ stdout \in Seq(Envelopes) /\ PipeCap \in Nat
  BY DEF TypeOK
<1>1. ASSUME NEW c \in Calls, CallStep(c) \/ CallCtxDone(c) PROVE PipeBound'
  <2>1. stdout' = stdout /\ (stdin' = stdin \/ (Len(stdin) < PipeCap /\ stdin' = Append(stdin, c)))
    BY <1>1 DEF CallStep, CallRegister, CallEncode, CallReceive, CallCtxDone
  <2> QED BY <1>t, <2>1 DEF PipeBound
<1>2. CASE ReaderStep
  <2>1. stdin' = stdin /\ (stdout' = stdout \/ (stdout # <<>> /\ stdout' = Tail(stdout)))
    BY <1>2 DEF ReaderStep, ReadDecode, ReadLookup, ReadSend, ReadNotify, ReadError, FailAll
  <2> QED BY <1>t, <2>1 DEF PipeBound
<1>3. CASE AgentRead
  BY <1>3, <1>t DEF AgentRead, PipeBound
<1>4. CASE AgentReply \/ \E m \in Envelopes : AgentNoise(m)
  <2>1. stdin' = stdin /\ Len(stdout) < PipeCap /\ \E m \in Envelopes : stdout' = Append(stdout, m)
    BY <1>4 DEF AgentReply, AgentNoise, TypeOK, Envelopes
  <2> QED BY <1>t, <2>1 DEF PipeBound
<1>5. CASE AgentExit \/ Wait \/ Close \/ UNCHANGED vars
  BY <1>5 DEF AgentExit, Wait, Close, vars, PipeBound
<1> QED BY <1>1, <1>2, <1>3, <1>4, <1>5 DEF Next, AgentStep

\* The cycle a call can write itself into: it holds c.mu in Encode, both pipes are
\* full, the agent has to write its reply before it reads on, and the readLoop,
\* which would make room for it, needs c.mu or has ended.
WriteDeadlock(c) ==
  /\ pc[c] = "encode" /\ pipes = "open" /\ agent = "up" /\ busy # Nobody
  /\ Len(stdin) = PipeCap /\ Len(stdout) = PipeCap
  /\ reader \in {"lookup", "notify", "failAll", "done"}

\* A call in Encode can finish, or the agent can read or write, or the readLoop
\* can decode or deliver; or it is in the cycle.
EncodeMoves ==
  \A c \in Calls : pc[c] = "encode" =>
    \/ agent = "exited" \/ pipes = "closed" \/ Len(stdin) < PipeCap
    \/ IF busy = Nobody THEN stdin # <<>> ELSE Len(stdout) < PipeCap
    \/ reader = "decode" /\ stdout # <<>>
    \/ reader = "send" /\ CanSend(env)
    \/ WriteDeadlock(c)

\* After the exit of the agent a waiting call can receive, or the readLoop, unless
\* it has ended, can go on, or the call that holds c.mu can give it back.
ReleaseMoves ==
  \A c \in Calls : (agent = "exited" /\ pc[c] = "wait" /\ reader # "done") =>
    \/ wait[c] \in {"reply", "error"}
    \/ reader = "decode"
    \/ reader = "send" /\ CanSend(env)
    \/ mu = Nobody /\ (reader = "failAll" => \A d \in pending : CanSend(d))
    \/ \E d \in Calls : mu = d /\ pc[d] = "encode"

\* No call of the client waits while nobody can move, except in the one cycle: the
\* reason why EncodeBlocksOnlyInCycle and ExitReleasesCallers hold under the
\* scheduler's fairness, for any number of calls and any capacity of the pipes.
THEOREM ClientNeverStuck == Spec => [](EncodeMoves /\ ReleaseMoves)
<1>1. Init => IInv /\ PipeBound
  <2>1. Init => IInv
    BY DEF Init, IInv, TypeOK, Envelopes, CallInv, ReplyInv, SendSafe, NoCallForgotten, AnswersMatch
  <2>2. Init => PipeBound
    BY DEF Init, PipeBound
  <2> QED BY <2>1, <2>2
<1>2. IInv /\ PipeBound /\ [Next]_vars => IInv' /\ PipeBound'
  BY InvStep, PipeStep DEF IInv
<1>3. ASSUME IInv, PipeBound PROVE EncodeMoves /\ ReleaseMoves
  <2>t. /\ stdin \in Seq(Calls) /\ stdout \in Seq(Envelopes) /\ PipeCap \in Nat \ {0}
        /\ reader \in {"decode", "lookup", "send", "notify", "failAll", "done"}
        /\ pipes \in {"open", "closed"} /\ agent \in {"up", "exited"} /\ mu \in Calls \cup {Nobody}
    BY <1>3 DEF IInv, TypeOK
  <2>1. /\ Len(stdin) < PipeCap \/ (Len(stdin) = PipeCap /\ stdin # <<>>)
        /\ Len(stdout) < PipeCap \/ (Len(stdout) = PipeCap /\ stdout # <<>>)
    BY <1>3, <2>t DEF PipeBound
  <2>2. reader = "send" => CanSend(env)
    BY <1>3 DEF IInv, SendSafe
  <2>3. EncodeMoves
    BY <2>t, <2>1, <2>2 DEF EncodeMoves, WriteDeadlock
  <2>4. ASSUME mu # Nobody PROVE \E d \in Calls : mu = d /\ pc[d] = "encode"
    BY <1>3, <2>t, <2>4 DEF IInv, CallInv
  <2>5. \A d \in pending : CanSend(d)
    BY <1>3 DEF IInv, SendSafe
  <2>6. ReleaseMoves
    BY <2>4, <2>5 DEF ReleaseMoves
  <2> QED BY <2>3, <2>6
<1> QED BY <1>1, <1>2, <1>3, PTL DEF Spec

\* The cycle is a deadlock: once in it a call never leaves Encode, whatever the other
\* calls, their contexts, the readLoop or the agent do, until the agent exits or the
\* client is closed.
THEOREM WriteDeadlockStays ==
  Spec => [][\A c \in Calls : WriteDeadlock(c) => WriteDeadlock(c)' \/ AgentExit \/ Close]_vars
<1>1. ASSUME IInv, [Next]_vars, NEW c \in Calls, WriteDeadlock(c), ~AgentExit, ~Close PROVE WriteDeadlock(c)'
  <2>1. mu = c /\ c # Nobody /\ stdout # <<>> /\ pc \in [Calls -> {"idle", "encode", "wait", "done"}]
    BY <1>1 DEF IInv, TypeOK, CallInv, WriteDeadlock
  <2>2. ~(Len(stdin) < PipeCap) /\ ~(Len(stdout) < PipeCap)
    BY <1>1 DEF WriteDeadlock
  <2>3. ASSUME NEW d \in Calls, CallStep(d) \/ CallCtxDone(d) PROVE WriteDeadlock(c)'
    <3>1. pc[d] # "idle" \/ ~CallRegister(d)
      BY <2>1, <2>3 DEF CallRegister
    <3>2. d # c
      BY <1>1, <2>1, <2>2, <2>3 DEF CallStep, CallRegister, CallEncode, CallReceive, CallCtxDone, WriteDeadlock
    <3>3. pc[d] # "encode"
      BY <1>1, <2>1, <3>2 DEF IInv, CallInv
    <3>4. CallReceive(d) \/ CallCtxDone(d)
      BY <2>1, <2>3, <3>3 DEF CallStep, CallRegister, CallEncode
    <3> QED
      BY <1>1, <2>1, <3>2, <3>4 DEF CallReceive, CallCtxDone, Return, readVars, agentVars, WriteDeadlock
  <2>4. ~ReaderStep
    BY <1>1, <2>1 DEF ReaderStep, ReadDecode, ReadLookup, ReadSend, ReadNotify, ReadError, FailAll, WriteDeadlock
  <2>5. ~AgentStep /\ ~(\E m \in Envelopes : AgentNoise(m)) /\ ~Wait
    BY <1>1, <2>2 DEF AgentStep, AgentRead, AgentReply, AgentNoise, Wait, WriteDeadlock
  <2>6. CASE UNCHANGED vars
    BY <1>1, <2>6 DEF vars, WriteDeadlock
  <2> QED BY <1>1, <2>3, <2>4, <2>5, <2>6 DEF Next
<1>2. Init => IInv
  BY DEF Init, IInv, TypeOK, Envelopes, CallInv, ReplyInv, SendSafe, NoCallForgotten, AnswersMatch
<1>3. IInv /\ [Next]_vars => [\A c \in Calls : WriteDeadlock(c) => WriteDeadlock(c)' \/ AgentExit \/ Close]_vars
  BY <1>1
<1> QED BY <1>2, <1>3, InvStep, PTL DEF Spec

=============================================================================
