------------------------ MODULE SessionControlProofs ------------------------
(***************************************************************************)
(* Proofs about SessionControl, for any number of prompts, cancels, run    *)
(* IDs, attempts and faults.                                               *)
(*                                                                         *)
(* CtlInv has five parts.  Three say where attempts can be and which       *)
(* requests they carry, who will settle a streaming session, and what is   *)
(* in the run row at each place of an attempt.  The other two are the      *)
(* stories of a failed session and of a run row with one attempt.          *)
(***************************************************************************)
EXTENDS SessionControl, TLAPS

AtWork == InActivity \cup {"return"}
Writing == PromptPlaces \ {"markSession"}   \* an attempt that may have written its run

\* Attempts: one that is not late is the last of a running update.
AttemptsSound ==
  \A a \in Attempts :
    /\ pc[a] \in PromptPlaces => a[1] \in Prompts
    /\ pc[a] \in CancelPlaces => a[1] \in Cancels
    /\ a \in late \/ pc[a] # "none" => upd[a[1]] # "idle" /\ a[2] <= attempt[a[1]]
    /\ a \in late => pc[a] # "none"
    /\ pc[a] \in AtWork /\ a \notin late => upd[a[1]] = "running" /\ a[2] = attempt[a[1]]

UpdatesSound ==
  \A u \in Updates :
    /\ upd[u] = "idle" => reqRun[u] = NoRun /\ u \notin lost /\ attempt[u] = 1
    /\ upd[u] = "done" => pc[<<u, attempt[u]>>] = "over"
    /\ u \in Prompts => reqRun[u] \in RunIDs \cup {NoRun}

OutcomesSound ==
  \A a \in Attempts : /\ pc[a] \in {"failRun", "failSession"} => outcome[a] = "error"
                      /\ pc[a] \in {"endRun", "endSession"} => outcome[a] # "error"

Base == TypeOK /\ AttemptsSound /\ UpdatesSound /\ OutcomesSound

\* Who settles the session: the attempt itself, or its update's next one, or nobody
\* because of a lost row or the last error.
Live(a) ==
  \/ pc[a] \in Writing \/ upd[a[1]] = "error" \/ a[1] \in lost
  \/ upd[a[1]] = "running" /\ pc[<<a[1], attempt[a[1]]>>] = "markSession"

StreamInv ==
  session = "streaming" =>
    \E a \in Attempts : a[1] \in Prompts /\ active = RunOf(a) /\ Live(a)

\* The premises of ReturnedRunStored.
Clean(u) == Unshared(u) /\ Ordered(u) /\ u \notin lost

RowsSound ==
  \A a \in Attempts : a[1] \in Prompts /\ Clean(a[1]) =>
    /\ pc[a] = "failSession" => runs[RunOf(a)] = "failed"
    /\ pc[a] = "endSession" => runs[RunOf(a)] = outcome[a]
    /\ pc[a] = "return" => runs[RunOf(a)] = Reported(a)
    /\ pc[a] = "over" /\ upd[a[1]] = "done" /\ a[2] = attempt[a[1]] => runs[RunOf(a)] = Reported(a)

\* The attempt that failed the session is over and nobody writes its run again.
FailedBy(a) ==
  /\ a[1] \in Prompts /\ active = RunOf(a) /\ pc[a] \in {"return", "over"}
  /\ Clean(a[1]) => /\ runs[active] = "failed"
                    /\ reqRun[a[1]] # NoRun =>
                         \A b \in Attempts : b[1] = a[1] => pc[b] \notin Writing

FailedInv == session = "failed" /\ active # NoRun => \E a \in Attempts : FailedBy(a)

\* The row of a run that one attempt executes, by the place of the attempt.
Fresh(a) ==
  /\ pc[a] \in {"markSession", "markRun"} => runs[RunOf(a)] = "none"
  /\ pc[a] \in {"node", "failRun", "endRun"} => runs[RunOf(a)] \in {"none", "dispatching"}

OneAttemptInv ==
  /\ \A r \in RunIDs : (\A u \in Prompts : reqRun[u] # r) => runs[r] = "none"
  /\ \A a \in Attempts : pc[a] = "none" => runs[a] = "none"
  /\ \A a \in Attempts : a[1] \in Prompts /\ OneAttempt(RunOf(a)) => Fresh(a)

CtlInv == Base /\ StreamInv /\ RowsSound /\ FailedInv /\ OneAttemptInv

-----------------------------------------------------------------------------
(* Attempts are pairs.                                                     *)

\* Most leaves are first-order reasoning about rows and requests, which is Zenon's;
\* the others cite SMT.
USE Zenon

\* A run that was dispatched may move to any outcome.
LEMMA DispatchedMoves ==
  \A s \in {"none", "dispatching"}, t \in {"completed", "cancelled", "failed", "streaming"} : LegalRunStep(s, t)
BY SMT DEF LegalRunStep, validateTransition, runTransitions

LEMMA AttemptPairs ==
  /\ \A a \in Attempts : a[1] \in Updates /\ a[2] \in 1..MaxAttempts /\ a = <<a[1], a[2]>>
  /\ \A u \in Updates, k \in 1..MaxAttempts :
       <<u, k>> \in Attempts /\ <<u, k>>[1] = u /\ <<u, k>>[2] = k
BY SMT DEF Attempts

LEMMA SameAttempt ==
  ASSUME NEW a \in Attempts, NEW b \in Attempts, a[1] = b[1], a[2] = b[2]
  PROVE  a = b
BY AttemptPairs

\* What Retry does.
LEMMA RetryEffect ==
  ASSUME TypeOK, NEW a \in Attempts, NEW l \in AtWork \cup {"over"}, Retry(a, l)
  PROVE  \/ \E n \in Attempts \ {a} :
              /\ n[1] = a[1] /\ n[2] = a[2] + 1
              /\ upd' = upd /\ attempt' = [attempt EXCEPT ![a[1]] = n[2]]
              /\ pc' \in [Attempts -> InActivity \cup {"none", "return", "over"}]
              /\ pc'[a] = l /\ pc'[n] = First(a[1])
              /\ \A b \in Attempts \ {a, n} : pc'[b] = pc[b]
         \/ /\ upd' = [upd EXCEPT ![a[1]] = "error"] /\ attempt' = attempt
            /\ pc' = [pc EXCEPT ![a] = l]
<1>1. a[1] \in Updates /\ a[2] \in 1..MaxAttempts /\ MaxAttempts \in Nat
  BY AttemptPairs, ControlAssumption
<1>2. CASE a[2] < MaxAttempts /\ attempt' = [attempt EXCEPT ![a[1]] = a[2] + 1]
           /\ pc' = [pc EXCEPT ![a] = l, ![<<a[1], a[2] + 1>>] = First(a[1])] /\ UNCHANGED upd
  <2> DEFINE n == <<a[1], a[2] + 1>>
  <2>1. a[2] + 1 \in 1..MaxAttempts /\ a[2] + 1 # a[2]
    BY <1>1, <1>2, SMT
  <2>2. n \in Attempts /\ n[1] = a[1] /\ n[2] = a[2] + 1 /\ n # a
    BY <1>1, <2>1, AttemptPairs, SMT
  <2>3. First(a[1]) \in InActivity
    BY DEF First, InActivity, PromptPlaces, CancelPlaces
  <2> HIDE DEF n
  <2>4. pc' = [pc EXCEPT ![a] = l, ![n] = First(a[1])]
    BY <1>2 DEF n
  <2>5. /\ pc' \in [Attempts -> InActivity \cup {"none", "return", "over"}]
        /\ pc'[a] = l /\ pc'[n] = First(a[1])
        /\ \A b \in Attempts \ {a, n} : pc'[b] = pc[b]
    BY <2>2, <2>3, <2>4 DEF TypeOK, AtWork
  <2> QED
    BY <1>2, <2>2, <2>5
<1>3. CASE upd' = [upd EXCEPT ![a[1]] = "error"] /\ Goto(a, l) /\ UNCHANGED attempt
  BY <1>3 DEF Goto
<1> QED
  BY <1>2, <1>3 DEF Retry

-----------------------------------------------------------------------------
(* Where attempts are                                                      *)

LEMMA InitBase == Init => Base
<1> SUFFICES ASSUME Init PROVE Base
  OBVIOUS
<1>1. TypeOK
  BY ControlAssumption, AttemptPairs, SMT DEF Init, TypeOK, RunStates, Outcomes
<1>2. AttemptsSound /\ UpdatesSound /\ OutcomesSound
  BY AttemptPairs DEF Init, AttemptsSound, UpdatesSound, OutcomesSound, PromptPlaces, CancelPlaces, AtWork, InActivity
<1> QED
  BY <1>1, <1>2 DEF Base

LEMMA UpdateBase ==
  ASSUME Base, NEW u \in Updates, NEW r \in AllRuns \cup {NoRun}, Update(u, r)
  PROVE  Base'
<1> USE ControlAssumption DEF Base, Update, Goto
<1>1. <<u, 1>> \in Attempts /\ <<u, 1>>[1] = u /\ <<u, 1>>[2] = 1 /\ attempt[u] = 1
  <2>1. 1 \in 1..MaxAttempts
    BY Z3
  <2> QED
    BY <2>1, AttemptPairs DEF UpdatesSound
<1>2. First(u) \in InActivity /\ (First(u) \in PromptPlaces => u \in Prompts)
      /\ (First(u) \in CancelPlaces => u \in Cancels)
  BY DEF First, InActivity, PromptPlaces, CancelPlaces, Updates
<1>3. TypeOK'
  BY <1>1, <1>2 DEF TypeOK
<1>4. AttemptsSound'
  <2>1. \A a \in Attempts : a[1] = u => a \notin late
    BY DEF AttemptsSound
  <2>2. \A a \in Attempts : a # <<u, 1>> => pc'[a] = pc[a]
    BY <1>1 DEF TypeOK
  <2>3. pc'[<<u, 1>>] = First(u)
    BY <1>1 DEF TypeOK
  <2>4. \A a \in Attempts : a[1] \in Updates
    BY AttemptPairs
  <2> QED
    BY <1>1, <1>2, <2>1, <2>2, <2>3, <2>4, SMT DEF AttemptsSound, TypeOK, AtWork, InActivity
<1>5. UpdatesSound'
  <2>1. \A v \in Updates : upd[v] = "done" => <<v, attempt[v]>> \in Attempts /\ <<v, attempt[v]>> # <<u, 1>>
    BY AttemptPairs DEF TypeOK
  <2> QED
    BY <1>1, <2>1 DEF UpdatesSound, TypeOK, Updates
<1>6. OutcomesSound'
  BY <1>1 DEF OutcomesSound, TypeOK, First
<1> QED
  BY <1>3, <1>4, <1>5, <1>6

\* A step of an attempt that stays in its activity.
LEMMA PlaceBase ==
  ASSUME Base, TypeOK', OutcomesSound', NEW a \in Attempts, NEW l,
         pc[a] \in InActivity, pc' = [pc EXCEPT ![a] = l],
         \/ pc[a] \in PromptPlaces /\ l \in PromptPlaces \cup {"return"}
         \/ pc[a] \in CancelPlaces /\ l \in CancelPlaces \cup {"return"},
         UNCHANGED <<upd, attempt, late, reqRun>>, lost' \subseteq lost \cup {a[1]}
  PROVE  Base'
<1> USE DEF Base
<1>1. \A b \in Attempts : pc'[b] = IF b = a THEN l ELSE pc[b]
  BY DEF TypeOK
<1>2. l \in AtWork /\ l # "none" /\ pc[a] \in AtWork /\ pc[a] # "none" /\ pc[a] # "over"
  BY DEF AtWork, InActivity, PromptPlaces, CancelPlaces
<1>3. AttemptsSound'
  <2>1. (l \in PromptPlaces => pc[a] \in PromptPlaces) /\ (l \in CancelPlaces => pc[a] \in CancelPlaces)
    BY DEF PromptPlaces, CancelPlaces
  <2> QED
    BY <1>1, <1>2, <2>1, SMT DEF AttemptsSound
<1>4. UpdatesSound'
  <2>1. upd[a[1]] # "idle" /\ a[1] \in Updates
    BY <1>2, AttemptPairs DEF AttemptsSound
  <2>2. \A u \in Updates : <<u, attempt[u]>> \in Attempts
    BY AttemptPairs DEF TypeOK
  <2> QED
    BY <1>1, <1>2, <2>1, <2>2, SMT DEF UpdatesSound
<1> QED
  BY <1>3, <1>4

LEMMA PromptStepBase ==
  ASSUME Base, NEW a \in Attempts, PromptStep(a)
  PROVE  Base' /\ a[1] \in Prompts
<1> USE DEF Base, Goto
<1>1. /\ pc[a] \in PromptPlaces /\ pc[a] \in InActivity /\ a[1] \in Prompts /\ a[1] \in Updates
      /\ UNCHANGED <<upd, attempt, late, reqRun>>
  BY AttemptPairs DEF PromptStep, PromptMarkSession, PromptMarkRun, PromptNode, PromptFailRun,
     PromptFailSession, PromptEndRun, PromptEndSession, PromptPlaces, InActivity, AttemptsSound
<1>2. PICK l \in PromptPlaces \cup {"return"} : pc' = [pc EXCEPT ![a] = l]
  BY DEF PromptStep, PromptMarkSession, PromptMarkRun, PromptNode, PromptFailRun,
     PromptFailSession, PromptEndRun, PromptEndSession, PromptPlaces
<1>3. RunOf(a) \in AllRuns
  BY <1>1 DEF RunOf, AllRuns, UpdatesSound
<1>4. /\ lost' \subseteq lost \cup {a[1]} /\ faults' \in 0..MaxFaults
      /\ copy' = copy /\ stopping' = stopping
      /\ session' \in {"active", "streaming", "cancelling", "waiting_input", "failed"}
      /\ active' \in AllRuns \cup {NoRun}
  BY <1>3, ControlAssumption, SMT
     DEF TypeOK, PromptStep, PromptMarkSession, PromptMarkRun, PromptNode, PromptFailRun,
     PromptFailSession, PromptEndRun, PromptEndSession, WriteSession, WriteRun, FaultOf, Fault, Settled
<1>5. outcome' \in [Attempts -> Outcomes] /\ runs' \in [AllRuns -> RunStates]
  <2>1. CASE PromptEndRun(a)
    <3>1. outcome[a] \in RunStates
      BY <2>1 DEF PromptEndRun, OutcomesSound, TypeOK, RunStates, Outcomes
    <3> QED
      BY <1>3, <2>1, <3>1 DEF TypeOK, PromptEndRun
  <2>2. CASE ~PromptEndRun(a)
    BY <1>3, <2>2, SMT DEF TypeOK, PromptStep, PromptMarkSession, PromptMarkRun, PromptNode, PromptFailRun,
       PromptFailSession, PromptEndSession, WriteRun, RunStates
  <2> QED
    BY <2>1, <2>2
<1>6. TypeOK'
  BY <1>1, <1>2, <1>4, <1>5 DEF TypeOK, InActivity
<1>7. OutcomesSound'
  BY SMT DEF OutcomesSound, TypeOK, PromptStep, PromptMarkSession, PromptMarkRun, PromptNode,
     PromptFailRun, PromptFailSession, PromptEndRun, PromptEndSession
<1> QED
  BY <1>1, <1>2, <1>4, <1>6, <1>7, PlaceBase

LEMMA CancelStepBase ==
  ASSUME Base, NEW a \in Attempts, CancelStep(a)
  PROVE  Base' /\ a[1] \in Cancels
<1> USE DEF Base, Goto
<1>1. /\ pc[a] \in CancelPlaces /\ pc[a] \in InActivity /\ a[1] \in Cancels /\ a[1] \in Updates
      /\ UNCHANGED <<upd, attempt, late, reqRun, runs, outcome>>
  BY AttemptPairs DEF CancelStep, CancelRead, CancelMark, CancelNode, CancelPlaces, InActivity, AttemptsSound
<1>2. PICK l \in CancelPlaces \cup {"return"} : pc' = [pc EXCEPT ![a] = l]
  BY DEF CancelStep, CancelRead, CancelMark, CancelNode, CancelPlaces
<1>3. RunOf(a) \in AllRuns
  BY <1>1 DEF RunOf, AllRuns, TypeOK
<1>4. /\ lost' \subseteq lost \cup {a[1]} /\ faults' \in 0..MaxFaults
      /\ session' \in {"active", "streaming", "cancelling", "waiting_input", "failed"}
      /\ active' \in AllRuns \cup {NoRun}
      /\ copy' \in [Attempts -> AllRuns \cup {NoRun}]
      /\ stopping' \subseteq AllRuns
  BY <1>3, ControlAssumption, SMT
     DEF TypeOK, CancelStep, CancelRead, CancelMark, CancelNode, WriteSession, FaultOf, Fault
<1>5. TypeOK'
  BY <1>1, <1>2, <1>4 DEF TypeOK, InActivity
<1>6. OutcomesSound'
  BY <1>1, <1>2 DEF OutcomesSound, TypeOK, CancelPlaces
<1> QED
  BY <1>1, <1>2, <1>4, <1>5, <1>6, PlaceBase

\* A completion that arrives, and the end of a late attempt.
LEMMA EndBase ==
  ASSUME Base, NEW a \in Attempts, HandlerReturns(a) \/ LateAttemptEnds(a)
  PROVE  Base'
<1> USE DEF Base, Goto
<1>1. /\ pc[a] \in AtWork /\ pc' = [pc EXCEPT ![a] = "over"] /\ a[1] \in Updates
      /\ UNCHANGED <<session, active, runs, attempt, late, reqRun, outcome, copy, stopping, faults>>
      /\ lost' \subseteq lost \cup {a[1]}
  BY AttemptPairs DEF HandlerReturns, LateAttemptEnds, AtWork
<1>2. \/ upd' = upd /\ a \in late
      \/ upd' = [upd EXCEPT ![a[1]] = "done"] /\ a \notin late
  BY DEF HandlerReturns, LateAttemptEnds
<1>3. TypeOK'
  BY <1>1, <1>2 DEF TypeOK
<1>4. \A b \in Attempts : pc'[b] = IF b = a THEN "over" ELSE pc[b]
  BY <1>1 DEF TypeOK
<1>5. upd[a[1]] # "idle" /\ (a \notin late => upd[a[1]] = "running" /\ a[2] = attempt[a[1]])
  BY <1>1 DEF AttemptsSound, AtWork, InActivity, PromptPlaces, CancelPlaces
<1>6. AttemptsSound'
  <2>1. "over" \notin AtWork \cup PromptPlaces \cup CancelPlaces \cup {"none"}
    BY DEF AtWork, InActivity, PromptPlaces, CancelPlaces
  <2>2. \A b \in Attempts \ {a} : b[1] = a[1] /\ a \notin late /\ pc[b] \in AtWork => b \in late
    BY <1>5, SameAttempt, SMT DEF AttemptsSound
  <2>3. \A b \in Attempts : b[1] \in Updates
    BY AttemptPairs
  <2> QED
    BY <1>1, <1>2, <1>4, <1>5, <2>1, <2>2, <2>3, SMT DEF AttemptsSound, TypeOK
<1>7. UpdatesSound'
  <2>1. \A u \in Updates : <<u, attempt[u]>> \in Attempts
    BY AttemptPairs DEF TypeOK
  <2>2. a \notin late => a = <<a[1], attempt[a[1]]>>
    BY <1>5, AttemptPairs
  <2> QED
    BY <1>1, <1>2, <1>4, <1>5, <2>1, <2>2, SMT DEF UpdatesSound, TypeOK
<1>8. OutcomesSound'
  BY <1>1, <1>4, SMT DEF OutcomesSound
<1> QED
  BY <1>3, <1>6, <1>7, <1>8

\* An attempt fails, or runs out of time and goes on.
LEMMA RetryBase ==
  ASSUME Base, NEW a \in Attempts, AttemptFails(a) \/ AttemptTimesOut(a)
  PROVE  Base'
<1> USE DEF Base
<1>1. PICK l \in AtWork \cup {"over"} :
        /\ Retry(a, l) /\ pc[a] \in AtWork /\ a \notin late /\ l \in {pc[a], "over"}
        /\ late' \subseteq late \cup {a} /\ late \subseteq late' /\ (l = "over" \/ a \in late')
        /\ faults' \in 0..MaxFaults
        /\ UNCHANGED <<session, active, runs, reqRun, outcome, lost, copy, stopping>>
  BY ControlAssumption, SMT DEF AttemptFails, AttemptTimesOut, AtWork, Fault, TypeOK
<1>2. upd[a[1]] = "running" /\ a[2] = attempt[a[1]] /\ a[1] \in Updates /\ a[2] \in Nat
  BY <1>1, AttemptPairs, ControlAssumption, SMT DEF AttemptsSound
<1>3. "over" \notin AtWork \cup PromptPlaces \cup CancelPlaces \cup {"none"}
      /\ "none" \notin AtWork
    BY DEF AtWork, InActivity, PromptPlaces, CancelPlaces
<1>4. \A b \in Attempts \ {a} : b[1] = a[1] /\ pc[b] \in AtWork => b \in late
  BY <1>2, SameAttempt, SMT DEF AttemptsSound
<1>5. \A b \in Attempts : b[1] \in Updates /\ b[2] \in Nat
  BY AttemptPairs, ControlAssumption, SMT
<1>6. ASSUME NEW n \in Attempts \ {a}, n[1] = a[1], n[2] = a[2] + 1, upd' = upd,
             attempt' = [attempt EXCEPT ![a[1]] = n[2]],
             pc' \in [Attempts -> InActivity \cup {"none", "return", "over"}],
             pc'[a] = l, pc'[n] = First(a[1]), \A b \in Attempts \ {a, n} : pc'[b] = pc[b]
      PROVE  Base'
  <2>1. TypeOK'
    BY <1>1, <1>2, <1>6, AttemptPairs, SMT DEF TypeOK
  <2>2. First(a[1]) \in AtWork /\ (First(a[1]) \in PromptPlaces => a[1] \in Prompts)
        /\ (First(a[1]) \in CancelPlaces => a[1] \in Cancels) /\ First(a[1]) # "none"
    BY <1>2 DEF First, AtWork, InActivity, PromptPlaces, CancelPlaces, Updates
  <2>3. n \notin late /\ n \notin late'
    BY <1>1, <1>2, <1>5, <1>6, SMT DEF AttemptsSound
  <2>4. \A u \in Updates : attempt'[u] = IF u = a[1] THEN n[2] ELSE attempt[u]
    BY <1>6 DEF TypeOK
  <2>5. AttemptsSound'
    <3> SUFFICES ASSUME NEW b \in Attempts
                 PROVE  (/\ pc[b] \in PromptPlaces => b[1] \in Prompts
                         /\ pc[b] \in CancelPlaces => b[1] \in Cancels
                         /\ b \in late \/ pc[b] # "none" => upd[b[1]] # "idle" /\ b[2] <= attempt[b[1]]
                         /\ b \in late => pc[b] # "none"
                         /\ pc[b] \in AtWork /\ b \notin late => upd[b[1]] = "running" /\ b[2] = attempt[b[1]])'
      BY DEF AttemptsSound
    <3>1. CASE b = n
      BY <1>2, <1>6, <2>2, <2>3, <2>4, <3>1, SMT
    <3>2. CASE b = a
      BY <1>1, <1>2, <1>3, <1>6, <2>4, <3>2, SMT DEF AttemptsSound
    <3>3. CASE b # a /\ b # n
      BY <1>1, <1>2, <1>4, <1>5, <1>6, <2>4, <3>3, SMT DEF AttemptsSound, TypeOK
    <3> QED
      BY <3>1, <3>2, <3>3
  <2>6. UpdatesSound'
    <3>1. \A u \in Updates : upd[u] = "done" => u # a[1] /\ attempt[u] \in 1..MaxAttempts
      BY <1>2 DEF TypeOK
    <3>2. \A u \in Updates : upd[u] = "done" => <<u, attempt[u]>> \in Attempts
                                                /\ <<u, attempt[u]>> # n /\ <<u, attempt[u]>> # a
      <4>1. \A u \in Updates, k \in 1..MaxAttempts : u # a[1] => <<u, k>> # n /\ <<u, k>> # a
        BY <1>6, AttemptPairs, SMT
      <4> QED
        BY <3>1, <4>1, AttemptPairs
    <3>3. \A u \in Updates : upd[u] = "done" => pc'[<<u, attempt'[u]>>] = "over"
      BY <1>6, <2>4, <3>1, <3>2, SMT DEF UpdatesSound
    <3>4. \A u \in Updates : upd[u] = "idle" => attempt'[u] = 1
      BY <1>2, <2>4 DEF UpdatesSound
    <3> QED
      BY <1>1, <1>6, <3>3, <3>4 DEF UpdatesSound
  <2>7. OutcomesSound'
    BY <1>1, <1>6 DEF OutcomesSound, First
  <2> QED
    BY <2>1, <2>5, <2>6, <2>7
<1>7. ASSUME upd' = [upd EXCEPT ![a[1]] = "error"], attempt' = attempt, pc' = [pc EXCEPT ![a] = l]
      PROVE  Base'
  <2>1. TypeOK'
    BY <1>1, <1>2, <1>7 DEF TypeOK, AtWork
  <2>2. \A b \in Attempts : pc'[b] = IF b = a THEN l ELSE pc[b]
    BY <1>7 DEF TypeOK
  <2>3. AttemptsSound'
    BY <1>1, <1>2, <1>3, <1>4, <1>5, <1>7, <2>2, SMT DEF AttemptsSound, TypeOK
  <2>4. UpdatesSound'
    <3>1. \A u \in Updates : upd[u] = "done" => u # a[1] /\ <<u, attempt[u]>> \in Attempts
                                                /\ <<u, attempt[u]>> # a
      BY <1>2, AttemptPairs, SMT DEF TypeOK
    <3> QED
      BY <1>1, <1>2, <1>7, <2>2, <3>1, SMT DEF UpdatesSound, TypeOK
  <2>5. OutcomesSound'
    BY <1>1, <2>2 DEF OutcomesSound
  <2> QED
    BY <2>1, <2>3, <2>4, <2>5
<1> QED
  BY <1>1, <1>6, <1>7, RetryEffect

LEMMA StepBase == Base /\ [Next]_vars => Base'
<1> SUFFICES ASSUME Base, [Next]_vars PROVE Base'
  OBVIOUS
<1>1. CASE UNCHANGED vars
  BY <1>1 DEF vars, Base, TypeOK, AttemptsSound, UpdatesSound, OutcomesSound
<1>2. CASE Next
  BY <1>2, UpdateBase, PromptStepBase, CancelStepBase, EndBase, RetryBase DEF Next
<1> QED
  BY <1>1, <1>2

-----------------------------------------------------------------------------
(* Who settles a streaming session                                         *)

LEMMA StreamKept ==
  ASSUME StreamInv, reqRun' = reqRun,
         session' = "streaming" => session = "streaming" /\ active' = active,
         \A a \in Attempts : a[1] \in Prompts /\ Live(a) => Live(a)'
  PROVE  StreamInv'
BY DEF StreamInv, RunOf

LEMMA UpdateStream ==
  ASSUME Base, StreamInv, NEW u \in Updates, NEW r \in AllRuns \cup {NoRun}, Update(u, r)
  PROVE  StreamInv'
<1>1. SUFFICES ASSUME session = "streaming" PROVE StreamInv'
  BY DEF StreamInv, Update
<1>2. PICK a \in Attempts : a[1] \in Prompts /\ active = RunOf(a) /\ Live(a)
  BY <1>1 DEF StreamInv
<1>3. a[1] # u
  <2>1. "none" \notin Writing
    BY DEF Writing, PromptPlaces
  <2> QED
    BY <1>2, <2>1 DEF Live, Update, Base, AttemptsSound, UpdatesSound
<1>4. <<a[1], attempt[a[1]]>> \in Attempts /\ <<u, 1>> \in Attempts
  BY AttemptPairs, ControlAssumption, SMT DEF Base, TypeOK
<1>5. <<a[1], attempt[a[1]]>> # <<u, 1>> /\ a # <<u, 1>> /\ a[1] \in Updates
  BY <1>3, AttemptPairs, SMT
<1>6. Live(a)'
  BY <1>2, <1>3, <1>4, <1>5 DEF Live, Update, Goto, Base, TypeOK
<1>7. RunOf(a)' = RunOf(a)
  BY <1>3, <1>5 DEF RunOf, Update, Base, TypeOK
<1> QED
  BY <1>2, <1>6, <1>7 DEF StreamInv, Update

LEMMA PromptStepStream ==
  ASSUME Base, StreamInv, NEW b \in Attempts, PromptStep(b)
  PROVE  StreamInv'
<1>0. b[1] \in Prompts /\ UNCHANGED <<upd, attempt, late, reqRun>> /\ pc[b] \in PromptPlaces
  BY PromptStepBase DEF PromptStep, PromptMarkSession, PromptMarkRun, PromptNode, PromptFailRun,
     PromptFailSession, PromptEndRun, PromptEndSession, PromptPlaces
<1>1. \A a \in Attempts : <<a[1], attempt[a[1]]>> \in Attempts
  BY AttemptPairs DEF Base, TypeOK
<1>2. CASE PromptMarkSession(b) /\ session' = "streaming" /\ active' = RunOf(b)
  <2>1. pc'[b] \in Writing
    BY <1>2 DEF PromptMarkSession, Goto, Base, TypeOK, Writing, PromptPlaces
  <2>2. RunOf(b)' = RunOf(b)
    BY <1>0 DEF RunOf
  <2> QED
    BY <1>0, <1>2, <2>1, <2>2 DEF StreamInv, Live
<1>3. CASE \/ PromptMarkSession(b) /\ lost' = lost \cup {b[1]} /\ UNCHANGED <<session, active>>
           \/ PromptFailSession(b) /\ lost' = lost \cup {b[1]} /\ UNCHANGED <<session, active>>
  <2>1. \A a \in Attempts : a[1] = b[1] => Live(a)'
    BY <1>3 DEF Live
  <2>2. \A a \in Attempts : a # b => pc'[a] = pc[a]
    BY <1>3 DEF PromptMarkSession, PromptFailSession, Goto, Base, TypeOK
  <2>3. \A a \in Attempts : a[1] # b[1] => a # b /\ <<a[1], attempt[a[1]]>> # b
    BY AttemptPairs, SMT
  <2>4. \A a \in Attempts : Live(a) => Live(a)'
    BY <1>0, <1>1, <1>3, <2>1, <2>2, <2>3 DEF Live
  <2> QED
    BY <1>0, <1>3, <2>4, StreamKept
<1>4. CASE \/ PromptFailSession(b) /\ session' = "failed"
           \/ PromptEndSession(b)
  BY <1>4 DEF StreamInv, PromptEndSession, Settled
<1>5. CASE PromptMarkRun(b) \/ (\E o \in Outcomes : PromptNode(b, o)) \/ PromptFailRun(b) \/ PromptEndRun(b)
  <2>1. pc[b] # "markSession" /\ pc'[b] \in Writing /\ (\A a \in Attempts : a # b => pc'[a] = pc[a])
    BY <1>5 DEF PromptMarkRun, PromptNode, PromptFailRun, PromptEndRun, Goto, Base, TypeOK, Writing, PromptPlaces
  <2>2. lost \subseteq lost' /\ UNCHANGED <<session, active>>
    BY <1>5 DEF PromptMarkRun, PromptNode, PromptFailRun, PromptEndRun, WriteRun
  <2>3. \A a \in Attempts : Live(a) => Live(a)'
    BY <1>0, <1>1, <2>1, <2>2 DEF Live
  <2> QED
    BY <1>0, <2>2, <2>3, StreamKept
<1> QED
  BY <1>2, <1>3, <1>4, <1>5 DEF PromptStep, PromptMarkSession, PromptFailSession, WriteSession

LEMMA CancelStepStream ==
  ASSUME Base, StreamInv, NEW b \in Attempts, CancelStep(b)
  PROVE  StreamInv'
<1>1. /\ b[1] \in Cancels /\ UNCHANGED <<upd, attempt, reqRun>> /\ lost \subseteq lost'
      /\ session' = "streaming" => session = "streaming" /\ active' = active
      /\ \A a \in Attempts : a # b => pc'[a] = pc[a]
  BY CancelStepBase DEF CancelStep, CancelRead, CancelMark, CancelNode, WriteSession, Goto, Base, TypeOK
<1>2. \A a \in Attempts : a[1] \in Prompts =>
        a # b /\ <<a[1], attempt[a[1]]>> # b /\ <<a[1], attempt[a[1]]>> \in Attempts
  BY <1>1, AttemptPairs, ControlAssumption, SMT DEF Base, TypeOK
<1>3. \A a \in Attempts : a[1] \in Prompts /\ Live(a) => Live(a)'
  BY <1>1, <1>2 DEF Live
<1> QED
  BY <1>1, <1>3, StreamKept

LEMMA EndStream ==
  ASSUME Base, StreamInv, NEW b \in Attempts, HandlerReturns(b) \/ LateAttemptEnds(b)
  PROVE  StreamInv'
<1>0. UNCHANGED <<session, active, attempt, reqRun>> /\ lost \subseteq lost'
      /\ \A a \in Attempts : a # b => pc'[a] = pc[a]
  BY DEF HandlerReturns, LateAttemptEnds, Goto, Base, TypeOK
<1>1. ASSUME NEW a \in Attempts, a[1] \in Prompts, Live(a) PROVE Live(a)'
  <2>0. <<a[1], attempt[a[1]]>> \in Attempts /\ a[1] \in Updates /\ b[1] \in Updates
    BY AttemptPairs DEF Base, TypeOK
  <2>1. CASE HandlerReturns(b)
    <3>1. pc[b] = "return" /\ "return" \notin Writing /\ b[2] = attempt[b[1]] /\ upd[b[1]] = "running"
      BY <2>1 DEF HandlerReturns, Writing, PromptPlaces, Base, AttemptsSound, AtWork
    <3>2. b = <<b[1], attempt[b[1]]>>
      BY <3>1, AttemptPairs, SMT
    <3>3. upd' = [upd EXCEPT ![b[1]] = "done"] /\ lost' = lost
      BY <2>1 DEF HandlerReturns
    <3> QED
      BY <1>0, <1>1, <2>0, <3>1, <3>2, <3>3, SMT DEF Live, Base, TypeOK
  <2>2. CASE LateAttemptEnds(b)
    <3>1. upd' = upd /\ (pc[b] \in Writing \cup {"markSession"} => b[1] \in lost')
      BY <2>2 DEF LateAttemptEnds, Writing, PromptPlaces
    <3>2. <<a[1], attempt[a[1]]>> = b => a[1] = b[1]
      BY <2>0, AttemptPairs, SMT
    <3> QED
      BY <1>0, <1>1, <2>0, <3>1, <3>2 DEF Live
  <2> QED
    BY <2>1, <2>2
<1> QED
  BY <1>0, <1>1, StreamKept

LEMMA RetryStream ==
  ASSUME Base, StreamInv, NEW b \in Attempts, AttemptFails(b) \/ AttemptTimesOut(b)
  PROVE  StreamInv'
<1>1. PICK l \in AtWork \cup {"over"} :
        Retry(b, l) /\ pc[b] \in AtWork /\ b \notin late /\ UNCHANGED <<session, active, reqRun, lost>>
  BY DEF AttemptFails, AttemptTimesOut, AtWork
<1>2. upd[b[1]] = "running" /\ b[2] = attempt[b[1]] /\ b[1] \in Updates
  BY <1>1, AttemptPairs DEF Base, AttemptsSound
<1>3. \A a \in Attempts : /\ a[1] \in Updates /\ <<a[1], attempt[a[1]]>> \in Attempts
                          /\ a[1] # b[1] => a # b /\ <<a[1], attempt[a[1]]>> # b
  BY AttemptPairs, SMT DEF Base, TypeOK
<1>4. ASSUME NEW n \in Attempts \ {b}, n[1] = b[1], n[2] = b[2] + 1, upd' = upd,
             attempt' = [attempt EXCEPT ![b[1]] = n[2]],
             pc'[n] = First(b[1]), \A a \in Attempts \ {b, n} : pc'[a] = pc[a]
      PROVE  StreamInv'
  <2>1. n = <<b[1], attempt'[b[1]]>>
    BY <1>2, <1>4, AttemptPairs, SMT DEF Base, TypeOK
  <2>2. \A a \in Attempts : a[1] \in Prompts /\ a[1] = b[1] => Live(a)'
    BY <1>2, <1>4, <2>1 DEF Live, First
  <2>3. \A a \in Attempts : a[1] # b[1] => a # n /\ <<a[1], attempt[a[1]]>> # n /\ attempt'[a[1]] = attempt[a[1]]
    BY <1>2, <1>3, <1>4, AttemptPairs, SMT DEF Base, TypeOK
  <2>4. \A a \in Attempts : a[1] # b[1] /\ Live(a) => Live(a)'
    BY <1>1, <1>3, <1>4, <2>3 DEF Live
  <2> QED
    BY <1>1, <2>2, <2>4, StreamKept
<1>5. ASSUME upd' = [upd EXCEPT ![b[1]] = "error"], attempt' = attempt, pc' = [pc EXCEPT ![b] = l]
      PROVE  StreamInv'
  <2>1. \A a \in Attempts : a[1] = b[1] => Live(a)'
    BY <1>2, <1>5 DEF Live, Base, TypeOK
  <2>2. \A a \in Attempts : a[1] # b[1] /\ Live(a) => Live(a)'
    BY <1>1, <1>3, <1>5 DEF Live, Base, TypeOK
  <2> QED
    BY <1>1, <2>1, <2>2, StreamKept
<1> QED
  BY <1>1, <1>4, <1>5, RetryEffect DEF Base

LEMMA StepStream == Base /\ StreamInv /\ [Next]_vars => StreamInv'
<1> SUFFICES ASSUME Base, StreamInv, [Next]_vars PROVE StreamInv'
  OBVIOUS
<1>1. CASE UNCHANGED vars
  BY <1>1 DEF vars, StreamInv, Live, RunOf
<1>2. CASE Next
  BY <1>2, UpdateStream, PromptStepStream, CancelStepStream, EndStream, RetryStream DEF Next
<1> QED
  BY <1>1, <1>2

-----------------------------------------------------------------------------
(* What is in the run row                                                  *)

\* Updates do not become clean again.
LEMMA CleanBack ==
  ASSUME Base, [Next]_vars, NEW u \in Prompts, Clean(u)'
  PROVE  Clean(u)
<1>0. u \in Updates
  BY DEF Updates
<1>1. CASE \E v \in Updates, r \in AllRuns \cup {NoRun} : Update(v, r)
  <2>1. PICK v \in Updates, r \in AllRuns \cup {NoRun} : Update(v, r)
    BY <1>1
  <2>2. reqRun[v] = NoRun /\ v \notin lost
    BY <2>1 DEF Update, Base, UpdatesSound
  <2>3. \A w \in Updates \ {v} : reqRun'[w] = reqRun[w]
    BY <2>1 DEF Update, Base, TypeOK
  <2> QED
    BY <1>0, <2>1, <2>2, <2>3 DEF Clean, Unshared, Ordered, Update, Updates
<1>2. CASE reqRun' = reqRun /\ lost \subseteq lost' /\ late \subseteq late'
  BY <1>2 DEF Clean, Unshared, Ordered
<1>3. ASSUME NEW a \in Attempts, PromptStep(a) \/ CancelStep(a) \/ HandlerReturns(a)
                                 \/ AttemptFails(a) \/ AttemptTimesOut(a) \/ LateAttemptEnds(a)
      PROVE  reqRun' = reqRun /\ lost \subseteq lost' /\ late \subseteq late'
  BY <1>3 DEF PromptStep, CancelStep, HandlerReturns, AttemptFails, AttemptTimesOut, LateAttemptEnds,
     PromptMarkSession, PromptMarkRun, PromptNode, PromptFailRun, PromptFailSession, PromptEndRun,
     PromptEndSession, CancelRead, CancelMark, CancelNode, WriteSession, WriteRun
<1> QED
  BY <1>1, <1>2, <1>3 DEF Next, vars

\* A clean run has one writer.
LEMMA SoleWriter ==
  ASSUME Base, NEW a \in Attempts, NEW b \in Attempts, a[1] \in Prompts, b[1] \in Prompts,
         RunOf(a) = RunOf(b), Clean(a[1]), pc[b] \in PromptPlaces,
         pc[a] \in AtWork \/ upd[a[1]] = "done"
  PROVE  a = b
<1>0. reqRun[a[1]] \in RunIDs \cup {NoRun} /\ reqRun[b[1]] \in RunIDs \cup {NoRun}
  BY AttemptPairs DEF Base, UpdatesSound
<1>1. CASE reqRun[a[1]] = NoRun \/ reqRun[b[1]] = NoRun
  BY <1>0, <1>1, ControlAssumption DEF RunOf
<1>2. CASE reqRun[a[1]] # NoRun /\ reqRun[b[1]] # NoRun
  <2>1. a[1] = b[1]
    BY <1>2 DEF RunOf, Clean, Unshared
  <2>2. a \notin late /\ b \notin late
    BY <1>2, <2>1 DEF Clean, Ordered
  <2>3. upd[b[1]] = "running" /\ b[2] = attempt[b[1]]
    BY <2>2 DEF Base, AttemptsSound, AtWork, InActivity
  <2>4. a[2] = attempt[a[1]]
    BY <2>1, <2>2, <2>3 DEF Base, AttemptsSound
  <2> QED
    BY <2>1, <2>3, <2>4, SameAttempt
<1> QED
  BY <1>1, <1>2

\* The part of RowsSound about one attempt.
RowOf(a) ==
  /\ pc[a] = "failSession" => runs[RunOf(a)] = "failed"
  /\ pc[a] = "endSession" => runs[RunOf(a)] = outcome[a]
  /\ pc[a] = "return" => runs[RunOf(a)] = Reported(a)
  /\ pc[a] = "over" /\ upd[a[1]] = "done" /\ a[2] = attempt[a[1]] => runs[RunOf(a)] = Reported(a)

LEMMA RowKept ==
  ASSUME NEW a \in Attempts, RowOf(a), reqRun' = reqRun,
         pc'[a] = pc[a], outcome'[a] = outcome[a], attempt'[a[1]] = attempt[a[1]], upd'[a[1]] = upd[a[1]],
         pc[a] \in AtWork \/ upd[a[1]] = "done" => runs'[RunOf(a)] = runs[RunOf(a)]
  PROVE  RowOf(a)'
BY DEF RowOf, RunOf, Reported, AtWork, InActivity, PromptPlaces

LEMMA PromptStepRow ==
  ASSUME Base, RowsSound, [Next]_vars, NEW b \in Attempts, PromptStep(b),
         NEW a \in Attempts, a[1] \in Prompts, Clean(a[1])'
  PROVE  RowOf(a)'
<1>0. b[1] \in Prompts /\ UNCHANGED <<upd, attempt, late, reqRun>> /\ pc[b] \in PromptPlaces
  BY PromptStepBase DEF PromptStep, PromptMarkSession, PromptMarkRun, PromptNode, PromptFailRun,
     PromptFailSession, PromptEndRun, PromptEndSession, PromptPlaces
<1>1. Clean(a[1]) /\ RowOf(a)
  BY CleanBack DEF RowsSound, RowOf
<1>2. RunOf(a) \in AllRuns /\ RunOf(b) \in AllRuns
  BY <1>0, AttemptPairs DEF RunOf, AllRuns, Base, UpdatesSound
<1>3. CASE a # b
  <2>1. pc'[a] = pc[a] /\ outcome'[a] = outcome[a]
    BY <1>3 DEF PromptStep, PromptMarkSession, PromptMarkRun, PromptNode, PromptFailRun,
       PromptFailSession, PromptEndRun, PromptEndSession, Goto, Base, TypeOK
  <2>2. \A r \in AllRuns \ {RunOf(b)} : runs'[r] = runs[r]
    BY <1>2 DEF PromptStep, PromptMarkSession, PromptMarkRun, PromptNode, PromptFailRun,
       PromptFailSession, PromptEndRun, PromptEndSession, WriteRun, Base, TypeOK
  <2>3. pc[a] \in AtWork \/ upd[a[1]] = "done" => RunOf(a) # RunOf(b)
    BY <1>0, <1>1, <1>3, SoleWriter
  <2> QED
    BY <1>0, <1>1, <1>2, <2>1, <2>2, <2>3, RowKept
<1>4. CASE a = b
  <2>0. a[1] \notin lost' /\ RunOf(a)' = RunOf(a)
    BY <1>0 DEF Clean, RunOf
  <2>1. CASE PromptMarkSession(a) \/ PromptMarkRun(a) \/ \E o \in Outcomes : PromptNode(a, o)
    BY <2>1, SMT DEF PromptMarkSession, PromptMarkRun, PromptNode, Goto, RowOf, Base, TypeOK
  <2>2. CASE PromptFailRun(a)
    BY <1>2, <2>0, <2>2, SMT DEF PromptFailRun, WriteRun, Goto, RowOf, Base, TypeOK
  <2>3. CASE PromptEndRun(a)
    BY <1>2, <2>0, <2>3 DEF PromptEndRun, Goto, RowOf, Base, TypeOK
  <2>4. CASE PromptFailSession(a) \/ PromptEndSession(a)
    <3>1. UNCHANGED <<runs, outcome>> /\ pc'[a] = "return"
      BY <2>4 DEF PromptFailSession, PromptEndSession, Goto, Base, TypeOK
    <3>2. runs[RunOf(a)] = Reported(a)
      BY <1>1, <2>4 DEF RowOf, PromptFailSession, PromptEndSession, Base, OutcomesSound, Reported
    <3> QED
      BY <2>0, <3>1, <3>2 DEF RowOf, Reported
  <2> QED
    BY <1>4, <2>1, <2>2, <2>3, <2>4 DEF PromptStep
<1> QED
  BY <1>3, <1>4

\* The other steps write no run.
LEMMA OtherStepRow ==
  ASSUME Base, RowsSound, [Next]_vars, NEW b \in Attempts,
         CancelStep(b) \/ HandlerReturns(b) \/ LateAttemptEnds(b) \/ AttemptFails(b) \/ AttemptTimesOut(b),
         NEW a \in Attempts, a[1] \in Prompts, Clean(a[1])'
  PROVE  RowOf(a)'
<1>0. Clean(a[1]) /\ RowOf(a) /\ a[1] \in Updates /\ b[1] \in Updates
  BY CleanBack, AttemptPairs DEF RowsSound, RowOf
<1>1. CASE CancelStep(b)
  <2>1. a # b
    BY <1>1, CancelStepBase, ControlAssumption
  <2> QED
    BY <1>0, <1>1, <2>1, RowKept DEF CancelStep, CancelRead, CancelMark, CancelNode, Goto, Base, TypeOK
<1>2. CASE HandlerReturns(b)
  <2>1. b[2] = attempt[b[1]] /\ UNCHANGED <<runs, outcome, reqRun, attempt>>
    BY <1>2 DEF HandlerReturns, Base, AttemptsSound, AtWork
  <2>2. a[1] = b[1] /\ a[2] = attempt[a[1]] => a = b
    BY <2>1, SameAttempt
  <2> QED
    BY <1>0, <1>2, <2>1, <2>2 DEF HandlerReturns, Goto, Base, TypeOK, RowOf, RunOf, Reported
<1>3. CASE LateAttemptEnds(b)
  <2>1. upd[b[1]] = "done" => b[2] # attempt[b[1]]
    <3>1. pc[b] # "over"
      BY <1>3 DEF LateAttemptEnds, InActivity, PromptPlaces, CancelPlaces
    <3> QED
      BY <1>0, <3>1, AttemptPairs, SMT DEF Base, UpdatesSound
  <2> QED
    BY <1>0, <1>3, <2>1 DEF LateAttemptEnds, Goto, Base, TypeOK, RowOf, RunOf, Reported
<1>4. CASE AttemptFails(b) \/ AttemptTimesOut(b)
  <2>1. PICK l \in AtWork \cup {"over"} :
          /\ Retry(b, l) /\ pc[b] \in AtWork /\ b \notin late /\ l \in {pc[b], "over"}
          /\ UNCHANGED <<runs, reqRun, outcome>>
    BY <1>4 DEF AttemptFails, AttemptTimesOut, AtWork
  <2>2. upd[b[1]] = "running"
    BY <2>1 DEF Base, AttemptsSound
  <2>3. ASSUME NEW n \in Attempts \ {b}, n[1] = b[1], n[2] = b[2] + 1, upd' = upd,
               attempt' = [attempt EXCEPT ![b[1]] = n[2]], pc'[b] = l,
               pc'[n] = First(b[1]), \A c \in Attempts \ {b, n} : pc'[c] = pc[c]
        PROVE  RowOf(a)'
    <3>1. CASE a = n
      BY <2>3, <3>1 DEF RowOf, First
    <3>2. CASE a = b
      BY <1>0, <2>1, <2>2, <2>3, <3>2 DEF RowOf, RunOf, Reported
    <3>3. CASE a # n /\ a # b
      BY <1>0, <2>1, <2>2, <2>3, <3>3 DEF RowOf, RunOf, Reported, Base, TypeOK
    <3> QED
      BY <3>1, <3>2, <3>3
  <2>4. ASSUME upd' = [upd EXCEPT ![b[1]] = "error"], attempt' = attempt, pc' = [pc EXCEPT ![b] = l]
        PROVE  RowOf(a)'
    BY <1>0, <2>1, <2>4 DEF RowOf, RunOf, Reported, Base, TypeOK
  <2> QED
    BY <2>1, <2>3, <2>4, RetryEffect DEF Base
<1> QED
  BY <1>1, <1>2, <1>3, <1>4

LEMMA UpdateRow ==
  ASSUME Base, RowsSound, [Next]_vars, NEW u \in Updates, NEW r \in AllRuns \cup {NoRun}, Update(u, r),
         NEW a \in Attempts, a[1] \in Prompts, Clean(a[1])'
  PROVE  RowOf(a)'
<1>0. Clean(a[1]) /\ RowOf(a) /\ a[1] \in Updates
  BY CleanBack, AttemptPairs DEF RowsSound, RowOf
<1>1. <<u, 1>> \in Attempts /\ <<u, 1>>[1] = u
  BY AttemptPairs, ControlAssumption, SMT
<1>2. CASE a[1] = u
  <2>1. pc[a] = "none"
    BY <1>2 DEF Update, Base, AttemptsSound
  <2>2. pc'[a] \in {"none", First(u)}
    BY <1>1, <2>1 DEF Update, Goto, Base, TypeOK
  <2> QED
    BY <2>2 DEF RowOf, First
<1>3. CASE a[1] # u
  BY <1>0, <1>1, <1>3 DEF Update, Goto, Base, TypeOK, RowOf, RunOf, Reported
<1> QED
  BY <1>2, <1>3

LEMMA StepRows == Base /\ RowsSound /\ [Next]_vars => RowsSound'
<1> SUFFICES ASSUME Base, RowsSound, [Next]_vars, NEW a \in Attempts, a[1] \in Prompts, Clean(a[1])'
             PROVE  RowOf(a)'
  BY DEF RowsSound, RowOf
<1>1. CASE UNCHANGED vars
  BY <1>1, CleanBack DEF vars, RowsSound, RowOf, RunOf, Reported
<1>2. CASE Next
  BY <1>2, PromptStepRow, OtherStepRow, UpdateRow DEF Next
<1> QED
  BY <1>1, <1>2

-----------------------------------------------------------------------------
(* The run of a failed session                                             *)

LEMMA FailedKept ==
  ASSUME FailedInv,
         session' = "failed" /\ active' # NoRun => session = "failed" /\ active' = active,
         \A a \in Attempts : FailedBy(a) /\ active' = active => FailedBy(a)'
  PROVE  FailedInv'
BY DEF FailedInv

LEMMA UpdateFailed ==
  ASSUME Base, FailedInv, [Next]_vars, NEW u \in Updates, NEW r \in AllRuns \cup {NoRun}, Update(u, r)
  PROVE  FailedInv'
<1>1. UNCHANGED <<session, active, runs>>
  BY DEF Update
<1>2. ASSUME NEW a \in Attempts, FailedBy(a) PROVE FailedBy(a)'
  <2>1. a[1] # u /\ a[1] \in Updates
    BY <1>2, AttemptPairs DEF FailedBy, Update, Base, AttemptsSound
  <2>2. reqRun'[a[1]] = reqRun[a[1]] /\ <<u, 1>> \in Attempts /\ <<u, 1>>[1] = u
    <3>1. reqRun'[a[1]] = reqRun[a[1]]
      BY <2>1 DEF Update, Base, TypeOK
    <3>2. 1 \in 1..MaxAttempts
      BY ControlAssumption, SMT
    <3> QED
      BY <3>1, <3>2, AttemptPairs
  <2>3. \A b \in Attempts : b[1] = a[1] => pc'[b] = pc[b]
    BY <2>1, <2>2 DEF Update, Goto, Base, TypeOK
  <2>4. Clean(a[1])' => Clean(a[1])
    BY <1>2, CleanBack DEF FailedBy
  <2> QED
    BY <1>1, <1>2, <2>2, <2>3, <2>4 DEF FailedBy, RunOf
<1> QED
  BY <1>1, <1>2, FailedKept

LEMMA PromptStepFailed ==
  ASSUME Base, RowsSound, FailedInv, [Next]_vars, NEW b \in Attempts, PromptStep(b)
  PROVE  FailedInv'
<1>0. b[1] \in Prompts /\ UNCHANGED <<upd, attempt, late, reqRun>> /\ pc[b] \in PromptPlaces
  BY PromptStepBase DEF PromptStep, PromptMarkSession, PromptMarkRun, PromptNode, PromptFailRun,
     PromptFailSession, PromptEndRun, PromptEndSession, PromptPlaces
<1>1. \A a \in Attempts : a # b => pc'[a] = pc[a]
  BY DEF PromptStep, PromptMarkSession, PromptMarkRun, PromptNode, PromptFailRun,
     PromptFailSession, PromptEndRun, PromptEndSession, Goto, Base, TypeOK
<1>2. \A a \in Attempts : FailedBy(a) => a # b
  BY <1>0 DEF FailedBy, PromptPlaces
<1>3. CASE PromptFailSession(b) /\ session' = "failed" /\ active' = RunOf(b)
  <2>1. pc[b] = "failSession" /\ pc'[b] = "return" /\ runs' = runs /\ RunOf(b)' = RunOf(b)
    BY <1>0, <1>3 DEF PromptFailSession, Goto, Base, TypeOK, RunOf
  <2>2. ASSUME Clean(b[1])', reqRun[b[1]] # NoRun, NEW c \in Attempts, c[1] = b[1]
        PROVE  pc'[c] \notin Writing
    <3>1. c \notin late /\ b \notin late
      BY <1>0, <2>2 DEF Clean, Ordered
    <3>2. pc[c] \in Writing => c = b
      <4>1. Writing \subseteq AtWork /\ pc[b] \in AtWork
        BY <2>1 DEF Writing, AtWork, InActivity, PromptPlaces
      <4> QED
        BY <2>2, <3>1, <4>1, SameAttempt, SMT DEF Base, AttemptsSound
    <3>3. "return" \notin Writing
      BY DEF Writing, PromptPlaces
    <3> QED
      BY <1>1, <2>1, <3>2, <3>3
  <2>3. Clean(b[1])' => runs[RunOf(b)] = "failed"
    BY <1>0, <2>1, CleanBack DEF RowsSound
  <2>4. FailedBy(b)'
    BY <1>0, <1>3, <2>1, <2>2, <2>3 DEF FailedBy
  <2> QED
    BY <2>4 DEF FailedInv
<1>4. CASE (PromptMarkSession(b) /\ session' = "streaming") \/ PromptEndSession(b)
  BY <1>4 DEF FailedInv, PromptEndSession
<1>5. CASE \/ PromptMarkSession(b) /\ lost' = lost \cup {b[1]} /\ UNCHANGED <<session, active>>
           \/ PromptFailSession(b) /\ lost' = lost \cup {b[1]} /\ UNCHANGED <<session, active>>
  <2>1. ASSUME NEW a \in Attempts, FailedBy(a) PROVE FailedBy(a)'
    <3>1. Clean(a[1])' => Clean(a[1]) /\ a[1] # b[1] /\ \A c \in Attempts : c[1] = a[1] => c # b
      BY <1>5, <2>1, CleanBack DEF Clean, FailedBy
    <3>2. runs' = runs
      BY <1>5 DEF PromptMarkSession, PromptFailSession
    <3> QED
      BY <1>0, <1>1, <1>2, <1>5, <2>1, <3>1, <3>2 DEF FailedBy, RunOf
  <2> QED
    BY <1>5, <2>1, FailedKept
<1>6. CASE PromptMarkRun(b) \/ (\E o \in Outcomes : PromptNode(b, o)) \/ PromptFailRun(b) \/ PromptEndRun(b)
  <2>1. UNCHANGED <<session, active>> /\ pc[b] \in Writing
    BY <1>6 DEF PromptMarkRun, PromptNode, PromptFailRun, PromptEndRun, Writing, PromptPlaces
  <2>2. RunOf(b) \in AllRuns
    BY <1>0, AttemptPairs DEF RunOf, AllRuns, Base, UpdatesSound
  <2>3. \A r \in AllRuns \ {RunOf(b)} : runs'[r] = runs[r]
    BY <1>6, <2>2 DEF PromptMarkRun, PromptNode, PromptFailRun, PromptEndRun, WriteRun, Base, TypeOK
  <2>4. ASSUME NEW a \in Attempts, FailedBy(a) PROVE FailedBy(a)'
    <3>1. Clean(a[1])' => Clean(a[1])
      BY <2>4, CleanBack DEF FailedBy
    <3>2. reqRun[a[1]] \in RunIDs \cup {NoRun} /\ reqRun[b[1]] \in RunIDs \cup {NoRun} /\ a[1] \in Prompts
      BY <1>0, <2>4, AttemptPairs DEF Base, UpdatesSound, FailedBy
    <3>3. RunOf(a) \in AllRuns
      BY <3>2, AttemptPairs DEF RunOf, AllRuns
    <3>4. Clean(a[1]) /\ reqRun[a[1]] # NoRun => b[1] # a[1] /\ RunOf(b) # RunOf(a)
      BY <1>0, <2>1, <2>4, <3>2, ControlAssumption DEF FailedBy, RunOf, Clean, Unshared
    <3>5. reqRun[a[1]] = NoRun => RunOf(b) # RunOf(a)
      BY <1>2, <2>4, <3>2, ControlAssumption DEF RunOf
    <3>6. Clean(a[1]) => runs'[RunOf(a)] = runs[RunOf(a)]
      BY <2>3, <3>3, <3>4, <3>5
    <3>7. Clean(a[1]) /\ reqRun[a[1]] # NoRun => \A c \in Attempts : c[1] = a[1] => pc'[c] = pc[c]
      BY <1>1, <3>4
    <3> QED
      BY <1>0, <1>1, <1>2, <2>1, <2>4, <3>1, <3>6, <3>7 DEF FailedBy, RunOf
  <2> QED
    BY <2>1, <2>4, FailedKept
<1> QED
  BY <1>3, <1>4, <1>5, <1>6 DEF PromptStep, PromptMarkSession, PromptFailSession, WriteSession

LEMMA OtherStepFailed ==
  ASSUME Base, FailedInv, [Next]_vars, NEW b \in Attempts,
         CancelStep(b) \/ HandlerReturns(b) \/ LateAttemptEnds(b) \/ AttemptFails(b) \/ AttemptTimesOut(b)
  PROVE  FailedInv'
<1>0. /\ UNCHANGED <<reqRun, runs>>
      /\ session' = "failed" /\ active' # NoRun => session = "failed" /\ active' = active
  BY DEF CancelStep, CancelRead, CancelMark, CancelNode, WriteSession, HandlerReturns, LateAttemptEnds,
     AttemptFails, AttemptTimesOut
<1>1. ASSUME NEW a \in Attempts, FailedBy(a), active' = active PROVE FailedBy(a)'
  <2>1. Clean(a[1])' => Clean(a[1])
    BY <1>1, CleanBack DEF FailedBy
  <2>2. SUFFICES /\ pc'[a] \in {"return", "over"}
                 /\ \A c \in Attempts : pc'[c] \in Writing /\ c[1] = a[1] => pc[c] \in Writing
    BY <1>0, <1>1, <2>1 DEF FailedBy, RunOf
  <2>3. "over" \notin Writing /\ "markSession" \notin Writing /\ "none" \notin {"return", "over"}
    BY DEF Writing, PromptPlaces
  <2>4. CASE CancelStep(b)
    <3>1. a[1] # b[1]
      BY <1>1, <2>4, CancelStepBase, ControlAssumption DEF FailedBy
    <3>2. \A c \in Attempts : c # b => pc'[c] = pc[c]
      BY <2>4 DEF CancelStep, CancelRead, CancelMark, CancelNode, Goto, Base, TypeOK
    <3> QED
      BY <1>1, <3>1, <3>2 DEF FailedBy
  <2>5. CASE HandlerReturns(b) \/ LateAttemptEnds(b)
    <3>1. \A c \in Attempts : pc'[c] = IF c = b THEN "over" ELSE pc[c]
      BY <2>5 DEF HandlerReturns, LateAttemptEnds, Goto, Base, TypeOK
    <3> QED
      BY <1>1, <2>3, <3>1 DEF FailedBy
  <2>6. CASE AttemptFails(b) \/ AttemptTimesOut(b)
    <3>1. PICK l \in AtWork \cup {"over"} :
            Retry(b, l) /\ pc[b] \in AtWork /\ b \notin late /\ l \in {pc[b], "over"}
      BY <2>6 DEF AttemptFails, AttemptTimesOut, AtWork
    <3>2. b[2] = attempt[b[1]] /\ b[2] \in Nat /\ a[2] \in Nat
      BY <3>1, AttemptPairs, ControlAssumption, SMT DEF Base, AttemptsSound
    <3>3. ASSUME NEW n \in Attempts \ {b}, n[1] = b[1], n[2] = b[2] + 1, pc'[b] = l,
                 pc'[n] = First(b[1]), \A c \in Attempts \ {b, n} : pc'[c] = pc[c]
          PROVE  /\ pc'[a] \in {"return", "over"}
                 /\ \A c \in Attempts : pc'[c] \in Writing /\ c[1] = a[1] => pc[c] \in Writing
      <4>1. a # n
        BY <1>1, <2>3, <3>2, <3>3, SMT DEF Base, AttemptsSound, FailedBy
      <4>2. n[1] = a[1] => First(b[1]) = "markSession"
        BY <1>1, <3>3 DEF First, FailedBy
      <4> QED
        BY <1>1, <2>3, <3>1, <3>3, <4>1, <4>2 DEF FailedBy
    <3>4. ASSUME pc' = [pc EXCEPT ![b] = l]
          PROVE  /\ pc'[a] \in {"return", "over"}
                 /\ \A c \in Attempts : pc'[c] \in Writing /\ c[1] = a[1] => pc[c] \in Writing
      BY <1>1, <2>3, <3>1, <3>4 DEF FailedBy, Base, TypeOK
    <3> QED
      BY <3>1, <3>3, <3>4, RetryEffect DEF Base
  <2> QED
    BY <2>4, <2>5, <2>6
<1> QED
  BY <1>0, <1>1, FailedKept

LEMMA StepFailed == Base /\ RowsSound /\ FailedInv /\ [Next]_vars => FailedInv'
<1> SUFFICES ASSUME Base, RowsSound, FailedInv, [Next]_vars PROVE FailedInv'
  OBVIOUS
<1>1. CASE UNCHANGED vars
  BY <1>1 DEF vars, FailedInv, FailedBy, RunOf, Clean, Unshared, Ordered
<1>2. CASE Next
  BY <1>2, PromptStepFailed, OtherStepFailed, UpdateFailed DEF Next
<1> QED
  BY <1>1, <1>2

-----------------------------------------------------------------------------
(* The row of a run with one attempt                                       *)

LEMMA OneAttemptBack ==
  ASSUME Base, [Next]_vars, NEW r \in AllRuns, OneAttempt(r)'
  PROVE  OneAttempt(r)
<1>0. Prompts \subseteq Updates /\ NoRun # r
  BY ControlAssumption DEF Updates, AllRuns
<1>1. CASE \E v \in Updates, q \in AllRuns \cup {NoRun} : Update(v, q)
  <2>1. PICK v \in Updates, q \in AllRuns \cup {NoRun} : Update(v, q)
    BY <1>1
  <2>2. reqRun[v] = NoRun /\ attempt' = attempt
    BY <2>1 DEF Update, Base, UpdatesSound
  <2>3. \A w \in Updates \ {v} : reqRun'[w] = reqRun[w]
    BY <2>1 DEF Update, Base, TypeOK
  <2> QED
    BY <1>0, <2>2, <2>3 DEF OneAttempt, Unshared
<1>2. CASE reqRun' = reqRun /\ \A u \in Updates : attempt'[u] = 1 => attempt[u] = 1
  BY <1>0, <1>2 DEF OneAttempt, Unshared
<1>3. ASSUME NEW a \in Attempts, PromptStep(a) \/ CancelStep(a) \/ HandlerReturns(a) \/ LateAttemptEnds(a)
      PROVE  reqRun' = reqRun /\ attempt' = attempt
  BY <1>3 DEF PromptStep, CancelStep, HandlerReturns, LateAttemptEnds,
     PromptMarkSession, PromptMarkRun, PromptNode, PromptFailRun, PromptFailSession, PromptEndRun,
     PromptEndSession, CancelRead, CancelMark, CancelNode
<1>4. ASSUME NEW a \in Attempts, AttemptFails(a) \/ AttemptTimesOut(a)
      PROVE  reqRun' = reqRun /\ \A u \in Updates : attempt'[u] = 1 => attempt[u] = 1
  <2>1. a[1] \in Updates /\ a[2] \in 1..MaxAttempts /\ a[2] + 1 # 1
    BY AttemptPairs, ControlAssumption, SMT
  <2> QED
    BY <1>4, <2>1 DEF AttemptFails, AttemptTimesOut, Retry, Base, TypeOK
<1> QED
  BY <1>1, <1>2, <1>3, <1>4 DEF Next, vars

LEMMA OneWriter ==
  ASSUME Base, NEW a \in Attempts, NEW b \in Attempts, a[1] \in Prompts, b[1] \in Prompts,
         RunOf(a) = RunOf(b), OneAttempt(RunOf(a)), pc[a] # "none", pc[b] # "none"
  PROVE  a = b
<1>0. /\ reqRun[a[1]] \in RunIDs \cup {NoRun} /\ reqRun[b[1]] \in RunIDs \cup {NoRun}
      /\ a[2] <= attempt[a[1]] /\ b[2] <= attempt[b[1]] /\ a[2] \in Nat \ {0} /\ b[2] \in Nat \ {0}
  <2>1. a[2] \in Nat \ {0} /\ b[2] \in Nat \ {0}
    BY AttemptPairs, ControlAssumption, SMT
  <2>2. reqRun[a[1]] \in RunIDs \cup {NoRun} /\ reqRun[b[1]] \in RunIDs \cup {NoRun}
    BY DEF Base, UpdatesSound, Updates
  <2>3. a[2] <= attempt[a[1]] /\ b[2] <= attempt[b[1]]
    BY DEF Base, AttemptsSound
  <2> QED
    BY <2>1, <2>2, <2>3
<1>1. CASE reqRun[a[1]] = NoRun \/ reqRun[b[1]] = NoRun
  BY <1>0, <1>1, ControlAssumption DEF RunOf
<1>2. CASE reqRun[a[1]] # NoRun /\ reqRun[b[1]] # NoRun
  <2>1. a[1] = b[1] /\ attempt[a[1]] = 1
    BY <1>2 DEF RunOf, OneAttempt, Unshared
  <2>2. a[2] = b[2]
    BY <1>0, <2>1, SMT
  <2> QED
    BY <2>1, <2>2, SameAttempt
<1> QED
  BY <1>1, <1>2

LEMMA UpdateOne ==
  ASSUME Base, OneAttemptInv, [Next]_vars, NEW u \in Updates, NEW r \in AllRuns \cup {NoRun}, Update(u, r)
  PROVE  OneAttemptInv'
<1>0. /\ runs' = runs /\ upd[u] = "idle" /\ reqRun[u] = NoRun /\ reqRun'[u] = r
      /\ \A v \in Updates \ {u} : reqRun'[v] = reqRun[v]
      /\ <<u, 1>> \in Attempts /\ <<u, 1>>[1] = u
      /\ pc'[<<u, 1>>] = First(u) /\ \A a \in Attempts \ {<<u, 1>>} : pc'[a] = pc[a]
  <2>1. <<u, 1>> \in Attempts /\ <<u, 1>>[1] = u
    BY AttemptPairs, ControlAssumption, SMT
  <2>2. pc'[<<u, 1>>] = First(u) /\ \A a \in Attempts \ {<<u, 1>>} : pc'[a] = pc[a]
    BY <2>1 DEF Update, Goto, Base, TypeOK
  <2> QED
    BY <2>1, <2>2 DEF Update, Base, TypeOK, UpdatesSound
<1>1. \A q \in RunIDs : (\A v \in Prompts : reqRun'[v] # q) => runs[q] = "none"
  BY <1>0, ControlAssumption, SMT DEF OneAttemptInv, Updates
<1>2. \A a \in Attempts : pc'[a] = "none" => runs[a] = "none"
  BY <1>0 DEF OneAttemptInv, First
<1>3. ASSUME NEW a \in Attempts, a[1] \in Prompts, OneAttempt(RunOf(a))' PROVE Fresh(a)'
  <2>1. CASE a = <<u, 1>>
    <3>1. u \in Prompts /\ r \in RunIDs \cup {NoRun} /\ pc[a] = "none"
      BY <1>0, <1>3, <2>1 DEF Update, Base, AttemptsSound
    <3>2. CASE r = NoRun
      BY <1>0, <2>1, <3>1, <3>2 DEF OneAttemptInv, Fresh, RunOf, First
    <3>3. CASE r # NoRun
      <4>1. RunOf(a)' = r
        BY <1>0, <2>1, <3>3 DEF RunOf
      <4>2. \A v \in Prompts : reqRun[v] # r
        <5>1. \A v \in Prompts \ {u} : reqRun'[v] # r
          BY <1>0, <1>3, <3>1, <3>3, <4>1 DEF OneAttempt, Unshared
        <5> QED
          BY <1>0, <3>3, <5>1, SMT DEF Updates
      <4>3. runs[r] = "none"
        BY <3>1, <3>3, <4>2 DEF OneAttemptInv
      <4> QED
        BY <1>0, <4>1, <4>3 DEF Fresh
    <3> QED
      BY <3>2, <3>3
  <2>2. CASE a # <<u, 1>> /\ a[1] = u
    BY <1>0, <2>2 DEF Fresh, Base, AttemptsSound
  <2>3. CASE a[1] # u
    <3>1. reqRun'[a[1]] = reqRun[a[1]] /\ RunOf(a)' = RunOf(a) /\ RunOf(a) \in AllRuns
      BY <1>0, <2>3, AttemptPairs, SMT DEF RunOf, Base, TypeOK, AllRuns
    <3>2. OneAttempt(RunOf(a))
      BY <1>3, <3>1, OneAttemptBack, SMT DEF OneAttempt, Unshared
    <3> QED
      BY <1>0, <1>3, <2>3, <3>1, <3>2 DEF OneAttemptInv, Fresh
  <2> QED
    BY <2>1, <2>2, <2>3
<1> QED
  BY <1>0, <1>1, <1>2, <1>3 DEF OneAttemptInv

\* A row of a run with one attempt changes along runTransitions.
LEMMA PromptStepOne ==
  ASSUME Base, OneAttemptInv, [Next]_vars, NEW b \in Attempts, PromptStep(b)
  PROVE  /\ OneAttemptInv'
         /\ \A r \in AllRuns : OneAttempt(r) => LegalRunStep(runs[r], runs'[r])
<1>0. b[1] \in Prompts /\ UNCHANGED <<upd, attempt, late, reqRun>> /\ pc[b] \in PromptPlaces /\ pc[b] # "none"
  BY PromptStepBase DEF PromptStep, PromptMarkSession, PromptMarkRun, PromptNode, PromptFailRun,
     PromptFailSession, PromptEndRun, PromptEndSession, PromptPlaces
<1>1. RunOf(b) \in AllRuns /\ reqRun[b[1]] \in RunIDs \cup {NoRun}
  BY <1>0, AttemptPairs DEF RunOf, AllRuns, Base, UpdatesSound
<1>2. \A a \in Attempts : a # b => pc'[a] = pc[a]
  BY DEF PromptStep, PromptMarkSession, PromptMarkRun, PromptNode, PromptFailRun,
     PromptFailSession, PromptEndRun, PromptEndSession, Goto, Base, TypeOK
<1>3. \A r \in AllRuns \ {RunOf(b)} : runs'[r] = runs[r]
  BY <1>1 DEF PromptStep, PromptMarkSession, PromptMarkRun, PromptNode, PromptFailRun,
     PromptFailSession, PromptEndRun, PromptEndSession, WriteRun, Base, TypeOK
<1>4. \/ runs' = runs
      \/ pc[b] = "markRun" /\ runs'[RunOf(b)] = "dispatching"
      \/ pc[b] = "failRun" /\ runs'[RunOf(b)] = "failed"
      \/ pc[b] = "endRun" /\ runs'[RunOf(b)] = outcome[b]
  BY <1>1 DEF PromptStep, PromptMarkSession, PromptMarkRun, PromptNode, PromptFailRun,
     PromptFailSession, PromptEndRun, PromptEndSession, WriteRun, Base, TypeOK
<1>5. \A r \in RunIDs : (\A u \in Prompts : reqRun'[u] # r) => runs'[r] = "none"
  <2>1. \A r \in RunIDs : (\A u \in Prompts : reqRun[u] # r) => r # RunOf(b) /\ r \in AllRuns
    BY <1>0, ControlAssumption DEF RunOf, AllRuns
  <2> QED
    BY <1>0, <1>3, <2>1 DEF OneAttemptInv
<1>6. \A a \in Attempts : pc'[a] = "none" => runs'[a] = "none"
  <2>1. pc'[b] # "none"
    BY DEF PromptStep, PromptMarkSession, PromptMarkRun, PromptNode, PromptFailRun,
       PromptFailSession, PromptEndRun, PromptEndSession, Goto, Base, TypeOK
  <2>2. \A a \in Attempts : a # b => a # RunOf(b) /\ a \in AllRuns
    BY <1>1, ControlAssumption DEF RunOf, AllRuns
  <2> QED
    BY <1>2, <1>3, <2>1, <2>2 DEF OneAttemptInv
<1>7. ASSUME NEW a \in Attempts, a[1] \in Prompts, OneAttempt(RunOf(a))' PROVE Fresh(a)'
  <2>1. RunOf(a)' = RunOf(a) /\ RunOf(a) \in AllRuns
    BY <1>0, AttemptPairs, <1>7 DEF RunOf, AllRuns, Base, UpdatesSound
  <2>2. OneAttempt(RunOf(a))
    BY <1>7, <2>1, OneAttemptBack, SMT DEF OneAttempt, Unshared
  <2>3. Fresh(a)
    BY <1>7, <2>2 DEF OneAttemptInv
  <2>4. CASE a # b
    <3>1. pc[a] # "none" => RunOf(a) # RunOf(b)
      BY <1>0, <1>7, <2>2, <2>4, OneWriter
    <3> QED
      BY <1>2, <1>3, <2>1, <2>3, <2>4, <3>1 DEF Fresh
  <2>5. CASE a = b
    BY <1>1, <1>7, <2>1, <2>3, <2>5, SMT
       DEF Fresh, PromptStep, PromptMarkSession, PromptMarkRun, PromptNode, PromptFailRun,
           PromptFailSession, PromptEndRun, PromptEndSession, WriteRun, Goto, Base, TypeOK
  <2> QED
    BY <2>4, <2>5
<1>8. ASSUME NEW r \in AllRuns, OneAttempt(r) PROVE LegalRunStep(runs[r], runs'[r])
  <2>1. CASE r # RunOf(b) \/ runs' = runs
    BY <1>3, <2>1 DEF LegalRunStep, validateTransition
  <2>2. CASE r = RunOf(b) /\ runs' # runs
    <3>1. Fresh(b)
      BY <1>0, <1>8, <2>2 DEF OneAttemptInv
    <3>2. pc[b] = "endRun" => outcome[b] \in {"completed", "cancelled", "failed", "streaming"}
      BY DEF Base, OutcomesSound, TypeOK, Outcomes
    <3>3. CASE pc[b] = "markRun" /\ runs'[RunOf(b)] = "dispatching"
      BY <2>2, <3>1, <3>3 DEF Fresh, LegalRunStep
    <3>4. CASE pc[b] = "failRun" /\ runs'[RunOf(b)] = "failed"
      <4>1. runs[r] \in {"none", "dispatching"} /\ runs'[r] = "failed"
        BY <2>2, <3>1, <3>4 DEF Fresh
      <4> QED
        BY <4>1, DispatchedMoves
    <3>5. CASE pc[b] = "endRun" /\ runs'[RunOf(b)] = outcome[b]
      <4>1. runs[r] \in {"none", "dispatching"} /\ runs'[r] \in {"completed", "cancelled", "failed", "streaming"}
        BY <2>2, <3>1, <3>2, <3>5 DEF Fresh
      <4> QED
        BY <4>1, DispatchedMoves
    <3> QED
      BY <1>4, <2>2, <3>3, <3>4, <3>5
  <2> QED
    BY <2>1, <2>2
<1> QED
  BY <1>5, <1>6, <1>7, <1>8 DEF OneAttemptInv

LEMMA OtherStepOne ==
  ASSUME Base, OneAttemptInv, [Next]_vars, NEW b \in Attempts,
         CancelStep(b) \/ HandlerReturns(b) \/ LateAttemptEnds(b) \/ AttemptFails(b) \/ AttemptTimesOut(b)
  PROVE  OneAttemptInv' /\ runs' = runs
<1>0. UNCHANGED <<reqRun, runs>>
  BY DEF CancelStep, CancelRead, CancelMark, CancelNode, HandlerReturns, LateAttemptEnds,
     AttemptFails, AttemptTimesOut
<1> DEFINE Moves ==
      \A a \in Attempts : a[1] \in Prompts \/ pc'[a] = "none" =>
        \/ pc'[a] = pc[a] \/ pc'[a] = "over"
        \/ pc'[a] = "markSession" /\ pc[a] = "none" /\ attempt'[a[1]] # 1
<1>1. Moves
  <2>1. CASE CancelStep(b)
    <3>1. b[1] \notin Prompts
      BY <2>1, CancelStepBase, ControlAssumption
    <3> QED
      BY <2>1, <3>1 DEF CancelStep, CancelRead, CancelMark, CancelNode, Goto, Base, TypeOK
  <2>2. CASE HandlerReturns(b) \/ LateAttemptEnds(b)
    BY <2>2 DEF HandlerReturns, LateAttemptEnds, Goto, Base, TypeOK
  <2>3. CASE AttemptFails(b) \/ AttemptTimesOut(b)
    <3>1. PICK l \in AtWork \cup {"over"} :
            Retry(b, l) /\ pc[b] \in AtWork /\ b \notin late /\ l \in {pc[b], "over"}
      BY <2>3 DEF AttemptFails, AttemptTimesOut, AtWork
    <3>2. b[2] = attempt[b[1]] /\ b[2] \in Nat \ {0} /\ b[1] \in Updates
      BY <3>1, AttemptPairs, ControlAssumption, SMT DEF Base, AttemptsSound
    <3>3. ASSUME NEW n \in Attempts \ {b}, n[1] = b[1], n[2] = b[2] + 1,
                 attempt' = [attempt EXCEPT ![b[1]] = n[2]], pc'[b] = l,
                 pc'[n] = First(b[1]), \A c \in Attempts \ {b, n} : pc'[c] = pc[c]
          PROVE  Moves
      <4>0. ~(n[2] <= attempt[n[1]]) /\ n[2] # 1 /\ n[1] \in Updates
        BY <3>2, <3>3, SMT
      <4>1. pc[n] = "none" /\ attempt'[n[1]] # 1
        <5>1. pc[n] = "none"
          BY <4>0 DEF Base, AttemptsSound
        <5>2. attempt'[n[1]] = n[2]
          BY <3>3, <4>0 DEF Base, TypeOK
        <5> QED
          BY <4>0, <5>1, <5>2
      <4>2. n[1] \in Prompts => First(b[1]) = "markSession"
        BY <3>3 DEF First
      <4>3. First(b[1]) # "none"
        BY DEF First
      <4> QED
        BY <3>1, <3>3, <4>1, <4>2, <4>3
    <3>4. ASSUME pc' = [pc EXCEPT ![b] = l] PROVE Moves
      BY <3>1, <3>4 DEF Base, TypeOK
    <3> QED
      BY <3>1, <3>3, <3>4, RetryEffect DEF Base
  <2> QED
    BY <2>1, <2>2, <2>3
<1>2. \A a \in Attempts : pc'[a] = "none" => runs[a] = "none"
  BY <1>1 DEF OneAttemptInv
<1>3. ASSUME NEW a \in Attempts, a[1] \in Prompts, OneAttempt(RunOf(a))' PROVE Fresh(a)'
  <2>1. RunOf(a)' = RunOf(a) /\ RunOf(a) \in AllRuns
    BY <1>0, AttemptPairs, <1>3 DEF RunOf, AllRuns, Base, UpdatesSound
  <2>2. Fresh(a)
    BY <1>3, <2>1, OneAttemptBack DEF OneAttempt, Unshared, OneAttemptInv
  <2>3. CASE pc'[a] = "markSession" /\ pc[a] = "none" /\ attempt'[a[1]] # 1
    <3>1. reqRun[a[1]] = NoRun
      BY <1>0, <1>3, <2>1, <2>3 DEF OneAttempt, RunOf
    <3> QED
      BY <1>0, <2>1, <2>3, <3>1 DEF Fresh, OneAttemptInv, RunOf
  <2>4. CASE pc'[a] = pc[a] \/ pc'[a] = "over"
    BY <1>0, <2>1, <2>2, <2>4 DEF Fresh
  <2> QED
    BY <1>1, <1>3, <2>3, <2>4
<1> QED
  BY <1>0, <1>2, <1>3 DEF OneAttemptInv

LEMMA StepOne ==
  ASSUME Base, OneAttemptInv, [Next]_vars
  PROVE  /\ OneAttemptInv'
         /\ \A r \in AllRuns : OneAttempt(r) => LegalRunStep(runs[r], runs'[r])
<1>1. runs' = runs => \A r \in AllRuns : LegalRunStep(runs[r], runs'[r])
  BY DEF LegalRunStep, validateTransition
<1>2. CASE UNCHANGED vars
  BY <1>1, <1>2 DEF vars, OneAttemptInv, OneAttempt, Fresh, RunOf, Unshared
<1>3. CASE \E u \in Updates, r \in AllRuns \cup {NoRun} : Update(u, r)
  BY <1>1, <1>3, UpdateOne DEF Update
<1>4. CASE \E a \in Attempts : PromptStep(a)
  BY <1>4, PromptStepOne
<1>5. CASE \E a \in Attempts : CancelStep(a) \/ HandlerReturns(a) \/ LateAttemptEnds(a)
                               \/ AttemptFails(a) \/ AttemptTimesOut(a)
  BY <1>1, <1>5, OtherStepOne
<1> QED
  BY <1>2, <1>3, <1>4, <1>5 DEF Next

-----------------------------------------------------------------------------
LEMMA InitCtl == Init => CtlInv
<1> SUFFICES ASSUME Init PROVE CtlInv
  OBVIOUS
<1>1. Base
  BY InitBase
<1>2. StreamInv /\ FailedInv
  BY DEF Init, StreamInv, FailedInv
<1>3. RowsSound
  BY DEF Init, RowsSound
<1>4. OneAttemptInv
  BY DEF Init, OneAttemptInv, Fresh, AllRuns
<1> QED
  BY <1>1, <1>2, <1>3, <1>4 DEF CtlInv

LEMMA StepCtl ==
  ASSUME CtlInv, [Next]_vars
  PROVE  /\ CtlInv'
         /\ \A r \in AllRuns : OneAttempt(r) => LegalRunStep(runs[r], runs'[r])
BY StepBase, StepStream, StepRows, StepFailed, StepOne DEF CtlInv

LEMMA CtlImplies ==
  CtlInv => TypeOK /\ StreamingIsLive /\ ReturnedRunStored /\ FailedNamesFailedRun
<1> SUFFICES ASSUME CtlInv
             PROVE  TypeOK /\ StreamingIsLive /\ ReturnedRunStored /\ FailedNamesFailedRun
  OBVIOUS
<1>1. TypeOK
  BY DEF CtlInv, Base
<1>2. StreamingIsLive
  <2>1. \A a \in Attempts : Live(a) =>
          pc[a] \in PromptPlaces \/ upd[a[1]] \in {"running", "error"} \/ a[1] \in lost
    BY DEF Live, Writing
  <2> QED
    BY <2>1 DEF CtlInv, StreamInv, StreamingIsLive
<1>3. ReturnedRunStored
  <2> SUFFICES ASSUME NEW u \in Prompts, upd[u] = "done", Clean(u)
               PROVE  runs[RunOf(<<u, attempt[u]>>)] = Reported(<<u, attempt[u]>>)
    BY DEF ReturnedRunStored, Clean
  <2>1. u \in Updates /\ attempt[u] \in 1..MaxAttempts
    BY <1>1 DEF TypeOK, Updates
  <2>2. PICK a \in Attempts : a = <<u, attempt[u]>> /\ a[1] = u /\ a[2] = attempt[u]
    BY <2>1, AttemptPairs
  <2>3. pc[a] = "over"
    BY <2>1, <2>2 DEF CtlInv, Base, UpdatesSound
  <2>4. runs[RunOf(a)] = Reported(a)
    BY <2>2, <2>3 DEF CtlInv, RowsSound
  <2> QED
    BY <2>2, <2>4
<1>4. FailedNamesFailedRun
  BY DEF CtlInv, FailedInv, FailedBy, Clean, FailedNamesFailedRun
<1> QED
  BY <1>1, <1>2, <1>3, <1>4

\* A session is left streaming only by an error the code ignores, a returned run is
\* the stored one, and a failed session names a failed run, for any number of
\* prompts, cancels, retries and faults.
THEOREM SessionRowsCorrect ==
  Spec => [](TypeOK /\ StreamingIsLive /\ ReturnedRunStored /\ FailedNamesFailedRun)
BY InitCtl, StepCtl, CtlImplies, PTL DEF Spec

\* The row of a run that one attempt executes moves only along runTransitions.
THEOREM RunRowsLegal == Spec => RunRowLegal
<1>1. CtlInv /\ [Next]_vars =>
        [\A r \in AllRuns : OneAttempt(r) => LegalRunStep(runs[r], runs'[r])]_vars
  BY StepCtl
<1> QED
  BY <1>1, InitCtl, StepCtl, PTL DEF Spec, RunRowLegal

\* The run a Prompt update returns is the run in the store, after any number of
\* retries, as long as its ID is its own and no store error was ignored.
THEOREM ReturnedRunsStored == Spec => []ReturnedRunStored
BY SessionRowsCorrect, PTL

\* A failed session that names a run names one of a Prompt that has failed, unless
\* rows were lost or the run ID is shared.
THEOREM FailedSessionsNameRuns == Spec => []FailedNamesFailedRun
BY SessionRowsCorrect, PTL

=============================================================================
