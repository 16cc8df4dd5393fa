--------------------------- MODULE SessionControl ---------------------------
(***************************************************************************)
(* One session of the control plane: the Prompt and Cancel updates of its  *)
(* SessionWorkflow, the activities they run (workflows/activities.go) and  *)
(* the session and run rows these write.                                   *)
(*                                                                         *)
(* Update handlers run concurrently.  An activity is a series of store     *)
(* calls with no transaction around them; rows are last-writer-wins.       *)
(* Temporal starts an activity again, from its first line, when an attempt *)
(* fails, its worker dies, its completion is lost or its timeout passes,   *)
(* MaxAttempts times in all.  An attempt whose timeout has passed is not   *)
(* stopped: it goes on beside the next one, and only its answer is         *)
(* ignored.  What node.Prompt does is module PromptRelay: it ends with the *)
(* run it last saw, or with an error.                                      *)
(***************************************************************************)
EXTENDS Naturals, FiniteSets, Lifecycle

CONSTANTS Prompts,      \* the Prompt updates
          Cancels,      \* the Cancel updates
          RunIDs,       \* the run IDs clients supply
          NoRun,        \* the empty run ID
          MaxAttempts,  \* RetryPolicy.MaximumAttempts (5 in the code)
          MaxFaults     \* bound: store errors, worker deaths, timeouts, node failures

Updates  == Prompts \cup Cancels
Attempts == Updates \X (1..MaxAttempts)

ASSUME ControlAssumption ==
  /\ MaxAttempts \in Nat \ {0} /\ MaxFaults \in Nat
  /\ Prompts \cap Cancels = {}
  /\ NoRun \notin RunIDs \cup Attempts /\ RunIDs \cap Attempts = {}

VARIABLES
  session,   \* State in the session row
  active,    \* ActiveRunID in the session row
  runs,      \* State in each run row
  upd,       \* each update: not sent, in its activity, answered
  attempt,   \* the attempt of each update's activity
  pc,        \* where each attempt is
  late,      \* the attempts that have outlived their timeout
  reqRun,    \* RunID of the request
  outcome,   \* what node.Prompt returned to the attempt
  lost,      \* history: updates a row write of which did not happen
  copy,      \* the ActiveRunID a Cancel attempt has read
  stopping,  \* runs whose agent has been told to stop
  faults     \* faults so far

vars == <<session, active, runs, upd, attempt, pc, late, reqRun, outcome, lost,
          copy, stopping, faults>>

\* Run IDs: those of clients, and a new one per attempt for requests without.
AllRuns   == RunIDs \cup Attempts
RunStates == {"none", "dispatching", "streaming", "completed", "cancelled", "failed"}
Outcomes  == {"completed", "cancelled", "failed", "streaming", "error"}

RunOf(a)  == IF reqRun[a[1]] = NoRun THEN a ELSE reqRun[a[1]]

PromptPlaces == {"markSession", "markRun", "node", "failRun", "failSession", "endRun", "endSession"}
CancelPlaces == {"read", "mark", "tell"}
InActivity   == PromptPlaces \cup CancelPlaces

TypeOK ==
  /\ session \in {"active", "streaming", "cancelling", "waiting_input", "failed"}
  /\ active \in AllRuns \cup {NoRun}
  /\ runs \in [AllRuns -> RunStates]
  /\ upd \in [Updates -> {"idle", "running", "done", "error"}]
  /\ attempt \in [Updates -> 1..MaxAttempts]
  /\ pc \in [Attempts -> InActivity \cup {"none", "return", "over"}]
  /\ late \subseteq Attempts
  /\ reqRun \in [Updates -> AllRuns \cup {NoRun}]
  /\ outcome \in [Attempts -> Outcomes]
  /\ lost \subseteq Updates
  /\ copy \in [Attempts -> AllRuns \cup {NoRun}]
  /\ stopping \subseteq AllRuns
  /\ faults \in 0..MaxFaults

\* The session as CreateSession leaves it.
Init ==
  /\ session = "active" /\ active = NoRun
  /\ runs = [r \in AllRuns |-> "none"]
  /\ upd = [u \in Updates |-> "idle"]
  /\ attempt = [u \in Updates |-> 1]
  /\ pc = [a \in Attempts |-> "none"]
  /\ late = {}
  /\ reqRun = [u \in Updates |-> NoRun]
  /\ outcome = [a \in Attempts |-> "error"]
  /\ lost = {}
  /\ copy = [a \in Attempts |-> NoRun]
  /\ stopping = {}
  /\ faults = 0

-----------------------------------------------------------------------------
(* Updates and the attempts of their activities                            *)

Fault == faults < MaxFaults /\ faults' = faults + 1

\* After its deadline an attempt's calls fail without a further fault.
FaultOf(a) == IF a \in late THEN UNCHANGED faults ELSE Fault

Goto(a, l) == pc' = [pc EXCEPT ![a] = l]

First(u) == IF u \in Prompts THEN "markSession" ELSE "read"

\* The update is sent and its handler starts the activity.  A client that cancels
\* names a run it has seen; one that prompts may name a run ID of its own.
Update(u, r) ==
  /\ upd[u] = "idle"
  /\ IF u \in Prompts THEN r \in RunIDs \cup {NoRun} ELSE r # NoRun /\ runs[r] # "none"
  /\ upd' = [upd EXCEPT ![u] = "running"]
  /\ reqRun' = [reqRun EXCEPT ![u] = r]
  /\ Goto(<<u, 1>>, First(u))
  /\ UNCHANGED <<session, active, runs, attempt, late, outcome, lost, copy, stopping, faults>>

\* Temporal's retry of an activity whose attempt ends with the place l: a new
\* attempt from the first line, or the activity's error to the caller.
Retry(a, l) ==
  LET u == a[1] k == a[2] IN
  \/ /\ k < MaxAttempts
     /\ attempt' = [attempt EXCEPT ![u] = k + 1]
     /\ pc' = [pc EXCEPT ![a] = l, ![<<u, k + 1>>] = First(u)]
     /\ UNCHANGED upd
  \/ /\ k = MaxAttempts
     /\ upd' = [upd EXCEPT ![u] = "error"]
     /\ Goto(a, l)
     /\ UNCHANGED attempt

\* An attempt ends and its completion does not reach Temporal: GetSession,
\* containerNode or a checked write failed, or the worker died.
AttemptFails(a) ==
  /\ pc[a] \in InActivity \cup {"return"} /\ a \notin late
  /\ Fault
  /\ Retry(a, "over")
  /\ UNCHANGED <<session, active, runs, late, reqRun, outcome, lost, copy, stopping>>

\* StartToCloseTimeout passes: the next attempt starts while this one goes on.
AttemptTimesOut(a) ==
  /\ pc[a] \in InActivity \cup {"return"} /\ a \notin late
  /\ Fault
  /\ Retry(a, pc[a])
  /\ late' = late \cup {a}
  /\ UNCHANGED <<session, active, runs, reqRun, outcome, lost, copy, stopping>>

\* A late attempt ends early, for the same reasons, or returns: nobody listens.
LateAttemptEnds(a) ==
  /\ a \in late /\ pc[a] \in InActivity \cup {"return"}
  /\ Goto(a, "over")
  /\ lost' = IF pc[a] = "return" THEN lost ELSE lost \cup {a[1]}
  /\ UNCHANGED <<session, active, runs, upd, attempt, late, reqRun, outcome, copy, stopping, faults>>

-----------------------------------------------------------------------------
(* Activities.Prompt                                                       *)

\* A store call whose error the code ignores: the row is written, or is not.
WriteSession(a, s, r) ==
  \/ session' = s /\ active' = r /\ UNCHANGED <<lost, faults>>
  \/ FaultOf(a) /\ lost' = lost \cup {a[1]} /\ UNCHANGED <<session, active>>

WriteRun(a, s) ==
  \/ runs' = [runs EXCEPT ![RunOf(a)] = s] /\ UNCHANGED <<lost, faults>>
  \/ FaultOf(a) /\ lost' = lost \cup {a[1]} /\ UNCHANGED runs

\* Read the session; only fields that never change survive the writes below.
PromptMarkSession(a) ==
  /\ pc[a] = "markSession"
  /\ WriteSession(a, "streaming", RunOf(a))
  /\ Goto(a, "markRun")
  /\ UNCHANGED <<runs, upd, attempt, late, reqRun, outcome, copy, stopping>>

PromptMarkRun(a) ==
  /\ pc[a] = "markRun"
  /\ WriteRun(a, "dispatching")
  /\ Goto(a, "node")
  /\ UNCHANGED <<session, active, upd, attempt, late, reqRun, outcome, copy, stopping>>

\* node.Prompt: the agent's verdict, or the stream broke, which yields an error
\* or the run as last seen, or publishing failed.
PromptNode(a, o) ==
  /\ pc[a] = "node"
  /\ o = "cancelled" => RunOf(a) \in stopping
  /\ IF o \in {"error", "streaming"} THEN FaultOf(a) ELSE UNCHANGED faults
  /\ outcome' = [outcome EXCEPT ![a] = o]
  /\ Goto(a, IF o = "error" THEN "failRun" ELSE "endRun")
  /\ UNCHANGED <<session, active, runs, upd, attempt, late, reqRun, lost, copy, stopping>>

\* Mutant: the error path settles the session before it saves the run.
PromptFailRunLate(a) ==
  /\ pc[a] = "failRun"
  /\ WriteSession(a, "failed", RunOf(a))
  /\ Goto(a, "failSession")
  /\ UNCHANGED <<runs, upd, attempt, late, reqRun, outcome, copy, stopping>>

\* The error path; it leaves ActiveRunID in the row and reports a failed run.
PromptFailRun(a) ==
  /\ pc[a] = "failRun"
  /\ WriteRun(a, "failed")
  /\ Goto(a, "failSession")
  /\ UNCHANGED <<session, active, upd, attempt, late, reqRun, outcome, copy, stopping>>

\* Mutant: the error path does not settle the session.
PromptFailSessionSkips(a) ==
  /\ pc[a] = "failSession"
  /\ Goto(a, "return")
  /\ UNCHANGED <<session, active, runs, upd, attempt, late, reqRun, outcome, lost, copy, stopping, faults>>

PromptFailSession(a) ==
  /\ pc[a] = "failSession"
  /\ WriteSession(a, "failed", RunOf(a))
  /\ Goto(a, "return")
  /\ UNCHANGED <<runs, upd, attempt, late, reqRun, outcome, copy, stopping>>

\* Mutant: the error of saving the final run is ignored.
PromptEndRunIgnores(a) ==
  /\ pc[a] = "endRun"
  /\ runs' \in {runs, [runs EXCEPT ![RunOf(a)] = outcome[a]]}
  /\ Goto(a, "endSession")
  /\ UNCHANGED <<session, active, upd, attempt, late, reqRun, outcome, lost, copy, stopping, faults>>

\* The normal path; a write that fails ends the attempt.
PromptEndRun(a) ==
  /\ pc[a] = "endRun"
  /\ runs' = [runs EXCEPT ![RunOf(a)] = outcome[a]]
  /\ Goto(a, "endSession")
  /\ UNCHANGED <<session, active, upd, attempt, late, reqRun, outcome, lost, copy, stopping, faults>>

Settled(o) == IF o = "failed" THEN "failed" ELSE "waiting_input"

\* Mutant: the run as it was dispatched is saved once more at the end.
PromptEndSessionResaves(a) ==
  /\ pc[a] = "endSession"
  /\ session' = Settled(outcome[a])
  /\ active' = NoRun
  /\ runs' = [runs EXCEPT ![RunOf(a)] = "dispatching"]
  /\ Goto(a, "return")
  /\ UNCHANGED <<upd, attempt, late, reqRun, outcome, lost, copy, stopping, faults>>

PromptEndSession(a) ==
  /\ pc[a] = "endSession"
  /\ session' = Settled(outcome[a])
  /\ active' = NoRun
  /\ Goto(a, "return")
  /\ UNCHANGED <<runs, upd, attempt, late, reqRun, outcome, lost, copy, stopping, faults>>

\* The run the activity reports.
Reported(a) == IF outcome[a] = "error" THEN "failed" ELSE outcome[a]

-----------------------------------------------------------------------------
(* Activities.Cancel                                                       *)

CancelRead(a) ==
  /\ pc[a] = "read"
  /\ copy' = [copy EXCEPT ![a] = active]
  /\ Goto(a, "mark")
  /\ UNCHANGED <<session, active, runs, upd, attempt, late, reqRun, outcome, lost, stopping, faults>>

\* The whole row goes back, ActiveRunID as it was read.
CancelMark(a) ==
  /\ pc[a] = "mark"
  /\ WriteSession(a, "cancelling", copy[a])
  /\ copy' = [copy EXCEPT ![a] = NoRun]
  /\ Goto(a, "tell")
  /\ UNCHANGED <<runs, upd, attempt, late, reqRun, outcome, stopping>>

\* node.Cancel: the agent stops the run if it is running it.
CancelNode(a) ==
  /\ pc[a] = "tell"
  /\ stopping' = IF \E b \in Attempts : pc[b] = "node" /\ RunOf(b) = RunOf(a)
                 THEN stopping \cup {RunOf(a)} ELSE stopping
  /\ Goto(a, "return")
  /\ UNCHANGED <<session, active, runs, upd, attempt, late, reqRun, outcome, lost, copy, faults>>

-----------------------------------------------------------------------------
\* The completion reaches the workflow: the handler notes the run and the session
\* state in the workflow's own copy, which only a query reads, and answers.
HandlerReturns(a) ==
  /\ pc[a] = "return" /\ a \notin late
  /\ Goto(a, "over")
  /\ upd' = [upd EXCEPT ![a[1]] = "done"]
  /\ UNCHANGED <<session, active, runs, attempt, late, reqRun, outcome, lost, copy, stopping, faults>>

PromptStep(a) ==
  \/ PromptMarkSession(a) \/ PromptMarkRun(a)
  \/ \E o \in Outcomes : PromptNode(a, o)
  \/ PromptFailRun(a) \/ PromptFailSession(a)
  \/ PromptEndRun(a) \/ PromptEndSession(a)

CancelStep(a) == CancelRead(a) \/ CancelMark(a) \/ CancelNode(a)

Next ==
  \/ \E u \in Updates, r \in AllRuns \cup {NoRun} : Update(u, r)
  \/ \E a \in Attempts : \/ PromptStep(a) \/ CancelStep(a) \/ HandlerReturns(a)
                         \/ AttemptFails(a) \/ AttemptTimesOut(a) \/ LateAttemptEnds(a)

Spec == Init /\ [][Next]_vars

-----------------------------------------------------------------------------
(* Properties                                                              *)

\* No other Prompt uses the run ID of u.
Unshared(u) == reqRun[u] = NoRun \/ \A v \in Prompts \ {u} : reqRun[v] # reqRun[u]

\* No attempt of u works beside a later one under the same run ID.
Ordered(u) == reqRun[u] = NoRun \/ \A a \in late : a[1] # u

\* A session row says streaming only while somebody will still change it: an
\* attempt whose run it names is at work, late or not, or its update will retry,
\* or it gave up after its last attempt, or lost a row to a store error that
\* Prompt ignores or to the end of a late attempt.  Neither concurrent prompts,
\* cancels, retries nor overlapping attempts leave a session streaming.
StreamingIsLive ==
  session = "streaming" =>
    \E a \in Attempts :
      /\ a[1] \in Prompts /\ active = RunOf(a)
      /\ pc[a] \in PromptPlaces \/ upd[a[1]] \in {"running", "error"} \/ a[1] \in lost

\* The run a Prompt update returns is the run in the store, however often its
\* activity was retried, as long as no store error was ignored and no other
\* update uses its run ID.  Late attempts cannot change it when the run ID was
\* left to the code, which takes a new one for every attempt.
ReturnedRunStored ==
  \A u \in Prompts :
    upd[u] = "done" /\ Unshared(u) /\ Ordered(u) /\ u \notin lost
      => LET a == <<u, attempt[u]>> IN runs[RunOf(a)] = Reported(a)

\* The error path of Prompt leaves ActiveRunID in the session row.  Whoever follows
\* it in a failed session finds a failed run and not one that seems to be at work
\* (unless rows were lost or the run ID is shared).
FailedNamesFailedRun ==
  session = "failed" /\ active # NoRun =>
    \E a \in Attempts :
      /\ a[1] \in Prompts /\ active = RunOf(a)
      /\ Unshared(a[1]) /\ Ordered(a[1]) /\ a[1] \notin lost => runs[active] = "failed"

\* A step of a run row; "none" is a run without a row.
LegalRunStep(s, t) == s = "none" \/ validateTransition(runTransitions, s, t)

\* Nobody else uses the ID and only the first attempt has run under it.
OneAttempt(r) ==
  \A u \in Prompts : (reqRun[u] = r => attempt[u] = 1 /\ Unshared(u))

\* The row of a run that one attempt executes moves only along runTransitions.
RunRowLegal == [][\A r \in AllRuns : OneAttempt(r) => LegalRunStep(runs[r], runs'[r])]_vars

=============================================================================
