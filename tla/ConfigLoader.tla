---------------------------- MODULE ConfigLoader ----------------------------
(***************************************************************************)
(* ConfigLoader (control/config.go): a configuration file that is read     *)
(* again while the program runs.  Load holds the loader's mutex from       *)
(* reading the file to publishing the result with one atomic store;        *)
(* Snapshot loads the pointer without the mutex.  ReloadLoop calls Load at *)
(* every tick and ignores its errors.                                      *)
(*                                                                         *)
(* The file is a version number and a form: "good" decodes, "bad" does not *)
(* (a writer caught half way, a wrong edit), "missing" cannot be read.     *)
(* Fields the file leaves empty are named in blank.                        *)
(***************************************************************************)
EXTENDS Naturals

CONSTANTS Callers,    \* goroutines that call Load
          Loop,       \* the one in ReloadLoop
          Readers,    \* goroutines that call Snapshot
          MaxVersion, \* bound on the versions of the file
          NoHolder    \* the mutex is free

Loaders   == Callers \cup {Loop}
Defaulted == {"HTTPAddr", "NodeGRPCListen", "TemporalNS", "TaskQueue"}

ASSUME LoaderAssumption == Loop \notin Callers /\ NoHolder \notin Loaders /\ MaxVersion \in Nat

VARIABLES
  file,   \* the file
  good,   \* history: the versions that decode
  loadMu, \* who holds ConfigLoader.mu
  lpc,    \* where each Load is
  raw,    \* what it read
  ptr,    \* ConfigLoader.ptr
  seen,   \* the version each reader's last Snapshot had
  live    \* ReloadLoop has not been cancelled

loaderVars == <<file, good, loadMu, lpc, raw, ptr, seen, live>>

Files == [ver : 0..MaxVersion, form : {"good", "bad", "missing"}, blank : SUBSET Defaulted]

LoaderTypeOK ==
  /\ file \in Files
  /\ good \subseteq 1..MaxVersion
  /\ loadMu \in Loaders \cup {NoHolder}
  /\ lpc \in [Loaders -> {"idle", "lock", "read", "decode", "store"}]
  /\ raw \in [Loaders -> Files]
  /\ ptr \in [ver : 0..MaxVersion, blank : SUBSET Defaulted]
  /\ seen \in [Readers -> 0..MaxVersion]
  /\ live \in BOOLEAN

\* NewConfigLoader; version 0 is no file and the nil pointer, of which Snapshot makes
\* the zero Config.
LoaderInit ==
  /\ file = [ver |-> 0, form |-> "missing", blank |-> {}]
  /\ good = {}
  /\ loadMu = NoHolder
  /\ lpc = [l \in Loaders |-> "idle"]
  /\ raw = [l \in Loaders |-> [ver |-> 0, form |-> "missing", blank |-> {}]]
  /\ ptr = [ver |-> 0, blank |-> Defaulted]
  /\ seen = [r \in Readers |-> 0]
  /\ live = TRUE

\* Somebody writes the file, or removes it.
Write(form, blank) ==
  /\ file.ver < MaxVersion
  /\ file' = [ver |-> file.ver + 1, form |-> form, blank |-> blank]
  /\ good' = IF form = "good" THEN good \cup {file.ver + 1} ELSE good
  /\ UNCHANGED <<loadMu, lpc, raw, ptr, seen, live>>

-----------------------------------------------------------------------------
(* Load                                                                    *)

LoaderGoto(l, p) == lpc' = [lpc EXCEPT ![l] = p]

\* A caller, or a tick of the loop.
LoadBegin(l) ==
  /\ lpc[l] = "idle"
  /\ l = Loop => live
  /\ LoaderGoto(l, "lock")
  /\ UNCHANGED <<file, good, loadMu, raw, ptr, seen, live>>

LoadLock(l) ==
  /\ lpc[l] = "lock" /\ loadMu = NoHolder
  /\ loadMu' = l
  /\ LoaderGoto(l, "read")
  /\ UNCHANGED <<file, good, raw, ptr, seen, live>>

\* The deferred Unlock.
LoadReturn(l) == loadMu' = NoHolder /\ LoaderGoto(l, "idle")

\* Mutant: the mutex is given back after the file is read, and not taken again.
LoadReadUnlocks(l) ==
  /\ lpc[l] = "read"
  /\ IF file.form = "missing" THEN LoadReturn(l) /\ UNCHANGED raw
     ELSE LoaderGoto(l, "decode") /\ loadMu' = NoHolder /\ raw' = [raw EXCEPT ![l] = file]
  /\ UNCHANGED <<file, good, ptr, seen, live>>

\* Mutant: a file that cannot be read returns before the deferred Unlock is set up.
LoadReadKeepsMutex(l) ==
  /\ lpc[l] = "read"
  /\ IF file.form = "missing" THEN LoaderGoto(l, "idle") /\ UNCHANGED raw
     ELSE LoaderGoto(l, "decode") /\ raw' = [raw EXCEPT ![l] = file]
  /\ UNCHANGED <<file, good, loadMu, ptr, seen, live>>

\* os.ReadFile
LoadRead(l) ==
  /\ lpc[l] = "read"
  /\ IF file.form = "missing" THEN LoadReturn(l) /\ UNCHANGED raw
     ELSE LoaderGoto(l, "decode") /\ raw' = [raw EXCEPT ![l] = file] /\ UNCHANGED loadMu
  /\ UNCHANGED <<file, good, ptr, seen, live>>

\* Mutant: a file that does not decode counts as an empty one.
LoadDecodeIgnores(l) ==
  /\ lpc[l] = "decode"
  /\ LoaderGoto(l, "store")
  /\ UNCHANGED <<file, good, loadMu, raw, ptr, seen, live>>

\* json.Unmarshal; an error leaves the pointer as it is.
LoadDecode(l) ==
  /\ lpc[l] = "decode"
  /\ IF raw[l].form = "bad" THEN LoadReturn(l) ELSE LoaderGoto(l, "store") /\ UNCHANGED loadMu
  /\ UNCHANGED <<file, good, raw, ptr, seen, live>>

\* The defaults are filled in and the pointer is stored.
LoadStore(l) ==
  /\ lpc[l] = "store"
  /\ ptr' = [ver |-> raw[l].ver, blank |-> raw[l].blank \ Defaulted]
  /\ LoadReturn(l)
  /\ UNCHANGED <<file, good, raw, seen, live>>

LoadStep(l) == LoadLock(l) \/ LoadRead(l) \/ LoadDecode(l) \/ LoadStore(l)

\* Snapshot: a copy of what the pointer holds.
Snapshot(r) ==
  /\ seen' = [seen EXCEPT ![r] = ptr.ver]
  /\ UNCHANGED <<file, good, loadMu, lpc, raw, ptr, live>>

\* The loop's context ends; the loop notices between two loads.
Cancel ==
  /\ live /\ lpc[Loop] = "idle"
  /\ live' = FALSE
  /\ UNCHANGED <<file, good, loadMu, lpc, raw, ptr, seen>>

LoaderNext ==
  \/ \E form \in {"good", "bad", "missing"}, blank \in {{}, Defaulted} : Write(form, blank)
  \/ \E l \in Loaders : LoadBegin(l) \/ LoadStep(l)
  \/ \E r \in Readers : Snapshot(r)
  \/ Cancel

LoaderSpec == LoaderInit /\ [][LoaderNext]_loaderVars

\* The ticker ticks while the loop runs, and a goroutine in Load gets on: sync.Mutex
\* hands itself to a waiter that others keep overtaking.
FairLoader ==
  /\ LoaderSpec
  /\ WF_loaderVars(LoadBegin(Loop))
  /\ \A l \in Loaders : SF_loaderVars(LoadLock(l)) /\ WF_loaderVars(LoadRead(l) \/ LoadDecode(l) \/ LoadStore(l))

-----------------------------------------------------------------------------
(* Properties                                                              *)

\* The configuration never goes back: with several Loads at work, none publishes a
\* file older than one that has been published, and no reader gets an older
\* snapshot after a newer one.  Load reads the file inside the critical section
\* that ends with the store.
NeverBack == [][ptr'.ver >= ptr.ver /\ \A r \in Readers : seen'[r] >= seen[r]]_loaderVars

\* Whatever happens to the file, a reader is served a version that decoded, with
\* the fields that have defaults filled in, as soon as one was loaded.
ServedIsGood == ptr.ver # 0 => ptr.ver \in good /\ ptr.blank = {}

\* While ReloadLoop runs, a good file that is left alone is served in the end,
\* whatever errors came before.
Reloads == (<>[](file.form = "good" /\ live)) => <>[](ptr.ver = file.ver)

=============================================================================
