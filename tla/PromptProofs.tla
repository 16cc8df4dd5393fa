---------------------------- MODULE PromptProofs ----------------------------
(***************************************************************************)
(* Proofs for the way of a prompt's events: PromptStream, from the agent   *)
(* to the caller of the supervisor's Prompt, and PromptRelay, from there   *)
(* to the broker.                                                          *)
(***************************************************************************)
EXTENDS PromptStream, PromptRelay, SequenceTheorems, TLAPS

-----------------------------------------------------------------------------
(* The inductive invariant of PromptStream                                  *)

Subscribed == {"subscribed", "call", "loop", "unsubscribe"}

\* A Prompt that has not begun left no trace, and the agent only knows Prompts
\* that have begun.
BegunInv ==
  /\ \A p \in Prompts : pc[p] = "idle" =>
       /\ runID[p] = None /\ buf[p] = <<>> /\ delivered[p] = <<>>
       /\ state[p] = "dispatching"
  /\ \A p \in Prompts : pc[p] # "idle" => runID[p] \in RunIDs
  /\ \A i \in 1..Len(stdin) : pc[stdin[i]] # "idle"
  /\ \A p \in active : pc[p] # "idle"

\* The map leads from a run ID to an open channel made for that run ID.
MapInv == \A r \in RunIDs : streams[r] # None => /\ chan[streams[r]] = "open"
                                                 /\ runID[streams[r]] = r

Has(s, t) == \E k \in 1..Len(s) : s[k] = t

\* Every event on its way to a caller was written by the agent for the caller's
\* run ID, which some Prompt carries.
SourceInv ==
  /\ \A r \in RunIDs : emitted[r] # <<>> => \E p \in Prompts : runID[p] = r
  /\ \A i \in 1..Len(wire) : wire[i].kind = "event" => Has(emitted[wire[i].to], wire[i].body)
  /\ \A p \in Prompts : \A i \in 1..Len(buf[p]) : Has(emitted[runID[p]], buf[p][i])

\* NoEventLost from the subscription on.
AccountInv ==
  \A p \in Prompts :
    Unshared(p) /\ pc[p] \in {"subscribed", "call", "loop"} /\ p \notin dropped /\ reader # "cut" =>
      Completes(delivered[p] \o buf[p], wire, runID[p], emitted[runID[p]])

StreamInv == TypeOK /\ BegunInv /\ MapInv /\ SourceInv /\ ChannelIsMine /\ AccountInv /\ OutcomeGenuine

-----------------------------------------------------------------------------
(* Entries of a sequence that are still on their way                        *)

\* The entries of e after the first n are, in order, the values val at the places
\* pos of some queue.
Rest(n, pos, val, e) ==
  \E at \in [n+1..Len(e) -> pos] :
    /\ \A k \in n+1..Len(e) : val[at[k]] = e[k]
    /\ \A j, k \in n+1..Len(e) : j < k => at[j] < at[k]
    /\ \A i \in pos : \E k \in n+1..Len(e) : at[k] = i

\* The queue moves up by an entry that does not count,
Skipped(pos, val, pos2, val2) ==
  /\ \A i \in pos : i \in Nat /\ i - 1 \in pos2 /\ val2[i - 1] = val[i]
  /\ \A i \in pos2 : i \in Nat /\ i + 1 \in pos

\* or by one that does,
Taken(pos, val, pos2, val2) ==
  /\ 1 \in pos /\ \A i \in pos : i \in Nat /\ i >= 1
  /\ \A i \in pos \ {1} : i - 1 \in pos2 /\ val2[i - 1] = val[i]
  /\ \A i \in pos2 : i \in Nat \ {0} /\ i + 1 \in pos

\* or gets one more at its end.
Put(pos, val, pos2, val2, end) ==
  /\ end \in Nat /\ pos2 = pos \cup {end}
  /\ \A i \in pos : i \in Nat /\ i < end /\ val2[i] = val[i]

\* f is e with x at its end.
Longer(e, f, x) ==
  Len(f) = Len(e) + 1 /\ (\A k \in 1..Len(e) : f[k] = e[k]) /\ f[Len(e) + 1] = x

LEMMA RestSkip ==
  ASSUME NEW n, NEW e, NEW pos, NEW val, NEW pos2, NEW val2, Rest(n, pos, val, e),
         Skipped(pos, val, pos2, val2)
  PROVE  Rest(n, pos2, val2, e)
<1> USE DEF Skipped
<1> DEFINE I == n+1..Len(e)
<1>1. PICK at \in [I -> pos] :
        /\ \A k \in I : val[at[k]] = e[k]
        /\ \A j, k \in I : j < k => at[j] < at[k]
        /\ \A i \in pos : \E k \in I : at[k] = i
  BY DEF Rest
<1> DEFINE bt == [k \in I |-> at[k] - 1]
<1> HIDE DEF I
<1>2. bt \in [I -> pos2] /\ \A k \in I : val2[bt[k]] = e[k]
  BY <1>1
<1>3. \A j, k \in I : j < k => bt[j] < bt[k]
  BY <1>1
<1>4. \A i \in pos2 : \E k \in I : bt[k] = i
  BY <1>1
<1> QED
  BY <1>2, <1>3, <1>4 DEF Rest, I

LEMMA RestTake ==
  ASSUME NEW n \in Nat, NEW e, Len(e) \in Nat, NEW pos, NEW val, NEW pos2, NEW val2, Rest(n, pos, val, e),
         Taken(pos, val, pos2, val2)
  PROVE  n + 1 <= Len(e) /\ e[n + 1] = val[1] /\ Rest(n + 1, pos2, val2, e)
<1> USE DEF Taken
<1> DEFINE I == n+1..Len(e)
           J == (n + 1)+1..Len(e)
<1>1. PICK at \in [I -> pos] :
        /\ \A k \in I : val[at[k]] = e[k]
        /\ \A j, k \in I : j < k => at[j] < at[k]
        /\ \A i \in pos : \E k \in I : at[k] = i
  BY DEF Rest
<1>2. PICK k1 \in I : at[k1] = 1
  BY <1>1
<1>3. n + 1 \in I /\ k1 = n + 1
  <2>1. n + 1 \in I /\ k1 >= n + 1 /\ k1 \in Nat
    OBVIOUS
  <2>2. at[n + 1] \in pos /\ at[n + 1] >= 1
    BY <2>1
  <2>3. ~(n + 1 < k1)
    BY <2>1, <2>2, <1>1, <1>2
  <2> QED
    BY <2>1, <2>3
<1>4. J = I \ {k1} /\ J \subseteq I /\ \A k \in J : k1 < k
  BY <1>3
<1>5. n + 1 <= Len(e) /\ e[n + 1] = val[1]
  BY <1>1, <1>2, <1>3
<1>6. \A k \in J : at[k] \in pos \ {1}
  BY <1>1, <1>2, <1>4
<1> DEFINE bt == [k \in J |-> at[k] - 1]
<1> HIDE DEF I, J
<1>7. bt \in [J -> pos2] /\ \A k \in J : val2[bt[k]] = e[k]
  BY <1>1, <1>4, <1>6
<1>8. \A j, k \in J : j < k => bt[j] < bt[k]
  BY <1>1, <1>4, <1>6
<1>9. \A i \in pos2 : \E k \in J : bt[k] = i
  <2> SUFFICES ASSUME NEW i \in pos2 PROVE \E k \in J : bt[k] = i
    OBVIOUS
  <2>1. PICK k \in I : at[k] = i + 1
    BY <1>1
  <2>2. k \in J
    BY <2>1, <1>2, <1>4
  <2> QED
    BY <2>1, <2>2
<1> QED
  BY <1>5, <1>7, <1>8, <1>9, Zenon DEF Rest, J

LEMMA RestWrite ==
  ASSUME NEW n \in Nat, NEW e, Len(e) \in Nat, n <= Len(e), NEW pos, NEW val, NEW pos2, NEW val2, NEW e2, NEW end,
         Rest(n, pos, val, e), Put(pos, val, pos2, val2, end), Longer(e, e2, val2[end])
  PROVE  Rest(n, pos2, val2, e2)
<1> USE DEF Put, Longer
<1> DEFINE last == Len(e) + 1
           I == n+1..Len(e)
           J == n+1..Len(e2)
<1>1. PICK at \in [I -> pos] :
        /\ \A k \in I : val[at[k]] = e[k]
        /\ \A j, k \in I : j < k => at[j] < at[k]
        /\ \A i \in pos : \E k \in I : at[k] = i
  BY DEF Rest
<1>2. /\ J = I \cup {last} /\ last \in Nat
      /\ \A k \in I : k \in Nat /\ k < last /\ e2[k] = e[k]
  OBVIOUS
<1> DEFINE bt == [k \in J |-> IF k = last THEN end ELSE at[k]]
<1>3. e2[last] = val2[end]
  OBVIOUS
<1> HIDE DEF I, J, last
<1>4. \A k \in I : k # last /\ k \in J /\ bt[k] = at[k] /\ at[k] \in pos
  BY <1>1, <1>2
<1>5. last \in J /\ bt[last] = end /\ \A k \in J : k \in I \/ k = last
  BY <1>2
<1>6. bt \in [J -> pos2] /\ \A k \in J : val2[bt[k]] = e2[k]
  BY <1>1, <1>2, <1>3, <1>4, <1>5
<1>7. \A j, k \in J : j < k => bt[j] < bt[k]
  <2> SUFFICES ASSUME NEW j \in J, NEW k \in J, j < k PROVE bt[j] < bt[k]
    OBVIOUS
  <2>1. j \in I
    BY <1>2, <1>5
  <2>2. CASE k = last
    BY <2>1, <2>2, <1>4, <1>5
  <2>3. CASE k # last
    BY <2>1, <2>3, <1>1, <1>4, <1>5
  <2> QED
    BY <2>2, <2>3
<1>8. \A i \in pos2 : \E k \in J : bt[k] = i
  BY <1>1, <1>4, <1>5
<1> QED
  BY <1>6, <1>7, <1>8, Zenon DEF Rest, J

\* Nothing is on its way.
LEMMA RestNone ==
  ASSUME NEW e, Len(e) \in Nat, NEW val
  PROVE  Rest(Len(e), {}, val, e)
<1> DEFINE I == Len(e)+1..Len(e)
           at == [k \in {} |-> 0]
<1>1. I = {}
  OBVIOUS
<1>2. at \in [I -> {}]
  BY <1>1
<1> HIDE DEF I, at
<1> QED
  BY <1>1, <1>2, Zenon DEF Rest, I

-----------------------------------------------------------------------------
(* Completes, as the wire and the sequences move                           *)

Bodies(w, r) == [i \in EventsAt(w, r) |-> w[i].body]

LEMMA CompletesRest ==
  ASSUME NEW s, NEW w, NEW r, NEW e
  PROVE  Completes(s, w, r, e) <=> /\ Len(s) <= Len(e)
                                   /\ \A k \in 1..Len(s) : s[k] = e[k]
                                   /\ Rest(Len(s), EventsAt(w, r), Bodies(w, r), e)
<1> DEFINE I == Len(s)+1..Len(e)
<1>1. \A i \in EventsAt(w, r) : Bodies(w, r)[i] = w[i].body
  BY DEF Bodies
<1>2. ASSUME NEW at \in [I -> EventsAt(w, r)]
      PROVE  (\A k \in I : w[at[k]].body = e[k]) <=> (\A k \in I : Bodies(w, r)[at[k]] = e[k])
  <2> HIDE DEF I
  <2>1. \A k \in I : at[k] \in EventsAt(w, r)
    OBVIOUS
  <2> QED
    BY <2>1, <1>1, Zenon
<1> QED
  BY <1>2, Zenon DEF Completes, Rest

\* A message other than an event of run r is taken from the wire.
LEMMA CompletesSkip ==
  ASSUME NEW s, NEW e, NEW M, NEW w \in Seq(M), NEW r,
         w # <<>>, ~(Head(w).kind = "event" /\ Head(w).to = r), Completes(s, w, r, e)
  PROVE  Completes(s, Tail(w), r, e)
<1>1. /\ Tail(w) \in Seq(M) /\ Len(Tail(w)) = Len(w) - 1 /\ Len(w) \in Nat
      /\ \A i \in 1..Len(w) - 1 : Tail(w)[i] = w[i + 1]
      /\ Head(w) = w[1]
  BY HeadTailProperties, LenProperties
<1>2. 1 \notin EventsAt(w, r)
  BY <1>1 DEF EventsAt
<1>3. \A i : i \in EventsAt(Tail(w), r) <=> i \in Nat /\ i + 1 \in EventsAt(w, r)
  BY <1>1, <1>2 DEF EventsAt
<1>4. \A i \in EventsAt(w, r) : i \in Nat /\ i - 1 \in EventsAt(Tail(w), r) /\ Tail(w)[i - 1] = w[i]
  BY <1>1, <1>2, <1>3 DEF EventsAt
<1>5. \A i \in EventsAt(w, r) : Bodies(Tail(w), r)[i - 1] = Bodies(w, r)[i]
  BY <1>4 DEF Bodies
<1>6. Rest(Len(s), EventsAt(w, r), Bodies(w, r), e)
  BY CompletesRest, Zenon
<1>7. Rest(Len(s), EventsAt(Tail(w), r), Bodies(Tail(w), r), e)
  <2>1. Skipped(EventsAt(w, r), Bodies(w, r), EventsAt(Tail(w), r), Bodies(Tail(w), r))
    BY <1>3, <1>4, <1>5, Zenon DEF Skipped
  <2> QED
    BY <2>1, <1>6, RestSkip, Zenon
<1> QED
  BY <1>7, CompletesRest, Zenon

\* An event of run r is taken from the wire.
LEMMA CompletesTake ==
  ASSUME NEW T, NEW s \in Seq(T), NEW E, NEW e \in Seq(E), NEW M, NEW w \in Seq(M), NEW r, NEW b \in T,
         w # <<>>, Head(w).kind = "event", Head(w).to = r, Head(w).body = b, Completes(s, w, r, e)
  PROVE  Completes(Append(s, b), Tail(w), r, e)
<1>1. /\ Tail(w) \in Seq(M) /\ Len(Tail(w)) = Len(w) - 1 /\ Len(w) \in Nat
      /\ \A i \in 1..Len(w) - 1 : Tail(w)[i] = w[i + 1]
      /\ Head(w) = w[1] /\ Len(w) >= 1
  BY HeadTailProperties, LenProperties, EmptySeq
<1>2. 1 \in EventsAt(w, r) /\ \A i \in EventsAt(w, r) : i \in Nat /\ i >= 1
  BY <1>1 DEF EventsAt
<1>3. \A i : i \in EventsAt(Tail(w), r) <=> i \in Nat \ {0} /\ i + 1 \in EventsAt(w, r)
  BY <1>1 DEF EventsAt
<1>4. \A i \in EventsAt(w, r) \ {1} : i - 1 \in EventsAt(Tail(w), r) /\ Tail(w)[i - 1] = w[i]
  BY <1>1, <1>2, <1>3 DEF EventsAt
<1>5. /\ \A i \in EventsAt(w, r) \ {1} : Bodies(Tail(w), r)[i - 1] = Bodies(w, r)[i]
      /\ Bodies(w, r)[1] = b
  BY <1>1, <1>2, <1>4 DEF Bodies
<1>6. /\ Len(s) \in Nat /\ Len(e) \in Nat
      /\ \A k \in 1..Len(s) : s[k] = e[k]
      /\ Rest(Len(s), EventsAt(w, r), Bodies(w, r), e)
  BY LenProperties, CompletesRest
<1>7. Len(s) + 1 <= Len(e) /\ e[Len(s) + 1] = b /\ Rest(Len(s) + 1, EventsAt(Tail(w), r), Bodies(Tail(w), r), e)
  <2>1. Taken(EventsAt(w, r), Bodies(w, r), EventsAt(Tail(w), r), Bodies(Tail(w), r))
    BY <1>2, <1>3, <1>4, <1>5, Zenon DEF Taken
  <2> QED
    BY <2>1, <1>5, <1>6, RestTake, SMTT(20)
<1>8. /\ Len(Append(s, b)) = Len(s) + 1
      /\ \A k \in 1..Len(s) : Append(s, b)[k] = s[k]
      /\ Append(s, b)[Len(s) + 1] = b
  BY AppendProperties
<1>9. \A k \in 1..Len(Append(s, b)) : Append(s, b)[k] = e[k]
  BY <1>6, <1>7, <1>8
<1> QED
  BY <1>7, <1>8, <1>9, CompletesRest, Zenon

\* A message other than an event of run r is written.
LEMMA CompletesOther ==
  ASSUME NEW s, NEW e, NEW M, NEW w \in Seq(M), NEW m \in M, NEW r,
         ~(m.kind = "event" /\ m.to = r), Completes(s, w, r, e)
  PROVE  Completes(s, Append(w, m), r, e)
<1>1. /\ Len(Append(w, m)) = Len(w) + 1 /\ Len(w) \in Nat
      /\ \A i \in 1..Len(w) : Append(w, m)[i] = w[i]
      /\ Append(w, m)[Len(w) + 1] = m
  BY AppendProperties, LenProperties
<1>2. EventsAt(Append(w, m), r) = EventsAt(w, r)
  BY <1>1 DEF EventsAt
<1>3. Bodies(Append(w, m), r) = Bodies(w, r)
  BY <1>1, <1>2 DEF Bodies, EventsAt
<1> QED
  BY <1>2, <1>3, CompletesRest

\* An event of run r is written.
LEMMA CompletesWrite ==
  ASSUME NEW T, NEW s \in Seq(T), NEW E, NEW e \in Seq(E), NEW M, NEW w \in Seq(M), NEW m \in M, NEW r,
         m.kind = "event", m.to = r, m.body \in E, Completes(s, w, r, e)
  PROVE  Completes(s, Append(w, m), r, Append(e, m.body))
<1>1. /\ Len(Append(w, m)) = Len(w) + 1 /\ Len(w) \in Nat
      /\ \A i \in 1..Len(w) : Append(w, m)[i] = w[i]
      /\ Append(w, m)[Len(w) + 1] = m
  BY AppendProperties, LenProperties
<1>2. EventsAt(Append(w, m), r) = EventsAt(w, r) \cup {Len(w) + 1}
  BY <1>1 DEF EventsAt
<1>3. \A i \in EventsAt(w, r) : i \in Nat /\ i < Len(w) + 1 /\ Append(w, m)[i] = w[i]
  BY <1>1 DEF EventsAt
<1>4. /\ \A i \in EventsAt(w, r) : Bodies(Append(w, m), r)[i] = Bodies(w, r)[i]
      /\ Bodies(Append(w, m), r)[Len(w) + 1] = m.body
  BY <1>1, <1>2, <1>3 DEF Bodies
<1>5. /\ Len(Append(e, m.body)) = Len(e) + 1
      /\ \A k \in 1..Len(e) : Append(e, m.body)[k] = e[k]
      /\ Append(e, m.body)[Len(e) + 1] = m.body
  BY AppendProperties
<1>6. /\ Len(s) \in Nat /\ Len(e) \in Nat /\ Len(s) <= Len(e)
      /\ \A k \in 1..Len(s) : s[k] = e[k]
      /\ Rest(Len(s), EventsAt(w, r), Bodies(w, r), e)
  BY LenProperties, CompletesRest
<1>7. Len(w) + 1 \in Nat
  BY <1>1
<1>8. Rest(Len(s), EventsAt(Append(w, m), r), Bodies(Append(w, m), r), Append(e, m.body))
  <2>1. Put(EventsAt(w, r), Bodies(w, r), EventsAt(Append(w, m), r), Bodies(Append(w, m), r), Len(w) + 1)
    BY <1>2, <1>3, <1>4, <1>7, Zenon DEF Put
  <2>2. Longer(e, Append(e, m.body), Bodies(Append(w, m), r)[Len(w) + 1])
    BY <1>4, <1>5, Zenon DEF Longer
  <2> QED
    BY <2>1, <2>2, <1>6, RestWrite, SMTT(20)
<1>9. Len(s) <= Len(Append(e, m.body)) /\ \A k \in 1..Len(s) : s[k] = Append(e, m.body)[k]
  BY <1>5, <1>6
<1> QED
  BY <1>8, <1>9, CompletesRest

\* A run of which nothing was written.
LEMMA CompletesNothing ==
  ASSUME NEW w, NEW r, EventsAt(w, r) = {}
  PROVE  Completes(<<>>, w, r, <<>>)
<1>1. Len(<<>>) = 0 /\ 0 <= 0 /\ 0 \in Nat /\ \A k \in 1..0 : <<>>[k] = <<>>[k]
  OBVIOUS
<1>2. Rest(Len(<<>>), EventsAt(w, r), Bodies(w, r), <<>>)
  BY <1>1, RestNone
<1> QED
  BY <1>1, <1>2, CompletesRest, Zenon

-----------------------------------------------------------------------------
(* The invariant is preserved                                               *)

LEMMA EventTyped ==
  ASSUME NEW m \in Message, m.kind = "event"
  PROVE  m.to \in RunIDs /\ m.body \in EventTypes
BY DEF Message

LEMMA ReplyTyped ==
  ASSUME NEW m \in Message, m.kind = "reply"
  PROVE  m.to \in Prompts /\ m.body \in {"ok", "error"}
BY DEF Message

LEMMA HeadOfWire ==
  ASSUME NEW M, NEW w \in Seq(M), w # <<>>
  PROVE  /\ Head(w) \in M /\ Head(w) = w[1] /\ Len(w) \in Nat \ {0} /\ 1 \in 1..Len(w)
         /\ Tail(w) \in Seq(M) /\ Len(Tail(w)) = Len(w) - 1
         /\ \A i \in 1..Len(Tail(w)) : i + 1 \in 1..Len(w) /\ Tail(w)[i] = w[i + 1]
<1>1. Len(w) \in Nat /\ Len(w) # 0
  BY LenProperties, EmptySeq
<1> QED
  BY <1>1, HeadTailProperties, ElementOfSeq

\* Write appends a message to the wire or leaves the wire alone.
LEMMA WriteTyped ==
  ASSUME wire \in Seq(Message), NEW m \in Message, Write(m)
  PROVE  wire' \in Seq(Message)
BY AppendProperties DEF Write

LEMMA TypeStep == TypeOK /\ BegunInv /\ Next => TypeOK'
<1> SUFFICES ASSUME TypeOK, BegunInv, Next PROVE TypeOK'
  OBVIOUS
<1> USE Zenon DEF TypeOK
<1>1. ASSUME NEW p \in Prompts, NEW r \in RunIDs, PromptSubscribe(p, r) PROVE TypeOK'
  BY <1>1 DEF PromptSubscribe, agentVars
<1>2. ASSUME NEW p \in Prompts, PromptSend(p) PROVE TypeOK'
  <2>1. Append(stdin, p) \in Seq(Prompts)
    BY AppendProperties
  <2> QED
    BY <1>2, <2>1 DEF PromptSend, agentVars, handleVars
<1>3. ASSUME NEW p \in Prompts, PromptCallReturns(p) PROVE TypeOK'
  BY <1>3 DEF PromptCallReturns, PromptFails, agentVars, handleVars, RunStates
<1>4. ASSUME NEW p \in Prompts, PromptReceive(p) PROVE TypeOK'
  <2> DEFINE t == IF buf[p] # <<>> THEN Head(buf[p]) ELSE ""
  <2>1. Tail(buf[p]) \in Seq(EventTypes) \/ buf[p] = <<>>
    BY HeadOfWire
  <2>2. t \in EventTypes \cup {""}
    BY HeadOfWire
  <2>3. Append(delivered[p], t) \in Seq(EventTypes \cup {""})
    <3>1. delivered[p] \in Seq(EventTypes \cup {""})
      OBVIOUS
    <3> QED
      BY <3>1, <2>2, AppendProperties
  <2>4. (IF t \in FinalTypes THEN FinalState(t) ELSE "streaming") \in RunStates
    BY DEF FinalState, RunStates
  <2> HIDE DEF t
  <2>5. /\ buf' = [buf EXCEPT ![p] = IF @ # <<>> THEN Tail(@) ELSE @]
        /\ state' = [state EXCEPT ![p] = IF t \in FinalTypes THEN FinalState(t) ELSE "streaming"]
        /\ delivered' = [delivered EXCEPT ![p] = Append(@, t)]
        /\ pc' = [pc EXCEPT ![p] = IF t \in FinalTypes THEN "unsubscribe" ELSE @]
        /\ UNCHANGED <<runID, answer, chan, streams, dropped, stdin, wire, reader, agentVars>>
    BY <1>4 DEF PromptReceive, t
  <2>6. buf' \in [Prompts -> Seq(EventTypes)]
    BY <2>1, <2>5
  <2> QED
    BY <2>3, <2>4, <2>5, <2>6 DEF agentVars
<1>5. ASSUME NEW p \in Prompts, PromptUnsubscribe(p) PROVE TypeOK'
  BY <1>5 DEF PromptUnsubscribe, agentVars
<1>6. ASSUME NEW p \in Prompts, PromptCtxDone(p) PROVE TypeOK'
  BY <1>6 DEF PromptCtxDone, PromptFails, agentVars, handleVars, RunStates
<1>7. ASSUME NEW r \in RunIDs, Cancel(r) PROVE TypeOK'
  BY <1>7 DEF Cancel, rpcVars, handleVars
<1>8. ASSUME RouteEvent PROVE TypeOK'
  <2>1. Head(wire) \in Message /\ Tail(wire) \in Seq(Message)
    BY <1>8, HeadOfWire DEF RouteEvent
  <2>2. Head(wire).to \in RunIDs /\ Head(wire).body \in EventTypes
    BY <1>8, <2>1, EventTyped DEF RouteEvent
  <2>3. \A ch \in Prompts : Append(buf[ch], Head(wire).body) \in Seq(EventTypes)
    BY <2>2, AppendProperties
  <2>4. streams[Head(wire).to] \in Prompts \cup {None}
    BY <2>2
  <2>5. wire' \in Seq(Message) /\ dropped' \subseteq Prompts
    BY <1>8, <2>1, <2>4 DEF RouteEvent
  <2>6. buf' \in [Prompts -> Seq(EventTypes)]
    BY <1>8, <2>3, <2>4 DEF RouteEvent
  <2> QED
    BY <1>8, <2>5, <2>6 DEF RouteEvent, rpcVars, agentVars
<1>9. ASSUME RouteReply PROVE TypeOK'
  <2>1. Head(wire) \in Message /\ Tail(wire) \in Seq(Message)
    BY <1>9, HeadOfWire DEF RouteReply
  <2>2. Head(wire).to \in Prompts /\ Head(wire).body \in {"ok", "error"}
    BY <1>9, <2>1, ReplyTyped DEF RouteReply
  <2> QED
    BY <1>9, <2>1, <2>2 DEF RouteReply, rpcVars, agentVars, handleVars
<1>10. ASSUME ReaderEnd \/ ReaderCut PROVE TypeOK'
  <2>1. <<>> \in Seq(Message)
    BY EmptySeq
  <2> QED
    BY <1>10, <2>1 DEF ReaderEnd, ReaderCut, FailAll, rpcVars, agentVars, handleVars
<1>11. ASSUME NEW ok \in {"ok", "error"}, AgentAccept(ok) PROVE TypeOK'
  <2>1. Head(stdin) \in Prompts /\ Tail(stdin) \in Seq(Prompts)
    BY <1>11, HeadOfWire DEF AgentAccept
  <2>2. [kind |-> "reply", to |-> Head(stdin), body |-> ok] \in Message
    BY <2>1 DEF Message
  <2>3. wire' \in Seq(Message)
    BY <1>11, <2>2, WriteTyped DEF AgentAccept
  <2> QED
    BY <1>11, <2>1, <2>3 DEF AgentAccept, rpcVars, handleVars
<1>12. ASSUME NEW p \in Prompts, NEW t \in EventTypes, AgentEmit(p, t) PROVE TypeOK'
  <2>1. runID[p] \in RunIDs
    BY <1>12 DEF AgentEmit, BegunInv
  <2>2. [kind |-> "event", to |-> runID[p], body |-> t] \in Message
    BY <2>1 DEF Message
  <2>3. wire' \in Seq(Message)
    BY <1>12, <2>2, WriteTyped DEF AgentEmit
  <2>4. emitted' \in [RunIDs -> Seq(EventTypes)]
    <3>1. Append(emitted[runID[p]], t) \in Seq(EventTypes)
      BY <2>1, AppendProperties
    <3> QED
      BY <1>12, <2>1, <3>1 DEF AgentEmit
  <2> QED
    BY <1>12, <2>3, <2>4 DEF AgentEmit, rpcVars, handleVars
<1>13. ASSUME AgentExit PROVE TypeOK'
  <2>1. <<>> \in Seq(Prompts)
    BY EmptySeq
  <2> QED
    BY <1>13, <2>1 DEF AgentExit, rpcVars, handleVars
<1> QED
  BY <1>1, <1>2, <1>3, <1>4, <1>5, <1>6, <1>7, <1>8, <1>9, <1>10, <1>11, <1>12, <1>13
  DEF Next, PromptStep, ReaderStep

\* What the steps below need of the types.
LEMMA Shapes ==
  ASSUME TypeOK
  PROVE  /\ pc = [q \in Prompts |-> pc[q]] /\ runID = [q \in Prompts |-> runID[q]]
         /\ state = [q \in Prompts |-> state[q]] /\ chan = [q \in Prompts |-> chan[q]]
         /\ buf = [q \in Prompts |-> buf[q]] /\ delivered = [q \in Prompts |-> delivered[q]]
         /\ streams = [r \in RunIDs |-> streams[r]] /\ emitted = [r \in RunIDs |-> emitted[r]]
         /\ \A r \in RunIDs : streams[r] \in Prompts \cup {None}
         /\ \A q \in Prompts : runID[q] \in RunIDs \cup {None}
         /\ \A q \in Prompts : buf[q] \in Seq(EventTypes) /\ delivered[q] \in Seq(EventTypes \cup {""})
         /\ \A r \in RunIDs : emitted[r] \in Seq(EventTypes)
         /\ stdin \in Seq(Prompts) /\ wire \in Seq(Message)
         /\ \A i \in 1..Len(stdin) : stdin[i] \in Prompts
         /\ \A i \in 1..Len(wire) : wire[i] \in Message
         /\ active \subseteq Prompts
<1> USE Zenon DEF TypeOK
<1>1. /\ pc = [q \in Prompts |-> pc[q]] /\ runID = [q \in Prompts |-> runID[q]]
      /\ state = [q \in Prompts |-> state[q]] /\ chan = [q \in Prompts |-> chan[q]]
  OBVIOUS
<1>2. /\ buf = [q \in Prompts |-> buf[q]] /\ delivered = [q \in Prompts |-> delivered[q]]
      /\ streams = [r \in RunIDs |-> streams[r]] /\ emitted = [r \in RunIDs |-> emitted[r]]
  OBVIOUS
<1>3. /\ \A i \in 1..Len(stdin) : stdin[i] \in Prompts
      /\ \A i \in 1..Len(wire) : wire[i] \in Message
  BY ElementOfSeq
<1> QED
  BY <1>1, <1>2, <1>3

\* An entry of a sequence that was appended to.
LEMMA AfterAppend ==
  ASSUME NEW S, NEW s \in Seq(S), NEW x \in S
  PROVE  /\ Append(s, x) \in Seq(S) /\ Len(s) \in Nat /\ Len(Append(s, x)) = Len(s) + 1
         /\ \A i \in 1..Len(s) : i \in 1..Len(Append(s, x)) /\ Append(s, x)[i] = s[i]
         /\ \A i \in 1..Len(Append(s, x)) : Append(s, x)[i] = x \/ (i \in 1..Len(s) /\ Append(s, x)[i] = s[i])
         /\ Append(s, x)[Len(s) + 1] = x /\ Len(s) + 1 \in 1..Len(Append(s, x))
<1>1. /\ Append(s, x) \in Seq(S) /\ Len(Append(s, x)) = Len(s) + 1
      /\ \A i \in 1..Len(s) : Append(s, x)[i] = s[i]
      /\ Append(s, x)[Len(s) + 1] = x
  BY AppendProperties
<1>2. Len(s) \in Nat
  BY LenProperties
<1> DEFINE a == Append(s, x)
           n == Len(s)
<1>3. Len(a) = n + 1 /\ n \in Nat /\ a[n + 1] = x /\ \A i \in 1..n : a[i] = s[i]
  BY <1>1, <1>2
<1> HIDE DEF a, n
<1>4. 1..Len(a) = (1..n) \cup {n + 1}
  BY <1>3
<1>5. /\ \A i \in 1..n : i \in 1..Len(a) /\ a[i] = s[i]
      /\ \A i \in 1..Len(a) : a[i] = x \/ (i \in 1..n /\ a[i] = s[i])
      /\ n + 1 \in 1..Len(a)
  BY <1>3, <1>4, Zenon
<1> QED
  BY <1>1, <1>2, <1>5, Zenon DEF a, n

USE Zenon

\* A Prompt starts once, and its run ID is set for good by then.
LEMMA BegunForGood ==
  ASSUME TypeOK, Next
  PROVE  /\ \A q \in Prompts : pc[q] # "idle" => pc'[q] # "idle" /\ runID'[q] = runID[q]
         /\ \A q \in Prompts : pc[q] = "idle" /\ pc'[q] # "idle" => runID'[q] \in RunIDs
         /\ \A q \in Prompts : pc[q] = "idle" /\ pc'[q] = "idle" => runID'[q] = runID[q]
<1> DEFINE Kept == runID' = runID /\ \A q \in Prompts : pc'[q] = pc[q] \/ (pc[q] # "idle" /\ pc'[q] # "idle")
<1>1. ASSUME NEW p \in Prompts, NEW r \in RunIDs, PromptSubscribe(p, r)
      PROVE  /\ \A q \in Prompts : pc[q] # "idle" => pc'[q] # "idle" /\ runID'[q] = runID[q]
             /\ \A q \in Prompts : pc[q] = "idle" /\ pc'[q] # "idle" => runID'[q] \in RunIDs
             /\ \A q \in Prompts : pc[q] = "idle" /\ pc'[q] = "idle" => runID'[q] = runID[q]
  <2>1. /\ pc[p] = "idle"
        /\ \A q \in Prompts : pc'[q] = IF q = p THEN "subscribed" ELSE pc[q]
        /\ \A q \in Prompts : runID'[q] = IF q = p THEN r ELSE runID[q]
    BY <1>1, Shapes DEF PromptSubscribe
  <2> QED
    BY <2>1
<1>2. ASSUME NEW p \in Prompts, PromptStep(p) \/ PromptCtxDone(p) PROVE Kept
  <2>1. runID' = runID /\ pc[p] # "idle"
    BY <1>2 DEF PromptStep, PromptSend, PromptCallReturns, PromptReceive, PromptUnsubscribe,
                PromptCtxDone
  <2>2. ASSUME PromptReceive(p) PROVE \E next : next # "idle" /\ pc' = [pc EXCEPT ![p] = next]
    <3> DEFINE t == IF buf[p] # <<>> THEN Head(buf[p]) ELSE ""
               next == IF t \in FinalTypes THEN "unsubscribe" ELSE pc[p]
    <3>1. pc' = [pc EXCEPT ![p] = next] /\ next # "idle"
      BY <2>1, <2>2 DEF PromptReceive
    <3> QED
      BY <3>1
  <2>3. ASSUME ~PromptReceive(p) PROVE \E next : next # "idle" /\ pc' = [pc EXCEPT ![p] = next]
    BY <1>2, <2>3 DEF PromptStep, PromptSend, PromptCallReturns, PromptUnsubscribe,
                      PromptCtxDone, PromptFails
  <2>x. PICK next : next # "idle" /\ pc' = [pc EXCEPT ![p] = next]
    BY <2>2, <2>3
  <2>4. \A q \in Prompts : pc'[q] = IF q = p THEN next ELSE pc[q]
    BY <2>x, Shapes
  <2> QED
    BY <2>1, <2>x, <2>4
<1>3. ASSUME UNCHANGED <<pc, runID>> PROVE Kept
  <2>1. pc' = pc /\ runID' = runID
    BY <1>3
  <2> QED
    BY <2>1
<1>4. \/ \E p \in Prompts, r \in RunIDs : PromptSubscribe(p, r)
      \/ \E p \in Prompts : PromptStep(p) \/ PromptCtxDone(p)
      \/ UNCHANGED <<pc, runID>>
  BY DEF Next, ReaderStep, Cancel, RouteEvent, RouteReply, ReaderEnd, ReaderCut,
         AgentAccept, AgentEmit, AgentExit, rpcVars
<1> QED
  BY <1>1, <1>2, <1>3, <1>4

\* The agent knows a Prompt from its request on.
LEMMA KnownStep ==
  ASSUME TypeOK, BegunInv, Next
  PROVE  /\ \A i \in 1..Len(stdin') : pc'[stdin'[i]] # "idle"
         /\ \A q \in active' : pc'[q] # "idle"
<1> DEFINE Known == /\ \A i \in 1..Len(stdin') : stdin'[i] \in Prompts /\ pc'[stdin'[i]] # "idle"
                    /\ \A q \in active' : q \in Prompts /\ pc'[q] # "idle"
<1>a. /\ \A q \in Prompts : pc[q] # "idle" => pc'[q] # "idle"
      /\ \A i \in 1..Len(stdin) : stdin[i] \in Prompts /\ pc[stdin[i]] # "idle"
      /\ \A q \in active : q \in Prompts /\ pc[q] # "idle"
  BY BegunForGood, Shapes DEF BegunInv
<1>b. \A q \in active' : q \in active \/ (stdin # <<>> /\ q = Head(stdin))
  <2>1. ASSUME NEW ok \in {"ok", "error"}, AgentAccept(ok)
        PROVE  \A q \in active' : q \in active \/ (stdin # <<>> /\ q = Head(stdin))
    BY <2>1, SMT DEF AgentAccept
  <2>2. ASSUME NEW p \in Prompts, NEW t \in EventTypes, AgentEmit(p, t) PROVE active' \subseteq active
    BY <2>2, SMT DEF AgentEmit
  <2>3. ASSUME AgentExit PROVE active' \subseteq active
    BY <2>3 DEF AgentExit
  <2>4. \/ \E ok \in {"ok", "error"} : AgentAccept(ok)
        \/ \E p \in Prompts, t \in EventTypes : AgentEmit(p, t)
        \/ AgentExit
        \/ active' = active
    BY DEF Next, PromptStep, ReaderStep, PromptSubscribe, PromptSend, PromptCallReturns, PromptReceive,
           PromptUnsubscribe, PromptCtxDone, Cancel, RouteEvent, RouteReply, ReaderEnd, ReaderCut, agentVars
  <2> QED
    BY <2>1, <2>2, <2>3, <2>4
<1>c. \/ \E p \in Prompts : pc[p] = "subscribed" /\ stdin' = Append(stdin, p)
      \/ stdin # <<>> /\ stdin' = Tail(stdin)
      \/ stdin' = <<>>
      \/ stdin' = stdin
  BY DEF Next, PromptStep, ReaderStep, PromptSubscribe, PromptSend, PromptCallReturns, PromptReceive,
         PromptUnsubscribe, PromptCtxDone, Cancel, RouteEvent, RouteReply, ReaderEnd, ReaderCut, AgentAccept,
         AgentEmit, AgentExit
<1>d. stdin \in Seq(Prompts)
  BY Shapes
<1>1. ASSUME NEW q \in active' PROVE pc'[q] # "idle"
  <2>1. CASE stdin # <<>> /\ q = Head(stdin)
    <3>1. Head(stdin) = stdin[1] /\ 1 \in 1..Len(stdin)
      BY <2>1, <1>d, HeadOfWire
    <3> QED
      BY <2>1, <3>1, <1>a
  <2> QED
    BY <2>1, <1>a, <1>b
<1>2. ASSUME NEW i \in 1..Len(stdin') PROVE pc'[stdin'[i]] # "idle"
  <2>1. ASSUME NEW p \in Prompts, pc[p] = "subscribed", stdin' = Append(stdin, p)
        PROVE  pc'[stdin'[i]] # "idle"
    <3>0. \A j \in 1..Len(Append(stdin, p)) :
            Append(stdin, p)[j] = p \/ (j \in 1..Len(stdin) /\ Append(stdin, p)[j] = stdin[j])
      BY <1>d, AfterAppend, SMT
    <3>1. stdin'[i] = p \/ (i \in 1..Len(stdin) /\ stdin'[i] = stdin[i])
      BY <2>1, <3>0
    <3> QED
      BY <2>1, <3>1, <1>a
  <2>2. CASE stdin # <<>> /\ stdin' = Tail(stdin)
    <3>1. i + 1 \in 1..Len(stdin) /\ stdin'[i] = stdin[i + 1]
      BY <2>2, <1>d, HeadOfWire
    <3> QED
      BY <3>1, <1>a
  <2>3. CASE stdin' = <<>>
    BY <2>3, SMT
  <2>4. CASE stdin' = stdin
    BY <2>4, <1>a
  <2> QED
    BY <2>1, <2>2, <2>3, <2>4, <1>c
<1> QED
  BY <1>1, <1>2

\* Nothing reaches a Prompt that has not begun.
LEMMA IdleStep ==
  ASSUME TypeOK, BegunInv, MapInv, Next, NEW q \in Prompts, pc'[q] = "idle"
  PROVE  buf'[q] = buf[q] /\ delivered'[q] = delivered[q] /\ state'[q] = state[q]
<1>1. pc[q] = "idle" /\ runID[q] = None
  BY BegunForGood DEF BegunInv
<1>2. ASSUME NEW p \in Prompts, NEW r \in RunIDs, PromptSubscribe(p, r)
      PROVE  UNCHANGED <<buf, delivered, state>>
  BY <1>2 DEF PromptSubscribe
<1>3. ASSUME NEW p \in Prompts, PromptStep(p) \/ PromptCtxDone(p)
      PROVE  buf'[q] = buf[q] /\ delivered'[q] = delivered[q] /\ state'[q] = state[q]
  <2>1. p # q
    BY <1>1, <1>3 DEF PromptStep, PromptSend, PromptCallReturns, PromptReceive, PromptUnsubscribe,
                      PromptCtxDone
  <2> QED
    BY <1>3, <2>1, Shapes
    DEF PromptStep, PromptSend, PromptCallReturns, PromptReceive, PromptUnsubscribe, PromptCtxDone,
        PromptFails, handleVars
<1>4. ASSUME RouteEvent
      PROVE  buf'[q] = buf[q] /\ delivered'[q] = delivered[q] /\ state'[q] = state[q]
  <2>1. Head(wire).to \in RunIDs
    BY <1>4, HeadOfWire, EventTyped, Shapes DEF RouteEvent
  <2>2. q # streams[Head(wire).to] \/ streams[Head(wire).to] = None
    BY <2>1, <1>1, StreamAssumption DEF MapInv
  <2> QED
    BY <1>4, <2>2, Shapes DEF RouteEvent, rpcVars
<1>5. ASSUME UNCHANGED <<buf, delivered, state>>
      PROVE  buf'[q] = buf[q] /\ delivered'[q] = delivered[q] /\ state'[q] = state[q]
  BY <1>5
<1>6. \/ \E p \in Prompts, r \in RunIDs : PromptSubscribe(p, r)
      \/ \E p \in Prompts : PromptStep(p) \/ PromptCtxDone(p)
      \/ RouteEvent
      \/ UNCHANGED <<buf, delivered, state>>
  BY DEF Next, ReaderStep, Cancel, RouteReply, ReaderEnd, ReaderCut,
         AgentAccept, AgentEmit, AgentExit, rpcVars, handleVars
<1> QED
  BY <1>2, <1>3, <1>4, <1>5, <1>6

LEMMA BegunStep == TypeOK /\ BegunInv /\ MapInv /\ Next => BegunInv'
<1> SUFFICES ASSUME TypeOK, BegunInv, MapInv, Next PROVE BegunInv'
  OBVIOUS
<1>1. \A q \in Prompts : pc'[q] = "idle" => pc[q] = "idle" /\ runID'[q] = runID[q]
  BY BegunForGood
<1>2. \A q \in Prompts : pc'[q] # "idle" => runID'[q] \in RunIDs
  BY BegunForGood DEF BegunInv
<1>3. \A q \in Prompts : pc'[q] = "idle" =>
        buf'[q] = buf[q] /\ delivered'[q] = delivered[q] /\ state'[q] = state[q]
  BY IdleStep
<1> QED
  BY <1>1, <1>2, <1>3, KnownStep DEF BegunInv

\* Steps other than subscribe and unsubscribe leave the map, the channels' state
\* and the run IDs alone.
LEMMA MapFrame ==
  ASSUME Next
  PROVE  \/ \E p \in Prompts, r \in RunIDs : PromptSubscribe(p, r)
         \/ \E p \in Prompts : PromptUnsubscribe(p)
         \/ UNCHANGED <<streams, chan, runID>>
BY DEF Next, PromptStep, ReaderStep, PromptSend, PromptCallReturns, PromptReceive, PromptCtxDone,
       Cancel, RouteEvent, RouteReply, ReaderEnd, ReaderCut, AgentAccept, AgentEmit, AgentExit,
       rpcVars, handleVars

LEMMA MapStep == TypeOK /\ BegunInv /\ MapInv /\ Next => MapInv'
<1> SUFFICES ASSUME TypeOK, BegunInv, MapInv, Next PROVE MapInv'
  OBVIOUS
<1>1. ASSUME NEW p \in Prompts, NEW r \in RunIDs, PromptSubscribe(p, r) PROVE MapInv'
  <2>1. \A q \in RunIDs : streams[q] # p
    <3>1. runID[p] = None
      BY <1>1 DEF PromptSubscribe, BegunInv
    <3> QED
      BY <3>1, StreamAssumption DEF MapInv
  <2> QED
    BY <1>1, <2>1, Shapes DEF PromptSubscribe, MapInv
<1>2. ASSUME NEW p \in Prompts, PromptUnsubscribe(p) PROVE MapInv'
  <2>1. runID[p] \in RunIDs
    BY <1>2 DEF PromptUnsubscribe, BegunInv
  <2>2. \A r \in RunIDs : /\ streams'[r] = IF r = runID[p] THEN None ELSE streams[r]
                          /\ r # runID[p] => streams[r] # streams[runID[p]] \/ streams[r] = None
    BY <1>2, <2>1, Shapes, ZenonT(40) DEF PromptUnsubscribe, MapInv
  <2>3. \A q \in Prompts : q # streams[runID[p]] => chan'[q] = chan[q]
    BY <1>2, <2>1, Shapes DEF PromptUnsubscribe
  <2>4. runID' = runID
    BY <1>2 DEF PromptUnsubscribe
  <2>5. ASSUME NEW r \in RunIDs, streams'[r] # None
        PROVE  chan'[streams'[r]] = "open" /\ runID'[streams'[r]] = r
    <3>1. streams'[r] = streams[r] /\ streams[r] # streams[runID[p]] /\ streams[r] \in Prompts
      BY <2>2, <2>5, Shapes
    <3> QED
      BY <3>1, <2>3, <2>4, <2>5 DEF MapInv
  <2> QED
    BY <2>5 DEF MapInv
<1>3. ASSUME UNCHANGED <<streams, chan, runID>> PROVE MapInv'
  BY <1>3 DEF MapInv
<1> QED
  BY <1>1, <1>2, <1>3, MapFrame

\* A Prompt that shares its run ID with nobody never did.
LEMMA UnsharedBefore ==
  ASSUME TypeOK, BegunInv, Next, NEW p \in Prompts, Unshared(p)', pc'[p] # "idle"
  PROVE  /\ runID'[p] \in RunIDs
         /\ \A q \in Prompts \ {p} : runID[q] # runID'[p]
         /\ pc[p] # "idle" => runID'[p] = runID[p] /\ Unshared(p)
<1>1. runID'[p] \in RunIDs /\ (pc[p] # "idle" => runID'[p] = runID[p])
  BY BegunForGood DEF BegunInv
<1>2. ASSUME NEW q \in Prompts \ {p} PROVE runID[q] # runID'[p]
  <2>1. runID'[q] # runID'[p]
    BY DEF Unshared
  <2>2. CASE pc[q] = "idle"
    BY <2>2, <1>1, StreamAssumption DEF BegunInv
  <2>3. CASE pc[q] # "idle"
    BY <2>1, <2>3, BegunForGood
  <2> QED
    BY <2>2, <2>3
<1> QED
  BY <1>1, <1>2 DEF Unshared

\* The agent's record of a run only grows, and only while a Prompt of that run is
\* active.
LEMMA EmittedStep ==
  ASSUME TypeOK, BegunInv, Next, NEW r \in RunIDs
  PROVE  \/ emitted'[r] = emitted[r]
         \/ /\ \E t \in EventTypes : emitted'[r] = Append(emitted[r], t)
            /\ \E p \in Prompts : runID[p] = r
<1>1. ASSUME NEW p \in Prompts, NEW t \in EventTypes, AgentEmit(p, t)
      PROVE  emitted'[r] = emitted[r] \/ (runID[p] = r /\ emitted'[r] = Append(emitted[r], t))
  <2>1. emitted' = [emitted EXCEPT ![runID[p]] = Append(@, t)]
    BY <1>1 DEF AgentEmit
  <2> QED
    BY <2>1, Shapes
<1>2. \/ \E p \in Prompts, t \in EventTypes : AgentEmit(p, t)
      \/ emitted' = emitted
  BY DEF Next, PromptStep, ReaderStep, PromptSubscribe, PromptSend, PromptCallReturns, PromptReceive,
         PromptUnsubscribe, PromptCtxDone, Cancel, RouteEvent, RouteReply, ReaderEnd, ReaderCut,
         AgentAccept, AgentExit, agentVars
<1> QED
  BY <1>1, <1>2

LEMMA WroteKept ==
  ASSUME TypeOK, BegunInv, Next, NEW r \in RunIDs
  PROVE  \A k \in 1..Len(emitted[r]) : k \in 1..Len(emitted'[r]) /\ emitted'[r][k] = emitted[r][k]
<1>1. ASSUME NEW t \in EventTypes, emitted'[r] = Append(emitted[r], t)
      PROVE  \A k \in 1..Len(emitted[r]) : k \in 1..Len(emitted'[r]) /\ emitted'[r][k] = emitted[r][k]
  <2>1. emitted[r] \in Seq(EventTypes)
    BY Shapes
  <2>2. \A k \in 1..Len(emitted[r]) : /\ k \in 1..Len(Append(emitted[r], t))
                                      /\ Append(emitted[r], t)[k] = emitted[r][k]
    BY <2>1, AfterAppend, SMT
  <2> QED
    BY <1>1, <2>2
<1> QED
  BY <1>1, EmittedStep

\* What becomes of the wire: its head is taken, or a line written at its end.
LEMMA WireStep ==
  ASSUME TypeOK, BegunInv, Next
  PROVE  \A i \in 1..Len(wire') :
           \/ \E j \in 1..Len(wire) : wire'[i] = wire[j]
           \/ wire'[i] \in Message /\ (wire'[i].kind = "event" => Has(emitted'[wire'[i].to], wire'[i].body))
<1> DEFINE Fine(m) == m \in Message /\ (m.kind = "event" => Has(emitted'[m.to], m.body))
<1>1. ASSUME NEW m \in Message, Fine(m), Write(m), NEW i \in 1..Len(wire')
      PROVE  (\E j \in 1..Len(wire) : wire'[i] = wire[j]) \/ Fine(wire'[i])
  <2>1. wire \in Seq(Message)
    BY Shapes
  <2>2. \A k \in 1..Len(Append(wire, m)) :
          Append(wire, m)[k] = m \/ (k \in 1..Len(wire) /\ Append(wire, m)[k] = wire[k])
    BY <2>1, AfterAppend, SMT
  <2> HIDE DEF Fine
  <2>3. CASE wire' = wire
    BY <2>3
  <2>4. CASE wire' = Append(wire, m)
    BY <1>1, <2>2, <2>4
  <2> QED
    BY <1>1, <2>3, <2>4 DEF Write
<1>2. ASSUME NEW ok \in {"ok", "error"}, AgentAccept(ok)
      PROVE  \E m \in Message : Fine(m) /\ Write(m)
  <2> DEFINE m == [kind |-> "reply", to |-> Head(stdin), body |-> ok]
  <2>1. Head(stdin) \in Prompts
    BY <1>2, HeadOfWire, Shapes DEF AgentAccept
  <2>2. m \in Message /\ m.kind = "reply"
    BY <2>1, SMT DEF Message
  <2>3. Write(m)
    BY <1>2 DEF AgentAccept
  <2> HIDE DEF m
  <2> QED
    BY <2>2, <2>3
<1>3. ASSUME NEW p \in Prompts, NEW t \in EventTypes, AgentEmit(p, t)
      PROVE  \E m \in Message : Fine(m) /\ Write(m)
  <2> DEFINE r == runID[p]
             m == [kind |-> "event", to |-> r, body |-> t]
  <2>1. r \in RunIDs
    BY <1>3 DEF AgentEmit, BegunInv
  <2>2. m \in Message /\ m.kind = "event" /\ m.to = r /\ m.body = t
    BY <2>1, SMT DEF Message
  <2>3. Write(m) /\ emitted' = [emitted EXCEPT ![r] = Append(@, t)]
    BY <1>3 DEF AgentEmit
  <2>4. emitted'[r] = Append(emitted[r], t) /\ emitted[r] \in Seq(EventTypes)
    BY <2>1, <2>3, Shapes
  <2>5. Append(emitted[r], t)[Len(emitted[r]) + 1] = t /\ Len(emitted[r]) + 1 \in 1..Len(Append(emitted[r], t))
    BY <2>4, AfterAppend, SMT
  <2> HIDE DEF m
  <2>6. \E k \in 1..Len(emitted'[r]) : emitted'[r][k] = t
    BY <2>4, <2>5
  <2>7. Has(emitted'[m.to], m.body)
    BY <2>2, <2>6 DEF Has
  <2> QED
    BY <2>2, <2>3, <2>7
<1>4. ASSUME wire # <<>>, wire' = Tail(wire), NEW i \in 1..Len(wire')
      PROVE  \E j \in 1..Len(wire) : wire'[i] = wire[j]
  <2>1. wire \in Seq(Message)
    BY Shapes
  <2>2. i + 1 \in 1..Len(wire) /\ Tail(wire)[i] = wire[i + 1]
    BY <1>4, <2>1, HeadOfWire, SMT
  <2> QED
    BY <1>4, <2>2
<1>5. ASSUME wire' = wire \/ wire' = <<>>, NEW i \in 1..Len(wire')
      PROVE  \E j \in 1..Len(wire) : wire'[i] = wire[j]
  BY <1>5, SMT
<1>6. \/ \E ok \in {"ok", "error"} : AgentAccept(ok)
      \/ \E p \in Prompts, t \in EventTypes : AgentEmit(p, t)
      \/ wire # <<>> /\ wire' = Tail(wire)
      \/ wire' = wire
      \/ wire' = <<>>
  BY DEF Next, PromptStep, ReaderStep, PromptSubscribe, PromptSend, PromptCallReturns, PromptReceive,
         PromptUnsubscribe, PromptCtxDone, Cancel, RouteEvent, RouteReply, ReaderEnd, ReaderCut,
         AgentExit
<1> HIDE DEF Fine
<1>7. \A i \in 1..Len(wire') : (\E j \in 1..Len(wire) : wire'[i] = wire[j]) \/ Fine(wire'[i])
  BY <1>1, <1>2, <1>3, <1>4, <1>5, <1>6
<1> QED
  BY <1>7 DEF Fine

\* One turn of a Prompt's event loop on an event in its channel, or on none.
LEMMA ReceiveEffect ==
  ASSUME TypeOK, NEW p \in Prompts, PromptReceive(p)
  PROVE  /\ \A q \in Prompts \ {p} : buf'[q] = buf[q] /\ delivered'[q] = delivered[q] /\ state'[q] = state[q]
         /\ buf[p] # <<>> =>
              /\ Head(buf[p]) \in EventTypes /\ buf'[p] = Tail(buf[p])
              /\ delivered'[p] = Append(delivered[p], Head(buf[p]))
              /\ state'[p] = IF Head(buf[p]) \in FinalTypes THEN FinalState(Head(buf[p])) ELSE "streaming"
         /\ buf[p] = <<>> => chan[p] = "closed" /\ buf'[p] = buf[p] /\ state'[p] = "streaming"
         /\ pc[p] = "loop" /\ UNCHANGED <<runID, chan, streams, dropped, wire, reader, emitted>>
<1> DEFINE t == IF buf[p] # <<>> THEN Head(buf[p]) ELSE ""
<1>1. /\ buf' = [buf EXCEPT ![p] = IF @ # <<>> THEN Tail(@) ELSE @]
      /\ state' = [state EXCEPT ![p] = IF t \in FinalTypes THEN FinalState(t) ELSE "streaming"]
      /\ delivered' = [delivered EXCEPT ![p] = Append(@, t)]
      /\ pc[p] = "loop" /\ (buf[p] # <<>> \/ chan[p] = "closed")
      /\ UNCHANGED <<runID, chan, streams, dropped, wire, reader, emitted>>
  BY DEF PromptReceive, agentVars
<1> HIDE DEF t
<1>2. /\ \A q \in Prompts \ {p} : buf'[q] = buf[q] /\ delivered'[q] = delivered[q] /\ state'[q] = state[q]
      /\ buf'[p] = IF buf[p] # <<>> THEN Tail(buf[p]) ELSE buf[p]
      /\ state'[p] = IF t \in FinalTypes THEN FinalState(t) ELSE "streaming"
      /\ delivered'[p] = Append(delivered[p], t)
  BY <1>1, Shapes
<1>3. buf[p] # <<>> => t = Head(buf[p]) /\ Head(buf[p]) \in EventTypes
  BY HeadOfWire, Shapes DEF t
<1>4. buf[p] = <<>> => t \notin FinalTypes
  BY DEF t, FinalTypes
<1> QED
  BY <1>1, <1>2, <1>3, <1>4

\* routeEvent touches at most the channel the map holds for the event's run ID.
LEMMA RouteEffect ==
  ASSUME TypeOK, RouteEvent
  PROVE  LET m == Head(wire) ch == streams[m.to] IN
         /\ wire \in Seq(Message) /\ wire # <<>> /\ wire' = Tail(wire) /\ m \in Message
         /\ m.kind = "event" /\ m.to \in RunIDs /\ m.body \in EventTypes
         /\ \A q \in Prompts : \/ buf'[q] = buf[q] /\ (q \in dropped' \/ q # ch)
                               \/ q = ch /\ buf'[q] = Append(buf[q], m.body)
         /\ dropped \subseteq dropped'
         /\ UNCHANGED <<pc, runID, state, delivered, chan, streams, reader, emitted>>
<1> DEFINE m == Head(wire)
           ch == streams[m.to]
<1>1. wire \in Seq(Message) /\ wire # <<>> /\ m \in Message /\ m.kind = "event" /\ wire' = Tail(wire)
  BY HeadOfWire, Shapes DEF RouteEvent
<1>2. m.to \in RunIDs /\ m.body \in EventTypes
  BY <1>1, EventTyped
<1>3. UNCHANGED <<pc, runID, state, delivered, chan, streams, reader, emitted>>
  BY DEF RouteEvent, rpcVars, agentVars
<1>4. \/ ch # None /\ buf' = [buf EXCEPT ![ch] = Append(@, m.body)] /\ dropped' = dropped
      \/ ch # None /\ dropped' = dropped \cup {ch} /\ buf' = buf
      \/ ch = None /\ buf' = buf /\ dropped' = dropped
  BY DEF RouteEvent
<1>5. ch \in Prompts \cup {None}
  BY <1>2, Shapes
<1> HIDE DEF m, ch
<1>6. /\ dropped \subseteq dropped'
      /\ \A q \in Prompts : \/ buf'[q] = buf[q] /\ (q \in dropped' \/ q # ch)
                            \/ q = ch /\ buf'[q] = Append(buf[q], m.body)
  BY <1>4, <1>5, Shapes, StreamAssumption
<1> QED
  BY <1>1, <1>2, <1>3, <1>6 DEF m, ch

\* The buffers: an entry stays, moves up, or comes from the head of the wire.
LEMMA BufStep ==
  ASSUME TypeOK, BegunInv, MapInv, Next, NEW q \in Prompts, NEW i \in 1..Len(buf'[q])
  PROVE  \/ \E j \in 1..Len(buf[q]) : buf'[q][i] = buf[q][j]
         \/ \E j \in 1..Len(wire) : /\ wire[j].kind = "event" /\ wire[j].to = runID[q]
                                    /\ buf'[q][i] = wire[j].body
<1>1. ASSUME NEW p \in Prompts, PromptReceive(p)
      PROVE  \E j \in 1..Len(buf[q]) : buf'[q][i] = buf[q][j]
  <2>1. CASE buf'[q] = buf[q]
    BY <2>1
  <2>2. CASE buf[q] # <<>> /\ buf'[q] = Tail(buf[q])
    <3>1. i + 1 \in 1..Len(buf[q]) /\ Tail(buf[q])[i] = buf[q][i + 1]
      <4>1. buf[q] \in Seq(EventTypes) /\ i \in 1..Len(Tail(buf[q]))
        BY <2>2, Shapes
      <4> QED
        BY <2>2, <4>1, HeadOfWire, SMT
    <3> QED
      BY <2>2, <3>1
  <2> QED
    BY <1>1, <2>1, <2>2, ReceiveEffect
<1>2. ASSUME RouteEvent
      PROVE  \/ \E j \in 1..Len(buf[q]) : buf'[q][i] = buf[q][j]
             \/ \E j \in 1..Len(wire) : /\ wire[j].kind = "event" /\ wire[j].to = runID[q]
                                        /\ buf'[q][i] = wire[j].body
  <2> DEFINE m == Head(wire)
  <2>0. /\ wire \in Seq(Message) /\ wire # <<>> /\ m.kind = "event" /\ m.to \in RunIDs /\ m.body \in EventTypes
        /\ \/ buf'[q] = buf[q]
           \/ q = streams[m.to] /\ buf'[q] = Append(buf[q], m.body)
    BY <1>2, RouteEffect
  <2>1. CASE buf'[q] = buf[q]
    BY <2>1
  <2>2. CASE q = streams[m.to] /\ buf'[q] = Append(buf[q], m.body)
    <3>1. m = wire[1] /\ 1 \in 1..Len(wire)
      BY <2>0, HeadOfWire
    <3>2. runID[q] = m.to
      BY <2>0, <2>2, StreamAssumption DEF MapInv
    <3>3. buf'[q][i] = m.body \/ (i \in 1..Len(buf[q]) /\ buf'[q][i] = buf[q][i])
      <4>1. buf[q] \in Seq(EventTypes) /\ i \in 1..Len(Append(buf[q], m.body))
        BY <2>2, Shapes
      <4>2. \/ Append(buf[q], m.body)[i] = m.body
            \/ i \in 1..Len(buf[q]) /\ Append(buf[q], m.body)[i] = buf[q][i]
        BY <2>0, <4>1, AfterAppend, SMT
      <4> QED
        BY <2>2, <4>2
    <3> QED
      BY <2>0, <3>1, <3>2, <3>3
  <2> QED
    BY <2>0, <2>1, <2>2
<1>3. ASSUME buf' = buf PROVE \E j \in 1..Len(buf[q]) : buf'[q][i] = buf[q][j]
  BY <1>3
<1>4. (\E p \in Prompts : PromptReceive(p)) \/ RouteEvent \/ buf' = buf
  BY DEF Next, PromptStep, ReaderStep, PromptSubscribe, PromptSend, PromptCallReturns,
         PromptUnsubscribe, PromptCtxDone, Cancel, RouteReply, ReaderEnd, ReaderCut,
         AgentAccept, AgentEmit, AgentExit, handleVars
<1> QED
  BY <1>1, <1>2, <1>3, <1>4

LEMMA SourceStep == TypeOK /\ BegunInv /\ MapInv /\ SourceInv /\ Next => SourceInv'
<1> SUFFICES ASSUME TypeOK, BegunInv, MapInv, SourceInv, Next PROVE SourceInv'
  OBVIOUS
<1>h. ASSUME NEW r \in RunIDs, NEW t, Has(emitted[r], t) PROVE Has(emitted'[r], t)
  BY <1>h, WroteKept DEF Has
<1>1. ASSUME NEW r \in RunIDs, emitted'[r] # <<>> PROVE \E p \in Prompts : runID'[p] = r
  <2>1. PICK p \in Prompts : runID[p] = r
    BY <1>1, EmittedStep DEF SourceInv
  <2>2. pc[p] # "idle"
    BY <2>1, StreamAssumption DEF BegunInv
  <2> QED
    BY <2>1, <2>2, BegunForGood
<1>2. ASSUME NEW i \in 1..Len(wire'), wire'[i].kind = "event"
      PROVE  Has(emitted'[wire'[i].to], wire'[i].body)
  <2>1. ASSUME NEW j \in 1..Len(wire), wire'[i] = wire[j]
        PROVE  Has(emitted'[wire'[i].to], wire'[i].body)
    <3>1. Has(emitted[wire[j].to], wire[j].body) /\ wire[j].to \in RunIDs
      BY <1>2, <2>1, Shapes, EventTyped DEF SourceInv
    <3> QED
      BY <2>1, <3>1, <1>h
  <2> QED
    BY <1>2, <2>1, WireStep
<1>3. ASSUME NEW q \in Prompts, NEW i \in 1..Len(buf'[q])
      PROVE  Has(emitted'[runID'[q]], buf'[q][i])
  <2>1. pc[q] # "idle" /\ runID'[q] = runID[q] /\ runID[q] \in RunIDs
    <3>1. CASE pc[q] # "idle"
      BY <3>1, BegunForGood DEF BegunInv
    <3>2. CASE pc[q] = "idle"
      <4>1. buf[q] = <<>> /\ runID[q] = None
        BY <3>2 DEF BegunInv
      <4>2. \A j \in 1..Len(buf[q]) : FALSE
        BY <4>1, SMT
      <4>3. \A j \in 1..Len(wire) : wire[j].kind = "event" => wire[j].to # runID[q]
        BY <4>1, Shapes, EventTyped, StreamAssumption
      <4> QED
        BY <4>2, <4>3, BufStep
    <3> QED
      BY <3>1, <3>2
  <2>2. Has(emitted[runID[q]], buf'[q][i])
    <3>1. ASSUME NEW j \in 1..Len(buf[q]), buf'[q][i] = buf[q][j] PROVE Has(emitted[runID[q]], buf'[q][i])
      BY <3>1 DEF SourceInv
    <3>2. ASSUME NEW j \in 1..Len(wire), wire[j].kind = "event", wire[j].to = runID[q],
                 buf'[q][i] = wire[j].body
          PROVE  Has(emitted[runID[q]], buf'[q][i])
      BY <3>2 DEF SourceInv
    <3> QED
      BY <3>1, <3>2, BufStep
  <2> QED
    BY <2>1, <2>2, <1>h
<1> QED
  BY <1>1, <1>2, <1>3 DEF SourceInv

LEMMA OutcomeStep == TypeOK /\ BegunInv /\ SourceInv /\ OutcomeGenuine /\ Next => OutcomeGenuine'
<1> SUFFICES ASSUME TypeOK, BegunInv, SourceInv, OutcomeGenuine, Next,
                    NEW q \in Prompts, state'[q] \in {"completed", "cancelled"}
             PROVE  \E i \in 1..Len(emitted'[runID'[q]]) :
                      /\ emitted'[runID'[q]][i] \in FinalTypes
                      /\ FinalState(emitted'[runID'[q]][i]) = state'[q]
  BY DEF OutcomeGenuine
<1>1. ASSUME NEW p \in Prompts, PromptReceive(p), state'[q] # state[q]
      PROVE  /\ pc[q] # "idle"
             /\ \E i \in 1..Len(emitted[runID[q]]) : /\ emitted[runID[q]][i] \in FinalTypes
                                                     /\ FinalState(emitted[runID[q]][i]) = state'[q]
  <2>1. /\ p = q /\ buf[q] # <<>> /\ pc[q] = "loop"
        /\ Head(buf[q]) \in FinalTypes /\ state'[q] = FinalState(Head(buf[q]))
    BY <1>1, ReceiveEffect
  <2>2. Head(buf[q]) = buf[q][1] /\ 1 \in 1..Len(buf[q])
    BY <2>1, Shapes, HeadOfWire
  <2>3. Has(emitted[runID[q]], Head(buf[q]))
    BY <2>2 DEF SourceInv
  <2> QED
    BY <2>1, <2>3 DEF Has
<1>2. ASSUME state'[q] = state[q]
      PROVE  /\ pc[q] # "idle"
             /\ \E i \in 1..Len(emitted[runID[q]]) : /\ emitted[runID[q]][i] \in FinalTypes
                                                     /\ FinalState(emitted[runID[q]][i]) = state'[q]
  BY <1>2 DEF BegunInv, OutcomeGenuine
<1>3. (\E p \in Prompts : PromptReceive(p)) \/ state'[q] = state[q]
  <2>1. ASSUME NEW p \in Prompts, PromptFails(p) PROVE state'[q] = state[q]
    <3>1. state'[q] = IF q = p THEN "failed" ELSE state[q]
      BY <2>1, Shapes DEF PromptFails
    <3> QED
      BY <3>1
  <2>2. \/ \E p \in Prompts : PromptReceive(p)
        \/ \E p \in Prompts : PromptFails(p)
        \/ state' = state
    BY DEF Next, PromptStep, ReaderStep, PromptSubscribe, PromptSend, PromptCallReturns,
           PromptUnsubscribe, PromptCtxDone, Cancel, RouteEvent, RouteReply, ReaderEnd, ReaderCut,
           AgentAccept, AgentEmit, AgentExit, rpcVars
  <2> QED
    BY <2>1, <2>2
<1>4. PICK i \in 1..Len(emitted[runID[q]]) : /\ emitted[runID[q]][i] \in FinalTypes
                                             /\ FinalState(emitted[runID[q]][i]) = state'[q]
  BY <1>1, <1>2, <1>3
<1>5. pc[q] # "idle"
  BY <1>1, <1>2, <1>3
<1>6. runID'[q] = runID[q] /\ runID[q] \in RunIDs
  BY <1>5, BegunForGood DEF BegunInv
<1>7. i \in 1..Len(emitted'[runID[q]]) /\ emitted'[runID[q]][i] = emitted[runID[q]][i]
  BY <1>6, WroteKept
<1> QED
  BY <1>4, <1>6, <1>7

\* A Prompt that has left its loop never comes back to it.
LEMMA LeftForGood ==
  ASSUME TypeOK, Next, NEW q \in Prompts
  PROVE  /\ pc[q] = "done" => pc'[q] = "done"
         /\ pc[q] = "unsubscribe" => pc'[q] \in {"unsubscribe", "done"}
<1>1. ASSUME NEW p \in Prompts, NEW r \in RunIDs, PromptSubscribe(p, r), pc[q] # "idle" PROVE pc'[q] = pc[q]
  BY <1>1, Shapes DEF PromptSubscribe
<1>2. ASSUME NEW p \in Prompts, PromptSend(p) \/ PromptCallReturns(p) \/ PromptReceive(p) \/ PromptCtxDone(p),
             pc[q] \in {"unsubscribe", "done"}
      PROVE  pc'[q] = pc[q]
  <2>1. p # q
    BY <1>2 DEF PromptSend, PromptCallReturns, PromptReceive, PromptCtxDone
  <2> QED
    BY <1>2, <2>1, Shapes DEF PromptSend, PromptCallReturns, PromptReceive, PromptCtxDone, PromptFails
<1>3. ASSUME NEW p \in Prompts, PromptUnsubscribe(p) PROVE pc'[q] = pc[q] \/ pc'[q] = "done"
  BY <1>3, Shapes DEF PromptUnsubscribe
<1>4. \/ \E p \in Prompts, r \in RunIDs : PromptSubscribe(p, r)
      \/ \E p \in Prompts : PromptSend(p) \/ PromptCallReturns(p) \/ PromptReceive(p) \/ PromptCtxDone(p)
      \/ \E p \in Prompts : PromptUnsubscribe(p)
      \/ pc' = pc
  BY DEF Next, PromptStep, ReaderStep, Cancel, RouteEvent, RouteReply, ReaderEnd, ReaderCut,
         AgentAccept, AgentEmit, AgentExit, rpcVars
<1> QED
  BY <1>1, <1>2, <1>3, <1>4

LEMMA MineStep == TypeOK /\ BegunInv /\ MapInv /\ ChannelIsMine /\ Next => ChannelIsMine'
<1> SUFFICES ASSUME TypeOK, BegunInv, MapInv, ChannelIsMine, Next, NEW q \in Prompts,
                    Unshared(q)', pc'[q] \in Subscribed
             PROVE  /\ chan'[q] = "open" /\ streams'[runID'[q]] = q
                    /\ \A i \in 1..Len(delivered'[q]) : delivered'[q][i] # ""
  BY DEF ChannelIsMine, Subscribed
<1>1. /\ runID'[q] \in RunIDs
      /\ \A x \in Prompts \ {q} : runID[x] # runID'[q]
      /\ pc[q] # "idle" => runID'[q] = runID[q] /\ Unshared(q)
  BY UnsharedBefore DEF Subscribed
<1>2. CASE pc[q] = "idle"
  <2>1. PICK r \in RunIDs : PromptSubscribe(q, r)
    <3>1. ASSUME NEW p \in Prompts, NEW r \in RunIDs, PromptSubscribe(p, r), p # q PROVE FALSE
      <4>1. pc'[q] = pc[q]
        BY <3>1, Shapes DEF PromptSubscribe
      <4> QED
        BY <1>2, <4>1 DEF Subscribed
    <3>2. ASSUME NEW p \in Prompts, PromptStep(p) \/ PromptCtxDone(p) PROVE FALSE
      <4>1. p # q
        BY <1>2, <3>2 DEF PromptStep, PromptSend, PromptCallReturns, PromptReceive, PromptUnsubscribe,
                          PromptCtxDone
      <4>2. pc'[q] = pc[q]
        BY <3>2, <4>1, Shapes DEF PromptStep, PromptSend, PromptCallReturns, PromptReceive,
                          PromptUnsubscribe, PromptCtxDone, PromptFails
      <4> QED
        BY <1>2, <4>2 DEF Subscribed
    <3>3. ASSUME pc' = pc PROVE FALSE
      BY <1>2, <3>3 DEF Subscribed
    <3> QED
      BY <3>1, <3>2, <3>3
      DEF Next, ReaderStep, Cancel, RouteEvent, RouteReply, ReaderEnd, ReaderCut,
          AgentAccept, AgentEmit, AgentExit, rpcVars
  <2>2. chan'[q] = "open" /\ streams'[r] = q /\ runID'[q] = r /\ delivered'[q] = delivered[q]
    BY <2>1, Shapes DEF PromptSubscribe
  <2>3. delivered[q] = <<>>
    BY <1>2 DEF BegunInv
  <2>4. \A i \in 1..Len(delivered'[q]) : FALSE
    BY <2>2, <2>3, SMT
  <2> QED
    BY <2>2, <2>4
<1>3. CASE pc[q] # "idle"
  <2>1. runID'[q] = runID[q] /\ Unshared(q)
    BY <1>1, <1>3
  <2>2. pc[q] \in Subscribed
    <3>1. pc[q] # "done"
      BY LeftForGood DEF Subscribed
    <3> QED
      BY <1>3, <3>1 DEF TypeOK, Subscribed
  <2>3. /\ chan[q] = "open" /\ streams[runID[q]] = q
        /\ \A i \in 1..Len(delivered[q]) : delivered[q][i] # ""
    BY <2>1, <2>2 DEF ChannelIsMine, Subscribed
  <2>4. chan'[q] = "open" /\ streams'[runID[q]] = q
    <3>1. ASSUME NEW p \in Prompts, NEW r \in RunIDs, PromptSubscribe(p, r)
          PROVE  chan'[q] = "open" /\ streams'[runID[q]] = q
      <4>1. p # q /\ runID'[p] = r
        BY <1>3, <3>1, Shapes DEF PromptSubscribe
      <4>2. r # runID[q]
        BY <4>1, <2>1 DEF Unshared
      <4> QED
        BY <3>1, <4>1, <4>2, <1>1, <2>1, <2>3, Shapes DEF PromptSubscribe
    <3>2. ASSUME NEW p \in Prompts, PromptUnsubscribe(p)
          PROVE  chan'[q] = "open" /\ streams'[runID[q]] = q
      <4>1. pc'[p] = "done"
        BY <3>2, Shapes DEF PromptUnsubscribe
      <4>2. p # q /\ runID[p] # runID[q]
        BY <4>1, <2>1 DEF Unshared, Subscribed
      <4>3. runID[p] \in RunIDs
        BY <3>2 DEF PromptUnsubscribe, BegunInv
      <4>4. streams[runID[p]] # q
        BY <4>2, <4>3, StreamAssumption DEF MapInv
      <4>5. /\ streams' = [streams EXCEPT ![runID[p]] = None]
            /\ \/ chan' = chan
               \/ chan' = [chan EXCEPT ![streams[runID[p]]] = "closed"]
        BY <3>2 DEF PromptUnsubscribe
      <4>6. streams'[runID[q]] = streams[runID[q]] /\ chan'[q] = chan[q]
        BY <4>2, <4>4, <4>5, <1>1, <2>1, Shapes
      <4> QED
        BY <4>6, <2>3
    <3>3. ASSUME UNCHANGED <<streams, chan, runID>>
          PROVE  chan'[q] = "open" /\ streams'[runID[q]] = q
      BY <3>3, <2>3
    <3> QED
      BY <3>1, <3>2, <3>3, MapFrame
  <2>5. \A i \in 1..Len(delivered'[q]) : delivered'[q][i] # ""
    <3>1. ASSUME NEW p \in Prompts, PromptReceive(p), delivered'[q] # delivered[q]
          PROVE  \A i \in 1..Len(delivered'[q]) : delivered'[q][i] # ""
      <4>1. /\ p = q /\ Head(buf[q]) \in EventTypes
            /\ delivered'[q] = Append(delivered[q], Head(buf[q]))
        BY <3>1, <2>3, ReceiveEffect
      <4>2. delivered[q] \in Seq(EventTypes \cup {""}) /\ Head(buf[q]) \in EventTypes \cup {""}
        BY <4>1, Shapes
      <4>3. \A i \in 1..Len(Append(delivered[q], Head(buf[q]))) :
              \/ Append(delivered[q], Head(buf[q]))[i] = Head(buf[q])
              \/ i \in 1..Len(delivered[q]) /\ Append(delivered[q], Head(buf[q]))[i] = delivered[q][i]
        <5> DEFINE T == EventTypes \cup {""}
                   h == Head(buf[q])
                   d == delivered[q]
        <5>1. d \in Seq(T) /\ h \in T
          BY <4>2
        <5> HIDE DEF T, h, d
        <5>2. \A i \in 1..Len(Append(d, h)) :
                Append(d, h)[i] = h \/ (i \in 1..Len(d) /\ Append(d, h)[i] = d[i])
          BY <5>1, AfterAppend, SMT
        <5> QED
          BY <5>2 DEF h, d
      <4>4. Head(buf[q]) # ""
        BY <4>1 DEF EventTypes, FinalTypes
      <4> QED
        BY <4>1, <4>3, <4>4, <2>3
    <3>2. (\E p \in Prompts : PromptReceive(p)) \/ delivered' = delivered
      BY DEF Next, PromptStep, ReaderStep, PromptSubscribe, PromptSend, PromptCallReturns,
             PromptUnsubscribe, PromptCtxDone, Cancel, RouteEvent, RouteReply, ReaderEnd, ReaderCut,
             AgentAccept, AgentEmit, AgentExit, rpcVars
    <3> QED
      BY <3>1, <3>2, <2>3
  <2> QED
    BY <2>1, <2>4, <2>5
<1> QED
  BY <1>2, <1>3

\* Where a sequence is cut in two does not matter to the whole.
LEMMA Regroup ==
  ASSUME NEW T, NEW d \in Seq(T), NEW b \in Seq(T), b # <<>>
  PROVE  Append(d, Head(b)) \o Tail(b) = d \o b
<1>1. /\ Head(b) \in T /\ Tail(b) \in Seq(T) /\ Len(b) \in Nat \ {0} /\ Len(d) \in Nat
      /\ Head(b) = b[1] /\ Len(Tail(b)) = Len(b) - 1
      /\ \A i \in 1..Len(b) - 1 : Tail(b)[i] = b[i + 1]
  BY HeadOfWire, LenProperties, HeadTailProperties
<1> QED
  BY <1>1, SMT

LEMMA AppendRight ==
  ASSUME NEW T, NEW d \in Seq(T), NEW b \in Seq(T), NEW x \in T
  PROVE  d \o Append(b, x) = Append(d \o b, x)
BY SMT

\* The events of an unshared Prompt are accounted for by every step.
LEMMA AccountStep ==
  TypeOK /\ BegunInv /\ MapInv /\ SourceInv /\ ChannelIsMine /\ AccountInv /\ Next => AccountInv'
<1> DEFINE Waiting == {"subscribed", "call", "loop"}
           T == EventTypes \cup {""}
<1> SUFFICES ASSUME TypeOK, BegunInv, MapInv, SourceInv, ChannelIsMine, AccountInv, Next,
                    NEW q \in Prompts, Unshared(q)', pc'[q] \in Waiting, q \notin dropped', reader' # "cut"
             PROVE  Completes(delivered'[q] \o buf'[q], wire', runID'[q], emitted'[runID'[q]])
  BY DEF AccountInv
<1>1. /\ runID'[q] \in RunIDs
      /\ \A x \in Prompts \ {q} : runID[x] # runID'[q]
      /\ pc[q] # "idle" => runID'[q] = runID[q] /\ Unshared(q)
  BY UnsharedBefore
<1>2. CASE pc[q] = "idle"
  <2> DEFINE r == runID'[q]
  <2>1. /\ runID[q] = None /\ delivered[q] = <<>> /\ buf[q] = <<>>
    BY <1>2 DEF BegunInv
  <2>2. \A x \in Prompts : runID[x] # r
    BY <1>1, <2>1, StreamAssumption
  <2>3. emitted[r] = <<>>
    BY <1>1, <2>2 DEF SourceInv
  <2>4. UNCHANGED <<delivered, buf, wire, emitted>>
    <3>1. ASSUME NEW p \in Prompts, NEW s \in RunIDs, PromptSubscribe(p, s)
          PROVE  UNCHANGED <<delivered, buf, wire, emitted>>
      BY <3>1 DEF PromptSubscribe, agentVars
    <3>2. ASSUME runID' = runID PROVE FALSE
      BY <3>2, <1>1, <2>1, StreamAssumption
    <3> QED
      BY <3>1, <3>2
      DEF Next, PromptStep, ReaderStep, PromptSend, PromptCallReturns, PromptReceive, PromptUnsubscribe,
          PromptCtxDone, Cancel, RouteEvent, RouteReply, ReaderEnd, ReaderCut,
          AgentAccept, AgentEmit, AgentExit, rpcVars
  <2>5. EventsAt(wire, r) = {}
    <3> SUFFICES ASSUME NEW i \in 1..Len(wire), wire[i].kind = "event", wire[i].to = r PROVE FALSE
      BY DEF EventsAt
    <3>1. Has(emitted[r], wire[i].body)
      BY DEF SourceInv
    <3>2. \A k \in 1..Len(emitted[r]) : FALSE
      BY <2>3, SMT
    <3> QED
      BY <3>1, <3>2 DEF Has
  <2>6. <<>> \o <<>> = <<>>
    BY SMT
  <2>7. Completes(<<>>, wire, r, <<>>)
    BY <2>5, CompletesNothing
  <2> QED
    BY <2>1, <2>3, <2>4, <2>6, <2>7
<1>3. CASE pc[q] # "idle"
  <2> DEFINE r == runID[q]
             d == delivered[q]
             b == buf[q]
             e == emitted[r]
             s == d \o b
  <2>1. runID'[q] = r /\ Unshared(q) /\ r \in RunIDs
    BY <1>1, <1>3
  <2>2. pc[q] \in Waiting
    BY <1>3, LeftForGood DEF TypeOK
  <2>3. chan[q] = "open" /\ streams[r] = q
    BY <2>1, <2>2 DEF ChannelIsMine
  <2>4. q \notin dropped /\ reader # "cut"
    <3>1. dropped \subseteq dropped'
      BY DEF Next, PromptStep, ReaderStep, PromptSubscribe, PromptSend, PromptCallReturns, PromptReceive,
             PromptUnsubscribe, PromptCtxDone, Cancel, RouteEvent, RouteReply, ReaderEnd, ReaderCut,
             AgentAccept, AgentEmit, AgentExit, handleVars
    <3>2. reader = "cut" => reader' = "cut"
      BY DEF Next, PromptStep, ReaderStep, PromptSubscribe, PromptSend, PromptCallReturns, PromptReceive,
             PromptUnsubscribe, PromptCtxDone, Cancel, RouteEvent, RouteReply, ReaderEnd, ReaderCut,
             AgentAccept, AgentEmit, AgentExit
    <3> QED
      BY <3>1, <3>2
  <2>5. Completes(s, wire, r, e)
    BY <2>1, <2>2, <2>4 DEF AccountInv
  <2>6. d \in Seq(T) /\ b \in Seq(T) /\ b \in Seq(EventTypes) /\ e \in Seq(EventTypes) /\ wire \in Seq(Message)
    <3>1. EventTypes \subseteq T
      OBVIOUS
    <3>2. d \in Seq(T) /\ b \in Seq(EventTypes) /\ e \in Seq(EventTypes) /\ wire \in Seq(Message)
      BY <2>1, Shapes
    <3> QED
      BY <3>1, <3>2, SeqMonotonic
  <2>7. s \in Seq(T)
    BY <2>6, ConcatProperties
  <2>8. ASSUME delivered'[q] = d, b = buf'[q], wire' = wire, emitted'[r] = e
        PROVE  Completes(delivered'[q] \o buf'[q], wire', r, emitted'[r])
    BY <2>5, <2>8
  <2>9. ASSUME NEW p \in Prompts, PromptReceive(p)
        PROVE  Completes(delivered'[q] \o buf'[q], wire', r, emitted'[r])
    <3>1. wire' = wire /\ emitted' = emitted
      BY <2>9, ReceiveEffect
    <3>2. CASE p # q
      BY <2>8, <2>9, <3>1, <3>2, ReceiveEffect
    <3>3. CASE p = q
      <4>1. b # <<>> /\ buf'[q] = Tail(b) /\ delivered'[q] = Append(d, Head(b))
        BY <2>3, <2>9, <3>3, ReceiveEffect
      <4>2. Append(d, Head(b)) \o Tail(b) = s
        BY <2>6, <4>1, Regroup
      <4> QED
        BY <2>5, <3>1, <4>1, <4>2
    <3> QED
      BY <3>2, <3>3
  <2>10. ASSUME RouteEvent
         PROVE  Completes(delivered'[q] \o buf'[q], wire', r, emitted'[r])
    <3> DEFINE m == Head(wire)
    <3>1. /\ wire # <<>> /\ wire' = Tail(wire) /\ m.kind = "event" /\ m.to \in RunIDs /\ m.body \in EventTypes
          /\ \/ buf'[q] = b /\ q # streams[m.to]
             \/ q = streams[m.to] /\ buf'[q] = Append(b, m.body)
          /\ delivered' = delivered /\ emitted' = emitted
      BY <2>10, RouteEffect
    <3>2. CASE m.to = r
      <4>1. buf'[q] = Append(b, m.body) /\ m.body \in T
        BY <2>3, <3>1, <3>2
      <4>2. d \o Append(b, m.body) = Append(s, m.body)
        <5> HIDE DEF T, d, b
        <5>1. ASSUME NEW x \in T PROVE d \o Append(b, x) = Append(d \o b, x)
          BY <2>6, AppendRight, SMT
        <5> QED
          BY <4>1, <5>1
      <4>3. Completes(Append(s, m.body), Tail(wire), r, e)
        BY <2>5, <2>6, <2>7, <3>1, <3>2, <4>1, CompletesTake
      <4> QED
        BY <3>1, <4>1, <4>2, <4>3
    <3>3. CASE m.to # r
      <4>1. q # streams[m.to]
        BY <3>1, <3>3, StreamAssumption, ZenonT(40) DEF MapInv
      <4>2. Completes(s, Tail(wire), r, e)
        BY <2>5, <2>6, <2>7, <3>1, <3>3, CompletesSkip
      <4> QED
        BY <3>1, <4>1, <4>2
    <3> QED
      BY <3>2, <3>3
  <2>11. ASSUME RouteReply
         PROVE  Completes(delivered'[q] \o buf'[q], wire', r, emitted'[r])
    <3>1. /\ wire # <<>> /\ wire' = Tail(wire) /\ Head(wire).kind = "reply"
          /\ delivered' = delivered /\ emitted' = emitted /\ buf' = buf
      BY <2>11 DEF RouteReply, rpcVars, handleVars, agentVars
    <3>2. Completes(s, Tail(wire), r, e)
      BY <2>5, <2>6, <2>7, <3>1, CompletesSkip
    <3> QED
      BY <3>1, <3>2
  <2>12. ASSUME NEW ok \in {"ok", "error"}, AgentAccept(ok)
         PROVE  Completes(delivered'[q] \o buf'[q], wire', r, emitted'[r])
    <3> DEFINE m == [kind |-> "reply", to |-> Head(stdin), body |-> ok]
    <3>1. /\ wire' = Append(wire, m)
          /\ delivered' = delivered /\ emitted' = emitted /\ buf' = buf
      BY <2>4, <2>12 DEF AgentAccept, Write, rpcVars, handleVars
    <3>2. Head(stdin) \in Prompts
      BY <2>12, HeadOfWire, Shapes DEF AgentAccept
    <3>3. m \in Message /\ m.kind = "reply"
      BY <3>2, SMT DEF Message
    <3> HIDE DEF m
    <3>4. Completes(s, Append(wire, m), r, e)
      BY <2>5, <2>6, <2>7, <3>3, CompletesOther
    <3> QED
      BY <3>1, <3>4
  <2>13. ASSUME NEW p \in Prompts, NEW t \in EventTypes, AgentEmit(p, t)
         PROVE  Completes(delivered'[q] \o buf'[q], wire', r, emitted'[r])
    <3> DEFINE m == [kind |-> "event", to |-> runID[p], body |-> t]
    <3>1. /\ wire' = Append(wire, m) /\ emitted' = [emitted EXCEPT ![runID[p]] = Append(@, t)]
          /\ delivered' = delivered /\ buf' = buf
      BY <2>4, <2>13 DEF AgentEmit, Write, rpcVars, handleVars
    <3>2. runID[p] \in RunIDs
      BY <2>13 DEF AgentEmit, BegunInv
    <3>3. m \in Message /\ m.kind = "event" /\ m.to = runID[p] /\ m.body = t
      BY <3>2, SMT DEF Message
    <3>4. emitted'[r] = IF runID[p] = r THEN Append(e, t) ELSE e
      BY <2>1, <3>1, <3>2, Shapes
    <3> HIDE DEF m
    <3>5. CASE runID[p] = r
      <4>1. Completes(s, Append(wire, m), r, Append(e, m.body))
        BY <2>5, <2>6, <2>7, <3>3, <3>5, CompletesWrite
      <4> QED
        BY <3>1, <3>3, <3>4, <3>5, <4>1
    <3>6. CASE runID[p] # r
      <4>1. Completes(s, Append(wire, m), r, e)
        BY <2>5, <2>6, <2>7, <3>3, <3>6, CompletesOther
      <4> QED
        BY <3>1, <3>4, <3>6, <4>1
    <3> QED
      BY <3>5, <3>6
  <2>14. \/ \E p \in Prompts : PromptReceive(p)
         \/ RouteEvent
         \/ RouteReply
         \/ \E ok \in {"ok", "error"} : AgentAccept(ok)
         \/ \E p \in Prompts, t \in EventTypes : AgentEmit(p, t)
         \/ reader' = "cut"
         \/ UNCHANGED <<delivered, buf, wire, emitted>>
    BY DEF Next, PromptStep, ReaderStep, PromptSubscribe, PromptSend, PromptCallReturns,
           PromptUnsubscribe, PromptCtxDone, Cancel, ReaderEnd, ReaderCut, AgentExit,
           rpcVars, handleVars, agentVars
  <2>15. ASSUME UNCHANGED <<delivered, buf, wire, emitted>>
         PROVE  Completes(delivered'[q] \o buf'[q], wire', r, emitted'[r])
    BY <2>8, <2>15
  <2> QED
    BY <2>1, <2>9, <2>10, <2>11, <2>12, <2>13, <2>14, <2>15
<1> QED
  BY <1>2, <1>3

-----------------------------------------------------------------------------
(* The theorems of PromptStream                                            *)

LEMMA StreamInit == Init => StreamInv
<1> SUFFICES ASSUME Init PROVE StreamInv
  OBVIOUS
<1> USE DEF Init
<1>0. \A S : <<>> \in Seq(S)
  BY EmptySeq
<1>1. TypeOK
  BY <1>0, StreamAssumption, SMT DEF TypeOK, RunStates
<1>2. \A i \in 1..Len(<<>>) : FALSE
  BY SMT
<1>3. BegunInv /\ MapInv /\ SourceInv
  BY <1>2, SMT DEF BegunInv, MapInv, SourceInv, Has
<1>4. ChannelIsMine /\ AccountInv /\ OutcomeGenuine
  BY SMT DEF ChannelIsMine, AccountInv, OutcomeGenuine
<1> QED
  BY <1>1, <1>3, <1>4 DEF StreamInv

LEMMA StreamStutter == StreamInv /\ UNCHANGED vars => StreamInv'
<1> SUFFICES ASSUME StreamInv, UNCHANGED vars PROVE StreamInv'
  OBVIOUS
<1>1. /\ pc' = pc /\ runID' = runID /\ state' = state /\ delivered' = delivered /\ answer' = answer
      /\ chan' = chan /\ buf' = buf /\ streams' = streams /\ dropped' = dropped /\ stdin' = stdin
      /\ wire' = wire /\ reader' = reader /\ proc' = proc /\ active' = active /\ stopping' = stopping
      /\ emitted' = emitted
  BY DEF vars
<1>2. TypeOK'
  BY <1>1 DEF StreamInv, TypeOK
<1>3. BegunInv' /\ MapInv' /\ SourceInv'
  BY <1>1 DEF StreamInv, BegunInv, MapInv, SourceInv
<1>4. ChannelIsMine' /\ AccountInv' /\ OutcomeGenuine'
  <2>1. ChannelIsMine'
    BY <1>1 DEF StreamInv, ChannelIsMine, Unshared
  <2>2. AccountInv'
    BY <1>1, ZenonT(40) DEF StreamInv, AccountInv, Unshared
  <2>3. OutcomeGenuine'
    BY <1>1 DEF StreamInv, OutcomeGenuine, Unshared
  <2> QED
    BY <2>1, <2>2, <2>3
<1> QED
  BY <1>2, <1>3, <1>4 DEF StreamInv

LEMMA StreamInvariant == Spec => []StreamInv
<1>1. StreamInv /\ Next => StreamInv'
  BY TypeStep, BegunStep, MapStep, SourceStep, MineStep, AccountStep, OutcomeStep DEF StreamInv
<1>2. StreamInv /\ [Next]_vars => StreamInv'
  BY <1>1, StreamStutter
<1> QED
  BY StreamInit, <1>2, PTL DEF Spec

-----------------------------------------------------------------------------
(* What holds of the stream                                                 *)

\* The variables of the supervisor's Prompt and of the agent's connection keep
\* their types: Manager.Prompt and acp.Client never leave the states the model has
\* for them.
THEOREM StreamTyped == Spec => []TypeOK
<1>1. StreamInv => TypeOK
  BY DEF StreamInv
<1> QED
  BY <1>1, StreamInvariant, PTL

\* Manager.streams never holds a closed channel, whoever unsubscribed last and in
\* whatever order the Prompts of a run ID came: the router cannot send on one.
THEOREM StreamChannelsOpen == Spec => []MappedChannelsOpen
<1>1. StreamInv => MappedChannelsOpen
  BY DEF StreamInv, MapInv, MappedChannelsOpen
<1> QED
  BY <1>1, StreamInvariant, PTL

\* A Prompt whose run ID no other Prompt uses keeps its channel in the map for as
\* long as it is subscribed.
THEOREM StreamChannelMine == Spec => []ChannelIsMine
<1>1. StreamInv => ChannelIsMine
  BY DEF StreamInv
<1> QED
  BY <1>1, StreamInvariant, PTL

\* Unless its buffer overflowed or the connection was cut, a Prompt whose run ID no
\* other Prompt uses has been given, in order, all that the agent wrote for it, or
\* will be when it has read its channel and the router has read the wire.
THEOREM StreamLosesNothing == Spec => []NoEventLost
<1>1. StreamInv => NoEventLost
  BY DEF StreamInv, AccountInv, NoEventLost
<1> QED
  BY <1>1, StreamInvariant, PTL

\* Manager.Prompt reports a run as completed or cancelled only after the agent wrote
\* an event saying so for that run ID.
THEOREM StreamOutcomeGenuine == Spec => []OutcomeGenuine
<1>1. StreamInv => OutcomeGenuine
  BY DEF StreamInv
<1> QED
  BY <1>1, StreamInvariant, PTL

-----------------------------------------------------------------------------
(* The end of a run on its way to the caller                                *)

\* A Prompt has not been given a final event before it leaves its loop.
LoopInv ==
  \A p \in Prompts : pc[p] \notin {"unsubscribe", "done"} =>
    \A k \in 1..Len(delivered[p]) : delivered[p][k] \notin FinalTypes

\* A readLoop that ended on the end of the output left nothing behind.
ReaderInv == reader = "drained" => proc = "exited" /\ wire = <<>>

LEMMA LoopStep == TypeOK /\ LoopInv /\ Next => LoopInv'
<1> SUFFICES ASSUME TypeOK, LoopInv, Next,
                    NEW q \in Prompts, pc'[q] \notin {"unsubscribe", "done"},
                    NEW k \in 1..Len(delivered'[q])
             PROVE  delivered'[q][k] \notin FinalTypes
  BY DEF LoopInv
<1>1. pc[q] \notin {"unsubscribe", "done"}
  BY LeftForGood
<1>2. ASSUME NEW p \in Prompts, PromptReceive(p) PROVE delivered'[q][k] \notin FinalTypes
  <2> DEFINE t == IF buf[p] # <<>> THEN Head(buf[p]) ELSE ""
  <2>1. /\ delivered' = [delivered EXCEPT ![p] = Append(@, t)]
        /\ pc' = [pc EXCEPT ![p] = IF t \in FinalTypes THEN "unsubscribe" ELSE @]
    BY <1>2 DEF PromptReceive
  <2>2. t \in EventTypes \cup {""}
    BY HeadOfWire, Shapes
  <2> HIDE DEF t
  <2>3. CASE p # q
    BY <2>1, <2>3, <1>1, Shapes DEF LoopInv
  <2>4. CASE p = q
    <3>1. delivered'[q] = Append(delivered[q], t) /\ t \notin FinalTypes
      BY <2>1, <2>4, Shapes
    <3>2. delivered'[q][k] = t \/ (k \in 1..Len(delivered[q]) /\ delivered'[q][k] = delivered[q][k])
      <4> DEFINE T == EventTypes \cup {""}
                 d == delivered[q]
      <4>1. d \in Seq(T) /\ t \in T /\ k \in 1..Len(Append(d, t))
        BY <3>1, <2>2, Shapes
      <4> HIDE DEF T, d
      <4>2. Append(d, t)[k] = t \/ (k \in 1..Len(d) /\ Append(d, t)[k] = d[k])
        BY <4>1, AfterAppend, SMT
      <4> QED
        BY <3>1, <4>2 DEF d
    <3> QED
      BY <3>1, <3>2, <1>1 DEF LoopInv
  <2> QED
    BY <2>3, <2>4
<1>3. (\E p \in Prompts : PromptReceive(p)) \/ delivered' = delivered
  BY DEF Next, PromptStep, ReaderStep, PromptSubscribe, PromptSend, PromptCallReturns,
         PromptUnsubscribe, PromptCtxDone, Cancel, RouteEvent, RouteReply, ReaderEnd, ReaderCut,
         AgentAccept, AgentEmit, AgentExit, rpcVars
<1>4. ASSUME delivered' = delivered PROVE delivered'[q][k] \notin FinalTypes
  BY <1>1, <1>4 DEF LoopInv
<1> QED
  BY <1>2, <1>3, <1>4

LEMMA ReaderInvStep == ReaderInv /\ Next => ReaderInv'
<1> SUFFICES ASSUME ReaderInv, Next, reader' = "drained" PROVE proc' = "exited" /\ wire' = <<>>
  BY DEF ReaderInv
<1>1. CASE reader # "drained"
  <2>1. ReaderEnd
    BY <1>1 DEF Next, PromptStep, ReaderStep, PromptSubscribe, PromptSend, PromptCallReturns,
         PromptReceive, PromptUnsubscribe, PromptCtxDone, Cancel, RouteEvent, RouteReply, ReaderCut,
         AgentAccept, AgentEmit, AgentExit
  <2> QED
    BY <2>1 DEF ReaderEnd, agentVars
<1>2. CASE reader = "drained"
  <2>1. proc = "exited" /\ wire = <<>>
    BY <1>2 DEF ReaderInv
  <2>2. UNCHANGED <<proc, wire>>
    BY <1>2, <2>1 DEF Next, PromptStep, ReaderStep, PromptSubscribe, PromptSend, PromptCallReturns,
         PromptReceive, PromptUnsubscribe, PromptCtxDone, Cancel, RouteEvent, RouteReply, ReaderEnd,
         ReaderCut, AgentAccept, AgentEmit, AgentExit, agentVars
  <2> QED
    BY <2>1, <2>2
<1> QED
  BY <1>1, <1>2

\* What the agent wrote last for a run is not behind its Prompt: a final event that
\* has been written is in the channel, or in the output with the readLoop at work.
FinalComing ==
  \A p \in Prompts :
    /\ pc[p] = "loop" /\ Unshared(p) /\ p \notin dropped /\ reader # "cut"
    /\ \E i \in 1..Len(emitted[runID[p]]) : emitted[runID[p]][i] \in FinalTypes
    => \/ \E k \in 1..Len(buf[p]) : buf[p][k] \in FinalTypes
       \/ reader = "run" /\ \E i \in EventsAt(wire, runID[p]) : wire[i].body \in FinalTypes

\* An entry of two sequences one after the other.
LEMMA EntryOfBoth ==
  ASSUME NEW S, NEW s \in Seq(S), NEW t \in Seq(S), NEW k \in 1..Len(s \o t)
  PROVE  \/ k \in 1..Len(s) /\ (s \o t)[k] = s[k]
         \/ k - Len(s) \in 1..Len(t) /\ (s \o t)[k] = t[k - Len(s)]
<1>1. /\ Len(s \o t) = Len(s) + Len(t)
      /\ \A i \in 1..Len(s) + Len(t) : (s \o t)[i] = IF i <= Len(s) THEN s[i] ELSE t[i - Len(s)]
  BY ConcatProperties
<1>2. Len(s) \in Nat /\ Len(t) \in Nat
  BY LenProperties
<1> QED
  BY <1>1, <1>2, SMT

LEMMA FinalStillComing == StreamInv /\ LoopInv /\ ReaderInv => FinalComing
<1> SUFFICES ASSUME StreamInv, LoopInv, ReaderInv, NEW p \in Prompts,
                    pc[p] = "loop", Unshared(p), p \notin dropped, reader # "cut",
                    NEW i \in 1..Len(emitted[runID[p]]), emitted[runID[p]][i] \in FinalTypes
             PROVE  \/ \E k \in 1..Len(buf[p]) : buf[p][k] \in FinalTypes
                    \/ reader = "run" /\ \E j \in EventsAt(wire, runID[p]) : wire[j].body \in FinalTypes
  BY DEF FinalComing
<1> DEFINE d == delivered[p]
           b == buf[p]
           e == emitted[runID[p]]
           T == EventTypes \cup {""}
<1>1. TypeOK /\ d \in Seq(T) /\ b \in Seq(T)
  <2>1. TypeOK
    BY DEF StreamInv
  <2>2. d \in Seq(T) /\ b \in Seq(EventTypes)
    BY <2>1, Shapes
  <2>3. EventTypes \subseteq T
    OBVIOUS
  <2> QED
    BY <2>1, <2>2, <2>3, SeqMonotonic
<1>2. Completes(d \o b, wire, runID[p], e)
  BY DEF StreamInv, AccountInv
<1>3. CASE i \in 1..Len(d \o b)
  <2>1. (d \o b)[i] = e[i]
    BY <1>2, <1>3 DEF Completes
  <2>2. \/ i \in 1..Len(d) /\ (d \o b)[i] = d[i]
        \/ i - Len(d) \in 1..Len(b) /\ (d \o b)[i] = b[i - Len(d)]
    BY <1>1, <1>3, EntryOfBoth
  <2>3. i \in 1..Len(d) => d[i] \notin FinalTypes
    BY DEF LoopInv
  <2> QED
    BY <2>1, <2>2, <2>3
<1>4. CASE i \notin 1..Len(d \o b)
  <2>1. i \in Len(d \o b) + 1 .. Len(e)
    <3>1. Len(d \o b) \in Nat /\ i \in 1..Len(e)
      BY <1>1, ConcatProperties, LenProperties
    <3> HIDE DEF d, b, e
    <3> QED
      BY <3>1, <1>4, SMT
  <2>2. PICK at \in [Len(d \o b) + 1 .. Len(e) -> EventsAt(wire, runID[p])] :
               \A k \in Len(d \o b) + 1 .. Len(e) : wire[at[k]].body = e[k]
    BY <1>2 DEF Completes
  <2>3. at[i] \in EventsAt(wire, runID[p]) /\ wire[at[i]].body \in FinalTypes
    BY <2>1, <2>2
  <2>4. wire # <<>>
    <3>1. at[i] \in 1..Len(wire)
      BY <2>3 DEF EventsAt
    <3>2. \A k \in 1..Len(<<>>) : FALSE
      BY SMT
    <3> QED
      BY <3>1, <3>2
  <2>5. reader = "run"
    BY <2>4, <1>1 DEF ReaderInv, TypeOK
  <2> QED
    BY <2>3, <2>5
<1> QED
  BY <1>3, <1>4

\* Once the agent has reported the end of a run, the report is in the Prompt's
\* channel or in the agent's output with the readLoop still at work, until the Prompt
\* has left its loop: an agent that exits right after its last event, and the failAll
\* that follows, take nothing away.  This is what FinalReachesCaller needs besides
\* the scheduler.
THEOREM StreamEndComing == Spec => []FinalComing
<1>1. Init => LoopInv /\ ReaderInv
  <2>1. \A i \in 1..Len(<<>>) : FALSE
    BY SMT
  <2> QED
    BY <2>1 DEF Init, LoopInv, ReaderInv
<1>2. LoopInv /\ ReaderInv /\ UNCHANGED vars => LoopInv' /\ ReaderInv'
  BY DEF vars, LoopInv, ReaderInv
<1>3. StreamInv /\ LoopInv /\ ReaderInv /\ [Next]_vars => LoopInv' /\ ReaderInv'
  BY <1>2, LoopStep, ReaderInvStep DEF StreamInv
<1> QED
  BY <1>1, <1>3, StreamInvariant, FinalStillComing, PTL DEF Spec

-----------------------------------------------------------------------------
(* The relay: PromptRelay, from the supervisor's stream to the broker       *)

\* The items that carry an event, and what they carry.
EventItems(items) == {i \in 1..Len(items) : items[i].seq # 0}
Seqs(items) == [i \in EventItems(items) |-> items[i].seq]

\* The supervisor's final item is its last and carries its verdict; the Runner
\* stops when it sees it, and its stream stays open only while the Runner receives.
SupInv ==
  /\ runner # "recv" => sup # "open"
  /\ runner = "recv" => seen \notin Ended
  /\ runner \in Ended => runner = verdict
  /\ \A i \in 1..Len(supItems) :
       IF supItems[i].final
       THEN i = Len(supItems) /\ sup # "open" /\ supItems[i].run = verdict /\ verdict \in Ended
       ELSE supItems[i].run = "streaming"

\* The node's final item is its last and carries what Runner.Prompt returned.
NodeInv ==
  \A i \in 1..Len(nodeItems) :
    IF nodeItems[i].final
    THEN /\ i = Len(nodeItems) /\ nodeItems[i].seq = 0
         /\ nodeItems[i].run = runner /\ runner \in RelayedRuns
         /\ runner = "streaming" => sup = "broken"
    ELSE nodeItems[i].seq # 0

\* While the client receives: the events at the node follow on the published ones,
\* those of the supervisor's stream follow on these, and a run that ended is only
\* sent when nothing is left to follow.
QueueInv ==
  client = "recv" =>
    /\ \A i \in EventItems(nodeItems) : /\ Len(published) + i <= Len(sent)
                                        /\ nodeItems[i].seq = sent[Len(published) + i]
    /\ \A i \in 1..Len(nodeItems) :
         nodeItems[i].final /\ runner \in Ended => Len(published) + i = Len(sent) + 1
    /\ runner = "recv" => /\ Len(published) + Len(nodeItems) <= Len(sent)
                          /\ Rest(Len(published) + Len(nodeItems), EventItems(supItems), Seqs(supItems), sent)

\* RelayFaithful, place by place.
ClientInv ==
  /\ Len(published) <= Len(sent)
  /\ \A k \in 1..Len(published) : published[k] = sent[k]
  /\ client \in RelayedRuns => runner # "recv"
  /\ client \in Ended => client = verdict /\ published = sent
  /\ client = "streaming" => sup = "broken"

RelayInv == RelayTypeOK /\ SupInv /\ NodeInv /\ QueueInv /\ ClientInv

LEMMA AfterTail ==
  ASSUME NEW S, NEW s \in Seq(S), s # <<>>
  PROVE  /\ Tail(s) \in Seq(S) /\ Len(s) \in Nat /\ Len(s) >= 1 /\ Len(Tail(s)) = Len(s) - 1
         /\ Head(s) = s[1] /\ s[1] \in S /\ 1 \in 1..Len(s)
         /\ \A i \in 1..Len(Tail(s)) : i + 1 \in 1..Len(s) /\ Tail(s)[i] = s[i + 1]
<1>1. /\ Tail(s) \in Seq(S) /\ Len(Tail(s)) = Len(s) - 1 /\ Len(s) \in Nat /\ Head(s) = s[1]
      /\ \A i \in 1..Len(Tail(s)) : Tail(s)[i] = s[i + 1]
  BY HeadTailProperties, LenProperties, SMT
<1>2. Len(s) # 0
  BY EmptySeq, SMT
<1>3. 1 \in 1..Len(s) /\ s[1] \in S
  BY <1>1, <1>2, ElementOfSeq, SMT
<1> QED
  BY <1>1, <1>2, <1>3, SMT

LEMMA ItemTyped ==
  ASSUME NEW item \in Items
  PROVE  /\ item.seq \in Nat /\ item.run \in RelayedRuns \cup {"none"} /\ item.final \in BOOLEAN
         /\ [seq |-> item.seq, run |-> "none", final |-> FALSE] \in Items
  BY SMT DEF Items

LEMMA RelayShapes ==
  ASSUME RelayTypeOK
  PROVE  /\ supItems \in Seq(Items) /\ nodeItems \in Seq(Items)
         /\ seq \in Nat /\ sent \in Seq(Nat) /\ published \in Seq(Nat)
         /\ Len(supItems) \in Nat /\ Len(nodeItems) \in Nat /\ Len(sent) \in Nat /\ Len(published) \in Nat
  BY LenProperties DEF RelayTypeOK

\* What the Runner passes on of an item.
Passed(item) == IF item.seq = 0 THEN nodeItems
                ELSE Append(nodeItems, [seq |-> item.seq, run |-> "none", final |-> FALSE])

\* The three things that come of an item received by the Runner.
LEMMA RunnerRecvEffect ==
  ASSUME RelayTypeOK, SupInv, RunnerRecv
  PROVE  LET item == supItems[1] IN
         /\ supItems # <<>> /\ supItems' = Tail(supItems) /\ item \in Items /\ runner = "recv"
         /\ seen' = item.run /\ seq' = seq /\ sent' = sent /\ verdict' = verdict
         /\ client' = client /\ published' = published
         /\ \/ /\ runner' = "error" /\ nodeItems' = nodeItems /\ sup' # "open"
               /\ node' \in {"open", "ended", "failed", "broken"}
               /\ sup' \in {"open", "ended", "broken", "cancelled"}
               /\ sup = "broken" => sup' = "broken"
            \/ /\ item.final /\ Len(supItems) = 1 /\ item.run = verdict /\ verdict \in Ended
               /\ runner' = item.run /\ sup' = sup /\ sup # "open"
               /\ node' \in {"open", "ended", "failed", "broken"}
               /\ nodeItems' \in {Passed(item), Append(Passed(item), [seq |-> 0, run |-> item.run, final |-> TRUE])}
            \/ /\ ~item.final /\ item.run = "streaming"
               /\ runner' = runner /\ sup' = sup /\ node' = node /\ nodeItems' = Passed(item)
<1> DEFINE item == supItems[1]
<1>1. supItems # <<>> /\ Head(supItems) = item /\ item \in Items /\ 1 \in 1..Len(supItems)
  BY AfterTail, RelayShapes DEF RunnerRecv
<1>2. /\ item.final => Len(supItems) = 1 /\ item.run = verdict /\ verdict \in Ended /\ sup # "open"
      /\ ~item.final => item.run = "streaming"
  BY <1>1 DEF SupInv
<1>3. /\ supItems' = Tail(supItems) /\ runner = "recv" /\ seen' = item.run /\ seq' = seq /\ sent' = sent
      /\ verdict' = verdict /\ client' = client /\ published' = published
  BY <1>1 DEF RunnerRecv, clientVars
<1> HIDE DEF item
<1>4. /\ node \in {"open", "ended", "failed", "broken"} /\ sup \in {"open", "ended", "broken", "cancelled"}
  BY DEF RelayTypeOK
<1>5. CASE item.seq # 0 /\ node = "broken"
  <2>1. RunnerReturns("error", nodeItems)
    BY <1>1, <1>5 DEF RunnerRecv
  <2> QED
    BY <1>1, <1>3, <1>4, <2>1 DEF RunnerReturns, item
<1>6. CASE ~(item.seq # 0 /\ node = "broken") /\ item.final
  <2>1. RunnerReturns(item.run, Passed(item))
    BY <1>1, <1>6 DEF RunnerRecv, Passed
  <2>2. item.run # "error"
    BY <1>2, <1>6 DEF Ended
  <2>3. /\ runner' = item.run /\ sup' = sup
        /\ node' \in {"open", "ended", "failed", "broken"}
        /\ nodeItems' \in {Passed(item), Append(Passed(item), [seq |-> 0, run |-> item.run, final |-> TRUE])}
    BY <1>2, <1>4, <1>6, <2>1, <2>2 DEF RunnerReturns
  <2> QED
    BY <1>1, <1>2, <1>3, <1>6, <2>3 DEF item
<1>7. CASE ~(item.seq # 0 /\ node = "broken") /\ ~item.final
  <2>1. runner' = runner /\ sup' = sup /\ node' = node /\ nodeItems' = Passed(item)
    BY <1>1, <1>7 DEF RunnerRecv, Passed
  <2> QED
    BY <1>1, <1>2, <1>3, <1>7, <2>1 DEF item
<1> QED
  BY <1>5, <1>6, <1>7

\* What becomes of a Runner whose stream fails.
LEMMA RunnerRecvErrorEffect ==
  ASSUME RelayTypeOK, SupInv, RunnerRecvError
  PROVE  /\ runner = "recv" /\ supItems' = supItems /\ seq' = seq /\ sent' = sent /\ verdict' = verdict
         /\ seen' = seen /\ client' = client /\ published' = published
         /\ runner' \in {"streaming", "error"} /\ sup' # "open" /\ (sup = "broken" => sup' = "broken")
         /\ node' \in {"open", "ended", "failed", "broken"}
         /\ sup' \in {"open", "ended", "broken", "cancelled"}
         /\ \/ nodeItems' = nodeItems
            \/ /\ nodeItems' = Append(nodeItems, [seq |-> 0, run |-> "streaming", final |-> TRUE])
               /\ runner' = "streaming" /\ sup' = "broken"
<1>1. /\ runner = "recv" /\ supItems' = supItems /\ seq' = seq /\ sent' = sent /\ verdict' = verdict
      /\ seen' = seen /\ client' = client /\ published' = published
  BY DEF RunnerRecvError, clientVars
<1>2. seen \in {"streaming", "none"}
  BY <1>1 DEF RelayTypeOK, SupInv, RelayedRuns
<1>3. PICK r \in {"streaming", "error"} : RunnerReturns(r, nodeItems)
  BY <1>2 DEF RunnerRecvError
<1>4. sup = "broken" \/ node = "broken"
  BY DEF RunnerRecvError
<1> QED
  BY <1>1, <1>3, <1>4 DEF RunnerReturns, RelayTypeOK

\* What the supervisor's sends do.
LEMMA SupSendsEffect ==
  ASSUME RelayTypeOK, SupEvent \/ SupZero \/ SupRefuse \/ (\E s \in Ended : SupFinal(s))
  PROVE  \E n \in Nat, run \in RelayedRuns, final \in BOOLEAN :
           /\ SupSends(n, run, final) /\ [seq |-> n, run |-> run, final |-> final] \in Items
           /\ final => run \in Ended
           /\ ~final => run = "streaming"
           /\ seq' \in Nat
<1>1. seq \in Nat /\ seq + 1 \in Nat /\ 0 \in Nat
  BY RelayShapes, SMT
<1>2. \A n \in Nat, run \in RelayedRuns, final \in BOOLEAN : [seq |-> n, run |-> run, final |-> final] \in Items
  BY SMT DEF Items
<1> QED
  BY <1>1, <1>2 DEF SupEvent, SupZero, SupRefuse, SupFinal, RelayedRuns, Ended

LEMMA SupSendsOpen ==
  ASSUME NEW n, NEW run, NEW final, SupSends(n, run, final)
  PROVE  /\ sup = "open" /\ supItems' = Append(supItems, [seq |-> n, run |-> run, final |-> final])
         /\ sent' = (IF n = 0 THEN sent ELSE Append(sent, n))
         /\ verdict' = (IF final THEN run ELSE verdict) /\ sup' = (IF final THEN "ended" ELSE sup)
         /\ runner' = runner /\ seen' = seen /\ node' = node /\ nodeItems' = nodeItems
         /\ client' = client /\ published' = published
  BY DEF SupSends, runnerVars, nodeVars, clientVars

LEMMA ClientEffect ==
  ASSUME RelayTypeOK, ClientStep
  PROVE  /\ client = "recv"
         /\ sup' = sup /\ supItems' = supItems /\ seq' = seq /\ sent' = sent /\ verdict' = verdict
         /\ runner' = runner /\ seen' = seen /\ node' \in {"open", "ended", "failed", "broken"}
         /\ \/ nodeItems' = nodeItems /\ client' = "error" /\ published' = published
            \/ nodeItems # <<>> /\ nodeItems' = Tail(nodeItems) /\ client' = "error" /\ published' = published
            \/ /\ nodeItems # <<>> /\ nodeItems' = Tail(nodeItems)
               /\ published' = (IF Head(nodeItems).seq = 0 THEN published ELSE Append(published, Head(nodeItems).seq))
               /\ client' = (IF Head(nodeItems).final THEN Head(nodeItems).run ELSE client)
<1>1. CASE ClientRecv
  BY <1>1 DEF ClientRecv, ClientReturns, supVars, runnerVars, RelayTypeOK
<1>2. CASE ClientPublishError
  BY <1>2 DEF ClientPublishError, ClientReturns, supVars, runnerVars, RelayTypeOK
<1>3. CASE ClientRecvError
  BY <1>3 DEF ClientRecvError, ClientReturns, supVars, runnerVars, RelayTypeOK
<1> QED
  BY <1>1, <1>2, <1>3 DEF ClientStep

LEMMA PassedTyped ==
  ASSUME RelayTypeOK, NEW item \in Items
  PROVE  Passed(item) \in Seq(Items)
  BY ItemTyped, RelayShapes, AppendProperties DEF Passed

\* The steps that leave both queues alone.
LEMMA BreakEffect ==
  ASSUME RelayTypeOK, SupBreak \/ NodeBreak
  PROVE  /\ supItems' = supItems /\ seq' = seq /\ sent' = sent /\ verdict' = verdict
         /\ runner' = runner /\ seen' = seen /\ nodeItems' = nodeItems
         /\ client' = client /\ published' = published
         /\ node' \in {"open", "ended", "failed", "broken"} /\ sup' \in {sup, "broken"}
  BY DEF SupBreak, NodeBreak, supVars, runnerVars, nodeVars, clientVars, RelayTypeOK

LEMMA RelaySteps ==
  ASSUME RelayNext
  PROVE  \/ SupEvent \/ SupZero \/ SupRefuse \/ (\E s \in Ended : SupFinal(s))
         \/ (SupBreak \/ NodeBreak)
         \/ RunnerRecv \/ RunnerRecvError
         \/ ClientStep
  BY DEF RelayNext, SupStep, RunnerStep

LEMMA RelayTypeStep ==
  ASSUME RelayTypeOK, SupInv, NodeInv, RelayNext
  PROVE  RelayTypeOK'
<1> USE RelayShapes
<1>1. ASSUME SupEvent \/ SupZero \/ SupRefuse \/ (\E s \in Ended : SupFinal(s)) PROVE RelayTypeOK'
  <2>1. PICK n \in Nat, run \in RelayedRuns, final \in BOOLEAN :
           /\ SupSends(n, run, final) /\ [seq |-> n, run |-> run, final |-> final] \in Items
           /\ final => run \in Ended
           /\ seq' \in Nat
    BY <1>1, SupSendsEffect
  <2>2. supItems' \in Seq(Items) /\ sent' \in Seq(Nat)
    <3> DEFINE item == [seq |-> n, run |-> run, final |-> final]
    <3>1. item \in Items /\ supItems' = Append(supItems, item) /\ sent' = (IF n = 0 THEN sent ELSE Append(sent, n))
      BY <2>1, SupSendsOpen
    <3> HIDE DEF item
    <3>2. Append(supItems, item) \in Seq(Items) /\ Append(sent, n) \in Seq(Nat)
      BY <3>1, AppendProperties, SMT
    <3> QED
      BY <3>1, <3>2
  <2>3. verdict' \in Ended \cup {"none"} /\ sup' \in {"open", "ended", "broken", "cancelled"}
    BY <2>1, SupSendsOpen DEF RelayTypeOK
  <2> QED
    BY <2>1, <2>2, <2>3, SupSendsOpen DEF RelayTypeOK
<1>2. CASE SupBreak \/ NodeBreak
  BY <1>2, BreakEffect DEF RelayTypeOK
<1>3. CASE RunnerRecv
  <2> DEFINE item == supItems[1]
             last == [seq |-> 0, run |-> item.run, final |-> TRUE]
  <2>1. Tail(supItems) \in Seq(Items) /\ item \in Items /\ item.run \in RelayedRuns \cup {"none"}
    BY <1>3, RunnerRecvEffect, AfterTail, ItemTyped
  <2>2. Passed(item) \in Seq(Items)
    BY <2>1, PassedTyped
  <2>3. item.run \in Ended => last \in Items /\ Append(Passed(item), last) \in Seq(Items)
    <3>1. item.run \in Ended => last \in Items
      BY SMT DEF Items, RelayedRuns
    <3> QED
      BY <3>1, <2>2, AppendProperties, SMT
  <2>4. nodeItems' \in Seq(Items) /\ runner' \in RelayedRuns \cup {"recv", "error"}
    <3> HIDE DEF last
    <3> QED
      BY <1>3, RunnerRecvEffect, <2>2, <2>3 DEF RelayedRuns, last, RelayTypeOK
  <2>5. node' \in {"open", "ended", "failed", "broken"} /\ sup' \in {"open", "ended", "broken", "cancelled"}
    BY <1>3, RunnerRecvEffect DEF RelayTypeOK
  <2> QED
    BY <1>3, RunnerRecvEffect, <2>1, <2>4, <2>5 DEF RelayTypeOK
<1>4. CASE RunnerRecvError
  <2>1. [seq |-> 0, run |-> "streaming", final |-> TRUE] \in Items
    BY SMT DEF Items, RelayedRuns
  <2>2. nodeItems' \in Seq(Items)
    <3>1. Append(nodeItems, [seq |-> 0, run |-> "streaming", final |-> TRUE]) \in Seq(Items)
      BY <2>1, AppendProperties, SMT
    <3> QED
      BY <1>4, <3>1, RunnerRecvErrorEffect
  <2> QED
    BY <1>4, <2>2, RunnerRecvErrorEffect DEF RelayTypeOK, RelayedRuns
<1>5. CASE ClientStep
  <2>1. nodeItems # <<>> => /\ Tail(nodeItems) \in Seq(Items) /\ Head(nodeItems) \in Items /\ Head(nodeItems).seq \in Nat
                            /\ Head(nodeItems) = nodeItems[1] /\ 1 \in 1..Len(nodeItems)
    BY AfterTail, ItemTyped
  <2>2. nodeItems' \in Seq(Items) /\ published' \in Seq(Nat)
    <3>1. nodeItems # <<>> => Append(published, Head(nodeItems).seq) \in Seq(Nat)
      BY <2>1, AppendProperties, SMT
    <3> QED
      BY <1>5, <2>1, <3>1, ClientEffect
  <2>3. client' \in RelayedRuns \cup {"recv", "error"}
    BY <1>5, <2>1, ClientEffect DEF NodeInv, RelayTypeOK
  <2> QED
    BY <1>5, <2>2, <2>3, ClientEffect DEF RelayTypeOK
<1> QED
  BY <1>1, <1>2, <1>3, <1>4, <1>5, RelaySteps

LEMMA SupInvStep ==
  ASSUME RelayTypeOK, SupInv, RelayNext
  PROVE  SupInv'
<1> USE RelayShapes
<1>1. ASSUME SupEvent \/ SupZero \/ SupRefuse \/ (\E s \in Ended : SupFinal(s)) PROVE SupInv'
  <2>1. PICK n \in Nat, run \in RelayedRuns, final \in BOOLEAN :
           /\ SupSends(n, run, final) /\ [seq |-> n, run |-> run, final |-> final] \in Items
           /\ final => run \in Ended
           /\ ~final => run = "streaming"
    BY <1>1, SupSendsEffect
  <2> DEFINE item == [seq |-> n, run |-> run, final |-> final]
  <2>2. runner = "recv" /\ sup = "open" /\ runner' = "recv" /\ seen' = seen
    BY <2>1, SupSendsOpen DEF SupInv
  <2>3. \A i \in 1..Len(supItems) : ~supItems[i].final /\ supItems[i].run = "streaming"
    BY <2>2 DEF SupInv
  <2>4. item.run = run /\ item.final = final /\ item \in Items /\ supItems' = Append(supItems, item)
    BY <2>1, SupSendsOpen, ZenonT(40)
  <2> HIDE DEF item
  <2>5. /\ Len(supItems') = Len(supItems) + 1 /\ Len(supItems) \in Nat
        /\ \A i \in 1..Len(supItems) : supItems'[i] = supItems[i]
        /\ supItems'[Len(supItems) + 1] = item
    BY <2>4, AfterAppend, SMT
  <2>6. \A i \in 1..Len(supItems') : (i \in 1..Len(supItems)) \/ i = Len(supItems')
    BY <2>5, SMT
  <2>7. /\ final => sup' # "open" /\ verdict' = run /\ run \in Ended
        /\ ~final => run = "streaming"
    BY <2>1, SupSendsOpen
  <2>8. supItems'[Len(supItems')] = item
    BY <2>5
  <2>9. \A i \in 1..Len(supItems') :
       IF supItems'[i].final
       THEN i = Len(supItems') /\ sup' # "open" /\ supItems'[i].run = verdict' /\ verdict' \in Ended
       ELSE supItems'[i].run = "streaming"
    BY <2>3, <2>4, <2>5, <2>6, <2>7, <2>8, ZenonT(40)
  <2>10. "recv" \notin Ended
    BY DEF Ended
  <2> QED
    BY <2>2, <2>9, <2>10 DEF SupInv
<1>2. CASE SupBreak \/ NodeBreak
  BY <1>2, BreakEffect DEF SupInv
<1>3. CASE RunnerRecv
  <2>1. /\ Len(Tail(supItems)) = Len(supItems) - 1 /\ supItems' = Tail(supItems)
        /\ \A i \in 1..Len(Tail(supItems)) : i + 1 \in 1..Len(supItems) /\ Tail(supItems)[i] = supItems[i + 1]
    BY <1>3, RunnerRecvEffect, AfterTail
  <2>2. /\ \A i \in 1..Len(supItems') : i + 1 \in 1..Len(supItems) /\ supItems'[i] = supItems[i + 1]
        /\ \A i \in 1..Len(supItems') : i + 1 = Len(supItems) => i = Len(supItems')
    BY <2>1, SMT
  <2>3. verdict' = verdict /\ (sup # "open" => sup' # "open")
    BY <1>3, RunnerRecvEffect
  <2>4. \A i \in 1..Len(supItems') :
       IF supItems'[i].final
       THEN i = Len(supItems') /\ sup' # "open" /\ supItems'[i].run = verdict' /\ verdict' \in Ended
       ELSE supItems'[i].run = "streaming"
    BY <2>2, <2>3 DEF SupInv
  <2>5. "recv" \notin Ended /\ "error" \notin Ended /\ "streaming" \notin Ended
    BY DEF Ended
  <2>6. /\ runner' # "recv" => sup' # "open"
        /\ runner' = "recv" => seen' \notin Ended
        /\ runner' \in Ended => runner' = verdict'
    BY <1>3, RunnerRecvEffect, <2>5
  <2> QED
    BY <2>4, <2>6 DEF SupInv
<1>4. CASE RunnerRecvError
  <2>1. "recv" \notin Ended /\ "error" \notin Ended /\ "streaming" \notin Ended
    BY DEF Ended
  <2> QED
    BY <1>4, <2>1, RunnerRecvErrorEffect DEF SupInv
<1>5. CASE ClientStep
  BY <1>5, ClientEffect DEF SupInv
<1> QED
  BY <1>1, <1>2, <1>3, <1>4, <1>5, RelaySteps

\* While the Runner receives, the node's stream holds events only.
LEMMA OnlyEvents ==
  ASSUME NodeInv, runner = "recv"
  PROVE  \A i \in 1..Len(nodeItems) : ~nodeItems[i].final /\ nodeItems[i].seq # 0
<1>1. "recv" \notin RelayedRuns
  BY DEF RelayedRuns, Ended
<1> QED
  BY <1>1 DEF NodeInv

LEMMA PassedEvents ==
  ASSUME RelayTypeOK, NodeInv, runner = "recv", NEW item \in Items
  PROVE  /\ Passed(item) \in Seq(Items) /\ Len(Passed(item)) \in Nat
         /\ \A i \in 1..Len(Passed(item)) : ~Passed(item)[i].final /\ Passed(item)[i].seq # 0
         /\ \A i \in 1..Len(nodeItems) : Passed(item)[i] = nodeItems[i]
         /\ item.seq = 0 => Len(Passed(item)) = Len(nodeItems)
         /\ item.seq # 0 => /\ Len(Passed(item)) = Len(nodeItems) + 1
                            /\ Passed(item)[Len(nodeItems) + 1].seq = item.seq
<1> DEFINE new == [seq |-> item.seq, run |-> "none", final |-> FALSE]
<1>1. new \in Items /\ new.seq = item.seq /\ new.final = FALSE /\ nodeItems \in Seq(Items) /\ Len(nodeItems) \in Nat
  BY ItemTyped, RelayShapes
<1>2. Passed(item) = IF item.seq = 0 THEN nodeItems ELSE Append(nodeItems, new)
  BY DEF Passed
<1> HIDE DEF new
<1>3. CASE item.seq = 0
  BY <1>1, <1>2, <1>3, OnlyEvents
<1>4. CASE item.seq # 0
  <2>1. /\ Append(nodeItems, new) \in Seq(Items) /\ Len(Append(nodeItems, new)) = Len(nodeItems) + 1
        /\ \A i \in 1..Len(nodeItems) : Append(nodeItems, new)[i] = nodeItems[i]
        /\ \A i \in 1..Len(Append(nodeItems, new)) :
              Append(nodeItems, new)[i] = new \/ (i \in 1..Len(nodeItems) /\ Append(nodeItems, new)[i] = nodeItems[i])
        /\ Append(nodeItems, new)[Len(nodeItems) + 1] = new
    BY <1>1, AfterAppend, SMT
  <2>2. Passed(item) = Append(nodeItems, new) /\ Len(nodeItems) + 1 \in Nat
    BY <1>1, <1>2, <1>4, SMT
  <2> QED
    BY <1>1, <1>4, <2>1, <2>2, OnlyEvents
<1> QED
  BY <1>3, <1>4

\* A final item behind nothing but events.
LEMMA FinalLast ==
  ASSUME NEW s \in Seq(Items), NEW last \in Items, last.final, last.seq = 0,
         \A i \in 1..Len(s) : ~s[i].final /\ s[i].seq # 0
  PROVE  LET t == Append(s, last) IN
         /\ Len(t) = Len(s) + 1 /\ Len(s) \in Nat
         /\ \A i \in 1..Len(t) : IF t[i].final THEN i = Len(t) /\ t[i] = last
                                 ELSE i \in 1..Len(s) /\ t[i] = s[i] /\ t[i].seq # 0
         /\ EventItems(t) = EventItems(s)
<1> DEFINE t == Append(s, last)
<1>1. /\ Len(t) = Len(s) + 1 /\ Len(s) \in Nat
      /\ \A i \in 1..Len(s) : t[i] = s[i]
      /\ t[Len(s) + 1] = last
  BY AfterAppend, SMT
<1> HIDE DEF t
<1>2. \A i : i \in 1..Len(t) <=> i \in 1..Len(s) \/ i = Len(t)
  BY <1>1, SMT
<1>3. t[Len(t)] = last
  BY <1>1
<1>4. \A i \in 1..Len(t) : IF t[i].final THEN i = Len(t) /\ t[i] = last
                           ELSE i \in 1..Len(s) /\ t[i] = s[i] /\ t[i].seq # 0
  BY <1>1, <1>2, <1>3, SMT
<1>5. EventItems(t) = EventItems(s)
  BY <1>1, <1>2, <1>3 DEF EventItems
<1> QED
  BY <1>1, <1>4, <1>5 DEF t

LEMMA NodeInvStep ==
  ASSUME RelayTypeOK, SupInv, NodeInv, RelayNext
  PROVE  NodeInv'
<1>1. ASSUME SupEvent \/ SupZero \/ SupRefuse \/ (\E s \in Ended : SupFinal(s)) PROVE NodeInv'
  <2>1. runner = "recv" /\ nodeItems' = nodeItems
    BY <1>1, SupSendsEffect, SupSendsOpen DEF SupInv
  <2> QED
    BY <2>1, OnlyEvents DEF NodeInv
<1>2. CASE SupBreak \/ NodeBreak
  BY <1>2, BreakEffect DEF NodeInv
<1>3. CASE RunnerRecv
  <2> DEFINE item == supItems[1]
             last == [seq |-> 0, run |-> item.run, final |-> TRUE]
  <2>1. item \in Items /\ runner = "recv"
    BY <1>3, RunnerRecvEffect
  <2>2. CASE nodeItems' = nodeItems
    BY <2>1, <2>2, OnlyEvents DEF NodeInv
  <2>3. CASE nodeItems' = Passed(item)
    BY <2>1, <2>3, PassedEvents DEF NodeInv
  <2>4. CASE /\ nodeItems' = Append(Passed(item), last)
             /\ runner' = item.run /\ item.run \in Ended
    <3>1. last \in Items /\ last.final /\ last.seq = 0 /\ last.run = item.run
      BY <2>4, SMT DEF Items, RelayedRuns
    <3>2. runner' \in RelayedRuns /\ runner' # "streaming"
      BY <2>4 DEF RelayedRuns, Ended
    <3> HIDE DEF last, item
    <3>3. /\ Passed(item) \in Seq(Items)
          /\ \A i \in 1..Len(Passed(item)) : ~Passed(item)[i].final /\ Passed(item)[i].seq # 0
      BY <2>1, PassedEvents
    <3>4. \A i \in 1..Len(nodeItems') : IF nodeItems'[i].final THEN i = Len(nodeItems') /\ nodeItems'[i] = last
                                       ELSE nodeItems'[i].seq # 0
      BY <2>4, <3>1, <3>3, FinalLast
    <3> QED
      BY <2>4, <3>1, <3>2, <3>4 DEF NodeInv
  <2> QED
    BY <1>3, <2>2, <2>3, <2>4, RunnerRecvEffect
<1>4. CASE RunnerRecvError
  <2> DEFINE last == [seq |-> 0, run |-> "streaming", final |-> TRUE]
  <2>1. runner = "recv" /\ nodeItems \in Seq(Items)
    BY <1>4, RunnerRecvErrorEffect, RelayShapes
  <2>2. CASE nodeItems' = nodeItems
    BY <2>1, <2>2, OnlyEvents DEF NodeInv
  <2>3. CASE nodeItems' = Append(nodeItems, last) /\ runner' = "streaming" /\ sup' = "broken"
    <3>1. last \in Items /\ last.final /\ last.seq = 0 /\ last.run = "streaming" /\ "streaming" \in RelayedRuns
      BY SMT DEF Items, RelayedRuns
    <3> HIDE DEF last
    <3>2. \A i \in 1..Len(nodeItems') : IF nodeItems'[i].final THEN i = Len(nodeItems') /\ nodeItems'[i] = last
                                       ELSE nodeItems'[i].seq # 0
      BY <2>1, <2>3, <3>1, FinalLast, OnlyEvents
    <3> QED
      BY <2>3, <3>1, <3>2, SMT DEF NodeInv
  <2> QED
    BY <1>4, <2>2, <2>3, RunnerRecvErrorEffect
<1>5. CASE ClientStep
  <2>1. runner' = runner /\ sup' = sup
    BY <1>5, ClientEffect
  <2>2. CASE nodeItems' = nodeItems
    BY <2>1, <2>2 DEF NodeInv
  <2>3. CASE nodeItems # <<>> /\ nodeItems' = Tail(nodeItems)
    <3>1. /\ \A i \in 1..Len(nodeItems') : i + 1 \in 1..Len(nodeItems) /\ nodeItems'[i] = nodeItems[i + 1]
          /\ Len(nodeItems') = Len(nodeItems) - 1 /\ Len(nodeItems) \in Nat
      BY <2>3, AfterTail, RelayShapes
    <3>2. \A i \in 1..Len(nodeItems') : i + 1 = Len(nodeItems) => i = Len(nodeItems')
      BY <3>1, SMT
    <3> QED
      BY <2>1, <3>1, <3>2 DEF NodeInv
  <2> QED
    BY <1>5, <2>2, <2>3, ClientEffect
<1> QED
  BY <1>1, <1>2, <1>3, <1>4, <1>5, RelaySteps

LEMMA RestEmpty ==
  ASSUME NEW n \in Nat, NEW e, Len(e) \in Nat, n <= Len(e), NEW val, Rest(n, {}, val, e)
  PROVE  Len(e) = n
<1>1. PICK at : at \in [n+1..Len(e) -> {}]
  BY DEF Rest
<1>2. n+1..Len(e) = {}
  BY <1>1, SMT
<1> QED
  BY <1>2, SMT

\* The supervisor sends an item without an event, or with one.
LEMMA QueueGrows ==
  ASSUME NEW n \in Nat, NEW items \in Seq(Items), NEW item \in Items, NEW e \in Seq(Nat), n <= Len(e),
         Rest(n, EventItems(items), Seqs(items), e)
  PROVE  /\ item.seq = 0 => Rest(n, EventItems(Append(items, item)), Seqs(Append(items, item)), e)
         /\ item.seq # 0 => Rest(n, EventItems(Append(items, item)), Seqs(Append(items, item)), Append(e, item.seq))
<1> DEFINE t == Append(items, item)
           f == Append(e, item.seq)
<1>1. /\ Len(t) = Len(items) + 1 /\ Len(items) \in Nat
      /\ \A i \in 1..Len(items) : t[i] = items[i]
      /\ t[Len(items) + 1] = item
  BY AppendProperties, LenProperties, SMT
<1>2. item.seq \in Nat /\ Len(e) \in Nat
  BY ItemTyped, LenProperties
<1>3. Longer(e, f, item.seq)
  BY <1>2, AppendProperties, SMT DEF Longer
<1> HIDE DEF t, f
<1>4. /\ \A i \in EventItems(items) : i \in Nat /\ i < Len(items) + 1 /\ t[i] = items[i]
      /\ Len(items) + 1 \in Nat
  BY <1>1, SMT DEF EventItems
<1>5. CASE item.seq = 0
  <2>1. EventItems(t) = EventItems(items)
    BY <1>1, <1>5, SMT DEF EventItems
  <2>2. Seqs(t) = Seqs(items)
    BY <1>4, <2>1, SMT DEF Seqs
  <2> QED
    BY <1>5, <2>1, <2>2 DEF t
<1>6. CASE item.seq # 0
  <2>1. EventItems(t) = EventItems(items) \cup {Len(items) + 1}
    BY <1>1, <1>6, SMT DEF EventItems
  <2>2. /\ \A i \in EventItems(items) : Seqs(t)[i] = Seqs(items)[i]
        /\ Seqs(t)[Len(items) + 1] = item.seq
    BY <1>1, <1>4, <2>1, SMT DEF Seqs
  <2>3. Put(EventItems(items), Seqs(items), EventItems(t), Seqs(t), Len(items) + 1)
    BY <1>4, <2>1, <2>2 DEF Put
  <2>4. Rest(n, EventItems(t), Seqs(t), f)
    BY <1>2, <1>3, <2>2, <2>3, RestWrite, SMTT(20)
  <2> QED
    BY <1>6, <2>4 DEF t, f
<1> QED
  BY <1>5, <1>6

\* The Runner takes an item from its stream.
LEMMA QueueMoves ==
  ASSUME NEW n \in Nat, NEW items \in Seq(Items), items # <<>>, NEW e \in Seq(Nat), n <= Len(e),
         Rest(n, EventItems(items), Seqs(items), e)
  PROVE  /\ items[1].seq = 0 => Rest(n, EventItems(Tail(items)), Seqs(Tail(items)), e)
         /\ items[1].seq # 0 => /\ n + 1 <= Len(e) /\ e[n + 1] = items[1].seq
                                /\ Rest(n + 1, EventItems(Tail(items)), Seqs(Tail(items)), e)
<1> DEFINE t == Tail(items)
<1>1. /\ Len(t) = Len(items) - 1 /\ Len(items) \in Nat /\ Len(items) >= 1
      /\ \A i \in 1..Len(items) - 1 : t[i] = items[i + 1]
  BY AfterTail, SMT
<1>2. Len(e) \in Nat
  BY LenProperties
<1> HIDE DEF t
<1>3. /\ \A i \in EventItems(items) : i \in Nat /\ i >= 1
      /\ \A i \in EventItems(t) : i \in Nat \ {0} /\ i + 1 \in EventItems(items)
      /\ \A i \in EventItems(items) \ {1} : i - 1 \in EventItems(t) /\ t[i - 1] = items[i]
  BY <1>1, SMT DEF EventItems
<1>4. \A i \in EventItems(items) \ {1} : Seqs(t)[i - 1] = Seqs(items)[i]
  BY <1>3, SMT DEF Seqs
<1>5. CASE items[1].seq = 0
  <2>1. 1 \notin EventItems(items)
    BY <1>5, SMT DEF EventItems
  <2>2. Skipped(EventItems(items), Seqs(items), EventItems(t), Seqs(t))
    BY <1>3, <1>4, <2>1, SMT DEF Skipped
  <2>3. Rest(n, EventItems(t), Seqs(t), e)
    BY <2>2, RestSkip
  <2> QED
    BY <1>5, <2>3 DEF t
<1>6. CASE items[1].seq # 0
  <2>1. 1 \in EventItems(items) /\ Seqs(items)[1] = items[1].seq
    BY <1>1, <1>6, SMT DEF EventItems, Seqs
  <2>2. Taken(EventItems(items), Seqs(items), EventItems(t), Seqs(t))
    BY <1>3, <1>4, <2>1, SMT DEF Taken
  <2>3. n + 1 <= Len(e) /\ e[n + 1] = items[1].seq /\ Rest(n + 1, EventItems(t), Seqs(t), e)
    BY <1>2, <2>1, <2>2, RestTake, SMTT(20)
  <2> QED
    BY <1>6, <2>3 DEF t
<1> QED
  BY <1>5, <1>6

\* What is known of the node's queue while both ends receive.
LEMMA QueueNow ==
  ASSUME RelayTypeOK, NodeInv, QueueInv, client = "recv", runner = "recv"
  PROVE  /\ Len(published) + Len(nodeItems) \in Nat /\ Len(published) + Len(nodeItems) <= Len(sent)
         /\ \A i \in 1..Len(nodeItems) : nodeItems[i].seq = sent[Len(published) + i]
         /\ Rest(Len(published) + Len(nodeItems), EventItems(supItems), Seqs(supItems), sent)
<1>1. \A i \in 1..Len(nodeItems) : i \in EventItems(nodeItems)
  BY OnlyEvents DEF EventItems
<1>2. Len(published) + Len(nodeItems) \in Nat
  BY RelayShapes, SMT
<1> QED
  BY <1>1, <1>2 DEF QueueInv

\* The item's event, passed on, is the next of the node's queue.
LEMMA PassOn ==
  ASSUME RelayTypeOK, NodeInv, QueueInv, client = "recv", runner = "recv", supItems # <<>>
  PROVE  LET items == Passed(supItems[1]) IN
         /\ Len(published) + Len(items) \in Nat /\ Len(published) + Len(items) <= Len(sent)
         /\ \A i \in 1..Len(items) : items[i].seq = sent[Len(published) + i]
         /\ Rest(Len(published) + Len(items), EventItems(Tail(supItems)), Seqs(Tail(supItems)), sent)
<1> DEFINE item == supItems[1]
           items == Passed(item)
           n == Len(published) + Len(nodeItems)
<1>1. item \in Items /\ supItems \in Seq(Items) /\ sent \in Seq(Nat)
  BY AfterTail, RelayShapes
<1>2. Len(published) \in Nat /\ Len(nodeItems) \in Nat /\ Len(sent) \in Nat
  BY RelayShapes
<1>3. /\ n \in Nat /\ n <= Len(sent) /\ Rest(n, EventItems(supItems), Seqs(supItems), sent)
      /\ \A i \in 1..Len(nodeItems) : nodeItems[i].seq = sent[Len(published) + i]
  BY QueueNow
<1>4. /\ \A i \in 1..Len(nodeItems) : items[i] = nodeItems[i]
      /\ item.seq = 0 => Len(items) = Len(nodeItems)
      /\ item.seq # 0 => Len(items) = Len(nodeItems) + 1 /\ items[Len(nodeItems) + 1].seq = item.seq
  BY <1>1, PassedEvents
<1>5. /\ item.seq = 0 => Rest(n, EventItems(Tail(supItems)), Seqs(Tail(supItems)), sent)
      /\ item.seq # 0 => /\ n + 1 <= Len(sent) /\ sent[n + 1] = item.seq
                         /\ Rest(n + 1, EventItems(Tail(supItems)), Seqs(Tail(supItems)), sent)
  BY <1>1, <1>3, QueueMoves
<1> HIDE DEF items, item
<1>6. CASE item.seq = 0
  BY <1>3, <1>4, <1>5, <1>6 DEF items, item
<1>7. CASE item.seq # 0
  <2>1. Len(published) + Len(items) = n + 1
    BY <1>2, <1>4, <1>7, SMT
  <2>2. \A i \in 1..Len(items) : (i \in 1..Len(nodeItems)) \/ i = Len(nodeItems) + 1
    BY <1>2, <1>4, <1>7, SMT
  <2>3. Len(published) + (Len(nodeItems) + 1) = n + 1 /\ n + 1 \in Nat
    BY <1>2, SMT
  <2>4. \A i \in 1..Len(items) : items[i].seq = sent[Len(published) + i]
    BY <1>3, <1>4, <1>5, <1>7, <2>2, <2>3
  <2> QED
    BY <1>5, <1>7, <2>1, <2>3, <2>4 DEF items, item
<1> QED
  BY <1>6, <1>7

LEMMA QueueStep ==
  ASSUME RelayTypeOK, SupInv, NodeInv, QueueInv, RelayNext
  PROVE  QueueInv'
<1> SUFFICES ASSUME client' = "recv" PROVE QueueInv'
  BY DEF QueueInv
<1>0. "recv" \notin RelayedRuns /\ "recv" \notin Ended /\ "error" \notin Ended /\ "streaming" \notin Ended
  BY DEF RelayedRuns, Ended
<1>1. ASSUME SupEvent \/ SupZero \/ SupRefuse \/ (\E s \in Ended : SupFinal(s)) PROVE QueueInv'
  <2>1. PICK n \in Nat, run \in RelayedRuns, final \in BOOLEAN :
           SupSends(n, run, final) /\ [seq |-> n, run |-> run, final |-> final] \in Items
    BY <1>1, SupSendsEffect
  <2> DEFINE item == [seq |-> n, run |-> run, final |-> final]
             m == Len(published) + Len(nodeItems)
  <2>2. item \in Items /\ item.seq = n /\ supItems' = Append(supItems, item) /\ sent' = (IF n = 0 THEN sent ELSE Append(sent, n))
    BY <2>1, SupSendsOpen
  <2>3. /\ runner = "recv" /\ runner' = "recv" /\ client = "recv" /\ nodeItems' = nodeItems /\ published' = published
    BY <2>1, SupSendsOpen DEF SupInv
  <2> HIDE DEF item
  <2>4. /\ Len(sent) \in Nat /\ Len(published) \in Nat /\ Len(nodeItems) \in Nat
        /\ sent \in Seq(Nat) /\ supItems \in Seq(Items)
    BY RelayShapes
  <2>5. m \in Nat /\ m <= Len(sent) /\ Rest(m, EventItems(supItems), Seqs(supItems), sent)
    BY <2>3, QueueNow
  <2>6. Len(sent) <= Len(sent') /\ Len(sent') \in Nat /\ \A k \in 1..Len(sent) : sent'[k] = sent[k]
    BY <2>2, <2>4, AppendProperties, SMT
  <2>7. m <= Len(sent')
    BY <2>4, <2>5, <2>6, SMT
  <2>8. Rest(m, EventItems(supItems'), Seqs(supItems'), sent')
    BY <2>2, <2>4, <2>5, QueueGrows
  <2>9. \A i \in EventItems(nodeItems) : /\ Len(published) + i <= Len(sent')
                                         /\ nodeItems[i].seq = sent'[Len(published) + i]
    <3> SUFFICES ASSUME NEW i \in EventItems(nodeItems)
                 PROVE  Len(published) + i <= Len(sent') /\ nodeItems[i].seq = sent'[Len(published) + i]
      OBVIOUS
    <3>1. Len(published) + i <= Len(sent) /\ nodeItems[i].seq = sent[Len(published) + i] /\ i \in 1..Len(nodeItems)
      BY <2>3 DEF QueueInv, EventItems
    <3>2. Len(published) + i \in 1..Len(sent) /\ Len(published) + i <= Len(sent')
      BY <2>4, <2>6, <3>1, SMT
    <3> QED
      BY <2>6, <3>1, <3>2
  <2> QED
    BY <1>0, <2>3, <2>7, <2>8, <2>9 DEF QueueInv
<1>2. CASE SupBreak \/ NodeBreak
  BY <1>2, BreakEffect DEF QueueInv
<1>3. CASE RunnerRecv
  <2> DEFINE item == supItems[1]
             items == Passed(item)
             last == [seq |-> 0, run |-> item.run, final |-> TRUE]
  <2>1. /\ client = "recv" /\ runner = "recv" /\ sent' = sent /\ published' = published
        /\ supItems # <<>> /\ supItems' = Tail(supItems) /\ item \in Items
    BY <1>3, RunnerRecvEffect
  <2>2. CASE runner' = "error" /\ nodeItems' = nodeItems
    BY <1>0, <2>1, <2>2 DEF QueueInv
  <2>3. /\ Len(published) + Len(items) \in Nat /\ Len(published) + Len(items) <= Len(sent)
        /\ \A i \in 1..Len(items) : items[i].seq = sent[Len(published) + i]
        /\ Rest(Len(published) + Len(items), EventItems(supItems'), Seqs(supItems'), sent)
    BY <2>1, PassOn
  <2>4. /\ items \in Seq(Items) /\ Len(items) \in Nat
        /\ \A i \in 1..Len(items) : ~items[i].final /\ items[i].seq # 0
    BY <2>1, PassedEvents
  <2>5. Len(published) \in Nat /\ Len(sent) \in Nat /\ Len(supItems) \in Nat
    BY RelayShapes
  <2> HIDE DEF items, item, last
  <2>6. /\ EventItems(items) = 1..Len(items)
        /\ \A i \in 1..Len(items) : Len(published) + i <= Len(sent)
    <3>1. \A i \in 1..Len(items) : Len(published) + i <= Len(sent)
      BY <2>3, <2>4, <2>5, SMT
    <3> QED
      BY <2>4, <3>1 DEF EventItems
  <2>7. CASE runner' = runner /\ nodeItems' = items
    BY <2>1, <2>3, <2>4, <2>6, <2>7 DEF QueueInv
  <2>8. CASE nodeItems' = items /\ runner' \in Ended
    BY <1>0, <2>1, <2>3, <2>4, <2>6, <2>8 DEF QueueInv
  <2>9. CASE nodeItems' = Append(items, last) /\ runner' \in Ended /\ Len(supItems) = 1 /\ item.run \in Ended
    <3>1. last \in Items /\ last.final /\ last.seq = 0
      BY <2>9, SMT DEF Items, RelayedRuns, last
    <3>2. /\ Len(nodeItems') = Len(items) + 1
          /\ \A i \in 1..Len(nodeItems') : IF nodeItems'[i].final THEN i = Len(nodeItems')
                                           ELSE i \in 1..Len(items) /\ nodeItems'[i] = items[i]
          /\ EventItems(nodeItems') = EventItems(items)
          /\ \A i \in 1..Len(items) : nodeItems'[i] = items[i]
      <4>1. \A i \in 1..Len(items) : Append(items, last)[i] = items[i]
        BY <2>4, <3>1, AppendProperties, SMT
      <4> QED
        BY <2>4, <2>9, <3>1, <4>1, FinalLast, ZenonT(40)
    <3>3. EventItems(supItems') = {}
      <4>1. Len(supItems') = 0
        BY <2>1, <2>5, <2>9, RelayShapes, AfterTail, SMT
      <4> QED
        BY <4>1, SMT DEF EventItems
    <3>4. Len(sent) = Len(published) + Len(items)
      BY <2>3, <2>5, <3>3, RestEmpty, ZenonT(40)
    <3>5. Len(published) + Len(nodeItems') = Len(sent) + 1
      BY <2>4, <2>5, <3>2, <3>4, SMT
    <3> QED
      BY <1>0, <2>1, <2>3, <2>6, <2>9, <3>2, <3>5, ZenonT(40) DEF QueueInv
  <2> QED
    BY <1>3, <2>2, <2>7, <2>8, <2>9, RunnerRecvEffect DEF items, item, last
<1>4. CASE RunnerRecvError
  <2> DEFINE last == [seq |-> 0, run |-> "streaming", final |-> TRUE]
  <2>1. /\ client = "recv" /\ runner = "recv" /\ sent' = sent /\ published' = published /\ supItems' = supItems
        /\ runner' \notin Ended /\ runner' # "recv" /\ nodeItems \in Seq(Items)
    BY <1>0, <1>4, RunnerRecvErrorEffect, RelayShapes
  <2>2. CASE nodeItems' = nodeItems
    BY <2>1, <2>2 DEF QueueInv
  <2>3. CASE nodeItems' = Append(nodeItems, last)
    <3>1. last \in Items /\ last.final /\ last.seq = 0
      BY SMT DEF Items, RelayedRuns
    <3> HIDE DEF last
    <3>2. EventItems(nodeItems') = EventItems(nodeItems) /\ \A i \in EventItems(nodeItems) : nodeItems'[i] = nodeItems[i]
      <4>1. \A i \in 1..Len(nodeItems) : Append(nodeItems, last)[i] = nodeItems[i]
        BY <2>1, <3>1, AppendProperties, SMT
      <4> QED
        BY <2>1, <2>3, <3>1, <4>1, FinalLast, OnlyEvents DEF EventItems
    <3> QED
      BY <2>1, <3>2 DEF QueueInv
  <2> QED
    BY <1>4, <2>2, <2>3, RunnerRecvErrorEffect
<1>5. CASE ClientStep
  <2>1. /\ client = "recv" /\ sent' = sent /\ runner' = runner /\ supItems' = supItems
        /\ nodeItems # <<>> /\ nodeItems' = Tail(nodeItems)
        /\ published' = (IF Head(nodeItems).seq = 0 THEN published ELSE Append(published, Head(nodeItems).seq))
        /\ client' = (IF Head(nodeItems).final THEN Head(nodeItems).run ELSE client)
    BY <1>5, ClientEffect
  <2>2. /\ Head(nodeItems) = nodeItems[1] /\ 1 \in 1..Len(nodeItems) /\ nodeItems[1] \in Items
        /\ \A i \in 1..Len(nodeItems') : i + 1 \in 1..Len(nodeItems) /\ nodeItems'[i] = nodeItems[i + 1]
        /\ Len(nodeItems') = Len(nodeItems) - 1 /\ Len(nodeItems) \in Nat
    BY <2>1, AfterTail, RelayShapes
  <2>3. ~nodeItems[1].final /\ nodeItems[1].seq # 0
    <3>1. nodeItems[1].final => nodeItems[1].run \in RelayedRuns
      BY <2>2 DEF NodeInv
    <3>2. ~nodeItems[1].final
      BY <1>0, <2>1, <2>2, <3>1
    <3> QED
      BY <2>2, <3>2 DEF NodeInv
  <2>4. published' = Append(published, nodeItems[1].seq) /\ nodeItems[1].seq \in Nat
    BY <2>1, <2>2, <2>3, ItemTyped
  <2>5. Len(published') = Len(published) + 1 /\ Len(published) \in Nat
    BY <2>4, RelayShapes, AppendProperties, SMT
  <2>6. /\ Len(published') + Len(nodeItems') = Len(published) + Len(nodeItems)
        /\ \A i \in 1..Len(nodeItems') : Len(published') + i = Len(published) + (i + 1)
    BY <2>2, <2>5, SMT
  <2>7. \A i \in EventItems(nodeItems') : i \in 1..Len(nodeItems') /\ i + 1 \in EventItems(nodeItems)
    BY <2>2 DEF EventItems
  <2> QED
    BY <2>1, <2>2, <2>6, <2>7 DEF QueueInv
<1> QED
  BY <1>1, <1>2, <1>3, <1>4, <1>5, RelaySteps

LEMMA ClientInvStep ==
  ASSUME RelayTypeOK, SupInv, NodeInv, QueueInv, ClientInv, RelayNext
  PROVE  ClientInv'
<1>0. /\ "recv" \notin RelayedRuns /\ "error" \notin RelayedRuns /\ "recv" \notin Ended /\ "error" \notin Ended
      /\ "streaming" \notin Ended /\ Ended \subseteq RelayedRuns /\ "streaming" \in RelayedRuns
  BY DEF RelayedRuns, Ended
<1>1. ASSUME SupEvent \/ SupZero \/ SupRefuse \/ (\E s \in Ended : SupFinal(s)) PROVE ClientInv'
  <2>1. PICK n \in Nat : sent' = (IF n = 0 THEN sent ELSE Append(sent, n))
    BY <1>1, SupSendsEffect, SupSendsOpen
  <2>2. runner = "recv" /\ client' = client /\ published' = published
    BY <1>1, SupSendsEffect, SupSendsOpen DEF SupInv
  <2>3. Len(sent) \in Nat /\ Len(published) \in Nat /\ sent \in Seq(Nat)
    BY RelayShapes
  <2>4. Len(sent) <= Len(sent') /\ Len(sent') \in Nat /\ \A k \in 1..Len(sent) : sent'[k] = sent[k]
    BY <2>1, <2>3, AppendProperties, SMT
  <2>5. Len(published) <= Len(sent) /\ \A k \in 1..Len(published) : published[k] = sent[k]
    BY DEF ClientInv
  <2>6. Len(published') <= Len(sent') /\ \A k \in 1..Len(published') : published'[k] = sent'[k]
    BY <2>2, <2>3, <2>4, <2>5, SMT
  <2>7. client' \notin RelayedRuns
    BY <2>2 DEF ClientInv
  <2> QED
    BY <1>0, <2>6, <2>7 DEF ClientInv
<1>2. CASE SupBreak \/ NodeBreak
  BY <1>2, BreakEffect DEF ClientInv
<1>3. CASE RunnerRecv
  <2>1. runner = "recv" /\ client' = client /\ published' = published /\ sent' = sent
    BY <1>3, RunnerRecvEffect
  <2>2. client \notin RelayedRuns
    BY <2>1 DEF ClientInv
  <2> QED
    BY <1>0, <2>1, <2>2 DEF ClientInv
<1>4. CASE RunnerRecvError
  <2>1. runner = "recv" /\ client' = client /\ published' = published /\ sent' = sent
    BY <1>4, RunnerRecvErrorEffect
  <2>2. client \notin RelayedRuns
    BY <2>1 DEF ClientInv
  <2> QED
    BY <1>0, <2>1, <2>2 DEF ClientInv
<1>5. CASE ClientStep
  <2>1. client = "recv" /\ sent' = sent /\ runner' = runner /\ verdict' = verdict /\ sup' = sup
    BY <1>5, ClientEffect
  <2>2. CASE client' = "error" /\ published' = published
    BY <1>0, <2>1, <2>2 DEF ClientInv
  <2>3. ASSUME nodeItems # <<>>,
               published' = (IF Head(nodeItems).seq = 0 THEN published ELSE Append(published, Head(nodeItems).seq)),
               client' = (IF Head(nodeItems).final THEN Head(nodeItems).run ELSE client)
        PROVE  ClientInv'
    <3>1. /\ Head(nodeItems) = nodeItems[1] /\ 1 \in 1..Len(nodeItems) /\ nodeItems[1] \in Items
          /\ nodeItems[1].seq \in Nat
      BY <2>3, AfterTail, RelayShapes, ItemTyped
    <3>2. /\ published \in Seq(Nat) /\ sent \in Seq(Nat) /\ Len(published) \in Nat /\ Len(sent) \in Nat
          /\ Len(published) <= Len(sent) /\ \A k \in 1..Len(published) : published[k] = sent[k]
      BY RelayShapes DEF ClientInv
    <3>3. CASE nodeItems[1].final
      <4>1. /\ nodeItems[1].seq = 0 /\ client' = runner /\ runner \in RelayedRuns /\ published' = published
            /\ runner = "streaming" => sup = "broken"
        BY <2>3, <3>1, <3>3 DEF NodeInv
      <4>2. runner \in Ended => runner = verdict /\ Len(published) + 1 = Len(sent) + 1
        BY <2>1, <3>1, <3>3 DEF SupInv, QueueInv
      <4>3. Len(published) + 1 = Len(sent) + 1 => published = sent
        <5>1. Len(published) + 1 = Len(sent) + 1 => Len(published) = Len(sent)
          BY <3>2, SMT
        <5> QED
          BY <3>2, <5>1, SeqEqual
      <4> QED
        BY <1>0, <2>1, <3>2, <4>1, <4>2, <4>3 DEF ClientInv
    <3>4. CASE ~nodeItems[1].final
      <4>1. nodeItems[1].seq # 0 /\ client' = "recv" /\ published' = Append(published, nodeItems[1].seq)
        BY <2>1, <2>3, <3>1, <3>4 DEF NodeInv
      <4>2. 1 \in EventItems(nodeItems)
        BY <3>1, <4>1 DEF EventItems
      <4>3. Len(published) + 1 <= Len(sent) /\ nodeItems[1].seq = sent[Len(published) + 1]
        BY <2>1, <4>2 DEF QueueInv
      <4>4. /\ Len(published') = Len(published) + 1 /\ published'[Len(published) + 1] = nodeItems[1].seq
            /\ \A k \in 1..Len(published) : published'[k] = published[k]
        BY <3>1, <3>2, <4>1, AppendProperties, SMT
      <4>5. Len(published') <= Len(sent) /\ \A k \in 1..Len(published') : published'[k] = sent[k]
        BY <3>2, <4>3, <4>4, SMT
      <4> QED
        BY <1>0, <2>1, <4>1, <4>5 DEF ClientInv
    <3> QED
      BY <3>3, <3>4
  <2> QED
    BY <1>5, <2>2, <2>3, ClientEffect
<1> QED
  BY <1>1, <1>2, <1>3, <1>4, <1>5, RelaySteps

LEMMA RelayInvariant == RelaySpec => []RelayInv
<1>1. RelayInit => RelayInv
  <2> SUFFICES ASSUME RelayInit PROVE RelayInv
    OBVIOUS
  <2>1. /\ supItems = <<>> /\ nodeItems = <<>> /\ published = <<>> /\ sent = <<>> /\ Len(<<>>) = 0
        /\ sup = "open" /\ runner = "recv" /\ client = "recv" /\ seen = "none"
    BY EmptySeq, SMT DEF RelayInit
  <2>2. RelayTypeOK
    BY EmptySeq, SMT DEF RelayInit, RelayTypeOK
  <2>3. (\A i \in 1..0 : FALSE) /\ 0 <= 0 /\ 0 + 0 = 0 /\ 0 \in Nat
    BY SMT
  <2>4. EventItems(<<>>) = {}
    BY <2>1, SMT DEF EventItems
  <2>5. Rest(0, {}, Seqs(<<>>), <<>>)
    BY <2>1, <2>3, RestNone
  <2>6. "recv" \notin RelayedRuns /\ "recv" \notin Ended /\ "none" \notin Ended
    BY DEF RelayedRuns, Ended
  <2>7. SupInv /\ NodeInv
    BY <2>1, <2>3, <2>6 DEF SupInv, NodeInv
  <2>8. QueueInv
    BY <2>1, <2>3, <2>4, <2>5, <2>6 DEF QueueInv
  <2>9. ClientInv
    BY <2>1, <2>3, <2>6 DEF ClientInv
  <2> QED
    BY <2>2, <2>7, <2>8, <2>9 DEF RelayInv
<1>2. RelayInv /\ RelayNext => RelayInv'
  BY RelayTypeStep, SupInvStep, NodeInvStep, QueueStep, ClientInvStep DEF RelayInv
<1>3. RelayInv /\ UNCHANGED relayVars => RelayInv'
  <2> SUFFICES ASSUME RelayInv, UNCHANGED relayVars PROVE RelayInv'
    OBVIOUS
  <2>1. /\ sup' = sup /\ supItems' = supItems /\ seq' = seq /\ sent' = sent /\ verdict' = verdict /\ runner' = runner
        /\ seen' = seen /\ node' = node /\ nodeItems' = nodeItems /\ client' = client /\ published' = published
    BY DEF relayVars
  <2>2. RelayTypeOK' /\ SupInv' /\ NodeInv'
    BY <2>1, ZenonT(40) DEF RelayInv, RelayTypeOK, SupInv, NodeInv
  <2>3. QueueInv' /\ ClientInv'
    BY <2>1 DEF RelayInv, QueueInv, ClientInv
  <2> QED
    BY <2>2, <2>3 DEF RelayInv
<1>4. RelayInv /\ [RelayNext]_relayVars => RelayInv'
  BY <1>2, <1>3
<1> QED
  BY <1>1, <1>4, PTL DEF RelaySpec

\* However either gRPC stream breaks and whatever was still buffered in it: the
\* broker is given a prefix of the events the supervisor sent, the Prompt activity
\* is told that a run ended only with the supervisor's verdict and after the last
\* event, and that it still streams only when the supervisor's stream broke.
THEOREM RelayTellsTruth == RelaySpec => []RelayFaithful
<1>1. RelayInv => RelayFaithful
  BY DEF RelayInv, ClientInv, RelayFaithful
<1> QED
  BY <1>1, RelayInvariant, PTL

-----------------------------------------------------------------------------
(* The end of the relay on its way: why nobody waits for ever.               *)

\* The stream states agree with the two receive loops, and a stream that ended in
\* order still holds its final item for a side that goes on receiving.
EndsInv ==
  /\ runner = "recv" => node \in {"open", "broken"} /\ sup # "cancelled"
  /\ runner # "recv" => node # "open"
  /\ client # "recv" => node # "open"
  /\ (sup = "ended" /\ runner = "recv") => \E i \in 1..Len(supItems) : supItems[i].final
  /\ (node = "ended" /\ client = "recv") => \E i \in 1..Len(nodeItems) : nodeItems[i].final

\* A return of Runner.Prompt leaves a node stream that is not open, and one that
\* ended in order with its final item.
LEMMA RunnerReturnsEnds ==
  ASSUME NEW r, r # "recv", NEW items \in Seq(Items), RunnerReturns(r, items),
         [seq |-> 0, run |-> r, final |-> TRUE] \in Items \/ r = "error"
  PROVE  /\ runner' # "recv" /\ node' # "open"
         /\ node' = "ended" => \E i \in 1..Len(nodeItems') : nodeItems'[i].final
<1>1. runner' # "recv" /\ node' # "open"
  BY DEF RunnerReturns
<1>2. ASSUME node' = "ended" PROVE \E i \in 1..Len(nodeItems') : nodeItems'[i].final
  <2> DEFINE item == [seq |-> 0, run |-> r, final |-> TRUE]
  <2>1. item \in Items /\ item.final /\ nodeItems' = Append(items, item)
    BY <1>2 DEF RunnerReturns
  <2> HIDE DEF item
  <2>2. Len(nodeItems') = Len(items) + 1 /\ Len(items) \in Nat /\ nodeItems'[Len(items) + 1] = item
    BY <2>1, AfterAppend, SMT
  <2>3. Len(nodeItems') \in 1..Len(nodeItems') /\ nodeItems'[Len(nodeItems')] = item
    BY <2>2, SMT
  <2> QED
    BY <2>1, <2>3
<1> QED
  BY <1>1, <1>2

\* A final item that is not the first of a queue is still there after a receive.
LEMMA FinalStays ==
  ASSUME NEW s \in Seq(Items), s # <<>>, ~s[1].final, \E i \in 1..Len(s) : s[i].final
  PROVE  \E i \in 1..Len(Tail(s)) : Tail(s)[i].final
<1>1. PICK i \in 1..Len(s) : s[i].final
  OBVIOUS
<1>2. /\ Len(s) \in Nat /\ Len(Tail(s)) = Len(s) - 1
      /\ \A j \in 1..Len(Tail(s)) : Tail(s)[j] = s[j + 1]
  BY AfterTail
<1>3. i # 1
  BY <1>1
<1>4. i - 1 \in 1..Len(Tail(s)) /\ (i - 1) + 1 = i
  BY <1>2, <1>3, SMT
<1> QED
  BY <1>1, <1>2, <1>4

LEMMA EndsInvStep ==
  ASSUME RelayTypeOK, SupInv, NodeInv, EndsInv, RelayNext
  PROVE  EndsInv'
<1> USE RelayShapes
<1>1. ASSUME SupEvent \/ SupZero \/ SupRefuse \/ (\E s \in Ended : SupFinal(s)) PROVE EndsInv'
  <2>1. PICK n \in Nat, run \in RelayedRuns, final \in BOOLEAN :
           SupSends(n, run, final) /\ [seq |-> n, run |-> run, final |-> final] \in Items
    BY <1>1, SupSendsEffect
  <2>2. /\ sup = "open" /\ sup' = (IF final THEN "ended" ELSE sup)
        /\ runner' = runner /\ node' = node /\ nodeItems' = nodeItems /\ client' = client
    BY <2>1, SupSendsOpen
  <2>3. final => \E i \in 1..Len(supItems') : supItems'[i].final
    <3> DEFINE item == [seq |-> n, run |-> run, final |-> final]
    <3>1. item \in Items /\ item.final = final /\ supItems' = Append(supItems, item)
      BY <2>1, SupSendsOpen
    <3> HIDE DEF item
    <3>2. /\ Len(supItems') = Len(supItems) + 1 /\ Len(supItems) \in Nat
          /\ supItems'[Len(supItems) + 1] = item
      BY <3>1, AfterAppend, SMT
    <3>3. Len(supItems') \in 1..Len(supItems') /\ supItems'[Len(supItems')] = item
      BY <3>2, SMT
    <3> QED
      BY <3>1, <3>3
  <2> QED
    BY <2>2, <2>3 DEF EndsInv
<1>2. CASE SupBreak \/ NodeBreak
  <2>1. /\ sup' \in {sup, "broken"} /\ node' \in {node, "broken"}
        /\ supItems' = supItems /\ runner' = runner /\ nodeItems' = nodeItems /\ client' = client
    BY <1>2 DEF SupBreak, NodeBreak, supVars, runnerVars, nodeVars, clientVars
  <2> QED
    BY <2>1 DEF EndsInv
<1>3. CASE RunnerRecv
  <2> DEFINE item == supItems[1]
  <2>1. /\ supItems # <<>> /\ Head(supItems) = item /\ item \in Items /\ item.run \in RelayedRuns \cup {"none"}
        /\ 1 \in 1..Len(supItems) /\ supItems' = Tail(supItems) /\ runner = "recv" /\ client' = client
    BY <1>3, AfterTail, ItemTyped DEF RunnerRecv, clientVars
  <2>2. item.final => item.run \in Ended
    BY <2>1 DEF SupInv
  <2>3. Passed(item) \in Seq(Items)
    BY <2>1, PassedTyped
  <2>4. CASE item.seq # 0 /\ node = "broken"
    <3>1. RunnerReturns("error", nodeItems)
      BY <1>3, <2>1, <2>4 DEF RunnerRecv
    <3> QED
      BY <2>1, <3>1, RunnerReturnsEnds DEF EndsInv
  <2>5. CASE ~(item.seq # 0 /\ node = "broken") /\ item.final
    <3>1. RunnerReturns(item.run, Passed(item))
      BY <1>3, <2>1, <2>5 DEF RunnerRecv, Passed
    <3>2. item.run # "recv" /\ item.run \in RelayedRuns
      BY <2>2, <2>5 DEF Ended, RelayedRuns
    <3>3. [seq |-> 0, run |-> item.run, final |-> TRUE] \in Items
      BY <3>2, SMT DEF Items
    <3> QED
      BY <2>3, <3>1, <3>2, <3>3, RunnerReturnsEnds DEF EndsInv
  <2>6. CASE ~(item.seq # 0 /\ node = "broken") /\ ~item.final
    <3>1. runner' = runner /\ sup' = sup /\ node' = node
      BY <1>3, <2>1, <2>6 DEF RunnerRecv
    <3>2. (\E i \in 1..Len(supItems) : supItems[i].final) => \E i \in 1..Len(supItems') : supItems'[i].final
      BY <2>1, <2>6, FinalStays
    <3>3. node' # "ended"
      BY <2>1, <3>1 DEF EndsInv
    <3> QED
      BY <2>1, <3>1, <3>2, <3>3 DEF EndsInv
  <2> QED
    BY <2>4, <2>5, <2>6
<1>4. CASE RunnerRecvError
  <2>1. runner = "recv" /\ client' = client /\ seen \in {"streaming", "none"}
    BY <1>4 DEF RunnerRecvError, clientVars, RelayTypeOK, SupInv, RelayedRuns
  <2>2. PICK r \in {"streaming", "error"} : RunnerReturns(r, nodeItems)
    BY <1>4, <2>1 DEF RunnerRecvError
  <2>3. [seq |-> 0, run |-> "streaming", final |-> TRUE] \in Items
    BY SMT DEF Items, RelayedRuns
  <2> QED
    BY <2>2, <2>3, RunnerReturnsEnds DEF EndsInv
<1>5. CASE ClientStep
  <2>1. /\ client = "recv" /\ sup' = sup /\ supItems' = supItems /\ runner' = runner
    BY <1>5, ClientEffect
  <2>2. node' \in {node, "broken"} /\ (client' # "recv" => node' # "open")
    BY <1>5 DEF ClientStep, ClientRecv, ClientPublishError, ClientRecvError, ClientReturns
  <2>3. ASSUME client' = "recv", node' = "ended", \E i \in 1..Len(nodeItems) : nodeItems[i].final
        PROVE  \E i \in 1..Len(nodeItems') : nodeItems'[i].final
    <3>1. ClientRecv
      BY <1>5, <2>3 DEF ClientStep, ClientPublishError, ClientRecvError, ClientReturns
    <3>2. nodeItems # <<>> /\ nodeItems' = Tail(nodeItems) /\ Head(nodeItems) = nodeItems[1] /\ 1 \in 1..Len(nodeItems)
      BY <3>1, AfterTail DEF ClientRecv
    <3>3. ~nodeItems[1].final
      <4>1. ASSUME nodeItems[1].final PROVE FALSE
        <5>1. client' = nodeItems[1].run /\ nodeItems[1].run \in RelayedRuns
          BY <3>1, <3>2, <4>1 DEF ClientRecv, ClientReturns, NodeInv
        <5> QED
          BY <2>3, <5>1 DEF RelayedRuns, Ended
      <4> QED
        BY <4>1
    <3> QED
      BY <2>3, <3>2, <3>3, FinalStays
  <2>4. node' = "ended" => node = "ended"
    BY <2>2
  <2> QED
    BY <2>1, <2>2, <2>3, <2>4 DEF EndsInv
<1> QED
  BY <1>1, <1>2, <1>3, <1>4, <1>5, RelaySteps

\* While the activity waits and either stream is no longer open, the client or the
\* Runner has something to receive; once the activity is gone, the Runner has
\* returned and cancelled the supervisor's stream or finds its own context ended.
RelayMoves ==
  /\ (client = "recv" /\ (sup # "open" \/ node # "open")) =>
       \/ nodeItems # <<>> \/ node \in {"broken", "failed"}
       \/ runner = "recv" /\ (supItems # <<>> \/ sup = "broken")
  /\ client # "recv" => \/ runner # "recv" /\ sup # "open"
                        \/ runner = "recv" /\ node = "broken"

\* The relay is never stuck: however the two streams end or break, the receive of
\* RemoteNodeClient.Prompt or of Runner.Prompt does not block, until the activity
\* has its answer and the supervisor's stream is closed.  With the scheduler's
\* fairness this is why ClientAnswered and NoOrphan hold.
THEOREM RelayNeverStuck == RelaySpec => []RelayMoves
<1>1. RelayInit => EndsInv
  BY DEF RelayInit, EndsInv
<1>2. RelayInv /\ EndsInv /\ RelayNext => EndsInv'
  BY EndsInvStep DEF RelayInv
<1>3. EndsInv /\ UNCHANGED relayVars => EndsInv'
  <2> SUFFICES ASSUME EndsInv, UNCHANGED relayVars PROVE EndsInv'
    OBVIOUS
  <2>1. /\ sup' = sup /\ supItems' = supItems /\ runner' = runner
        /\ node' = node /\ nodeItems' = nodeItems /\ client' = client
    BY DEF relayVars
  <2> QED
    BY <2>1 DEF EndsInv
<1>4. RelayInv /\ EndsInv /\ [RelayNext]_relayVars => EndsInv'
  BY <1>2, <1>3
<1>5. RelayInv /\ EndsInv => RelayMoves
  <2> SUFFICES ASSUME RelayInv, EndsInv PROVE RelayMoves
    OBVIOUS
  <2>1. (\A i \in 1..Len(<<>>) : FALSE)
    BY SMT
  <2>2. node = "ended" /\ client = "recv" => nodeItems # <<>>
    BY <2>1 DEF EndsInv
  <2>3. sup = "ended" /\ runner = "recv" => supItems # <<>>
    BY <2>1 DEF EndsInv
  <2>4. /\ sup \in {"open", "ended", "broken", "cancelled"} /\ node \in {"open", "ended", "failed", "broken"}
        /\ runner # "recv" => sup # "open"
    BY DEF RelayInv, RelayTypeOK, SupInv
  <2> QED
    BY <2>2, <2>3, <2>4 DEF EndsInv, RelayMoves
<1> QED
  BY <1>1, <1>4, <1>5, RelayInvariant, PTL DEF RelaySpec
=============================================================================
