----------------------------- MODULE EventFeed -----------------------------
(***************************************************************************)
(* What the session broker promises an SSE client, whichever implementation *)
(* is behind it: the client gets events that were published after it       *)
(* subscribed, those of one publisher in the order of publishing and none  *)
(* of them twice.  Events may be lost; nothing arrives after the end.      *)
(***************************************************************************)
EXTENDS Naturals

CONSTANTS Clients, Publishers

VARIABLES
  count,   \* count[p]: events p has published; its k-th event is number k
  status,  \* a client's subscription: none, open or closed
  last,    \* last[c][p]: the number up to which c has left p's events behind
  got      \* got[c]: how many events c was given

vars == <<count, status, last, got>>

Init ==
  /\ count = [p \in Publishers |-> 0]
  /\ status = [c \in Clients |-> "none"]
  /\ last = [c \in Clients |-> [p \in Publishers |-> 0]]
  /\ got = [c \in Clients |-> 0]

Publish(p) == count' = [count EXCEPT ![p] = @ + 1] /\ UNCHANGED <<status, last, got>>

Open(c) ==
  /\ status[c] = "none"
  /\ status' = [status EXCEPT ![c] = "open"]
  /\ last' = [last EXCEPT ![c] = count]
  /\ UNCHANGED <<count, got>>

\* The client gets the event number k of p; the ones it passes over are lost.
Deliver(c, p, k) ==
  /\ status[c] = "open"
  /\ last[c][p] < k /\ k <= count[p]
  /\ last' = [last EXCEPT ![c][p] = k]
  /\ got' = [got EXCEPT ![c] = @ + 1]
  /\ UNCHANGED <<count, status>>

Close(c) ==
  /\ status[c] = "open"
  /\ status' = [status EXCEPT ![c] = "closed"]
  /\ UNCHANGED <<count, last, got>>

Next ==
  \/ \E p \in Publishers : Publish(p)
  \/ \E c \in Clients : Open(c) \/ Close(c)
  \/ \E c \in Clients, p \in Publishers : \E k \in 1..count[p] : Deliver(c, p, k)

Spec == Init /\ [][Next]_vars

=============================================================================
