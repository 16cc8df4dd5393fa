----------------------------- MODULE AcpClient -----------------------------
(***************************************************************************)
(* The ACP stdio client (acp/stdio.go): JSON-RPC calls of several          *)
(* goroutines over the stdin and stdout pipes of one agent subprocess.     *)
(* Each call registers a reply channel of capacity one, writes its request *)
(* while it holds c.mu, and then waits for its reply or for its context;   *)
(* one readLoop goroutine decodes the agent's output, hands replies to the *)
(* waiting calls, session/update notifications to the handler, and fails   *)
(* every registered call when the output ends.                             *)
(*                                                                         *)
(* Requests are identified by the call that sent them (control.NewID gives *)
(* every call its own id) and a reply is represented by the call it        *)
(* answers.  Pipes hold at most PipeCap messages.                          *)
(***************************************************************************)
EXTENDS Naturals, Sequences

CONSTANTS Calls,     \* the calls made during the life of the client
          Nobody,    \* no lock holder, no request being served
          PipeCap,   \* messages an OS pipe buffers before a writer blocks
          MaxNoise   \* bound: unsolicited messages the agent writes

ASSUME AcpAssumption ==
  /\ Nobody \notin Calls
  /\ Calls \cap {"update", "other", "garbage"} = {}
  /\ PipeCap \in Nat \ {0}
  /\ MaxNoise \in Nat

VARIABLES
  pc,        \* where each call is
  result,    \* what each call returned
  wait,      \* the reply channel of each call: open and empty, or closed with
             \* a reply or an error in its one slot, or closed and drained
  pending,   \* c.pending: the calls whose channel is registered
  mu,        \* holder of c.mu
  reader,    \* where the readLoop goroutine is
  env,       \* the envelope the readLoop has decoded
  stdin,     \* requests in the pipe to the agent
  stdout,    \* messages in the pipe from the agent
  pipes,     \* open, or closed by Close or by cmd.Wait
  agent,     \* the agent process is up or has exited
  busy,      \* the request the agent is serving
  answered,  \* the requests the agent has answered
  noise      \* unsolicited messages written so far

callVars  == <<pc, result>>
readVars  == <<reader, env>>
agentVars == <<agent, busy, answered, noise>>
vars == <<pc, result, wait, pending, mu, reader, env, stdin, stdout,
          pipes, agent, busy, answered, noise>>

\* What the agent writes: a reply, a session/update notification, another
\* message without an id, or something that is not JSON.
Envelopes == Calls \cup {"update", "other", "garbage"}

TypeOK ==
  /\ pc \in [Calls -> {"idle", "encode", "wait", "done"}]
  /\ result \in [Calls -> {"none", "ok", "error", "ctx", "write", "eof"}]
  /\ wait \in [Calls -> {"open", "reply", "error", "drained"}]
  /\ pending \subseteq Calls
  /\ mu \in Calls \cup {Nobody}
  /\ reader \in {"decode", "lookup", "send", "notify", "failAll", "done"}
  /\ env \in Envelopes
  /\ stdin \in Seq(Calls)
  /\ stdout \in Seq(Envelopes)
  /\ pipes \in {"open", "closed"}
  /\ agent \in {"up", "exited"}
  /\ busy \in Calls \cup {Nobody}
  /\ answered \subseteq Calls
  /\ noise \in Nat

\* NewClient: empty pending map, readLoop started.
Init ==
  /\ pc = [c \in Calls |-> "idle"]
  /\ result = [c \in Calls |-> "none"]
  /\ wait = [c \in Calls |-> "open"]
  /\ pending = {}
  /\ mu = Nobody
  /\ reader = "decode"
  /\ env = "other"
  /\ stdin = <<>> /\ stdout = <<>>
  /\ pipes = "open" /\ agent = "up"
  /\ busy = Nobody /\ answered = {} /\ noise = 0

-----------------------------------------------------------------------------
(* call: one request.  Encode writes to the pipe while c.mu is held.       *)

Return(c, r) ==
  /\ pc' = [pc EXCEPT ![c] = "done"]
  /\ result' = [result EXCEPT ![c] = r]

\* Lock c.mu, register the reply channel, start writing the request.
CallRegister(c) ==
  /\ pc[c] = "idle" /\ mu = Nobody
  /\ pc' = [pc EXCEPT ![c] = "encode"]
  /\ mu' = c
  /\ pending' = pending \cup {c}
  /\ UNCHANGED <<result, wait, readVars, stdin, stdout, pipes, agentVars>>

\* Mutant: a failed write is never reported.
CallEncodeNoError(c) ==
  /\ pc[c] = "encode"
  /\ agent = "up" /\ pipes = "open" /\ Len(stdin) < PipeCap
  /\ mu' = Nobody
  /\ stdin' = Append(stdin, c)
  /\ pc' = [pc EXCEPT ![c] = "wait"]
  /\ UNCHANGED <<result, wait, pending, readVars, stdout, pipes, agentVars>>

\* Encode finishes: written when the pipe has room, an error when the agent or
\* the pipe is gone; it blocks, still holding c.mu, when the pipe is full.
CallEncode(c) ==
  /\ pc[c] = "encode"
  /\ mu' = Nobody
  /\ \/ /\ agent = "up" /\ pipes = "open" /\ Len(stdin) < PipeCap
        /\ stdin' = Append(stdin, c)
        /\ pc' = [pc EXCEPT ![c] = "wait"]
        /\ UNCHANGED result
     \/ /\ agent = "exited" \/ pipes = "closed"
        /\ Return(c, "write")
        /\ UNCHANGED stdin
  /\ UNCHANGED <<wait, pending, readVars, stdout, pipes, agentVars>>

\* The receive from the reply channel: the agent's reply, which may carry an
\* error or a result that does not unmarshal; the error of failAll; or io.EOF
\* from a channel closed without either.
CallReceive(c) ==
  /\ pc[c] = "wait"
  /\ \/ wait[c] = "reply" /\ (Return(c, "ok") \/ Return(c, "error"))
     \/ wait[c] = "error" /\ Return(c, "error")
     \/ wait[c] = "drained" /\ Return(c, "eof")
  /\ wait' = [wait EXCEPT ![c] = "drained"]
  /\ UNCHANGED <<pending, mu, readVars, stdin, stdout, pipes, agentVars>>

\* ctx.Done wins the select; the registration stays in c.pending.
CallCtxDone(c) ==
  /\ pc[c] = "wait"
  /\ Return(c, "ctx")
  /\ UNCHANGED <<wait, pending, mu, readVars, stdin, stdout, pipes, agentVars>>

\* Close shuts both pipes of the client; EnsureAgent calls it when the agent
\* does not answer initialize.
Close ==
  /\ pipes = "open"
  /\ pipes' = "closed"
  /\ UNCHANGED <<callVars, wait, pending, mu, readVars, stdin, stdout, agentVars>>

-----------------------------------------------------------------------------
(* readLoop                                                                *)

CanSend(c) == wait[c] = "open"

\* Decode succeeds; methods other than session/update are skipped.
ReadDecode ==
  /\ reader = "decode" /\ stdout # <<>>
  /\ Head(stdout) # "garbage"
  /\ env' = Head(stdout)
  /\ stdout' = Tail(stdout)
  /\ reader' = CASE env' \in Calls -> "lookup"
                 [] env' = "update" -> "notify"
                 [] OTHER -> "decode"
  /\ UNCHANGED <<callVars, wait, pending, mu, stdin, pipes, agentVars>>

\* Mutant: the registration is not deleted.
ReadLookupKeeps ==
  /\ reader = "lookup" /\ mu = Nobody
  /\ reader' = IF env \in pending THEN "send" ELSE "decode"
  /\ UNCHANGED <<callVars, wait, pending, mu, env, stdin, stdout, pipes, agentVars>>

\* Take and delete the registration under c.mu; an unknown id is ignored.
ReadLookup ==
  /\ reader = "lookup" /\ mu = Nobody
  /\ pending' = pending \ {env}
  /\ reader' = IF env \in pending THEN "send" ELSE "decode"
  /\ UNCHANGED <<callVars, wait, mu, env, stdin, stdout, pipes, agentVars>>

\* ch <- env; close(ch).  A full channel would block, a closed one panic.
ReadSend ==
  /\ reader = "send" /\ CanSend(env)
  /\ wait' = [wait EXCEPT ![env] = "reply"]
  /\ reader' = "decode"
  /\ UNCHANGED <<callVars, pending, mu, env, stdin, stdout, pipes, agentVars>>

\* Read the handler under c.mu and run it.  The handler is agentHandle.routeEvent
\* (module PromptStream), which never blocks.
ReadNotify ==
  /\ reader = "notify" /\ mu = Nobody
  /\ reader' = "decode"
  /\ UNCHANGED <<callVars, wait, pending, mu, env, stdin, stdout, pipes, agentVars>>

\* Mutant: readLoop returns without failAll.
ReadErrorReturns ==
  /\ reader = "decode"
  /\ \/ pipes = "closed"
     \/ agent = "exited" /\ stdout = <<>>
     \/ stdout # <<>> /\ Head(stdout) = "garbage"
  /\ reader' = "done"
  /\ UNCHANGED <<callVars, wait, pending, mu, env, stdin, stdout, pipes, agentVars>>

\* Decode fails: end of output, closed pipe, or output that is not JSON.
ReadError ==
  /\ reader = "decode"
  /\ \/ pipes = "closed"
     \/ agent = "exited" /\ stdout = <<>>
     \/ stdout # <<>> /\ Head(stdout) = "garbage"
  /\ reader' = "failAll"
  /\ UNCHANGED <<callVars, wait, pending, mu, env, stdin, stdout, pipes, agentVars>>

\* Mutant: the map is cleared and nobody is told.
FailAllSilent ==
  /\ reader = "failAll" /\ mu = Nobody
  /\ pending' = {}
  /\ reader' = "done"
  /\ UNCHANGED <<callVars, wait, mu, env, stdin, stdout, pipes, agentVars>>

\* Mutant: the envelope sent carries no Error.
FailAllNoError ==
  /\ reader = "failAll" /\ mu = Nobody
  /\ wait' = [c \in Calls |-> IF c \in pending THEN "reply" ELSE wait[c]]
  /\ pending' = {}
  /\ reader' = "done"
  /\ UNCHANGED <<callVars, mu, env, stdin, stdout, pipes, agentVars>>

\* Every registered call gets an error and a closed channel; readLoop ends.
FailAll ==
  /\ reader = "failAll" /\ mu = Nobody
  /\ \A c \in pending : CanSend(c)
  /\ wait' = [c \in Calls |-> IF c \in pending THEN "error" ELSE wait[c]]
  /\ pending' = {}
  /\ reader' = "done"
  /\ UNCHANGED <<callVars, mu, env, stdin, stdout, pipes, agentVars>>

-----------------------------------------------------------------------------
(* The agent subprocess, external to the client.  Like the echo agent it   *)
(* serves one request at a time and writes its replies before it reads on; *)
(* it may also write updates, notifications of other kinds, a second reply *)
(* to a request, or something that is not JSON.                            *)

AgentRead ==
  /\ agent = "up" /\ busy = Nobody /\ stdin # <<>>
  /\ busy' = Head(stdin)
  /\ stdin' = Tail(stdin)
  /\ UNCHANGED <<callVars, wait, pending, mu, readVars, stdout, pipes, agent, answered, noise>>

AgentReply ==
  /\ agent = "up" /\ busy # Nobody /\ Len(stdout) < PipeCap
  /\ stdout' = Append(stdout, busy)
  /\ busy' = Nobody
  /\ answered' = answered \cup {busy}
  /\ UNCHANGED <<callVars, wait, pending, mu, readVars, stdin, pipes, agent, noise>>

AgentNoise(m) ==
  /\ agent = "up" /\ noise < MaxNoise /\ Len(stdout) < PipeCap
  /\ m \in Calls => m \in answered
  /\ stdout' = Append(stdout, m)
  /\ noise' = noise + 1
  /\ UNCHANGED <<callVars, wait, pending, mu, readVars, stdin, pipes, agent, busy, answered>>

AgentExit ==
  /\ agent = "up"
  /\ agent' = "exited"
  /\ UNCHANGED <<callVars, wait, pending, mu, readVars, stdin, stdout, pipes, busy, answered, noise>>

\* agentHandle.wait: cmd.Wait reaps the exited process and closes the read end
\* of its output, whether or not the readLoop has drained it.
Wait ==
  /\ agent = "exited" /\ pipes = "open"
  /\ pipes' = "closed"
  /\ UNCHANGED <<callVars, wait, pending, mu, readVars, stdin, stdout, agentVars>>

-----------------------------------------------------------------------------
CallStep(c) == CallRegister(c) \/ CallEncode(c) \/ CallReceive(c)
ReaderStep  == ReadDecode \/ ReadLookup \/ ReadSend \/ ReadNotify \/ ReadError \/ FailAll
AgentStep   == AgentRead \/ AgentReply

Next ==
  \/ \E c \in Calls : CallStep(c) \/ CallCtxDone(c)
  \/ ReaderStep
  \/ AgentStep
  \/ \E m \in Envelopes : AgentNoise(m)
  \/ AgentExit
  \/ Wait
  \/ Close

Spec == Init /\ [][Next]_vars

\* The Go scheduler runs every runnable goroutine; the agent serves what it
\* reads.  Nothing makes a context end, the agent exit or the client close.
FairSpec ==
  /\ Spec
  /\ WF_vars(ReaderStep)
  /\ WF_vars(AgentStep)
  /\ \A c \in Calls : WF_vars(CallEncode(c)) /\ WF_vars(CallReceive(c))

-----------------------------------------------------------------------------
(* Properties                                                              *)

\* Every registered channel is empty and open, and so is the channel the
\* readLoop has taken out of the map: neither `ch <- env` in readLoop nor the
\* one in failAll, which runs under c.mu, can block or panic, whatever
\* duplicated or late replies the agent writes.
SendSafe ==
  /\ \A c \in pending : CanSend(c)
  /\ reader = "send" => CanSend(env)

\* No call is forgotten: one that waits has its reply in its channel, is still
\* registered, or is in the readLoop's hands.  In particular the `!ok` branch
\* of call (io.EOF) is never taken.
NoCallForgotten ==
  \A c \in Calls :
    /\ pc[c] = "wait" =>
         \/ wait[c] \in {"reply", "error"}
         \/ c \in pending
         \/ reader = "send" /\ env = c
    /\ result[c] # "eof"

\* A call succeeds only on the agent's own answer to it, and an answered call
\* leaves nothing behind in c.pending.
AnswersMatch ==
  \A c \in Calls :
    /\ result[c] = "ok" => c \in answered
    /\ result[c] \in {"ok", "error"} => c \notin pending

\* When the agent exits, every call registered while the readLoop still runs
\* returns without the help of its context: failAll reaches it.
ExitReleasesCallers ==
  \A c \in Calls :
    (agent = "exited" /\ c \in pending /\ pc[c] = "wait" /\ reader # "done") ~> (pc[c] = "done")

\* Encode ignores the call's context.  The only way it blocks for ever is the
\* cycle in which both pipes are full, the agent waits to write its reply and
\* the readLoop, in need of c.mu or already ended, does not drain it.
EncodeBlocksOnlyInCycle ==
  \A c \in Calls :
    (pc[c] = "encode") ~>
       \/ pc[c] # "encode"
       \/ /\ Len(stdin) = PipeCap /\ Len(stdout) = PipeCap
          /\ agent = "up" /\ busy # Nobody
          /\ reader \in {"lookup", "notify", "failAll", "done"}

=============================================================================
