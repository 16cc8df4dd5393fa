-------------------------- MODULE MCSessionEvents --------------------------
(* SessionEvents for TLC: a Prompt publishes two events, a Cancel one. *)
EXTENDS SessionEvents, TLC

CONSTANTS prompt, cancel

MCMaxEvents == prompt :> 2 @@ cancel :> 1

\* The clients of the RedisBroker share nothing: one of them is enough.
MCMaxOpen == [memory |-> 2, redis |-> 1]
=============================================================================
