------------------------------ MODULE Planning ------------------------------
(***************************************************************************)
(* The functions a create-session request goes through before it touches a *)
(* container: validation of registry documents (registry/parser.go), the   *)
(* bundle of an agent (bundle/resolver.go) and the execution plan          *)
(* (control/plan.go).  Texts are abstract: an empty one is "", a platform  *)
(* is a name and the form it is spelt in, and a distribution's payload is  *)
(* nil, bad (no package, or an unusable URL) or full.                      *)
(***************************************************************************)
EXTENDS Naturals, Sequences

CONSTANT Host   \* the platform the worker runs on, in normal form

NoPlatform == [name |-> "", form |-> "normal"]
NoLLM      == [key |-> "", env |-> <<>>]

Fails(why) == [err |-> why]

\* The map f, with what it leaves open taken from g.
Over(f, g) == [x \in DOMAIN f \cup DOMAIN g |-> IF x \in DOMAIN f THEN f[x] ELSE g[x]]

-----------------------------------------------------------------------------
\* Mutant: the payload of a distribution is not looked at.
validateAgentTypeOnly(a) == a.id # "" /\ a.version # "" /\ a.dist \in {"binary", "npx", "uvx"}

validateAgent(a) ==
  /\ a.id # "" /\ a.version # ""
  /\ a.dist \in {"binary", "npx", "uvx"} /\ a.payload = "full"

\* One bad agent rejects the whole document.
Parse(doc) == IF \A i \in DOMAIN doc : validateAgent(doc[i]) THEN [err |-> "", entries |-> doc]
              ELSE Fails("document")

Upsert(catalog, entry) == Over([id \in {entry.id} |-> entry], catalog)

-----------------------------------------------------------------------------
normalizePlatform(p) == [p EXCEPT !.form = "normal"]

Entrypoint(a) == CASE a.dist = "binary" -> <<"executable">>
                   [] a.dist = "npx" -> <<"npx", "-y", "package">>
                   [] a.dist = "uvx" -> <<"uvx", "package">>

\* The requested platform is compared as it was spelt, the agent's in normal
\* form.  A distribution without its payload is a nil pointer.  The digest is a
\* hash of the bundle's other fields.
Resolve(a, platform) ==
  LET p == IF platform = NoPlatform THEN Host ELSE platform IN
  IF a.platforms # {} /\ \A q \in a.platforms : normalizePlatform(q) # p THEN Fails("platform")
  ELSE IF a.dist \notin {"binary", "npx", "uvx"} THEN Fails("distribution")
  ELSE IF a.payload = "nil" THEN Fails("panic")
  ELSE [err |-> "", agent |-> a.id, version |-> a.version, platform |-> p,
        entrypoint |-> Entrypoint(a),
        digest |-> <<a.id, a.version, p, a.dist, a.payload>>]

-----------------------------------------------------------------------------
\* The profile's variables override its provider, its key overrides those.
injectLLMProfileEnv(llm) ==
  IF llm = NoLLM THEN <<>>
  ELSE Over(IF llm.key = "" THEN <<>> ELSE [KEY |-> llm.key], Over(llm.env, [PROVIDER |-> "profile"]))

\* A request without a policy runs in hosted mode.
normalizePolicy(policy) ==
  IF ~policy.hosted /\ ~policy.private /\ ~policy.terminal
  THEN [hosted |-> TRUE, terminal |-> FALSE, private |-> TRUE] ELSE policy

\* profile: node and terminal (AllowTerminalAuth); session: env and dir.  Resolve
\* always gives a digest, so that its absence is no error here.
CompileExecutionPlan(a, bundle, profile, session, llm, policy) ==
  IF a.id = "" THEN Fails("agent")
  ELSE IF ~profile.terminal /\ a.terminal /\ policy.hosted THEN Fails("auth")
  ELSE IF bundle.entrypoint = <<>> THEN Fails("entrypoint")
  ELSE [err |-> "", agent |-> a.id, digest |-> bundle.digest,
        env |-> Over(injectLLMProfileEnv(llm), Over(session.env, a.env)),
        terminal |-> IF policy.hosted THEN policy.terminal /\ profile.terminal
                     ELSE profile.terminal,
        node |-> profile.node,
        dir |-> IF session.dir = "" THEN "workspace root" ELSE session.dir]

=============================================================================
