------------------------- MODULE MCSessionCreation -------------------------
(* SessionCreation for TLC: one request that may ask for anything and one   *)
(* that wants a session somewhere.                                          *)
EXTENDS SessionCreation, TLC

CONSTANTS q1, q2, n1, n2, c1, c2, c3

linux  == [name |-> "linux", form |-> "normal"]
linuxU == [name |-> "linux", form |-> "upper"]
mac    == [name |-> "mac", form |-> "normal"]

Agent(id, dist, payload, platforms, terminal) ==
  [id |-> id, version |-> "1", dist |-> dist, payload |-> payload, platforms |-> platforms,
   terminal |-> terminal, env |-> [KEY |-> "agent", A |-> "agent"]]

echo  == Agent("echo", "binary", "full", {}, FALSE)
shell == Agent("shell", "npx", "full", {linuxU}, TRUE)

MCDocs == {<<echo, shell>>, <<echo, Agent("shell", "uvx", "nil", {}, FALSE)>>}

Policies == {[hosted |-> FALSE, terminal |-> FALSE, private |-> FALSE],
             [hosted |-> TRUE, terminal |-> TRUE, private |-> FALSE],
             [hosted |-> FALSE, terminal |-> FALSE, private |-> TRUE]}

Plain == [op |-> "session", agent |-> "echo", manual |-> none, platform |-> NoPlatform, container |-> none,
          profile |-> [node |-> none, terminal |-> FALSE],
          session |-> [env |-> <<>>, dir |-> ""], llm |-> NoLLM,
          policy |-> [hosted |-> FALSE, terminal |-> FALSE, private |-> FALSE]]

AuthInputs ==
  {[Plain EXCEPT !.agent = "shell", !.platform = p, !.profile.terminal = t, !.policy = pol] :
     p \in {NoPlatform, linuxU, mac}, t \in BOOLEAN, pol \in Policies}

EnvInputs == {[Plain EXCEPT !.llm = [key |-> k, env |-> [KEY |-> "profile"]],
                            !.session.env = [KEY |-> "session"]] : k \in {"", "key"}}

PlaceInputs == {[Plain EXCEPT !.container = c, !.profile.node = n] : c \in {none, c1}, n \in {none, n2}}

InstallInputs == {[Plain EXCEPT !.op = "install", !.container = c1, !.agent = "shell"]}

ManualInputs == {[Plain EXCEPT !.manual = Agent("", "npx", p, {}, FALSE)] : p \in {"nil", "full"}}

MCInputs == q1 :> AuthInputs \cup EnvInputs \cup PlaceInputs \cup ManualInputs \cup InstallInputs @@ q2 :> {Plain}

MCNodes == <<n1, n2>>
=============================================================================
