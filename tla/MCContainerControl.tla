------------------------- MODULE MCContainerControl -------------------------
(* Small instances of ContainerControl for TLC: one update of each kind.   *)
EXTENDS ContainerControl, TLC

CONSTANTS s1, i1, i2, n1, l1, h1, d1, digestA, digestB

MCkind == [u \in Updates |-> CASE u = s1 -> "start"
                               [] u \in {i1, i2} -> "install"
                               [] u = n1 -> "createSession"
                               [] u = l1 -> "loadSession"
                               [] u = h1 -> "hibernate"
                               [] u = d1 -> "delete"]
MCdigest == [u \in Updates |-> IF u = i2 THEN digestB ELSE digestA]

\* The updates of an operator, and those of clients with sessions.
MCMixes == {{s1, i1, h1, d1}, {s1, n1, l1, d1}}

MCAll == {Updates}
=============================================================================
