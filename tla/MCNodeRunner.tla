---------------------------- MODULE MCNodeRunner ----------------------------
(* Small instances of NodeRunner for TLC.                                  *)
EXTENDS NodeRunner

CONSTANTS e1, e2, k1, m1, m2, o1, o2, d1, f1, c1, c2

\* The EnsureAgent calls race for one key.
MCagentKey == [e \in Ensures |-> k1]

\* Many requests to one supervisor; two containers, or one container twice, with
\* a delete and a prompt.
MCMixes == {{m1, c1, e1, e2, o1, o2}, {m1, m2, c1, c2, e1, o1, d1, f1}}
=============================================================================
