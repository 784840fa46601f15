------------------------------ MODULE MCRunner ------------------------------
(***************************************************************************)
(* Small instances of Runner.  old is a node the fan-in node no longer     *)
(* depends on: it left the spec, but nothing deletes its Deployment, which *)
(* goes on publishing to the topics it was wired to.                       *)
(***************************************************************************)
EXTENDS Runner, TLC

CONSTANTS p1, p2, q1, q2, a, b, old, e1, e2, e3, c1, c2

\* A fan-in node with two dependencies, and a node with one.
TwoDeps == <<a, b>>
OneDep  == <<a>>

\* One event with its own correlation ID.
OneEvent == [e \in {e1} |-> c1]

\* Two events with a correlation ID each.
OwnIds == [e \in {e1, e2} |-> IF e = e1 THEN c1 ELSE c2]

\* Two events that share a correlation ID, and one with its own.
SharedId == [e \in {e1, e2, e3} |-> IF e = e3 THEN c2 ELSE c1]

\* All keys in one partition, or one partition per key.
OnePartition  == [c \in Corr |-> q1]
TwoPartitions == [c \in Corr |-> IF c = c1 THEN q1 ELSE q2]

\* Swapping the two dependencies, or the two events of one ID, changes nothing: the
\* model uses the set and the number of dependencies, never their order.
SameRoles == Permutations({a, b}) \cup Permutations({e1, e2})
=============================================================================
