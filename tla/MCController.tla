---------------------------- MODULE MCController ----------------------------
(***************************************************************************)
(* Small instances of Controller.                                          *)
(***************************************************************************)
EXTENDS Controller

CONSTANTS a, b, c

Worker(n, deps, r) == [name |-> n, type |-> "Worker", dependsOn |-> deps, replicas |-> r]
Gate(n, deps)      == [name |-> n, type |-> "HumanInTheLoop", dependsOn |-> deps, replicas |-> 0]

\* A chain, the same with a third node that c joins, and the chain with a gate.
Chain  == <<Worker(a, <<>>, 0), Worker(c, <<a>>, 1)>>
FanIn  == <<Worker(c, <<a, b>>, 2), Gate(b, <<>>), Worker(a, <<>>, 1)>>
Gated  == <<Worker(a, <<>>, 1), Gate(c, <<a>>)>>

AllDesigns == {Chain, FanIn, Gated}
ChainOnly  == {Chain}
=============================================================================
