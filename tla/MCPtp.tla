------------------------------- MODULE MCPtp -------------------------------
(* Three stations n1, n2, n3.  Alike: builds of this repository, which      *)
(* differ in their identity only.  Mixed: a priority that does not agree    *)
(* with the order of the identities.                                        *)
EXTENDS Ptp, TLC

CONSTANTS n1, n2, n3

Announced(p, i) == [priority1 |-> p, identity |-> i, steps |-> 0]

Alike == (n1 :> Announced(246, 1)) @@ (n2 :> Announced(246, 2))
            @@ (n3 :> Announced(246, 3))
Mixed == (n1 :> Announced(100, 2)) @@ (n2 :> Announced(200, 1))
            @@ (n3 :> Announced(246, 3))

FirstTwice == (n1 :> 2) @@ (n2 :> 1) @@ (n3 :> 1)
Once == [n \in {n1, n2, n3} |-> 1]
BestToSecond == {<<n1, n2>>}
=============================================================================
