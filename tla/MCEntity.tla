------------------------------ MODULE MCEntity ------------------------------
(* Entity in five rounds: other entities, controllers that read all, that   *)
(* acquire it, that name it, and that ask anything.                         *)
EXTENDS Entity, TLC

CONSTANTS e1, e2, e3, r1, r2, o1, o2, n1, a1, named

TheWish == [c \in {n1} |-> named]
TheStart == (r1 :> D("ENTITY", 0)) @@ (r2 :> D("STREAM_PORT_INPUT", 0))
FiveRounds == {{e1, e2, e3}, {r1, r2}, {o1, o2}, {n1}, {a1}}
=============================================================================
