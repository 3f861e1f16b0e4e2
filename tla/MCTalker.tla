------------------------------ MODULE MCTalker ------------------------------
(* Talker on a pool of three addresses: two stations that draw against each *)
(* other, or a talker next to a peer that defends an address.               *)
EXTENDS Talker

CONSTANTS n1, n2, n3, p1

ThreeAddresses == 0..2
OneAddress == [p \in {p1} |-> [start |-> 1, count |-> 1]]
Pairs == {{n1, n2}, {n3, p1}}
=============================================================================
