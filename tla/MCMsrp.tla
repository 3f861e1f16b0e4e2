------------------------------- MODULE MCMsrp -------------------------------
(* A talker with a microphone and a listener that only plays.               *)
EXTENDS Msrp

CONSTANTS talker, listener, s1, a1, d1, d2

TalkerOfOne == [s \in {s1} |-> talker]
NoTalkers == [s \in {} |-> talker]
OneDomainEach == [n \in {talker, listener} |-> IF n = talker THEN d1 ELSE d2]
SameDomain == [n \in {talker, listener} |-> d1]
=============================================================================
