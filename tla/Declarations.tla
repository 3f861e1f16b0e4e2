---------------------------- MODULE Declarations ----------------------------
(***************************************************************************)
(* What an MRP participant promises its application about declarations,    *)
(* with no Applicant states, timers or packets: an attribute the           *)
(* application wants is announced to the peer, one it withdrew is taken    *)
(* back, and one transmission brings the peer's view up to date for all    *)
(* attributes at once.                                                     *)
(***************************************************************************)
CONSTANT Attribute

VARIABLES
    wanted,     \* the attributes the application asked to declare
    announced   \* the attributes the peer last heard declared

vars == <<wanted, announced>>

TypeOK == wanted \subseteq Attribute /\ announced \subseteq Attribute

Init == wanted = {} /\ announced = {}

\* The application asks for an attribute.
Declare(a) == wanted' = wanted \cup {a} /\ UNCHANGED announced

\* The application withdraws an attribute.
Withdraw(a) == wanted' = wanted \ {a} /\ UNCHANGED announced

\* The peer ages out what it heard: a Leave or a LeaveAll came from it.
Forget(S) == announced' = announced \ S /\ UNCHANGED wanted

\* The peer says it holds an attribute, which the application may join on
\* hearing it.
Confirm(a) == wanted' = wanted \cup {a} /\ announced' = announced \cup {a}

\* A transmission settles every difference between the two sets.
Announce == announced' = wanted /\ UNCHANGED wanted

Next ==
    \/ \E a \in Attribute : Declare(a) \/ Withdraw(a) \/ Confirm(a)
    \/ \E S \in SUBSET Attribute : Forget(S)
    \/ Announce

SafeSpec == Init /\ [][Next]_vars

Spec == SafeSpec /\ WF_vars(Announce)
=============================================================================
