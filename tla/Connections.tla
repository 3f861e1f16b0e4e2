---------------------------- MODULE Connections ----------------------------
(***************************************************************************)
(* What connection management promises a controller: a request changes the *)
(* connection of exactly the listener and talker it names, nothing changes *)
(* that nobody asked for, and the answer comes after the change it reports. *)
(* Two pairs are never changed in one step.                                *)
(***************************************************************************)
CONSTANTS
    Requests,   \* records with the fields kind ("connect", "disconnect"),
                \* listener and talker, and whatever tells requests apart
    Pairs       \* the <<listener, talker>> pairs there are

VARIABLES
    asked,      \* requests still without an answer
    made        \* the pairs connected, as both ends see it

vars == <<asked, made>>

Pair(r) == <<r.listener, r.talker>>

Asked(kind, p) == \E r \in asked : r.kind = kind /\ Pair(r) = p

Init == asked = {} /\ made = {}

Ask ==
    /\ \E r \in Requests \ asked : asked' = asked \cup {r}
    /\ UNCHANGED made

Connect(p) ==
    /\ p \notin made /\ Asked("connect", p)
    /\ made' = made \cup {p}
    /\ UNCHANGED asked

Disconnect(p) ==
    /\ p \in made /\ Asked("disconnect", p)
    /\ made' = made \ {p}
    /\ UNCHANGED asked

Answer(r) ==
    /\ r \in asked
    /\ (r.kind = "connect") <=> (Pair(r) \in made)
    /\ asked' = asked \ {r}
    /\ UNCHANGED made

Next ==
    \/ Ask
    \/ \E p \in Pairs : Connect(p) \/ Disconnect(p)
    \/ \E r \in asked : Answer(r)

Spec == Init /\ [][Next]_vars
=============================================================================
