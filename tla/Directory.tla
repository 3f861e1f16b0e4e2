----------------------------- MODULE Directory -----------------------------
(***************************************************************************)
(* What a table of discovered entities promises: it shows, of each entity  *)
(* it had room for, what that entity said last.                            *)
(***************************************************************************)
EXTENDS Naturals, FiniteSets

CONSTANTS
    Entity,     \* entities that may be discovered
    Info,       \* what an entity says of itself
    Silent,     \* of an entity that has said nothing, or that it departs
    Room        \* entities the table has room for, a natural number

VARIABLES
    heard,      \* what each entity said last
    known       \* a set of [id, info]

Init == heard = [e \in Entity |-> Silent] /\ known = {}

Rest(e) == {k \in known : k.id # e}

\* An entity is heard: a known one is updated, a new one needs room.
Available(e, i) ==
    /\ heard' = [heard EXCEPT ![e] = i]
    /\ known' = IF Rest(e) # known \/ Cardinality(known) < Room
                THEN Rest(e) \cup {[id |-> e, info |-> i]} ELSE known

Departing(e) ==
    /\ heard' = [heard EXCEPT ![e] = Silent]
    /\ known' = Rest(e)

\* A restart forgets all.
Forget == heard' = [e \in Entity |-> Silent] /\ known' = {}

Next ==
    \/ \E e \in Entity, i \in Info : Available(e, i)
    \/ \E e \in Entity : Departing(e)
    \/ Forget

Spec == Init /\ [][Next]_<<heard, known>>

=============================================================================
