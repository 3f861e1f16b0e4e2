-------------------------------- MODULE Mrp --------------------------------
(***************************************************************************)
(* One MRP participant (struct mrp_application of src/components/avb) with *)
(* its attributes, the Applicant and Registrar of each, the LeaveAll state *)
(* machine and the four kinds of esp_timer.                                *)
(*                                                                         *)
(* The participant is one record, and each function of mrp.c that changes  *)
(* it is an operator from record to record, so that the receive handlers   *)
(* of MSRP, which call several of them in a row, can be composed from them.*)
(* Handlers of the control task and timer callbacks are atomic here; what  *)
(* a callback that preempts a handler can do is left to MrpPreemption.     *)
(***************************************************************************)
EXTENDS MrpTables, FiniteSets

CONSTANTS
    Attribute,      \* the attributes (type and value) that can be created
    Own,            \* those the application itself requests (Own \subseteq Attribute)
    Echoed,         \* those the application joins again from its join indication
    LeaveAllTypes,  \* the sets of attributes of one type a received LeaveAll names
    HasPeriodic     \* whether the periodic timer runs (MVRP: TRUE, MSRP: FALSE)

ASSUME ConstantsAssumption ==
    /\ Own \subseteq Attribute
    /\ Echoed \subseteq Attribute
    /\ LeaveAllTypes \subseteq SUBSET Attribute
    /\ HasPeriodic \in BOOLEAN

VARIABLE mrp

vars == mrp

Participant ==
    [live     : SUBSET Attribute,                  \* in the attribute lists
     app      : [Attribute -> ApplicantStates],
     reg      : [Attribute -> RegistrarStates],
     leave    : [Attribute -> BOOLEAN],            \* leave timer armed
     join     : BOOLEAN,                           \* join timer armed
     la       : {"Active", "Passive"},
     laTimer  : {"armed", "idle", "deleted"},
     orphans  : SUBSET Attribute,  \* freed with the leave timer still armed
     \* History: what the application asked for, what the peer last heard,
     \* and what the application was told its peers declare.
     wanted   : SUBSET Attribute,
     announced: SUBSET Attribute,
     known    : SUBSET Attribute]

Init ==
    mrp = [live |-> {}, app |-> [a \in Attribute |-> "VO"],
           reg |-> [a \in Attribute |-> "MT"],
           leave |-> [a \in Attribute |-> FALSE],
           join |-> FALSE, la |-> "Passive", laTimer |-> "armed",
           orphans |-> {}, wanted |-> {}, announced |-> {}, known |-> {}]

-----------------------------------------------------------------------------
(* State machines.  Each is applied to a set S of attributes at once: the  *)
(* loops over the lists visit every attribute, and an attribute's machines *)
(* touch only its own state and the shared, idempotent start of a timer.   *)

\* Variant: no transmit opportunity is requested on entry to AA.
MutEntersRequest(s, t) == t # s /\ t \in RequestingStates \ {"AA"}

EntersRequest(s, t) == t # s /\ t \in RequestingStates

Applicants(p, S, ev) ==
    LET next(a) == ApplicantNext(ev, p.app[a])
        moved == {a \in S : next(a) \notin BarredStates}
    IN  [p EXCEPT
           !.app  = [a \in Attribute |-> IF a \in moved THEN next(a) ELSE @[a]],
           !.join = @ \/ \E a \in moved : EntersRequest(p.app[a], next(a))]

Registrars(p, S, ev) ==
    LET told(i) == {a \in S : Indication(ev, p.reg[a]) = i}
    IN  [p EXCEPT
           !.reg   = [a \in Attribute |->
                        IF a \in S THEN RegistrarNext(ev, @[a]) ELSE @[a]],
           !.leave = [a \in Attribute |->
                        IF a \in S THEN LeaveTimerNext(ev, p.reg[a], @[a]) ELSE @[a]],
           !.known = (@ \cup told("New") \cup told("Join")) \ told("Leave")]

\* mrp_start_join_timer: nothing when the timer is already running.
RequestTransmission(p) == [p EXCEPT !.join = TRUE]

\* The timers of a once-only esp_timer: starting an armed one fails and leaves
\* it armed, deleting an armed one fails too.
StartLeaveAll(t) == IF t = "idle" THEN "armed" ELSE t

DeleteLeaveAll(t) == IF t = "idle" THEN "deleted" ELSE t

OnLeaveAllReceived(p) == [p EXCEPT !.la = "Passive"]

\* Variant: the callback enters Active without asking for an opportunity.
MutOnLeaveAllTimer(p) == [p EXCEPT !.la = "Active", !.laTimer = StartLeaveAll(@)]

OnLeaveAllTimer(p) ==
    LET q == [p EXCEPT !.la = "Active", !.laTimer = StartLeaveAll(@)]
    IN  IF p.la = "Passive" THEN RequestTransmission(q) ELSE q

\* tx! of the LeaveAll machine: when Active it signals LeaveAll, which every
\* Applicant and Registrar of the participant receives as rLA!.
OnLeaveAllTransmit(p) ==
    IF p.la = "Active"
    THEN Registrars(Applicants([p EXCEPT !.la = "Passive"], p.live, "rLA"),
                    p.live, "rLA")
    ELSE p

-----------------------------------------------------------------------------
(* Attributes: creation, deletion, requests, received events.              *)

\* A new attribute gets a leave timer and BEGIN! in both machines.
GetOrCreate(p, a) ==
    IF a \in p.live THEN p
    ELSE [p EXCEPT !.live = @ \cup {a}, !.app[a] = "VO",
                   !.reg[a] = "MT", !.leave[a] = FALSE]

\* Deletion tries to delete the LeaveAll timer, and leaves the attribute's own
\* leave timer as it is.
Delete(p, a) ==
    [p EXCEPT !.live = @ \ {a}, !.app[a] = "VO", !.reg[a] = "MT",
              !.leave[a] = FALSE,
              !.laTimer = DeleteLeaveAll(@),
              !.orphans = IF p.leave[a] THEN @ \cup {a} ELSE @]

CheckRelevance(p, a) ==
    IF p.app[a] \in ObserverStates /\ p.reg[a] = "MT" THEN Delete(p, a) ELSE p

\* participant_type & FULL is 0 whatever the type is, because FULL = 0: the
\* Registrar is never consulted.
FreeCheck(p, a) == IF p.app[a] \in ObserverStates THEN Delete(p, a) ELSE p

JoinRequest(p, a, new) ==
    [Applicants(GetOrCreate(p, a), {a}, IF new THEN "New" ELSE "Join")
        EXCEPT !.wanted = @ \cup {a}]

\* Variant: the Applicant does not see the request.
MutLeaveRequest(p, a) ==
    IF a \in p.live THEN CheckRelevance([p EXCEPT !.wanted = @ \ {a}], a) ELSE p

LeaveRequest(p, a) ==
    IF a \in p.live
    THEN CheckRelevance([Applicants(p, {a}, "Lv") EXCEPT !.wanted = @ \ {a}], a)
    ELSE p

\* The application's join indication runs inside the Registrar's machine.
JoinIndication(p, a, i) ==
    IF a \in Echoed /\ i \in {"New", "Join"} THEN JoinRequest(p, a, i = "New") ELSE p

\* History of the peer's view.  A peer that sends rLv or a LeaveAll ages out what
\* it heard; one that sends In or JoinIn says it holds the attribute, and an
\* Applicant in AA takes its word for it and falls quiet.
PeerForgets(p, S) == [p EXCEPT !.announced = @ \ S]

PeerSays(p, a, ev) ==
    CASE ev = "rLv" -> PeerForgets(p, {a})
      [] ev \in {"rIn", "rJoinIn"} /\ p.app[a] = "AA" ->
            [p EXCEPT !.announced = @ \cup {a}]
      [] OTHER -> p

ProcessAttribute(p, a, ev) ==
    LET q == JoinIndication(Registrars(p, {a}, ev), a, Indication(ev, p.reg[a]))
    IN  FreeCheck(Applicants(PeerSays(q, a, ev), {a}, ev), a)

FindAndProcess(p, a, ev) == ProcessAttribute(GetOrCreate(p, a), a, ev)

\* Variant: the LeaveAll reaches the Registrars only.
MutReceiveLeaveAll(p, T) ==
    LET S == p.live \cap T
    IN  OnLeaveAllReceived(PeerForgets(Registrars(p, S, "rLv"), S))

\* A LeaveAll for one attribute type: every attribute of that type processes
\* a Leave, then the LeaveAll machine turns passive and its timer restarts.
\* rLv! never moves an Applicant to an observer state, so nothing is freed.
ReceiveLeaveAll(p, T) ==
    LET S == p.live \cap T
    IN  OnLeaveAllReceived(
            Applicants(PeerForgets(Registrars(p, S, "rLv"), S), S, "rLv"))

-----------------------------------------------------------------------------
(* Timer callbacks.                                                        *)

Heard(p, events) == {a \in p.live : MessageFor(p.app[a], p.reg[a]) \in events}

\* The peer hears a declaration or its withdrawal in the packets of mrp_transmit.
Transmit(p) ==
    [p EXCEPT !.announced =
        (@ \cup Heard(p, {"New", "JoinIn", "JoinMt"})) \ Heard(p, {"Lv"})]

JoinTimerCallback(p) ==
    LET q == OnLeaveAllTransmit([p EXCEPT !.join = FALSE])
    IN  Applicants(Transmit(q), q.live, "tx")

LeaveTimerCallback(p, a) == Registrars([p EXCEPT !.leave[a] = FALSE], {a}, "leaveTimer")

\* The callback of a freed attribute's timer runs on whatever its block of the
\* heap holds: the old attribute, or a live one of the same size.
OrphanCallback(p, a, b) ==
    LET q == [p EXCEPT !.orphans = @ \ {a}]
    IN  IF b \in p.live THEN Registrars(q, {b}, "leaveTimer")
        ELSE [q EXCEPT !.known = @ \ {a}]

-----------------------------------------------------------------------------
(* The specification.                                                      *)

MadJoinRequest(a, new) == mrp' = JoinRequest(mrp, a, new)

MadLeaveRequest(a) == a \in mrp.live /\ mrp' = LeaveRequest(mrp, a)

ReceiveEvent(a, ev) == mrp' = FindAndProcess(mrp, a, ev)

ReceiveLeaveAllEvent(T) == mrp' = ReceiveLeaveAll(mrp, T)

JoinTimer == mrp.join /\ mrp' = JoinTimerCallback(mrp)

LeaveTimer(a) == mrp.leave[a] /\ mrp' = LeaveTimerCallback(mrp, a)

LeaveAllTimer ==
    /\ mrp.laTimer = "armed"
    /\ mrp' = OnLeaveAllTimer([mrp EXCEPT !.laTimer = "idle"])

PeriodicTimer == HasPeriodic /\ mrp' = Applicants(mrp, mrp.live, "periodic")

OrphanTimer(a, b) == a \in mrp.orphans /\ mrp' = OrphanCallback(mrp, a, b)

Next ==
    \/ \E a \in Own, new \in BOOLEAN : MadJoinRequest(a, new)
    \/ \E a \in Own : MadLeaveRequest(a)
    \/ \E a \in Attribute, ev \in ReceivedEvents : ReceiveEvent(a, ev)
    \/ \E T \in LeaveAllTypes : ReceiveLeaveAllEvent(T)
    \/ JoinTimer
    \/ \E a \in Attribute : LeaveTimer(a)
    \/ LeaveAllTimer
    \/ PeriodicTimer
    \/ \E a, b \in Attribute : OrphanTimer(a, b)

Spec == Init /\ [][Next]_vars

\* The join timer is never stopped or restarted once it is armed, and a leave
\* timer only by a join, so esp_timer runs both callbacks.  This is weak fairness
\* written out: the guard is what enables each of the two actions.  The LeaveAll
\* timer gets no fairness: every received LeaveAll pushes it back.
Fairness ==
    /\ []<>(~mrp.join) \/ []<><<JoinTimer>>_vars
    /\ \A a \in Attribute : []<>(~mrp.leave[a]) \/ []<><<LeaveTimer(a)>>_vars

FairSpec == Spec /\ Fairness

-----------------------------------------------------------------------------
(* Properties.                                                             *)

\* The record has its type; no Applicant of a point-to-point participant is in
\* AO, QO, AP or QP (mrp.c:866-880), and a discarded attribute leaves nothing.
TypeOK ==
    /\ mrp \in Participant
    /\ \A a \in Attribute : mrp.app[a] \notin BarredStates
    /\ \A a \in Attribute \ mrp.live :
          mrp.app[a] = "VO" /\ mrp.reg[a] = "MT" /\ ~mrp.leave[a]

\* An Applicant that owes the peer a message has a transmit opportunity coming:
\* the state machine requests one only on entry to the state (mrp.c:890-898),
\* and the callback of the one-shot join timer must not leave any behind.
TransmitOpportunity ==
    \A a \in Attribute : mrp.app[a] \in RequestingStates => mrp.join

\* A Registrar that is leaving has its leave timer running, so that it cannot
\* stay in LV when no further message arrives (mrp.c:960-968), even when the
\* callback of a freed attribute's timer runs on a reused block.
LeavingIsTimed ==
    \A a \in Attribute : mrp.reg[a] = "LV" => mrp.leave[a]

\* The LeaveAll timer runs between any two handlers and is never deleted,
\* although every attribute deletion asks esp_timer to delete it (mrp.c:138);
\* and an Active LeaveAll machine has its transmit opportunity (mrp.c:1081).
LeaveAllPending ==
    /\ mrp.laTimer = "armed"
    /\ mrp.la = "Active" => mrp.join

\* The Applicants declare exactly what the application asked for, whatever
\* messages, LeaveAlls and timers came in between (mrp.c:604-903).
IntentKept ==
    mrp.wanted = {a \in Attribute : mrp.app[a] \in DeclaringStates}

\* An Applicant falls quiet or repeats a New only after its peer heard of the
\* attribute, and one in VO, VP or LO owes the peer no withdrawal.
PeerView ==
    \A a \in Attribute :
        /\ mrp.app[a] \in {"AN", "QA"} => a \in mrp.announced
        /\ mrp.app[a] \in {"VO", "VP", "LO"} => a \notin mrp.announced

\* Every registration in the peers' name the application was told of is still
\* held by a Registrar: an attribute is only discarded once its Registrar is
\* empty (mrp.c:1095-1098 and 1224-1229), so that its Leave can be indicated.
RegistrationHeld ==
    \A a \in mrp.known : a \in mrp.live /\ mrp.reg[a] \in {"IN", "LV"}

\* The participant implements the abstract promise: wanted attributes become
\* announced and withdrawn ones are taken back, in one transmission.
D == INSTANCE Declarations WITH wanted <- mrp.wanted, announced <- mrp.announced

ImplementsDeclarations == D!Spec

\* Under fair join and leave timers nothing that is pending stays so: a
\* Registrar leaves LV (mrp.c:946), and an Active LeaveAll machine sends its
\* LeaveAll or yields to a peer's (mrp.c:1021).
PendingEnds ==
    /\ \A a \in Attribute : mrp.reg[a] = "LV" ~> mrp.reg[a] # "LV"
    /\ mrp.la = "Active" ~> mrp.la = "Passive"
=============================================================================
