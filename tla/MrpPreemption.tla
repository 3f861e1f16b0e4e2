--------------------------- MODULE MrpPreemption ---------------------------
(***************************************************************************)
(* The Applicants of one participant when the control task can be          *)
(* preempted inside mrp_applicant_state_machine.  The esp_timer task has a *)
(* higher priority on the same core and no lock is taken, so the callbacks *)
(* of the join and LeaveAll timers run to completion between the moment a  *)
(* handler of the control task reads an Applicant's state and the moment   *)
(* it stores the next one.  Registrars and the creation and deletion of    *)
(* attributes are left to Mrp: an attribute in VO is as good as none.      *)
(***************************************************************************)
EXTENDS MrpTables

CONSTANT Attribute

VARIABLES
    app,        \* applicant.state of each attribute
    join,       \* join timer armed
    la,         \* LeaveAll machine
    task,       \* the state machine call the control task is in
    wanted,     \* history: what the application asked for
    announced   \* history: what the peer last heard declared

vars == <<app, join, la, task, wanted, announced>>

\* "rLeaveAll" is a received LeaveAll for the attribute's type: rLv! for the
\* attribute and then rLA! for the LeaveAll machine.
Events == {"New", "Join", "Lv", "rLeaveAll"} \cup ReceivedEvents

Idle == [pc |-> "idle"]

Calls == [pc : {"request", "write"}, attr : Attribute, ev : Events,
          state : ApplicantStates]

Init ==
    /\ app = [a \in Attribute |-> "VO"]
    /\ join = FALSE
    /\ la = "Passive"
    /\ task = Idle
    /\ wanted = {}
    /\ announced = {}

\* The handler reads applicant->state into a local and computes the next state.
\* The peer's own message says what it knows of the attribute.
ReadState(a, ev) ==
    LET next == ApplicantNext(IF ev = "rLeaveAll" THEN "rLv" ELSE ev, app[a])
    IN  /\ task = Idle
        /\ next \notin BarredStates
        /\ task' = [pc |-> "request", attr |-> a, ev |-> ev, state |-> next]
        /\ announced' =
              CASE ev \in {"rLv", "rLeaveAll"} -> announced \ {a}
                [] ev \in {"rIn", "rJoinIn"} /\ app[a] = "AA" -> announced \cup {a}
                [] OTHER -> announced
        /\ UNCHANGED <<app, join, la, wanted>>

Requests(s, t) == t # s /\ t \in RequestingStates

\* The comparison reads applicant->state again; the join timer is started
\* only when it is not already active.
RequestTransmission ==
    /\ task.pc = "request"
    /\ join' = (join \/ Requests(app[task.attr], task.state))
    /\ task' = [task EXCEPT !.pc = "write"]
    /\ UNCHANGED <<app, la, wanted, announced>>

\* Variant: a Leave's new state is not stored.
MutWriteState ==
    /\ task.pc = "write"
    /\ app' = IF task.ev = "Lv" THEN app ELSE [app EXCEPT ![task.attr] = task.state]
    /\ wanted' = CASE task.ev \in {"New", "Join"} -> wanted \cup {task.attr}
                   [] task.ev = "Lv" -> wanted \ {task.attr}
                   [] OTHER -> wanted
    /\ la' = IF task.ev = "rLeaveAll" THEN "Passive" ELSE la
    /\ task' = Idle
    /\ UNCHANGED <<join, announced>>

WriteState ==
    /\ task.pc = "write"
    /\ app' = [app EXCEPT ![task.attr] = task.state]
    /\ wanted' = CASE task.ev \in {"New", "Join"} -> wanted \cup {task.attr}
                   [] task.ev = "Lv" -> wanted \ {task.attr}
                   [] OTHER -> wanted
    /\ la' = IF task.ev = "rLeaveAll" THEN "Passive" ELSE la
    /\ task' = Idle
    /\ UNCHANGED <<join, announced>>

\* The state in which tx! finds an Applicant: after rLA! when LeaveAll is sent.
AtTransmit(a) == IF la = "Active" THEN OnReceiveLeave(app[a]) ELSE app[a]

Declared(a) == MessageFor(AtTransmit(a), "MT") \in {"New", "JoinMt"}

\* Variant: a LeaveAll does not make the Applicants declare again.
MutJoinTimerCallback ==
    /\ join
    /\ la' = "Passive"
    /\ app' = [a \in Attribute |-> OnTransmit(app[a])]
    /\ join' = \E a \in Attribute : Requests(app[a], OnTransmit(app[a]))
    /\ announced' = IF la = "Active" THEN {}
                    ELSE (announced \cup {a \in Attribute : Declared(a)})
                            \ {a \in Attribute : app[a] = "LA"}
    /\ UNCHANGED <<task, wanted>>

\* The callback of the join timer, at any point of the control task's call.
\* A peer that hears LeaveAll keeps what is declared again with it.
JoinTimerCallback ==
    /\ join
    /\ la' = "Passive"
    /\ app' = [a \in Attribute |-> OnTransmit(AtTransmit(a))]
    /\ join' = \E a \in Attribute : \/ Requests(app[a], AtTransmit(a))
                                    \/ Requests(AtTransmit(a), app'[a])
    /\ announced' = ((IF la = "Active" THEN {} ELSE announced)
                        \cup {a \in Attribute : Declared(a)})
                            \ {a \in Attribute : AtTransmit(a) = "LA"}
    /\ UNCHANGED <<task, wanted>>

LeaveAllTimerCallback ==
    /\ la' = "Active"
    /\ join' = (join \/ la = "Passive")
    /\ UNCHANGED <<app, task, wanted, announced>>

Control ==
    \/ \E a \in Attribute, ev \in Events : ReadState(a, ev)
    \/ RequestTransmission
    \/ WriteState

Next == Control \/ JoinTimerCallback \/ LeaveAllTimerCallback

Spec == Init /\ [][Next]_vars

\* The control task finishes a call it has begun; the join timer fires when it is
\* armed, and the LeaveAll timer, always armed, fires again and again.
Fairness ==
    /\ WF_vars(RequestTransmission)
    /\ WF_vars(WriteState)
    /\ WF_vars(JoinTimerCallback)
    /\ WF_vars(LeaveAllTimerCallback)

FairSpec == Spec /\ Fairness

-----------------------------------------------------------------------------
\* mrp.c:895-896: whenever a state machine transitions to a state that requires
\* transmission, a transmit opportunity is pending.  A join timer that was found
\* active and fires before the state is stored leaves none.
TransmitOpportunity ==
    task = Idle => \A a \in Attribute : app[a] \in RequestingStates => join

\* Whatever a callback changes between the read and the write, the Applicants
\* declare what the application asked for once the call has returned
\* (mrp.c:608 and 900).
IntentKept ==
    task = Idle => wanted = {a \in Attribute : app[a] \in DeclaringStates}

\* An Applicant is not left quiet about an attribute its peer has not heard,
\* although a callback may have moved it on under the call (mrp.c:608 and 900).
QuietIsHeard ==
    task = Idle => \A a \in Attribute : app[a] \in {"AN", "QA"} => a \in announced

\* A declaration or a withdrawal a preempted call lost is made good by the LeaveAll
\* timer: once the control task is at rest, the peer's view becomes what the
\* application asked for, for good.
LeaveAllRepairs == (<>[][~Control]_vars) => <>[](announced = wanted)
=============================================================================
