----------------------------- MODULE MrpTables -----------------------------
(***************************************************************************)
(* The three transition tables of src/components/avb/mrp.c as functions of *)
(* the event and the present state: Applicant, Registrar and the encoding  *)
(* of an Applicant's action as an AttributeEvent.  Both users of the file, *)
(* MSRP and MVRP, are FULL_P2P participants, so the tables are those of a  *)
(* point-to-point full participant; rows of events that no caller issues   *)
(* (FLUSH, REDECLARE, TXLAF) are left out.                                 *)
(***************************************************************************)

ApplicantStates == {"VO", "VP", "VN", "AN", "AA", "QA", "LA",
                    "AO", "QO", "AP", "QP", "LO"}

RegistrarStates == {"IN", "LV", "MT"}

\* AttributeEvents a peer can send and the Applicant/Registrar events they map to.
ReceivedEvents == {"rNew", "rJoinIn", "rIn", "rJoinMt", "rMt", "rLv"}

\* The states that mean "this participant declares the attribute".
DeclaringStates == {"VP", "VN", "AN", "AA", "QA", "AP", "QP"}

\* States a point-to-point participant never enters: the state machine
\* returns before it stores them.
BarredStates == {"AO", "QO", "AP", "QP"}

\* A state whose attribute may be discarded (Table 10-3, note 11).
ObserverStates == {"VO", "AO", "QO"}

\* The check on entry of a state that needs a message to go out.
RequestingStates == {"VN", "AN", "AA", "LA", "VP", "AP", "LO"}

-----------------------------------------------------------------------------
(* Applicant, one operator per group of events of the switch.              *)

OnNew(s) == IF s \in {"VN", "AN"} THEN s ELSE "VN"

OnJoin(s) ==
    CASE s \in {"VO", "LO"} -> "VP"
      [] s = "LA" -> "AA"
      [] s = "AO" -> "AP"
      [] s = "QO" -> "QP"
      [] OTHER -> s

OnLeave(s) ==
    CASE s = "VP" -> "VO"
      [] s \in {"VN", "AN", "AA", "QA"} -> "LA"
      [] s = "AP" -> "AO"
      [] s = "QP" -> "QO"
      [] OTHER -> s

\* VO and VP also react to rJoinIn, but not in a point-to-point participant.
OnReceiveJoinIn(s) ==
    CASE s = "AA" -> "QA"
      [] s = "AO" -> "QO"
      [] s = "AP" -> "QP"
      [] OTHER -> s

OnReceiveIn(s) == IF s = "AA" THEN "QA" ELSE s

OnReceiveEmpty(s) ==
    CASE s = "QA" -> "AA"
      [] s = "QO" -> "AO"
      [] s = "QP" -> "AP"
      [] s = "LO" -> "VO"
      [] OTHER -> s

\* Variant: an Applicant that sent one New ignores the Leave.
MutOnReceiveLeave(s) ==
    CASE s \in {"VO", "AO", "QO"} -> "LO"
      [] s \in {"AA", "QA", "AP", "QP"} -> "VP"
      [] OTHER -> s

OnReceiveLeave(s) ==
    CASE s \in {"VO", "AO", "QO"} -> "LO"
      [] s = "AN" -> "VN"
      [] s \in {"AA", "QA", "AP", "QP"} -> "VP"
      [] OTHER -> s

OnPeriodic(s) ==
    CASE s = "QA" -> "AA"
      [] s = "QP" -> "AP"
      [] OTHER -> s

\* tx! and txLA! move the Applicant alike: their optional messages are not sent.
OnTransmit(s) ==
    CASE s = "VP" -> "AA"
      [] s = "VN" -> "AN"
      [] s \in {"AN", "AA", "AP"} -> "QA"
      [] s \in {"LA", "LO"} -> "VO"
      [] OTHER -> s

ApplicantNext(ev, s) ==
    CASE ev = "New" -> OnNew(s)
      [] ev = "Join" -> OnJoin(s)
      [] ev = "Lv" -> OnLeave(s)
      [] ev = "rJoinIn" -> OnReceiveJoinIn(s)
      [] ev = "rIn" -> OnReceiveIn(s)
      [] ev \in {"rJoinMt", "rMt"} -> OnReceiveEmpty(s)
      [] ev \in {"rLv", "rLA"} -> OnReceiveLeave(s)
      [] ev = "periodic" -> OnPeriodic(s)
      [] ev = "tx" -> OnTransmit(s)
      [] OTHER -> s

\* Variant: the row of LA has no action.
MutMessageFor(s, r) ==
    CASE s \in {"VN", "AN"} -> "New"
      [] s \in {"VP", "AA", "AP"} -> IF r = "IN" THEN "JoinIn" ELSE "JoinMt"
      [] OTHER -> "none"

\* The AttributeEvent a transmit opportunity sends for an Applicant in state s
\* whose Registrar is in state r: action of the tx!/txLA! row, then
\* mrp_action2event.  "none" when the row has no action.
MessageFor(s, r) ==
    CASE s \in {"VN", "AN"} -> "New"
      [] s \in {"VP", "AA", "AP"} -> IF r = "IN" THEN "JoinIn" ELSE "JoinMt"
      [] s = "LA" -> "Lv"
      [] s = "LO" -> IF r = "IN" THEN "In" ELSE "Mt"
      [] OTHER -> "none"

-----------------------------------------------------------------------------
(* Registrar: next state, indication to the application, leave timer.      *)

JoinEvents == {"rNew", "rJoinIn", "rJoinMt"}

LeaveEvents == {"rLv", "rLA"}

\* Variant: the leave timer's event has no row.
MutRegistrarNext(ev, r) ==
    CASE ev \in JoinEvents -> "IN"
      [] ev \in LeaveEvents /\ r = "IN" -> "LV"
      [] OTHER -> r

RegistrarNext(ev, r) ==
    CASE ev \in JoinEvents -> "IN"
      [] ev \in LeaveEvents /\ r = "IN" -> "LV"
      [] ev = "leaveTimer" /\ r = "LV" -> "MT"
      [] OTHER -> r

Indication(ev, r) ==
    CASE ev = "rNew" -> "New"
      [] ev \in {"rJoinIn", "rJoinMt"} /\ r = "MT" -> "Join"
      [] ev = "leaveTimer" /\ r = "LV" -> "Leave"
      [] OTHER -> "none"

\* Variant: only a received Leave starts the timer, a LeaveAll does not.
MutLeaveTimerNext(ev, r, armed) ==
    CASE ev = "rLv" /\ r = "IN" -> TRUE
      [] ev \in JoinEvents /\ r = "LV" -> FALSE
      [] OTHER -> armed

\* Whether the leave timer is armed after the event, given that it was (armed)
\* before: started on IN -> LV, stopped when a join finds LV.
LeaveTimerNext(ev, r, armed) ==
    CASE ev \in LeaveEvents /\ r = "IN" -> TRUE
      [] ev \in JoinEvents /\ r = "LV" -> FALSE
      [] OTHER -> armed
=============================================================================
