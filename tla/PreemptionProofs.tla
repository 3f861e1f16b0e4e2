-------------------------- MODULE PreemptionProofs --------------------------
(***************************************************************************)
(* Proofs about MrpPreemption, for every set of attributes: wherever the   *)
(* timer callbacks cut into a call of the Applicant machine, a finished    *)
(* call leaves the Applicants declaring what the application asked for,    *)
(* and none of them quiet about what the peer has not heard.  The stale    *)
(* state a call stores is therefore a fault of timing alone: what it can   *)
(* lose is the transmit opportunity.                                       *)
(***************************************************************************)
EXTENDS MrpPreemption, TLAPS

PointToPoint == {"VO", "VP", "VN", "AN", "AA", "QA", "LA", "LO"}

Quiet == {"AN", "QA"}

Shape ==
    /\ app \in [Attribute -> PointToPoint]
    /\ wanted \subseteq Attribute
    /\ task \in {Idle} \cup Calls
    /\ task # Idle => task.state \in PointToPoint

Intended == \A a \in Attribute : a \in wanted <=> app[a] \in DeclaringStates

\* The state a call is about to store declares what the call is for.
CallIntended ==
    task # Idle =>
        /\ task.ev \in {"New", "Join"} => task.state \in DeclaringStates
        /\ task.ev = "Lv" => task.state \notin DeclaringStates
        /\ task.ev \notin {"New", "Join", "Lv"} =>
              (task.attr \in wanted <=> task.state \in DeclaringStates)

\* The peer has just forgotten the attribute, and the call is about to say so.
Forgotten(a) == task # Idle /\ task.attr = a /\ task.ev \in {"rLv", "rLeaveAll"}

Heard == \A a \in Attribute : app[a] \in Quiet => a \in announced \/ Forgotten(a)

\* A call that stores a quiet state has begun in one from which every callback
\* leaves the peer informed.
CallHeard ==
    task # Idle /\ task.state \in Quiet =>
        app[task.attr] \in {"AN", "AA", "QA"} /\ task.attr \in announced

IInv == Shape /\ Intended /\ CallIntended /\ Heard /\ CallHeard

-----------------------------------------------------------------------------
LEMMA IdleIsNoCall ==
  /\ Idle \notin Calls /\ Idle.pc = "idle"
  /\ \A c \in Calls : /\ c.attr \in Attribute /\ c.ev \in Events
                      /\ c.pc \in {"request", "write"}
BY DEF Idle, Calls

\* What the events a call can be for do to a state.
LEMMA EventOnState ==
  ASSUME NEW s \in PointToPoint, NEW ev \in Events
  PROVE  LET next == ApplicantNext(IF ev = "rLeaveAll" THEN "rLv" ELSE ev, s)
         IN  /\ next \in PointToPoint
             /\ ev \in {"New", "Join"} => next \in DeclaringStates
             /\ ev = "Lv" => next \notin DeclaringStates
             /\ ev \notin {"New", "Join", "Lv"} =>
                   (s \in DeclaringStates <=> next \in DeclaringStates)
             /\ ev \in {"rLv", "rLeaveAll"} => next \notin Quiet
             /\ next \in Quiet => \/ s \in Quiet
                                  \/ s = "AA" /\ ev \in {"rIn", "rJoinIn"}
BY DEF PointToPoint, Events, ReceivedEvents, DeclaringStates, Quiet, ApplicantNext,
       OnNew, OnJoin, OnLeave, OnReceiveJoinIn, OnReceiveIn, OnReceiveEmpty,
       OnReceiveLeave

\* What the join timer does to a state, after LeaveAll or not.
LEMMA TransmitOnState ==
  ASSUME NEW s \in PointToPoint
  PROVE  /\ OnReceiveLeave(s) \in PointToPoint /\ OnTransmit(s) \in PointToPoint
         /\ OnReceiveLeave(s) \notin Quiet
         /\ s \in DeclaringStates <=> OnReceiveLeave(s) \in DeclaringStates
         /\ s \in DeclaringStates <=> OnTransmit(s) \in DeclaringStates
         /\ OnTransmit(s) \in Quiet => s \in {"VN", "AN", "AA", "QA"}
         /\ s \in {"VP", "VN", "AN", "AA"} => MessageFor(s, "MT") \in {"New", "JoinMt"}
         /\ s \in {"AN", "AA", "QA"} => /\ OnTransmit(s) \in {"AN", "AA", "QA"}
                                        /\ OnReceiveLeave(s) \in {"VN", "VP"}
         /\ s \in {"VN", "VP"} => OnTransmit(s) \in {"AN", "AA", "QA"}
BY DEF PointToPoint, DeclaringStates, Quiet, OnReceiveLeave, OnTransmit, MessageFor

LEMMA InitInv == Init => IInv
BY IdleIsNoCall DEF Init, IInv, Shape, Intended, CallIntended, Heard, CallHeard,
                    PointToPoint, DeclaringStates, Quiet

LEMMA ReadInv ==
  ASSUME IInv, NEW a \in Attribute, NEW ev \in Events, ReadState(a, ev)
  PROVE  IInv'
<1> DEFINE next == ApplicantNext(IF ev = "rLeaveAll" THEN "rLv" ELSE ev, app[a])
           call == [pc |-> "request", attr |-> a, ev |-> ev, state |-> next]
<1>1. /\ task = Idle /\ task' = call
      /\ app' = app /\ wanted' = wanted
      /\ app[a] \in PointToPoint
  BY DEF ReadState, IInv, Shape
<1>2. /\ next \in PointToPoint
      /\ ev \in {"New", "Join"} => next \in DeclaringStates
      /\ ev = "Lv" => next \notin DeclaringStates
      /\ ev \notin {"New", "Join", "Lv"} =>
            (app[a] \in DeclaringStates <=> next \in DeclaringStates)
      /\ ev \in {"rLv", "rLeaveAll"} => next \notin Quiet
      /\ next \in Quiet => \/ app[a] \in Quiet
                           \/ app[a] = "AA" /\ ev \in {"rIn", "rJoinIn"}
  BY <1>1, EventOnState
<1>3. /\ ev \notin {"rLv", "rLeaveAll"} => announced \subseteq announced'
      /\ app[a] = "AA" /\ ev \in {"rIn", "rJoinIn"} => a \in announced'
      /\ \A b \in Attribute \ {a} : b \in announced => b \in announced'
  BY DEF ReadState
<1> HIDE DEF next
<1>4. call \in Calls /\ call # Idle
  <2>1. PointToPoint \subseteq ApplicantStates
    BY DEF PointToPoint, ApplicantStates
  <2>2. call \in Calls
    BY <1>2, <2>1 DEF Calls
  <2> QED
    BY <2>2, IdleIsNoCall
<1>5. call.attr = a /\ call.ev = ev /\ call.state = next
  OBVIOUS
<1> HIDE DEF call
<1>6. Shape'
  BY <1>1, <1>2, <1>4, <1>5 DEF IInv, Shape
<1>7. Intended' /\ CallIntended'
  BY <1>1, <1>2, <1>4, <1>5 DEF IInv, Intended, CallIntended
<1>8. \A b \in Attribute : app[b] \in Quiet => b \in announced
  BY <1>1 DEF IInv, Heard, Forgotten
<1>9. Heard'
  BY <1>1, <1>3, <1>4, <1>5, <1>8 DEF Heard, Forgotten
<1>10. CallHeard'
  <2> SUFFICES ASSUME next \in Quiet
               PROVE  app[a] \in {"AN", "AA", "QA"} /\ a \in announced'
    BY <1>1, <1>5 DEF CallHeard
  <2> QED
    BY <1>2, <1>3, <1>8 DEF Quiet
<1> QED
  BY <1>6, <1>7, <1>9, <1>10 DEF IInv

LEMMA RequestInv == IInv /\ RequestTransmission => IInv'
<1> SUFFICES ASSUME IInv, RequestTransmission PROVE IInv'
  OBVIOUS
<1>1. /\ task.pc = "request" /\ task' = [task EXCEPT !.pc = "write"]
      /\ UNCHANGED <<app, wanted, announced>>
  BY DEF RequestTransmission
<1>2. task \in Calls /\ task # Idle
  BY <1>1, IdleIsNoCall DEF IInv, Shape
<1>3. /\ task' \in Calls /\ task' # Idle
      /\ task'.attr = task.attr /\ task'.ev = task.ev /\ task'.state = task.state
  <2>1. /\ task' \in Calls
        /\ task'.attr = task.attr /\ task'.ev = task.ev /\ task'.state = task.state
    BY <1>1, <1>2 DEF Calls
  <2> QED
    BY <2>1, IdleIsNoCall
<1>4. Shape'
  BY <1>1, <1>2, <1>3 DEF IInv, Shape
<1>5. Intended' /\ CallIntended'
  BY <1>1, <1>2, <1>3 DEF IInv, Intended, CallIntended
<1>6. Heard' /\ CallHeard'
  BY <1>1, <1>2, <1>3 DEF IInv, Heard, CallHeard, Forgotten
<1> QED
  BY <1>4, <1>5, <1>6 DEF IInv

LEMMA WriteInv == IInv /\ WriteState => IInv'
<1> SUFFICES ASSUME IInv, WriteState PROVE IInv'
  OBVIOUS
<1> DEFINE t == task.attr
<1>1. /\ task.pc = "write" /\ task' = Idle /\ announced' = announced
      /\ app' = [app EXCEPT ![t] = task.state]
      /\ task.ev \in {"New", "Join"} => wanted' = wanted \cup {t}
      /\ task.ev = "Lv" => wanted' = wanted \ {t}
      /\ task.ev \notin {"New", "Join", "Lv"} => wanted' = wanted
  BY DEF WriteState
<1>2. /\ task \in Calls /\ task # Idle /\ t \in Attribute
      /\ task.state \in PointToPoint /\ app \in [Attribute -> PointToPoint]
      /\ wanted \subseteq Attribute
  BY <1>1, IdleIsNoCall DEF IInv, Shape
<1>3. app'[t] = task.state /\ \A b \in Attribute \ {t} : app'[b] = app[b]
  BY <1>1, <1>2
<1>4. Shape' /\ CallIntended' /\ CallHeard'
  BY <1>1, <1>2 DEF Shape, CallIntended, CallHeard
<1>5. Intended'
  BY <1>1, <1>2, <1>3 DEF IInv, Intended, CallIntended
<1>6. Heard'
  <2>1. \A b \in Attribute \ {t} : app[b] \in Quiet => b \in announced
    BY <1>2 DEF IInv, Heard, Forgotten
  <2>2. task.state \in Quiet => t \in announced
    BY <1>2 DEF IInv, CallHeard
  <2> QED
    BY <1>1, <1>2, <1>3, <2>1, <2>2 DEF Heard
<1> QED
  BY <1>4, <1>5, <1>6 DEF IInv

LEMMA JoinTimerInv == IInv /\ JoinTimerCallback => IInv'
<1> SUFFICES ASSUME IInv, JoinTimerCallback PROVE IInv'
  OBVIOUS
<1>1. /\ task' = task /\ wanted' = wanted
      /\ app' = [a \in Attribute |-> OnTransmit(AtTransmit(a))]
      /\ announced' = ((IF la = "Active" THEN {} ELSE announced)
                          \cup {a \in Attribute : Declared(a)})
                              \ {a \in Attribute : AtTransmit(a) = "LA"}
  BY DEF JoinTimerCallback
<1>2. ASSUME NEW a \in Attribute
      PROVE  /\ app[a] \in PointToPoint /\ AtTransmit(a) \in PointToPoint
             /\ AtTransmit(a) \in DeclaringStates <=> app[a] \in DeclaringStates
             /\ app'[a] = OnTransmit(AtTransmit(a))
             /\ la = "Active" => AtTransmit(a) = OnReceiveLeave(app[a])
             /\ la # "Active" => AtTransmit(a) = app[a]
  <2>1. app[a] \in PointToPoint
    BY DEF IInv, Shape
  <2> QED
    BY <1>1, <2>1, TransmitOnState DEF AtTransmit
<1>3. Shape'
  BY <1>1, <1>2, TransmitOnState DEF IInv, Shape
<1>4. Intended' /\ CallIntended'
  BY <1>1, <1>2, TransmitOnState DEF IInv, Intended, CallIntended
<1>5. ASSUME NEW a \in Attribute, AtTransmit(a) \in {"VP", "VN", "AN", "AA"}
      PROVE  a \in announced'
  BY <1>1, <1>2, <1>5, TransmitOnState DEF Declared
<1>6. ASSUME NEW a \in Attribute, AtTransmit(a) = "QA", a \in announced
      PROVE  a \in announced'
  <2>1. la # "Active"
    BY <1>2, <1>6, TransmitOnState DEF Quiet
  <2> QED
    BY <1>1, <1>6, <2>1
<1>7. Heard'
  <2> SUFFICES ASSUME NEW a \in Attribute, app'[a] \in Quiet, ~Forgotten(a)
               PROVE  a \in announced'
    BY <1>1 DEF Heard, Forgotten
  <2>1. AtTransmit(a) \in {"VN", "AN", "AA", "QA"}
    BY <1>2, TransmitOnState
  <2>2. CASE AtTransmit(a) = "QA"
    <3>1. app[a] = "QA"
      BY <1>2, <2>2, TransmitOnState DEF Quiet
    <3> QED
      BY <1>6, <2>2, <3>1 DEF IInv, Heard, Quiet
  <2> QED
    BY <1>5, <2>1, <2>2
<1>8. CallHeard'
  <2> SUFFICES ASSUME task # Idle, task.state \in Quiet
               PROVE  app'[task.attr] \in {"AN", "AA", "QA"} /\ task.attr \in announced'
    BY <1>1 DEF CallHeard
  <2> DEFINE t == task.attr
  <2>1. t \in Attribute /\ app[t] \in {"AN", "AA", "QA"} /\ t \in announced
    BY IdleIsNoCall DEF IInv, Shape, CallHeard
  <2>2. AtTransmit(t) \in {"VN", "VP", "AN", "AA", "QA"}
    BY <1>2, <2>1, TransmitOnState
  <2>3. app'[t] \in {"AN", "AA", "QA"}
    BY <1>2, <2>1, <2>2, TransmitOnState
  <2> QED
    BY <1>5, <1>6, <2>1, <2>2, <2>3
<1> QED
  BY <1>3, <1>4, <1>7, <1>8 DEF IInv

LEMMA StepInv == IInv /\ [Next]_vars => IInv'
<1> SUFFICES ASSUME IInv, [Next]_vars PROVE IInv'
  OBVIOUS
<1>1. CASE \E a \in Attribute, ev \in Events : ReadState(a, ev)
  BY <1>1, ReadInv
<1>2. CASE RequestTransmission \/ WriteState \/ JoinTimerCallback
  BY <1>2, RequestInv, WriteInv, JoinTimerInv
<1>3. CASE LeaveAllTimerCallback \/ UNCHANGED vars
  <2>1. UNCHANGED <<app, task, wanted, announced>>
    BY <1>3 DEF LeaveAllTimerCallback, vars
  <2> QED
    BY <2>1 DEF IInv, Shape, Intended, CallIntended, Heard, CallHeard, Forgotten
<1> QED
  BY <1>1, <1>2, <1>3 DEF Next, Control

\* The inductive invariant holds throughout.
THEOREM Invariance == Spec => []IInv
<1>1. Init => IInv
  BY InitInv
<1>2. IInv /\ [Next]_vars => IInv'
  BY StepInv
<1> QED
  BY <1>1, <1>2, PTL DEF Spec

\* Whatever the callbacks do between the read and the write of a call, the
\* Applicants declare what the application asked for once the call has returned.
THEOREM IntentSurvivesPreemption == Spec => []IntentKept
<1>1. IInv => IntentKept
  BY DEF IInv, IntentKept, Intended, Shape
<1> QED
  BY <1>1, Invariance, PTL

\* No Applicant is left quiet about an attribute the peer has not heard, although
\* a callback may have moved it on under the call.
THEOREM QuietSurvivesPreemption == Spec => []QuietIsHeard
<1>1. IInv => QuietIsHeard
  BY DEF IInv, QuietIsHeard, Heard, Forgotten, Quiet
<1> QED
  BY <1>1, Invariance, PTL
=============================================================================
