------------------------------ MODULE MrpProofs ------------------------------
(***************************************************************************)
(* Theorems about Mrp, for every set of attributes: the type invariant, the *)
(* transmit-opportunity and timer invariants, and that a participant        *)
(* implements Declarations (its safety part).                               *)
(*                                                                          *)
(* The inductive invariant is a predicate of a participant record, so that  *)
(* each function of mrp.c, an operator on records, has one preservation     *)
(* lemma, and each handler is proved from the lemmas of what it calls.      *)
(***************************************************************************)
EXTENDS Mrp, TLAPS

\* The states a point-to-point participant can be in.
PointToPoint == {"VO", "VP", "VN", "AN", "AA", "QA", "LA", "LO"}

Typed(p) ==
    /\ p \in Participant
    /\ \A a \in Attribute : p.app[a] \in PointToPoint
    /\ \A a \in Attribute \ p.live :
          p.app[a] = "VO" /\ p.reg[a] = "MT" /\ ~p.leave[a]

Requested(p) == \A a \in Attribute : p.app[a] \in RequestingStates => p.join

Timed(p) == \A a \in Attribute : p.reg[a] = "LV" => p.leave[a]

LeaveAllRuns(p) == p.laTimer = "armed" /\ (p.la = "Active" => p.join)

Intended(p) == p.wanted = {a \in Attribute : p.app[a] \in DeclaringStates}

Heeded(p) ==
    \A a \in Attribute :
        /\ p.app[a] \in {"AN", "QA"} => a \in p.announced
        /\ p.app[a] \in {"VO", "VP", "LO"} => a \notin p.announced

Good(p) ==
    Typed(p) /\ Requested(p) /\ Timed(p) /\ LeaveAllRuns(p) /\ Intended(p) /\ Heeded(p)

\* Every event keeps an Applicant of a point-to-point participant out of the
\* observer and passive states of shared media.
LEMMA TableClosed ==
    ASSUME NEW s \in PointToPoint, NEW ev
    PROVE  /\ ApplicantNext(ev, s) \in PointToPoint
           /\ ApplicantNext(ev, s) \notin BarredStates
BY DEF PointToPoint, BarredStates, ApplicantNext, OnNew, OnJoin, OnLeave,
       OnReceiveJoinIn, OnReceiveIn, OnReceiveEmpty, OnReceiveLeave, OnPeriodic,
       OnTransmit

LEMMA RegistrarClosed ==
    ASSUME NEW r \in RegistrarStates, NEW ev, NEW armed \in BOOLEAN
    PROVE  /\ RegistrarNext(ev, r) \in RegistrarStates
           /\ LeaveTimerNext(ev, r, armed) \in BOOLEAN
           /\ (r = "LV" => armed) /\ ev # "leaveTimer"
                => (RegistrarNext(ev, r) = "LV" => LeaveTimerNext(ev, r, armed))
BY DEF RegistrarStates, RegistrarNext, LeaveTimerNext, JoinEvents, LeaveEvents

\* What applying the Applicants' machine to S makes of the record p.
ApplicantsEffect(p, S, ev, q) ==
    /\ q \in Participant
    /\ \A a \in Attribute :
          q.app[a] = IF a \in S THEN ApplicantNext(ev, p.app[a]) ELSE p.app[a]
    /\ p.join => q.join
    /\ \A a \in S : EntersRequest(p.app[a], ApplicantNext(ev, p.app[a])) => q.join
    /\ q.live = p.live /\ q.reg = p.reg /\ q.leave = p.leave
    /\ q.la = p.la /\ q.laTimer = p.laTimer /\ q.orphans = p.orphans
    /\ q.wanted = p.wanted /\ q.announced = p.announced /\ q.known = p.known

LEMMA ApplicantsFields ==
    ASSUME NEW p, Typed(p), NEW S \in SUBSET p.live, NEW ev
    PROVE  ApplicantsEffect(p, S, ev, Applicants(p, S, ev))
<1> DEFINE next(a) == ApplicantNext(ev, p.app[a])
           moved == {a \in S : next(a) \notin BarredStates}
           newApp == [a \in Attribute |-> IF a \in moved THEN next(a) ELSE p.app[a]]
           newJoin == p.join \/ \E a \in moved : EntersRequest(p.app[a], next(a))
<1>1. S \subseteq Attribute /\ p \in Participant
  BY DEF Typed, Participant
<1>2. \A a \in Attribute : next(a) \in PointToPoint /\ next(a) \notin BarredStates
  BY TableClosed DEF Typed
<1>3. moved = S
  BY <1>1, <1>2
<1>4. newApp \in [Attribute -> ApplicantStates] /\ newJoin \in BOOLEAN
  <2>1. PointToPoint \subseteq ApplicantStates
    BY DEF PointToPoint, ApplicantStates
  <2>2. \A a \in Attribute : next(a) \in ApplicantStates /\ p.app[a] \in ApplicantStates
    BY <1>2, <2>1 DEF Typed
  <2>3. p.join \in BOOLEAN
    BY <1>1 DEF Participant
  <2> HIDE DEF next, moved
  <2> QED BY <2>2, <2>3
<1>5. Applicants(p, S, ev) = [p EXCEPT !.app = newApp, !.join = newJoin]
  BY DEF Applicants
<1>6. /\ \A a \in Attribute : newApp[a] = IF a \in S THEN next(a) ELSE p.app[a]
      /\ p.join => newJoin
      /\ \A a \in S : EntersRequest(p.app[a], next(a)) => newJoin
  BY <1>3
<1> HIDE DEF newApp, newJoin
<1>7. ApplicantsEffect(p, S, ev, [p EXCEPT !.app = newApp, !.join = newJoin])
  BY <1>1, <1>4, <1>6 DEF ApplicantsEffect, Participant
<1> QED
  BY <1>5, <1>7

\* What applying the Registrars' machine to S makes of the record p.
RegistrarsEffect(p, S, ev, q) ==
    /\ q \in Participant
    /\ \A a \in Attribute :
          /\ q.reg[a] = IF a \in S THEN RegistrarNext(ev, p.reg[a]) ELSE p.reg[a]
          /\ q.leave[a] = IF a \in S THEN LeaveTimerNext(ev, p.reg[a], p.leave[a])
                          ELSE p.leave[a]
    /\ q.live = p.live /\ q.app = p.app /\ q.join = p.join
    /\ q.la = p.la /\ q.laTimer = p.laTimer /\ q.orphans = p.orphans
    /\ q.wanted = p.wanted /\ q.announced = p.announced

LEMMA RegistrarsFields ==
    ASSUME NEW p, Typed(p), NEW S \in SUBSET p.live, NEW ev
    PROVE  RegistrarsEffect(p, S, ev, Registrars(p, S, ev))
<1> DEFINE told(i) == {a \in S : Indication(ev, p.reg[a]) = i}
           newReg == [a \in Attribute |->
                        IF a \in S THEN RegistrarNext(ev, p.reg[a]) ELSE p.reg[a]]
           newLeave == [a \in Attribute |->
                          IF a \in S THEN LeaveTimerNext(ev, p.reg[a], p.leave[a])
                          ELSE p.leave[a]]
           newKnown == (p.known \cup told("New") \cup told("Join")) \ told("Leave")
<1>1. S \subseteq Attribute /\ p \in Participant
  BY DEF Typed, Participant
<1>2. \A a \in Attribute : p.reg[a] \in RegistrarStates /\ p.leave[a] \in BOOLEAN
  BY <1>1 DEF Participant
<1>3. newReg \in [Attribute -> RegistrarStates] /\ newLeave \in [Attribute -> BOOLEAN]
  BY <1>2, RegistrarClosed
<1>4. newKnown \in SUBSET Attribute
  BY <1>1 DEF Participant
<1>5. Registrars(p, S, ev) =
        [p EXCEPT !.reg = newReg, !.leave = newLeave, !.known = newKnown]
  BY DEF Registrars
<1>6. \A a \in Attribute :
        /\ newReg[a] = IF a \in S THEN RegistrarNext(ev, p.reg[a]) ELSE p.reg[a]
        /\ newLeave[a] = IF a \in S THEN LeaveTimerNext(ev, p.reg[a], p.leave[a])
                         ELSE p.leave[a]
  OBVIOUS
<1> HIDE DEF newReg, newLeave, newKnown
<1>7. RegistrarsEffect(p, S, ev,
          [p EXCEPT !.reg = newReg, !.leave = newLeave, !.known = newKnown])
  BY <1>1, <1>3, <1>4, <1>6 DEF RegistrarsEffect, Participant
<1> QED
  BY <1>5, <1>7

-----------------------------------------------------------------------------
\* Applicants keeps every part of the invariant that is not about the
\* history of declarations.
LEMMA ApplicantsFrame ==
    ASSUME NEW p, Typed(p), NEW S \in SUBSET p.live, NEW ev,
           NEW q, q = Applicants(p, S, ev)
    PROVE  /\ Typed(q)
           /\ Requested(p) => Requested(q)
           /\ Timed(p) => Timed(q)
           /\ LeaveAllRuns(p) => LeaveAllRuns(q)
<1>1. S \subseteq p.live /\ p.live \subseteq Attribute /\ p \in Participant
  BY DEF Typed, Participant
<1>2. ApplicantsEffect(p, S, ev, q)
  BY ApplicantsFields
<1>3. \A a \in Attribute : ApplicantNext(ev, p.app[a]) \in PointToPoint
  BY TableClosed DEF Typed
<1>4. Typed(q)
  BY <1>1, <1>2, <1>3 DEF Typed, ApplicantsEffect
<1>5. ASSUME Requested(p) PROVE Requested(q)
  BY <1>1, <1>2, <1>5 DEF Requested, EntersRequest, ApplicantsEffect
<1>6. (Timed(p) => Timed(q)) /\ (LeaveAllRuns(p) => LeaveAllRuns(q))
  BY <1>1, <1>2 DEF Timed, LeaveAllRuns, ApplicantsEffect
<1> QED
  BY <1>4, <1>5, <1>6

\* Registrars keeps the whole invariant: a timer is started on entry to LV,
\* and a machine that leaves LV needs none.
LEMMA RegistrarsFrame ==
    ASSUME NEW p, Typed(p), NEW S \in SUBSET p.live, NEW ev,
           NEW q, q = Registrars(p, S, ev)
    PROVE  /\ Typed(q)
           /\ Requested(p) => Requested(q)
           /\ Timed(p) => Timed(q)
           /\ LeaveAllRuns(p) => LeaveAllRuns(q)
           /\ Intended(p) => Intended(q)
           /\ Heeded(p) => Heeded(q)
<1>1. S \subseteq p.live /\ p.live \subseteq Attribute /\ p \in Participant
  BY DEF Typed, Participant
<1>2. RegistrarsEffect(p, S, ev, q)
  BY RegistrarsFields
<1>3. Typed(q)
  BY <1>1, <1>2 DEF Typed, RegistrarsEffect
<1>4. ASSUME Timed(p), NEW a \in Attribute, q.reg[a] = "LV" PROVE q.leave[a]
  <2>1. p.reg[a] \in RegistrarStates
    BY <1>1 DEF Participant
  <2>2. CASE a \notin S
    BY <1>2, <1>4, <2>2 DEF Timed, RegistrarsEffect
  <2>3. CASE a \in S
    BY <1>2, <1>4, <2>1, <2>3
       DEF Timed, RegistrarsEffect, RegistrarStates, RegistrarNext, LeaveTimerNext,
           JoinEvents, LeaveEvents
  <2> QED BY <2>2, <2>3
<1>5. Timed(p) => Timed(q)
  BY <1>4 DEF Timed
<1>6. (Requested(p) => Requested(q)) /\ (LeaveAllRuns(p) => LeaveAllRuns(q))
  BY <1>2 DEF Requested, LeaveAllRuns, RegistrarsEffect
<1>7. (Intended(p) => Intended(q)) /\ (Heeded(p) => Heeded(q))
  BY <1>2 DEF Intended, Heeded, RegistrarsEffect
<1> QED
  BY <1>3, <1>5, <1>6, <1>7

\* An event that neither the application nor a transmission causes keeps the
\* declarations.
PassiveEvents == {"rJoinMt", "rMt", "rNew", "periodic"}

LEMMA PassiveGood ==
    ASSUME NEW p, Good(p), NEW S \in SUBSET p.live, NEW ev \in PassiveEvents
    PROVE  Good(Applicants(p, S, ev))
<1> DEFINE q == Applicants(p, S, ev)
<1>1. Typed(p) /\ Intended(p) /\ Heeded(p)
  BY DEF Good
<1>2. Typed(q) /\ Requested(q) /\ Timed(q) /\ LeaveAllRuns(q)
  BY ApplicantsFrame DEF Good
<1>3. ApplicantsEffect(p, S, ev, q)
  BY <1>1, ApplicantsFields
<1>4. \A a \in Attribute : p.app[a] \in PointToPoint
  BY <1>1 DEF Typed
<1>5. \A s \in PointToPoint :
         /\ ApplicantNext(ev, s) \in DeclaringStates <=> s \in DeclaringStates
         /\ ApplicantNext(ev, s) \in {"AN", "QA"} => s \in {"AN", "QA"}
         /\ ApplicantNext(ev, s) \in {"VO", "VP", "LO"} => s \in {"VO", "VP", "LO"}
  BY DEF PassiveEvents, PointToPoint, DeclaringStates, ApplicantNext, OnReceiveEmpty,
         OnPeriodic
<1> HIDE DEF q
<1>6. Intended(q)
  BY <1>1, <1>3, <1>4, <1>5 DEF Intended, ApplicantsEffect
<1>7. Heeded(q)
  BY <1>1, <1>3, <1>4, <1>5 DEF Heeded, ApplicantsEffect
<1>8. Good(q)
  BY <1>2, <1>6, <1>7 DEF Good
<1> QED
  BY <1>8 DEF q

\* A change of the history of announcements alone.
LEMMA AnnouncedFrame ==
    ASSUME NEW p, Typed(p), NEW X \in SUBSET Attribute,
           NEW f, f = [p EXCEPT !.announced = X]
    PROVE  /\ Typed(f)
           /\ Requested(p) => Requested(f)
           /\ Timed(p) => Timed(f)
           /\ LeaveAllRuns(p) => LeaveAllRuns(f)
           /\ Intended(p) => Intended(f)
           /\ f.announced = X /\ f.live = p.live /\ f.app = p.app /\ f.wanted = p.wanted
<1>1. /\ f \in Participant /\ f.announced = X
      /\ f.live = p.live /\ f.app = p.app /\ f.reg = p.reg /\ f.leave = p.leave
      /\ f.join = p.join /\ f.la = p.la /\ f.laTimer = p.laTimer /\ f.wanted = p.wanted
  BY DEF Typed, Participant
<1> QED
  BY <1>1 DEF Typed, Requested, Timed, LeaveAllRuns, Intended

LEMMA LeaveGood ==
    ASSUME NEW p, Good(p), NEW S \in SUBSET p.live
    PROVE  Good(Applicants(PeerForgets(p, S), S, "rLv"))
<1> DEFINE f == PeerForgets(p, S)
           q == Applicants(f, S, "rLv")
<1>1. p \in Participant /\ Typed(p) /\ Heeded(p)
  BY DEF Good, Typed
<1>2. p.announced \ S \in SUBSET Attribute
  BY <1>1 DEF Participant
<1>3. /\ Typed(f) /\ Requested(f) /\ Timed(f) /\ LeaveAllRuns(f) /\ Intended(f)
      /\ f.announced = p.announced \ S /\ f.live = p.live /\ f.app = p.app
  BY <1>1, <1>2, AnnouncedFrame DEF Good, PeerForgets
<1> HIDE DEF f
<1>4. S \in SUBSET f.live
  BY <1>3
<1>5. Typed(q) /\ Requested(q) /\ Timed(q) /\ LeaveAllRuns(q)
  BY <1>3, <1>4, ApplicantsFrame
<1>6. ApplicantsEffect(f, S, "rLv", q)
  BY <1>3, <1>4, ApplicantsFields
<1>7. \A s \in PointToPoint :
         /\ ApplicantNext("rLv", s) \in DeclaringStates <=> s \in DeclaringStates
         /\ ApplicantNext("rLv", s) \notin {"AN", "QA"}
  BY DEF PointToPoint, DeclaringStates, ApplicantNext, OnReceiveLeave
<1>8. \A a \in Attribute : f.app[a] \in PointToPoint
  BY <1>3 DEF Typed
<1> HIDE DEF q
<1>9. Intended(q)
  BY <1>3, <1>6, <1>7, <1>8 DEF Intended, ApplicantsEffect
<1>10. Heeded(q)
  BY <1>1, <1>3, <1>6, <1>7, <1>8 DEF Heeded, ApplicantsEffect
<1>11. Good(q)
  BY <1>5, <1>9, <1>10 DEF Good
<1> QED
  BY <1>11 DEF q, f

\* In and JoinIn: the peer vouches for what an Applicant in AA repeats.
LEMMA PeerSaysGood ==
    ASSUME NEW p, Good(p), NEW a \in p.live, NEW ev \in ReceivedEvents
    PROVE  Good(Applicants(PeerSays(p, a, ev), {a}, ev))
<1>1. CASE ev = "rLv"
  <2>1. PeerSays(p, a, ev) = PeerForgets(p, {a})
    BY <1>1 DEF PeerSays
  <2> QED BY <1>1, <2>1, LeaveGood
<1>2. CASE ev \in {"rIn", "rJoinIn"}
  <2> DEFINE X == IF p.app[a] = "AA" THEN p.announced \cup {a} ELSE p.announced
             f == [p EXCEPT !.announced = X]
             q == Applicants(f, {a}, ev)
  <2>1. p \in Participant /\ Typed(p) /\ Heeded(p) /\ a \in Attribute
    BY DEF Good, Typed, Participant
  <2>2. PeerSays(p, a, ev) = f
    BY <1>2, <2>1 DEF PeerSays, Participant
  <2>3. X \in SUBSET Attribute
    BY <2>1 DEF Participant
  <2>4. /\ Typed(f) /\ Requested(f) /\ Timed(f) /\ LeaveAllRuns(f) /\ Intended(f)
        /\ f.announced = X /\ f.live = p.live /\ f.app = p.app
    BY <2>1, <2>3, AnnouncedFrame DEF Good
  <2> HIDE DEF f
  <2>5. {a} \in SUBSET f.live
    BY <2>4
  <2>6. Typed(q) /\ Requested(q) /\ Timed(q) /\ LeaveAllRuns(q)
    BY <2>4, <2>5, ApplicantsFrame
  <2>7. ApplicantsEffect(f, {a}, ev, q)
    BY <2>4, <2>5, ApplicantsFields
  <2>8. \A s \in PointToPoint :
           ApplicantNext(ev, s) = IF s = "AA" THEN "QA" ELSE s
    BY <1>2 DEF PointToPoint, ApplicantNext, OnReceiveIn, OnReceiveJoinIn
  <2>9. \A b \in Attribute : p.app[b] \in PointToPoint
    BY <2>1 DEF Typed
  <2> HIDE DEF q
  <2>10. Intended(q)
    BY <2>4, <2>7, <2>8, <2>9 DEF Intended, ApplicantsEffect, DeclaringStates
  <2>11. Heeded(q)
    BY <2>1, <2>4, <2>7, <2>8, <2>9 DEF Heeded, ApplicantsEffect
  <2>12. Good(q)
    BY <2>6, <2>10, <2>11 DEF Good
  <2> QED BY <2>2, <2>12 DEF q
<1>3. CASE ev \in PassiveEvents
  <2>1. PeerSays(p, a, ev) = p
    BY <1>3 DEF PeerSays, PassiveEvents
  <2>2. {a} \in SUBSET p.live
    OBVIOUS
  <2> QED BY <1>3, <2>1, <2>2, PassiveGood
<1> QED
  BY <1>1, <1>2, <1>3 DEF ReceivedEvents, PassiveEvents

-----------------------------------------------------------------------------
(* Creation, deletion and the application's requests.                       *)

LEMMA GetOrCreateGood ==
    ASSUME NEW p, Good(p), NEW a \in Attribute,
           NEW q, q = GetOrCreate(p, a)
    PROVE  /\ Good(q) /\ a \in q.live
           /\ q.wanted = p.wanted /\ q.announced = p.announced
<1>1. p \in Participant
  BY DEF Good, Typed
<1>2. CASE a \in p.live
  BY <1>2 DEF GetOrCreate
<1>3. CASE a \notin p.live
  <2>1. p.app[a] = "VO" /\ p.reg[a] = "MT" /\ ~p.leave[a]
    BY <1>3 DEF Good, Typed
  <2> DEFINE newLive == p.live \cup {a}
             newApp == [p.app EXCEPT ![a] = "VO"]
             newReg == [p.reg EXCEPT ![a] = "MT"]
             newLeave == [p.leave EXCEPT ![a] = FALSE]
  <2>2. q = [p EXCEPT !.live = newLive, !.app = newApp, !.reg = newReg,
                      !.leave = newLeave]
    BY <1>3 DEF GetOrCreate
  <2>3. /\ p.app \in [Attribute -> ApplicantStates]
        /\ p.reg \in [Attribute -> RegistrarStates]
        /\ p.leave \in [Attribute -> BOOLEAN]
        /\ p.live \in SUBSET Attribute
    BY <1>1 DEF Participant
  <2>4. /\ newApp = p.app /\ newReg = p.reg /\ newLeave = p.leave
        /\ newLive \in SUBSET Attribute /\ a \in newLive
        /\ \A b \in Attribute \ newLive : b \notin p.live
    BY <2>1, <2>3
  <2> HIDE DEF newLive, newApp, newReg, newLeave
  <2>5. /\ q \in Participant /\ q.live = newLive
        /\ q.app = p.app /\ q.reg = p.reg /\ q.leave = p.leave
        /\ q.join = p.join /\ q.la = p.la /\ q.laTimer = p.laTimer
        /\ q.wanted = p.wanted /\ q.announced = p.announced
    BY <1>1, <2>2, <2>3, <2>4 DEF Participant
  <2>6. Typed(q)
    BY <2>4, <2>5 DEF Good, Typed
  <2>7. Requested(q) /\ Timed(q) /\ LeaveAllRuns(q) /\ Intended(q) /\ Heeded(q)
    BY <2>5 DEF Good, Requested, Timed, LeaveAllRuns, Intended, Heeded
  <2> QED BY <2>4, <2>5, <2>6, <2>7 DEF Good
<1> QED
  BY <1>2, <1>3

\* Deleting an attribute whose Applicant is in VO: nothing is declared, and
\* the attempt to delete the running LeaveAll timer fails.
LEMMA DeleteGood ==
    ASSUME NEW p, Good(p), NEW a \in p.live, p.app[a] = "VO",
           NEW q, q = Delete(p, a)
    PROVE  Good(q) /\ q.wanted = p.wanted /\ q.announced = p.announced
<1>1. p \in Participant /\ p.laTimer = "armed" /\ a \in Attribute
  BY DEF Good, Typed, LeaveAllRuns, Participant
<1>2. "VO" \in ApplicantStates /\ "MT" \in RegistrarStates
  BY DEF ApplicantStates, RegistrarStates
<1> DEFINE newLive == p.live \ {a}
           newApp == [p.app EXCEPT ![a] = "VO"]
           newReg == [p.reg EXCEPT ![a] = "MT"]
           newLeave == [p.leave EXCEPT ![a] = FALSE]
           newOrphans == IF p.leave[a] THEN p.orphans \cup {a} ELSE p.orphans
<1>3. q = [p EXCEPT !.live = newLive, !.app = newApp, !.reg = newReg,
                    !.leave = newLeave, !.laTimer = "armed", !.orphans = newOrphans]
  BY <1>1 DEF Delete, DeleteLeaveAll
<1>4. /\ newLive \in SUBSET Attribute /\ newOrphans \in SUBSET Attribute
      /\ newApp \in [Attribute -> ApplicantStates] /\ newApp = p.app
      /\ newReg \in [Attribute -> RegistrarStates]
      /\ newLeave \in [Attribute -> BOOLEAN]
      /\ \A b \in Attribute : /\ newReg[b] = IF b = a THEN "MT" ELSE p.reg[b]
                              /\ newLeave[b] = IF b = a THEN FALSE ELSE p.leave[b]
  BY <1>1, <1>2 DEF Participant
<1> HIDE DEF newLive, newApp, newReg, newLeave, newOrphans
<1>5. /\ q \in Participant /\ q.live = newLive
      /\ q.app = newApp /\ q.reg = newReg /\ q.leave = newLeave
      /\ q.join = p.join /\ q.la = p.la /\ q.laTimer = p.laTimer
      /\ q.wanted = p.wanted /\ q.announced = p.announced
  BY <1>1, <1>3, <1>4 DEF Participant
<1>6. Typed(q)
  BY <1>4, <1>5 DEF Good, Typed, newLive
<1>7. Requested(q) /\ Timed(q) /\ LeaveAllRuns(q) /\ Intended(q) /\ Heeded(q)
  BY <1>4, <1>5 DEF Good, Requested, Timed, LeaveAllRuns, Intended, Heeded
<1> QED
  BY <1>5, <1>6, <1>7 DEF Good

LEMMA FreeCheckGood ==
    ASSUME NEW p, Good(p), NEW a \in p.live, NEW q,
           q = FreeCheck(p, a) \/ q = CheckRelevance(p, a)
    PROVE  Good(q) /\ q.wanted = p.wanted /\ q.announced = p.announced
<1>1. p.app[a] \in ObserverStates => p.app[a] = "VO"
  BY DEF Good, Typed, Participant, PointToPoint, ObserverStates
<1>2. CASE q = p
  BY <1>2
<1>3. CASE q # p
  <2>1. q = Delete(p, a) /\ p.app[a] = "VO"
    BY <1>1, <1>3 DEF FreeCheck, CheckRelevance
  <2> QED BY <2>1, DeleteGood
<1> QED
  BY <1>2, <1>3

\* A change of what the application wants, alone.
LEMMA WantedFrame ==
    ASSUME NEW p, Typed(p), NEW X \in SUBSET Attribute,
           NEW f, f = [p EXCEPT !.wanted = X]
    PROVE  /\ Typed(f)
           /\ Requested(p) => Requested(f)
           /\ Timed(p) => Timed(f)
           /\ LeaveAllRuns(p) => LeaveAllRuns(f)
           /\ Heeded(p) => Heeded(f)
           /\ f.wanted = X /\ f.live = p.live /\ f.app = p.app
           /\ f.announced = p.announced
<1>1. /\ f \in Participant /\ f.wanted = X
      /\ f.live = p.live /\ f.app = p.app /\ f.reg = p.reg /\ f.leave = p.leave
      /\ f.join = p.join /\ f.la = p.la /\ f.laTimer = p.laTimer
      /\ f.announced = p.announced
  BY DEF Typed, Participant
<1> QED
  BY <1>1 DEF Typed, Requested, Timed, LeaveAllRuns, Heeded

LEMMA JoinRequestGood ==
    ASSUME NEW p, Good(p), NEW a \in Attribute, NEW new \in BOOLEAN,
           NEW q, q = JoinRequest(p, a, new)
    PROVE  /\ Good(q) /\ a \in q.live
           /\ q.wanted = p.wanted \cup {a} /\ q.announced = p.announced
<1> DEFINE g == GetOrCreate(p, a)
           ev == IF new THEN "New" ELSE "Join"
           r == Applicants(g, {a}, ev)
<1>1. Good(g) /\ a \in g.live /\ g.wanted = p.wanted /\ g.announced = p.announced
  BY GetOrCreateGood
<1>2. q = [r EXCEPT !.wanted = @ \cup {a}]
  BY DEF JoinRequest
<1> HIDE DEF g
<1>3. Typed(g) /\ {a} \in SUBSET g.live
  BY <1>1 DEF Good
<1>4. Typed(r) /\ Requested(r) /\ Timed(r) /\ LeaveAllRuns(r)
  BY <1>1, <1>3, ApplicantsFrame DEF Good
<1>5. ApplicantsEffect(g, {a}, ev, r)
  BY <1>3, ApplicantsFields
<1>6. \A s \in PointToPoint :
         /\ ApplicantNext(ev, s) \in DeclaringStates
         /\ ApplicantNext(ev, s) \in {"AN", "QA"} => s \in {"AN", "QA"}
         /\ ApplicantNext(ev, s) \in {"VO", "VP", "LO"} => s \in {"VO", "VP", "LO"}
  BY DEF PointToPoint, DeclaringStates, ApplicantNext, OnNew, OnJoin
<1>7. \A b \in Attribute : g.app[b] \in PointToPoint
  BY <1>3 DEF Typed
<1> HIDE DEF r, ev
<1>8. Heeded(r)
  BY <1>1, <1>5, <1>6, <1>7 DEF Good, Heeded, ApplicantsEffect
<1>9. r.wanted \cup {a} = {b \in Attribute : r.app[b] \in DeclaringStates}
  BY <1>1, <1>5, <1>6, <1>7 DEF Good, Intended, ApplicantsEffect
<1>10. r \in Participant /\ r.wanted \cup {a} \in SUBSET Attribute
  BY <1>4 DEF Typed, Participant
<1>11. /\ Typed(q) /\ Requested(q) /\ Timed(q) /\ LeaveAllRuns(q) /\ Heeded(q)
       /\ q.wanted = r.wanted \cup {a} /\ q.live = r.live /\ q.app = r.app
       /\ q.announced = r.announced
  BY <1>2, <1>4, <1>8, <1>10, WantedFrame
<1>12. Intended(q)
  BY <1>9, <1>11 DEF Intended
<1> QED
  BY <1>1, <1>5, <1>11, <1>12 DEF Good, ApplicantsEffect

LEMMA LeaveRequestGood ==
    ASSUME NEW p, Good(p), NEW a \in p.live,
           NEW q, q = LeaveRequest(p, a)
    PROVE  Good(q) /\ q.wanted = p.wanted \ {a} /\ q.announced = p.announced
<1> DEFINE r == Applicants(p, {a}, "Lv")
           w == [r EXCEPT !.wanted = @ \ {a}]
<1>1. Typed(p) /\ {a} \in SUBSET p.live /\ a \in Attribute
  BY DEF Good, Typed, Participant
<1>2. q = CheckRelevance(w, a)
  BY DEF LeaveRequest
<1>3. Typed(r) /\ Requested(r) /\ Timed(r) /\ LeaveAllRuns(r)
  BY <1>1, ApplicantsFrame DEF Good
<1>4. ApplicantsEffect(p, {a}, "Lv", r)
  BY <1>1, ApplicantsFields
<1>5. \A s \in PointToPoint :
         /\ ApplicantNext("Lv", s) \notin DeclaringStates
         /\ ApplicantNext("Lv", s) \notin {"AN", "QA"}
         /\ ApplicantNext("Lv", s) \in {"VO", "VP", "LO"} => s \in {"VO", "VP", "LO"}
  BY DEF PointToPoint, DeclaringStates, ApplicantNext, OnLeave
<1>6. \A b \in Attribute : p.app[b] \in PointToPoint
  BY <1>1 DEF Typed
<1> HIDE DEF r
<1>7. Heeded(r)
  BY <1>4, <1>5, <1>6 DEF Good, Heeded, ApplicantsEffect
<1>8. r.wanted \ {a} = {b \in Attribute : r.app[b] \in DeclaringStates}
  BY <1>1, <1>4, <1>5, <1>6 DEF Good, Intended, ApplicantsEffect
<1>9. r \in Participant /\ r.wanted \ {a} \in SUBSET Attribute
  BY <1>3 DEF Typed, Participant
<1>10. /\ Typed(w) /\ Requested(w) /\ Timed(w) /\ LeaveAllRuns(w) /\ Heeded(w)
       /\ w.wanted = r.wanted \ {a} /\ w.live = r.live /\ w.app = r.app
       /\ w.announced = r.announced
  BY <1>3, <1>7, <1>9, WantedFrame
<1>11. Good(w)
  BY <1>8, <1>10 DEF Good, Intended
<1>12. a \in w.live /\ w.wanted = p.wanted \ {a} /\ w.announced = p.announced
  BY <1>4, <1>10 DEF ApplicantsEffect
<1> HIDE DEF w
<1> QED
  BY <1>2, <1>11, <1>12, FreeCheckGood

-----------------------------------------------------------------------------
(* Handlers of the control task.                                            *)

LEMMA JoinIndicationGood ==
    ASSUME NEW p, Good(p), NEW a \in p.live, NEW i,
           NEW q, q = JoinIndication(p, a, i)
    PROVE  /\ Good(q) /\ a \in q.live
           /\ q.wanted = p.wanted \/ q.wanted = p.wanted \cup {a}
           /\ i = "none" => q = p
           /\ q.announced = p.announced
<1>1. a \in Attribute
  BY DEF Good, Typed, Participant
<1>2. CASE q = p
  BY <1>2
<1>3. CASE q # p
  <2> DEFINE new == i = "New"
  <2>1. i # "none" /\ q = JoinRequest(p, a, new)
    BY <1>3 DEF JoinIndication
  <2>2. new \in BOOLEAN
    OBVIOUS
  <2> HIDE DEF new
  <2> QED BY <1>1, <2>1, <2>2, JoinRequestGood
<1> QED
  BY <1>2, <1>3

\* What one received event does to the two sets of the abstract specification:
\* a request the indication makes, a peer that forgets, a peer that confirms.
ReceivedEffect(p, a, q) ==
    \/ q.wanted = p.wanted /\ q.announced = p.announced
    \/ q.wanted = p.wanted \cup {a} /\ q.announced = p.announced
    \/ q.wanted = p.wanted /\ q.announced = p.announced \ {a}
    \/ q.wanted = p.wanted \cup {a} /\ q.announced = p.announced \cup {a}

LEMMA ProcessAttributeGood ==
    ASSUME NEW p, Good(p), NEW a \in p.live, NEW ev \in ReceivedEvents,
           NEW q, q = ProcessAttribute(p, a, ev)
    PROVE  Good(q) /\ ReceivedEffect(p, a, q)
<1> DEFINE r == Registrars(p, {a}, ev)
           i == Indication(ev, p.reg[a])
           j == JoinIndication(r, a, i)
           s == PeerSays(j, a, ev)
           t == Applicants(s, {a}, ev)
<1>1. Typed(p) /\ {a} \in SUBSET p.live /\ a \in Attribute
  BY DEF Good, Typed, Participant
<1>2. Good(r)
  BY <1>1, RegistrarsFrame DEF Good
<1>3. r.live = p.live /\ r.wanted = p.wanted /\ r.announced = p.announced
  BY <1>1, RegistrarsFields DEF RegistrarsEffect
<1>4. q = FreeCheck(t, a)
  BY DEF ProcessAttribute
<1> HIDE DEF r
<1>5. /\ Good(j) /\ a \in j.live /\ j.announced = p.announced
      /\ j.wanted = p.wanted \/ j.wanted = p.wanted \cup {a}
      /\ i = "none" => j.wanted = p.wanted
  BY <1>2, <1>3, JoinIndicationGood
<1>6. ev = "rLv" => i = "none"
  BY DEF Indication
<1> HIDE DEF j, i
<1>7. j \in Participant /\ Typed(j) /\ Intended(j)
  BY <1>5 DEF Good, Typed
<1>8. Good(t)
  BY <1>5, PeerSaysGood
<1>9. \/ s = j
      \/ ev = "rLv" /\ s = [j EXCEPT !.announced = @ \ {a}]
      \/ j.app[a] = "AA" /\ s = [j EXCEPT !.announced = @ \cup {a}]
  BY DEF PeerSays, PeerForgets
<1>10. \/ s = j
       \/ Typed(s) /\ s.live = j.live /\ s.wanted = j.wanted
  <2>1. j.announced \ {a} \in SUBSET Attribute /\ j.announced \cup {a} \in SUBSET Attribute
    BY <1>1, <1>7 DEF Participant
  <2> QED BY <1>7, <1>9, <2>1, AnnouncedFrame
<1>11. /\ Typed(s) /\ s.live = j.live /\ s.wanted = j.wanted
       /\ \/ s.announced = j.announced
          \/ ev = "rLv" /\ s.announced = j.announced \ {a}
          \/ j.app[a] = "AA" /\ s.announced = j.announced \cup {a}
  BY <1>7, <1>9, <1>10 DEF Participant
<1>12. j.app[a] = "AA" => a \in j.wanted
  BY <1>1, <1>7 DEF Intended, DeclaringStates
<1> HIDE DEF s
<1>13. {a} \in SUBSET s.live
  BY <1>5, <1>11
<1>14. t.wanted = s.wanted /\ t.announced = s.announced /\ t.live = s.live
  <2>1. ApplicantsEffect(s, {a}, ev, t)
    BY <1>11, <1>13, ApplicantsFields
  <2> QED BY <2>1 DEF ApplicantsEffect
<1> HIDE DEF t
<1>15. Good(q) /\ q.wanted = t.wanted /\ q.announced = t.announced
  BY <1>4, <1>5, <1>8, <1>11, <1>14, FreeCheckGood
<1>16. ReceivedEffect(p, a, q)
  <2>1. CASE s.announced = j.announced
    BY <1>5, <1>11, <1>14, <1>15, <2>1 DEF ReceivedEffect
  <2>2. CASE ev = "rLv" /\ s.announced = j.announced \ {a}
    BY <1>5, <1>6, <1>11, <1>14, <1>15, <2>2 DEF ReceivedEffect
  <2>3. CASE j.app[a] = "AA" /\ s.announced = j.announced \cup {a}
    <3>1. j.wanted = p.wanted \cup {a}
      BY <1>5, <1>12, <2>3
    <3> QED BY <1>5, <1>11, <1>14, <1>15, <2>3, <3>1 DEF ReceivedEffect
  <2> QED BY <1>11, <2>1, <2>2, <2>3
<1> QED
  BY <1>15, <1>16

LEMMA FindAndProcessGood ==
    ASSUME NEW p, Good(p), NEW a \in Attribute, NEW ev \in ReceivedEvents,
           NEW q, q = FindAndProcess(p, a, ev)
    PROVE  Good(q) /\ ReceivedEffect(p, a, q)
<1> DEFINE g == GetOrCreate(p, a)
<1>1. Good(g) /\ a \in g.live /\ g.wanted = p.wanted /\ g.announced = p.announced
  BY GetOrCreateGood
<1>2. q = ProcessAttribute(g, a, ev)
  BY DEF FindAndProcess
<1> HIDE DEF g
<1>3. Good(q) /\ ReceivedEffect(g, a, q)
  BY <1>1, <1>2, ProcessAttributeGood
<1> QED
  BY <1>1, <1>3 DEF ReceivedEffect

LEMMA ReceiveLeaveAllGood ==
    ASSUME NEW p, Good(p), NEW T, NEW q, q = ReceiveLeaveAll(p, T)
    PROVE  Good(q) /\ q.wanted = p.wanted /\ q.announced = p.announced \ (p.live \cap T)
<1> DEFINE S == p.live \cap T
           r == Registrars(p, S, "rLv")
           f == PeerForgets(r, S)
           t == Applicants(f, S, "rLv")
<1>1. Typed(p) /\ S \in SUBSET p.live /\ S \in SUBSET Attribute
  BY DEF Good, Typed, Participant
<1>2. Good(r)
  BY <1>1, RegistrarsFrame DEF Good
<1>3. r.live = p.live /\ r.wanted = p.wanted /\ r.announced = p.announced
  <2> HIDE DEF S
  <2>1. RegistrarsEffect(p, S, "rLv", r)
    BY <1>1, RegistrarsFields
  <2> HIDE DEF r
  <2> QED BY <2>1 DEF RegistrarsEffect
<1>4. q = [t EXCEPT !.la = "Passive"]
  BY DEF ReceiveLeaveAll, OnLeaveAllReceived
<1> HIDE DEF S, r
<1>5. Good(t)
  BY <1>1, <1>2, <1>3, LeaveGood
<1>6. r.announced \ S \in SUBSET Attribute
  BY <1>2 DEF Good, Typed, Participant
<1>7. /\ Typed(f) /\ f.live = p.live /\ f.wanted = p.wanted
      /\ f.announced = p.announced \ S
  BY <1>2, <1>3, <1>6, AnnouncedFrame DEF Good, PeerForgets
<1> HIDE DEF f
<1>8. t.wanted = p.wanted /\ t.announced = p.announced \ S
  BY <1>1, <1>7, ApplicantsFields DEF ApplicantsEffect
<1> HIDE DEF t
<1>9. /\ q \in Participant /\ q.la = "Passive"
      /\ q.live = t.live /\ q.app = t.app /\ q.reg = t.reg /\ q.leave = t.leave
      /\ q.join = t.join /\ q.laTimer = t.laTimer
      /\ q.wanted = t.wanted /\ q.announced = t.announced
  BY <1>4, <1>5 DEF Good, Typed, Participant
<1>10. Good(q)
  BY <1>5, <1>9
     DEF Good, Typed, Requested, Timed, LeaveAllRuns, Intended, Heeded
<1> QED
  BY <1>8, <1>9, <1>10 DEF S

-----------------------------------------------------------------------------
(* Timer callbacks.                                                         *)

\* Inside the callback of the join timer, between its LeaveAll machine and its
\* transmission: an Applicant in VP may have been declared to the peer before.
Unsettled(p) ==
    /\ Typed(p) /\ Timed(p) /\ Intended(p)
    /\ p.laTimer = "armed" /\ p.la = "Passive"
    /\ \A a \in Attribute :
          /\ p.app[a] \in {"AN", "QA"} => a \in p.announced
          /\ p.app[a] \in {"VO", "LO"} => a \notin p.announced

LEMMA LeaveAllTransmitUnsettled ==
    ASSUME NEW p, Good(p), NEW e,
           e = OnLeaveAllTransmit([p EXCEPT !.join = FALSE])
    PROVE  Unsettled(e) /\ e.wanted = p.wanted
<1> DEFINE c == [p EXCEPT !.join = FALSE]
           d == [c EXCEPT !.la = "Passive"]
           r == Applicants(d, d.live, "rLA")
           t == Registrars(r, d.live, "rLA")
<1>1. /\ p \in Participant /\ Typed(p) /\ Timed(p) /\ Intended(p) /\ Heeded(p)
      /\ p.laTimer = "armed" /\ p.la \in {"Active", "Passive"}
  BY DEF Good, Typed, LeaveAllRuns, Participant
<1>2. /\ c \in Participant /\ c.la = p.la /\ c.live = p.live /\ c.app = p.app
      /\ c.reg = p.reg /\ c.leave = p.leave /\ c.laTimer = "armed"
      /\ c.wanted = p.wanted /\ c.announced = p.announced
  BY <1>1 DEF Participant
<1>3. /\ d \in Participant /\ d.la = "Passive" /\ d.live = p.live /\ d.app = p.app
      /\ d.reg = p.reg /\ d.leave = p.leave /\ d.laTimer = "armed"
      /\ d.wanted = p.wanted /\ d.announced = p.announced
  BY <1>1 DEF Participant
<1> HIDE DEF c, d
<1>4. CASE p.la = "Passive"
  <2>1. e = c
    BY <1>2, <1>4 DEF OnLeaveAllTransmit, c
  <2>2. Typed(c)
    BY <1>1, <1>2 DEF Typed
  <2>3. Timed(c) /\ Intended(c) /\ Heeded(c)
    BY <1>1, <1>2 DEF Timed, Intended, Heeded
  <2> QED BY <1>2, <1>4, <2>1, <2>2, <2>3 DEF Unsettled, Heeded
<1>5. CASE p.la = "Active"
  <2>1. e = t
    BY <1>2, <1>3, <1>5 DEF OnLeaveAllTransmit, c, d
  <2>2. Typed(d) /\ Timed(d) /\ d.live \in SUBSET d.live
    BY <1>1, <1>3 DEF Typed, Timed
  <2>3. Typed(r) /\ Timed(r)
    BY <2>2, ApplicantsFrame
  <2>4. ApplicantsEffect(d, d.live, "rLA", r)
    BY <2>2, ApplicantsFields
  <2>5. \A s \in PointToPoint :
           /\ ApplicantNext("rLA", s) \in DeclaringStates <=> s \in DeclaringStates
           /\ ApplicantNext("rLA", s) \notin {"AN", "QA"}
           /\ ApplicantNext("rLA", s) \in {"VO", "LO"} => s \in {"VO", "LO"}
    BY DEF PointToPoint, DeclaringStates, ApplicantNext, OnReceiveLeave
  <2>6. \A a \in Attribute : /\ d.app[a] \in PointToPoint
                             /\ a \notin d.live => d.app[a] = "VO"
    BY <2>2 DEF Typed
  <2> HIDE DEF r
  <2>7. d.live \in SUBSET r.live
    BY <2>4 DEF ApplicantsEffect
  <2>8. RegistrarsEffect(r, d.live, "rLA", t) /\ Typed(t) /\ Timed(t)
    BY <2>3, <2>7, RegistrarsFields, RegistrarsFrame
  <2> HIDE DEF t
  <2>9. /\ t.la = "Passive" /\ t.laTimer = "armed" /\ t.app = r.app
        /\ t.wanted = p.wanted /\ t.announced = p.announced
    BY <1>3, <2>4, <2>8 DEF ApplicantsEffect, RegistrarsEffect
  <2>10. \A a \in Attribute :
            /\ t.app[a] \in DeclaringStates <=> p.app[a] \in DeclaringStates
            /\ t.app[a] \notin {"AN", "QA"}
            /\ t.app[a] \in {"VO", "LO"} => p.app[a] \in {"VO", "LO"}
    BY <1>3, <2>4, <2>5, <2>6, <2>9 DEF ApplicantsEffect
  <2>11. Intended(t)
    BY <1>1, <2>9, <2>10 DEF Intended
  <2>12. Unsettled(t)
    BY <1>1, <2>8, <2>9, <2>10, <2>11 DEF Unsettled, Heeded
  <2> QED BY <2>1, <2>9, <2>12
<1> QED
  BY <1>1, <1>4, <1>5

LEMMA JoinTimerGood ==
    ASSUME NEW p, Good(p), NEW q, q = JoinTimerCallback(p)
    PROVE  Good(q) /\ q.wanted = p.wanted /\ q.announced = q.wanted
<1> DEFINE e == OnLeaveAllTransmit([p EXCEPT !.join = FALSE])
           X == (e.announced \cup Heard(e, {"New", "JoinIn", "JoinMt"}))
                    \ Heard(e, {"Lv"})
           f == [e EXCEPT !.announced = X]
<1>1. Unsettled(e) /\ e.wanted = p.wanted
  BY LeaveAllTransmitUnsettled
<1>2. q = Applicants(f, e.live, "tx")
  BY DEF JoinTimerCallback, Transmit
<1> HIDE DEF e
<1>3. /\ e \in Participant /\ Typed(e) /\ Timed(e) /\ Intended(e)
      /\ e.announced \in SUBSET Attribute /\ e.live \in SUBSET Attribute
      /\ e.laTimer = "armed" /\ e.la = "Passive"
  BY <1>1 DEF Unsettled, Typed, Participant
<1>4. \A a \in Attribute : /\ e.app[a] \in PointToPoint
                           /\ a \notin e.live => e.app[a] = "VO"
  BY <1>3 DEF Typed
<1>5. /\ \A a \in e.live :
            /\ MessageFor(e.app[a], e.reg[a]) \in {"New", "JoinIn", "JoinMt"}
                  <=> e.app[a] \in {"VN", "AN", "VP", "AA"}
            /\ MessageFor(e.app[a], e.reg[a]) \in {"Lv"} <=> e.app[a] = "LA"
  <2>1. \A s \in PointToPoint, r \in RegistrarStates :
           /\ MessageFor(s, r) \in {"New", "JoinIn", "JoinMt"}
                 <=> s \in {"VN", "AN", "VP", "AA"}
           /\ MessageFor(s, r) \in {"Lv"} <=> s = "LA"
    BY DEF PointToPoint, RegistrarStates, MessageFor
  <2>2. \A a \in e.live : e.app[a] \in PointToPoint /\ e.reg[a] \in RegistrarStates
    BY <1>3, <1>4 DEF Participant
  <2> QED BY <2>1, <2>2
<1>6. X = {a \in Attribute : e.app[a] \in DeclaringStates}
  <2>1. ASSUME NEW a \in Attribute
        PROVE  a \in X <=> e.app[a] \in DeclaringStates
    <3>1. /\ e.app[a] \in {"AN", "QA"} => a \in e.announced
          /\ e.app[a] \in {"VO", "LO"} => a \notin e.announced
      BY <1>1 DEF Unsettled
    <3>2. /\ a \in Heard(e, {"New", "JoinIn", "JoinMt"})
                <=> e.app[a] \in {"VN", "AN", "VP", "AA"}
          /\ a \in Heard(e, {"Lv"}) <=> e.app[a] = "LA"
      BY <1>4, <1>5 DEF Heard
    <3> QED BY <1>4, <3>1, <3>2 DEF PointToPoint, DeclaringStates
  <2>2. X \subseteq Attribute
    BY <1>3 DEF Heard
  <2> QED BY <2>1, <2>2
<1> HIDE DEF X
<1>7. X \in SUBSET Attribute
  BY <1>6
<1>8. /\ Typed(f) /\ Timed(f) /\ f.announced = X
      /\ f.live = e.live /\ f.app = e.app /\ f.wanted = e.wanted
  BY <1>3, <1>7, AnnouncedFrame
<1>9. f.la = "Passive" /\ f.laTimer = "armed"
  BY <1>3
<1> HIDE DEF f
<1>10. e.live \in SUBSET f.live
  BY <1>8
<1>11. ApplicantsEffect(f, e.live, "tx", q)
  BY <1>2, <1>8, <1>10, ApplicantsFields
<1>12. Typed(q) /\ Timed(q)
  BY <1>2, <1>8, <1>10, ApplicantsFrame
<1>13. \A s \in PointToPoint :
          /\ ApplicantNext("tx", s) \in DeclaringStates <=> s \in DeclaringStates
          /\ ApplicantNext("tx", s) \in {"AN", "QA"} => s \in DeclaringStates
          /\ ApplicantNext("tx", s) \in {"VO", "VP", "LO"} => s \notin DeclaringStates
          /\ ApplicantNext("tx", s) \in RequestingStates => ApplicantNext("tx", s) # s
  BY DEF PointToPoint, DeclaringStates, RequestingStates, ApplicantNext, OnTransmit
<1>14. \A a \in Attribute :
          q.app[a] = IF a \in e.live THEN ApplicantNext("tx", e.app[a]) ELSE "VO"
  BY <1>4, <1>8, <1>11 DEF ApplicantsEffect
<1>15. Intended(q)
  BY <1>3, <1>4, <1>8, <1>11, <1>13, <1>14
     DEF Intended, ApplicantsEffect, DeclaringStates
<1>16. q.announced = q.wanted /\ q.wanted = p.wanted
  BY <1>1, <1>3, <1>6, <1>8, <1>11 DEF Intended, ApplicantsEffect
<1>17. Heeded(q)
  BY <1>3, <1>4, <1>6, <1>13, <1>14, <1>15, <1>16
     DEF Heeded, Intended, DeclaringStates
<1>18. Requested(q)
  BY <1>4, <1>8, <1>11, <1>13, <1>14
     DEF Requested, ApplicantsEffect, EntersRequest, RequestingStates
<1>19. LeaveAllRuns(q)
  BY <1>9, <1>11 DEF LeaveAllRuns, ApplicantsEffect
<1> QED
  BY <1>12, <1>15, <1>16, <1>17, <1>18, <1>19 DEF Good

LEMMA LeaveTimerGood ==
    ASSUME NEW p, Good(p), NEW a \in Attribute, p.leave[a],
           NEW q, q = LeaveTimerCallback(p, a)
    PROVE  Good(q) /\ q.wanted = p.wanted /\ q.announced = p.announced
<1> DEFINE newLeave == [p.leave EXCEPT ![a] = FALSE]
           c == [p EXCEPT !.leave = newLeave]
<1>1. p \in Participant /\ Typed(p) /\ a \in p.live
  BY DEF Good, Typed
<1>2. /\ newLeave \in [Attribute -> BOOLEAN]
      /\ \A b \in Attribute : newLeave[b] = IF b = a THEN FALSE ELSE p.leave[b]
  BY <1>1 DEF Participant
<1>3. q = Registrars(c, {a}, "leaveTimer")
  BY DEF LeaveTimerCallback
<1> HIDE DEF newLeave
<1>4. /\ c \in Participant /\ c.leave = newLeave
      /\ c.live = p.live /\ c.app = p.app /\ c.reg = p.reg /\ c.join = p.join
      /\ c.la = p.la /\ c.laTimer = p.laTimer
      /\ c.wanted = p.wanted /\ c.announced = p.announced
  BY <1>1, <1>2 DEF Participant
<1> HIDE DEF c
<1>5. Typed(c)
  BY <1>1, <1>2, <1>4 DEF Typed
<1>6. Requested(c) /\ LeaveAllRuns(c) /\ Intended(c) /\ Heeded(c)
  BY <1>4 DEF Good, Requested, LeaveAllRuns, Intended, Heeded
<1>7. {a} \in SUBSET c.live
  BY <1>1, <1>4
<1>8. RegistrarsEffect(c, {a}, "leaveTimer", q)
  BY <1>3, <1>5, <1>7, RegistrarsFields
<1>9. Typed(q) /\ Requested(q) /\ LeaveAllRuns(q) /\ Intended(q) /\ Heeded(q)
  BY <1>3, <1>5, <1>6, <1>7, RegistrarsFrame
<1>10. ASSUME NEW b \in Attribute, q.reg[b] = "LV" PROVE q.leave[b]
  <2>1. CASE b = a
    <3>1. \A r \in RegistrarStates : RegistrarNext("leaveTimer", r) # "LV"
      BY DEF RegistrarNext, RegistrarStates, JoinEvents, LeaveEvents
    <3>2. c.reg[a] \in RegistrarStates
      BY <1>4 DEF Participant
    <3> QED BY <1>8, <1>10, <2>1, <3>1, <3>2 DEF RegistrarsEffect
  <2>2. CASE b # a
    <3>1. q.reg[b] = p.reg[b] /\ q.leave[b] = p.leave[b]
      BY <1>2, <1>4, <1>8, <2>2 DEF RegistrarsEffect
    <3> QED BY <1>10, <3>1 DEF Good, Timed
  <2> QED BY <2>1, <2>2
<1> QED
  BY <1>4, <1>8, <1>9, <1>10 DEF Good, Timed, RegistrarsEffect

LEMMA OrphanGood ==
    ASSUME NEW p, Good(p), NEW a \in Attribute, NEW b \in Attribute,
           NEW q, q = OrphanCallback(p, a, b)
    PROVE  Good(q) /\ q.wanted = p.wanted /\ q.announced = p.announced
<1> DEFINE c == [p EXCEPT !.orphans = @ \ {a}]
           d == [c EXCEPT !.known = @ \ {a}]
<1>1. p \in Participant /\ p.orphans \in SUBSET Attribute /\ p.known \in SUBSET Attribute
  BY DEF Good, Typed, Participant
<1>2. CASE b \in p.live
  <2>1. /\ c \in Participant
        /\ c.live = p.live /\ c.app = p.app /\ c.reg = p.reg /\ c.leave = p.leave
        /\ c.join = p.join /\ c.la = p.la /\ c.laTimer = p.laTimer
        /\ c.wanted = p.wanted /\ c.announced = p.announced
    BY <1>1 DEF Participant
  <2>2. q = Registrars(c, {b}, "leaveTimer")
    BY <1>2 DEF OrphanCallback
  <2> HIDE DEF c
  <2>3. Typed(c) /\ {b} \in SUBSET c.live
    BY <1>2, <2>1 DEF Good, Typed
  <2>4. /\ Requested(c) /\ Timed(c) /\ LeaveAllRuns(c) /\ Intended(c) /\ Heeded(c)
    BY <2>1 DEF Good, Requested, Timed, LeaveAllRuns, Intended, Heeded
  <2>5. RegistrarsEffect(c, {b}, "leaveTimer", q)
    BY <2>2, <2>3, RegistrarsFields
  <2>6. Good(q)
    BY <2>2, <2>3, <2>4, RegistrarsFrame DEF Good
  <2> QED BY <2>1, <2>5, <2>6 DEF RegistrarsEffect
<1>3. CASE b \notin p.live
  <2>1. q = d
    BY <1>3 DEF OrphanCallback
  <2>2. /\ d \in Participant
        /\ d.live = p.live /\ d.app = p.app /\ d.reg = p.reg /\ d.leave = p.leave
        /\ d.join = p.join /\ d.la = p.la /\ d.laTimer = p.laTimer
        /\ d.wanted = p.wanted /\ d.announced = p.announced
    BY <1>1 DEF Participant
  <2> HIDE DEF d
  <2>3. Typed(q)
    BY <2>1, <2>2 DEF Good, Typed
  <2>4. Requested(q) /\ Timed(q) /\ LeaveAllRuns(q) /\ Intended(q) /\ Heeded(q)
    BY <2>1, <2>2 DEF Good, Requested, Timed, LeaveAllRuns, Intended, Heeded
  <2> QED BY <2>1, <2>2, <2>3, <2>4 DEF Good
<1> QED
  BY <1>2, <1>3

LEMMA LeaveAllTimerGood ==
    ASSUME NEW p, Good(p), NEW q, q = OnLeaveAllTimer([p EXCEPT !.laTimer = "idle"])
    PROVE  Good(q) /\ q.wanted = p.wanted /\ q.announced = p.announced
<1>1. p \in Participant /\ p.la \in {"Active", "Passive"} /\ p.join \in BOOLEAN
  BY DEF Good, Typed, Participant
<1> DEFINE newJoin == p.join \/ p.la = "Passive"
<1>2. q = [p EXCEPT !.la = "Active", !.laTimer = "armed", !.join = newJoin]
  <2>1. CASE p.la = "Passive"
    BY <1>1, <2>1 DEF OnLeaveAllTimer, StartLeaveAll, RequestTransmission, Participant
  <2>2. CASE p.la = "Active"
    BY <1>1, <2>2 DEF OnLeaveAllTimer, StartLeaveAll, Participant
  <2> QED BY <1>1, <2>1, <2>2
<1>3. newJoin \in BOOLEAN /\ newJoin
  BY <1>1 DEF Good, LeaveAllRuns
<1> HIDE DEF newJoin
<1>4. /\ q \in Participant /\ q.la = "Active" /\ q.laTimer = "armed" /\ q.join
      /\ q.live = p.live /\ q.app = p.app /\ q.reg = p.reg /\ q.leave = p.leave
      /\ q.wanted = p.wanted /\ q.announced = p.announced
  BY <1>1, <1>2, <1>3 DEF Participant
<1>5. Typed(q)
  BY <1>4 DEF Good, Typed
<1>6. Requested(q) /\ Timed(q) /\ LeaveAllRuns(q) /\ Intended(q) /\ Heeded(q)
  BY <1>4 DEF Good, Requested, Timed, LeaveAllRuns, Intended, Heeded
<1> QED
  BY <1>4, <1>5, <1>6 DEF Good

LEMMA PeriodicTimerGood ==
    ASSUME NEW p, Good(p), NEW q, q = Applicants(p, p.live, "periodic")
    PROVE  Good(q) /\ q.wanted = p.wanted /\ q.announced = p.announced
<1>1. Typed(p) /\ p.live \in SUBSET p.live /\ "periodic" \in PassiveEvents
  BY DEF Good, PassiveEvents
<1>2. ApplicantsEffect(p, p.live, "periodic", q)
  BY <1>1, ApplicantsFields
<1>3. Good(q)
  BY <1>1, PassiveGood
<1> QED
  BY <1>2, <1>3 DEF ApplicantsEffect

-----------------------------------------------------------------------------
(* The invariant of the specification.                                      *)

LEMMA InitGood ==
    ASSUME Init PROVE Good(mrp)
<1>1. mrp \in Participant
  BY DEF Init, Participant, ApplicantStates, RegistrarStates
<1>2. Typed(mrp)
  BY <1>1 DEF Init, Typed, PointToPoint
<1>3. Requested(mrp) /\ Timed(mrp) /\ LeaveAllRuns(mrp)
  BY DEF Init, Requested, Timed, LeaveAllRuns, RequestingStates
<1>4. Intended(mrp) /\ Heeded(mrp)
  BY DEF Init, Intended, Heeded, DeclaringStates
<1> QED
  BY <1>2, <1>3, <1>4 DEF Good

\* What a step of the participant is in the abstract specification.
AbstractStep(p, q) ==
    \/ q.wanted = p.wanted /\ q.announced = p.announced
    \/ \E a \in Attribute : q.wanted = p.wanted \cup {a} /\ q.announced = p.announced
    \/ \E a \in Attribute : q.wanted = p.wanted \ {a} /\ q.announced = p.announced
    \/ \E a \in Attribute : /\ q.wanted = p.wanted \cup {a}
                            /\ q.announced = p.announced \cup {a}
    \/ \E S \in SUBSET Attribute : q.wanted = p.wanted /\ q.announced = p.announced \ S
    \/ q.wanted = p.wanted /\ q.announced = q.wanted

LEMMA StepGood ==
    ASSUME Good(mrp), Next PROVE Good(mrp') /\ AbstractStep(mrp, mrp')
<1>1. ASSUME NEW a \in Own, NEW new \in BOOLEAN, MadJoinRequest(a, new)
      PROVE  Good(mrp') /\ AbstractStep(mrp, mrp')
  BY <1>1, ConstantsAssumption, JoinRequestGood DEF MadJoinRequest, AbstractStep
<1>2. ASSUME NEW a \in Own, MadLeaveRequest(a)
      PROVE  Good(mrp') /\ AbstractStep(mrp, mrp')
  BY <1>2, ConstantsAssumption, LeaveRequestGood DEF MadLeaveRequest, AbstractStep
<1>3. ASSUME NEW a \in Attribute, NEW ev \in ReceivedEvents, ReceiveEvent(a, ev)
      PROVE  Good(mrp') /\ AbstractStep(mrp, mrp')
  <2>1. Good(mrp') /\ ReceivedEffect(mrp, a, mrp')
    BY <1>3, FindAndProcessGood DEF ReceiveEvent
  <2>2. {a} \in SUBSET Attribute
    BY <1>3
  <2> QED BY <2>1, <2>2 DEF ReceivedEffect, AbstractStep
<1>4. ASSUME NEW T \in LeaveAllTypes, ReceiveLeaveAllEvent(T)
      PROVE  Good(mrp') /\ AbstractStep(mrp, mrp')
  <2>1. /\ Good(mrp') /\ mrp'.wanted = mrp.wanted
        /\ mrp'.announced = mrp.announced \ (mrp.live \cap T)
    BY <1>4, ReceiveLeaveAllGood DEF ReceiveLeaveAllEvent
  <2>2. mrp.live \cap T \in SUBSET Attribute
    BY DEF Good, Typed, Participant
  <2> QED BY <2>1, <2>2 DEF AbstractStep
<1>5. ASSUME JoinTimer PROVE Good(mrp') /\ AbstractStep(mrp, mrp')
  BY <1>5, JoinTimerGood DEF JoinTimer, AbstractStep
<1>6. ASSUME NEW a \in Attribute, LeaveTimer(a)
      PROVE  Good(mrp') /\ AbstractStep(mrp, mrp')
  BY <1>6, LeaveTimerGood DEF LeaveTimer, AbstractStep
<1>7. ASSUME LeaveAllTimer PROVE Good(mrp') /\ AbstractStep(mrp, mrp')
  BY <1>7, LeaveAllTimerGood DEF LeaveAllTimer, AbstractStep
<1>8. ASSUME PeriodicTimer PROVE Good(mrp') /\ AbstractStep(mrp, mrp')
  BY <1>8, PeriodicTimerGood DEF PeriodicTimer, AbstractStep
<1>9. ASSUME NEW a \in Attribute, NEW b \in Attribute, OrphanTimer(a, b)
      PROVE  Good(mrp') /\ AbstractStep(mrp, mrp')
  BY <1>9, OrphanGood DEF OrphanTimer, AbstractStep
<1> QED
  BY <1>1, <1>2, <1>3, <1>4, <1>5, <1>6, <1>7, <1>8, <1>9 DEF Next

\* The inductive invariant: type, timers, declarations and the peer's view
\* are needed together, because a transmission settles the peer's view only
\* of the attributes whose Applicant says so.
THEOREM Invariance == Spec => []Good(mrp)
<1>1. Init => Good(mrp)
  BY InitGood
<1>2. Good(mrp) /\ [Next]_vars => Good(mrp)'
  <2>1. Good(mrp) /\ Next => Good(mrp)'
    BY StepGood
  <2>2. Good(mrp) /\ UNCHANGED vars => Good(mrp)'
    BY DEF vars, Good, Typed, Requested, Timed, LeaveAllRuns, Intended, Heeded
  <2> QED BY <2>1, <2>2
<1> QED
  BY <1>1, <1>2, PTL DEF Spec

\* The participant keeps its type; no Applicant enters a state of shared media.
THEOREM TypeCorrect == Spec => []TypeOK
<1>1. Good(mrp) => TypeOK
  BY DEF Good, Typed, TypeOK, PointToPoint, BarredStates
<1> QED
  BY <1>1, Invariance, PTL

\* No Applicant that owes a message is left without a transmit opportunity
\* (mrp.c:890-898).
THEOREM OpportunityRequested == Spec => []TransmitOpportunity
<1>1. Good(mrp) => TransmitOpportunity
  BY DEF Good, Requested, TransmitOpportunity
<1> QED
  BY <1>1, Invariance, PTL

\* A leaving Registrar has its leave timer running (mrp.c:960-968).
THEOREM LeavingTimed == Spec => []LeavingIsTimed
<1>1. Good(mrp) => LeavingIsTimed
  BY DEF Good, Timed, LeavingIsTimed
<1> QED
  BY <1>1, Invariance, PTL

\* The LeaveAll timer is always armed, in spite of mrp.c:138.
THEOREM LeaveAllStaysPending == Spec => []LeaveAllPending
<1>1. Good(mrp) => LeaveAllPending
  BY DEF Good, LeaveAllRuns, LeaveAllPending
<1> QED
  BY <1>1, Invariance, PTL

\* The Applicants declare exactly what the application asked for.
THEOREM IntentAlwaysKept == Spec => []IntentKept
<1>1. Good(mrp) => IntentKept
  BY DEF Good, Intended, IntentKept
<1> QED
  BY <1>1, Invariance, PTL

\* What an Applicant's state says of the peer is what the peer heard.
THEOREM PeerViewCorrect == Spec => []PeerView
<1>1. Good(mrp) => PeerView
  BY DEF Good, Heeded, PeerView
<1> QED
  BY <1>1, Invariance, PTL

\* A step of the participant is a step of Declarations or leaves both of its
\* sets alone.
LEMMA StepRefines ==
    ASSUME AbstractStep(mrp, mrp') PROVE [D!Next]_(D!vars)
<1>1. CASE mrp'.wanted = mrp.wanted /\ mrp'.announced = mrp.announced
  BY <1>1 DEF D!vars
<1>2. ASSUME NEW a \in Attribute, mrp'.wanted = mrp.wanted \cup {a},
             mrp'.announced = mrp.announced
      PROVE  D!Next
  BY <1>2 DEF D!Next, D!Declare
<1>3. ASSUME NEW a \in Attribute, mrp'.wanted = mrp.wanted \ {a},
             mrp'.announced = mrp.announced
      PROVE  D!Next
  BY <1>3 DEF D!Next, D!Withdraw
<1>4. ASSUME NEW a \in Attribute, mrp'.wanted = mrp.wanted \cup {a},
             mrp'.announced = mrp.announced \cup {a}
      PROVE  D!Next
  BY <1>4 DEF D!Next, D!Confirm
<1>5. ASSUME NEW S \in SUBSET Attribute, mrp'.wanted = mrp.wanted,
             mrp'.announced = mrp.announced \ S
      PROVE  D!Next
  BY <1>5 DEF D!Next, D!Forget
<1>6. CASE mrp'.wanted = mrp.wanted /\ mrp'.announced = mrp'.wanted
  BY <1>6 DEF D!Next, D!Announce
<1> QED
  BY <1>1, <1>2, <1>3, <1>4, <1>5, <1>6 DEF AbstractStep

\* The participant implements the safety part of what Declarations promises.
THEOREM ImplementsSafely == Spec => D!SafeSpec
<1>1. Init => D!Init
  BY DEF Init, D!Init
<1>2. Good(mrp) /\ [Next]_vars => [D!Next]_(D!vars)
  <2>1. Good(mrp) /\ Next => [D!Next]_(D!vars)
    BY StepGood, StepRefines
  <2>2. UNCHANGED vars => [D!Next]_(D!vars)
    BY DEF vars, D!vars
  <2> QED BY <2>1, <2>2
<1> QED
  BY <1>1, <1>2, Invariance, PTL DEF Spec, D!SafeSpec
=============================================================================
