-------------------------------- MODULE Msrp --------------------------------
(***************************************************************************)
(* Two end stations wired back to back that run src/components/avb/msrp.c  *)
(* on top of mrp.c: Talker Advertise, Listener and Domain attributes, the  *)
(* dispatch of received frames to them, the indications that declare what  *)
(* was heard, and the requests ACMP makes.  The participant of a station   *)
(* is the one of Mrp; here its peer is a station of the same kind, and a   *)
(* frame is what one call of tx_mrpdu sends.                               *)
(*                                                                         *)
(* What frames of several vectors, or a bridge's Talker Failed, would add  *)
(* is left out: mrp_transmit sends one vector in a frame and no station    *)
(* declares a failure.  So are the leave timers of freed attributes, which *)
(* Mrp has (its orphans).                                                  *)
(***************************************************************************)
EXTENDS MrpTables, Naturals, SequencesExt

CONSTANTS
    Station,        \* the two ends of the wire
    Microphones,    \* stations built with INPUT_CHANNELS > 0
    Stream,         \* stream identifiers
    TalkerOf,       \* the station that talks on a stream
    Address,        \* destination addresses MAAP can give a stream
    Domain,         \* stream reservation domains
    DefaultDomain,  \* the domain a station declares when it starts
    MaxRequests,    \* bound: requests of ACMP
    MaxLeaveAlls,   \* bound: expirations of LeaveAll timers
    MaxLosses,      \* bound: frames lost
    MaxInFlight     \* bound: frames of a station under way when it sends more

ASSUME MsrpAssumption ==
    /\ \E a, b \in Station : a # b /\ Station = {a, b}
    /\ Microphones \subseteq Station
    /\ TalkerOf \in [Stream -> Station]
    /\ DefaultDomain \in [Station -> Domain]
    /\ {MaxRequests, MaxLeaveAlls, MaxLosses, MaxInFlight} \subseteq Nat

VARIABLES
    station,    \* what each station keeps
    wire,       \* wire[n]: the frames of station n that its peer has not read
    requests, leaveAlls, lost

vars == <<station, wire, requests, leaveAlls, lost>>

Peer(n) == CHOOSE m \in Station : m # n

-----------------------------------------------------------------------------
(* Attributes.  mrp_get_attribute compares whole values: a Talker Advertise *)
(* with its address, a Listener with its declaration type.                 *)

AttributeTypes == {"TalkerAdvertise", "TalkerFailed", "Listener", "Domain"}

TalkerAdvertise(s, a) == [type |-> "TalkerAdvertise", stream |-> s, value |-> a]

Listener(s, d) == [type |-> "Listener", stream |-> s, value |-> d]

DomainOf(d) == [type |-> "Domain", value |-> d]

\* The octet behind the stream identifier of a Listener is its declaration
\* type in an attribute and the packed event in a frame.
Octets == {"READY"} \cup ReceivedEvents

Attribute ==
    {TalkerAdvertise(s, a) : s \in Stream, a \in Address}
        \cup {Listener(s, d) : s \in Stream, d \in Octets}
        \cup {DomainOf(d) : d \in Domain}

OfType(t) == {a \in Attribute : a.type = t}

\* Variant: a Domain that is heard is not declared.
MutEchoes(n) == IF n \in Microphones THEN OfType("Listener") ELSE {}

\* The join indications that ask for the attribute themselves.
Echoes(n) == OfType("Domain") \cup (IF n \in Microphones THEN OfType("Listener") ELSE {})

P(n) == INSTANCE Mrp WITH mrp <- station[n].mrp, Own <- {}, Echoed <- Echoes(n),
                          LeaveAllTypes <- {}, HasPeriodic <- FALSE

-----------------------------------------------------------------------------
(* The state of a station and the steps its handlers are made of.  order is *)
(* the attribute lists; attached is history, the streams ACMP attached to. *)

\* Mrp's history is not needed where the peer is part of the state.
Forgetful(p) == [p EXCEPT !.announced = {}, !.known = {}, !.wanted = {}, !.orphans = {}]

\* The entries of a list that are in S, in their order.
Entries(list, S) ==
    LET kept[i \in 0..Len(list)] ==
            IF i = 0 THEN <<>>
            ELSE IF list[i] \in S THEN Append(kept[i - 1], list[i]) ELSE kept[i - 1]
    IN  kept[Len(list)]

\* The participant has become p: what it freed leaves the lists, what it
\* created (one attribute at most) is at the end of its list.
With(q, p) ==
    [q EXCEPT !.mrp = Forgetful(p),
              !.order = Entries(@, p.live) \o SetToSeq(p.live \ ToSet(q.order))]

ListOf(q, t) == Entries(q.order, OfType(t))

\* Variant: the domain is looked up in a list that ends before its last entry.
MutListed(list, x) ==
    IF list # <<>> /\ x \in ToSet(Front(list)) THEN list ELSE Append(list, x)

\* find_stream and find_domain look for an entry before one is appended.
Listed(list, x) == IF x \in ToSet(list) THEN list ELSE Append(list, x)

\* What the indications do besides asking for the attribute.
JoinIndicated(q, a) ==
    CASE a.type = "TalkerAdvertise" -> [q EXCEPT !.streams = Listed(@, a.stream)]
      [] a.type = "Domain" -> [q EXCEPT !.domains = Listed(@, a.value)]
      [] OTHER -> q

\* mrp_process_attribute with the callbacks of MSRP.  The leave indication of
\* every type leaves the state as it is.
Process(n, q, a, ev) ==
    LET told == Indication(ev, q.mrp.reg[a]) \in {"New", "Join"}
    IN  With(IF told THEN JoinIndicated(q, a) ELSE q,
             P(n)!ProcessAttribute(q.mrp, a, ev))

FindAndProcess(n, q, a, ev) ==
    Process(n, With(q, P(n)!GetOrCreate(q.mrp, a)), a, ev)

\* The walk over the Listener attributes that passes the event of a Talker's
\* attribute on to those of the same stream.  It advances by the list, so when
\* an attribute is freed under it, it skips the next one, and starts again from
\* the head when the freed one was the last.  at is the place of the entry before
\* the one to visit; the walk is over when that is the last.
Visit(n, s, ev, w) ==
    LET list == ListOf(w.q, "Listener")
        a == list[w.at + 1]
        r == IF a.stream = s THEN Process(n, w.q, a, ev) ELSE w.q
    IN  IF w.at = Len(list) THEN w
        ELSE [q |-> r, at |-> IF w.at + 1 > Len(ListOf(r, "Listener")) THEN 0 ELSE w.at + 1]

WalkListeners(n, q, s, ev) ==
    LET length == Len(ListOf(q, "Listener"))
        steps == (length + 1) * (length + 1)
        walk[i \in 0..steps] ==
            IF i = 0 THEN [q |-> q, at |-> 0] ELSE Visit(n, s, ev, walk[i - 1])
    IN  walk[steps].q

-----------------------------------------------------------------------------
(* Frames.                                                                 *)

NoAttribute == [type |-> "none"]

EventOf == [New |-> "rNew", JoinIn |-> "rJoinIn", In |-> "rIn",
            JoinMt |-> "rJoinMt", Mt |-> "rMt", Lv |-> "rLv"]

Frame(t, leaveAll, a, ev) == [type |-> t, leaveAll |-> leaveAll, attr |-> a, event |-> ev]

\* The frames of mrp_transmit for one type: one for each attribute with a message,
\* the first with the LeaveAll; without any, one for the LeaveAll alone.
FramesOf(q, t, leaveAll) ==
    LET p == q.mrp
        due == Entries(ListOf(q, t), {a \in p.live : MessageFor(p.app[a], p.reg[a]) # "none"})
        event(a) == EventOf[MessageFor(p.app[a], p.reg[a])]
    IN  IF due = <<>>
        THEN IF leaveAll THEN <<Frame(t, TRUE, NoAttribute, "none")>> ELSE <<>>
        ELSE [i \in 1..Len(due) |-> Frame(t, leaveAll /\ i = 1, due[i], event(due[i]))]

\* The value read from a Listener's frame ends with its event octet.
AsReceived(f) == IF f.type = "Listener" THEN Listener(f.attr.stream, f.event) ELSE f.attr

\* Variant: the frame of a Talker is done when the Listeners have seen it.
MutReceiveFrame(n, q, f) ==
    LET left == IF f.leaveAll
                THEN With(q, P(n)!ReceiveLeaveAll(q.mrp, OfType(f.type))) ELSE q
    IN  CASE f.attr = NoAttribute -> left
          [] f.type = "TalkerAdvertise" -> WalkListeners(n, left, f.attr.stream, f.event)
          [] OTHER -> FindAndProcess(n, left, AsReceived(f), f.event)

\* Variant: the LeaveAll is dealt with after the value that came with it.
MutLateLeaveAll(n, q, f) ==
    LET walked == IF f.type = "TalkerAdvertise"
                  THEN WalkListeners(n, q, f.attr.stream, f.event) ELSE q
        r == IF f.attr = NoAttribute THEN q
             ELSE FindAndProcess(n, walked, AsReceived(f), f.event)
    IN  IF f.leaveAll THEN With(r, P(n)!ReceiveLeaveAll(r.mrp, OfType(f.type))) ELSE r

\* msrp_process_rx for a frame: a LeaveAll first, then the Listeners a Talker's
\* event concerns, then the attribute itself.
ReceiveFrame(n, q, f) ==
    LET left == IF f.leaveAll
                THEN With(q, P(n)!ReceiveLeaveAll(q.mrp, OfType(f.type))) ELSE q
        walked == IF f.type = "TalkerAdvertise"
                  THEN WalkListeners(n, left, f.attr.stream, f.event) ELSE left
    IN  IF f.attr = NoAttribute THEN left
        ELSE FindAndProcess(n, walked, AsReceived(f), f.event)

-----------------------------------------------------------------------------
(* The specification.                                                      *)

\* msrp_state_init declares the default domain.
Started(n) ==
    LET p == [live |-> {}, app |-> [a \in Attribute |-> "VO"],
              reg |-> [a \in Attribute |-> "MT"],
              leave |-> [a \in Attribute |-> FALSE],
              join |-> FALSE, la |-> "Passive", laTimer |-> "armed",
              orphans |-> {}, wanted |-> {}, announced |-> {}, known |-> {}]
        q == [mrp |-> p, order |-> <<>>, streams |-> <<>>,
              domains |-> <<DefaultDomain[n]>>, attached |-> {}]
    IN  With(q, P(n)!JoinRequest(p, DomainOf(DefaultDomain[n]), TRUE))

Init ==
    /\ station = [n \in Station |-> Started(n)]
    /\ wire = [n \in Station |-> <<>>]
    /\ requests = 0 /\ leaveAlls = 0 /\ lost = 0

Becomes(n, q) == station' = [station EXCEPT ![n] = q]

Requested ==
    /\ requests < MaxRequests
    /\ requests' = requests + 1
    /\ UNCHANGED <<wire, leaveAlls, lost>>

\* The first listener connects: the talker advertises the stream, with the
\* address MAAP holds at the time.
RegisterStreamRequest(n, s, a) ==
    /\ Requested
    /\ TalkerOf[s] = n
    /\ Becomes(n, With(station[n],
                       P(n)!JoinRequest(station[n].mrp, TalkerAdvertise(s, a), TRUE)))

RegisterAttachRequest(n, s) ==
    /\ Requested
    /\ TalkerOf[s] # n
    /\ Becomes(n, [With(station[n],
                        P(n)!JoinRequest(station[n].mrp, Listener(s, "READY"), TRUE))
                     EXCEPT !.attached = @ \cup {s}])

\* Variant: the request names a declaration type the Listener never had.
MutDeregisterAttachRequest(n, s) ==
    /\ Requested
    /\ s \in station[n].attached
    /\ Becomes(n, [With(station[n],
                        P(n)!LeaveRequest(station[n].mrp, Listener(s, "rNew")))
                     EXCEPT !.attached = @ \ {s}])

DeregisterAttachRequest(n, s) ==
    /\ Requested
    /\ s \in station[n].attached
    /\ Becomes(n, [With(station[n],
                        P(n)!LeaveRequest(station[n].mrp, Listener(s, "READY")))
                     EXCEPT !.attached = @ \ {s}])

NetRx(n) ==
    /\ wire[Peer(n)] # <<>>
    /\ Becomes(n, ReceiveFrame(n, station[n], Head(wire[Peer(n)])))
    /\ wire' = [wire EXCEPT ![Peer(n)] = Tail(@)]
    /\ UNCHANGED <<requests, leaveAlls, lost>>

JoinTimer(n) ==
    LET q == station[n]
        due == With(q, P(n)!OnLeaveAllTransmit(q.mrp))
        of(t) == FramesOf(due, t, q.mrp.la = "Active")
        frames == of("TalkerAdvertise") \o of("TalkerFailed") \o of("Listener") \o of("Domain")
    IN  /\ q.mrp.join
        /\ Len(wire[n]) <= MaxInFlight
        /\ Becomes(n, With(q, P(n)!JoinTimerCallback(q.mrp)))
        /\ wire' = [wire EXCEPT ![n] = @ \o frames]
        /\ UNCHANGED <<requests, leaveAlls, lost>>

LeaveTimer(n, a) ==
    /\ station[n].mrp.leave[a]
    /\ Becomes(n, With(station[n], P(n)!LeaveTimerCallback(station[n].mrp, a)))
    /\ UNCHANGED <<wire, requests, leaveAlls, lost>>

LeaveAllTimer(n) ==
    /\ leaveAlls < MaxLeaveAlls
    /\ leaveAlls' = leaveAlls + 1
    /\ station[n].mrp.laTimer = "armed"
    /\ Becomes(n, With(station[n],
                       P(n)!OnLeaveAllTimer([station[n].mrp EXCEPT !.laTimer = "idle"])))
    /\ UNCHANGED <<wire, requests, lost>>

Lose(n) ==
    /\ lost < MaxLosses
    /\ lost' = lost + 1
    /\ wire[n] # <<>>
    /\ wire' = [wire EXCEPT ![n] = Tail(@)]
    /\ UNCHANGED <<station, requests, leaveAlls>>

Next ==
    \E n \in Station :
        \/ \E s \in Stream, a \in Address : RegisterStreamRequest(n, s, a)
        \/ \E s \in Stream : RegisterAttachRequest(n, s) \/ DeregisterAttachRequest(n, s)
        \/ NetRx(n)
        \/ JoinTimer(n)
        \/ \E a \in Attribute : LeaveTimer(n, a)
        \/ LeaveAllTimer(n)
        \/ Lose(n)

Spec == Init /\ [][Next]_vars

\* Frames are read, and an armed join timer, which nothing stops, expires.  This
\* is weak fairness written out: the guards are what enables the two actions.
Fairness ==
    \A n \in Station :
        /\ []<>(wire[Peer(n)] = <<>>) \/ []<><<NetRx(n)>>_vars
        /\ []<>(~station[n].mrp.join \/ Len(wire[n]) > MaxInFlight)
              \/ []<><<JoinTimer(n)>>_vars

FairSpec == Spec /\ Fairness

-----------------------------------------------------------------------------
(* Properties.                                                             *)

Declares(n, a) == station[n].mrp.app[a] \in DeclaringStates

Registers(n, a) == station[n].mrp.reg[a] # "MT"

\* The stream map and the domain list hold an entry once, and the list of domains
\* is what the station declares, whatever LeaveAlls it has lived through.
ListsFollow ==
    \A n \in Station :
        /\ IsInjective(station[n].streams) /\ IsInjective(station[n].domains)
        /\ \A d \in Domain : d \in ToSet(station[n].domains) <=> Declares(n, DomainOf(d))

\* A station declares itself ready for the streams ACMP attached it to and no
\* others, although it is the Talker's events that its attribute processes, and
\* an attribute can be freed under that walk.  A listener that has input channels
\* is left out: it echoes the Talker's New, also when ACMP has deregistered the
\* Listener meanwhile.
AttachmentKept ==
    \A n \in Station, s \in Stream : n \notin Microphones \/ TalkerOf[s] = n =>
        (s \in station[n].attached <=> Declares(n, Listener(s, "READY")))

\* What a station has said, or its peer asked it to say again, and is under way.
UnderWay(n) == ToSet(wire[n])

Said(n, a) == \E f \in UnderWay(n) : f.attr = a /\ f.event \in JoinEvents

AskedAgain(n, a) == \E f \in UnderWay(Peer(n)) : f.leaveAll /\ f.type = a.type

\* A station falls quiet about a domain only when its peer holds the registration,
\* or is about to hear of it, or has asked for all declarations again: also
\* when a frame was lost, since New and Join are sent twice.  A lost LeaveAll is
\* another matter: the peer forgets, and DomainsSpread says that it hears again.
QuietIsRegistered ==
    lost = 0 \/ (lost = 1 /\ leaveAlls = 0) => \A n \in Station, d \in Domain :
        LET a == DomainOf(d)
        IN  station[n].mrp.app[a] = "QA" =>
                Registers(Peer(n), a) \/ Said(n, a) \/ AskedAgain(n, a)

\* A talker falls quiet about a stream only when the stream is in its peer's map
\* or about to get there: also when a frame was lost, since New is sent twice.
QuietIsKnown ==
    lost <= 1 => \A s \in Stream, m \in Address :
        LET a == TalkerAdvertise(s, m)
            n == TalkerOf[s]
        IN  station[n].mrp.app[a] = "QA" =>
                s \in ToSet(station[Peer(n)].streams) \/ Said(n, a)

\* Both stations end up declaring, and having registered, the domains of both,
\* although frames are lost and LeaveAlls age out what was registered.
DomainsSpread ==
    <>[](\A n, m \in Station :
            LET a == DomainOf(DefaultDomain[m]) IN Declares(n, a) /\ Registers(n, a))
=============================================================================
