-------------------------------- MODULE Acmp --------------------------------
(***************************************************************************)
(* ACMP stream connections (src/components/avb/acmp.c) between several     *)
(* entities, each of which runs this code with one stream sink and one     *)
(* stream source, and controllers that send them commands, together with   *)
(* the acquisition of an entity by a controller (aecp.c) that the handlers *)
(* consult.  Frames between two stations arrive in order; frames of        *)
(* different stations interleave.                                          *)
(*                                                                         *)
(* A stream is named by its talker: a talker has one source, whose         *)
(* stream_id is a constant of its MAC address (generate_stream_id).  The   *)
(* sequence ids of the commands sent to talkers are left out: no handler   *)
(* reads them.                                                             *)
(***************************************************************************)
EXTENDS Integers, Sequences, FiniteSets

CONSTANTS
    Controller, Entity, None,
    Pairs,          \* the <<listener, talker>> pairs controllers name
    MaxListeners,   \* MAX_CONNECTED_LISTENERS
    MaxCommands,    \* bound: connection commands each controller issues
    MaxAcquires,    \* bound: acquisitions and releases requested in all
    Lossy           \* whether the network may lose frames

ASSUME AcmpAssumption ==
    /\ None \notin Controller \cup Entity
    /\ Controller \cap Entity = {}
    /\ Pairs \subseteq {p \in Entity \X Entity : p[1] # p[2]}
    /\ MaxListeners \in Nat \ {0}
    /\ MaxCommands \in [Controller -> Nat]
    /\ MaxAcquires \in Nat
    /\ Lossy \in BOOLEAN

VARIABLES
    owner,       \* acquired_by_controller_id of each entity
    info,        \* listener_stream_infos[0]
    listening,   \* ~listener_stop
    attached,    \* streams whose Listener attribute MSRP declares
    table,       \* connected_listeners, connection_count entries
    talking,     \* the talker task was started and not told to stop
    advertised,  \* MSRP declares the Talker Advertise attribute
    reserved,    \* MAAP still holds the stream's destination address
    chan,        \* frames under way between two stations
    issued,      \* commands each controller has issued: its sequence_id
    acquires,    \* acquisitions and releases requested
    open         \* the commands each controller waits to see answered

listenerVars == <<info, listening, attached>>
talkerVars   == <<table, talking, advertised, reserved>>
clientVars   == <<issued, acquires, open>>
vars == <<owner, listenerVars, talkerVars, chan, clientVars>>

Station == Controller \cup Entity
Links   == Station \X Station

NoStream == [talker |-> None, stream |-> None, connected |-> FALSE,
             pending |-> FALSE, seq |-> 0]

Init ==
    /\ owner = [e \in Entity |-> None]
    /\ info = [e \in Entity |-> NoStream]
    /\ listening = [e \in Entity |-> FALSE]
    /\ attached = [e \in Entity |-> {}]
    /\ table = [e \in Entity |-> <<>>]
    /\ talking = [e \in Entity |-> FALSE]
    /\ advertised = [e \in Entity |-> FALSE]
    /\ reserved = [e \in Entity |-> TRUE]
    /\ chan = [k \in Links |-> <<>>]
    /\ issued = [c \in Controller |-> 0]
    /\ acquires = 0
    /\ open = [c \in Controller |-> {}]

Listed(e) == {table[e][i] : i \in 1..Len(table[e])}

\* Variant: the last entry is cleared whichever was found.
MutWithout(s, x) == [i \in 1..(Len(s) - 1) |-> s[i]]

\* The shift of disconnectTalker over the first entry that holds x.
Without(s, x) ==
    LET k == CHOOSE i \in 1..Len(s) :
                s[i] = x /\ \A j \in 1..Len(s) : s[j] = x => i <= j
    IN  [i \in 1..(Len(s) - 1) |-> IF i < k THEN s[i] ELSE s[i + 1]]

-----------------------------------------------------------------------------
(* Frames.                                                                 *)

Frame(kind, ctl, p, seq, ok) ==
    [kind |-> kind, ctl |-> ctl, listener |-> p[1], talker |-> p[2],
     seq |-> seq, ok |-> ok]

\* The same frame turned into another one, as the handlers do with memcpy.
As(m, kind) == [m EXCEPT !.kind = kind, !.seq = 0]

Arrived(s, e, kind) ==
    chan[<<s, e>>] # <<>> /\ Head(chan[<<s, e>>]).kind = kind

Send(s, e, m) == chan' = [chan EXCEPT ![<<s, e>>] = Append(@, m)]

Consume(s, e) == chan' = [chan EXCEPT ![<<s, e>>] = Tail(@)]

ConsumeAndSend(s, e, to, m) ==
    LET rest == [chan EXCEPT ![<<s, e>>] = Tail(@)]
    IN  chan' = [rest EXCEPT ![<<e, to>>] = Append(@, m)]

Concerns(l) ==
    {k \in Links : \E i \in 1..Len(chan[k]) : chan[k][i].listener = l}

\* No frame about listener l is under way.
Idle(l) == Concerns(l) = {}

-----------------------------------------------------------------------------
(* Controllers.                                                            *)

Request(c, kind, p) ==
    [kind |-> kind, ctl |-> c, listener |-> p[1], talker |-> p[2],
     seq |-> issued[c] + 1]

Command(c, kind, wire, p) ==
    /\ issued[c] < MaxCommands[c]
    /\ issued' = [issued EXCEPT ![c] = @ + 1]
    /\ open' = [open EXCEPT ![c] = @ \cup {Request(c, kind, p)}]
    /\ Send(c, p[1], Frame(wire, c, p, issued[c] + 1, TRUE))
    /\ UNCHANGED <<owner, listenerVars, talkerVars, acquires>>

SendConnect(c, p) == Command(c, "connect", "ConnectRxCommand", p)

SendDisconnect(c, p) == Command(c, "disconnect", "DisconnectRxCommand", p)

\* ACQUIRE_ENTITY names no stream; the listener field is left empty.
SendAcquire(c, e, kind) ==
    /\ acquires < MaxAcquires
    /\ acquires' = acquires + 1
    /\ Send(c, e, Frame(kind, c, <<None, None>>, 0, TRUE))
    /\ UNCHANGED <<owner, listenerVars, talkerVars, issued, open>>

\* A response settles the command whose sequence id and kind it carries.
Response(c, s, wire, kind) ==
    /\ Arrived(s, c, wire)
    /\ LET m == Head(chan[<<s, c>>]) IN
          open' = [open EXCEPT ![c] =
                      {r \in @ : ~(r.kind = kind /\ r.seq = m.seq)}]
    /\ Consume(s, c)
    /\ UNCHANGED <<owner, listenerVars, talkerVars, issued, acquires>>

ControllerReceives(c, s) ==
    \/ Response(c, s, "ConnectRxResponse", "connect")
    \/ Response(c, s, "DisconnectRxResponse", "disconnect")

-----------------------------------------------------------------------------
(* handle_acm_acquire_entity.                                              *)

Acquire(e, s) ==
    /\ Arrived(s, e, "Acquire")
    /\ owner' = [owner EXCEPT ![e] =
                    IF @ = None THEN Head(chan[<<s, e>>]).ctl ELSE @]
    /\ Consume(s, e)
    /\ UNCHANGED <<listenerVars, talkerVars, clientVars>>

Release(e, s) ==
    /\ Arrived(s, e, "Release")
    /\ owner' = [owner EXCEPT ![e] =
                    IF @ = Head(chan[<<s, e>>]).ctl THEN None ELSE @]
    /\ Consume(s, e)
    /\ UNCHANGED <<listenerVars, talkerVars, clientVars>>

Authorized(e, c) == owner[e] \in {None, c}

-----------------------------------------------------------------------------
(* The listener side.                                                      *)

\* The command goes to the talker whoever owns this entity: the status
\* CONTROLLER_NOT_AUTHORIZED travels in a command, where nobody reads it.
ConnectRxCommand(e, s) ==
    /\ Arrived(s, e, "ConnectRxCommand")
    /\ LET m == Head(chan[<<s, e>>]) IN
          /\ ConsumeAndSend(s, e, m.talker,
                [As(m, "ConnectTxCommand") EXCEPT !.ok = Authorized(e, m.ctl)])
          /\ info' = IF Authorized(e, m.ctl)
                     THEN [info EXCEPT ![e] =
                             [@ EXCEPT !.talker = m.talker, !.pending = TRUE,
                                       !.seq = m.seq]]
                     ELSE info
    /\ UNCHANGED <<owner, listening, attached, talkerVars, clientVars>>

\* A negative answer of the talker ends here: no response to the controller.
ConnectTxRefused(e, s) ==
    /\ Arrived(s, e, "ConnectTxResponse")
    /\ ~Head(chan[<<s, e>>]).ok
    /\ Consume(s, e)
    /\ UNCHANGED <<owner, listenerVars, talkerVars, clientVars>>

\* avtp_listener_start does nothing when the listener runs already.
ConnectTxResponse(e, s) ==
    /\ Arrived(s, e, "ConnectTxResponse")
    /\ LET m == Head(chan[<<s, e>>]) IN
          /\ m.ok
          /\ info' = [info EXCEPT ![e] =
                        [@ EXCEPT !.talker = m.talker, !.stream = m.talker,
                                  !.connected = TRUE, !.pending = FALSE]]
          /\ listening' = [listening EXCEPT ![e] = TRUE]
          /\ attached' = [attached EXCEPT ![e] = @ \cup {m.talker}]
          /\ ConsumeAndSend(s, e, m.ctl,
                [As(m, "ConnectRxResponse") EXCEPT !.seq = info[e].seq])
    /\ UNCHANGED <<owner, talkerVars, clientVars>>

\* Variant: the record is cleared before the stream id in it is used.
MutClearFirst(e, s) ==
    /\ Arrived(s, e, "DisconnectRxCommand")
    /\ LET m == Head(chan[<<s, e>>]) IN
          /\ listening' = [listening EXCEPT ![e] = FALSE]
          /\ info' = [info EXCEPT ![e] = [NoStream EXCEPT !.seq = m.seq]]
          /\ attached' = [attached EXCEPT ![e] = @ \ {info'[e].stream}]
          /\ ConsumeAndSend(s, e, m.talker, As(m, "DisconnectTxCommand"))
    /\ UNCHANGED <<owner, talkerVars, clientVars>>

\* The whole record is cleared and the controller's sequence id kept.
DisconnectRxCommand(e, s) ==
    /\ Arrived(s, e, "DisconnectRxCommand")
    /\ LET m == Head(chan[<<s, e>>]) IN
          /\ listening' = [listening EXCEPT ![e] = FALSE]
          /\ attached' = [attached EXCEPT ![e] = @ \ {info[e].stream}]
          /\ info' = [info EXCEPT ![e] = [NoStream EXCEPT !.seq = m.seq]]
          /\ ConsumeAndSend(s, e, m.talker, As(m, "DisconnectTxCommand"))
    /\ UNCHANGED <<owner, talkerVars, clientVars>>

\* Variant: the response does not carry the controller's sequence id.
MutDisconnectTxResponse(e, s) ==
    /\ Arrived(s, e, "DisconnectTxResponse")
    /\ LET m == Head(chan[<<s, e>>]) IN
          ConsumeAndSend(s, e, m.ctl, As(m, "DisconnectRxResponse"))
    /\ UNCHANGED <<owner, listenerVars, talkerVars, clientVars>>

DisconnectTxResponse(e, s) ==
    /\ Arrived(s, e, "DisconnectTxResponse")
    /\ LET m == Head(chan[<<s, e>>]) IN
          ConsumeAndSend(s, e, m.ctl,
             [As(m, "DisconnectRxResponse") EXCEPT !.seq = info[e].seq])
    /\ UNCHANGED <<owner, listenerVars, talkerVars, clientVars>>

-----------------------------------------------------------------------------
(* The talker side.                                                        *)

\* A full table is reported with TALKER_NO_BANDWIDTH, whose value is that
\* of SUCCESS.
FullStatus == TRUE

ConnectTxUnauthorized(e, s) ==
    /\ Arrived(s, e, "ConnectTxCommand")
    /\ LET m == Head(chan[<<s, e>>]) IN
          /\ ~Authorized(e, m.ctl)
          /\ ConsumeAndSend(s, e, m.listener,
                [As(m, "ConnectTxResponse") EXCEPT !.ok = FALSE])
    /\ UNCHANGED <<owner, listenerVars, talkerVars, clientVars>>

\* Variant: a listener that is listed already is added again.
MutConnectTxTwice(e, s) ==
    /\ Arrived(s, e, "ConnectTxCommand")
    /\ LET m == Head(chan[<<s, e>>])
           first == table[e] = <<>>
           room == Len(table[e]) < MaxListeners
       IN /\ Authorized(e, m.ctl)
          /\ talking' = [talking EXCEPT ![e] = @ \/ first]
          /\ advertised' = [advertised EXCEPT ![e] = @ \/ first]
          /\ table' = IF room
                      THEN [table EXCEPT ![e] = Append(@, m.listener)]
                      ELSE table
          /\ ConsumeAndSend(s, e, m.listener, As(m, "ConnectTxResponse"))
    /\ UNCHANGED <<owner, listenerVars, reserved, clientVars>>

\* Variant: the answer is sent, the listener is not entered.
MutConnectTxForgets(e, s) ==
    /\ Arrived(s, e, "ConnectTxCommand")
    /\ LET m == Head(chan[<<s, e>>]) IN
          /\ Authorized(e, m.ctl) /\ m.listener \notin Listed(e)
          /\ talking' = [talking EXCEPT ![e] = TRUE]
          /\ advertised' = [advertised EXCEPT ![e] = TRUE]
          /\ UNCHANGED table
          /\ ConsumeAndSend(s, e, m.listener, As(m, "ConnectTxResponse"))
    /\ UNCHANGED <<owner, listenerVars, reserved, clientVars>>

\* A listener that is listed already gets no answer at all.
ConnectTxDuplicate(e, s) ==
    /\ Arrived(s, e, "ConnectTxCommand")
    /\ LET m == Head(chan[<<s, e>>]) IN
          Authorized(e, m.ctl) /\ m.listener \in Listed(e)
    /\ Consume(s, e)
    /\ UNCHANGED <<owner, listenerVars, talkerVars, clientVars>>

ConnectTxCommand(e, s) ==
    /\ Arrived(s, e, "ConnectTxCommand")
    /\ LET m == Head(chan[<<s, e>>])
           first == table[e] = <<>>
           room == Len(table[e]) < MaxListeners
       IN /\ Authorized(e, m.ctl) /\ m.listener \notin Listed(e)
          /\ talking' = [talking EXCEPT ![e] = @ \/ first]
          /\ advertised' = [advertised EXCEPT ![e] = @ \/ first]
          /\ table' = IF room
                      THEN [table EXCEPT ![e] = Append(@, m.listener)]
                      ELSE table
          /\ ConsumeAndSend(s, e, m.listener,
                [As(m, "ConnectTxResponse") EXCEPT !.ok = room \/ FullStatus])
    /\ UNCHANGED <<owner, listenerVars, reserved, clientVars>>

DisconnectTxUnknown(e, s) ==
    /\ Arrived(s, e, "DisconnectTxCommand")
    /\ Head(chan[<<s, e>>]).listener \notin Listed(e)
    /\ Consume(s, e)
    /\ UNCHANGED <<owner, listenerVars, talkerVars, clientVars>>

\* Variant: the count is compared before it is decremented.
MutDisconnectTxCommand(e, s) ==
    /\ Arrived(s, e, "DisconnectTxCommand")
    /\ LET m == Head(chan[<<s, e>>])
           last == Len(table[e]) = 0
       IN /\ m.listener \in Listed(e)
          /\ table' = [table EXCEPT ![e] = Without(@, m.listener)]
          /\ talking' = [talking EXCEPT ![e] = @ /\ ~last]
          /\ reserved' = [reserved EXCEPT ![e] = @ /\ ~last]
          /\ ConsumeAndSend(s, e, m.listener, As(m, "DisconnectTxResponse"))
    /\ UNCHANGED <<owner, listenerVars, advertised, clientVars>>

\* The advertisement stays (msrp_talker_leave is commented out), the talker
\* task is told to stop and MAAP gives up the address with the last listener.
DisconnectTxCommand(e, s) ==
    /\ Arrived(s, e, "DisconnectTxCommand")
    /\ LET m == Head(chan[<<s, e>>])
           last == Len(table[e]) = 1
       IN /\ m.listener \in Listed(e)
          /\ table' = [table EXCEPT ![e] = Without(@, m.listener)]
          /\ talking' = [talking EXCEPT ![e] = @ /\ ~last]
          /\ reserved' = [reserved EXCEPT ![e] = @ /\ ~last]
          /\ ConsumeAndSend(s, e, m.listener, As(m, "DisconnectTxResponse"))
    /\ UNCHANGED <<owner, listenerVars, advertised, clientVars>>

-----------------------------------------------------------------------------
(* acmp_net_rx and the receipt of AECP: one frame of station s.            *)
EntityReceives(e, s) ==
    \/ Acquire(e, s)
    \/ Release(e, s)
    \/ ConnectRxCommand(e, s)
    \/ ConnectTxRefused(e, s)
    \/ ConnectTxResponse(e, s)
    \/ DisconnectRxCommand(e, s)
    \/ DisconnectTxResponse(e, s)
    \/ ConnectTxUnauthorized(e, s)
    \/ ConnectTxDuplicate(e, s)
    \/ ConnectTxCommand(e, s)
    \/ DisconnectTxUnknown(e, s)
    \/ DisconnectTxCommand(e, s)

Lose(k) ==
    /\ Lossy
    /\ chan[k] # <<>>
    /\ chan' = [chan EXCEPT ![k] = Tail(@)]
    /\ UNCHANGED <<owner, listenerVars, talkerVars, clientVars>>

Receives ==
    \/ \E e \in Entity, s \in Station : EntityReceives(e, s)
    \/ \E c \in Controller, s \in Station : ControllerReceives(c, s)

Commands ==
    \/ \E c \in Controller, p \in Pairs :
          SendConnect(c, p) \/ SendDisconnect(c, p)
    \/ \E c \in Controller, e \in Entity, kind \in {"Acquire", "Release"} :
          SendAcquire(c, e, kind)

Next == Commands \/ Receives \/ \E k \in Links : Lose(k)

Spec == Init /\ [][Next]_vars

\* Controllers that take turns: one that wants to connect or disconnect a
\* listener waits until the traffic about it has ended, connects only a
\* listener that is not connected and disconnects it from the talker it is
\* connected to.  They acquire nothing: a controller that is refused gets no
\* answer (ConnectTxRefused).
OrderlyCommands ==
    \E c \in Controller, p \in Pairs :
        /\ Idle(p[1])
        /\ \/ ~info[p[1]].connected /\ SendConnect(c, p)
           \/ info[p[1]].connected /\ info[p[1]].stream = p[2]
                 /\ SendDisconnect(c, p)

OrderlySpec == Init /\ [][OrderlyCommands \/ Receives]_vars

\* The control task and the controllers go on reading their sockets.
Fairness ==
    /\ \A e \in Entity, s \in Station : WF_vars(EntityReceives(e, s))
    /\ \A c \in Controller, s \in Station : WF_vars(ControllerReceives(c, s))

OrderlyFairSpec == OrderlySpec /\ Fairness
-----------------------------------------------------------------------------
(* Properties.                                                             *)

Infos == [talker : Entity \cup {None}, stream : Entity \cup {None},
          connected : BOOLEAN, pending : BOOLEAN, seq : Nat]

\* Every variable has its type; no table holds more listeners than the array
\* connected_listeners has entries.
TypeOK ==
    /\ owner \in [Entity -> Controller \cup {None}]
    /\ info \in [Entity -> Infos]
    /\ listening \in [Entity -> BOOLEAN]
    /\ attached \in [Entity -> SUBSET Entity]
    /\ \A e \in Entity : /\ table[e] \in Seq(Entity)
                         /\ Len(table[e]) <= MaxListeners
    /\ talking \in [Entity -> BOOLEAN]
    /\ advertised \in [Entity -> BOOLEAN]
    /\ reserved \in [Entity -> BOOLEAN]

\* The listener task of an entity runs exactly while its stream sink is
\* connected, and a connected sink has its stream's reservation requested,
\* whatever responses arrive late, twice or after a disconnection.
ListenerFollows ==
    \A e \in Entity :
        /\ listening[e] <=> info[e].connected
        /\ info[e].connected => info[e].stream \in attached[e]

\* The talker task runs exactly while some listener is listed, and then the
\* stream is advertised.
TalkerFollows ==
    \A e \in Entity :
        /\ talking[e] <=> table[e] # <<>>
        /\ talking[e] => advertised[e]

\* At both ends of a stream the task follows the record, whatever commands are
\* repeated, refused or lost on the way.
TasksFollow == ListenerFollows /\ TalkerFollows

\* No listener is listed twice, so that one disconnection removes it.
ListedOnce ==
    \A e \in Entity : \A i, j \in 1..Len(table[e]) :
        table[e][i] = table[e][j] => i = j

\* When no frame about a listener is under way, it is connected to a talker
\* exactly when that talker lists it: neither side keeps half a connection.
Agreement ==
    \A p \in Pairs : Idle(p[1]) =>
        ((info[p[1]].connected /\ info[p[1]].stream = p[2])
            <=> p[1] \in Listed(p[2]))

\* A sink requests the reservation of the stream it is connected to and of
\* no other: a disconnection withdraws it.
ReservesOnlyItsStream ==
    \A e \in Entity :
        attached[e] = IF info[e].connected THEN {info[e].stream} ELSE {}

\* A command of a controller is answered.
Answered == \A c \in Controller : open[c] # {} ~> open[c] = {}

\* Both ends hold the connection.
BothHold ==
    {p \in Pairs : /\ info[p[1]].connected /\ info[p[1]].stream = p[2]
                   /\ p[1] \in Listed(p[2])}

AllRequests ==
    [kind : {"connect", "disconnect"}, ctl : Controller, listener : Entity,
     talker : Entity, seq : UNION {1..MaxCommands[c] : c \in Controller}]

C == INSTANCE Connections WITH
        Requests <- AllRequests, made <- BothHold,
        asked <- UNION {open[c] : c \in Controller}

\* The protocol of listener and talker implements connection management as a
\* controller sees it: an answer arrives only after the connection it reports
\* was made, or unmade, at both ends, and no other connection changes.
ManagesConnections == C!Spec
=============================================================================
