-------------------------------- MODULE Maap --------------------------------
(***************************************************************************)
(* MAAP address acquisition (src/components/avb/maap.c) by several         *)
(* stations that run this code on one network, with other stations that    *)
(* hold fixed ranges.  Talker composes it with the task that streams to    *)
(* the address.                                                            *)
(*                                                                         *)
(* A timer's callback runs to completion in the esp_timer task.  A handler *)
(* of the control task, which has the lower priority on the same core,     *)
(* is preempted between the moment it looks which timer to stop and the    *)
(* moment it stops it.  The timers have periods of 500 ms and more: a      *)
(* frame under way when a timer is started is delivered before the timer   *)
(* expires, while frames of stations that send at the same time may still  *)
(* cross.                                                                  *)
(***************************************************************************)
EXTENDS Integers, Sequences, FiniteSets

CONSTANTS
    Node,           \* stations that run this code
    Peer,           \* stations that hold a range and defend it
    Networks,       \* which of them may be plugged together
    None,           \* no handler is between its look and its stop
    Pool,           \* the addresses generate_address can draw
    Sources,        \* CONFIG_TALKER_STREAM_SOURCES, the length of a range
    PeerRange,      \* [start, count] of each peer
    Retransmits,    \* MAAP_PROBE_RETRANSMITS
    MaxOrphans,     \* bound: announce timers nobody stops any more
    MaxLosses       \* bound: frames the network loses

Station == Node \cup Peer

ASSUME MaapAssumption ==
    /\ Node \cap Peer = {}
    /\ Networks \subseteq SUBSET Station
    /\ Pool \subseteq Nat /\ Pool # {}
    /\ Sources \in 1..255
    /\ PeerRange \in [Peer -> [start : Nat, count : Nat \ {0}]]
    /\ Retransmits \in Nat \ {0}
    /\ MaxOrphans \in Nat /\ MaxLosses \in Nat
    /\ None \notin [op : {"conflict", "release"}, timer : {"probe", "announce"}]

VARIABLES
    present,    \* the stations on the network, chosen once
    state,      \* maap_db.state
    start,      \* maap_db.start_mac
    probes,     \* maap_db.probe_count
    timers,     \* the timers armed whose handle maap_db still has
    orphans,    \* announce timers armed whose handle was overwritten
    stopping,   \* the handler about to stop a timer, and the timer it saw
    inbox,      \* frames under way from one station to another
    due,        \* how many of them the receiver reads before its timer expires
    lost,       \* frames lost
    sent        \* history: probes sent for the present start address

maapVars == <<present, state, start, probes, timers, orphans, stopping,
              inbox, due, lost, sent>>

Links == Station \X Station

Frame(type, first, count) == [type |-> type, start |-> first, count |-> count]

\* A multicast frame reaches every other station.
Cast(box, n, frames) ==
    [k \in Links |->
        IF k[1] = n /\ k[2] \in present \ {n} THEN box[k] \o frames ELSE box[k]]

Delivered(n) == \A m \in Station : inbox[<<n, m>>] = <<>> /\ due[<<m, n>>] = 0

Arrived(n, s, type) == inbox[<<s, n>>] # <<>> /\ Head(inbox[<<s, n>>]).type = type

Taken(n, s) == [inbox EXCEPT ![<<s, n>>] = Tail(@)]

Read(n, s) == due' = [due EXCEPT ![<<s, n>>] = IF @ > 0 THEN @ - 1 ELSE 0]

\* Station n starts a timer.
Arms(n) == due' = [k \in Links |-> IF k[2] = n THEN Len(inbox'[k]) ELSE due[k]]

-----------------------------------------------------------------------------
\* compare_mac: the counts are passed as u8.
Overlap(a, aCount, b, bCount) ==
    LET aEnd == a + (aCount % 256) - 1
        bEnd == b + (bCount % 256) - 1
    IN  a <= bEnd /\ b <= aEnd

Conflicts(f, n) == Overlap(f.start, f.count, start[n], Sources)

Range(n) == start[n] .. (start[n] + Sources - 1)
PeerAddresses(p) ==
    PeerRange[p].start .. (PeerRange[p].start + PeerRange[p].count - 1)

-----------------------------------------------------------------------------
\* Variant: the probe count keeps what an earlier attempt left.
MutReserve(n, a, box) ==
    /\ start' = [start EXCEPT ![n] = a]
    /\ state' = [state EXCEPT ![n] = "PROBE"]
    /\ timers' = [timers EXCEPT ![n] = {"probe"}]
    /\ sent' = [sent EXCEPT ![n] = 1]
    /\ inbox' = Cast(box, n, <<Frame("Probe", a, Sources)>>)
    /\ Arms(n)
    /\ UNCHANGED probes

\* Events RESTART and RESERVE_ADDRESS in INITIAL: draw an address and probe.
Reserve(n, a, box) ==
    /\ start' = [start EXCEPT ![n] = a]
    /\ state' = [state EXCEPT ![n] = "PROBE"]
    /\ probes' = [probes EXCEPT ![n] = Retransmits]
    /\ timers' = [timers EXCEPT ![n] = {"probe"}]
    /\ sent' = [sent EXCEPT ![n] = 1]
    /\ inbox' = Cast(box, n, <<Frame("Probe", a, Sources)>>)
    /\ Arms(n)

\* maap_init has run on every station: each drew an address and probed once.
Init ==
    /\ present \in Networks
    /\ state = [n \in Node |-> IF n \in present THEN "PROBE" ELSE "INITIAL"]
    /\ start \in {f \in [Node -> Pool] :
                    \A n \in Node \ present : f[n] = CHOOSE a \in Pool : TRUE}
    /\ probes = [n \in Node |-> IF n \in present THEN Retransmits ELSE 0]
    /\ timers = [n \in Node |-> IF n \in present THEN {"probe"} ELSE {}]
    /\ sent = [n \in Node |-> IF n \in present THEN 1 ELSE 0]
    /\ orphans = [n \in Node |-> 0]
    /\ stopping = [n \in Node |-> None]
    /\ lost = 0
    /\ inbox = [k \in Links |->
                  IF k[1] \in Node \cap present /\ k[2] \in present \ {k[1]}
                  THEN <<Frame("Probe", start[k[1]], Sources)>> ELSE <<>>]
    /\ due = [k \in Links |-> 0]

\* Station n restarts: what was on the way to it and its timers are gone.
Reboot(n, a) ==
    /\ orphans' = [orphans EXCEPT ![n] = 0]
    /\ stopping' = [stopping EXCEPT ![n] = None]
    /\ Reserve(n, a, [k \in Links |-> IF k[2] = n THEN <<>> ELSE inbox[k]])
    /\ UNCHANGED <<present, lost>>

-----------------------------------------------------------------------------
(* The callbacks.                                                          *)

\* Event PROBE_COUNT: the probe just sent was the last, announce the address.
ProbesDone(n) ==
    /\ stopping[n] # None => orphans[n] < MaxOrphans
    /\ state' = [state EXCEPT ![n] = "DEFEND"]
    /\ timers' = [timers EXCEPT ![n] = (@ \ {"probe"}) \cup {"announce"}]
    /\ inbox' = Cast(inbox, n, <<Frame("Probe", start[n], Sources),
                                 Frame("Announce", start[n], Sources)>>)
    /\ UNCHANGED probes

\* maap_handle_probe_timer: one more probe, and its timer again.
ProbeTimer(n) ==
    /\ "probe" \in timers[n] /\ Delivered(n)
    /\ sent' = [sent EXCEPT ![n] = @ + 1]
    /\ IF probes[n] > 1
       THEN /\ probes' = [probes EXCEPT ![n] = @ - 1]
            /\ inbox' = Cast(inbox, n, <<Frame("Probe", start[n], Sources)>>)
            /\ UNCHANGED <<state, timers>>
       ELSE ProbesDone(n)
    /\ Arms(n)
    /\ UNCHANGED <<present, start, orphans, stopping, lost>>

\* maap_handle_announce_timer: the timer is started again.
AnnounceTimer(n) ==
    /\ "announce" \in timers[n] /\ Delivered(n)
    /\ IF state[n] = "DEFEND"
       THEN /\ inbox' = Cast(inbox, n, <<Frame("Announce", start[n], Sources)>>)
            /\ UNCHANGED timers
       ELSE /\ timers' = [timers EXCEPT ![n] = @ \ {"announce"}]
            /\ UNCHANGED inbox
    /\ Arms(n)
    /\ UNCHANGED <<present, state, start, probes, orphans, stopping, lost, sent>>

\* The same callback of a timer nobody stopped: it starts the timer of the
\* handle in maap_db, not its own, which fails when that one is armed.
OrphanTimer(n) ==
    /\ orphans[n] > 0 /\ Delivered(n)
    /\ orphans' = [orphans EXCEPT ![n] = @ - 1]
    /\ IF state[n] = "DEFEND"
       THEN /\ inbox' = Cast(inbox, n, <<Frame("Announce", start[n], Sources)>>)
            /\ timers' = [timers EXCEPT ![n] = @ \cup {"announce"}]
       ELSE UNCHANGED <<inbox, timers>>
    /\ Arms(n)
    /\ UNCHANGED <<present, state, start, probes, stopping, lost, sent>>

-----------------------------------------------------------------------------
(* The handlers, in the control task.                                      *)

\* The switch over the state (263, 335): the timer that is going to be stopped.
Looks(n, op) ==
    stopping' = [stopping EXCEPT ![n] =
        [op |-> op, timer |-> IF state[n] = "PROBE" THEN "probe" ELSE "announce"]]

Ignore(n, s) ==
    /\ inbox' = Taken(n, s)
    /\ Read(n, s)
    /\ UNCHANGED <<present, state, start, probes, timers, orphans, stopping, lost, sent>>

\* Variant: a station that holds its address keeps it, as for a probe.
MutAnnounceConflict(n, s) ==
    /\ Arrived(n, s, "Announce")
    /\ stopping[n] = None
    /\ state[n] = "PROBE"
    /\ Conflicts(Head(inbox[<<s, n>>]), n)
    /\ Looks(n, "conflict")
    /\ inbox' = Taken(n, s)
    /\ Read(n, s)
    /\ UNCHANGED <<present, state, start, probes, timers, orphans, lost, sent>>

\* RANNOUNCE: a conflict restarts the acquisition, in PROBE and in DEFEND.
AnnounceConflict(n, s) ==
    /\ Arrived(n, s, "Announce")
    /\ stopping[n] = None
    /\ state[n] # "INITIAL"
    /\ Conflicts(Head(inbox[<<s, n>>]), n)
    /\ Looks(n, "conflict")
    /\ inbox' = Taken(n, s)
    /\ Read(n, s)
    /\ UNCHANGED <<present, state, start, probes, timers, orphans, lost, sent>>

AnnounceIgnored(n, s) ==
    /\ Arrived(n, s, "Announce")
    /\ stopping[n] = None
    /\ state[n] = "INITIAL" \/ ~Conflicts(Head(inbox[<<s, n>>]), n)
    /\ Ignore(n, s)

\* RPROBE: in PROBE and DEFEND the handler returns before it looks at the
\* frame, and in INITIAL a conflict has no case.
ProbeIgnored(n, s) ==
    /\ Arrived(n, s, "Probe")
    /\ stopping[n] = None
    /\ Ignore(n, s)

\* RDEFEND: only a station in INITIAL, one that released its address, looks
\* at the frame, and a conflict makes it acquire a new one.
DefendConflict(n, s, a) ==
    /\ Arrived(n, s, "Defend")
    /\ stopping[n] = None
    /\ state[n] = "INITIAL"
    /\ Conflicts(Head(inbox[<<s, n>>]), n)
    /\ Reserve(n, a, Taken(n, s))
    /\ UNCHANGED <<present, orphans, stopping, lost>>

DefendIgnored(n, s) ==
    /\ Arrived(n, s, "Defend")
    /\ stopping[n] = None
    /\ state[n] # "INITIAL" \/ ~Conflicts(Head(inbox[<<s, n>>]), n)
    /\ Ignore(n, s)

\* RELEASE (maap_release): nothing to stop in INITIAL.
Release(n) ==
    /\ IF state[n] = "INITIAL" THEN UNCHANGED stopping ELSE Looks(n, "release")
    /\ UNCHANGED <<present, state, start, probes, timers, orphans, inbox, due, lost, sent>>

\* A callback between the look and the stop may have armed the other timer;
\* it stays armed, and its handle is overwritten later.
Abandoned(n) == IF timers[n] \subseteq {stopping[n].timer} THEN 0 ELSE 1

\* Variant: the timer is left running.
MutStopTimer(n, a) ==
    /\ stopping[n] # None
    /\ stopping' = [stopping EXCEPT ![n] = None]
    /\ IF stopping[n].op = "conflict"
       THEN Reserve(n, a, inbox)
       ELSE /\ state' = [state EXCEPT ![n] = "INITIAL"]
            /\ UNCHANGED <<timers, start, probes, inbox, due, sent>>
    /\ UNCHANGED <<present, orphans, lost>>

\* The rest of the handler: stop the timer seen, INITIAL, and after a
\* conflict another address.
StopTimer(n, a) ==
    /\ stopping[n] # None
    /\ stopping' = [stopping EXCEPT ![n] = None]
    /\ orphans' = [orphans EXCEPT ![n] = @ + Abandoned(n)]
    /\ IF stopping[n].op = "conflict"
       THEN Reserve(n, a, inbox)
       ELSE /\ state' = [state EXCEPT ![n] = "INITIAL"]
            /\ timers' = [timers EXCEPT ![n] = {}]
            /\ UNCHANGED <<start, probes, inbox, due, sent>>
    /\ UNCHANGED <<present, lost>>

-----------------------------------------------------------------------------
(* Stations that follow IEEE 1722: they announce their range and defend it *)
(* against a probe.                                                        *)

PeerFrame(p, type) == Frame(type, PeerRange[p].start, PeerRange[p].count)

\* Announcements are half a minute apart: nothing is under way to p by then.
PeerAnnounces(p) ==
    /\ p \in present
    /\ Delivered(p)
    /\ \A s \in Station : inbox[<<s, p>>] = <<>>
    /\ inbox' = Cast(inbox, p, <<PeerFrame(p, "Announce")>>)
    /\ UNCHANGED <<present, state, start, probes, timers, orphans, stopping, due, lost, sent>>

PeerReceives(p, s) ==
    /\ inbox[<<s, p>>] # <<>>
    /\ LET f == Head(inbox[<<s, p>>])
           hit == f.type = "Probe"
                  /\ (f.start .. (f.start + f.count - 1)) \cap PeerAddresses(p) # {}
       IN inbox' = Cast(Taken(p, s), p,
                        IF hit THEN <<Frame("Defend", f.start, f.count)>> ELSE <<>>)
    /\ Read(p, s)
    /\ UNCHANGED <<present, state, start, probes, timers, orphans, stopping, lost, sent>>

Lose(n, s) ==
    /\ lost < MaxLosses
    /\ inbox[<<s, n>>] # <<>>
    /\ lost' = lost + 1
    /\ inbox' = Taken(n, s)
    /\ Read(n, s)
    /\ UNCHANGED <<present, state, start, probes, timers, orphans, stopping, sent>>

-----------------------------------------------------------------------------
Receives(n, s) ==
    \/ AnnounceConflict(n, s) \/ AnnounceIgnored(n, s)
    \/ \E a \in Pool : DefendConflict(n, s, a)
    \/ DefendIgnored(n, s) \/ ProbeIgnored(n, s)

Stops(n) == \E a \in Pool : StopTimer(n, a)

\* All steps but the release of an address and a restart, which Talker gives
\* their occasion.
Protocol ==
    \/ \E n \in Node : ProbeTimer(n) \/ AnnounceTimer(n) \/ OrphanTimer(n) \/ Stops(n)
    \/ \E n \in Node, s \in Station : Receives(n, s) \/ Lose(n, s)
    \/ \E p \in Peer : PeerAnnounces(p) \/ \E s \in Station : PeerReceives(p, s)

\* Frames under way to station m.
UnderWay(m) ==
    UNION {{inbox[<<s, m>>][i] : i \in 1..Len(inbox[<<s, m>>])} : s \in Station}

\* Addresses that nobody else uses or has under way to n, once no other
\* station is about to draw again.
Free(n) ==
    IF \E m \in Node \ {n} :
            \/ stopping[m] # None
            \/ \E f \in UnderWay(m) : f.type = "Announce" /\ Conflicts(f, m)
    THEN {}
    ELSE {a \in Pool :
            /\ \A m \in (Node \cap present) \ {n} : ~Overlap(a, Sources, start[m], Sources)
            /\ \A p \in Peer \cap present :
                  ~Overlap(a, Sources, PeerRange[p].start, PeerRange[p].count)
            /\ \A f \in UnderWay(n) : ~Overlap(a, Sources, f.start, f.count)}

-----------------------------------------------------------------------------
(* Properties.                                                             *)

\* Each state has exactly its timer armed, wherever a callback preempts a
\* handler: the acquisition never hangs in PROBE, an address that is held is
\* announced, and a released one is silent.
TimerOfState ==
    \A n \in Node :
        /\ state[n] = "PROBE" => timers[n] = {"probe"}
        /\ state[n] = "DEFEND" => timers[n] = {"announce"}
        /\ state[n] = "INITIAL" => timers[n] = {}

\* A station defends an address only after all its probes for that very
\* address, however often it had to draw again on the way.
DefendsOnlyProbed ==
    \A n \in Node : state[n] = "DEFEND" => sent[n] = Retransmits + 1

\* Stations hold ranges of their own, or have released them.
Apart ==
    LET held == {n \in Node \cap present : state[n] = "DEFEND"}
    IN  /\ \A n \in Node \cap present : state[n] \in {"DEFEND", "INITIAL"}
        /\ \A n, m \in held : n # m => Range(n) \cap Range(m) = {}
        /\ \A n \in held, p \in Peer \cap present : Range(n) \cap PeerAddresses(p) = {}

=============================================================================
