-------------------------------- MODULE Ptp --------------------------------
(***************************************************************************)
(* The PTP daemon (src/components/ptpd/ptpd.c) on the stations of one      *)
(* network: the choice of the best clock from Announce messages, its       *)
(* time-out, the server's periodic Announce, Sync and Follow_Up, and the   *)
(* pairing of a Sync with its Follow_Up at a client.                       *)
(*                                                                         *)
(* The daemon is one task, whose loop receives one frame or times out,     *)
(* sends what is due and checks its source: one iteration is one action.   *)
(* Time passes in ticks of a poll interval (1 s): every daemon that is up  *)
(* goes round its loop in every tick, and a frame is delivered or lost     *)
(* within the tick it was sent in.                                         *)
(*                                                                         *)
(* A local clock is abstracted to its time base: clocks on one base differ *)
(* by less than the step threshold, clocks on different bases by more.  A  *)
(* clock starts on a base of its own; a step moves it to its source's.     *)
(*                                                                         *)
(* The peer delay stays 0 in the configuration of the repository: delay    *)
(* requests wait for a stability of less than 0 ns (ptpd.c:1418) and are   *)
(* never sent.                                                             *)
(***************************************************************************)
EXTENDS Integers, Sequences

CONSTANTS
    Node, None,
    Clock,              \* what each station announces: own_identity
    SyncInterval,       \* CONFIG_NETUTILS_PTPD_SYNC_INTERVAL_MSEC, in ticks
    AnnounceInterval,   \* CONFIG_NETUTILS_PTPD_ANNOUNCE_INTERVAL_MSEC
    Timeout,            \* CONFIG_NETUTILS_PTPD_TIMEOUT_MS
    SeqRange,           \* sequence ids are 16 bits
    Together,           \* the stations that are powered up at the same time
    MaxBoots,           \* bound: how often each station starts
    LossyLinks,         \* bound: the links on which frames are lost
    MaxLosses           \* bound: frames the network loses

ASSUME PtpAssumption ==
    /\ None \notin Node
    /\ Clock \in [Node -> [priority1 : Nat, identity : Nat, steps : Nat]]
    /\ \A a, b \in Node : Clock[a].identity = Clock[b].identity => a = b
    /\ SyncInterval \in Nat /\ AnnounceInterval \in Nat /\ Timeout \in Nat
    /\ SeqRange \in Nat \ {0}
    /\ Together \subseteq Node
    /\ MaxBoots \in [Node -> Nat] /\ MaxLosses \in Nat
    /\ LossyLinks \subseteq Node \X Node

VARIABLES
    up,         \* the stations that are powered and run the daemon
    ptp,        \* struct ptp_state_s of each
    base,       \* the time base the PTP clock of each follows
    chan,       \* frames under way from one station to another
    polled,     \* the stations whose loop has run in this tick
    boots,      \* starts so far
    lost,       \* frames lost
    gap         \* history: the Sync of the next Follow_Up on the link was lost

vars == <<up, ptp, base, chan, polled, boots, lost, gap>>

Links == Node \X Node

\* A time base is named by the start of a station that created it.
Base(n, k) == [node |-> n, boot |-> k]
Torn == [node |-> None, boot |-> 0]

NoSync == [src |-> None, seq |-> 0, base |-> Torn, boot |-> 0]

-----------------------------------------------------------------------------
(* is_better_clock, with the terms of the gPTP profile.                    *)

IsBetterClock(a, b) ==
    \/ Clock[a].priority1 < Clock[b].priority1
    \/ Clock[a].identity < Clock[b].identity
    \/ Clock[a].steps < Clock[b].steps

Initial == [selected |-> None, valid |-> FALSE, sinceSync |-> 0,
            sinceAnnounce |-> 0, sinceSent |-> 0, seq |-> 0,
            twostep |-> NoSync]

Init ==
    /\ up = Together
    /\ ptp = [n \in Node |-> Initial]
    /\ base = [n \in Node |-> IF n \in Together THEN Base(n, 1) ELSE Torn]
    /\ chan = [k \in Links |-> <<>>]
    /\ polled = {}
    /\ boots = [n \in Node |-> IF n \in Together THEN 1 ELSE 0]
    /\ lost = 0
    /\ gap = [k \in Links |-> FALSE]

-----------------------------------------------------------------------------
(* The handlers, as functions of the daemon's state s.                     *)

\* Variant: any clock that beats our own replaces the selected one.
MutProcessAnnounce(s, n, src) ==
    IF IsBetterClock(src, n)
    THEN [s EXCEPT !.selected = src, !.sinceSync = 0]
    ELSE s

ProcessAnnounce(s, n, src) ==
    IF /\ IsBetterClock(src, n)
       /\ ~s.valid \/ IsBetterClock(src, s.selected)
    THEN [s EXCEPT !.selected = src, !.sinceSync = 0]
    ELSE s

\* The Sync is kept until its Follow_Up arrives, with the local time of its
\* arrival.
ProcessSync(s, n, src, m) ==
    IF s.valid /\ s.selected = src
    THEN [s EXCEPT !.sinceSync = 0,
                   !.twostep = [src |-> src, seq |-> m.seq, base |-> base[n],
                                boot |-> boots[src]]]
    ELSE s

\* Variant: the sequence ids are not compared.
MutUsesFollowUp(s, src, m) == s.valid /\ s.twostep.src = src

\* The source is compared with that of the kept Sync, not with the selected.
UsesFollowUp(s, src, m) ==
    s.valid /\ s.twostep.src = src /\ s.twostep.seq = m.seq

\* ptp_update_local_clock: step when the bases differ, else adjust the rate.
\* A step from a reading of a base the clock has left since lands nowhere.
Updated(n, s, m) ==
    IF m.base = s.twostep.base THEN base[n]
    ELSE IF s.twostep.base = base[n] THEN m.base ELSE Torn

\* is_selected_source_valid
SourceValid(s) == s.selected # None /\ s.sinceSync <= Timeout

AnnounceDue(s) == ~s.valid /\ s.sinceAnnounce > AnnounceInterval
SyncDue(s) == ~s.valid /\ s.sinceSent > SyncInterval

\* ptp_periodic_send, as a server only: Announce, then Sync and Follow_Up.
Frame(kind, seq, n) == [kind |-> kind, seq |-> seq, base |-> base'[n]]

NextSeq(s) == (s.seq + 1) % SeqRange

Sends(n, s) ==
    (IF AnnounceDue(s) THEN <<Frame("Announce", 0, n)>> ELSE <<>>)
      \o (IF SyncDue(s)
          THEN <<Frame("Sync", NextSeq(s), n), Frame("FollowUp", NextSeq(s), n)>>
          ELSE <<>>)

\* Variant: a source that has gone silent is kept.
MutAfterSend(s) ==
    [s EXCEPT !.sinceAnnounce = IF AnnounceDue(s) THEN 0 ELSE @,
              !.sinceSent = IF SyncDue(s) THEN 0 ELSE @,
              !.seq = IF SyncDue(s) THEN NextSeq(s) ELSE @,
              !.valid = @ \/ SourceValid(s)]

\* The state at the end of the loop, after sending and the check of the source.
AfterSend(s) ==
    [s EXCEPT !.sinceAnnounce = IF AnnounceDue(s) THEN 0 ELSE @,
              !.sinceSent = IF SyncDue(s) THEN 0 ELSE @,
              !.seq = IF SyncDue(s) THEN NextSeq(s) ELSE @,
              !.valid = SourceValid(s)]

\* The rest of the loop of n, whose handler left the state s and the frames box.
FinishLoop(n, s, box) ==
    /\ ptp' = [ptp EXCEPT ![n] = AfterSend(s)]
    /\ chan' = [k \in Links |-> IF k[1] = n /\ k[2] \in up \ {n}
                                THEN box[k] \o Sends(n, s) ELSE box[k]]
    /\ polled' = polled \cup {n}
    /\ UNCHANGED <<up, boots, lost>>

-----------------------------------------------------------------------------
(* The loop of ptp_daemon.                                                 *)

\* poll times out.
Poll(n) ==
    /\ n \in up \ polled
    /\ UNCHANGED <<base, gap>>
    /\ FinishLoop(n, ptp[n], chan)

Arrived(src, n, kind) ==
    /\ n \in up
    /\ chan[<<src, n>>] # <<>>
    /\ Head(chan[<<src, n>>]).kind = kind

Rest(src, n) == [chan EXCEPT ![<<src, n>>] = Tail(@)]

ReceiveAnnounce(n, src) ==
    /\ Arrived(src, n, "Announce")
    /\ UNCHANGED <<base, gap>>
    /\ FinishLoop(n, ProcessAnnounce(ptp[n], n, src), Rest(src, n))

ReceiveSync(n, src) ==
    /\ Arrived(src, n, "Sync")
    /\ gap' = [gap EXCEPT ![<<src, n>>] = FALSE]
    /\ UNCHANGED base
    /\ FinishLoop(n, ProcessSync(ptp[n], n, src, Head(chan[<<src, n>>])),
                  Rest(src, n))

ReceiveFollowUp(n, src) ==
    /\ Arrived(src, n, "FollowUp")
    /\ LET m == Head(chan[<<src, n>>]) IN
          base' = IF UsesFollowUp(ptp[n], src, m)
                  THEN [base EXCEPT ![n] = Updated(n, ptp[n], m)] ELSE base
    /\ gap' = [gap EXCEPT ![<<src, n>>] = FALSE]
    /\ FinishLoop(n, ptp[n], Rest(src, n))

-----------------------------------------------------------------------------
(* Time, power and the network.                                            *)

Older(age, limit) == IF age > limit THEN age ELSE age + 1

\* All daemons have gone round their loops and no frame is under way.
Tick ==
    /\ up # {} /\ polled = up
    /\ \A k \in Links : chan[k] = <<>>
    /\ ptp' = [n \in Node |->
                 IF n \in up
                 THEN [ptp[n] EXCEPT !.sinceSync = Older(@, Timeout),
                                     !.sinceAnnounce = Older(@, AnnounceInterval),
                                     !.sinceSent = Older(@, SyncInterval)]
                 ELSE ptp[n]]
    /\ polled' = {}
    /\ UNCHANGED <<up, base, chan, boots, lost, gap>>

\* Stations start and fail between two ticks: no frame is under way.
Quiet == polled = {} /\ \A k \in Links : chan[k] = <<>>

\* ptpd_start, ptp_initialize_state: the PTP clock starts from 0.
Boot(n) ==
    /\ Quiet
    /\ n \notin up /\ boots[n] < MaxBoots[n]
    /\ up' = up \cup {n}
    /\ boots' = [boots EXCEPT ![n] = @ + 1]
    /\ base' = [base EXCEPT ![n] = Base(n, boots[n] + 1)]
    /\ UNCHANGED <<ptp, chan, polled, lost, gap>>

\* The station loses its power, and its memory.
Crash(n) ==
    /\ Quiet
    /\ n \in up /\ boots[n] < MaxBoots[n]
    /\ up' = up \ {n}
    /\ ptp' = [ptp EXCEPT ![n] = Initial]
    /\ base' = [base EXCEPT ![n] = Torn]
    /\ UNCHANGED <<chan, polled, boots, lost, gap>>

Lose(k) ==
    /\ lost < MaxLosses
    /\ chan[k] # <<>>
    /\ lost' = lost + 1
    /\ chan' = [chan EXCEPT ![k] = Tail(@)]
    /\ gap' = [gap EXCEPT ![k] = Head(chan[k]).kind = "Sync"]
    /\ UNCHANGED <<up, ptp, base, polled, boots>>

-----------------------------------------------------------------------------
Receive(n, src) ==
    \/ ReceiveAnnounce(n, src) \/ ReceiveSync(n, src) \/ ReceiveFollowUp(n, src)

Run == \/ Tick
       \/ \E n \in Node : Poll(n)
       \/ \E n, src \in Node : Receive(n, src)

Next ==
    \/ Run
    \/ \E n \in Node : Boot(n) \/ Crash(n)
    \/ \E k \in LossyLinks : Lose(k)

Spec == Init /\ [][Next]_vars

\* Time passes, daemons go round their loops and read their sockets.  A tick
\* waits for all that is due in it, which is finite: no daemon is left out.
FairSpec == Spec /\ WF_vars(Run)

-----------------------------------------------------------------------------
(* Properties.                                                             *)

Bases == [node : Node, boot : Nat] \cup {Torn}

Daemon ==
    [selected : Node \cup {None}, valid : BOOLEAN, sinceSync : 0..Timeout + 1,
     sinceAnnounce : 0..AnnounceInterval + 1, sinceSent : 0..SyncInterval + 1,
     seq : 0..SeqRange - 1,
     twostep : [src : Node \cup {None}, seq : 0..SeqRange - 1, base : Bases,
                boot : Nat]]

Frames == [kind : {"Announce", "Sync", "FollowUp"}, seq : 0..SeqRange - 1,
           base : Bases]

\* Types, and a client follows only a clock that beats its own.
TypeOK ==
    /\ up \subseteq Node /\ polled \subseteq up
    /\ ptp \in [Node -> Daemon]
    /\ base \in [Node -> Bases]
    /\ chan \in [Links -> Seq(Frames)]
    /\ boots \in [Node -> Nat] /\ lost \in 0..MaxLosses
    /\ gap \in [Links -> BOOLEAN]
    /\ \A n \in Node : ptp[n].valid => /\ ptp[n].selected \in Node
                                       /\ IsBetterClock(ptp[n].selected, n)

\* The order of IEEE 802.1AS on the fields the daemon compares.
Outranks(a, b) ==
    \/ Clock[a].priority1 < Clock[b].priority1
    \/ /\ Clock[a].priority1 = Clock[b].priority1
       /\ Clock[a].identity < Clock[b].identity

\* Among stations that announce the same priority1 and stepsremoved, a client
\* that has a source leaves it only for a better one: it does not fall back to
\* a worse clock, nor go back and forth between two.  Among others it may,
\* because is_better_clock is no order then (ptpd.c:493).
LeavesOnlyForBetter ==
    [][\A n \in Node :
          ptp[n].valid /\ ptp'[n].valid /\ ptp'[n].selected # ptp[n].selected
          => Outranks(ptp'[n].selected, ptp[n].selected)]_vars

\* A clock is set from a Sync and the Follow_Up of that very Sync, whichever
\* of them are lost, unless the source restarted between the two.
PairsOfOneSync ==
    [][\A n, src \in Node :
          /\ ReceiveFollowUp(n, src)
          /\ UsesFollowUp(ptp[n], src, Head(chan[<<src, n>>]))
          /\ ptp[n].twostep.boot = boots[src]
          => ~gap[<<src, n>>]]_vars

\* The best clock of the stations that are up.
Best(n) == n \in up /\ \A m \in up \ {n} : Outranks(n, m)

\* Whatever joins, fails or is lost, in the end the best clock serves, every
\* other station is its client, and all clocks are on its time base.
SettlesOnBest ==
    <>[](\A n \in up :
            IF Best(n) THEN ~ptp[n].valid
            ELSE /\ ptp[n].valid /\ Best(ptp[n].selected)
                 /\ base[n] = base[ptp[n].selected])
=============================================================================
