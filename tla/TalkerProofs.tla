---------------------------- MODULE TalkerProofs ----------------------------
(***************************************************************************)
(* Proofs about Talker: for any number of stations, addresses, listeners   *)
(* and probes, and wherever callbacks preempt handlers, each state of MAAP *)
(* has its timer, what is defended was probed, and a stream with listeners *)
(* is sent.                                                                *)
(***************************************************************************)
EXTENDS Talker, TLAPS

Stopped == [op : {"conflict", "release"}, timer : {"probe", "announce"}]

\* The handler about to stop a timer has seen the timer of the state, which
\* the last probe may change under it, once, and then there is room to count
\* the timer that nobody stops.
Seen ==
    \A n \in Node : stopping[n] # None =>
        /\ stopping[n].timer = "announce" => state[n] = "DEFEND"
        /\ stopping[n].timer = "probe" /\ state[n] = "DEFEND" => orphans[n] < MaxOrphans

\* Probes sent and probes to send make up the number for one address.
Counted ==
    \A n \in Node :
        /\ state[n] = "PROBE" => probes[n] >= 1 /\ sent[n] + probes[n] = Retransmits + 1
        /\ state[n] = "DEFEND" => sent[n] = Retransmits + 1

MaapInv ==
    /\ TypeOK
    /\ stopping \in [Node -> Stopped \cup {None}]
    /\ sent \in [Node -> Nat]
    /\ TimerOfState /\ Seen /\ Counted

IInv == MaapInv /\ ConnectedStreams

-----------------------------------------------------------------------------
LEMMA Bounds ==
  /\ Retransmits \in Nat /\ Retransmits >= 1
  /\ MaxOrphans \in Nat /\ MaxListeners \in Nat /\ MaxTasks \in Nat
  /\ None \notin Stopped
<1>1. Retransmits \in Nat \ {0} /\ MaxOrphans \in Nat
  BY MaapAssumption
<1>3. None \notin Stopped
  BY MaapAssumption DEF Stopped
<1>2. MaxListeners \in Nat /\ MaxTasks \in Nat
  BY TalkerAssumption
<1> QED
  BY <1>1, <1>2, <1>3

LEMMA InitInv == TalkerInit => IInv
<1> SUFFICES ASSUME TalkerInit PROVE IInv
  OBVIOUS
<1>0. /\ state = [n \in Node |-> IF n \in present THEN "PROBE" ELSE "INITIAL"]
      /\ start \in [Node -> Pool]
      /\ probes = [n \in Node |-> IF n \in present THEN Retransmits ELSE 0]
      /\ timers = [n \in Node |-> IF n \in present THEN {"probe"} ELSE {}]
      /\ sent = [n \in Node |-> IF n \in present THEN 1 ELSE 0]
      /\ orphans = [n \in Node |-> 0] /\ stopping = [n \in Node |-> None]
      /\ listeners = [n \in Node |-> 0] /\ stop = [n \in Node |-> FALSE]
      /\ task = [n \in Node |-> NoTasks] /\ handle = [n \in Node |-> 0]
  BY DEF TalkerInit, Init
<1>2. TypeOK
  BY <1>0, Bounds DEF TypeOK, NoTasks, TaskId
<1>3. stopping \in [Node -> Stopped \cup {None}] /\ sent \in [Node -> Nat]
  BY <1>0
<1>4. TimerOfState
  BY <1>0 DEF TimerOfState
<1>5. Seen
  BY <1>0 DEF Seen
<1>6. Counted
  BY <1>0, Bounds DEF Counted
<1>7. ConnectedStreams
  BY <1>0 DEF ConnectedStreams
<1> QED
  BY <1>2, <1>3, <1>4, <1>5, <1>6, <1>7 DEF IInv, MaapInv

-----------------------------------------------------------------------------
(***************************************************************************)
(* MAAP.  The types of the talker's variables are not touched.             *)
(***************************************************************************)
MaapTypes ==
    /\ state \in [Node -> {"INITIAL", "PROBE", "DEFEND"}]
    /\ start \in [Node -> Pool]
    /\ probes \in [Node -> 0..Retransmits]
    /\ timers \in [Node -> SUBSET {"probe", "announce"}]
    /\ orphans \in [Node -> 0..MaxOrphans]
    /\ stopping \in [Node -> Stopped \cup {None}]
    /\ sent \in [Node -> Nat]

MaapPart == MaapTypes /\ TimerOfState /\ Seen /\ Counted

\* An address is drawn, for whatever reason, and nothing is being stopped.
LEMMA ReserveKeeps ==
  ASSUME MaapPart, NEW n \in Node, NEW a \in Pool, NEW box, Reserve(n, a, box),
         orphans' \in [Node -> 0..MaxOrphans],
         \A m \in Node \ {n} : orphans'[m] = orphans[m],
         stopping' = [stopping EXCEPT ![n] = None]
  PROVE  MaapPart'
<1> USE Bounds DEF MaapPart, MaapTypes, Reserve
<1>1. MaapTypes'
  OBVIOUS
<1>2. TimerOfState'
  BY DEF TimerOfState
<1>3. Seen'
  BY DEF Seen
<1>4. Counted'
  BY DEF Counted
<1> QED
  BY <1>1, <1>2, <1>3, <1>4

LEMMA ProbeTimerKeeps ==
  ASSUME MaapPart, NEW n \in Node, ProbeTimer(n)
  PROVE  MaapPart'
<1> USE Bounds DEF MaapPart, MaapTypes
<1>1. state[n] = "PROBE"
  BY DEF ProbeTimer, TimerOfState
<1>2. CASE probes[n] > 1
  <2> USE <1>1, <1>2 DEF ProbeTimer
  <2>1. MaapTypes'
    OBVIOUS
  <2>2. TimerOfState'
    BY DEF TimerOfState
  <2>3. Seen'
    BY DEF Seen
  <2>4. Counted'
    BY DEF Counted
  <2> QED
    BY <2>1, <2>2, <2>3, <2>4
<1>3. CASE ~(probes[n] > 1)
  <2> USE <1>1, <1>3 DEF ProbeTimer, ProbesDone
  <2>1. MaapTypes'
    OBVIOUS
  <2>2. TimerOfState'
    BY DEF TimerOfState
  <2>3. Seen'
    BY DEF Seen
  <2>4. Counted'
    BY DEF Counted
  <2> QED
    BY <2>1, <2>2, <2>3, <2>4
<1> QED
  BY <1>2, <1>3

LEMMA PeriodicKeeps ==
  ASSUME MaapPart, NEW n \in Node, AnnounceTimer(n) \/ OrphanTimer(n)
  PROVE  MaapPart'
<1> USE Bounds DEF MaapPart, MaapTypes
<1>1. CASE AnnounceTimer(n)
  <2>1. UNCHANGED <<state, start, probes, timers, orphans, stopping, sent>>
    BY <1>1 DEF AnnounceTimer, TimerOfState
  <2> QED
    BY <2>1 DEF TimerOfState, Seen, Counted
<1>2. CASE OrphanTimer(n)
  <2>1. UNCHANGED <<state, start, probes, timers, stopping, sent>>
    BY <1>2 DEF OrphanTimer, TimerOfState
  <2>2. orphans' = [orphans EXCEPT ![n] = @ - 1] /\ orphans[n] > 0
    BY <1>2 DEF OrphanTimer
  <2>3. MaapTypes' /\ Seen'
    BY <2>1, <2>2 DEF Seen
  <2> QED
    BY <2>1, <2>3 DEF TimerOfState, Counted
<1> QED
  BY <1>1, <1>2

\* A handler looks at the state.
LEMMA LooksKeeps ==
  ASSUME MaapPart, NEW n \in Node, NEW op \in {"conflict", "release"},
         Looks(n, op), state[n] # "INITIAL",
         UNCHANGED <<state, start, probes, timers, orphans, sent>>
  PROVE  MaapPart'
<1> USE DEF MaapPart, MaapTypes, Looks
<1>1. MaapTypes'
  BY DEF Stopped
<1>2. Seen'
  BY Bounds DEF Seen, Stopped
<1> QED
  BY <1>1, <1>2 DEF TimerOfState, Counted

LEMMA StopTimerKeeps ==
  ASSUME MaapPart, NEW n \in Node, NEW a \in Pool, StopTimer(n, a)
  PROVE  MaapPart'
<1> USE Bounds DEF MaapPart, MaapTypes, StopTimer
<1>1. orphans[n] + Abandoned(n) \in 0..MaxOrphans
  BY DEF Abandoned, TimerOfState, Seen, Stopped
<1>2. orphans' \in [Node -> 0..MaxOrphans] /\ \A m \in Node \ {n} : orphans'[m] = orphans[m]
  BY <1>1
<1>3. CASE stopping[n].op = "conflict"
  BY <1>2, <1>3, ReserveKeeps
<1>4. CASE stopping[n].op # "conflict"
  <2>1. MaapTypes'
    BY <1>2, <1>4
  <2>2. TimerOfState'
    BY <1>4 DEF TimerOfState
  <2>3. Seen'
    BY <1>2, <1>4 DEF Seen
  <2>4. Counted'
    BY <1>4 DEF Counted
  <2> QED
    BY <2>1, <2>2, <2>3, <2>4
<1> QED
  BY <1>3, <1>4

\* Every step of MAAP.
LEMMA ProtocolKeeps ==
  ASSUME MaapPart, Protocol
  PROVE  MaapPart'
<1> USE DEF MaapPart, MaapTypes
<1>1. ASSUME UNCHANGED <<state, start, probes, timers, orphans, stopping, sent>>
      PROVE  MaapPart'
  BY <1>1 DEF TimerOfState, Seen, Counted
<1>2. ASSUME NEW n \in Node, ProbeTimer(n) \/ AnnounceTimer(n) \/ OrphanTimer(n) \/ Stops(n)
      PROVE  MaapPart'
  BY <1>2, ProbeTimerKeeps, PeriodicKeeps, StopTimerKeeps DEF Stops
<1>3. ASSUME NEW n \in Node, NEW s \in Station, Receives(n, s) \/ Lose(n, s)
      PROVE  MaapPart'
  <2>1. CASE AnnounceConflict(n, s)
    BY <2>1, LooksKeeps DEF AnnounceConflict
  <2>2. ASSUME NEW a \in Pool, DefendConflict(n, s, a)
        PROVE  MaapPart'
    <3>1. orphans' = orphans /\ stopping' = [stopping EXCEPT ![n] = None]
      BY <2>2 DEF DefendConflict
    <3> QED
      BY <2>2, <3>1, ReserveKeeps DEF DefendConflict
  <2>3. CASE AnnounceIgnored(n, s) \/ DefendIgnored(n, s) \/ ProbeIgnored(n, s) \/ Lose(n, s)
    BY <1>1, <2>3 DEF AnnounceIgnored, DefendIgnored, ProbeIgnored, Ignore, Lose
  <2> QED
    BY <1>3, <2>1, <2>2, <2>3 DEF Receives
<1>4. ASSUME NEW p \in Peer, PeerAnnounces(p) \/ \E s \in Station : PeerReceives(p, s)
      PROVE  MaapPart'
  BY <1>1, <1>4 DEF PeerAnnounces, PeerReceives
<1> QED
  BY <1>2, <1>3, <1>4 DEF Protocol

\* A release of the address, when a handler begins.
LEMMA ReleaseKeeps ==
  ASSUME MaapPart, NEW n \in Node, Release(n)
  PROVE  MaapPart'
<1>1. CASE state[n] = "INITIAL"
  BY <1>1 DEF Release, MaapPart, MaapTypes, TimerOfState, Seen, Counted
<1>2. CASE state[n] # "INITIAL"
  BY <1>2, LooksKeeps DEF Release
<1> QED
  BY <1>1, <1>2

\* A restart draws an address like any other occasion.
LEMMA RestartKeeps ==
  ASSUME MaapPart, NEW n \in Node, Restart(n)
  PROVE  MaapPart'
<1>1. PICK a \in Pool : Reboot(n, a)
  BY DEF Restart
<1>2. orphans' \in [Node -> 0..MaxOrphans] /\ \A m \in Node \ {n} : orphans'[m] = orphans[m]
  BY <1>1, Bounds DEF Reboot, MaapPart, MaapTypes
<1> QED
  BY <1>1, <1>2, ReserveKeeps DEF Reboot

-----------------------------------------------------------------------------
(***************************************************************************)
(* The talker's task.                                                      *)
(***************************************************************************)
TaskTypes ==
    /\ listeners \in [Node -> 0..MaxListeners]
    /\ stop \in [Node -> BOOLEAN]
    /\ task \in [Node -> [TaskId -> {"none", "loop", "end"}]]
    /\ handle \in [Node -> 0..MaxTasks]

TaskPart == TaskTypes /\ ConnectedStreams

LEMMA TaskUnchanged ==
  ASSUME TaskPart, UNCHANGED <<listeners, stop, task, handle>>
  PROVE  TaskPart'
BY DEF TaskPart, TaskTypes, ConnectedStreams

\* A listener is added or leaves.
LEMMA ConnectKeeps ==
  ASSUME TaskPart, NEW n \in Node,
         ConnectFirst(n) \/ ConnectMore(n) \/ DisconnectSome(n) \/ DisconnectLast(n)
  PROVE  TaskPart'
<1> USE Bounds DEF TaskPart, TaskTypes
<1>1. CASE ConnectFirst(n)
  <2>1. PICK t \in TaskId : /\ task' = [task EXCEPT ![n][t] = "loop"]
                            /\ handle' = [handle EXCEPT ![n] = t]
    BY <1>1 DEF ConnectFirst
  <2>2. /\ stop' = [stop EXCEPT ![n] = FALSE] /\ MaxListeners >= 1
        /\ listeners' = [listeners EXCEPT ![n] = 1]
    BY <1>1 DEF ConnectFirst, CanConnect
  <2>3. t \in 0..MaxTasks
    BY DEF TaskId
  <2>4. TaskTypes'
    BY <2>1, <2>2, <2>3
  <2>5. task'[n][t] = "loop" /\ ~stop'[n]
    BY <2>1, <2>2
  <2>6. \A m \in Node \ {n} : task'[m] = task[m] /\ stop'[m] = stop[m] /\ listeners'[m] = listeners[m]
    BY <2>1, <2>2
  <2>7. ConnectedStreams'
    BY <2>5, <2>6 DEF ConnectedStreams
  <2> QED
    BY <2>4, <2>7
<1>2. CASE ConnectMore(n)
  <2>1. /\ listeners[n] > 0 /\ listeners[n] < MaxListeners
        /\ listeners' = [listeners EXCEPT ![n] = @ + 1]
        /\ UNCHANGED <<stop, task, handle>>
    BY <1>2 DEF ConnectMore, CanConnect
  <2>2. TaskTypes'
    BY <2>1
  <2>3. ConnectedStreams'
    BY <2>1 DEF ConnectedStreams
  <2> QED
    BY <2>2, <2>3
<1>3. CASE DisconnectSome(n)
  <2>1. /\ listeners[n] > 1
        /\ listeners' = [listeners EXCEPT ![n] = @ - 1]
        /\ UNCHANGED <<stop, task, handle>>
    BY <1>3 DEF DisconnectSome
  <2>2. TaskTypes'
    BY <2>1
  <2>3. ConnectedStreams'
    BY <2>1 DEF ConnectedStreams
  <2> QED
    BY <2>2, <2>3
<1>4. CASE DisconnectLast(n)
  <2>1. /\ listeners' = [listeners EXCEPT ![n] = 0]
        /\ stop' = [stop EXCEPT ![n] = TRUE]
        /\ UNCHANGED <<task, handle>>
    BY <1>4 DEF DisconnectLast
  <2>2. TaskTypes'
    BY <2>1
  <2>3. ConnectedStreams'
    BY <2>1 DEF ConnectedStreams
  <2> QED
    BY <2>2, <2>3
<1> QED
  BY <1>1, <1>2, <1>3, <1>4

LEMMA RestartStops ==
  ASSUME TaskPart, NEW n \in Node, Restart(n)
  PROVE  TaskPart'
<1> USE Bounds DEF TaskPart, TaskTypes
<1>1. /\ listeners' = [listeners EXCEPT ![n] = 0]
      /\ stop' = [stop EXCEPT ![n] = FALSE]
      /\ task' = [task EXCEPT ![n] = NoTasks]
      /\ handle' = [handle EXCEPT ![n] = 0]
  BY DEF Restart
<1>2. TaskTypes'
  BY <1>1 DEF NoTasks
<1>3. ConnectedStreams'
  BY <1>1 DEF ConnectedStreams
<1> QED
  BY <1>2, <1>3

\* The task looks at the flag, and ends: the flag of a stream with listeners is
\* clear, so that its task stays, and a task that ends was not the one counted.
LEMMA TaskKeeps ==
  ASSUME TaskPart, NEW n \in Node, NEW t \in TaskId, TalkerReads(n, t) \/ TalkerEnds(n, t)
  PROVE  TaskPart'
<1> USE DEF TaskPart, TaskTypes
<1>1. CASE TalkerReads(n, t)
  <2>1. /\ task' = [task EXCEPT ![n][t] = IF stop[n] THEN "end" ELSE "loop"]
        /\ UNCHANGED <<listeners, stop, handle>>
    BY <1>1 DEF TalkerReads
  <2>2. TaskTypes'
    BY <2>1
  <2>3. \A m \in Node, u \in TaskId : ~stop[m] /\ task[m][u] = "loop" => task'[m][u] = "loop"
    BY <2>1
  <2>4. ConnectedStreams'
    BY <2>1, <2>3 DEF ConnectedStreams
  <2> QED
    BY <2>2, <2>4
<1>2. CASE TalkerEnds(n, t) /\ handle[n] = t
  <2>1. /\ task[n][t] = "end" /\ task' = [task EXCEPT ![n][t] = "none"]
        /\ UNCHANGED <<listeners, stop, handle>>
    BY <1>2 DEF TalkerEnds
  <2>2. TaskTypes'
    BY <2>1
  <2>3. \A m \in Node, u \in TaskId : task[m][u] = "loop" => task'[m][u] = "loop"
    BY <2>1
  <2>4. ConnectedStreams'
    BY <2>1, <2>3 DEF ConnectedStreams
  <2> QED
    BY <2>2, <2>4
<1>3. CASE TalkerEnds(n, t) /\ handle[n] # t
  BY <1>3, RestartStops DEF TalkerEnds
<1> QED
  BY <1>1, <1>2, <1>3

-----------------------------------------------------------------------------
LEMMA Parts == IInv <=> MaapPart /\ TaskPart
BY DEF IInv, MaapInv, TypeOK, MaapPart, MaapTypes, TaskPart, TaskTypes

LEMMA Step ==
  ASSUME IInv, [TalkerNext]_vars
  PROVE  IInv'
<1>0. MaapPart /\ TaskPart
  BY Parts
<1> SUFFICES MaapPart' /\ TaskPart'
  BY DEF IInv, MaapInv, TypeOK, MaapPart, MaapTypes, TaskPart, TaskTypes
<1>1. ASSUME UNCHANGED maapVars PROVE MaapPart'
  BY <1>0, <1>1 DEF maapVars, MaapPart, MaapTypes, TimerOfState, Seen, Counted
<1>2. CASE MaapStep
  BY <1>0, <1>2, ProtocolKeeps, TaskUnchanged DEF MaapStep, talkerVars
<1>3. ASSUME NEW n \in Node, ConnectFirst(n) \/ ConnectMore(n) \/ DisconnectSome(n)
      PROVE  MaapPart' /\ TaskPart'
  <2>1. UNCHANGED maapVars
    BY <1>3 DEF ConnectFirst, ConnectMore, DisconnectSome
  <2> QED
    BY <1>0, <1>1, <1>3, <2>1, ConnectKeeps
<1>4. ASSUME NEW n \in Node, DisconnectLast(n)
      PROVE  MaapPart' /\ TaskPart'
  <2>1. Release(n)
    BY <1>4 DEF DisconnectLast
  <2> QED
    BY <1>0, <1>4, <2>1, ReleaseKeeps, ConnectKeeps
<1>5. ASSUME NEW n \in Node, Restart(n)
      PROVE  MaapPart' /\ TaskPart'
  BY <1>0, <1>5, RestartKeeps, RestartStops
<1>6. ASSUME NEW n \in Node, NEW t \in TaskId, TalkerReads(n, t) \/ TalkerEnds(n, t)
      PROVE  MaapPart' /\ TaskPart'
  <2>1. UNCHANGED maapVars \/ Restart(n)
    BY <1>6 DEF TalkerReads, TalkerEnds
  <2> QED
    BY <1>0, <1>1, <1>5, <1>6, <2>1, TaskKeeps
<1>7. CASE UNCHANGED vars
  BY <1>0, <1>1, <1>7, TaskUnchanged DEF vars, talkerVars
<1> QED
  BY <1>2, <1>3, <1>4, <1>5, <1>6, <1>7 DEF TalkerNext, PowerFails

THEOREM Invariance == Spec => []IInv
BY InitInv, Step, PTL DEF Spec

\* Types: no more tasks exist and no more listeners are counted than the code
\* has room for, and no timer is orphaned that the count has no room for.
THEOREM TypeCorrect == Spec => []TypeOK
<1>1. IInv => TypeOK
  BY DEF IInv, MaapInv
<1> QED
  BY <1>1, Invariance, PTL

\* TimerOfState: each state of maap.c has exactly its timer armed.
THEOREM TimersFollowState == Spec => []TimerOfState
<1>1. IInv => TimerOfState
  BY DEF IInv, MaapInv
<1> QED
  BY <1>1, Invariance, PTL

\* DefendsOnlyProbed: an address is held after MAAP_PROBE_RETRANSMITS + 1 probes
\* for it, never fewer, whatever restarted the acquisition.
THEOREM OnlyProbedDefended == Spec => []DefendsOnlyProbed
<1>1. IInv => DefendsOnlyProbed
  BY DEF IInv, MaapInv, Counted, DefendsOnlyProbed
<1> QED
  BY <1>1, Invariance, PTL

\* ConnectedStreams: a talker with listeners has a task in its loop and the flag
\* clear, whatever tasks are still ending (avtp_talker_start, _stop).
THEOREM ConnectedIsSent == Spec => []ConnectedStreams
<1>1. IInv => ConnectedStreams
  BY DEF IInv
<1> QED
  BY <1>1, Invariance, PTL

=============================================================================
