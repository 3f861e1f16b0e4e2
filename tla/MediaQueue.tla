----------------------------- MODULE MediaQueue -----------------------------
(***************************************************************************)
(* The receive path of an audio stream: the frames the network leaves in   *)
(* the L2TAP socket, the listener task that checks their sequence numbers  *)
(* and pushes them (avtp.c), the FreeRTOS queue, and the consumer task     *)
(* that holds each packet until its presentation time and writes it to the *)
(* codec (media_queue.c).  The control task starts and stops both tasks.   *)
(*                                                                         *)
(* Listener (priority 14) and consumer (priority 16) are pinned to core 1: *)
(* the listener runs only while the consumer is blocked.  The control task *)
(* is on core 0 and interleaves freely.  A tick of the clock is 100 us.    *)
(*                                                                         *)
(* A packet carries its position in the stream, idx, and the time it is    *)
(* due; the program sees only idx % SeqRange and due % TsRange.            *)
(***************************************************************************)
EXTENDS Integers, Sequences

CONSTANTS Depth,        \* MEDIA_QUEUE_DEPTH
          RxDepth,      \* receive queue of the L2TAP socket
          SeqRange,     \* sequence numbers are u8
          TsRange,      \* AVTP timestamps are u32
          Transit,      \* ticks from sending to presentation
          EarlyBy,      \* a packet may be written this much early (1 us)
          LateAfter,    \* and is late after this much (100 us)
          FirstTick,    \* bound: the clock starts here
          LastInput,    \* bound: no packet and no start after this tick
          MaxNow,       \* bound: the clock stops here
          MaxPackets,   \* bound: packets the talker sends
          MaxSessions   \* bound: times the listener is started

ASSUME MediaAssumption ==
  /\ Depth \in Nat \ {0} /\ RxDepth \in Nat \ {0}
  /\ SeqRange \in Nat \ {0} /\ TsRange \in Nat \ {0}
  /\ Transit \in Nat /\ EarlyBy \in Nat /\ LateAfter \in Nat
  /\ FirstTick \in Nat /\ LastInput \in Nat /\ MaxNow \in Nat
  /\ MaxPackets \in Nat /\ MaxSessions \in Nat
  \* packets on time are due within half the range of a timestamp
  /\ Transit < TsRange \div 2 - 1

VARIABLES now,            \* the PTP clock
          sent,           \* packets the talker has sent
          rx,             \* frames waiting in the socket
          control,        \* where avtp_listener_start / _stop stand
          sessions,       \* starts so far
          listener_stop, running,          \* the two flags
          listener, seq_synced, seq_number, stats_seq_err,
          queue,
          consumer, entry,                 \* the consumer task and its entry
          \* history
          played,         \* packets written, with the time of each
          oldest,         \* the first packet this session may take
          offered         \* the last packet offered to the queue, and
                          \* stats_seq_err at that time

streamVars == <<now, sent, rx>>
controlVars == <<control, sessions, listener_stop, running, oldest>>
listenerVars == <<listener, seq_synced, seq_number, stats_seq_err, offered>>
consumerVars == <<consumer, entry, played>>
vars == <<streamVars, controlVars, listenerVars, queue, consumerVars>>

None == [idx |-> -1, due |-> 0, timed |-> FALSE]

(***************************************************************************)
(* Timestamps.  media_queue_entry_t.avtp_timestamp is 0 for a packet       *)
(* without a usable timestamp.                                             *)
(***************************************************************************)
Stamp(p) == IF p.timed THEN p.due % TsRange ELSE 0

\* The distance from the clock's own timestamp forward to ts.
Ahead(ts, t) == (ts - (t % TsRange)) % TsRange

\* Broken: the timestamp of the clock is compared without the wrap.
MutPlayback(ts, t) == t + (ts - (t % TsRange))

Playback(ts, t) ==
  LET delta == Ahead(ts, t)
  IN  IF delta < TsRange \div 2 - 1 THEN t + delta ELSE t - (TsRange - delta)

Delta(p) == Playback(Stamp(p), now) - now
Timed(p) == Stamp(p) # 0
Late(p) == Timed(p) /\ Delta(p) < -LateAfter
\* Broken: the difference stays unsigned, a late packet looks far ahead.
MutFuture(p) == Timed(p) /\ (Delta(p) > EarlyBy \/ Delta(p) < 0)
Future(p) == Timed(p) /\ Delta(p) > EarlyBy

(***************************************************************************)
(* Core 1.  The consumer outranks the listener, which runs only while the  *)
(* consumer is absent, waits on an empty queue or is blocked in a write.   *)
(***************************************************************************)
ConsumerReady ==
  \/ consumer \in {"check", "holding"}
  \/ consumer = "receive" /\ queue # <<>>

\* Broken: both tasks at the same priority, sharing the core by time slices.
MutListenerRuns == TRUE
ListenerRuns == ~ConsumerReady

Init ==
  /\ now = FirstTick /\ sent = 0 /\ rx = <<>>
  /\ control = "stopped" /\ sessions = 0
  /\ listener_stop = TRUE /\ running = FALSE
  /\ listener = "off" /\ seq_synced = FALSE /\ seq_number = 0
  /\ stats_seq_err = 0 /\ offered = [idx |-> -1, err |-> 0]
  /\ queue = <<>> /\ consumer = "off" /\ entry = None /\ played = <<>>
  /\ oldest = 0

(***************************************************************************)
(* The network and the clock.                                              *)
(***************************************************************************)
Tick ==
  /\ now < MaxNow
  /\ now' = now + 1
  /\ UNCHANGED <<sent, rx, controlVars, listenerVars, queue, consumerVars>>

\* A packet is lost on the way, or by a full socket, or left in the socket.
Send(timed) ==
  LET p == [idx |-> sent, due |-> now + Transit, timed |-> timed]
  IN  /\ sent < MaxPackets /\ now <= LastInput
      /\ sent' = sent + 1
      /\ \/ rx' = rx
         \/ Len(rx) < RxDepth /\ rx' = Append(rx, p)
      /\ UNCHANGED <<now, controlVars, listenerVars, queue, consumerVars>>

(***************************************************************************)
(* The control task: avtp_listener_start, avtp_listener_stop.              *)
(***************************************************************************)
StartListener ==
  /\ control = "stopped" /\ listener_stop
  /\ sessions < MaxSessions /\ now <= LastInput
  /\ control' = "starting" /\ sessions' = sessions + 1
  /\ listener_stop' = FALSE
  /\ listener' = "begin"
  /\ oldest' = IF rx = <<>> THEN sent ELSE Head(rx).idx
  /\ UNCHANGED <<streamVars, running, seq_synced, seq_number, stats_seq_err,
                 offered, queue, consumerVars>>

StartConsumer ==
  /\ control = "starting"
  /\ control' = "started"
  /\ running' = TRUE
  /\ consumer' = IF running THEN consumer ELSE "check"
  /\ UNCHANGED <<streamVars, sessions, listener_stop, oldest, listenerVars, queue,
                 entry, played>>

StopListener ==
  /\ control = "started"
  /\ control' = "stopping"
  /\ listener_stop' = TRUE
  /\ UNCHANGED <<streamVars, sessions, running, oldest, listenerVars, queue,
                 consumerVars>>

\* Broken: the flag of the consumer is left alone.
MutStopConsumer ==
  /\ control = "stopping" /\ running
  /\ UNCHANGED vars

\* The first delay is over, whether or not the listener has exited: a
\* consumer that spins on a packet of the future starves it.
StopConsumer ==
  /\ control = "stopping" /\ running
  /\ running' = FALSE
  /\ UNCHANGED <<streamVars, control, sessions, listener_stop, oldest, listenerVars,
                 queue, consumerVars>>

\* Broken: what the consumer left in the queue stays there.
MutStopDone ==
  /\ control = "stopping" /\ ~running
  /\ consumer = "off" /\ listener = "off"
  /\ control' = "stopped"
  /\ UNCHANGED <<streamVars, sessions, listener_stop, running, oldest,
                 listenerVars, queue, consumerVars>>

\* The second delay (50 ms) outlasts what both tasks need to see their flags
\* once the consumer has left the core: 10 ms and 5 ms of waiting.
StopDone ==
  /\ control = "stopping" /\ ~running
  /\ consumer = "off" /\ listener = "off"
  /\ control' = "stopped"
  /\ queue' = <<>>
  /\ UNCHANGED <<streamVars, sessions, listener_stop, running, oldest,
                 listenerVars, consumerVars>>

(***************************************************************************)
(* The listener task.                                                      *)
(***************************************************************************)
\* The first turn enters the outer loop, which is never gone round again.
ListenerBegin ==
  /\ ListenerRuns /\ listener = "begin" /\ ~listener_stop
  /\ listener' = "check"
  /\ queue' = <<>>
  /\ seq_synced' = FALSE /\ seq_number' = 0
  /\ offered' = [idx |-> -1, err |-> 0]
  /\ UNCHANGED <<streamVars, controlVars, stats_seq_err, consumerVars>>

\* A stop before the first turn: the task skips the loop, and vTaskDelete with
\* it, and returns, upon which FreeRTOS aborts and the program starts again.
ListenerReturns ==
  /\ ListenerRuns /\ listener = "begin" /\ listener_stop
  /\ rx' = <<>> /\ queue' = <<>>
  /\ control' = "stopped" /\ running' = FALSE
  /\ listener' = "off" /\ seq_synced' = FALSE /\ seq_number' = 0
  /\ stats_seq_err' = 0 /\ offered' = [idx |-> -1, err |-> 0]
  /\ consumer' = "off" /\ entry' = None
  /\ UNCHANGED <<now, sent, sessions, listener_stop, oldest, played>>

\* The flag is looked at before each wait for frames, and then not until the
\* socket is empty.
ListenerCheck ==
  /\ ListenerRuns /\ listener = "check" /\ ~listener_stop
  /\ listener' = "select"
  /\ UNCHANGED <<streamVars, controlVars, seq_synced, seq_number,
                 stats_seq_err, offered, queue, consumerVars>>

\* select: frames, or none within 5 ms.
ListenerSelect ==
  /\ ListenerRuns /\ listener = "select"
  /\ listener' = IF rx = <<>> THEN "check" ELSE "reading"
  /\ UNCHANGED <<streamVars, controlVars, seq_synced, seq_number,
                 stats_seq_err, offered, queue, consumerVars>>

InSequence(p) == ~seq_synced \/ p.idx % SeqRange = seq_number

\* media_queue_push: a full queue drops the packet.
Push(p) ==
  /\ queue' = IF Len(queue) < Depth THEN Append(queue, p) ELSE queue
  /\ offered' = [idx |-> p.idx, err |-> stats_seq_err]

\* Broken: any packet is taken, the sequence number only tracks it.
MutAccept(p) ==
  /\ seq_synced' = TRUE
  /\ seq_number' = (p.idx + 1) % SeqRange
  /\ stats_seq_err' = stats_seq_err
  /\ Push(p)

Accept(p) ==
  /\ InSequence(p)
  /\ seq_synced' = TRUE
  /\ seq_number' = (p.idx + 1) % SeqRange
  /\ stats_seq_err' = stats_seq_err
  /\ Push(p)

Reject(p) ==
  /\ ~InSequence(p)
  /\ seq_number' = (p.idx + 1) % SeqRange
  /\ stats_seq_err' = stats_seq_err + 1
  /\ UNCHANGED <<queue, seq_synced, offered>>

ListenerRead ==
  /\ ListenerRuns /\ listener = "reading" /\ rx # <<>>
  /\ rx' = Tail(rx)
  /\ Accept(Head(rx)) \/ Reject(Head(rx))
  /\ UNCHANGED <<now, sent, controlVars, listener, consumerVars>>

ListenerDrained ==
  /\ ListenerRuns /\ listener = "reading" /\ rx = <<>>
  /\ listener' = "check"
  /\ UNCHANGED <<streamVars, controlVars, seq_synced, seq_number,
                 stats_seq_err, offered, queue, consumerVars>>

ListenerExit ==
  /\ ListenerRuns /\ listener = "check" /\ listener_stop
  /\ listener' = "off"
  /\ UNCHANGED <<streamVars, controlVars, seq_synced, seq_number,
                 stats_seq_err, offered, queue, consumerVars>>

(***************************************************************************)
(* The consumer task.                                                      *)
(***************************************************************************)
ConsumerCheck ==
  /\ consumer = "check"
  /\ consumer' = IF running THEN "receive" ELSE "off"
  /\ UNCHANGED <<streamVars, controlVars, listenerVars, queue, entry, played>>

\* xQueueReceive: a packet, or nothing within 10 ms.
ConsumerTake ==
  /\ consumer = "receive" /\ queue # <<>>
  /\ entry' = Head(queue) /\ queue' = Tail(queue)
  /\ consumer' = "holding"
  /\ UNCHANGED <<streamVars, controlVars, listenerVars, played>>

ConsumerTimeout ==
  /\ consumer = "receive" /\ queue = <<>>
  /\ consumer' = "check"
  /\ UNCHANGED <<streamVars, controlVars, listenerVars, queue, entry, played>>

\* A late packet is skipped when another waits.
Skipped == Late(entry) /\ queue # <<>>

ConsumerSkip ==
  /\ consumer = "holding" /\ Skipped
  /\ entry' = None /\ consumer' = "check"
  /\ UNCHANGED <<streamVars, controlVars, listenerVars, queue, played>>

\* Broken: the packet goes to the back of the queue.
MutRequeue == queue' = IF Len(queue) < Depth THEN Append(queue, entry)
                                             ELSE queue
\* xQueueSendToFront: a full queue drops the packet.
Requeue == queue' = IF Len(queue) < Depth THEN <<entry>> \o queue ELSE queue

ConsumerRequeue ==
  /\ consumer = "holding" /\ ~Skipped /\ Future(entry)
  /\ Requeue
  /\ entry' = None /\ consumer' = "check"
  /\ UNCHANGED <<streamVars, controlVars, listenerVars, played>>

ConsumerWrite ==
  /\ consumer = "holding" /\ ~Skipped /\ ~Future(entry)
  /\ consumer' = "writing"
  /\ played' = Append(played, [packet |-> entry, at |-> now])
  /\ UNCHANGED <<streamVars, controlVars, listenerVars, queue, entry>>

\* The codec has taken the samples.
ConsumerWritten ==
  /\ consumer = "writing"
  /\ entry' = None /\ consumer' = "check"
  /\ UNCHANGED <<streamVars, controlVars, listenerVars, queue, played>>

Listen == \/ ListenerBegin \/ ListenerReturns \/ ListenerCheck \/ ListenerSelect
          \/ ListenerRead \/ ListenerDrained \/ ListenerExit
Consume == \/ ConsumerCheck \/ ConsumerTake \/ ConsumerTimeout
           \/ ConsumerSkip \/ ConsumerRequeue \/ ConsumerWrite
           \/ ConsumerWritten
Finish == StartConsumer \/ StopConsumer \/ StopDone

Next ==
  \/ Tick
  \/ \E timed \in BOOLEAN : Send(timed)
  \/ StartListener \/ StopListener \/ Finish
  \/ Listen
  \/ Consume

Spec == Init /\ [][Next]_vars

\* The clock advances, the scheduler runs the tasks and a delay ends.
FairSpec == /\ Spec
            /\ WF_vars(Tick) /\ WF_vars(Listen) /\ WF_vars(Consume)
            /\ WF_vars(Finish)
-----------------------------------------------------------------------------
(***************************************************************************)
(* Packets reach the codec in the order they were sent, each at most once: *)
(* putting a packet back never lets another overtake it, whatever the      *)
(* listener pushes meanwhile and however often the stream is restarted.    *)
(***************************************************************************)
InOrder ==
  \A i, j \in DOMAIN played :
    i < j => played[i].packet.idx < played[j].packet.idx

(***************************************************************************)
(* A packet with a timestamp is written no earlier than its presentation   *)
(* time, across the wrap of the timestamp.  The packet whose timestamp is  *)
(* exactly 0 is the exception: 0 stands for "no timestamp".                 *)
(***************************************************************************)
NotEarly ==
  \A i \in DOMAIN played :
    LET p == played[i].packet
    IN  Timed(p) => p.due <= played[i].at + EarlyBy

(***************************************************************************)
(* There is always room to put back the packet the consumer holds: the     *)
(* branch of media_queue.c that drops a packet it failed to requeue is     *)
(* dead, because the listener cannot push while the consumer decides.      *)
(***************************************************************************)
RequeueRoom == consumer = "holding" => Len(queue) < Depth

(***************************************************************************)
(* Nothing of an earlier session is played in a later one, except what     *)
(* still waits in the socket: only the media queue is emptied, and the     *)
(* consumer of the new session may run before its listener empties it.     *)
(***************************************************************************)
OnlySocketIsStale == entry # None => entry.idx >= oldest

(***************************************************************************)
(* A loss in the network or in the socket does not go unnoticed: packets   *)
(* offered to the queue one after the other in a session are consecutive   *)
(* in the stream, or a sequence error was counted between them, unless a   *)
(* whole turn of sequence numbers (SeqRange packets or more) is missing    *)
(* between the two.                                                        *)
(***************************************************************************)
NoSilentGap ==
  [][ \/ offered'.idx \in {offered.idx, -1} \/ offered.idx = -1
      \/ offered'.idx = offered.idx + 1
      \/ offered'.err > offered.err
      \/ offered'.idx > offered.idx + SeqRange ]_vars

InPipeline(k) == entry.idx = k \/ \E i \in DOMAIN queue : queue[i].idx = k

(***************************************************************************)
(* A packet in the queue does not stay: it is written, skipped or flushed. *)
(***************************************************************************)
Drains == \A k \in 0 .. MaxPackets - 1 : InPipeline(k) ~> ~InPipeline(k)

(***************************************************************************)
(* A stop of a listener that has had its first turn completes: both tasks  *)
(* see their flags, even when the consumer was starving the listener at    *)
(* the time.  A stop before the first turn is left out: it aborts the      *)
(* program (ListenerReturns).                                              *)
(***************************************************************************)
StopCompletes == control = "stopping" /\ listener # "begin" ~> control = "stopped"
=============================================================================
