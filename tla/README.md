# Models and proofs of esp32-avb

TLA+ models of the AVB (Audio Video Bridging) endpoint in `src/`: stream
reservation, connection management, discovery and control, address acquisition and
the talker, media playback and time synchronisation on an ESP32. TLC checks the
models on small instances; TLAPS proves the invariants that matter most for every
value of the constants.

`PROJECT.json` lists, for every definition, the lines of source it stands for,
and for every hazard the properties that would notice it.

1. [Inventory](#1-inventory) · 2. [Modules](#2-modules-and-the-code)
· 3. [Runs](#3-runs-bounds-and-what-they-show) · 4. [Fairness](#4-fairness)
· 5. [Proofs](#5-proofs) · 6. [Divergences](#6-where-code-and-comments-disagree)
· 7. [Not modelled](#7-what-is-not-modelled) · 8. [Plan](#8-plan)

## 1. Inventory

### Tasks and what they share

| task | core, priority | runs | shares |
|---|---|---|---|
| control (`avtp_control_task`, avtp.c:439) | 0, 8 | the receive handlers of MRP, MSRP, MVRP, ACMP, ADP, AECP, MAAP, one frame at a time from `poll`; the ADP advertisement (519-530) | the state of all protocols |
| esp_timer | 0, 22 | callbacks of MRP (join, leave, LeaveAll, periodic) and MAAP (probe, announce) | the same state, with no lock: a callback preempts a handler |
| listener (`avtp_listener_stream_task`) | 1, 14 | reads stream frames, pushes them into the media queue | `media_queue_t`, `listener_stop` |
| consumer (`media_queue_consumer_task`) | 1, 16 | waits for the presentation time, writes to the codec | the queue, `running` |
| talker (`avtp_talker_stream_task`) | 1, 14 | reads the codec, sends frames | `talker_stop`, the handle of the task |
| PTP daemon (`ptp_daemon`, ptpd.c:2158) | 0, 10 | its own socket and loop | the PTP clock |

The protocols call one another: ACMP starts and stops the stream tasks, asks
MSRP to declare or withdraw Talker and Listener attributes, and tells MAAP that
the last listener left; MSRP and MVRP are applications of MRP, which calls them
back with join and leave indications; ACMP asks AECP who owns the entity; AECP
reads and writes the name in flash, which `app_main` opens after the control task
has started; the media queue reads the clock the PTP daemon sets.

### Components

**MRP (mrp.c).** State: per application two attribute lists; per attribute an
Applicant (12 states), a Registrar (3) and a leave timer; a LeaveAll machine; a
join timer, a LeaveAll timer, sometimes a periodic one. Operations: join and
leave requests (`mad_join_request`, `mad_leave_request`), received events, a
received LeaveAll, four timer callbacks, creation and deletion of attributes.
Hard: a one-shot join timer shared by all attributes is the only thing that
sends; timers are started and stopped from table cells; attributes are freed
while timers point at them; callbacks preempt handlers. Correct when: whoever
owes a message has the timer armed; what is leaving is timed; the application's
last word is what is declared; the peer's view is what was declared.

**MSRP, MVRP (msrp.c, mvrp.c).** State: the stream map, the attributes of MRP.
Operations: dispatch of the vectors of a packet, join and leave indications that
create streams and declare the listener's answer. Hard: leave indications that do
nothing, one LeaveAll machine called for the other. Correct when the stream map
agrees with the registrations.

**ACMP and acquisition (acmp.c, aecp.c).** State: the listener's record of its
connection (connected, pending, talker, stream, the saved request), the talker's
array of connected listeners, the owner of the entity. Operations:
CONNECT/DISCONNECT, RX and TX, commands and responses; ACQUIRE_ENTITY. Hard: a
connection takes effect at two stations with four messages; answers are late,
commands are repeated, frames are lost, the array is full. Correct when tasks and
reservations follow the records, a listener is listed once, and both ends agree.

**MAAP (maap.c).** State: INITIAL/PROBE/DEFEND, the address, the probe count, two
timers. Operations: acquisition, two callbacks, three frames, release. Hard:
conflicts in the middle of the probes, frames that cross, lost frames, a callback
between a handler's look at the state and the stop of the timer. Correct
when each state has its timer, what is defended was probed, and stations end up
with different ranges.

**Media queue and listener (media_queue.c, avtp.c).** State: a FreeRTOS queue, a
flag for each task, the expected sequence number. Operations: push, take, skip,
requeue at the front, write, start, stop. Hard: 8-bit sequence numbers and 32-bit
timestamps wrap; the consumer holds a packet outside the queue and spins at a
higher priority than the listener; start and stop come from another core. Correct
when packets are written in order and not early, losses are counted, and nothing
stays in the pipeline.

**PTP daemon (ptpd.c).** State: own and selected clock, whether the selection is
valid, the times of the last Sync, Announce and sends, the kept Sync. Operations:
Announce, Sync, Follow_Up, periodic sends, the check for silence. Hard: servers
fail, come back and are replaced; Sync and Follow_Up are separate frames; the
clock steps. Correct when the best clock serves and all follow it.

**ADP (adp.c).** State: a table of 32 entities, `available_index`. Operations:
available, departing, discover, the periodic advertisement. Hard: departures leave
holes in front of entries in use, the table fills with entities that never depart,
the index wraps. Correct when each entity is shown once and as it was last heard.

**AECP (aecp.c), storage and start-up (storage.c, main).** State: the owner of the
entity, the transit time, the name in flash, the memory left for responses.
Operations: READ_DESCRIPTOR of 17 types, ACQUIRE_ENTITY, SET_NAME and ten more.
Hard: commands are repeated and answered late, also across a restart; the store is
not open when the first commands arrive; one response is leaked. Correct when two
controllers never both believe they own the entity, all descriptors can be read,
and a name that was set is shown.

**Talker task (avtp.c).** State: a flag, a handle, the tasks. Operations: start,
stop, end. Hard: the task sees the flag only when the codec has delivered; start
does not wait for the task of the last stop; a task deletes the shared handle and
not itself. Correct when a stream with listeners is sent, and one without is not.

**Codec, audio, clock access**: drivers.

`PROJECT.json` lists the components with their files, and 40 hazards, each at the
line where it bites.

## 2. Modules and the code

| module | extends / instances | models |
|---|---|---|
| `MrpTables` | | the tables of mrp.c:604-1054 as operators: next Applicant state, next Registrar state and leave timer, the message of a state |
| `Declarations` | | abstract: a set of wanted and a set of announced attributes |
| `Mrp` | MrpTables; `D == INSTANCE Declarations` | one participant: attributes, timers, peer |
| `MrpProofs` | Mrp | proofs |
| `MrpPreemption` | MrpTables | one participant whose read and write of an Applicant are separate steps |
| `PreemptionProofs` | MrpPreemption | proofs |
| `Msrp` | MrpTables; `P(n) == INSTANCE Mrp` | two stations back to back that run msrp.c on mrp.c |
| `MsrpProofs` | Msrp | proofs |
| `Connections` | | abstract: requests, connections, answers |
| `Acmp` | `C == INSTANCE Connections` | entities with both roles, controllers |
| `AcmpProofs` | Acmp | proofs |
| `Maap` | | the protocol of stations running maap.c under preemption, and peers that hold a range |
| `Talker` | Maap | composes it with listeners that come and go, the talker task, restarts |
| `TalkerProofs` | Talker | proofs |
| `Directory` | | abstract: what was last heard of each entity, and which of it is shown |
| `Entity` | `Dir == INSTANCE Directory` | ADP table, AECP commands, flash store and start-up, controllers |
| `EntityProofs` | Entity | proofs |
| `MediaQueue` | | socket, listener, queue, consumer, control task |
| `MediaProofs` | MediaQueue | proofs |
| `Ptp` | | stations running ptpd.c |
| `PtpProofs` | Ptp | proofs |
| `MC*` | the module of the same name | constants for TLC |

Definitions that begin with `Mut` are variants of the definition after them, in
which the code is broken the way a plausible mistake would break it. They are
used by no specification: each shows that a property notices the mistake.

**Mrp.** The participant is one record and every function of mrp.c that changes it
is an operator from record to record (`Applicants`, `Registrars`, `GetOrCreate`,
`FreeCheck`, `Transmit`...), so that a handler which calls several of them is
their composition in the order of the code: `FindAndProcess` is
`mrp_get_or_create`, then the Registrar, the Applicant, the indication and the
check whether the attribute can be freed. `wanted`, `announced` and `known` are
history: what the application asked for last, what the peer was last told, what
the application was told of the peer. `orphans` are attributes freed while their
leave timer is armed, whose callback may run on a reused block.

**MrpPreemption.** A call of `mrp_applicant_state_machine` is three steps: read of
the state (608), the request of the opportunity (897), the write of the new state
(900). Between them the callbacks of the join and LeaveAll timers run to
completion, as they do in the esp_timer task.

**Msrp.** The peer of a participant is a station of the same kind instead of an
environment that says anything. A station is one record: the participant of `Mrp`,
the order of its attribute lists, the stream map, the domain list, and as history
the streams ACMP attached it to. Every step of mrp.c is the operator of `Mrp`, taken
through `P(n)`; `With` puts its result back, with what it created at the end of the
lists and what it freed removed. The order is state because `msrp_process_rx` walks
the Listener attributes while it processes them (`WalkListeners`), and an attribute
can be freed under the walk. The value of a received Listener is read together with
its event octet (`AsReceived`), as the code does (section 6). `mrp_transmit` sends
one vector in a frame, so a call of it sends several frames (`FramesOf`). The history
of `Mrp` is erased, since the peer it stands for is there; the timers of freed
attributes (`orphans`) are left to `Mrp`.

**Acmp.** One action per case of each handler: `ConnectRxCommand`,
`ConnectTxCommand`, `ConnectTxDuplicate` (the listener is listed already),
`ConnectTxUnauthorized`, `ConnectTxRefused`... MSRP is present by the sets of
attributes declared (`attached`, `advertised`), MAAP by whether the address is
held (`reserved`), the stream tasks by whether they were started. The controllers
are the environment. In `Spec` they send anything at any time; in `OrderlySpec`
they take turns about a listener and acquire nothing, which is what the refinement
of `Connections` needs.

**Maap.** `timers` is the set of timers armed whose handle the code still has. A
frame under way when a timer is started arrives before it expires (the timers run
500 ms and more); `due` counts those frames. A conflict or a release looks at the
state, and stops the timer of that state, in two steps (`Looks`, `StopTimer`),
between which the callback of the timer may run: the last probe then starts an
announce timer whose handle the handler overwrites (`orphans`), and the handler of
a conflict gives up (`Abandoned`). All else of a handler is one step, because a
callback before or after it cannot be told apart. `sent` is history: the probes
sent for the present address. The peers hold a fixed range, announce it and answer
probes with a defence.

**Talker.** Extends the protocol of `Maap` by what starts and ends it. The control
task writes the flag (`stop`) and the handle; `TalkerReads` is one turn of the
task's loop, which looks at the flag after the codec has delivered. A task that
ends deletes the task of the shared handle: when that is another one it returns
from its function, which aborts the program (`TalkerEnds`, then `Restart`).
Commands of a controller are further apart than frames under way, which is the
third conjunct of `CanConnect`. Which stations are plugged together is chosen in
the initial state.

**Entity.** One action per case of the AECP dispatch and per ADP message. A
descriptor is its type and index; its constant octets are left out, and what a
response makes a controller read next is `Promised`. Responses are told apart by
where they are built: on the stack, in memory that is freed (`Allocated`), in memory
that is not (AUDIO_MAP), whose exhaustion restarts the program. `phase` is where `app_main`
stands: until it is `up`, the store can neither be read nor written. A controller
has one command outstanding and tells answers apart by a sequence id of one bit,
repeats a command that is not answered, and may repeat one too early. `believes`
and `heard` are history. The table is a function with holes, and `Dir` is the map
from it to the set of what is shown. Who is on the network is chosen in the initial
state, since entities, readers, owners and namers share nothing but the memory and
the restarts.

**MediaQueue.** Core 1 is scheduled by priority: the listener acts only when
`ListenerRuns`, that is when the consumer blocks in `xQueueReceive` or in the codec.
The clock is in ticks of 100 us; `Playback` and `Delta` reproduce the arithmetic on
the 32-bit timestamp with a range of `TsRange`. The listener looks at its flag before
it waits for frames (`ListenerCheck`), and then not until the socket is empty. A stop
before its first turn makes it skip the loop, return and abort the program
(`ListenerReturns`), which starts again with an empty socket. A packet carries its
position and due time in full, of which the program sees the remainders only. `oldest`
is history: the first packet that a session may take, which is the one that waits in
the socket when the session starts.

**Ptp.** One iteration of the daemon's loop is one action: a frame is handled or
`poll` times out (`Poll`), then `ptp_periodic_send`, then the check of the source
(`AfterSend`). A tick is a poll interval. A clock is abstracted to its time base,
because the code distinguishes only offsets below and above the step threshold: a
Sync and its Follow_Up whose base is the local one adjust the rate, others step
(`Updated`). `gap` is history: the Sync that belongs to the next Follow_Up on the
link was lost.

## 3. Runs, bounds and what they show

| run | instance | shows |
|---|---|---|
| `mrp` | two attributes of two types, one requested and echoed, all events, all timers | timers are never lost, intent is kept, the peer's view is right; `Declarations` is implemented; LV and Active LeaveAll end |
| `mrp_registration` | same | **violated**: an attribute is freed while registered (section 6) |
| `mrp_preemption` | two attributes, callbacks between read and write | intent survives preemption, a quiet Applicant has been heard, and LeaveAll repairs what was missed |
| `mrp_preemption_race` | same | **violated**: an opportunity is consumed before the state is stored |
| `msrp` | a talker that echoes Listeners and a listener, one stream, 3 requests, 1 LeaveAll | the lists, the listener's declaration and the stream map follow what was asked for, and nothing is freed under a walk |
| `msrp_domains` | two stations with different domains, 2 LeaveAlls, 1 loss | a station falls quiet only when its peer knows its domain; both end up with both |
| `acmp` | 3 listeners, 1 talker with room for 2, 2 controllers (2 and 1 commands), 1 acquisition, lost frames | at both ends tasks, reservations and advertisements follow the records; no listener is listed twice |
| `acmp_orderly` | 2 listeners, 2 talkers, 2 controllers that take turns | both ends agree, answers come after the change they report, every command is answered |
| `talker` | two stations that draw against each other, or a talker with room for 2 listeners next to a peer; 3 addresses, 2 tasks, 1 restart, 1 loss | timers follow the state under preemption, only a probed address is defended, stations end up apart; a stream with listeners is sent, one without falls silent |
| `entity` | five rounds: 3 entities and a table of 2; 2 readers; 2 owners; 1 namer; 1 asker. Memory for 4 AUDIO_MAPs, any other response the room of 2, one external port each way, 1 loss, 1 early repetition, 1 power failure | `Directory` is implemented, one owner at a time, all descriptors can be read, a name set is shown |
| `media_queue` | queue of 2, socket of 2, 3 packets, 2 starts, 2 sequence numbers, timestamps of range 32 | order, presentation time, room to requeue, nothing of an earlier session's queue, detection of losses; packets drain, a stop after the listener's first turn completes |
| `ptp` | 3 stations, the best joins late, fails and returns, 1 loss, 2 sequence ids | among stations alike in priority and steps clients change to better clocks only, a clock is set from one Sync's own Follow_Up, all end on the best clock's base |

*Why these bounds are enough.*

* **MRP**: attributes interact through the join timer, the LeaveAll and the lists
  only, so two of different types show every interaction; nothing else is bounded.
* **MSRP**: three requests are an attachment, its end and an advertisement in any
  order; two LeaveAlls let either station ask again before the other has answered
  the first, and one loss takes any frame of them. A station sends when its peer
  has read what it sent before (`MaxInFlight` 0), which is no loss of order,
  because a frame takes far less time than the join timer; the two directions
  overlap freely.
* **ACMP**: three listeners for two places fill the table, and removal from the
  middle and the end occurs; two controllers produce commands that overlap and
  repeat; sequence ids are left out where no handler reads them. The stations that
  play no role are interchangeable (symmetry on the listeners).
* **Talker**: three addresses let a draw collide, be repeated and be free;
  listeners connect and leave for ever, so that releases fall into every state;
  two listeners make a connection that is not the first and a departure that is
  not the last; the second task is the one that is started before the first has
  ended. A restart of the talker gives a station that starts against one that
  defends. Two drawing stations and a talker are not put together in one network:
  a pair shows each conflict, and the peer stands for any station that defends.
* **Entity**: two slots for three entities fill the table and leave a hole before an
  entry in use; an index modulo 2 wraps. The readers start at the ENTITY descriptor
  and in the middle of the tree, so that their requests for memory overlap; after the
  two AUDIO_MAPs that one reader needs, the other responses still fit, and the reading
  of the second one makes first the larger responses fail and then the last AUDIO_MAP.
  Frames of one controller keep their order and two of them at most are under way
  (`MaxInFlight`), which is a command and its early repetition; one bit of sequence id
  is the least that tells them apart, and more bits can only tell more. One external
  port stands for eight descriptors that differ in the index alone.
* **Media queue**: the clock starts one tick before the timestamp wraps, and the run
  ends three ticks after it; with two sequence numbers a third packet wraps (a whole
  turn of them is not lost with three packets: there the theorem goes further); two
  starts give a restart with packets in every stage. Packets stop at `LastInput` so
  that the drain can be observed before the clock stops at `MaxNow`.
* **PTP**: with an interval of one tick and sequence ids modulo 2, a Sync that is
  lost is followed by another with the next id and then by one with the same id;
  one station that starts twice gives an election, a failure, and an election on a
  new time base. The loss is on one link because losses on the others are
  symmetric.

Deadlock is checked except where the system stops: controllers that have sent all
their commands (ACMP), stations that have nothing left to say when the requests are
used up (MSRP), a reader that has read all it wanted (entity), a clock at its bound
(media queue), and in PTP the stop of a network on which all stations are down.

The history and counter bounds (`MaxCommands`, `MaxAcquires`, `MaxLosses`,
`MaxRequests`, `MaxLeaveAlls`, `MaxInFlight`, `MaxOrphans`, `MaxTasks`, `MaxBoots`,
`MaxEarly`, `MaxFailures`, `MaxPackets`, `MaxSessions`, `MaxNow`, `LastInput`) are
constants that appear in guards, named as bounds where they are declared. Type
invariants are not run where a proof has them (`TypeOK` of Mrp, Acmp, Talker, Ptp).

## 4. Fairness

* **MRP** (`FairSpec`): an armed join or leave timer expires; esp_timer guarantees
  it, in a task of the highest priority used here. It is written as a condition
  on the guard, because a disarmed and re-armed timer starts again. The LeaveAll
  timer gets none: every LeaveAll of the peer restarts it.
* **MrpPreemption**: the control task finishes the call it is in, and both timers
  expire. `LeaveAllRepairs` is conditional on the control task coming to rest.
* **Msrp** (`FairSpec`): frames are read and an armed join timer, which nothing
  stops, expires. It is weak fairness with the guard of each action written in the
  place of `ENABLED`, which TLC evaluates much faster. Leave and LeaveAll timers get
  none: `DomainsSpread` must not depend on them.
* **ACMP** (`OrderlyFairSpec`): stations read their sockets. Nothing is assumed of
  what controllers ask for.
* **Talker**: timers expire, sockets are read, a handler that has looked goes on.
  Strong fairness on drawing a free address: `esp_random` does not avoid the free
  addresses for ever; and on a peer that announces, which is a station of its own.
  The codec delivers and the talker task is scheduled. Nothing is assumed of
  listeners, so both properties are conditional on what they do in the end.
* **Entity**: `app_main` gets to `init_nvs`, the control task reads its socket, a
  controller reads its answers, goes on with what it has to do, and repeats what is
  neither answered nor under way any more.
* **Media queue**: the clock advances, the scheduler runs whichever task is ready
  on core 1 by priority (weak fairness on listener and consumer, with the
  priority in the listener's guard), delays end.
* **PTP**: weak fairness of the whole of `Run`, not of each daemon. It suffices
  because a tick waits for every loop and frame that is due in it.

## 5. Proofs

The proofs hold for any number of attributes, entities, controllers or stations,
any table size and any bound. They assume the named `ASSUME` of each module and
nothing else; TLC evaluates the same assumptions in every run. The properties
without a theorem are named under *Model-checked only*.

**MrpProofs.** `Good` is inductive: type, *Requested* (an Applicant that owes a
message has the join timer armed), *Timed* (a Registrar in LV has its timer),
*LeaveAllRuns*, *Intended* (declared = wanted) and *Heeded* (the quiet states were
announced, the silent ones were not). The parts need one another: after the join
timer's callback nothing may be owed, which needs that every Applicant of a live
attribute moved on from the requesting states, which needs the type part's claim
that a freed attribute is in VO. The tables are dealt with once
(`TableClosed`, `RegistrarClosed`); each function of mrp.c has a lemma saying what
it does to each field; each action is a composition of these lemmas. From it:
`TypeCorrect`, `OpportunityRequested`, `LeavingTimed`, `LeaveAllStaysPending`,
`IntentAlwaysKept`, `PeerViewCorrect`, and
`ImplementsSafely`: every step is a step of `Declarations` or leaves both of its
variables alone.

**AcmpProofs.** `IInv` = *FramesOK* (frames under way name stations), *OwnerOK*,
*ListenerOK* (types and `ListenerFollows`), *TalkerOK* (types, the bound on the
table, `TalkerFollows` and `ListedOnce`). The two *Follows* make up `TasksFollow`
(`TasksFollowRecords`). `TalkerFollows` needs `ListedOnce`: the talker stops when
the table becomes empty, and removing one entry per disconnection empties it only
if nobody is in it twice. A lemma on `Without`, the shift loop of acmp.c, says
that it removes one entry and keeps the others in order and distinct.

The proofs about `OrderlySpec` rest on the turns the controllers take about a
listener. `OInv` says that of all frames under way at most one is about a given
listener (*Alone*), and that the kind of this frame and the link it is on determine
what the two ends have recorded (*Stage*): a CONNECT_RX command finds neither end
connected; a CONNECT_TX response finds the talker's entry made and the
listener's still to come; and so on for each of the eight frames of the two
exchanges. With no frame under way the ends agree (*AtRest*). From it:
`BothEndsAgree` (`Agreement`), `ReservesOwnStream` (`ReservesOnlyItsStream`),
`RequestsUnderWay` (while a controller waits, a frame about the listener it named is
under way: no request is forgotten at a station, whatever the order of the answers),
and `ImplementsConnections`, the refinement of `Connections` (`ManagesConnections`),
in which the step that completes at the second end is the abstract connection and
all others stutter. The four assume `RoomForAll`, that a talker's table holds
all listeners: a talker with a full table answers SUCCESS (`FullStatus`, acmp.h:32),
the listener connects, and the ends disagree. Without the hypothesis the theorems
are false, which is a finding (section 6). *Listed*, the set of the stations in a
table, is what the steps speak of: one lemma about `Without` turns the shift loop
into the removal of one element.

**PreemptionProofs.** A call holds a state it computed from what it read, and a
callback may have moved the Applicant on since. `IInv` says of the call that the
state about to be stored declares what the call is for (*CallIntended*), and that
a quiet state is stored only from AN, AA or QA, the three states the callbacks
permute among themselves while they tell the peer (*CallHeard*). *Heard* excepts
the attribute whose peer has just forgotten it (*Forgotten*). Preemption therefore
cannot corrupt what is declared; what it can lose is the opportunity to say it,
which the run `mrp_preemption_race` shows.

**MsrpProofs.** The layers of the program are the layers of the proof: what each
operator of `Mrp` that MSRP calls does to the fields of a participant (*Sound*);
what each handler of msrp.c does to a station (*Whole*); what a walk over the
Listeners and a received frame do; what a transmission says; the steps of two
stations. A lemma of a layer cites those of the layer below. Walks, lists and frames
are recursive functions, and a theorem of induction with an operator parameter is of no
use to the provers here; so each induction is over a *set* of naturals, by the well-founded
order `<` (*Induction*), and *Iterates* says that a recursive function takes the
values its equation gives. `Typed` is the type part. On top of it:

* *AllFollow*: the lists hold what is live, once each, in both stations; what has been
  attached is declared, and what is no longer attached is withdrawn or will be; the
  domain list is what is declared of Domains. From it `ListsAlwaysFollow` (`ListsFollow`)
  and `AttachmentAlwaysKept` (`AttachmentKept`).
* *TalkInv*: the stream is in the peer's map, or the frames that announce it are
  accounted for, each under way or lost: one for the state AN, two for the states
  after it. One loss leaves a second New on its way, so the quiet talker is known
  or about to be: `QuietTalkerIsKnown` (`QuietIsKnown`).
* *DomainInv* = *AllHeld* (a Domain that is registered is declared, and none is
  withdrawn), *Heeded* and *Remembered*. *Heeded* holds while no frame is lost: if a
  station is quiet about a Domain, then a LeaveAll is on its way to it, or a frame
  that joins the Domain is behind the last LeaveAll it sent, or its peer
  holds the registration and is not about to forget it. *Remembered* holds while no
  LeaveAll was sent: the peer holds the registration, or the frames are accounted for
  as in *TalkInv*, one for AN and AA and two for QA. From both,
  `QuietStationIsRegistered` (`QuietIsRegistered`).

The last two invariants carry their condition on `lost` and `leaveAlls` in their
definitions, because the code does not give more: LeaveAll and one lost answer leave a
Domain unregistered until the next LeaveAll.

**TalkerProofs.** `TimerOfState` is not inductive by itself: a handler between its
look and its stop must have seen the timer of the present state, or the probe
timer of a state that has gone on to DEFEND, once, with room to count the timer
nobody will stop (*Seen*). *Counted* says that the probes sent and those left make
up the number for one address, from which `DefendsOnlyProbed` follows.
`ConnectedStreams` is inductive and needs no more than types.

**EntityProofs.** `OneOwner` rests on what one bit of sequence id tells: of what
is under way between a controller and the entity, oldest first, once something is
of the outstanding command, the rest is too (*Later*, *Alike*, *Identified*). So
an older RELEASE never follows the ACQUIRE a controller waits for (*Keeps*), and a
fresh success that carries its id is true when it arrives (*Truthful*). The
refinement of `Directory` maps the table to the set of its entries; it needs that
no two slots hold one entity, and that a slot is free exactly when fewer entities
than slots are shown (*RoomIsFree*, by cardinality).

**MediaProofs.** `IInv` lays the stages out in a line: socket, queue, the packet held,
what was written. Each is in order and behind the next (*Line*, *Past*), so that a
packet put back in front of the queue is put back where it was. `RequeueRoom` is
inductive because the listener does not run while the consumer holds a packet.
`NotEarly` follows from *Wrap*: the unsigned difference of two times less than one
range apart is their difference; and from *NoneFarAhead*. *Sessions* says that a
session begins with the tasks gone and the queue empty. `NoSilentGap` needs that equal
remainders less than a full turn apart are equal (*SameRemainder*). It excepts a pair
of packets between which at least as many are missing as the sequence number has
values, which no receiver could tell; the length of the stream is not bounded.

**PtpProofs.** `IInv` = `TypeOK` and *SelectedBeatsOwn*: the selected clock beats the
station's own, whether or not the selection is valid. The second part is what makes
the first inductive, because the check for silence validates a selection made earlier.
`TypeCorrect` follows. `NeverLeavesForWorse` proves `LeavesOnlyForBetter` under the
hypothesis `OneOrder` that `is_better_clock` does not contradict the order of the
standard; `SameBuildsHaveOneOrder` proves the hypothesis of stations that announce the
same priority and steps. The run `ptp` is of such stations (`Alike`). With
`Clock <- Mixed` in `MCPtp.cfg`, where priority and identity disagree, TLC violates the
property: the hypothesis cannot be dropped, and the algorithm is not the one its
comment names (section 6).

**Model-checked only.** All liveness properties: `PendingEnds`, `LeaveAllRepairs`,
`DomainsSpread`, `Answered`, `SettlesApart`, `FallsSilent`, `Enumerates`,
`WishGranted`, `Drains`, `StopCompletes`, `SettlesOnBest`, and the liveness part
of `ImplementsDeclarations`: liveness under fairness and `ENABLED` are outside
what the prover does. And one action property, `PairsOfOneSync` of Ptp, because it
is no theorem of the module: it depends on how many ids there are in comparison with
what can go by unseen. With two losses and two ids TLC violates it: the Syncs of a
whole turn of ids are lost, the kept Sync has the id of the Follow_Up, and the clock is
set from a pair that spans the turn. The program has 65536 ids at one a second. Ids
also go by while a station follows another source, or none, and
does not look at Syncs, for as long as Announces are late or lost; a theorem would
need a hypothesis that puts the intervals, the losses, the failures and `SeqRange` in
one inequality, and the run is one instance that satisfies it.

## 6. Where code and comments disagree

Shown by a run that violates what the comment says:

* **mrp.c:166** frees an attribute whose Registrar is not empty, because
  `participant_type & FULL` is 0 (`FULL = 0`, mrp.h:123); the comment at
  mrp.c:1224 demands the state MT. A registration the application was told of
  disappears without a Leave. (`RegistrationHeld`)
* **mrp.c:897** requests the transmit opportunity before the state is stored; the
  callback consumes it for the old state. The comment at mrp.c:895 promises an
  opportunity. The LeaveAll timer repairs it, about 10 s later.
  (`TransmitOpportunity` in MrpPreemption)

Met while modelling, visible in the modules:

* acmp.c:110: connects on any CONNECT_TX_RESPONSE, pending or not: an answer that
  was under way during a disconnection undoes it at the listener.
* ptpd.c:493: joins the comparisons of `is_better_clock` with `||`, although the
  comment at 489 says "Implements Best Master Clock algorithm from IEEE-1588". Of two
  clocks each can be the better one, and a client leaves a source for a worse one:
  with `Clock <- Mixed` in `MCPtp.cfg` TLC violates `LeavesOnlyForBetter`. Harmless
  between builds that share priority1 and stepsremoved (section 5).
* msrp.c:245: on a board with input channels the Talker's event, which the Listener
  attribute processes, is indicated as a join and declares the Listener again, also
  after `msrp_deregister_attach_request` (comment at msrp.c:580). `AttachmentKept`
  leaves such listeners out; without that exception and with
  `Microphones = {talker, listener}` TLC violates it in six steps.
* msrp.c:257: a Domain heard as New is declared as new, and New is sent twice. Two
  stations back to back echo each other's New for ever: without a lost frame no
  state is reached in which all is sent and no join timer is armed.
* msrp.c:505: the value of a received Listener includes the octet of its event, so
  it never equals a value that was declared, and a New and a Leave of one Listener
  are different attributes. The walk at msrp.c:465 lets the Listeners process the
  Talker's events instead.
* msrp.c:286: leave indications are not acted upon.
* mvrp.c:82: reads one octet of the vector header, so that a frame without a
  LeaveAll is taken for an empty one.
* maap.c:282 and 308: the guards of RPROBE and RDEFEND are inverted, so outside
  INITIAL probes and defences are ignored. `SettlesApart` holds because announcements
  repair it.
* maap.c:123: a callback that preempts a conflict or a release overwrites the handle
  of the announce timer, which then announces the address for ever (`orphans`).
* acmp.c:218: a connection after a release streams to the address MAAP has given up,
  and does not acquire one.
* avtp.c:709: a talker task deletes the shared handle instead of itself. When a
  later task has it, the task that ends deletes the other one, returns, and aborts
  the program (`TalkerEnds`).
* avtp.c:394: a listener that is stopped before its first turn skips the loop that
  holds its `vTaskDelete` (429) and returns from its function, which aborts the
  program, although avtp.c:784 gives it "time to exit" (`ListenerReturns`,
  which TLC reaches in five steps: start, start of the consumer, stop, and the
  consumer goes first). `StopCompletes` leaves this stop out.
* media_queue.c:78: says that the consumer writes immediately and that synchronised
  playback is to come; it waits for the presentation time (`ConsumerRequeue`).
* avtp.c:398: the start empties the media queue but not the socket, although the
  comment at avtp.c:376 says that it drains stale packets. `OnlySocketIsStale` says
  how far it does.
* aecp.c:204: the memory of an AUDIO_MAP response is not freed and its malloc not
  looked at (`ReadAudioMap`). The comment at 226 maps both channels to cluster 0; the
  code at 232 maps channel i to cluster i.
* aecp.c:1347: calls SET_NAME unimplemented; it stores the name and never answers,
  so that a controller has to read it back.
* aecp.c: SET_MAX_TRANSIT_TIME stores the time and answers NOT_IMPLEMENTED;
  SET_CLOCK_SOURCE answers SUCCESS and sets nothing (1339).
* aecp.c:534: promises eight external ports of each direction; config.h:74-75
  says one and CONFIG_AUDIO_CHANNELS. Line 971 compares the type of one, in the
  order of the network, with a constant in the order of the host.
* aecp.c:1361: a name of 64 octets is stored with what follows it in the frame, is
  longer than what is read (64), and is not shown.
* acmp.h:32: TALKER_NO_BANDWIDTH has the value of SUCCESS, so that a listener connects
  to a talker whose table is full and has not listed it (`RoomForAll`, section 5).
* mrp.c:138: deleting an attribute asks for the deletion of the LeaveAll timer of
  the application, which fails because that timer is running (`LeaveAllPending`
  holds for this reason only).
* ptpd.c:1672: a Follow_Up is compared with the source of the kept Sync, not with
  the selected source; a stale one sets the clock once more to the old source.
* ptpd.c:1311 says that gPTP always sends delay requests; they wait for a
  stability below 0 ns (1418) and are never sent.

## 7. What is not modelled

* **Octets**: packing of vectors, lengths, padding, AEM descriptors, AM824 samples.
  Where a conversion matters (sequence numbers, timestamps, `u8` counts of MAAP,
  sequence ids of PTP) it is modelled by what it does.
* **Floating point**: the PI controller of ptpd.c. A clock within the threshold
  counts as following its source.
* **Drivers**: Ethernet, L2TAP, codec, I2S, I2C, flash. They appear by their
  contract: a socket queue, a call that blocks, a write that succeeds.
* **The attribute list under preemption** and **MVRP**: planned, see below.
* **Cores**: control task and esp_timer share core 0, so what is modelled there is
  preemption, not memory order. The flags between the cores are single words.
* **The entity's own advertisement**: nobody in `Entity` reads it. Its index is the one
  of the other entities, which run the same code.
* **The store**: its erasure when the version differs, and the missing `nvs_commit`
  (storage.c:32): a write counts as permanent. A store that cannot be opened at all
  (`app_main` returns, ptp_main.c:98-103) is left out too.
* **The timers of MAAP that are never deleted**: they cost memory, not behaviour.
* **Talker Failed and vectors of several values**: no station of this program sends
  them; a bridge between the stations of `Msrp` would.
* The NuttX branches of ptpd.c, which this build does not compile.

## 8. Plan

In the order of importance; the parts done are in section 2.

1. `AttributeList`: insertion and removal in steps against callbacks that walk it
   (types.h:51); the timers of freed attributes (mrp.c:138).
2. `Mvrp` as a second application of `Mrp`, with the header it reads. An abstract
   specification of reservations for `Msrp`.
3. Compositions: `Acmp` with `Talker` (the address a controller is told, acmp.c:218),
   `MediaQueue` with a clock that steps (`Ptp`; media_queue.c:102).
4. The packet builder and parser of stream frames, where lengths and counts meet.

A new run takes the place of an older one when the whole takes too long: `talker`
has taken the place of two runs of MAAP alone.

Theorems to add: of the modules above as they come, first that an `AttributeList`
under preemption is what the sequential one is at rest, which is what `MsrpProofs`
takes for granted of the lists; then `PairsOfOneSync` for two stations, under the
inequality that section 5 describes.

## 9. Running

    tlc -config MCMrp.cfg MCMrp
    tlapm MrpProofs.tla

Every module is checked alone; the runs take from a second to four minutes on two
cores, the proofs a few minutes each.
