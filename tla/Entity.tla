------------------------------- MODULE Entity -------------------------------
(***************************************************************************)
(* The AVDECC side of the endpoint: the table of discovered entities       *)
(* (src/components/avb/adp.c), the commands of controllers (aecp.c), the   *)
(* name in flash (storage.c), and the start of the program                 *)
(* (src/main/ptp_main.c), which serves controllers before the flash store  *)
(* is open.                                                                *)
(*                                                                         *)
(* A controller has one command outstanding, repeats it when no answer     *)
(* comes, and may repeat it too early.  Frames between a controller and    *)
(* the entity may be lost; they keep their order.                          *)
(***************************************************************************)
EXTENDS Integers, Sequences, FiniteSets

CONSTANTS
    Others,         \* other entities, which run this code too
    Readers,        \* controllers that read descriptors
    Start,          \* where each of them starts; all can be reached from ENTITY 0
    Owners,         \* controllers that acquire and release the entity
    Namers,         \* controllers that give the entity a name
    Askers,         \* controllers that send any other command
    Rounds,         \* which of all these may be on the network together
    None,
    Slots,          \* MAX_ADP_ENTITIES
    IndexRange,     \* 2^32, the range of adp_available_index
    HasInput,       \* INPUT_CHANNELS > 0
    ExternalPorts,  \* external ports of each direction, 8 in the code (534)
    DefaultName,    \* CONFIG_ENTITY_NAME
    Wish,           \* the name each of the Namers wants, shorter than 64 octets
    Heap,           \* AUDIO_MAP responses that fit in the memory
    Larger,         \* AUDIO_MAP responses in the room of any other response
    MaxInFlight,    \* bound: frames of one controller under way
    MaxLosses,      \* bound: frames lost
    MaxEarly,       \* bound: commands repeated too early
    MaxFailures     \* bound: power failures

Controller == Readers \cup Owners \cup Namers \cup Askers

\* An entry of the table, and a command of one of the Owners.
Entries == [id : Others, info : 0..(IndexRange - 1)]
OwnerCommands == [op : {"ACQUIRE", "ACQUIRE_OTHER", "RELEASE"},
                  arg : BOOLEAN \cup {None}, id : {0, 1}]

ASSUME EntityAssumption ==
    /\ Rounds \subseteq SUBSET (Others \cup Controller)
    /\ None \notin Others \cup Controller \cup {DefaultName}
    /\ None \notin Entries /\ None \notin OwnerCommands
    /\ Owners \cap (Readers \cup Namers \cup Askers) = {}
    /\ Slots \in Nat \ {0} /\ IndexRange \in Nat \ {0}
    /\ HasInput \in BOOLEAN /\ ExternalPorts \in Nat
    /\ DOMAIN Wish = Namers /\ DOMAIN Start = Readers
    /\ Heap \in Nat /\ Larger \in Nat \ {0}
    /\ MaxInFlight \in Nat \ {0}
    /\ MaxLosses \in Nat /\ MaxEarly \in Nat /\ MaxFailures \in Nat

VARIABLES
    clients,    \* who is on the network, chosen once
    phase,      \* app_main: "starting" until init_nvs has run, then "up"
    table,      \* adp_entities: [id, info] or None where in_use is false
    heard,      \* history: what arrived last of each entity since the restart
    owner,      \* acquired_by_controller_id
    persistent, \* acquire_persistent
    transit,    \* avtp_max_transit_time: 0, or 1 when it was set
    stored,     \* the name in flash, None when there is none
    heap,       \* AUDIO_MAP responses that still fit
    index,      \* adp_available_index of the other entities
    command,    \* commands under way from each controller
    answer,     \* answers under way to each controller
    pending,    \* the command each controller waits for, or None
    todo,       \* descriptors each of the Readers has yet to read
    wish,       \* what each of the Namers does next: "set", "read" or "done"
    believes,   \* history: told since the last restart that it is the owner
    lost, early, failures   \* counters of the bounds

served == <<phase, table, heard, owner, persistent, transit, stored, heap>>
asked == <<pending, todo, wish, believes, early>>
vars == <<clients, served, index, command, answer, asked, lost, failures>>

-----------------------------------------------------------------------------
(* The descriptors.                                                        *)

D(type, i) == <<type, i>>
Several(type, first, count) == [k \in 1..count |-> D(type, first + k - 1)]
IfInput(descs) == IF HasInput THEN descs ELSE <<>>

\* The descriptors the response to a descriptor tells a controller of.
Promised(d) ==
    CASE d[1] = "ENTITY" -> <<D("CONFIGURATION", 0)>>
      [] d[1] = "CONFIGURATION" ->
            <<D("AUDIO_UNIT", 0), D("STREAM_INPUT", 0)>>
            \o IfInput(<<D("STREAM_OUTPUT", 0)>>)
            \o <<D("AVB_INTERFACE", 0)>> \o Several("CLOCK_SOURCE", 0, 2)
            \o <<D("LOCALE", 0), D("CLOCK_DOMAIN", 0)>>
      [] d[1] = "AUDIO_UNIT" ->
            <<D("STREAM_PORT_INPUT", 0)>> \o IfInput(<<D("STREAM_PORT_OUTPUT", 0)>>)
            \o Several("EXTERNAL_PORT_INPUT", 0, ExternalPorts)
            \o Several("EXTERNAL_PORT_OUTPUT", 0, ExternalPorts)
      [] d[1] = "STREAM_PORT_INPUT" -> <<D("AUDIO_CLUSTER", 0), D("AUDIO_MAP", 0)>>
      [] d[1] = "STREAM_PORT_OUTPUT" -> <<D("AUDIO_CLUSTER", 1), D("AUDIO_MAP", 1)>>
      [] d[1] = "LOCALE" -> <<D("STRINGS", 0)>>
      [] d[1] = "CLOCK_DOMAIN" -> Several("CLOCK_SOURCE", 0, 2)
      [] OTHER -> <<>>

\* The types whose response is built in memory from malloc and freed again.
Allocated == {"CONFIGURATION", "STREAM_INPUT", "STREAM_OUTPUT"}

\* The types whose response is on the stack of the handler.
Ports == {"STREAM_PORT_INPUT", "STREAM_PORT_OUTPUT"}
Channels == {"AUDIO_UNIT", "AUDIO_CLUSTER"}
Interfaces == {"AVB_INTERFACE", "LOCALE"}
Lists == {"CLOCK_DOMAIN", "STRINGS"}
Connectors == {"EXTERNAL_PORT_INPUT", "EXTERNAL_PORT_OUTPUT"}

\* Variant: types are missing from the dispatch.
MutStatic == Ports \cup Channels \cup Connectors \cup Interfaces \cup {"CLOCK_SOURCE"}

Static == Ports \cup Channels \cup Connectors \cup Interfaces \cup Lists \cup {"CLOCK_SOURCE"}

\* Only CLOCK_SOURCE looks whether the index exists.
ReadStatus(d) == IF d[1] = "CLOCK_SOURCE" /\ d[2] > 1 THEN "NO_SUCH_DESCRIPTOR" ELSE "SUCCESS"

\* The status of commands that are answered whatever the state.
StatusOf ==
    [REGISTER |-> "SUCCESS", GET_SAMPLING_RATE |-> "SUCCESS",
     GET_STREAM_FORMAT |-> "SUCCESS", SET_CLOCK_SOURCE |-> "SUCCESS",
     GET_CONFIGURATION |-> "SUCCESS", START_STREAMING |-> "SUCCESS",
     ENTITY_AVAILABLE |-> "SUCCESS", GET_STREAM_INFO |-> "NOT_IMPLEMENTED",
     GET_COUNTERS |-> "NOT_IMPLEMENTED", SET_MAX_TRANSIT_TIME |-> "NOT_IMPLEMENTED"]

-----------------------------------------------------------------------------
Init ==
    /\ clients \in Rounds
    /\ phase = "starting"
    /\ table = [i \in 1..Slots |-> None]
    /\ heard = [e \in Others |-> None]
    /\ owner = None /\ persistent = FALSE
    /\ transit = 0
    /\ stored = None
    /\ heap = Heap
    /\ index = [e \in Others |-> 0]
    /\ command = [c \in Controller |-> <<>>]
    /\ answer = [c \in Controller |-> <<>>]
    /\ pending = [c \in Controller |-> None]
    /\ todo = [c \in Readers |-> <<Start[c]>>]
    /\ wish = [c \in Namers |-> "set"]
    /\ believes = [c \in Owners |-> FALSE]
    /\ lost = 0 /\ early = 0 /\ failures = 0

\* app_main has come to init_nvs; the control task runs since before.
NvsReady ==
    /\ phase = "starting"
    /\ phase' = "up"
    /\ UNCHANGED <<clients, table, heard, owner, persistent, transit, stored, heap, index,
                   command, answer, asked, lost, failures>>

\* What a restart leaves: the name in flash, and answers that are under way.
Restarts ==
    /\ phase' = "starting"
    /\ table' = [i \in 1..Slots |-> None]
    /\ heard' = [e \in Others |-> None]
    /\ owner' = None /\ persistent' = FALSE
    /\ transit' = 0
    /\ heap' = Heap
    /\ command' = [c \in Controller |-> <<>>]
    /\ answer' = [c \in Controller |->
                    [i \in DOMAIN answer[c] |-> [answer[c][i] EXCEPT !.stale = TRUE]]]
    /\ believes' = [c \in Owners |-> FALSE]
    /\ UNCHANGED stored

PowerFails ==
    /\ failures < MaxFailures
    /\ failures' = failures + 1
    /\ Restarts
    /\ UNCHANGED <<clients, index, pending, todo, wish, early, lost>>

-----------------------------------------------------------------------------
(* ADP.                                                                    *)

FreeSlots == {i \in 1..Slots : table[i] = None}
UsedFor(e) == {i \in 1..Slots : table[i] # None /\ table[i].id = e}
First(slots) == CHOOSE i \in slots : \A j \in slots : i <= j

\* Variant: the first slot that is free or the entity's.
MutUpsert(e, info) ==
    LET slots == UsedFor(e) \cup FreeSlots
    IN  IF slots = {} THEN table
        ELSE [table EXCEPT ![First(slots)] = [id |-> e, info |-> info]]

\* adp_upsert_entity: the entry of the entity, else the first free one.
Upsert(e, info) ==
    LET slots == IF UsedFor(e) # {} THEN UsedFor(e) ELSE FreeSlots
    IN  IF slots = {} THEN table
        ELSE [table EXCEPT ![First(slots)] = [id |-> e, info |-> info]]

\* adp_remove_entity
Removed(e) ==
    IF UsedFor(e) = {} THEN table
    ELSE [table EXCEPT ![First(UsedFor(e))] = None]

\* send_adp_entity_available of entity e, whose frame arrives or does not.
Announces(e, arrives) ==
    /\ e \in Others \cap clients
    /\ index' = [index EXCEPT ![e] = (@ + 1) % IndexRange]
    /\ table' = IF arrives THEN Upsert(e, index[e]) ELSE table
    /\ heard' = IF arrives THEN [heard EXCEPT ![e] = index[e]] ELSE heard
    /\ UNCHANGED <<clients, phase, owner, persistent, transit, stored, heap,
                   command, answer, asked, lost, failures>>

\* ENTITY_DEPARTING, which this code receives but never sends.
Departs(e) ==
    /\ e \in Others \cap clients
    /\ table' = Removed(e)
    /\ heard' = [heard EXCEPT ![e] = None]
    /\ index' = [index EXCEPT ![e] = 0]
    /\ UNCHANGED <<clients, phase, owner, persistent, transit, stored, heap,
                   command, answer, asked, lost, failures>>

-----------------------------------------------------------------------------
(* AECP.  Command(c, op) is a command of c that has reached the handler.   *)

Command(c, op) == command[c] # <<>> /\ Head(command[c]).op = op
Arg(c) == Head(command[c]).arg

Consumes(c) == command' = [command EXCEPT ![c] = Tail(@)]

Answers(c, status, value) ==
    answer' = [answer EXCEPT ![c] = Append(@,
        [id |-> Head(command[c]).id, status |-> status, value |-> value, stale |-> FALSE])]

Unasked == UNCHANGED <<clients, index, asked, lost, failures>>

\* nvs_read_str and nvs_write_str fail until the flash store is open.
Written(name) == IF phase = "up" THEN name ELSE stored
Shown == IF phase = "up" /\ stored # None THEN stored ELSE DefaultName

ReadEntity(c) ==
    /\ Command(c, "READ") /\ Arg(c)[1] = "ENTITY"
    /\ Consumes(c) /\ Answers(c, "SUCCESS", Shown)
    /\ Unasked /\ UNCHANGED served

ReadStatic(c) ==
    /\ Command(c, "READ") /\ Arg(c)[1] \in Static
    /\ Consumes(c) /\ Answers(c, ReadStatus(Arg(c)), None)
    /\ Unasked /\ UNCHANGED served

\* No memory, no answer.  These responses are larger than that of AUDIO_MAP and
\* fail first.
ReadAllocated(c) ==
    /\ Command(c, "READ") /\ Arg(c)[1] \in Allocated
    /\ Consumes(c)
    /\ IF heap >= Larger THEN Answers(c, "SUCCESS", None) ELSE UNCHANGED answer
    /\ Unasked /\ UNCHANGED served

\* The response of AUDIO_MAP is never freed, and its malloc not looked at.
ReadAudioMap(c) ==
    /\ Command(c, "READ") /\ Arg(c)[1] = "AUDIO_MAP"
    /\ IF heap > 0
       THEN /\ Consumes(c) /\ Answers(c, "SUCCESS", None)
            /\ heap' = heap - 1
            /\ UNCHANGED <<phase, table, heard, owner, persistent, transit, stored, believes>>
       ELSE Restarts
    /\ UNCHANGED <<clients, index, pending, todo, wish, early, lost, failures>>

\* Types the dispatch does not know, and commands without a handler.
NotHandled(c) ==
    /\ \/ Command(c, "READ") /\ Arg(c)[1] \notin Static \cup Allocated \cup {"ENTITY", "AUDIO_MAP"}
       \/ Command(c, "STOP_STREAMING") \/ Command(c, "UNKNOWN")
    /\ Consumes(c)
    /\ Unasked /\ UNCHANGED <<served, answer>>

\* Variant: who owns the entity is not looked at.
MutAcquire(c) ==
    /\ Command(c, "ACQUIRE")
    /\ Consumes(c)
    /\ owner' = c /\ persistent' = Arg(c)
    /\ Answers(c, "SUCCESS", c)
    /\ Unasked /\ UNCHANGED <<phase, table, heard, transit, stored, heap>>

\* handle_acm_acquire_entity, no RELEASE flag: free, or owned by c already.
Acquire(c) ==
    /\ Command(c, "ACQUIRE")
    /\ Consumes(c)
    /\ IF owner \in {None, c}
       THEN /\ owner' = c /\ persistent' = Arg(c)
            /\ Answers(c, "SUCCESS", c)
       ELSE /\ Answers(c, "ENTITY_ACQUIRED", owner)
            /\ UNCHANGED <<owner, persistent>>
    /\ Unasked /\ UNCHANGED <<phase, table, heard, transit, stored, heap>>

Release(c) ==
    /\ Command(c, "RELEASE")
    /\ Consumes(c)
    /\ IF owner = c THEN owner' = None /\ persistent' = FALSE
                    ELSE UNCHANGED <<owner, persistent>>
    /\ IF owner \in {None, c} THEN Answers(c, "SUCCESS", None)
                              ELSE Answers(c, "ENTITY_ACQUIRED", owner)
    /\ Unasked /\ UNCHANGED <<phase, table, heard, transit, stored, heap>>

\* Any other descriptor than ENTITY 0.
AcquireOther(c) ==
    /\ Command(c, "ACQUIRE_OTHER")
    /\ Consumes(c) /\ Answers(c, "NOT_SUPPORTED", owner)
    /\ Unasked /\ UNCHANGED served

\* Variant: the namespace is opened to be read only.
MutSetName(c) ==
    /\ Command(c, "SET_NAME")
    /\ Consumes(c)
    /\ Unasked /\ UNCHANGED <<served, answer>>

\* Stored when the flash store is open, and never answered.
SetName(c) ==
    /\ Command(c, "SET_NAME")
    /\ Consumes(c)
    /\ stored' = Written(Arg(c))
    /\ Unasked /\ UNCHANGED <<phase, table, heard, owner, persistent, transit, heap, answer>>

Simple(c) ==
    /\ \E op \in DOMAIN StatusOf :
          /\ Command(c, op)
          /\ Answers(c, StatusOf[op], None)
    /\ transit' = IF Command(c, "SET_MAX_TRANSIT_TIME") THEN 1 ELSE transit
    /\ Consumes(c)
    /\ Unasked /\ UNCHANGED <<phase, table, heard, owner, persistent, stored, heap>>

Handles(c) ==
    \/ ReadEntity(c) \/ ReadStatic(c) \/ ReadAllocated(c) \/ ReadAudioMap(c)
    \/ NotHandled(c) \/ Simple(c) \/ SetName(c)
    \/ Acquire(c) \/ Release(c) \/ AcquireOther(c)

-----------------------------------------------------------------------------
(* The controllers.                                                        *)

UnderWay(c) == Len(command[c]) + Len(answer[c])

Sends(c, cmd) ==
    /\ c \in clients
    /\ UnderWay(c) < MaxInFlight
    /\ command' = [command EXCEPT ![c] = Append(@, cmd)]

NextId(c) == 1 - (IF answer[c] # <<>> THEN answer[c][Len(answer[c])].id
                  ELSE IF command[c] # <<>> THEN command[c][Len(command[c])].id ELSE 0)

\* A command that waits for its answer.
Requests(c, op, arg) ==
    LET cmd == [op |-> op, arg |-> arg, id |-> NextId(c)]
    IN  /\ pending[c] = None
        /\ Sends(c, cmd)
        /\ pending' = [pending EXCEPT ![c] = cmd]
        /\ UNCHANGED <<clients, served, index, answer, todo, early, lost, failures>>

Reads(c) ==
    /\ c \in Readers /\ todo[c] # <<>>
    /\ Requests(c, "READ", Head(todo[c]))
    /\ UNCHANGED <<wish, believes>>

Owns(c) ==
    /\ c \in Owners
    /\ \/ \E p \in BOOLEAN : Requests(c, "ACQUIRE", p) /\ UNCHANGED believes
       \/ Requests(c, "ACQUIRE_OTHER", None) /\ UNCHANGED believes
       \/ Requests(c, "RELEASE", None) /\ believes' = [believes EXCEPT ![c] = FALSE]
    /\ UNCHANGED wish

\* A SET_NAME is not answered: the name is read back.
Names(c) ==
    /\ c \in Namers
    /\ \/ /\ wish[c] = "set" /\ pending[c] = None
          /\ Sends(c, [op |-> "SET_NAME", arg |-> Wish[c], id |-> NextId(c)])
          /\ wish' = [wish EXCEPT ![c] = "read"]
          /\ UNCHANGED <<clients, served, index, answer, pending, todo, early, lost, failures>>
       \/ /\ wish[c] = "read"
          /\ Requests(c, "READ", D("ENTITY", 0))
          /\ UNCHANGED wish
    /\ UNCHANGED believes

Asks(c) ==
    /\ c \in Askers
    /\ \/ \E op \in DOMAIN StatusOf \cup {"STOP_STREAMING", "UNKNOWN"} : Requests(c, op, None)
       \/ \E d \in {D("CLOCK_SOURCE", 2), D("CONTROL", 0)} : Requests(c, "READ", d)
    /\ UNCHANGED <<wish, believes>>

Repeats(c) ==
    /\ pending[c] # None
    /\ Sends(c, pending[c])
    /\ early' = IF UnderWay(c) = 0 THEN early ELSE early + 1
    /\ early' <= MaxEarly
    /\ UNCHANGED <<clients, served, index, answer, pending, todo, wish, believes, lost, failures>>

GivesUp(c) ==
    /\ c \in Askers /\ pending[c] # None /\ UnderWay(c) = 0
    /\ pending' = [pending EXCEPT ![c] = None]
    /\ UNCHANGED <<clients, served, index, command, answer, todo, wish, believes, early,
                   lost, failures>>

\* The answer to the command outstanding settles it; others are dropped.
TakesAnswer(c) ==
    /\ answer[c] # <<>>
    /\ answer' = [answer EXCEPT ![c] = Tail(@)]
    /\ LET a == Head(answer[c])
           settles == pending[c] # None /\ a.id = pending[c].id
           ok == settles /\ a.status = "SUCCESS"
       IN  /\ pending' = IF settles THEN [pending EXCEPT ![c] = None] ELSE pending
           /\ todo' = IF ok /\ c \in Readers
                      THEN [todo EXCEPT ![c] = Tail(@) \o Promised(Head(@))] ELSE todo
           /\ wish' = IF ok /\ c \in Namers
                      THEN [wish EXCEPT ![c] = IF a.value = Wish[c] THEN "done" ELSE "set"]
                      ELSE wish
           /\ believes' = IF ok /\ c \in Owners /\ pending[c].op = "ACQUIRE" /\ ~a.stale
                          THEN [believes EXCEPT ![c] = TRUE] ELSE believes
    /\ UNCHANGED <<clients, served, index, command, early, lost, failures>>

Lose(c) ==
    /\ lost < MaxLosses
    /\ lost' = lost + 1
    /\ \/ /\ command[c] # <<>>
          /\ command' = [command EXCEPT ![c] = Tail(@)]
          /\ UNCHANGED answer
       \/ /\ answer[c] # <<>>
          /\ answer' = [answer EXCEPT ![c] = Tail(@)]
          /\ UNCHANGED command
    /\ UNCHANGED <<clients, served, index, asked, failures>>

Controls(c) ==
    \/ Reads(c) \/ Owns(c) \/ Names(c) \/ Asks(c)
    \/ Repeats(c) \/ GivesUp(c) \/ TakesAnswer(c)

Next ==
    \/ NvsReady \/ PowerFails
    \/ \E e \in Others : Departs(e) \/ \E arrives \in BOOLEAN : Announces(e, arrives)
    \/ \E c \in Controller : Handles(c) \/ Controls(c) \/ Lose(c)

Spec == Init /\ [][Next]_vars

\* The control task reads its socket, app_main goes on, and a controller goes
\* on, repeating what is not answered.
Fairness ==
    /\ WF_vars(NvsReady)
    /\ \A c \in Controller :
          /\ WF_vars(Handles(c))
          /\ WF_vars(TakesAnswer(c))
          /\ WF_vars(Repeats(c) /\ UnderWay(c) = 0)
          /\ WF_vars(Reads(c)) /\ WF_vars(Names(c))

FairSpec == Spec /\ Fairness

-----------------------------------------------------------------------------
(* Properties.                                                             *)

Dir == INSTANCE Directory WITH
    Entity <- Others, Info <- 0..(IndexRange - 1), Silent <- None, Room <- Slots,
    known <- {table[i] : i \in 1..Slots} \ {None}

\* The table of 32 slots shows of each entity in it what was last heard of it,
\* and shows it once, whatever holes departures have left in the table.
ImplementsDirectory == Dir!Spec

\* A controller that was told since the last restart that it has acquired the
\* entity, and has not asked to release it, is the owner: two never believe it
\* at a time, whatever commands were repeated and answers were late.
OneOwner == \A c \in Owners : believes[c] => owner = c

\* A controller that follows the counts and indexes in the descriptors reads
\* them all, unless what AUDIO_MAP never frees leaves too little memory for good.
Enumerates ==
    \A c \in Readers : c \in clients => <>(todo[c] = <<>>) \/ <>[](heap < Larger)

\* A name that a controller sets again until it reads it back is read back:
\* a SET_NAME in vain during the start of the program is repeated in time.
WishGranted == \A c \in Namers : c \in clients => <>(wish[c] = "done")

=============================================================================
