------------------------------- MODULE Talker -------------------------------
(***************************************************************************)
(* The talker side of a stream: listeners that come and go (acmp.c), the   *)
(* task that reads the codec and sends the frames (avtp.c:689), and MAAP,  *)
(* whose address the stream has.                                           *)
(*                                                                         *)
(* The control task starts and stops the talker task with a flag; the task *)
(* runs on the other core and looks at the flag once per packet, when the  *)
(* codec has delivered its samples.                                        *)
(***************************************************************************)
EXTENDS Maap

CONSTANTS
    Talkers,        \* the stations ACMP connects listeners to
    MaxListeners,   \* MAX_CONNECTED_LISTENERS
    MaxTasks,       \* bound: talker tasks that exist at a time
    MaxBoots        \* bound: restarts, after which nobody connects any more

ASSUME TalkerAssumption ==
    /\ Talkers \subseteq Node
    /\ MaxListeners \in Nat \ {0} /\ MaxTasks \in Nat \ {0} /\ MaxBoots \in Nat

VARIABLES
    listeners,  \* talker_stream_info.connection_count
    stop,       \* talker_stop
    task,       \* where each talker task is: in its loop, at its end, or none
    handle,     \* talker_stream_task_handle
    boots       \* restarts of a station

talkerVars == <<listeners, stop, task, handle, boots>>
vars == <<maapVars, talkerVars>>

TaskId == 1..MaxTasks
Tasks(n) == {t \in TaskId : task[n][t] # "none"}
NoTasks == [t \in TaskId |-> "none"]

TalkerInit ==
    /\ Init
    /\ listeners = [n \in Node |-> 0]
    /\ stop = [n \in Node |-> FALSE]
    /\ task = [n \in Node |-> NoTasks]
    /\ handle = [n \in Node |-> 0]
    /\ boots = [n \in Node |-> 0]

MaapStep == Protocol /\ UNCHANGED talkerVars

-----------------------------------------------------------------------------
(* The control task.                                                       *)

\* A controller's commands are further apart than frames are under way: what
\* was sent to n before a connection has been read.
CanConnect(n) ==
    /\ n \in Talkers \cap present
    /\ stopping[n] = None
    /\ \A s \in Station : inbox[<<s, n>>] = <<>>
    /\ boots[n] < MaxBoots
    /\ listeners[n] < MaxListeners

\* Variant: the flag is left as the last stop set it.
MutConnectFirst(n) ==
    /\ CanConnect(n)
    /\ listeners[n] = 0
    /\ \E t \in TaskId \ Tasks(n) :
          /\ \A u \in TaskId \ Tasks(n) : t <= u
          /\ task' = [task EXCEPT ![n][t] = "loop"]
          /\ handle' = [handle EXCEPT ![n] = t]
    /\ listeners' = [listeners EXCEPT ![n] = 1]
    /\ UNCHANGED <<maapVars, stop, boots>>

\* handle_acmp_connect_tx_command, no listener yet: avtp_talker_start clears
\* the flag and creates a task, whether or not an earlier one has ended.
ConnectFirst(n) ==
    /\ CanConnect(n)
    /\ listeners[n] = 0
    /\ stop' = [stop EXCEPT ![n] = FALSE]
    /\ \E t \in TaskId \ Tasks(n) :
          /\ \A u \in TaskId \ Tasks(n) : t <= u
          /\ task' = [task EXCEPT ![n][t] = "loop"]
          /\ handle' = [handle EXCEPT ![n] = t]
    /\ listeners' = [listeners EXCEPT ![n] = 1]
    /\ UNCHANGED <<maapVars, boots>>

ConnectMore(n) ==
    /\ CanConnect(n)
    /\ listeners[n] > 0
    /\ listeners' = [listeners EXCEPT ![n] = @ + 1]
    /\ UNCHANGED <<maapVars, stop, task, handle, boots>>

\* disconnectTalker, other listeners remain.
DisconnectSome(n) ==
    /\ stopping[n] = None
    /\ listeners[n] > 1
    /\ listeners' = [listeners EXCEPT ![n] = @ - 1]
    /\ UNCHANGED <<maapVars, stop, task, handle, boots>>

\* Variant: the task is not told.
MutDisconnectLast(n) ==
    /\ stopping[n] = None
    /\ listeners[n] = 1
    /\ listeners' = [listeners EXCEPT ![n] = 0]
    /\ Release(n)
    /\ UNCHANGED <<stop, task, handle, boots>>

\* The last one leaves: avtp_talker_stop, maap_release.
DisconnectLast(n) ==
    /\ stopping[n] = None
    /\ listeners[n] = 1
    /\ listeners' = [listeners EXCEPT ![n] = 0]
    /\ stop' = [stop EXCEPT ![n] = TRUE]
    /\ Release(n)
    /\ UNCHANGED <<task, handle, boots>>

-----------------------------------------------------------------------------
(* The talker task, and restarts.                                          *)

\* The codec has delivered, a frame is sent, and the loop looks at the flag.
TalkerReads(n, t) ==
    /\ task[n][t] = "loop"
    /\ task' = [task EXCEPT ![n][t] = IF stop[n] THEN "end" ELSE "loop"]
    /\ UNCHANGED <<maapVars, listeners, stop, handle, boots>>

Restart(n) ==
    /\ \E a \in Pool : Reboot(n, a)
    /\ listeners' = [listeners EXCEPT ![n] = 0]
    /\ stop' = [stop EXCEPT ![n] = FALSE]
    /\ task' = [task EXCEPT ![n] = NoTasks]
    /\ handle' = [handle EXCEPT ![n] = 0]
    /\ boots' = [boots EXCEPT ![n] = IF @ < MaxBoots THEN @ + 1 ELSE @]

\* vTaskDelete of the shared handle.  A task that deletes another than itself,
\* or one that is gone, returns from its function, which aborts the program.
TalkerEnds(n, t) ==
    /\ task[n][t] = "end"
    /\ IF handle[n] = t
       THEN /\ task' = [task EXCEPT ![n][t] = "none"]
            /\ UNCHANGED <<maapVars, listeners, stop, handle, boots>>
       ELSE Restart(n)

PowerFails(n) ==
    /\ n \in Talkers \cap present
    /\ boots[n] < MaxBoots
    /\ Restart(n)

TalkerNext ==
    \/ MaapStep
    \/ \E n \in Node :
          \/ ConnectFirst(n) \/ ConnectMore(n)
          \/ DisconnectSome(n) \/ DisconnectLast(n)
          \/ PowerFails(n)
          \/ \E t \in TaskId : TalkerReads(n, t) \/ TalkerEnds(n, t)

Spec == TalkerInit /\ [][TalkerNext]_vars

-----------------------------------------------------------------------------
\* Armed timers expire, sockets are read, a handler goes on, peers announce,
\* and a station that has to draw again and again draws a free address some
\* time (esp_random).
MaapFairness ==
    /\ \A n \in Node :
          /\ WF_vars(ProbeTimer(n) /\ UNCHANGED talkerVars)
          /\ WF_vars(AnnounceTimer(n) /\ UNCHANGED talkerVars)
          /\ WF_vars(Stops(n) /\ UNCHANGED talkerVars)
          /\ SF_vars((\E a \in Free(n) : StopTimer(n, a)) /\ UNCHANGED talkerVars)
    /\ \A n \in Node, s \in Station : WF_vars(Receives(n, s) /\ UNCHANGED talkerVars)
    /\ \A p \in Peer :
          /\ SF_vars(PeerAnnounces(p) /\ UNCHANGED talkerVars)
          /\ \A s \in Station : WF_vars(PeerReceives(p, s) /\ UNCHANGED talkerVars)

\* The codec delivers, and tasks are scheduled.
Fairness ==
    /\ MaapFairness
    /\ \A n \in Node, t \in TaskId : WF_vars(TalkerReads(n, t)) /\ WF_vars(TalkerEnds(n, t))

FairSpec == Spec /\ Fairness

-----------------------------------------------------------------------------
(* Properties.                                                             *)

\* Every variable has its type; no more tasks exist than were counted for.
TypeOK ==
    /\ state \in [Node -> {"INITIAL", "PROBE", "DEFEND"}]
    /\ start \in [Node -> Pool]
    /\ probes \in [Node -> 0..Retransmits]
    /\ timers \in [Node -> SUBSET {"probe", "announce"}]
    /\ orphans \in [Node -> 0..MaxOrphans]
    /\ listeners \in [Node -> 0..MaxListeners]
    /\ stop \in [Node -> BOOLEAN]
    /\ task \in [Node -> [TaskId -> {"none", "loop", "end"}]]
    /\ handle \in [Node -> 0..MaxTasks]

\* Stations that hold overlapping ranges do not keep them: once listeners no
\* longer come and go, the periodic announcements drive all that do not
\* release theirs to ranges of their own, even when some are lost.
SettlesApart == <>[][UNCHANGED listeners]_vars => <>[]Apart

\* A stream with listeners is sent: whatever tasks of earlier connections are
\* still ending, the flag of the last start stands and a task is in its loop.
ConnectedStreams ==
    \A n \in Node : listeners[n] > 0 =>
        ~stop[n] /\ \E t \in TaskId : task[n][t] = "loop"

\* When the last listener has left and none comes back, no task is left that
\* sends frames to the address released.
FallsSilent ==
    \A n \in Node : <>[](listeners[n] = 0) => <>[](Tasks(n) = {})

=============================================================================
