----------------------------- MODULE AcmpProofs -----------------------------
(***************************************************************************)
(* Proofs about Acmp: for any sets of controllers and entities, any table  *)
(* size and any frames lost, the tasks and reservations of an entity       *)
(* follow its connection records, and no listener is listed twice; and,    *)
(* when the controllers take turns, both ends of a stream agree.           *)
(***************************************************************************)
EXTENDS Acmp, SequenceTheorems, FiniteSetTheorems, TLAPS

StreamKinds == {"ConnectRxCommand", "ConnectTxCommand", "ConnectTxResponse",
                "ConnectRxResponse", "DisconnectRxCommand",
                "DisconnectTxCommand", "DisconnectTxResponse",
                "DisconnectRxResponse"}

StreamFrames == [kind : StreamKinds, ctl : Controller, listener : Entity,
                 talker : Entity, seq : Nat, ok : BOOLEAN]

OwnerFrames == [kind : {"Acquire", "Release"}, ctl : Controller,
                listener : {None}, talker : {None}, seq : Nat, ok : BOOLEAN]

Frames == StreamFrames \cup OwnerFrames

(***************************************************************************)
(* The inductive invariant, one part per role.  ListedOnce is what makes   *)
(* one disconnection empty the table of its listener; the parts for the    *)
(* tasks hold because no handler changes a record without its task.        *)
(***************************************************************************)
FramesOK == /\ chan \in [Links -> Seq(Frames)]
            /\ issued \in [Controller -> Nat]

OwnerOK == owner \in [Entity -> Controller \cup {None}]

ListenerOK == /\ info \in [Entity -> Infos]
              /\ listening \in [Entity -> BOOLEAN]
              /\ attached \in [Entity -> SUBSET Entity]
              /\ ListenerFollows

TalkerOK == /\ table \in [Entity -> Seq(Entity)]
            /\ \A e \in Entity : Len(table[e]) <= MaxListeners
            /\ talking \in [Entity -> BOOLEAN]
            /\ advertised \in [Entity -> BOOLEAN]
            /\ reserved \in [Entity -> BOOLEAN]
            /\ TalkerFollows
            /\ ListedOnce

IInv == FramesOK /\ OwnerOK /\ ListenerOK /\ TalkerOK
-----------------------------------------------------------------------------
(***************************************************************************)
(* disconnectTalker: removing a listener that is listed once leaves the    *)
(* others, in their order and each once.                                   *)
(***************************************************************************)
LEMMA WithoutShift ==
  ASSUME NEW S, NEW s \in Seq(S), NEW x,
         \E i \in 1..Len(s) : s[i] = x,
         \A i, j \in 1..Len(s) : s[i] = s[j] => i = j
  PROVE  /\ Without(s, x) \in Seq(S)
         /\ Len(Without(s, x)) = Len(s) - 1
         /\ \A i, j \in 1..Len(Without(s, x)) :
              Without(s, x)[i] = Without(s, x)[j] => i = j
<1> DEFINE First(i) == s[i] = x /\ \A j \in 1..Len(s) : s[j] = x => i <= j
           k == CHOOSE i \in 1..Len(s) : First(i)
           w == [i \in 1..(Len(s) - 1) |-> IF i < k THEN s[i] ELSE s[i + 1]]
<1>1. Without(s, x) = w
  BY DEF Without
<1>2. Len(s) \in Nat
  OBVIOUS
<1>3. \E i \in 1..Len(s) : First(i)
  <2>1. PICK i \in 1..Len(s) : s[i] = x
    OBVIOUS
  <2>2. \A j \in 1..Len(s) : s[j] = x => i <= j
    BY <2>1, <1>2
  <2> QED
    BY <2>1, <2>2
<1>4. k \in 1..Len(s)
  BY <1>3
<1> HIDE DEF k
<1>5. \A i \in 1..(Len(s) - 1) : w[i] \in S
  BY <1>2, <1>4
<1>6. w \in Seq(S) /\ Len(w) = Len(s) - 1
  BY <1>2, <1>4, <1>5
<1>7. ASSUME NEW i \in 1..(Len(s) - 1), NEW j \in 1..(Len(s) - 1), w[i] = w[j]
      PROVE  i = j
  BY <1>2, <1>4, <1>7
<1> QED
  BY <1>1, <1>6, <1>7

(***************************************************************************)
(* Reading, sending and answering a frame keep the frames well formed.     *)
(***************************************************************************)
LEMMA ArrivedFrame ==
  ASSUME FramesOK, NEW s \in Station, NEW e \in Station, NEW kind,
         Arrived(s, e, kind)
  PROVE  Head(chan[<<s, e>>]) \in Frames /\ Head(chan[<<s, e>>]).kind = kind
BY DEF FramesOK, Arrived, Links

LEMMA SendFrame ==
  ASSUME FramesOK, NEW s \in Station, NEW e \in Station, NEW m \in Frames,
         Send(s, e, m)
  PROVE  chan' \in [Links -> Seq(Frames)]
BY DEF FramesOK, Send, Links

LEMMA ConsumeFrame ==
  ASSUME FramesOK, NEW s \in Station, NEW e \in Station, NEW kind,
         Arrived(s, e, kind), Consume(s, e)
  PROVE  chan' \in [Links -> Seq(Frames)]
BY DEF FramesOK, Arrived, Consume, Links

LEMMA AnswerFrame ==
  ASSUME FramesOK, NEW s \in Station, NEW e \in Station, NEW to \in Station,
         NEW m \in Frames, NEW kind, Arrived(s, e, kind),
         ConsumeAndSend(s, e, to, m)
  PROVE  chan' \in [Links -> Seq(Frames)]
<1> DEFINE c1 == [chan EXCEPT ![<<s, e>>] = Tail(@)]
<1>1. c1 \in [Links -> Seq(Frames)]
  BY DEF FramesOK, Arrived, Links
<1>2. chan' = [c1 EXCEPT ![<<e, to>>] = Append(@, m)]
  BY DEF ConsumeAndSend
<1>3. <<e, to>> \in Links
  BY DEF Links
<1> HIDE DEF c1
<1>4. Append(c1[<<e, to>>], m) \in Seq(Frames)
  BY <1>1, <1>3
<1> QED
  BY <1>1, <1>2, <1>4

LEMMA StreamFrame ==
  ASSUME NEW m \in Frames, m.kind \in StreamKinds
  PROVE  m \in StreamFrames
BY DEF Frames, OwnerFrames, StreamKinds

LEMMA AsFrame ==
  ASSUME NEW m \in StreamFrames, NEW kind \in StreamKinds
  PROVE  /\ As(m, kind) \in StreamFrames
         /\ \A b \in BOOLEAN : [As(m, kind) EXCEPT !.ok = b] \in StreamFrames
         /\ \A n \in Nat : [As(m, kind) EXCEPT !.seq = n] \in StreamFrames
BY DEF As, StreamFrames

-----------------------------------------------------------------------------
(* One lemma per part and action that changes it.                          *)

LEMMA InitInv == Init => IInv
<1> SUFFICES ASSUME Init PROVE IInv
  OBVIOUS
<1> USE AcmpAssumption
<1>1. FramesOK
  BY DEF Init, FramesOK
<1>2. OwnerOK
  BY DEF Init, OwnerOK
<1>3. ListenerOK
  BY DEF Init, ListenerOK, ListenerFollows, Infos, NoStream
<1>4. TalkerOK
  BY DEF Init, TalkerOK, TalkerFollows, ListedOnce
<1> QED
  BY <1>1, <1>2, <1>3, <1>4 DEF IInv

LEMMA TakesConnection ==
  ASSUME ListenerOK, NEW e \in Entity, NEW t \in Entity,
         info' = [info EXCEPT ![e] =
                    [@ EXCEPT !.talker = t, !.stream = t,
                              !.connected = TRUE, !.pending = FALSE]],
         listening' = [listening EXCEPT ![e] = TRUE],
         attached' = [attached EXCEPT ![e] = @ \cup {t}]
  PROVE  ListenerOK'
<1>1. \A x \in Entity : x # e => info'[x] = info[x]
  BY DEF ListenerOK
<1>2. info'[e] = [talker |-> t, stream |-> t, connected |-> TRUE,
                  pending |-> FALSE, seq |-> info[e].seq]
  BY DEF ListenerOK, Infos
<1>3. info' \in [Entity -> Infos]
  <2>1. info[e] \in Infos
    BY DEF ListenerOK
  <2>2. info'[e] \in Infos
    <3>1. /\ info[e].seq \in Nat /\ info[e].connected \in BOOLEAN
          /\ info[e].stream \in Entity \cup {None}
      BY <2>1 DEF Infos
    <3>2. [talker |-> t, stream |-> t, connected |-> TRUE,
           pending |-> FALSE, seq |-> info[e].seq] \in Infos
      BY <3>1 DEF Infos
    <3> QED
      BY <1>2, <3>2
  <2>3. info' = [info EXCEPT ![e] = info'[e]]
    BY DEF ListenerOK
  <2> QED
    BY <2>2, <2>3 DEF ListenerOK
<1> QED
  BY <1>1, <1>2, <1>3 DEF ListenerOK, ListenerFollows

LEMMA DropsConnection ==
  ASSUME ListenerOK, NEW e \in Entity, NEW n \in Nat,
         info' = [info EXCEPT ![e] = [NoStream EXCEPT !.seq = n]],
         listening' = [listening EXCEPT ![e] = FALSE],
         attached' = [attached EXCEPT ![e] = @ \ {info[e].stream}]
  PROVE  ListenerOK'
<1>1. info'[e] = [talker |-> None, stream |-> None, connected |-> FALSE,
                  pending |-> FALSE, seq |-> n]
  BY DEF ListenerOK, NoStream
<1>2. info' \in [Entity -> Infos]
  BY <1>1 DEF ListenerOK, Infos, NoStream
<1> QED
  BY <1>1, <1>2 DEF ListenerOK, ListenerFollows

LEMMA SavesRequest ==
  ASSUME ListenerOK, NEW e \in Entity, NEW t \in Entity, NEW n \in Nat,
         info' = [info EXCEPT ![e] =
                    [@ EXCEPT !.talker = t, !.pending = TRUE, !.seq = n]],
         UNCHANGED <<listening, attached>>
  PROVE  ListenerOK'
<1>1. \A x \in Entity : x # e => info'[x] = info[x]
  BY DEF ListenerOK
<1>2. info'[e] = [talker |-> t, stream |-> info[e].stream,
                  connected |-> info[e].connected, pending |-> TRUE,
                  seq |-> n]
  BY DEF ListenerOK, Infos
<1>3. info' \in [Entity -> Infos]
  <2>1. info[e] \in Infos
    BY DEF ListenerOK
  <2>2. info'[e] \in Infos
    <3>1. /\ info[e].seq \in Nat /\ info[e].connected \in BOOLEAN
          /\ info[e].stream \in Entity \cup {None}
      BY <2>1 DEF Infos
    <3>2. [talker |-> t, stream |-> info[e].stream,
           connected |-> info[e].connected, pending |-> TRUE,
           seq |-> n] \in Infos
      BY <3>1 DEF Infos
    <3> QED
      BY <1>2, <3>2
  <2>3. info' = [info EXCEPT ![e] = info'[e]]
    BY DEF ListenerOK
  <2> QED
    BY <2>2, <2>3 DEF ListenerOK
<1> QED
  BY <1>1, <1>2, <1>3 DEF ListenerOK, ListenerFollows

\* A command of a listener that is not listed: the first one starts the
\* talker, a full table stays as it is.
LEMMA ListsListener ==
  ASSUME TalkerOK, NEW e \in Entity, NEW l \in Entity, l \notin Listed(e),
         talking' = [talking EXCEPT ![e] = @ \/ table[e] = <<>>],
         advertised' = [advertised EXCEPT ![e] = @ \/ table[e] = <<>>],
         table' = IF Len(table[e]) < MaxListeners
                  THEN [table EXCEPT ![e] = Append(@, l)] ELSE table,
         UNCHANGED reserved
  PROVE  TalkerOK'
<1> USE AcmpAssumption
<1>1. CASE Len(table[e]) < MaxListeners
  <2>1. table' = [table EXCEPT ![e] = Append(@, l)]
    BY <1>1
  <2>2. /\ table'[e] = Append(table[e], l)
        /\ \A x \in Entity : x # e => table'[x] = table[x]
    BY <2>1 DEF TalkerOK
  <2>3. /\ table' \in [Entity -> Seq(Entity)]
        /\ Len(table'[e]) = Len(table[e]) + 1
        /\ table'[e] # <<>>
    <3>1. table[e] \in Seq(Entity)
      BY DEF TalkerOK
    <3>2. /\ Append(table[e], l) \in Seq(Entity)
          /\ Len(Append(table[e], l)) = Len(table[e]) + 1
          /\ Append(table[e], l) # <<>>
      BY <3>1, AppendProperties
    <3>3. table' \in [Entity -> Seq(Entity)]
      BY <2>1, <3>2 DEF TalkerOK
    <3> QED
      BY <2>2, <3>2, <3>3
  <2>4. \A x \in Entity : Len(table'[x]) <= MaxListeners
    <3>1. Len(table[e]) \in Nat
      BY DEF TalkerOK
    <3> QED
      BY <1>1, <2>2, <2>3, <3>1 DEF TalkerOK
  <2>5. ListedOnce'
    <3> SUFFICES ASSUME NEW x \in Entity, NEW i \in 1..Len(table'[x]),
                        NEW j \in 1..Len(table'[x]),
                        table'[x][i] = table'[x][j]
                 PROVE  i = j
      BY DEF ListedOnce
    <3>1. CASE x # e
      BY <3>1, <2>2 DEF TalkerOK, ListedOnce
    <3>2. CASE x = e
      <4>1. \A k \in 1..Len(table[e]) : table[e][k] # l
        BY DEF Listed
      <4>2. \A k \in 1..Len(table'[e]) :
              table'[e][k] = IF k = Len(table[e]) + 1 THEN l ELSE table[e][k]
        BY <2>2, <2>3 DEF TalkerOK
      <4>3. Len(table[e]) \in Nat
        BY DEF TalkerOK
      <4> QED
        BY <3>2, <4>1, <4>2, <4>3, <2>3 DEF TalkerOK, ListedOnce
    <3> QED
      BY <3>1, <3>2
  <2>6. TalkerFollows'
    BY <2>2, <2>3 DEF TalkerOK, TalkerFollows
  <2> QED
    BY <2>3, <2>4, <2>5, <2>6 DEF TalkerOK
<1>2. CASE ~(Len(table[e]) < MaxListeners)
  <2>1. table' = table
    BY <1>2
  <2>2. table[e] # <<>>
    BY <1>2
  <2> QED
    BY <2>1, <2>2 DEF TalkerOK, TalkerFollows, ListedOnce
<1> QED
  BY <1>1, <1>2

LEMMA RemovesListener ==
  ASSUME TalkerOK, NEW e \in Entity, NEW l \in Entity, l \in Listed(e),
         table' = [table EXCEPT ![e] = Without(@, l)],
         talking' = [talking EXCEPT ![e] = @ /\ ~(Len(table[e]) = 1)],
         reserved' = [reserved EXCEPT ![e] = @ /\ ~(Len(table[e]) = 1)],
         UNCHANGED advertised
  PROVE  TalkerOK'
<1> USE AcmpAssumption
<1> DEFINE w == Without(table[e], l)
<1>1. table[e] \in Seq(Entity) /\ Len(table[e]) \in Nat
  BY DEF TalkerOK
<1>2. \E i \in 1..Len(table[e]) : table[e][i] = l
  BY DEF Listed
<1>3. \A i, j \in 1..Len(table[e]) : table[e][i] = table[e][j] => i = j
  BY DEF TalkerOK, ListedOnce
<1>4. /\ w \in Seq(Entity)
      /\ Len(w) = Len(table[e]) - 1
      /\ \A i, j \in 1..Len(w) : w[i] = w[j] => i = j
  BY <1>1, <1>2, <1>3, WithoutShift
<1>5. /\ table'[e] = w
      /\ \A x \in Entity : x # e => table'[x] = table[x]
  BY DEF TalkerOK
<1> HIDE DEF w
<1>6. table' \in [Entity -> Seq(Entity)]
  BY <1>4, <1>5 DEF TalkerOK
<1>7. \A x \in Entity : Len(table'[x]) <= MaxListeners
  BY <1>1, <1>4, <1>5 DEF TalkerOK
<1>8. ListedOnce'
  <2> SUFFICES ASSUME NEW x \in Entity
               PROVE  \A i, j \in 1..Len(table'[x]) :
                        table'[x][i] = table'[x][j] => i = j
    BY DEF ListedOnce
  <2>1. CASE x = e
    BY <2>1, <1>4, <1>5
  <2>2. CASE x # e
    BY <2>2, <1>5 DEF TalkerOK, ListedOnce
  <2> QED
    BY <2>1, <2>2
<1>9. w = <<>> <=> Len(table[e]) = 1
  <2>1. w = <<>> <=> Len(w) = 0
    BY <1>4, EmptySeq
  <2> QED
    BY <1>1, <1>4, <2>1
<1>10. TalkerFollows'
  <2>1. table[e] # <<>>
    BY <1>2, <1>1
  <2>2. talking[e] = TRUE /\ advertised[e] = TRUE
    BY <2>1 DEF TalkerOK, TalkerFollows
  <2>3. talking'[e] <=> w # <<>>
    BY <1>9, <2>2 DEF TalkerOK
  <2> QED
    BY <1>5, <2>2, <2>3 DEF TalkerOK, TalkerFollows
<1> QED
  BY <1>6, <1>7, <1>8, <1>10 DEF TalkerOK

-----------------------------------------------------------------------------
(* What each handler does with the frame it reads.                         *)

LEMMA ArrivedStream ==
  ASSUME FramesOK, NEW s \in Station, NEW e \in Station, NEW kind \in StreamKinds,
         Arrived(s, e, kind)
  PROVE  Head(chan[<<s, e>>]) \in StreamFrames
BY ArrivedFrame, StreamFrame

\* A frame that is read and answered, whatever the records become.
LEMMA AnsweredOK ==
  ASSUME FramesOK, NEW s \in Station, NEW e \in Station, NEW to \in Station,
         NEW m \in StreamFrames, NEW kind, Arrived(s, e, kind),
         ConsumeAndSend(s, e, to, m), UNCHANGED clientVars
  PROVE  FramesOK'
<1>1. m \in Frames
  BY DEF Frames
<1>2. chan' \in [Links -> Seq(Frames)]
  BY <1>1, AnswerFrame
<1> QED
  BY <1>2 DEF FramesOK, clientVars

LEMMA ListenerKept ==
  ASSUME ListenerOK, UNCHANGED listenerVars PROVE ListenerOK'
BY DEF ListenerOK, ListenerFollows, listenerVars

LEMMA TalkerKept ==
  ASSUME TalkerOK, UNCHANGED talkerVars PROVE TalkerOK'
BY DEF TalkerOK, TalkerFollows, ListedOnce, talkerVars

LEMMA OwnerKept ==
  ASSUME OwnerOK, UNCHANGED owner PROVE OwnerOK'
BY DEF OwnerOK

\* Every action that only moves frames.
LEMMA RecordsKept ==
  ASSUME IInv, UNCHANGED <<owner, listenerVars, talkerVars, issued>>,
         chan' \in [Links -> Seq(Frames)]
  PROVE  IInv'
<1>1. FramesOK'
  BY DEF IInv, FramesOK
<1> QED
  BY <1>1, ListenerKept, TalkerKept, OwnerKept DEF IInv

LEMMA CommandInv ==
  ASSUME IInv, NEW c \in Controller, NEW p \in Entity \X Entity, NEW kind,
         NEW wire \in StreamKinds, Command(c, kind, wire, p)
  PROVE  IInv'
<1>1. c \in Station /\ p[1] \in Station
  BY DEF Station
<1>2. issued[c] \in Nat
  BY DEF IInv, FramesOK
<1>3. Frame(wire, c, p, issued[c] + 1, TRUE) \in Frames
  BY <1>2 DEF Frame, Frames, StreamFrames
<1>4. chan' \in [Links -> Seq(Frames)]
  BY <1>1, <1>3, SendFrame DEF Command, IInv
<1>5. issued' \in [Controller -> Nat]
  BY DEF Command, IInv, FramesOK
<1> QED
  BY <1>4, <1>5, ListenerKept, TalkerKept, OwnerKept
     DEF Command, IInv, FramesOK

LEMMA SendAcquireInv ==
  ASSUME IInv, NEW c \in Controller, NEW e \in Entity,
         NEW kind \in {"Acquire", "Release"}, SendAcquire(c, e, kind)
  PROVE  IInv'
<1>1. c \in Station /\ e \in Station
  BY DEF Station
<1>2. Frame(kind, c, <<None, None>>, 0, TRUE) \in Frames
  BY DEF Frame, Frames, OwnerFrames
<1>3. chan' \in [Links -> Seq(Frames)]
  BY <1>1, <1>2, SendFrame DEF SendAcquire, IInv
<1> QED
  BY <1>3, RecordsKept DEF SendAcquire

LEMMA ControllerInv ==
  ASSUME IInv, NEW c \in Controller, NEW s \in Station,
         ControllerReceives(c, s)
  PROVE  IInv'
<1>1. c \in Station
  BY DEF Station
<1>2. ASSUME NEW wire, NEW kind, Response(c, s, wire, kind)
      PROVE  IInv'
  <2>1. chan' \in [Links -> Seq(Frames)]
    BY <1>1, <1>2, ConsumeFrame DEF Response, IInv
  <2> QED
    BY <1>2, <2>1, RecordsKept DEF Response
<1> QED
  BY <1>2 DEF ControllerReceives

LEMMA LoseInv ==
  ASSUME IInv, NEW k \in Links, Lose(k) PROVE IInv'
<1>1. chan' \in [Links -> Seq(Frames)]
  BY DEF Lose, IInv, FramesOK
<1> QED
  BY <1>1, RecordsKept DEF Lose, clientVars

LEMMA EntityInv ==
  ASSUME IInv, NEW e \in Entity, NEW s \in Station, EntityReceives(e, s)
  PROVE  IInv'
<1> DEFINE m == Head(chan[<<s, e>>])
<1>0. e \in Station /\ FramesOK /\ OwnerOK /\ ListenerOK /\ TalkerOK
  BY DEF Station, IInv
<1>1. ASSUME Acquire(e, s) \/ Release(e, s)
      PROVE  IInv'
  <2>1. PICK kind \in {"Acquire", "Release"} :
          Arrived(s, e, kind) /\ Consume(s, e)
    BY <1>1 DEF Acquire, Release
  <2>2. chan' \in [Links -> Seq(Frames)]
    BY <1>0, <2>1, ConsumeFrame
  <2>3. m \in Frames
    BY <1>0, <2>1, ArrivedFrame
  <2>4. m.ctl \in Controller
    BY <2>3 DEF Frames, StreamFrames, OwnerFrames
  <2>5. OwnerOK'
    BY <1>0, <1>1, <2>4 DEF Acquire, Release, OwnerOK
  <2>6. ListenerOK' /\ TalkerOK' /\ issued' = issued
    BY <1>0, <1>1, ListenerKept, TalkerKept DEF Acquire, Release, clientVars
  <2> QED
    BY <1>0, <2>2, <2>5, <2>6 DEF IInv, FramesOK
<1>2. ASSUME \/ ConnectTxRefused(e, s) \/ ConnectTxDuplicate(e, s)
             \/ DisconnectTxUnknown(e, s)
      PROVE  IInv'
  <2>1. PICK kind \in StreamKinds : Arrived(s, e, kind) /\ Consume(s, e)
    BY <1>2 DEF ConnectTxRefused, ConnectTxDuplicate, DisconnectTxUnknown,
                StreamKinds
  <2>2. chan' \in [Links -> Seq(Frames)]
    BY <1>0, <2>1, ConsumeFrame
  <2> QED
    BY <1>2, <2>2, RecordsKept
       DEF ConnectTxRefused, ConnectTxDuplicate, DisconnectTxUnknown,
           clientVars
<1>3. ASSUME NEW kind \in StreamKinds, Arrived(s, e, kind)
      PROVE  /\ m \in StreamFrames
             /\ m.ctl \in Station /\ m.listener \in Station
             /\ m.talker \in Station
             /\ m.listener \in Entity /\ m.talker \in Entity
             /\ m.seq \in Nat
  <2>1. m \in StreamFrames
    BY <1>0, <1>3, ArrivedStream
  <2> QED
    BY <2>1 DEF StreamFrames, Station
<1>4. ASSUME ConnectRxCommand(e, s)
      PROVE  IInv'
  <2>1. Arrived(s, e, "ConnectRxCommand") /\ "ConnectRxCommand" \in StreamKinds
    BY <1>4 DEF ConnectRxCommand, StreamKinds
  <2>2. [As(m, "ConnectTxCommand") EXCEPT !.ok = Authorized(e, m.ctl)]
          \in StreamFrames
    <3>1. Authorized(e, m.ctl) \in BOOLEAN
      BY DEF Authorized
    <3>2. "ConnectTxCommand" \in StreamKinds
      BY DEF StreamKinds
    <3> QED
      BY <1>3, <2>1, <3>1, <3>2, AsFrame
  <2>3. FramesOK'
    BY <1>0, <1>3, <1>4, <2>1, <2>2, AnsweredOK DEF ConnectRxCommand
  <2>4. ListenerOK'
    <3>1. CASE Authorized(e, m.ctl)
      BY <1>0, <1>3, <1>4, <2>1, <3>1, SavesRequest DEF ConnectRxCommand
    <3>2. CASE ~Authorized(e, m.ctl)
      BY <1>0, <1>4, <3>2, ListenerKept DEF ConnectRxCommand, listenerVars
    <3> QED
      BY <3>1, <3>2
  <2> QED
    BY <1>0, <1>4, <2>3, <2>4, TalkerKept, OwnerKept DEF ConnectRxCommand, IInv
<1>5. ASSUME ConnectTxResponse(e, s)
      PROVE  IInv'
  <2>1. /\ Arrived(s, e, "ConnectTxResponse")
        /\ "ConnectTxResponse" \in StreamKinds
    BY <1>5 DEF ConnectTxResponse, StreamKinds
  <2>2. info[e].seq \in Nat
    BY <1>0 DEF ListenerOK, Infos
  <2>3. [As(m, "ConnectRxResponse") EXCEPT !.seq = info[e].seq]
          \in StreamFrames
    BY <1>3, <2>1, <2>2, AsFrame DEF StreamKinds
  <2>4. FramesOK'
    BY <1>0, <1>3, <1>5, <2>1, <2>3, AnsweredOK DEF ConnectTxResponse
  <2>5. ListenerOK'
    BY <1>0, <1>3, <1>5, <2>1, TakesConnection DEF ConnectTxResponse
  <2> QED
    BY <1>0, <1>5, <2>4, <2>5, TalkerKept, OwnerKept DEF ConnectTxResponse, IInv
<1>6. ASSUME DisconnectRxCommand(e, s)
      PROVE  IInv'
  <2>1. /\ Arrived(s, e, "DisconnectRxCommand")
        /\ "DisconnectRxCommand" \in StreamKinds
    BY <1>6 DEF DisconnectRxCommand, StreamKinds
  <2>2. As(m, "DisconnectTxCommand") \in StreamFrames
    BY <1>3, <2>1, AsFrame DEF StreamKinds
  <2>3. FramesOK'
    BY <1>0, <1>3, <1>6, <2>1, <2>2, AnsweredOK DEF DisconnectRxCommand
  <2>4. ListenerOK'
    BY <1>0, <1>3, <1>6, <2>1, DropsConnection DEF DisconnectRxCommand
  <2> QED
    BY <1>0, <1>6, <2>3, <2>4, TalkerKept, OwnerKept
       DEF DisconnectRxCommand, IInv
<1>7. ASSUME DisconnectTxResponse(e, s)
      PROVE  IInv'
  <2>1. /\ Arrived(s, e, "DisconnectTxResponse")
        /\ "DisconnectTxResponse" \in StreamKinds
    BY <1>7 DEF DisconnectTxResponse, StreamKinds
  <2>2. info[e].seq \in Nat
    BY <1>0 DEF ListenerOK, Infos
  <2>3. [As(m, "DisconnectRxResponse") EXCEPT !.seq = info[e].seq]
          \in StreamFrames
    BY <1>3, <2>1, <2>2, AsFrame DEF StreamKinds
  <2>4. FramesOK'
    BY <1>0, <1>3, <1>7, <2>1, <2>3, AnsweredOK DEF DisconnectTxResponse
  <2> QED
    BY <1>0, <1>7, <2>4, ListenerKept, TalkerKept, OwnerKept
       DEF DisconnectTxResponse, IInv
<1>8. ASSUME ConnectTxUnauthorized(e, s)
      PROVE  IInv'
  <2>1. /\ Arrived(s, e, "ConnectTxCommand")
        /\ "ConnectTxCommand" \in StreamKinds
    BY <1>8 DEF ConnectTxUnauthorized, StreamKinds
  <2>2. [As(m, "ConnectTxResponse") EXCEPT !.ok = FALSE] \in StreamFrames
    BY <1>3, <2>1, AsFrame DEF StreamKinds
  <2>3. FramesOK'
    BY <1>0, <1>3, <1>8, <2>1, <2>2, AnsweredOK DEF ConnectTxUnauthorized
  <2> QED
    BY <1>0, <1>8, <2>3, ListenerKept, TalkerKept, OwnerKept
       DEF ConnectTxUnauthorized, IInv
<1>9. ASSUME ConnectTxCommand(e, s)
      PROVE  IInv'
  <2>1. /\ Arrived(s, e, "ConnectTxCommand")
        /\ "ConnectTxCommand" \in StreamKinds
    BY <1>9 DEF ConnectTxCommand, StreamKinds
  <2> DEFINE room == Len(table[e]) < MaxListeners
  <2>2. [As(m, "ConnectTxResponse") EXCEPT !.ok = room \/ FullStatus]
          \in StreamFrames
    BY <1>3, <2>1, AsFrame DEF StreamKinds
  <2>3. FramesOK'
    BY <1>0, <1>3, <1>9, <2>1, <2>2, AnsweredOK DEF ConnectTxCommand
  <2>4. TalkerOK'
    BY <1>0, <1>3, <1>9, <2>1, ListsListener DEF ConnectTxCommand
  <2> QED
    BY <1>0, <1>9, <2>3, <2>4, ListenerKept, OwnerKept DEF ConnectTxCommand, IInv
<1>10. ASSUME DisconnectTxCommand(e, s)
       PROVE  IInv'
  <2>1. /\ Arrived(s, e, "DisconnectTxCommand")
        /\ "DisconnectTxCommand" \in StreamKinds
    BY <1>10 DEF DisconnectTxCommand, StreamKinds
  <2>2. As(m, "DisconnectTxResponse") \in StreamFrames
    BY <1>3, <2>1, AsFrame DEF StreamKinds
  <2>3. FramesOK'
    BY <1>0, <1>3, <1>10, <2>1, <2>2, AnsweredOK DEF DisconnectTxCommand
  <2>4. TalkerOK'
    BY <1>0, <1>3, <1>10, <2>1, RemovesListener DEF DisconnectTxCommand
  <2> QED
    BY <1>0, <1>10, <2>3, <2>4, ListenerKept, OwnerKept
       DEF DisconnectTxCommand, IInv
<1> QED
  BY <1>1, <1>2, <1>4, <1>5, <1>6, <1>7, <1>8, <1>9, <1>10 DEF EntityReceives

LEMMA StepInv == IInv /\ [Next]_vars => IInv'
<1> SUFFICES ASSUME IInv, [Next]_vars PROVE IInv'
  OBVIOUS
<1>1. CASE Commands
  <2>1. ASSUME NEW c \in Controller, NEW p \in Pairs,
               SendConnect(c, p) \/ SendDisconnect(c, p)
        PROVE  IInv'
    <3>1. p \in Entity \X Entity
      BY AcmpAssumption
    <3> QED
      BY <2>1, <3>1, CommandInv
         DEF SendConnect, SendDisconnect, StreamKinds
  <2> QED
    BY <1>1, <2>1, SendAcquireInv DEF Commands
<1>2. CASE Receives
  BY <1>2, EntityInv, ControllerInv DEF Receives
<1>3. CASE \E k \in Links : Lose(k)
  BY <1>3, LoseInv
<1>4. CASE UNCHANGED vars
  <2>1. /\ UNCHANGED <<owner, listenerVars, talkerVars, issued>>
        /\ chan' = chan
    BY <1>4 DEF vars, clientVars
  <2> QED
    BY <2>1, RecordsKept DEF IInv, FramesOK
<1> QED
  BY <1>1, <1>2, <1>3, <1>4 DEF Next

LEMMA Invariance == Spec => []IInv
BY InitInv, StepInv, PTL DEF Spec

-----------------------------------------------------------------------------
(***************************************************************************)
(* Every variable has its type, and connected_listeners is never written   *)
(* past its last entry, for any MaxListeners.                              *)
(***************************************************************************)
THEOREM TypeCorrect == Spec => []TypeOK
<1>1. IInv => TypeOK
  BY DEF IInv, OwnerOK, ListenerOK, TalkerOK, TypeOK
<1> QED
  BY <1>1, Invariance, PTL

(***************************************************************************)
(* The listener task runs exactly while its sink is connected, and a       *)
(* connected sink has its reservation requested (acmp.c:110-123, 433-449); *)
(* the talker task runs exactly while some listener is listed, and then    *)
(* the stream is advertised (acmp.c:207-246, 524-545).                     *)
(***************************************************************************)
THEOREM TasksFollowRecords == Spec => []TasksFollow
<1>1. IInv => TasksFollow
  BY DEF IInv, ListenerOK, TalkerOK, TasksFollow
<1> QED
  BY <1>1, Invariance, PTL

(***************************************************************************)
(* No listener is listed twice, whatever commands are repeated or lost.    *)
(***************************************************************************)
THEOREM NeverListedTwice == Spec => []ListedOnce
<1>1. IInv => ListedOnce
  BY DEF IInv, TalkerOK
<1> QED
  BY <1>1, Invariance, PTL

-----------------------------------------------------------------------------
(***************************************************************************)
(* OrderlySpec: with controllers that take turns and room for every        *)
(* listener, both ends of a stream agree whenever no frame about the       *)
(* listener is under way, a sink reserves its own stream only, and         *)
(* listener and talker together implement Connections.                     *)
(***************************************************************************)
\* A talker that has no room answers SUCCESS all the same (FullStatus), and the
\* ends disagree: the table has to hold every listener a controller may name.
SinksOf(t) == {l \in Entity : <<l, t>> \in Pairs}

RoomForAll ==
    \A t \in Entity : /\ IsFiniteSet(SinksOf(t))
                      /\ Cardinality(SinksOf(t)) <= MaxListeners

OrderlyNext == OrderlyCommands \/ Receives

-----------------------------------------------------------------------------
(***************************************************************************)
(* The inductive invariant.  A connection or disconnection is one frame    *)
(* that goes from the controller to the listener, to the talker, and back: *)
(* there is never a second one about the same listener (Alone), and the    *)
(* place the frame has reached says what the two ends have recorded        *)
(* (Stage).  When there is none, they agree (AtRest).                      *)
(***************************************************************************)
On(c, k) == {c[k][i] : i \in 1..Len(c[k])}

Alone(c) ==
    \A k1, k2 \in Links : \A i \in 1..Len(c[k1]), j \in 1..Len(c[k2]) :
        c[k1][i].listener = c[k2][j].listener => k1 = k2 /\ i = j

\* The frames that are not about l are the same.
Agree(c, d, l) ==
    \A q \in Links : /\ \A f \in On(d, q) : f.listener # l => f \in On(c, q)
                     /\ \A f \in On(c, q) : f.listener # l => f \in On(d, q)

\* No frame is about l; of the frames about the listener of m there is m, on k.
Free(c, l) == \A q \in Links : \A f \in On(c, q) : f.listener # l

Only(c, k, m) ==
    /\ m \in On(c, k)
    /\ \A q \in Links : \A f \in On(c, q) : f.listener = m.listener => q = k /\ f = m

ListedAt(l) == {t \in Entity : l \in Listed(t)}

\* What the listener has recorded, and which talkers list it.
Ends(l, stream, where) ==
    /\ info[l].connected <=> stream # None
    /\ info[l].connected => info[l].stream = stream
    /\ ListedAt(l) = where

Asks(kind, m, seq) ==
    [kind |-> kind, ctl |-> m.ctl, listener |-> m.listener, talker |-> m.talker,
     seq |-> seq] \in open[m.ctl]

Stage(k, m) ==
    LET l == m.listener
        t == m.talker
        c == m.ctl
    IN  \/ /\ m.kind = "ConnectRxCommand" /\ k = <<c, l>>
           /\ Ends(l, None, {}) /\ Asks("connect", m, m.seq)
        \/ /\ m.kind = "ConnectTxCommand" /\ k = <<l, t>>
           /\ Ends(l, None, {}) /\ Asks("connect", m, info[l].seq)
        \/ /\ m.kind = "ConnectTxResponse" /\ k = <<t, l>> /\ m.ok
           /\ Ends(l, None, {t}) /\ Asks("connect", m, info[l].seq)
        \/ /\ m.kind = "ConnectRxResponse" /\ k = <<l, c>>
           /\ Ends(l, t, {t}) /\ Asks("connect", m, m.seq)
        \/ /\ m.kind = "DisconnectRxCommand" /\ k = <<c, l>>
           /\ Ends(l, t, {t}) /\ Asks("disconnect", m, m.seq)
        \/ /\ m.kind = "DisconnectTxCommand" /\ k = <<l, t>>
           /\ Ends(l, None, {t}) /\ Asks("disconnect", m, info[l].seq)
        \/ /\ m.kind = "DisconnectTxResponse" /\ k = <<t, l>>
           /\ Ends(l, None, {}) /\ Asks("disconnect", m, info[l].seq)
        \/ /\ m.kind = "DisconnectRxResponse" /\ k = <<l, c>>
           /\ Ends(l, None, {}) /\ Asks("disconnect", m, m.seq)

Staged ==
    \A k \in Links : \A m \in On(chan, k) :
        <<m.listener, m.talker>> \in Pairs /\ Stage(k, m)

Settled(l) == ListedAt(l) = IF info[l].connected THEN {info[l].stream} ELSE {}

AtRest == \A l \in Entity : Idle(l) => Settled(l)

\* Who is listed may be connected; nobody acquires; the sequence id tells the
\* open requests of a controller apart.
ListsPairs == \A t \in Entity : Listed(t) \subseteq SinksOf(t)

Unowned == \A e \in Entity : owner[e] = None

RequestsApart ==
    /\ open \in [Controller -> SUBSET AllRequests]
    /\ \A c \in Controller :
          /\ issued[c] <= MaxCommands[c]
          /\ \A q \in open[c] : q.ctl = c /\ q.seq <= issued[c]
          /\ \A q, r \in open[c] : q.seq = r.seq => q = r

\* A request that has no answer yet has a frame under way, and there is one
\* request about a listener.
NoneForgotten == \A c \in Controller : \A q \in open[c] : ~Idle(q.listener)

OneAtATime ==
    \A b, c \in Controller : \A q \in open[b], r \in open[c] :
        q.listener = r.listener => q = r

OInv ==
    /\ Alone(chan) /\ Staged /\ AtRest
    /\ NoneForgotten /\ OneAtATime
    /\ ReservesOnlyItsStream
    /\ ListsPairs /\ Unowned /\ RequestsApart

-----------------------------------------------------------------------------
(***************************************************************************)
(* What reading the first frame of a link, and sending one, do to the      *)
(* frames under way.                                                       *)
(***************************************************************************)
LEMMA OnFrames ==
  ASSUME NEW c \in [Links -> Seq(Frames)], NEW k \in Links
  PROVE  On(c, k) \subseteq Frames
BY DEF On

LEMMA TailAlone ==
  ASSUME NEW c \in [Links -> Seq(Frames)], NEW k \in Links, c[k] # <<>>,
         Alone(c), NEW d, d = [c EXCEPT ![k] = Tail(@)]
  PROVE  /\ d \in [Links -> Seq(Frames)]
         /\ Alone(d)
         /\ Free(d, Head(c[k]).listener)
         /\ Agree(c, d, Head(c[k]).listener)
<1> DEFINE h == Head(c[k])
<1>1. /\ c[k] \in Seq(Frames) /\ Len(c[k]) \in Nat /\ Len(c[k]) >= 1
      /\ h = c[k][1]
  OBVIOUS
<1>2. /\ Tail(c[k]) \in Seq(Frames)
      /\ Len(Tail(c[k])) = Len(c[k]) - 1
      /\ \A i \in 1..Len(Tail(c[k])) : Tail(c[k])[i] = c[k][i + 1]
  BY <1>1
<1>3. /\ d[k] = Tail(c[k])
      /\ \A q \in Links : q # k => d[q] = c[q]
  OBVIOUS
<1>4. d \in [Links -> Seq(Frames)]
  BY <1>2
<1>5. \A q \in Links : Len(d[q]) \in Nat /\ Len(c[q]) \in Nat
  BY <1>4
<1>6. \A q \in Links : \A i \in 1..Len(d[q]) :
        \E j \in 1..Len(c[q]) : /\ d[q][i] = c[q][j]
                                /\ j = IF q = k THEN i + 1 ELSE i
  BY <1>1, <1>2, <1>3, <1>5
<1>7. Alone(d)
  <2> SUFFICES ASSUME NEW k1 \in Links, NEW k2 \in Links,
                      NEW i \in 1..Len(d[k1]), NEW j \in 1..Len(d[k2]),
                      d[k1][i].listener = d[k2][j].listener
               PROVE  k1 = k2 /\ i = j
    BY DEF Alone
  <2>1. PICK i1 \in 1..Len(c[k1]) : /\ d[k1][i] = c[k1][i1]
                                    /\ i1 = IF k1 = k THEN i + 1 ELSE i
    BY <1>6
  <2>2. PICK j1 \in 1..Len(c[k2]) : /\ d[k2][j] = c[k2][j1]
                                    /\ j1 = IF k2 = k THEN j + 1 ELSE j
    BY <1>6
  <2>3. k1 = k2 /\ i1 = j1
    BY <2>1, <2>2 DEF Alone
  <2> QED
    BY <2>1, <2>2, <2>3, <1>5
<1>8. ASSUME NEW q \in Links, NEW f \in On(d, q)
      PROVE  f.listener # h.listener
  <2>1. PICK i \in 1..Len(d[q]) : f = d[q][i]
    BY <1>8 DEF On
  <2>2. PICK j \in 1..Len(c[q]) : /\ d[q][i] = c[q][j]
                                  /\ j = IF q = k THEN i + 1 ELSE i
    BY <1>6
  <2>3. SUFFICES ASSUME f.listener = h.listener PROVE FALSE
    OBVIOUS
  <2>4. c[q][j].listener = c[k][1].listener /\ 1 \in 1..Len(c[k])
    BY <1>1, <2>1, <2>2, <2>3
  <2>5. q = k /\ j = 1
    BY <2>4 DEF Alone
  <2> QED
    BY <2>2, <2>5, <1>5
<1>9. ASSUME NEW q \in Links, NEW f \in Frames, f.listener # h.listener
      PROVE  f \in On(d, q) <=> f \in On(c, q)
  <2>1. CASE q # k
    BY <2>1, <1>3 DEF On
  <2>2. CASE q = k
    <3>1. f \in On(d, q) => f \in On(c, q)
      BY <1>6 DEF On
    <3>2. ASSUME f \in On(c, q) PROVE f \in On(d, q)
      <4>1. PICK i \in 1..Len(c[k]) : f = c[k][i]
        BY <2>2, <3>2 DEF On
      <4>2. i # 1
        BY <4>1, <1>1, <1>9
      <4>3. i - 1 \in 1..Len(d[k]) /\ d[k][i - 1] = f
        BY <4>1, <4>2, <1>1, <1>2, <1>3
      <4> QED
        BY <2>2, <4>3 DEF On
    <3> QED
      BY <3>1, <3>2
  <2> QED
    BY <2>1, <2>2
<1> QED
  BY <1>4, <1>7, <1>8, <1>9, OnFrames DEF Agree, Free

LEMMA AppendAlone ==
  ASSUME NEW c \in [Links -> Seq(Frames)], NEW k \in Links, NEW m \in Frames,
         Alone(c), Free(c, m.listener),
         NEW d, d = [c EXCEPT ![k] = Append(@, m)]
  PROVE  /\ Alone(d)
         /\ Only(d, k, m)
         /\ Agree(c, d, m.listener)
<1>1. /\ c[k] \in Seq(Frames) /\ Len(c[k]) \in Nat
      /\ d[k] = Append(c[k], m)
      /\ \A q \in Links : q # k => d[q] = c[q]
  OBVIOUS
<1>2. /\ Len(d[k]) = Len(c[k]) + 1
      /\ \A i \in 1..Len(d[k]) : d[k][i] = IF i = Len(c[k]) + 1 THEN m ELSE c[k][i]
  BY <1>1
<1>3. \A q \in Links : \A i \in 1..Len(d[q]) :
        \/ q = k /\ i = Len(c[k]) + 1 /\ d[q][i] = m
        \/ i \in 1..Len(c[q]) /\ d[q][i] = c[q][i]
  BY <1>1, <1>2
<1>4. \A q \in Links : \A i \in 1..Len(c[q]) :
        i \in 1..Len(d[q]) /\ d[q][i] = c[q][i] /\ c[q][i].listener # m.listener
  BY <1>1, <1>2 DEF On, Free
<1>5. Alone(d)
  <2> SUFFICES ASSUME NEW k1 \in Links, NEW k2 \in Links,
                      NEW i \in 1..Len(d[k1]), NEW j \in 1..Len(d[k2]),
                      d[k1][i].listener = d[k2][j].listener
               PROVE  k1 = k2 /\ i = j
    BY DEF Alone
  <2>1. \/ k1 = k /\ i = Len(c[k]) + 1 /\ d[k1][i] = m
        \/ i \in 1..Len(c[k1]) /\ d[k1][i] = c[k1][i]
    BY <1>3
  <2>2. \/ k2 = k /\ j = Len(c[k]) + 1 /\ d[k2][j] = m
        \/ j \in 1..Len(c[k2]) /\ d[k2][j] = c[k2][j]
    BY <1>3
  <2> QED
    BY <2>1, <2>2, <1>4 DEF Alone
<1>6. m \in On(d, k)
  <2>1. Len(c[k]) + 1 \in 1..Len(d[k]) /\ d[k][Len(c[k]) + 1] = m
    BY <1>1, <1>2
  <2> QED
    BY <2>1 DEF On
<1>7. ASSUME NEW q \in Links, NEW f \in On(d, q), f.listener = m.listener
      PROVE  q = k /\ f = m
  <2>1. PICK i \in 1..Len(d[q]) : f = d[q][i]
    BY <1>7 DEF On
  <2>2. ~(i \in 1..Len(c[q]) /\ d[q][i] = c[q][i])
    BY <1>4, <1>7, <2>1
  <2> QED
    BY <1>3, <2>1, <2>2
<1>8. ASSUME NEW q \in Links, NEW f \in Frames, f.listener # m.listener
      PROVE  f \in On(d, q) <=> f \in On(c, q)
  BY <1>8, <1>3, <1>4 DEF On
<1>9. d \in [Links -> Seq(Frames)]
  BY <1>1
<1> QED
  BY <1>5, <1>6, <1>7, <1>8, <1>9, OnFrames DEF Agree, Only

-----------------------------------------------------------------------------
(***************************************************************************)
(* The same for the steps of the specification.                            *)
(***************************************************************************)
LEMMA IdleIsFree ==
  ASSUME NEW l
  PROVE  /\ Idle(l) <=> Free(chan, l)
         /\ Idle(l)' <=> Free(chan', l)
BY DEF Idle, Concerns, On, Free

LEMMA SendMoves ==
  ASSUME FramesOK, Alone(chan), NEW s \in Station, NEW e \in Station,
         NEW m \in Frames, Idle(m.listener), Send(s, e, m)
  PROVE  /\ Alone(chan') /\ Agree(chan, chan', m.listener)
         /\ Only(chan', <<s, e>>, m)
<1> DEFINE k == <<s, e>>
<1>1. chan \in [Links -> Seq(Frames)] /\ k \in Links
  BY DEF FramesOK, Links
<1>2. Free(chan, m.listener)
  BY IdleIsFree
<1>3. chan' = [chan EXCEPT ![k] = Append(@, m)]
  BY DEF Send
<1> HIDE DEF k
<1>4. Alone(chan') /\ Agree(chan, chan', m.listener) /\ Only(chan', k, m)
  BY <1>1, <1>2, <1>3, AppendAlone
<1> QED
  BY <1>4 DEF k

LEMMA ConsumeMoves ==
  ASSUME FramesOK, Alone(chan), NEW s \in Station, NEW e \in Station,
         NEW kind, Arrived(s, e, kind), Consume(s, e)
  PROVE  LET l == Head(chan[<<s, e>>]).listener
         IN  Alone(chan') /\ Agree(chan, chan', l) /\ Free(chan', l)
<1> DEFINE k == <<s, e>>
<1>1. chan \in [Links -> Seq(Frames)] /\ k \in Links
  BY DEF FramesOK, Links
<1>2. chan' = [chan EXCEPT ![k] = Tail(@)] /\ chan[k] # <<>>
  BY DEF Consume, Arrived
<1> HIDE DEF k
<1>3. /\ Alone(chan') /\ Agree(chan, chan', Head(chan[k]).listener)
      /\ Free(chan', Head(chan[k]).listener)
  BY <1>1, <1>2, TailAlone
<1> QED
  BY <1>3 DEF k

LEMMA AnswerMoves ==
  ASSUME FramesOK, Alone(chan), NEW s \in Station, NEW e \in Station,
         NEW to \in Station, NEW kind, Arrived(s, e, kind),
         NEW m \in Frames, m.listener = Head(chan[<<s, e>>]).listener,
         ConsumeAndSend(s, e, to, m)
  PROVE  /\ Alone(chan') /\ Agree(chan, chan', m.listener)
         /\ Only(chan', <<e, to>>, m)
<1> DEFINE k == <<s, e>>
           j == <<e, to>>
           d == [chan EXCEPT ![k] = Tail(@)]
<1>1. /\ chan \in [Links -> Seq(Frames)]
      /\ k \in Links /\ j \in Links
  BY DEF FramesOK, Links
<1>2. chan' = [d EXCEPT ![j] = Append(@, m)] /\ chan[k] # <<>>
  BY DEF ConsumeAndSend, Arrived
<1>3. d = [chan EXCEPT ![k] = Tail(@)] /\ m.listener = Head(chan[k]).listener
  OBVIOUS
<1> HIDE DEF d, k, j
<1>4. /\ d \in [Links -> Seq(Frames)] /\ Alone(d)
      /\ Free(d, m.listener) /\ Agree(chan, d, m.listener)
  BY <1>1, <1>2, <1>3, TailAlone
<1>5. Alone(chan') /\ Only(chan', j, m) /\ Agree(d, chan', m.listener)
  BY <1>1, <1>2, <1>4, AppendAlone
<1>6. Agree(chan, chan', m.listener)
  BY <1>4, <1>5 DEF Agree
<1> QED
  BY <1>5, <1>6 DEF j

LEMMA AsFields ==
  ASSUME NEW m \in StreamFrames, NEW kind, NEW b, NEW n
  PROVE  /\ As(m, kind).kind = kind
         /\ As(m, kind).listener = m.listener
         /\ As(m, kind).talker = m.talker
         /\ As(m, kind).ctl = m.ctl
         /\ As(m, kind).ok = m.ok
         /\ [As(m, kind) EXCEPT !.ok = b].kind = kind
         /\ [As(m, kind) EXCEPT !.ok = b].listener = m.listener
         /\ [As(m, kind) EXCEPT !.ok = b].talker = m.talker
         /\ [As(m, kind) EXCEPT !.ok = b].ctl = m.ctl
         /\ [As(m, kind) EXCEPT !.ok = b].ok = b
         /\ [As(m, kind) EXCEPT !.seq = n].kind = kind
         /\ [As(m, kind) EXCEPT !.seq = n].listener = m.listener
         /\ [As(m, kind) EXCEPT !.seq = n].talker = m.talker
         /\ [As(m, kind) EXCEPT !.seq = n].ctl = m.ctl
         /\ [As(m, kind) EXCEPT !.seq = n].seq = n
BY DEF As, StreamFrames

-----------------------------------------------------------------------------
(***************************************************************************)
(* A step about listener l leaves the other listeners where they were.     *)
(***************************************************************************)
Untouched(l) ==
    /\ \A x \in Entity \ {l} : info'[x] = info[x] /\ ListedAt(x)' = ListedAt(x)
    /\ \A c \in Controller : \A r \in open[c] : r.listener # l => r \in open'[c]

LEMMA Reads ==
  ASSUME IInv, OInv, NEW s \in Station, NEW e \in Station, NEW kind,
         Arrived(s, e, kind)
  PROVE  LET h == Head(chan[<<s, e>>])
         IN  /\ h.kind = kind /\ h \in StreamFrames
             /\ h.listener \in Entity /\ h.talker \in Entity
             /\ h.ctl \in Controller /\ h.seq \in Nat
             /\ <<h.listener, h.talker>> \in Pairs
             /\ Stage(<<s, e>>, h)
<1> DEFINE k == <<s, e>>
           h == Head(chan[k])
<1>1. k \in Links /\ FramesOK /\ Staged
  BY DEF Links, IInv, OInv
<1>2. h \in Frames /\ h.kind = kind
  BY <1>1, ArrivedFrame
<1>3. h \in On(chan, k)
  <2>1. chan[k] \in Seq(Frames) /\ chan[k] # <<>>
    BY <1>1 DEF FramesOK, Arrived
  <2>2. h = chan[k][1] /\ 1 \in 1..Len(chan[k])
    BY <2>1
  <2> QED
    BY <2>2 DEF On
<1>4. <<h.listener, h.talker>> \in Pairs /\ Stage(k, h)
  BY <1>1, <1>3 DEF Staged
<1>5. h.kind \in StreamKinds
  BY <1>4 DEF Stage, StreamKinds
<1>6. h \in StreamFrames
  BY <1>2, <1>5, StreamFrame
<1> QED
  BY <1>2, <1>4, <1>6 DEF StreamFrames

LEMMA OthersStaged ==
  ASSUME IInv, OInv, NEW l \in Entity, Agree(chan, chan', l), Untouched(l),
         NEW k \in Links, NEW m \in On(chan', k), m.listener # l
  PROVE  <<m.listener, m.talker>> \in Pairs /\ Stage(k, m)'
<1>1. m \in On(chan, k)
  BY DEF Agree
<1>2. m \in Frames
  BY <1>1, OnFrames DEF IInv, FramesOK
<1>3. <<m.listener, m.talker>> \in Pairs /\ Stage(k, m)
  BY <1>1 DEF OInv, Staged
<1>4. m \in StreamFrames
  <2>1. m.kind \in StreamKinds
    BY <1>3 DEF Stage, StreamKinds
  <2> QED
    BY <1>2, <2>1, StreamFrame
<1>5. m.listener \in Entity \ {l} /\ m.ctl \in Controller
  BY <1>4 DEF StreamFrames
<1>6. \A stream, where : Ends(m.listener, stream, where)
                            => Ends(m.listener, stream, where)'
  BY <1>5 DEF Ends, Untouched
<1>7. \A kind, seq : Asks(kind, m, seq) => Asks(kind, m, seq)'
  BY <1>5 DEF Asks, Untouched
<1>8. info'[m.listener] = info[m.listener]
  BY <1>5 DEF Untouched
<1> QED
  BY <1>3, <1>6, <1>7, <1>8 DEF Stage

LEMMA OthersRest ==
  ASSUME IInv, OInv, NEW l \in Entity, Agree(chan, chan', l), Untouched(l),
         NEW x \in Entity \ {l}, Idle(x)'
  PROVE  Settled(x)'
<1>1. Free(chan, x)
  BY IdleIsFree DEF Agree, Free
<1>2. Settled(x)
  BY <1>1, IdleIsFree DEF OInv, AtRest
<1> QED
  BY <1>2 DEF Settled, Untouched

LEMMA StaysUnderWay ==
  ASSUME NEW l, NEW x, Agree(chan, chan', l), x # l, ~Idle(x)
  PROVE  ~Idle(x)'
<1>1. PICK k \in Links : \E f \in On(chan, k) : f.listener = x
  BY IdleIsFree DEF Free
<1>2. \E f \in On(chan', k) : f.listener = x
  BY <1>1 DEF Agree
<1> QED
  BY <1>2, IdleIsFree DEF Free

\* The step leaves one frame about l under way, at its stage, or none and both
\* ends in agreement.
LEMMA StepStaged ==
  ASSUME IInv, OInv, NEW l \in Entity, Agree(chan, chan', l), Untouched(l),
         NEW k \in Links, NEW m, Only(chan', k, m), m.listener = l,
         <<m.listener, m.talker>> \in Pairs, Stage(k, m)'
  PROVE  Staged' /\ AtRest'
<1>1. ASSUME NEW q \in Links, NEW f \in On(chan', q)
      PROVE  <<f.listener, f.talker>> \in Pairs /\ Stage(q, f)'
  <2>1. CASE f.listener = l
    <3>1. q = k /\ f = m
      BY <2>1 DEF Only
    <3> QED
      BY <3>1
  <2>2. CASE f.listener # l
    BY <2>2, OthersStaged
  <2> QED
    BY <2>1, <2>2
<1>2. ASSUME NEW x \in Entity, Idle(x)'
      PROVE  Settled(x)'
  <2>1. x # l
    BY <1>2, IdleIsFree DEF Only, Free
  <2> QED
    BY <1>2, <2>1, OthersRest
<1> QED
  BY <1>1, <1>2 DEF Staged, AtRest

LEMMA StepRests ==
  ASSUME IInv, OInv, NEW l \in Entity, Agree(chan, chan', l), Untouched(l),
         Free(chan', l), Settled(l)'
  PROVE  Staged' /\ AtRest'
<1>1. ASSUME NEW q \in Links, NEW f \in On(chan', q)
      PROVE  <<f.listener, f.talker>> \in Pairs /\ Stage(q, f)'
  <2>1. f.listener # l
    BY DEF Free
  <2> QED
    BY <2>1, OthersStaged
<1>2. ASSUME NEW x \in Entity, Idle(x)'
      PROVE  Settled(x)'
  BY <1>2, OthersRest
<1> QED
  BY <1>1, <1>2 DEF Staged, AtRest

-----------------------------------------------------------------------------
(***************************************************************************)
(* The table of a talker: entering and removing one listener, and why      *)
(* there is room.                                                          *)
(***************************************************************************)
LEMMA AppendListed ==
  ASSUME TalkerOK, NEW e \in Entity, NEW l \in Entity,
         table' = [table EXCEPT ![e] = Append(@, l)]
  PROVE  \A x \in Entity :
           Listed(x)' = IF x = e THEN Listed(x) \cup {l} ELSE Listed(x)
<1> DEFINE s == table[e]
<1>1. s \in Seq(Entity) /\ Len(s) \in Nat
  BY DEF TalkerOK
<1>2. /\ table'[e] = Append(s, l)
      /\ \A x \in Entity : x # e => table'[x] = table[x]
  BY DEF TalkerOK
<1> HIDE DEF s
<1>3. /\ Len(Append(s, l)) = Len(s) + 1
      /\ \A i \in 1..Len(s) + 1 : Append(s, l)[i] = IF i = Len(s) + 1 THEN l ELSE s[i]
  BY <1>1
<1>4. {Append(s, l)[i] : i \in 1..Len(s) + 1} = {s[i] : i \in 1..Len(s)} \cup {l}
  BY <1>1, <1>3
<1> QED
  BY <1>2, <1>3, <1>4 DEF Listed, s

Elements(s) == {s[i] : i \in 1..Len(s)}

LEMMA WithoutElements ==
  ASSUME NEW S, NEW s \in Seq(S), NEW x,
         \E i \in 1..Len(s) : s[i] = x,
         \A i, j \in 1..Len(s) : s[i] = s[j] => i = j
  PROVE  Elements(Without(s, x)) = Elements(s) \ {x}
<1> DEFINE First(i) == s[i] = x /\ \A j \in 1..Len(s) : s[j] = x => i <= j
           k == CHOOSE i \in 1..Len(s) : First(i)
           w == [i \in 1..(Len(s) - 1) |-> IF i < k THEN s[i] ELSE s[i + 1]]
<1>1. Without(s, x) = w
  BY DEF Without
<1>2. Len(s) \in Nat /\ \E i \in 1..Len(s) : First(i)
  OBVIOUS
<1>3. k \in 1..Len(s) /\ s[k] = x
  BY <1>2
<1>4. Len(Without(s, x)) = Len(s) - 1
  BY WithoutShift
<1> HIDE DEF k
<1>5. \A i \in 1..(Len(s) - 1) : w[i] \in Elements(s) \ {x}
  BY <1>2, <1>3 DEF Elements
<1>6. ASSUME NEW j \in 1..Len(s), s[j] # x
      PROVE  \E i \in 1..(Len(s) - 1) : w[i] = s[j]
  <2>1. CASE j < k
    BY <2>1, <1>2, <1>3
  <2>2. CASE j > k
    <3>1. j - 1 \in 1..(Len(s) - 1) /\ w[j - 1] = s[j]
      BY <2>2, <1>2, <1>3
    <3> QED
      BY <3>1
  <2> QED
    BY <1>2, <1>3, <1>6, <2>1, <2>2
<1>7. Elements(w) = {w[i] : i \in 1..(Len(s) - 1)}
  BY <1>1, <1>4 DEF Elements
<1> HIDE DEF w
<1>8. Elements(s) \ {x} \subseteq Elements(w)
  <2> SUFFICES ASSUME NEW y \in Elements(s), y # x PROVE y \in Elements(w)
    OBVIOUS
  <2>1. PICK j \in 1..Len(s) : y = s[j]
    BY DEF Elements
  <2>2. PICK i \in 1..(Len(s) - 1) : w[i] = s[j]
    BY <1>6, <2>1
  <2> QED
    BY <1>7, <2>1, <2>2
<1> QED
  BY <1>1, <1>5, <1>7, <1>8

LEMMA WithoutListed ==
  ASSUME TalkerOK, NEW e \in Entity, NEW l \in Listed(e),
         table' = [table EXCEPT ![e] = Without(@, l)]
  PROVE  \A x \in Entity :
           Listed(x)' = IF x = e THEN Listed(x) \ {l} ELSE Listed(x)
<1>1. table[e] \in Seq(Entity)
  BY DEF TalkerOK
<1>2. /\ table'[e] = Without(table[e], l)
      /\ \A x \in Entity : x # e => table'[x] = table[x]
  BY DEF TalkerOK
<1>3. \E i \in 1..Len(table[e]) : table[e][i] = l
  BY DEF Listed
<1>4. \A i, j \in 1..Len(table[e]) : table[e][i] = table[e][j] => i = j
  BY DEF TalkerOK, ListedOnce
<1>5. Elements(Without(table[e], l)) = Elements(table[e]) \ {l}
  <2>1. PICK s : s = table[e]
    OBVIOUS
  <2>2. /\ s \in Seq(Entity) /\ \E i \in 1..Len(s) : s[i] = l
        /\ \A i, j \in 1..Len(s) : s[i] = s[j] => i = j
    BY <1>1, <1>3, <1>4, <2>1
  <2>3. Elements(Without(s, l)) = Elements(s) \ {l}
    BY <2>2, WithoutElements
  <2> QED
    BY <2>1, <2>3
<1>6. \A x \in Entity : Listed(x) = Elements(table[x]) /\ Listed(x)' = Elements(table'[x])
  BY DEF Listed, Elements
<1> QED
  BY <1>2, <1>5, <1>6

LEMMA RoomLeft ==
  ASSUME TalkerOK, ListsPairs, RoomForAll, NEW e \in Entity,
         NEW l \in SinksOf(e), l \notin Listed(e)
  PROVE  Len(table[e]) < MaxListeners
<1> DEFINE s == table[e]
           S == SinksOf(e)
<1>1. /\ s \in Seq(Entity) /\ Len(s) \in Nat
      /\ \A i, j \in 1..Len(s) : s[i] = s[j] => i = j
      /\ \A i \in 1..Len(s) : s[i] \in S \ {l}
  BY DEF TalkerOK, ListedOnce, ListsPairs, Listed
<1>2. IsFiniteSet(S) /\ Cardinality(S) <= MaxListeners
  BY DEF RoomForAll
<1>3. s \in Injection(1..Len(s), S \ {l})
  BY <1>1 DEF Injection, IsInjective
<1>4. /\ IsFiniteSet(S \ {l})
      /\ Cardinality(S \ {l}) = Cardinality(S) - 1
  BY <1>2, FS_RemoveElement
<1>5. Cardinality(1..Len(s)) <= Cardinality(S \ {l})
  BY <1>3, <1>4, FS_Injection
<1>6. Cardinality(1..Len(s)) = Len(s)
  <2>1. Cardinality(1..Len(s)) = IF 1 > Len(s) THEN 0 ELSE Len(s) - 1 + 1
    BY <1>1, FS_Interval
  <2> QED
    BY <1>1, <2>1
<1>7. Cardinality(S) \in Nat
  BY <1>2, FS_CardinalityType
<1> QED
  BY <1>1, <1>2, <1>4, <1>5, <1>6, <1>7, AcmpAssumption

-----------------------------------------------------------------------------
(***************************************************************************)
(* The connections both ends hold, when only listener l is concerned.      *)
(***************************************************************************)
LEMMA OthersHold ==
  ASSUME NEW l \in Entity, Untouched(l), NEW p \in Pairs, p[1] # l
  PROVE  p \in BothHold' <=> p \in BothHold
<1>1. p[1] \in Entity \ {l} /\ p[2] \in Entity
  BY AcmpAssumption
<1>2. /\ info'[p[1]] = info[p[1]]
      /\ p[1] \in Listed(p[2])' <=> p[1] \in Listed(p[2])
  BY <1>1 DEF Untouched, ListedAt
<1> QED
  BY <1>2 DEF BothHold

LEMMA EndsHold ==
  ASSUME NEW p \in Pairs, NEW stream, NEW where
  PROVE  /\ Ends(p[1], stream, where) =>
              (p \in BothHold <=> stream # None /\ p[2] = stream /\ p[2] \in where)
         /\ Ends(p[1], stream, where)' =>
              (p \in BothHold' <=> stream # None /\ p[2] = stream /\ p[2] \in where)
<1>1. p[1] \in Entity /\ p[2] \in Entity
  BY AcmpAssumption
<1> QED
  BY <1>1 DEF Ends, BothHold, ListedAt

\* Steps in which the ends of l go from one record to another.
LEMMA HeldChange ==
  ASSUME NEW l \in Entity, NEW t, Untouched(l), <<l, t>> \in Pairs,
         NEW s1, NEW w1, NEW s2, NEW w2,
         Ends(l, s1, w1), Ends(l, s2, w2)',
         s1 \in {None, t}, s2 \in {None, t}
  PROVE  /\ s1 = t /\ s2 = t /\ t \in w1 /\ t \in w2 => BothHold' = BothHold
         /\ s1 = None /\ s2 = None => BothHold' = BothHold
         /\ s1 = None /\ s2 = t /\ t \in w2 =>
              /\ <<l, t>> \notin BothHold
              /\ BothHold' = BothHold \cup {<<l, t>>}
         /\ s1 = t /\ s2 = None /\ t \in w1 =>
              /\ <<l, t>> \in BothHold
              /\ BothHold' = BothHold \ {<<l, t>>}
<1>1. t \in Entity /\ t # None
  BY AcmpAssumption
<1>2. BothHold \subseteq Pairs /\ BothHold' \subseteq Pairs
  BY DEF BothHold
<1>3. \A p \in Pairs : p[1] = l /\ p[2] = t => p = <<l, t>>
  BY AcmpAssumption
<1>4. \A p \in Pairs : p[1] = l =>
         /\ p \in BothHold <=> s1 # None /\ p[2] = s1 /\ p[2] \in w1
         /\ p \in BothHold' <=> s2 # None /\ p[2] = s2 /\ p[2] \in w2
  <2> SUFFICES ASSUME NEW p \in Pairs, p[1] = l
               PROVE  /\ p \in BothHold <=> s1 # None /\ p[2] = s1 /\ p[2] \in w1
                      /\ p \in BothHold' <=> s2 # None /\ p[2] = s2 /\ p[2] \in w2
    OBVIOUS
  <2>1. p \in BothHold <=> s1 # None /\ p[2] = s1 /\ p[2] \in w1
    BY EndsHold
  <2>2. p \in BothHold' <=> s2 # None /\ p[2] = s2 /\ p[2] \in w2
    BY EndsHold
  <2> QED
    BY <2>1, <2>2
<1>5. \A p \in Pairs : p[1] # l => (p \in BothHold' <=> p \in BothHold)
  BY OthersHold
<1> HIDE DEF BothHold
<1> QED
  BY <1>1, <1>2, <1>3, <1>4, <1>5

-----------------------------------------------------------------------------
(***************************************************************************)
(* One lemma per step: it keeps the invariant, and it is a step of         *)
(* Connections or leaves what a controller sees alone.                     *)
(***************************************************************************)
Implements == C!Next \/ UNCHANGED C!vars

LEMMA RecordsStay ==
  ASSUME OInv, UNCHANGED <<owner, info, attached, table>>
  PROVE  ReservesOnlyItsStream' /\ ListsPairs' /\ Unowned' /\ BothHold' = BothHold
<1>1. \A e \in Entity : Listed(e)' = Listed(e)
  BY DEF Listed
<1>2. ReservesOnlyItsStream' /\ Unowned'
  BY DEF OInv, ReservesOnlyItsStream, Unowned
<1>3. ListsPairs'
  BY <1>1 DEF OInv, ListsPairs
<1>4. BothHold' = BothHold
  BY DEF BothHold, Listed
<1> QED
  BY <1>2, <1>3, <1>4

LEMMA RequestsStay ==
  ASSUME OInv, UNCHANGED clientVars
  PROVE  /\ RequestsApart'
         /\ \A c \in Controller : open'[c] = open[c]
         /\ UNION {open'[c] : c \in Controller} = UNION {open[c] : c \in Controller}
BY DEF OInv, RequestsApart, clientVars

\* A controller asks: Ask of Connections.
LEMMA AskStep ==
  ASSUME IInv, OInv, NEW c \in Controller, NEW l, NEW t, <<l, t>> \in Pairs,
         Idle(l), NEW kind, NEW wire, Command(c, kind, wire, <<l, t>>),
         \/ /\ kind = "connect" /\ wire = "ConnectRxCommand"
            /\ ~info[l].connected
         \/ /\ kind = "disconnect" /\ wire = "DisconnectRxCommand"
            /\ info[l].connected /\ info[l].stream = t
  PROVE  OInv' /\ C!Next
<1>0. PICK m, r : /\ m = Frame(wire, c, <<l, t>>, issued[c] + 1, TRUE)
                  /\ r = Request(c, kind, <<l, t>>)
  OBVIOUS
<1>1. /\ l \in Entity /\ t \in Entity /\ t # None
      /\ c \in Station /\ l \in Station /\ <<c, l>> \in Links
      /\ MaxCommands[c] \in Nat
  BY AcmpAssumption DEF Station, Links
<1>2. issued[c] \in Nat /\ issued \in [Controller -> Nat] /\ FramesOK
  BY DEF IInv, FramesOK
<1>3. /\ m = [kind |-> wire, ctl |-> c, listener |-> l, talker |-> t,
              seq |-> issued[c] + 1, ok |-> TRUE]
      /\ r = [kind |-> kind, ctl |-> c, listener |-> l, talker |-> t,
              seq |-> issued[c] + 1]
  BY <1>0 DEF Frame, Request
<1>4. /\ m \in Frames /\ Send(c, l, m)
      /\ m.kind = wire /\ m.ctl = c /\ m.listener = l /\ m.talker = t
      /\ m.seq = issued[c] + 1
      /\ r.kind = kind /\ r.ctl = c /\ r.listener = l /\ r.talker = t
      /\ r.seq = issued[c] + 1
  <2>1. wire \in StreamKinds /\ issued[c] + 1 \in Nat /\ TRUE \in BOOLEAN
    BY <1>2 DEF StreamKinds
  <2>2. m \in StreamFrames
    BY <1>1, <1>3, <2>1 DEF StreamFrames
  <2>3. Send(c, l, m)
    BY <1>0 DEF Command
  <2> QED
    BY <1>3, <2>2, <2>3 DEF Frames
<1>5. /\ UNCHANGED <<owner, info, attached, table>>
      /\ issued[c] < MaxCommands[c]
      /\ issued' = [issued EXCEPT ![c] = @ + 1]
      /\ open' = [open EXCEPT ![c] = @ \cup {r}]
  BY <1>0 DEF Command, listenerVars, talkerVars
<1>6. /\ Alone(chan') /\ Agree(chan, chan', l) /\ Only(chan', <<c, l>>, m)
  BY <1>1, <1>2, <1>4, SendMoves DEF OInv
<1>7. \A x \in Entity : ListedAt(x)' = ListedAt(x)
  BY <1>5 DEF ListedAt, Listed
<1>8. /\ open \in [Controller -> SUBSET AllRequests]
      /\ \A b \in Controller : open'[b] = IF b = c THEN open[b] \cup {r} ELSE open[b]
  BY <1>5 DEF OInv, RequestsApart
<1>9. Untouched(l)
  BY <1>5, <1>7, <1>8 DEF Untouched
<1>10. Stage(<<c, l>>, m)'
  <2>1. Settled(l)
    BY <1>1 DEF OInv, AtRest
  <2>2. Asks(kind, m, m.seq)'
    <3>1. r = [kind |-> kind, ctl |-> m.ctl, listener |-> m.listener,
               talker |-> m.talker, seq |-> m.seq]
      BY <1>3, <1>4
    <3>2. r \in open'[m.ctl]
      BY <1>4, <1>8
    <3> QED
      BY <3>1, <3>2 DEF Asks
  <2>3. CASE kind = "connect"
    <3>1. Ends(l, None, {})
      BY <2>1, <2>3 DEF Ends, Settled
    <3>2. Ends(l, None, {})'
      BY <1>1, <1>5, <1>7, <3>1 DEF Ends
    <3>3. wire = "ConnectRxCommand"
      BY <2>3
    <3> QED
      BY <1>4, <2>2, <2>3, <3>2, <3>3 DEF Stage
  <2>4. CASE kind = "disconnect"
    <3>1. Ends(l, t, {t})
      BY <1>1, <2>1, <2>4 DEF Ends, Settled
    <3>2. Ends(l, t, {t})'
      BY <1>1, <1>5, <1>7, <3>1 DEF Ends
    <3>3. wire = "DisconnectRxCommand"
      BY <2>4
    <3> QED
      BY <1>4, <2>2, <2>4, <3>2, <3>3 DEF Stage
  <2> QED
    BY <2>3, <2>4
<1>11. Staged' /\ AtRest'
  <2>1. <<m.listener, m.talker>> \in Pairs
    BY <1>4
  <2> QED
    BY <1>1, <1>4, <1>6, <1>9, <1>10, <2>1, StepStaged
<1>12. /\ r \in AllRequests
       /\ \A b \in Controller : r \notin open[b]
  <2>1. issued[c] + 1 \in 1..MaxCommands[c]
    BY <1>1, <1>2, <1>5
  <2>2. r \in AllRequests
    BY <1>1, <1>3, <2>1 DEF AllRequests
  <2>3. ASSUME NEW b \in Controller, r \in open[b] PROVE FALSE
    <3>1. r.ctl = b /\ r.seq <= issued[b]
      BY <2>3 DEF OInv, RequestsApart
    <3> QED
      BY <1>2, <1>4, <3>1
  <2> QED
    BY <2>2, <2>3
<1>13. RequestsApart'
  <2>1. open' \in [Controller -> SUBSET AllRequests]
    BY <1>5, <1>8, <1>12
  <2>2. ASSUME NEW b \in Controller
        PROVE  /\ issued'[b] <= MaxCommands[b]
               /\ \A q \in open'[b] : q.ctl = b /\ q.seq <= issued'[b]
               /\ \A q, x \in open'[b] : q.seq = x.seq => q = x
    <3>1. /\ issued[b] <= MaxCommands[b]
          /\ \A q \in open[b] : q.ctl = b /\ q.seq <= issued[b] /\ q.seq \in Nat
          /\ \A q, x \in open[b] : q.seq = x.seq => q = x
      <4>1. \A q \in AllRequests : q.seq \in Nat
        BY AcmpAssumption DEF AllRequests
      <4> QED
        BY <1>8, <4>1 DEF OInv, RequestsApart
    <3>2. issued[b] \in Nat /\ MaxCommands[b] \in Nat
      BY <1>2, AcmpAssumption
    <3>3. CASE b = c
      <4>1. issued'[b] = issued[b] + 1 /\ r.seq = issued[b] + 1 /\ r.ctl = b
        BY <1>2, <1>4, <1>5, <3>3
      <4>2. \A q \in open'[b] : q = r \/ q \in open[b]
        BY <1>8, <3>3
      <4> QED
        BY <1>5, <3>1, <3>2, <3>3, <4>1, <4>2
    <3>4. CASE b # c
      BY <1>2, <1>5, <1>8, <3>1, <3>4
    <3> QED
      BY <3>3, <3>4
  <2> QED
    BY <2>1, <2>2 DEF RequestsApart
<1>14. ReservesOnlyItsStream' /\ ListsPairs' /\ Unowned' /\ BothHold' = BothHold
  BY <1>5, RecordsStay
<1>15. C!Next
  <2>1. UNION {open'[b] : b \in Controller}
          = (UNION {open[b] : b \in Controller}) \cup {r}
    <3> DEFINE A == UNION {open[b] : b \in Controller}
               B == UNION {open'[b] : b \in Controller}
    <3>1. \A x : x \in A => x \in B
      BY <1>8
    <3>2. \A x : x \in B => x \in A \/ x = r
      BY <1>8
    <3>3. r \in B
      BY <1>8
    <3> HIDE DEF A, B
    <3>4. B = A \cup {r}
      BY <3>1, <3>2, <3>3
    <3> QED
      BY <3>4 DEF A, B
  <2>2. r \in AllRequests /\ r \notin UNION {open[b] : b \in Controller}
    BY <1>12
  <2>3. C!Ask
    BY <1>14, <2>1, <2>2 DEF C!Ask
  <2> QED
    BY <2>3 DEF C!Next
<1>16. NoneForgotten' /\ OneAtATime'
  <2>1. \A b \in Controller : \A q \in open[b] : q.listener # l /\ ~Idle(q.listener)
    BY DEF OInv, NoneForgotten
  <2>2. ~Idle(l)'
    BY <1>1, <1>4, <1>6, IdleIsFree DEF Only, Free
  <2>3. \A b \in Controller : \A q \in open'[b] :
          \/ q = r /\ q.listener = l
          \/ q \in open[b] /\ q.listener # l
    BY <1>4, <1>8, <2>1
  <2>4. NoneForgotten'
    <3> SUFFICES ASSUME NEW b \in Controller, NEW q \in open'[b]
                 PROVE  ~Idle(q.listener)'
      BY DEF NoneForgotten
    <3>1. CASE q.listener = l
      BY <2>2, <3>1
    <3>2. CASE q.listener # l
      BY <1>6, <2>1, <2>3, <3>2, StaysUnderWay
    <3> QED
      BY <3>1, <3>2
  <2>5. OneAtATime'
    BY <2>3 DEF OInv, OneAtATime
  <2> QED
    BY <2>4, <2>5
<1> QED
  BY <1>6, <1>11, <1>13, <1>14, <1>15, <1>16 DEF OInv

-----------------------------------------------------------------------------
(***************************************************************************)
(* An entity reads the frame h about l and answers it with m: what has to  *)
(* be shown of each handler is what becomes of the two ends of l and that  *)
(* m is at its stage.                                                      *)
(***************************************************************************)
OthersSame(l) ==
    \A x \in Entity \ {l} : info'[x] = info[x] /\ ListedAt(x)' = ListedAt(x)

LEMMA AnswerKeeps ==
  ASSUME IInv, IInv', OInv,
         NEW s \in Station, NEW e \in Station, NEW to \in Station,
         NEW kind, Arrived(s, e, kind), NEW h, h = Head(chan[<<s, e>>]),
         NEW m \in StreamFrames, m.listener = h.listener, m.talker = h.talker,
         ConsumeAndSend(s, e, to, m), UNCHANGED <<owner, clientVars>>,
         OthersSame(h.listener),
         NEW s2, NEW w2 \in SUBSET {h.talker}, Ends(h.listener, s2, w2)',
         ReservesOnlyItsStream', Stage(<<e, to>>, m)'
  PROVE  OInv' /\ Untouched(h.listener)
<1> DEFINE l == h.listener
<1>1. l \in Entity /\ <<l, h.talker>> \in Pairs
  BY Reads
<1>2. Untouched(l)
  BY RequestsStay DEF Untouched, OthersSame
<1>3. Alone(chan') /\ Agree(chan, chan', l) /\ Only(chan', <<e, to>>, m)
  BY AnswerMoves DEF OInv, IInv, Frames
<1> HIDE DEF l
<1>4. Staged' /\ AtRest'
  <2>1. /\ m.listener = l /\ <<e, to>> \in Links
        /\ <<m.listener, m.talker>> \in Pairs
    BY <1>1 DEF Links, l
  <2> QED
    BY <1>1, <1>2, <1>3, <2>1, StepStaged
<1>5. ListsPairs'
  <2> SUFFICES ASSUME NEW t \in Entity, NEW x \in Listed(t)'
               PROVE  x \in SinksOf(t)
    BY DEF ListsPairs, SinksOf
  <2>1. x \in Entity
    <3>1. PICK i \in 1..Len(table'[t]) : x = table'[t][i]
      BY DEF Listed
    <3> QED
      BY <3>1 DEF IInv, TalkerOK
  <2>2. t \in ListedAt(x)'
    BY DEF ListedAt
  <2>3. CASE x = l
    BY <1>1, <2>2, <2>3 DEF Ends, SinksOf, l
  <2>4. CASE x # l
    <3>1. t \in ListedAt(x)
      BY <2>1, <2>2, <2>4 DEF OthersSame, l
    <3> QED
      BY <3>1 DEF ListedAt, OInv, ListsPairs
  <2> QED
    BY <2>3, <2>4
<1>6. Unowned' /\ RequestsApart'
  BY RequestsStay DEF OInv, Unowned
<1>7. NoneForgotten' /\ OneAtATime'
  <2>1. \A c \in Controller : open'[c] = open[c]
    BY RequestsStay
  <2>2. ~Idle(l)'
    BY <1>3, IdleIsFree DEF Only, Free, Links, l
  <2>3. NoneForgotten'
    <3> SUFFICES ASSUME NEW c \in Controller, NEW q \in open'[c]
                 PROVE  ~Idle(q.listener)'
      BY DEF NoneForgotten
    <3>1. ~Idle(q.listener)
      BY <2>1 DEF OInv, NoneForgotten
    <3> QED
      BY <1>3, <2>2, <3>1, StaysUnderWay
  <2>4. OneAtATime'
    BY <2>1 DEF OInv, OneAtATime
  <2> QED
    BY <2>3, <2>4
<1> QED
  BY <1>2, <1>3, <1>4, <1>5, <1>6, <1>7 DEF OInv, l

\* The listener passes the command on to the talker; its ends stay as they were.
LEMMA ConnectRxCommandStep ==
  ASSUME IInv, IInv', OInv, NEW e \in Entity, NEW s \in Station,
         ConnectRxCommand(e, s)
  PROVE  OInv' /\ Implements
<1>0. PICK h : h = Head(chan[<<s, e>>])
  OBVIOUS
<1>1. Arrived(s, e, "ConnectRxCommand") /\ e \in Station
  BY DEF ConnectRxCommand, Station
<1>2. /\ h \in StreamFrames /\ h.kind = "ConnectRxCommand"
      /\ h.listener \in Entity /\ h.talker \in Entity /\ h.talker \in Station
      /\ h.ctl \in Controller /\ h.seq \in Nat
      /\ <<h.listener, h.talker>> \in Pairs
      /\ Stage(<<s, e>>, h)
  BY <1>0, <1>1, Reads DEF Station
<1>3. /\ h.listener = e /\ s = h.ctl
      /\ Ends(e, None, {}) /\ Asks("connect", h, h.seq)
  BY <1>2 DEF Stage
<1>4. owner[e] = None /\ Authorized(e, h.ctl) /\ Authorized(e, h.ctl) \in BOOLEAN
  BY DEF OInv, Unowned, Authorized
<1>5. PICK m : m = [As(h, "ConnectTxCommand") EXCEPT !.ok = Authorized(e, h.ctl)]
  OBVIOUS
<1>6. /\ m \in StreamFrames /\ m.kind = "ConnectTxCommand"
      /\ m.listener = e /\ m.talker = h.talker /\ m.ctl = h.ctl
  <2>1. "ConnectTxCommand" \in StreamKinds
    BY DEF StreamKinds
  <2>2. m \in StreamFrames
    BY <1>2, <1>4, <1>5, <2>1, AsFrame
  <2> QED
    BY <1>2, <1>3, <1>5, <2>2, AsFields
<1>7. /\ ConsumeAndSend(s, e, h.talker, m)
      /\ info' = [info EXCEPT ![e] =
                    [@ EXCEPT !.talker = h.talker, !.pending = TRUE,
                              !.seq = h.seq]]
      /\ UNCHANGED <<owner, attached, table, clientVars>>
  BY <1>0, <1>4, <1>5 DEF ConnectRxCommand, talkerVars
<1>8. /\ info \in [Entity -> Infos]
      /\ info'[e].connected = info[e].connected
      /\ info'[e].stream = info[e].stream
      /\ info'[e].seq = h.seq
      /\ \A x \in Entity : x # e => info'[x] = info[x]
  BY <1>7 DEF IInv, ListenerOK, Infos
<1>9. \A x \in Entity : ListedAt(x)' = ListedAt(x)
  BY <1>7 DEF ListedAt, Listed
<1>10. OthersSame(e)
  BY <1>8, <1>9 DEF OthersSame
<1>11. Ends(e, None, {})'
  BY <1>3, <1>8, <1>9 DEF Ends
<1>12. Asks("connect", m, info[e].seq)'
  BY <1>2, <1>3, <1>6, <1>7, <1>8, RequestsStay DEF Asks
<1>13. Stage(<<e, h.talker>>, m)'
  BY <1>6, <1>11, <1>12 DEF Stage
<1>14. ReservesOnlyItsStream'
  BY <1>7, <1>8 DEF OInv, ReservesOnlyItsStream
<1>15. OInv' /\ Untouched(e)
  <2>1. {} \in SUBSET {h.talker}
    OBVIOUS
  <2> QED
    BY <1>0, <1>1, <1>2, <1>3, <1>6, <1>7, <1>10, <1>11, <1>13, <1>14, <2>1,
       AnswerKeeps
<1>16. BothHold' = BothHold
  BY <1>2, <1>3, <1>11, <1>15, HeldChange
<1> QED
  BY <1>7, <1>15, <1>16, RequestsStay DEF Implements, C!vars

\* The talker lists the listener, for which there is room, and says so.
LEMMA ConnectTxCommandStep ==
  ASSUME IInv, IInv', OInv, RoomForAll, NEW e \in Entity, NEW s \in Station,
         ConnectTxCommand(e, s)
  PROVE  OInv' /\ Implements
<1>0. PICK h : h = Head(chan[<<s, e>>])
  OBVIOUS
<1>1. Arrived(s, e, "ConnectTxCommand") /\ e \in Station
  BY DEF ConnectTxCommand, Station
<1>2. /\ h \in StreamFrames /\ h.kind = "ConnectTxCommand"
      /\ h.listener \in Entity /\ h.talker \in Entity /\ h.listener \in Station
      /\ h.ctl \in Controller /\ h.seq \in Nat
      /\ <<h.listener, h.talker>> \in Pairs
      /\ Stage(<<s, e>>, h)
  BY <1>0, <1>1, Reads DEF Station
<1>3. /\ h.talker = e /\ s = h.listener
      /\ Ends(s, None, {}) /\ Asks("connect", h, info[s].seq)
  BY <1>2 DEF Stage
<1>4. Len(table[e]) < MaxListeners
  <2>1. s \in SinksOf(e) /\ s \notin Listed(e)
    BY <1>0, <1>2, <1>3 DEF SinksOf, ConnectTxCommand
  <2> QED
    BY <2>1, RoomLeft DEF IInv, OInv
<1>5. PICK m : m = [As(h, "ConnectTxResponse") EXCEPT !.ok = TRUE]
  OBVIOUS
<1>6. /\ m \in StreamFrames /\ m.kind = "ConnectTxResponse" /\ m.ok
      /\ m.listener = s /\ m.talker = e /\ m.ctl = h.ctl
  <2>1. "ConnectTxResponse" \in StreamKinds
    BY DEF StreamKinds
  <2>2. m \in StreamFrames
    BY <1>2, <1>5, <2>1, AsFrame
  <2> QED
    BY <1>2, <1>3, <1>5, <2>2, AsFields
<1>7. /\ ConsumeAndSend(s, e, s, m)
      /\ table' = [table EXCEPT ![e] = Append(@, s)]
      /\ UNCHANGED <<owner, info, attached, clientVars>>
  <2>1. (Len(table[e]) < MaxListeners \/ FullStatus) = TRUE
    BY DEF FullStatus
  <2> QED
    BY <1>0, <1>3, <1>4, <1>5, <2>1 DEF ConnectTxCommand, listenerVars
<1>8. \A x \in Entity :
        Listed(x)' = IF x = e THEN Listed(x) \cup {s} ELSE Listed(x)
  BY <1>2, <1>3, <1>7, AppendListed DEF IInv
<1>9. OthersSame(s)
  BY <1>7, <1>8 DEF OthersSame, ListedAt
<1>10. Ends(s, None, {e})'
  BY <1>3, <1>7, <1>8 DEF Ends, ListedAt
<1>11. Asks("connect", m, info[s].seq)'
  BY <1>2, <1>3, <1>6, <1>7, RequestsStay DEF Asks
<1>12. Stage(<<e, s>>, m)'
  BY <1>6, <1>10, <1>11 DEF Stage
<1>13. ReservesOnlyItsStream'
  BY <1>7 DEF OInv, ReservesOnlyItsStream
<1>14. OInv' /\ Untouched(s)
  <2>1. {e} \in SUBSET {h.talker} /\ s \in Station
    BY <1>3
  <2>2. /\ OthersSame(h.listener) /\ Ends(h.listener, None, {e})'
        /\ m.listener = h.listener /\ m.talker = h.talker
    BY <1>3, <1>6, <1>9, <1>10
  <2>3. OInv' /\ Untouched(h.listener)
    <3>1. PICK to \in Station, w2 \in SUBSET {h.talker} : to = s /\ w2 = {e}
      BY <2>1
    <3>2. /\ UNCHANGED <<owner, clientVars>> /\ ConsumeAndSend(s, e, to, m)
          /\ Ends(h.listener, None, w2)' /\ Stage(<<e, to>>, m)'
          /\ m \in StreamFrames
      BY <1>6, <1>7, <1>12, <2>2, <3>1
    <3> QED
      BY <1>0, <1>1, <1>13, <2>1, <2>2, <3>2, AnswerKeeps
  <2> QED
    BY <1>3, <2>3
<1>15. BothHold' = BothHold
  BY <1>2, <1>3, <1>10, <1>14, HeldChange
<1> QED
  BY <1>7, <1>14, <1>15, RequestsStay DEF Implements, C!vars

\* The listener connects: Connect of Connections.
LEMMA ConnectTxResponseStep ==
  ASSUME IInv, IInv', OInv, NEW e \in Entity, NEW s \in Station,
         ConnectTxResponse(e, s)
  PROVE  OInv' /\ Implements
<1>0. PICK h : h = Head(chan[<<s, e>>])
  OBVIOUS
<1>1. Arrived(s, e, "ConnectTxResponse") /\ e \in Station
  BY DEF ConnectTxResponse, Station
<1>2. /\ h \in StreamFrames /\ h.kind = "ConnectTxResponse"
      /\ h.listener \in Entity /\ h.talker \in Entity /\ h.ctl \in Station
      /\ h.ctl \in Controller /\ h.seq \in Nat
      /\ <<h.listener, h.talker>> \in Pairs
      /\ Stage(<<s, e>>, h)
  BY <1>0, <1>1, Reads DEF Station
<1>3. /\ h.listener = e /\ s = h.talker
      /\ Ends(e, None, {s}) /\ Asks("connect", h, info[e].seq)
  BY <1>2 DEF Stage
<1>4. /\ info \in [Entity -> Infos] /\ attached \in [Entity -> SUBSET Entity]
      /\ info[e].seq \in Nat /\ s # None
  BY <1>2, <1>3, AcmpAssumption DEF IInv, ListenerOK, Infos
<1>5. PICK m : m = [As(h, "ConnectRxResponse") EXCEPT !.seq = info[e].seq]
  OBVIOUS
<1>6. /\ m \in StreamFrames /\ m.kind = "ConnectRxResponse"
      /\ m.listener = e /\ m.talker = s /\ m.ctl = h.ctl
      /\ m.seq = info[e].seq
  <2>1. "ConnectRxResponse" \in StreamKinds
    BY DEF StreamKinds
  <2>2. m \in StreamFrames
    BY <1>2, <1>4, <1>5, <2>1, AsFrame
  <2> QED
    BY <1>2, <1>3, <1>5, <2>2, AsFields
<1>7. /\ ConsumeAndSend(s, e, h.ctl, m)
      /\ info' = [info EXCEPT ![e] =
                    [@ EXCEPT !.talker = s, !.stream = s,
                              !.connected = TRUE, !.pending = FALSE]]
      /\ attached' = [attached EXCEPT ![e] = @ \cup {s}]
      /\ UNCHANGED <<owner, table, clientVars>>
  BY <1>0, <1>3, <1>5 DEF ConnectTxResponse, talkerVars
<1>8. /\ info'[e].connected /\ info'[e].stream = s
      /\ info'[e].seq = info[e].seq
      /\ \A x \in Entity : x # e => info'[x] = info[x]
  BY <1>4, <1>7 DEF Infos
<1>9. \A x \in Entity : ListedAt(x)' = ListedAt(x)
  BY <1>7 DEF ListedAt, Listed
<1>10. OthersSame(e)
  BY <1>8, <1>9 DEF OthersSame
<1>11. Ends(e, s, {s})'
  BY <1>3, <1>4, <1>8, <1>9 DEF Ends
<1>12. Asks("connect", m, m.seq)'
  BY <1>2, <1>3, <1>6, <1>7, RequestsStay DEF Asks
<1>13. Stage(<<e, h.ctl>>, m)'
  BY <1>6, <1>11, <1>12 DEF Stage
<1>14. ReservesOnlyItsStream'
  <2>1. attached[e] = {}
    BY <1>3 DEF OInv, ReservesOnlyItsStream, Ends
  <2> QED
    BY <1>4, <1>7, <1>8, <2>1 DEF OInv, ReservesOnlyItsStream
<1>15. OInv' /\ Untouched(e)
  <2>1. {s} \in SUBSET {h.talker}
    BY <1>3
  <2> QED
    BY <1>0, <1>1, <1>2, <1>3, <1>6, <1>7, <1>10, <1>11, <1>13, <1>14, <2>1,
       AnswerKeeps
<1>16. <<e, s>> \notin BothHold /\ BothHold' = BothHold \cup {<<e, s>>}
  BY <1>2, <1>3, <1>4, <1>11, <1>15, HeldChange
<1>17. C!Asked("connect", <<e, s>>)
  <2>1. PICK r : /\ r = [kind |-> "connect", ctl |-> h.ctl, listener |-> e,
                         talker |-> s, seq |-> info[e].seq]
                 /\ r \in open[h.ctl]
    BY <1>3 DEF Asks
  <2>2. r \in UNION {open[c] : c \in Controller}
    BY <1>2, <2>1
  <2>3. r.kind = "connect" /\ C!Pair(r) = <<e, s>>
    BY <2>1 DEF C!Pair
  <2> QED
    BY <2>2, <2>3 DEF C!Asked
<1>18. C!Connect(<<e, s>>)
  BY <1>7, <1>16, <1>17, RequestsStay DEF C!Connect
<1> QED
  BY <1>2, <1>3, <1>15, <1>18 DEF Implements, C!Next

\* The listener disconnects: Disconnect of Connections.
LEMMA DisconnectRxCommandStep ==
  ASSUME IInv, IInv', OInv, NEW e \in Entity, NEW s \in Station,
         DisconnectRxCommand(e, s)
  PROVE  OInv' /\ Implements
<1>0. PICK h : h = Head(chan[<<s, e>>])
  OBVIOUS
<1>1. Arrived(s, e, "DisconnectRxCommand") /\ e \in Station
  BY DEF DisconnectRxCommand, Station
<1>2. /\ h \in StreamFrames /\ h.kind = "DisconnectRxCommand"
      /\ h.listener \in Entity /\ h.talker \in Entity /\ h.talker \in Station
      /\ h.ctl \in Controller /\ h.seq \in Nat
      /\ <<h.listener, h.talker>> \in Pairs
      /\ Stage(<<s, e>>, h)
  BY <1>0, <1>1, Reads DEF Station
<1>3. /\ h.listener = e /\ s = h.ctl
      /\ Ends(e, h.talker, {h.talker}) /\ Asks("disconnect", h, h.seq)
  BY <1>2 DEF Stage
<1>4. /\ info \in [Entity -> Infos] /\ attached \in [Entity -> SUBSET Entity]
      /\ h.talker # None
  BY <1>2, AcmpAssumption DEF IInv, ListenerOK
<1>5. PICK m : m = As(h, "DisconnectTxCommand")
  OBVIOUS
<1>6. /\ m \in StreamFrames /\ m.kind = "DisconnectTxCommand"
      /\ m.listener = e /\ m.talker = h.talker /\ m.ctl = h.ctl
  <2>1. "DisconnectTxCommand" \in StreamKinds
    BY DEF StreamKinds
  <2>2. m \in StreamFrames
    BY <1>2, <1>5, <2>1, AsFrame
  <2> QED
    BY <1>2, <1>3, <1>5, <2>2, AsFields
<1>7. /\ ConsumeAndSend(s, e, h.talker, m)
      /\ info' = [info EXCEPT ![e] = [NoStream EXCEPT !.seq = h.seq]]
      /\ attached' = [attached EXCEPT ![e] = @ \ {info[e].stream}]
      /\ UNCHANGED <<owner, table, clientVars>>
  BY <1>0, <1>5 DEF DisconnectRxCommand, talkerVars
<1>8. /\ ~info'[e].connected /\ info'[e].seq = h.seq
      /\ \A x \in Entity : x # e => info'[x] = info[x]
  BY <1>4, <1>7 DEF NoStream
<1>9. \A x \in Entity : ListedAt(x)' = ListedAt(x)
  BY <1>7 DEF ListedAt, Listed
<1>10. OthersSame(e)
  BY <1>8, <1>9 DEF OthersSame
<1>11. Ends(e, None, {h.talker})'
  BY <1>3, <1>8, <1>9 DEF Ends
<1>12. Asks("disconnect", m, info[e].seq)'
  BY <1>2, <1>3, <1>6, <1>7, <1>8, RequestsStay DEF Asks
<1>13. Stage(<<e, h.talker>>, m)'
  BY <1>6, <1>11, <1>12 DEF Stage
<1>14. ReservesOnlyItsStream'
  <2>1. attached[e] = {info[e].stream}
    BY <1>3, <1>4 DEF OInv, ReservesOnlyItsStream, Ends
  <2> QED
    BY <1>4, <1>7, <1>8, <2>1 DEF OInv, ReservesOnlyItsStream
<1>15. OInv' /\ Untouched(e)
  <2>1. {h.talker} \in SUBSET {h.talker}
    OBVIOUS
  <2> QED
    BY <1>0, <1>1, <1>2, <1>3, <1>6, <1>7, <1>10, <1>11, <1>13, <1>14, <2>1,
       AnswerKeeps
<1>16. /\ <<e, h.talker>> \in BothHold
       /\ BothHold' = BothHold \ {<<e, h.talker>>}
  BY <1>2, <1>3, <1>4, <1>11, <1>15, HeldChange
<1>17. C!Asked("disconnect", <<e, h.talker>>)
  <2>1. PICK r : /\ r = [kind |-> "disconnect", ctl |-> h.ctl, listener |-> e,
                         talker |-> h.talker, seq |-> h.seq]
                 /\ r \in open[h.ctl]
    BY <1>3 DEF Asks
  <2>2. r \in UNION {open[c] : c \in Controller}
    BY <1>2, <2>1
  <2>3. r.kind = "disconnect" /\ C!Pair(r) = <<e, h.talker>>
    BY <2>1 DEF C!Pair
  <2> QED
    BY <2>2, <2>3 DEF C!Asked
<1>18. C!Disconnect(<<e, h.talker>>)
  BY <1>7, <1>16, <1>17, RequestsStay DEF C!Disconnect
<1> QED
  BY <1>2, <1>3, <1>15, <1>18 DEF Implements, C!Next

\* The talker removes the listener, which lists it once.
LEMMA DisconnectTxCommandStep ==
  ASSUME IInv, IInv', OInv, NEW e \in Entity, NEW s \in Station,
         DisconnectTxCommand(e, s)
  PROVE  OInv' /\ Implements
<1>0. PICK h : h = Head(chan[<<s, e>>])
  OBVIOUS
<1>1. Arrived(s, e, "DisconnectTxCommand") /\ e \in Station
  BY DEF DisconnectTxCommand, Station
<1>2. /\ h \in StreamFrames /\ h.kind = "DisconnectTxCommand"
      /\ h.listener \in Entity /\ h.talker \in Entity /\ h.listener \in Station
      /\ h.ctl \in Controller /\ h.seq \in Nat
      /\ <<h.listener, h.talker>> \in Pairs
      /\ Stage(<<s, e>>, h)
  BY <1>0, <1>1, Reads DEF Station
<1>3. /\ h.talker = e /\ s = h.listener
      /\ Ends(s, None, {e}) /\ Asks("disconnect", h, info[s].seq)
  BY <1>2 DEF Stage
<1>4. s \in Listed(e)
  BY <1>0, <1>3 DEF DisconnectTxCommand
<1>5. PICK m : m = As(h, "DisconnectTxResponse")
  OBVIOUS
<1>6. /\ m \in StreamFrames /\ m.kind = "DisconnectTxResponse"
      /\ m.listener = s /\ m.talker = e /\ m.ctl = h.ctl
  <2>1. "DisconnectTxResponse" \in StreamKinds
    BY DEF StreamKinds
  <2>2. m \in StreamFrames
    BY <1>2, <1>5, <2>1, AsFrame
  <2> QED
    BY <1>2, <1>3, <1>5, <2>2, AsFields
<1>7. /\ ConsumeAndSend(s, e, s, m)
      /\ table' = [table EXCEPT ![e] = Without(@, s)]
      /\ UNCHANGED <<owner, info, attached, clientVars>>
  BY <1>0, <1>3, <1>5 DEF DisconnectTxCommand, listenerVars
<1>8. \A x \in Entity :
        Listed(x)' = IF x = e THEN Listed(x) \ {s} ELSE Listed(x)
  BY <1>4, <1>7, WithoutListed DEF IInv
<1>9. OthersSame(s)
  BY <1>7, <1>8 DEF OthersSame, ListedAt
<1>10. Ends(s, None, {})'
  BY <1>3, <1>7, <1>8 DEF Ends, ListedAt
<1>11. Asks("disconnect", m, info[s].seq)'
  BY <1>2, <1>3, <1>6, <1>7, RequestsStay DEF Asks
<1>12. Stage(<<e, s>>, m)'
  BY <1>6, <1>10, <1>11 DEF Stage
<1>13. ReservesOnlyItsStream'
  BY <1>7 DEF OInv, ReservesOnlyItsStream
<1>14. OInv' /\ Untouched(s)
  <2>1. {} \in SUBSET {h.talker} /\ s \in Station
    BY <1>3
  <2>2. /\ OthersSame(h.listener) /\ Ends(h.listener, None, {})'
        /\ m.listener = h.listener /\ m.talker = h.talker
    BY <1>3, <1>6, <1>9, <1>10
  <2>3. OInv' /\ Untouched(h.listener)
    <3>1. PICK to \in Station, w2 \in SUBSET {h.talker} : to = s /\ w2 = {}
      BY <2>1
    <3>2. /\ UNCHANGED <<owner, clientVars>> /\ ConsumeAndSend(s, e, to, m)
          /\ Ends(h.listener, None, w2)' /\ Stage(<<e, to>>, m)'
          /\ m \in StreamFrames
      BY <1>6, <1>7, <1>12, <2>2, <3>1
    <3> QED
      BY <1>0, <1>1, <1>13, <2>1, <2>2, <3>2, AnswerKeeps
  <2> QED
    BY <1>3, <2>3
<1>15. BothHold' = BothHold
  BY <1>2, <1>3, <1>10, <1>14, HeldChange
<1> QED
  BY <1>7, <1>14, <1>15, RequestsStay DEF Implements, C!vars

LEMMA DisconnectTxResponseStep ==
  ASSUME IInv, IInv', OInv, NEW e \in Entity, NEW s \in Station,
         DisconnectTxResponse(e, s)
  PROVE  OInv' /\ Implements
<1>0. PICK h : h = Head(chan[<<s, e>>])
  OBVIOUS
<1>1. Arrived(s, e, "DisconnectTxResponse") /\ e \in Station
  BY DEF DisconnectTxResponse, Station
<1>2. /\ h \in StreamFrames /\ h.kind = "DisconnectTxResponse"
      /\ h.listener \in Entity /\ h.talker \in Entity /\ h.ctl \in Station
      /\ h.ctl \in Controller /\ h.seq \in Nat
      /\ <<h.listener, h.talker>> \in Pairs
      /\ Stage(<<s, e>>, h)
  BY <1>0, <1>1, Reads DEF Station
<1>3. /\ h.listener = e /\ s = h.talker
      /\ Ends(e, None, {}) /\ Asks("disconnect", h, info[e].seq)
  BY <1>2 DEF Stage
<1>4. info[e].seq \in Nat
  BY DEF IInv, ListenerOK, Infos
<1>5. PICK m : m = [As(h, "DisconnectRxResponse") EXCEPT !.seq = info[e].seq]
  OBVIOUS
<1>6. /\ m \in StreamFrames /\ m.kind = "DisconnectRxResponse"
      /\ m.listener = e /\ m.talker = s /\ m.ctl = h.ctl
      /\ m.seq = info[e].seq
  <2>1. "DisconnectRxResponse" \in StreamKinds
    BY DEF StreamKinds
  <2>2. m \in StreamFrames
    BY <1>2, <1>4, <1>5, <2>1, AsFrame
  <2> QED
    BY <1>2, <1>3, <1>5, <2>2, AsFields
<1>7. /\ ConsumeAndSend(s, e, h.ctl, m)
      /\ UNCHANGED <<owner, info, attached, table, clientVars>>
  BY <1>0, <1>5 DEF DisconnectTxResponse, listenerVars, talkerVars
<1>8. \A x \in Entity : ListedAt(x)' = ListedAt(x)
  BY <1>7 DEF ListedAt, Listed
<1>9. OthersSame(e)
  BY <1>7, <1>8 DEF OthersSame
<1>10. Ends(e, None, {})'
  BY <1>3, <1>7, <1>8 DEF Ends
<1>11. Asks("disconnect", m, m.seq)'
  BY <1>2, <1>3, <1>6, <1>7, RequestsStay DEF Asks
<1>12. Stage(<<e, h.ctl>>, m)'
  BY <1>6, <1>10, <1>11 DEF Stage
<1>13. ReservesOnlyItsStream'
  BY <1>7 DEF OInv, ReservesOnlyItsStream
<1>14. OInv' /\ Untouched(e)
  <2>1. {} \in SUBSET {h.talker}
    OBVIOUS
  <2> QED
    BY <1>0, <1>1, <1>2, <1>3, <1>6, <1>7, <1>9, <1>10, <1>12, <1>13, <2>1,
       AnswerKeeps
<1>15. BothHold' = BothHold
  BY <1>7, RecordsStay
<1> QED
  BY <1>7, <1>14, <1>15, RequestsStay DEF Implements, C!vars

\* These handlers end a conversation without an answer: between controllers
\* that take turns none of them is ever reached.
LEMMA NeverStuck ==
  ASSUME IInv, OInv, NEW e \in Entity, NEW s \in Station,
         \/ Acquire(e, s) \/ Release(e, s) \/ ConnectTxRefused(e, s)
         \/ ConnectTxUnauthorized(e, s) \/ ConnectTxDuplicate(e, s)
         \/ DisconnectTxUnknown(e, s)
  PROVE  FALSE
<1>0. PICK h : h = Head(chan[<<s, e>>])
  OBVIOUS
<1>1. e \in Station
  BY DEF Station
<1>2. ASSUME NEW kind, Arrived(s, e, kind)
      PROVE  /\ h.kind = kind /\ h \in StreamFrames
             /\ h.listener \in Entity /\ h.talker \in Entity
             /\ Stage(<<s, e>>, h)
  BY <1>0, <1>1, <1>2, Reads
<1>3. CASE Acquire(e, s) \/ Release(e, s)
  <2>1. PICK kind \in {"Acquire", "Release"} : Arrived(s, e, kind)
    BY <1>3 DEF Acquire, Release
  <2>2. h.kind \in StreamKinds
    BY <1>2, <2>1 DEF StreamFrames
  <2> QED
    BY <1>2, <2>1, <2>2 DEF StreamKinds
<1>4. CASE ConnectTxRefused(e, s)
  <2>1. Arrived(s, e, "ConnectTxResponse") /\ ~h.ok
    BY <1>0, <1>4 DEF ConnectTxRefused
  <2> QED
    BY <1>2, <2>1 DEF Stage
<1>5. CASE ConnectTxUnauthorized(e, s)
  BY <1>5 DEF ConnectTxUnauthorized, Authorized, OInv, Unowned
<1>6. CASE ConnectTxDuplicate(e, s)
  <2>1. Arrived(s, e, "ConnectTxCommand") /\ h.listener \in Listed(e)
    BY <1>0, <1>6 DEF ConnectTxDuplicate
  <2>2. ListedAt(h.listener) = {}
    BY <1>2, <2>1 DEF Stage, Ends
  <2> QED
    BY <2>1, <2>2 DEF ListedAt
<1>7. CASE DisconnectTxUnknown(e, s)
  <2>1. Arrived(s, e, "DisconnectTxCommand") /\ h.listener \notin Listed(e)
    BY <1>0, <1>7 DEF DisconnectTxUnknown
  <2>2. ListedAt(h.listener) = {e}
    BY <1>2, <2>1 DEF Stage, Ends
  <2> QED
    BY <2>1, <2>2 DEF ListedAt
<1> QED
  BY <1>3, <1>4, <1>5, <1>6, <1>7

\* The controller takes the answer: Answer of Connections.
LEMMA ResponseStep ==
  ASSUME IInv, OInv, NEW c \in Controller, NEW s \in Station, NEW wire,
         NEW kind, Response(c, s, wire, kind),
         \/ wire = "ConnectRxResponse" /\ kind = "connect"
         \/ wire = "DisconnectRxResponse" /\ kind = "disconnect"
  PROVE  OInv' /\ Implements
<1>0. PICK h : h = Head(chan[<<s, c>>])
  OBVIOUS
<1>1. Arrived(s, c, wire) /\ Consume(s, c) /\ c \in Station
  BY DEF Response, Station
<1>2. /\ h \in StreamFrames /\ h.kind = wire
      /\ h.listener \in Entity /\ h.talker \in Entity
      /\ h.ctl \in Controller /\ h.seq \in Nat
      /\ <<h.listener, h.talker>> \in Pairs
      /\ Stage(<<s, c>>, h)
  BY <1>0, <1>1, Reads
<1> DEFINE l == h.listener
           t == h.talker
<1>3. /\ h.ctl = c /\ Asks(kind, h, h.seq)
      /\ \/ kind = "connect" /\ Ends(l, t, {t})
         \/ kind = "disconnect" /\ Ends(l, None, {})
  BY <1>2 DEF Stage
<1>4. PICK q : /\ q = [kind |-> kind, ctl |-> c, listener |-> l, talker |-> t,
                       seq |-> h.seq]
               /\ q \in open[c]
  BY <1>3 DEF Asks
<1>5. /\ UNCHANGED <<owner, info, attached, table, issued>>
      /\ open' = [open EXCEPT ![c] =
                    {r \in @ : ~(r.kind = kind /\ r.seq = h.seq)}]
  BY <1>0 DEF Response, listenerVars, talkerVars
<1>6. /\ open \in [Controller -> SUBSET AllRequests]
      /\ \A b \in Controller : \A r \in open[b] : r.ctl = b
      /\ \A b \in Controller : \A r, x \in open[b] : r.seq = x.seq => r = x
  BY DEF OInv, RequestsApart
<1>7. \A b \in Controller :
        open'[b] = IF b = c THEN open[b] \ {q} ELSE open[b]
  <2>1. {r \in open[c] : ~(r.kind = kind /\ r.seq = h.seq)} = open[c] \ {q}
    BY <1>4, <1>6
  <2> QED
    BY <1>5, <1>6, <2>1
<1>8. q.kind = kind /\ q.ctl = c /\ q.listener = l /\ C!Pair(q) = <<l, t>>
  BY <1>4 DEF C!Pair
<1>9. Alone(chan') /\ Agree(chan, chan', l) /\ Free(chan', l)
  BY <1>0, <1>1, ConsumeMoves DEF OInv, IInv
<1>10. \A x \in Entity : ListedAt(x)' = ListedAt(x)
  BY <1>5 DEF ListedAt, Listed
<1>11. Untouched(l)
  <2>1. ASSUME NEW b \in Controller, NEW r \in open[b], r.listener # l
        PROVE  r \in open'[b]
    <3>1. r # q
      BY <1>8, <2>1
    <3> QED
      BY <1>7, <3>1
  <2>2. \A x \in Entity \ {l} : info'[x] = info[x] /\ ListedAt(x)' = ListedAt(x)
    BY <1>5, <1>10
  <2> QED
    BY <2>1, <2>2 DEF Untouched
<1>12. Settled(l)'
  <2>1. Settled(l)
    BY <1>2, <1>3, AcmpAssumption DEF Settled, Ends
  <2> QED
    BY <1>2, <1>5, <1>10, <2>1 DEF Settled
<1>13. Staged' /\ AtRest'
  BY <1>2, <1>9, <1>11, <1>12, StepRests
<1>14. ReservesOnlyItsStream' /\ ListsPairs' /\ Unowned' /\ BothHold' = BothHold
  BY <1>5, RecordsStay
<1>15. RequestsApart'
  <2>1. open' \in [Controller -> SUBSET AllRequests]
    BY <1>5, <1>6
  <2>2. \A b \in Controller : open'[b] \subseteq open[b] /\ issued'[b] = issued[b]
    BY <1>5, <1>7
  <2> QED
    BY <2>1, <2>2 DEF OInv, RequestsApart
<1>16. <<l, t>> \in BothHold <=> kind = "connect"
  <2>1. t # None
    BY <1>2, AcmpAssumption
  <2>2. CASE kind = "connect"
    <3>1. Ends(l, t, {t})
      BY <1>3, <2>2
    <3> QED
      BY <1>2, <2>1, <2>2, <3>1, EndsHold
  <2>3. CASE kind = "disconnect"
    <3>1. Ends(l, None, {})
      BY <1>3, <2>3
    <3> QED
      BY <1>2, <2>1, <2>3, <3>1, EndsHold
  <2> QED
    BY <2>2, <2>3
<1>17. C!Answer(q)
  <2> DEFINE A == UNION {open[b] : b \in Controller}
             B == UNION {open'[b] : b \in Controller}
  <2>1. q \in A
    BY <1>4
  <2>2. ASSUME NEW x \in B PROVE x \in A /\ x # q
    <3>1. PICK b \in Controller : x \in open'[b]
      OBVIOUS
    <3>2. x \in open[b] /\ x # q
      BY <1>6, <1>7, <1>8, <3>1
    <3> QED
      BY <3>2
  <2>3. \A x : x \in A /\ x # q => x \in B
    BY <1>7
  <2> HIDE DEF A, B
  <2>4. B = A \ {q}
    BY <2>2, <2>3
  <2> QED
    BY <1>8, <1>14, <1>16, <2>1, <2>4 DEF C!Answer, A, B
<1>18. NoneForgotten' /\ OneAtATime'
  <2>1. \A b \in Controller : \A r \in open'[b] : r \in open[b] /\ r # q
    BY <1>6, <1>7, <1>8
  <2>2. \A b \in Controller : \A r \in open'[b] : r.listener # l
    BY <1>4, <1>8, <2>1 DEF OInv, OneAtATime
  <2>3. NoneForgotten'
    BY <1>9, <2>1, <2>2, StaysUnderWay DEF OInv, NoneForgotten
  <2>4. OneAtATime'
    BY <2>1 DEF OInv, OneAtATime
  <2> QED
    BY <2>3, <2>4
<1> QED
  <2>1. q \in UNION {open[b] : b \in Controller}
    BY <1>4
  <2>2. C!Next
    BY <1>17, <2>1 DEF C!Next
  <2> QED
    BY <1>9, <1>13, <1>14, <1>15, <1>18, <2>2 DEF OInv, Implements

-----------------------------------------------------------------------------
(***************************************************************************)
(* Together.                                                               *)
(***************************************************************************)
LEMMA InitOInv == Init => OInv /\ C!Init
<1> SUFFICES ASSUME Init PROVE OInv /\ C!Init
  OBVIOUS
<1>1. \A k \in Links : On(chan, k) = {} /\ Len(chan[k]) = 0
  BY DEF Init, On
<1>2. Alone(chan) /\ Staged
  BY <1>1 DEF Alone, Staged
<1>3. \A e \in Entity : Listed(e) = {}
  BY DEF Init, Listed
<1>4. AtRest /\ ListsPairs
  BY <1>3 DEF AtRest, Settled, ListedAt, ListsPairs, Init, NoStream
<1>5. ReservesOnlyItsStream /\ Unowned
  BY DEF Init, NoStream, ReservesOnlyItsStream, Unowned
<1>6. RequestsApart
  <2>1. \A c \in Controller : 0 <= MaxCommands[c]
    BY AcmpAssumption
  <2> QED
    BY <2>1 DEF Init, RequestsApart
<1>7. NoneForgotten /\ OneAtATime
  BY DEF Init, NoneForgotten, OneAtATime
<1>8. C!Init
  <2>1. (UNION {open[c] : c \in Controller}) = {}
    BY DEF Init
  <2>2. BothHold = {}
    <3>1. \A p \in Pairs : p[2] \in Entity
      BY AcmpAssumption
    <3> QED
      BY <1>3, <3>1 DEF BothHold
  <2> QED
    BY <2>1, <2>2 DEF C!Init
<1> QED
  BY <1>2, <1>4, <1>5, <1>6, <1>7, <1>8 DEF OInv

LEMMA StutterStep ==
  ASSUME OInv, UNCHANGED vars
  PROVE  OInv' /\ Implements
<1>1. UNCHANGED <<owner, info, attached, table, chan, issued, open>>
  BY DEF vars, listenerVars, talkerVars, clientVars
<1>2. ReservesOnlyItsStream' /\ ListsPairs' /\ Unowned' /\ BothHold' = BothHold
  BY <1>1, RecordsStay
<1>3. RequestsApart'
  BY <1>1 DEF OInv, RequestsApart
<1>4. Alone(chan')
  BY <1>1 DEF OInv
<1>5. \A x : ListedAt(x)' = ListedAt(x)
  BY <1>1 DEF ListedAt, Listed
<1>6. \A l \in Entity : (Idle(l)' <=> Idle(l)) /\ (Settled(l)' <=> Settled(l))
  BY <1>1, <1>5 DEF Idle, Concerns, Settled
<1>7. AtRest'
  BY <1>6 DEF OInv, AtRest
<1>8. ASSUME NEW k, NEW m, Stage(k, m) PROVE Stage(k, m)'
  <2>1. \A l, stream, where : Ends(l, stream, where) => Ends(l, stream, where)'
    BY <1>1, <1>5 DEF Ends
  <2>2. \A kind, seq : Asks(kind, m, seq) => Asks(kind, m, seq)'
    BY <1>1 DEF Asks
  <2> QED
    BY <1>1, <1>8, <2>1, <2>2 DEF Stage
<1>9. Staged'
  <2>1. \A k \in Links : On(chan', k) = On(chan, k)
    BY <1>1
  <2> QED
    BY <1>8, <2>1 DEF OInv, Staged
<1>10. NoneForgotten' /\ OneAtATime'
  BY <1>1, <1>6 DEF OInv, NoneForgotten, OneAtATime, Idle, Concerns
<1> QED
  BY <1>1, <1>2, <1>3, <1>4, <1>7, <1>9, <1>10 DEF OInv, Implements, C!vars

LEMMA OrderlyStep ==
  ASSUME RoomForAll, IInv, OInv, [OrderlyNext]_vars
  PROVE  IInv' /\ OInv' /\ Implements
<1>1. IInv'
  <2>1. OrderlyNext => Next
    BY DEF OrderlyNext, OrderlyCommands, Next, Commands
  <2> QED
    BY <2>1, StepInv
<1>2. CASE OrderlyCommands
  <2>1. PICK c \in Controller, p \in Pairs :
          /\ Idle(p[1])
          /\ \/ ~info[p[1]].connected /\ SendConnect(c, p)
             \/ info[p[1]].connected /\ info[p[1]].stream = p[2]
                   /\ SendDisconnect(c, p)
    BY <1>2 DEF OrderlyCommands
  <2>2. PICK l, t : p = <<l, t>> /\ p[1] = l /\ p[2] = t
    BY AcmpAssumption
  <2>3. OInv' /\ C!Next
    BY <2>1, <2>2, AskStep DEF SendConnect, SendDisconnect
  <2> QED
    BY <1>1, <2>3 DEF Implements
<1>3. ASSUME NEW e \in Entity, NEW s \in Station, EntityReceives(e, s)
      PROVE  OInv' /\ Implements
  BY <1>1, <1>3, NeverStuck, ConnectRxCommandStep, ConnectTxCommandStep,
     ConnectTxResponseStep, DisconnectRxCommandStep, DisconnectTxCommandStep,
     DisconnectTxResponseStep DEF EntityReceives
<1>4. ASSUME NEW c \in Controller, NEW s \in Station, ControllerReceives(c, s)
      PROVE  OInv' /\ Implements
  BY <1>4, ResponseStep DEF ControllerReceives
<1>5. CASE UNCHANGED vars
  BY <1>1, <1>5, StutterStep
<1> QED
  BY <1>1, <1>2, <1>3, <1>4, <1>5 DEF OrderlyNext, Receives

LEMMA OrderlyInvariance ==
  ASSUME RoomForAll
  PROVE  OrderlySpec => [](IInv /\ OInv)
<1>1. Init => IInv /\ OInv
  BY InitInv, InitOInv
<1>2. IInv /\ OInv /\ [OrderlyNext]_vars => (IInv /\ OInv)'
  BY OrderlyStep
<1>3. OrderlySpec => Init /\ [][OrderlyNext]_vars
  BY DEF OrderlySpec, OrderlyNext
<1> QED
  BY <1>1, <1>2, <1>3, PTL

\* Agreement: once the last frame about a listener has been read, it is
\* connected to a talker exactly when that talker lists it (acmp.c, the four
\* handlers of one connection), if no table is ever full.
THEOREM BothEndsAgree ==
  ASSUME RoomForAll
  PROVE  OrderlySpec => []Agreement
<1>1. OInv => Agreement
  <2> SUFFICES ASSUME OInv, NEW p \in Pairs, Idle(p[1])
               PROVE  (info[p[1]].connected /\ info[p[1]].stream = p[2])
                        <=> p[1] \in Listed(p[2])
    BY DEF Agreement
  <2>1. p[1] \in Entity /\ p[2] \in Entity
    BY AcmpAssumption
  <2>2. Settled(p[1])
    BY <2>1 DEF OInv, AtRest
  <2>3. p[1] \in Listed(p[2]) <=> p[2] \in ListedAt(p[1])
    BY <2>1 DEF ListedAt
  <2> QED
    BY <2>2, <2>3 DEF Settled
<1> QED
  BY <1>1, OrderlyInvariance, PTL

\* ReservesOnlyItsStream: a sink has the Listener attribute of the stream it is
\* connected to declared and of no other, so that a disconnection withdraws it.
THEOREM ReservesOwnStream ==
  ASSUME RoomForAll
  PROVE  OrderlySpec => []ReservesOnlyItsStream
<1>1. OInv => ReservesOnlyItsStream
  BY DEF OInv
<1> QED
  BY <1>1, OrderlyInvariance, PTL

\* NoneForgotten: as long as a controller waits for an answer, a frame about
\* the listener it named is under way; no handler of acmp.c that drops a frame
\* without an answer is reached (what Answered needs beside fairness).
THEOREM RequestsUnderWay ==
  ASSUME RoomForAll
  PROVE  OrderlySpec => []NoneForgotten
<1>1. OInv => NoneForgotten
  BY DEF OInv
<1> QED
  BY <1>1, OrderlyInvariance, PTL

\* ManagesConnections: the frames and records of listener and talker implement
\* Connections, step by step.
THEOREM ImplementsConnections ==
  ASSUME RoomForAll
  PROVE  OrderlySpec => ManagesConnections
<1>1. Init => C!Init
  BY InitOInv
<1>2. IInv /\ OInv /\ [OrderlyNext]_vars => [C!Next]_(C!vars)
  BY OrderlyStep DEF Implements
<1>3. OrderlySpec => Init /\ [][OrderlyNext]_vars
  BY DEF OrderlySpec, OrderlyNext
<1> QED
  BY <1>1, <1>2, <1>3, OrderlyInvariance, PTL DEF ManagesConnections, C!Spec
=============================================================================
