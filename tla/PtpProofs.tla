----------------------------- MODULE PtpProofs -----------------------------
(***************************************************************************)
(* Type correctness of the PTP daemons, that a client follows only clocks  *)
(* better than its own, and that on a network whose clocks the comparison  *)
(* of the code orders as the standard does no client ever leaves a source  *)
(* for a worse one.                                                        *)
(***************************************************************************)
EXTENDS Ptp, TLAPS

\* A selected source, valid or not, beats the station's own clock: the check
\* for silence only ever makes a source valid that was selected before.
SelectedBeatsOwn ==
    \A n \in Node : ptp[n].selected # None => IsBetterClock(ptp[n].selected, n)

IInv == TypeOK /\ SelectedBeatsOwn

\* The comparison of the code never contradicts the order of the standard.
OneOrder == \A a, b \in Node : IsBetterClock(a, b) => Outranks(a, b)

\* The numbers a daemon keeps are of their types.
LEMMA Constants ==
    /\ None \notin Node /\ SeqRange \in Nat \ {0}
    /\ Timeout \in Nat /\ SyncInterval \in Nat /\ AnnounceInterval \in Nat
    /\ MaxBoots \in [Node -> Nat] /\ MaxLosses \in Nat
    /\ Together \subseteq Node /\ LossyLinks \subseteq Node \X Node
  BY PtpAssumption

USE DEF Links

\* A frame the daemon sends is a frame.
LEMMA SendsFrames ==
    ASSUME NEW n \in Node, NEW s \in Daemon, base'[n] \in Bases
    PROVE  /\ Sends(n, s) \in Seq(Frames)
           /\ NextSeq(s) \in 0..SeqRange - 1
<1>1. NextSeq(s) \in 0..SeqRange - 1
  <2>1. s.seq \in Nat
    BY Constants DEF Daemon
  <2> QED  BY <2>1, Constants DEF NextSeq
<1>2. ASSUME NEW kind \in {"Announce", "Sync", "FollowUp"},
             NEW q \in 0..SeqRange - 1
      PROVE  Frame(kind, q, n) \in Frames
  BY DEF Frame, Frames
<1>3. 0 \in 0..SeqRange - 1
  BY Constants
<1>4. /\ Frame("Announce", 0, n) \in Frames
      /\ Frame("Sync", NextSeq(s), n) \in Frames
      /\ Frame("FollowUp", NextSeq(s), n) \in Frames
  BY <1>1, <1>2, <1>3
<1>5. /\ <<Frame("Announce", 0, n)>> \in Seq(Frames)
      /\ <<Frame("Sync", NextSeq(s), n), Frame("FollowUp", NextSeq(s), n)>>
            \in Seq(Frames)
      /\ <<>> \in Seq(Frames)
  BY <1>4
<1> QED
  BY <1>1, <1>5 DEF Sends

\* The end of the loop keeps the type, and the source the handler left.
LEMMA AfterSendType ==
    ASSUME NEW s \in Daemon
    PROVE  /\ AfterSend(s) \in Daemon
           /\ AfterSend(s).selected = s.selected
           /\ AfterSend(s).valid => s.selected # None
<1>1. NextSeq(s) \in 0..SeqRange - 1
  <2>1. s.seq \in Nat
    BY Constants DEF Daemon
  <2> QED  BY <2>1, Constants DEF NextSeq
<1>2. /\ 0 \in 0..AnnounceInterval + 1 /\ 0 \in 0..SyncInterval + 1
      /\ SourceValid(s) \in BOOLEAN
  BY Constants DEF SourceValid
<1> QED
  BY <1>1, <1>2 DEF AfterSend, Daemon, SourceValid

\* One round of the loop keeps the invariant when its handler does.
LEMMA FinishLoopKeeps ==
    ASSUME IInv, NEW n \in Node, NEW s \in Daemon, NEW box \in [Links -> Seq(Frames)],
           s.selected # None => IsBetterClock(s.selected, n),
           base' \in [Node -> Bases], gap' \in [Links -> BOOLEAN],
           n \in up, FinishLoop(n, s, box)
    PROVE  IInv'
<1>1. ptp' = [ptp EXCEPT ![n] = AfterSend(s)] /\ ptp \in [Node -> Daemon]
  BY DEF FinishLoop, IInv, TypeOK
<1>2. ptp' \in [Node -> Daemon]
  BY <1>1, AfterSendType
<1>3. ASSUME NEW m \in Node, ptp'[m].selected # None
      PROVE  IsBetterClock(ptp'[m].selected, m)
  <2>1. CASE m = n
    BY <1>1, <1>3, <2>1, AfterSendType
  <2>2. CASE m # n
    BY <1>1, <1>3, <2>2 DEF IInv, SelectedBeatsOwn
  <2> QED  BY <2>1, <2>2
<1>4. ASSUME NEW m \in Node, ptp'[m].valid
      PROVE  /\ ptp'[m].selected \in Node
             /\ IsBetterClock(ptp'[m].selected, m)
  <2>1. ptp'[m].selected # None
    <3>1. CASE m = n
      BY <1>1, <1>4, <3>1, AfterSendType
    <3>2. CASE m # n
      BY <1>1, <1>4, <3>2, Constants DEF IInv, TypeOK
    <3> QED  BY <3>1, <3>2
  <2>2. ptp'[m].selected \in Node \cup {None}
    BY <1>2 DEF Daemon
  <2> QED  BY <1>3, <2>1, <2>2
<1>5. chan' \in [Links -> Seq(Frames)]
  <2>1. Sends(n, s) \in Seq(Frames)
    BY SendsFrames
  <2>2. ASSUME NEW k \in Links
        PROVE  /\ box[k] \in Seq(Frames) /\ box[k] \o Sends(n, s) \in Seq(Frames)
    BY <2>1
  <2> QED  BY <2>2 DEF FinishLoop
<1>6. polled' \subseteq up' /\ up' \subseteq Node
  BY DEF FinishLoop, IInv, TypeOK
<1>7. boots' \in [Node -> Nat] /\ lost' \in 0..MaxLosses
  BY DEF FinishLoop, IInv, TypeOK
<1> QED
  BY <1>2, <1>3, <1>4, <1>5, <1>6, <1>7 DEF IInv, TypeOK, SelectedBeatsOwn

\* A frame that is taken from a channel was a frame, and leaves frames.
LEMMA TakenFrame ==
    ASSUME IInv, NEW n \in Node, NEW src \in Node, NEW kind,
           Arrived(src, n, kind)
    PROVE  /\ n \in up
           /\ Head(chan[<<src, n>>]) \in Frames
           /\ Rest(src, n) \in [Links -> Seq(Frames)]
<1>1. <<src, n>> \in Links /\ chan \in [Links -> Seq(Frames)]
  BY DEF IInv, TypeOK
<1>2. chan[<<src, n>>] \in Seq(Frames) /\ chan[<<src, n>>] # <<>>
  BY <1>1 DEF Arrived
<1>3. /\ Head(chan[<<src, n>>]) \in Frames
      /\ Tail(chan[<<src, n>>]) \in Seq(Frames)
  BY <1>2
<1> QED
  BY <1>1, <1>3 DEF Arrived, Rest

\* The handler of Announce selects only what beats our own clock.
LEMMA AnnounceSelects ==
    ASSUME NEW s \in Daemon, NEW n \in Node, NEW src \in Node,
           s.selected # None => IsBetterClock(s.selected, n)
    PROVE  LET t == ProcessAnnounce(s, n, src) IN
           /\ t \in Daemon
           /\ t.selected # None => IsBetterClock(t.selected, n)
           /\ t.selected # s.selected /\ s.valid
                => t.selected = src /\ IsBetterClock(src, s.selected)
<1>1. 0 \in 0..Timeout + 1
  BY Constants
<1>2. CASE /\ IsBetterClock(src, n)
           /\ ~s.valid \/ IsBetterClock(src, s.selected)
  <2> DEFINE t == [s EXCEPT !.selected = src, !.sinceSync = 0]
  <2>1. ProcessAnnounce(s, n, src) = t
    BY <1>2 DEF ProcessAnnounce
  <2>2. t \in Daemon /\ t.selected = src
    BY <1>1 DEF Daemon
  <2> HIDE DEF t
  <2> QED  BY <1>2, <2>1, <2>2
<1>3. CASE ~(/\ IsBetterClock(src, n)
             /\ ~s.valid \/ IsBetterClock(src, s.selected))
  <2>1. ProcessAnnounce(s, n, src) = s
    BY <1>3 DEF ProcessAnnounce
  <2> QED  BY <2>1
<1> QED  BY <1>2, <1>3

\* The handler of Sync keeps the selected source.
LEMMA SyncKeeps ==
    ASSUME NEW s \in Daemon, NEW n \in Node, NEW src \in Node,
           NEW m \in Frames, base[n] \in Bases, boots[src] \in Nat
    PROVE  /\ ProcessSync(s, n, src, m) \in Daemon
           /\ ProcessSync(s, n, src, m).selected = s.selected
<1>1. 0 \in 0..Timeout + 1 /\ m.seq \in 0..SeqRange - 1
  BY Constants DEF Frames
<1> QED
  BY <1>1 DEF ProcessSync, Daemon

LEMMA InitIInv == Init => IInv
<1> SUFFICES ASSUME Init PROVE IInv
  OBVIOUS
<1>1. NoSync \in [src : Node \cup {None}, seq : 0..SeqRange - 1, base : Bases,
                  boot : Nat]
  BY Constants DEF NoSync, Bases
<1>2. Initial \in Daemon
  BY <1>1, Constants DEF Initial, Daemon
<1>3. ptp \in [Node -> Daemon]
  BY <1>2 DEF Init
<1>4. base \in [Node -> Bases]
  BY DEF Init, Base, Bases
<1>5. \A n \in Node : ptp[n].selected = None /\ ~ptp[n].valid
  BY DEF Init, Initial
<1>6. chan \in [Links -> Seq(Frames)] /\ gap \in [Links -> BOOLEAN]
  BY DEF Init
<1>7. up \subseteq Node /\ polled \subseteq up /\ boots \in [Node -> Nat]
        /\ lost \in 0..MaxLosses
  BY Constants DEF Init
<1> QED
  BY <1>3, <1>4, <1>5, <1>6, <1>7 DEF IInv, TypeOK, SelectedBeatsOwn

\* One step per action; the loops share FinishLoopKeeps.
LEMMA StepIInv == IInv /\ [Next]_vars => IInv'
<1> SUFFICES ASSUME IInv, [Next]_vars PROVE IInv'
  OBVIOUS
<1>0. /\ ptp \in [Node -> Daemon] /\ base \in [Node -> Bases]
      /\ chan \in [Links -> Seq(Frames)] /\ boots \in [Node -> Nat]
      /\ gap \in [Links -> BOOLEAN] /\ up \subseteq Node /\ polled \subseteq up
      /\ lost \in 0..MaxLosses
  BY DEF IInv, TypeOK
<1>1. CASE UNCHANGED vars
  <2>1. UNCHANGED <<up, ptp, base, chan, polled, boots, lost, gap>>
    BY <1>1 DEF vars
  <2> QED
    BY <2>1 DEF IInv, TypeOK, SelectedBeatsOwn
<1>2. CASE Tick
  <2> DEFINE aged(n) == [ptp[n] EXCEPT !.sinceSync = Older(@, Timeout),
                           !.sinceAnnounce = Older(@, AnnounceInterval),
                           !.sinceSent = Older(@, SyncInterval)]
  <2>1. ptp' = [n \in Node |-> IF n \in up THEN aged(n) ELSE ptp[n]]
    BY <1>2 DEF Tick
  <2>2. ASSUME NEW limit \in Nat, NEW age \in 0..limit + 1
        PROVE  Older(age, limit) \in 0..limit + 1
    BY DEF Older
  <2>3. ASSUME NEW n \in Node
        PROVE  /\ aged(n) \in Daemon /\ aged(n).selected = ptp[n].selected
               /\ aged(n).valid = ptp[n].valid
    <3>1. /\ ptp[n].sinceSync \in 0..Timeout + 1
          /\ ptp[n].sinceAnnounce \in 0..AnnounceInterval + 1
          /\ ptp[n].sinceSent \in 0..SyncInterval + 1
      BY <1>0 DEF Daemon
    <3>2. /\ Older(ptp[n].sinceSync, Timeout) \in 0..Timeout + 1
          /\ Older(ptp[n].sinceAnnounce, AnnounceInterval) \in 0..AnnounceInterval + 1
          /\ Older(ptp[n].sinceSent, SyncInterval) \in 0..SyncInterval + 1
      BY <2>2, <3>1, Constants
    <3> QED  BY <1>0, <3>2 DEF Daemon
  <2> HIDE DEF aged
  <2>4. \A n \in Node : /\ ptp'[n] \in Daemon
                        /\ ptp'[n].selected = ptp[n].selected
                        /\ ptp'[n].valid = ptp[n].valid
    BY <1>0, <2>1, <2>3
  <2>5. ptp' \in [Node -> Daemon]
    BY <2>1, <2>4
  <2>6. UNCHANGED <<up, base, chan, boots, lost, gap>> /\ polled' = {}
    BY <1>2 DEF Tick
  <2> QED
    BY <1>0, <2>4, <2>5, <2>6 DEF IInv, TypeOK, SelectedBeatsOwn
<1>3. ASSUME NEW n \in Node, Poll(n) PROVE IInv'
  <2>1. /\ n \in up /\ base' = base /\ gap' = gap
        /\ FinishLoop(n, ptp[n], chan)
    BY <1>3 DEF Poll
  <2> QED
    BY <1>0, <2>1, FinishLoopKeeps DEF IInv, SelectedBeatsOwn
<1>4. ASSUME NEW n \in Node, NEW src \in Node, ReceiveAnnounce(n, src)
      PROVE  IInv'
  <2> DEFINE t == ProcessAnnounce(ptp[n], n, src)
  <2>1. /\ Arrived(src, n, "Announce") /\ base' = base /\ gap' = gap
        /\ FinishLoop(n, t, Rest(src, n))
    BY <1>4 DEF ReceiveAnnounce
  <2>2. /\ t \in Daemon /\ (t.selected # None => IsBetterClock(t.selected, n))
    BY <1>0, AnnounceSelects DEF IInv, SelectedBeatsOwn
  <2> HIDE DEF t
  <2> QED
    BY <1>0, <2>1, <2>2, TakenFrame, FinishLoopKeeps
<1>5. ASSUME NEW n \in Node, NEW src \in Node, ReceiveSync(n, src)
      PROVE  IInv'
  <2> DEFINE t == ProcessSync(ptp[n], n, src, Head(chan[<<src, n>>]))
  <2>1. /\ Arrived(src, n, "Sync") /\ base' = base
        /\ gap' = [gap EXCEPT ![<<src, n>>] = FALSE]
        /\ FinishLoop(n, t, Rest(src, n))
    BY <1>5 DEF ReceiveSync
  <2>2. /\ n \in up /\ Head(chan[<<src, n>>]) \in Frames
        /\ Rest(src, n) \in [Links -> Seq(Frames)]
    BY <2>1, TakenFrame
  <2>3. t \in Daemon /\ t.selected = ptp[n].selected
    BY <1>0, <2>2, SyncKeeps
  <2>4. gap' \in [Links -> BOOLEAN]
    BY <1>0, <2>1
  <2> HIDE DEF t
  <2>5. t.selected # None => IsBetterClock(t.selected, n)
    BY <2>3 DEF IInv, SelectedBeatsOwn
  <2> QED
    BY <1>0, <2>1, <2>2, <2>3, <2>4, <2>5, FinishLoopKeeps
<1>6. ASSUME NEW n \in Node, NEW src \in Node, ReceiveFollowUp(n, src)
      PROVE  IInv'
  <2> DEFINE m == Head(chan[<<src, n>>])
  <2>1. /\ Arrived(src, n, "FollowUp")
        /\ base' = IF UsesFollowUp(ptp[n], src, m)
                   THEN [base EXCEPT ![n] = Updated(n, ptp[n], m)] ELSE base
        /\ gap' = [gap EXCEPT ![<<src, n>>] = FALSE]
        /\ FinishLoop(n, ptp[n], Rest(src, n))
    BY <1>6 DEF ReceiveFollowUp
  <2>2. /\ n \in up /\ m \in Frames /\ Rest(src, n) \in [Links -> Seq(Frames)]
    BY <2>1, TakenFrame
  <2> HIDE DEF m
  <2>3. base' \in [Node -> Bases]
    <3>1. m.base \in Bases /\ Torn \in Bases
      BY <2>2 DEF Frames, Bases
    <3>2. Updated(n, ptp[n], m) \in Bases
      BY <1>0, <3>1 DEF Updated
    <3> QED  BY <1>0, <2>1, <3>2
  <2>4. gap' \in [Links -> BOOLEAN]
    BY <1>0, <2>1
  <2> QED
    BY <1>0, <2>1, <2>2, <2>3, <2>4, FinishLoopKeeps
       DEF IInv, SelectedBeatsOwn
<1>7. ASSUME NEW n \in Node, Boot(n) PROVE IInv'
  <2>1. /\ UNCHANGED <<ptp, chan, polled, lost, gap>>
        /\ up' = up \cup {n} /\ boots' = [boots EXCEPT ![n] = @ + 1]
        /\ base' = [base EXCEPT ![n] = Base(n, boots[n] + 1)]
    BY <1>7 DEF Boot
  <2>2. boots' \in [Node -> Nat]
    BY <1>0, <2>1
  <2>3. base' \in [Node -> Bases]
    <3>1. boots[n] + 1 \in Nat
      BY <1>0
    <3>2. Base(n, boots[n] + 1) \in Bases
      BY <3>1 DEF Base, Bases
    <3> QED  BY <1>0, <2>1, <3>2
  <2> QED
    BY <1>0, <2>1, <2>2, <2>3 DEF IInv, TypeOK, SelectedBeatsOwn
<1>8. ASSUME NEW n \in Node, Crash(n) PROVE IInv'
  <2>1. /\ UNCHANGED <<chan, polled, boots, lost, gap>> /\ polled = {}
        /\ up' = up \ {n} /\ ptp' = [ptp EXCEPT ![n] = Initial]
        /\ base' = [base EXCEPT ![n] = Torn]
    BY <1>8 DEF Crash, Quiet
  <2>2. NoSync \in [src : Node \cup {None}, seq : 0..SeqRange - 1, base : Bases,
                    boot : Nat]
    BY Constants DEF NoSync, Bases
  <2>3. Initial \in Daemon /\ Initial.selected = None /\ ~Initial.valid
    BY <2>2, Constants DEF Initial, Daemon
  <2>4. ptp' \in [Node -> Daemon] /\ base' \in [Node -> Bases]
    <3>1. Torn \in Bases
      BY DEF Bases
    <3> QED  BY <1>0, <2>1, <2>3, <3>1
  <2>5. \A m \in Node : ptp'[m] = ptp[m] \/ ptp'[m] = Initial
    BY <1>0, <2>1
  <2>6. \A m \in Node : /\ ptp'[m].selected # None
                              => IsBetterClock(ptp'[m].selected, m)
                        /\ ptp'[m].valid => /\ ptp'[m].selected \in Node
                                            /\ IsBetterClock(ptp'[m].selected, m)
    BY <2>3, <2>5 DEF IInv, TypeOK, SelectedBeatsOwn
  <2> QED
    BY <1>0, <2>1, <2>4, <2>6 DEF IInv, TypeOK, SelectedBeatsOwn
<1>9. ASSUME NEW k \in LossyLinks, Lose(k) PROVE IInv'
  <2>1. /\ UNCHANGED <<up, ptp, base, polled, boots>>
        /\ lost < MaxLosses /\ lost' = lost + 1 /\ chan[k] # <<>>
        /\ chan' = [chan EXCEPT ![k] = Tail(@)]
        /\ gap' = [gap EXCEPT ![k] = Head(chan[k]).kind = "Sync"]
    BY <1>9 DEF Lose
  <2>2. k \in Links
    BY Constants
  <2>3. chan' \in [Links -> Seq(Frames)]
    <3>1. Tail(chan[k]) \in Seq(Frames)
      BY <1>0, <2>1, <2>2
    <3> QED  BY <1>0, <2>1, <3>1
  <2>4. gap' \in [Links -> BOOLEAN] /\ lost' \in 0..MaxLosses
    BY <1>0, <2>1, Constants
  <2> QED
    BY <1>0, <2>1, <2>3, <2>4 DEF IInv, TypeOK, SelectedBeatsOwn
<1> QED
  BY <1>1, <1>2, <1>3, <1>4, <1>5, <1>6, <1>7, <1>8, <1>9
     DEF Next, Run, Receive

\* The daemons keep their types, and every client follows a clock that beats
\* its own (is_better_clock in ptp_process_announce).
THEOREM TypeCorrect == Spec => []TypeOK
<1>1. IInv => TypeOK
  BY DEF IInv
<1> QED
  BY InitIInv, StepIInv, <1>1, PTL DEF Spec

\* Only an Announce changes the source of a client that keeps one.
LEMMA SourceChange ==
    ASSUME IInv, [Next]_vars, NEW n \in Node, ptp[n].valid, ptp'[n].valid,
           ptp'[n].selected # ptp[n].selected
    PROVE  ptp'[n].selected \in Node
              /\ IsBetterClock(ptp'[n].selected, ptp[n].selected)
<1>0. ptp \in [Node -> Daemon] /\ ptp[n].selected \in Node
  BY DEF IInv, TypeOK
<1>1. ASSUME NEW m \in Node, NEW s \in Daemon, NEW box, FinishLoop(m, s, box)
      PROVE  ptp'[n].selected = IF m = n THEN s.selected ELSE ptp[n].selected
  <2>1. ptp' = [ptp EXCEPT ![m] = AfterSend(s)]
    BY <1>1 DEF FinishLoop
  <2> QED  BY <1>0, <2>1, AfterSendType
<1>2. CASE UNCHANGED vars
  BY <1>2 DEF vars
<1>3. CASE Tick
  <2> DEFINE aged(m) == [ptp[m] EXCEPT !.sinceSync = Older(@, Timeout),
                           !.sinceAnnounce = Older(@, AnnounceInterval),
                           !.sinceSent = Older(@, SyncInterval)]
  <2>1. ptp' = [m \in Node |-> IF m \in up THEN aged(m) ELSE ptp[m]]
    BY <1>3 DEF Tick
  <2>2. aged(n).selected = ptp[n].selected
    BY <1>0 DEF Daemon
  <2> HIDE DEF aged
  <2> QED  BY <2>1, <2>2
<1>4. ASSUME NEW m \in Node, Poll(m) PROVE FALSE
  BY <1>0, <1>1, <1>4 DEF Poll
<1>5. ASSUME NEW m \in Node, NEW src \in Node, ReceiveAnnounce(m, src)
      PROVE  /\ ptp'[n].selected \in Node
             /\ IsBetterClock(ptp'[n].selected, ptp[n].selected)
  <2> DEFINE t == ProcessAnnounce(ptp[m], m, src)
  <2>1. FinishLoop(m, t, Rest(src, m))
    BY <1>5 DEF ReceiveAnnounce
  <2>2. /\ t \in Daemon
        /\ t.selected # ptp[m].selected /\ ptp[m].valid
             => t.selected = src /\ IsBetterClock(src, ptp[m].selected)
    BY <1>0, AnnounceSelects DEF IInv, SelectedBeatsOwn
  <2> HIDE DEF t
  <2>3. ptp'[n].selected = IF m = n THEN t.selected ELSE ptp[n].selected
    BY <1>1, <2>1, <2>2
  <2> QED  BY <2>2, <2>3
<1>6. ASSUME NEW m \in Node, NEW src \in Node, ReceiveSync(m, src) PROVE FALSE
  <2> DEFINE t == ProcessSync(ptp[m], m, src, Head(chan[<<src, m>>]))
  <2>1. Arrived(src, m, "Sync") /\ FinishLoop(m, t, Rest(src, m))
    BY <1>6 DEF ReceiveSync
  <2>2. t \in Daemon /\ t.selected = ptp[m].selected
    BY <1>0, <2>1, TakenFrame, SyncKeeps DEF IInv, TypeOK
  <2> HIDE DEF t
  <2> QED  BY <1>1, <2>1, <2>2
<1>7. ASSUME NEW m \in Node, NEW src \in Node, ReceiveFollowUp(m, src)
      PROVE  FALSE
  BY <1>0, <1>1, <1>7 DEF ReceiveFollowUp
<1>8. ASSUME NEW m \in Node, Boot(m) PROVE FALSE
  BY <1>8 DEF Boot
<1>9. ASSUME NEW m \in Node, Crash(m) PROVE FALSE
  <2>1. ptp' = [ptp EXCEPT ![m] = Initial]
    BY <1>9 DEF Crash
  <2> QED  BY <1>0, <2>1 DEF Initial
<1>10. ASSUME NEW k \in LossyLinks, Lose(k) PROVE FALSE
  BY <1>10 DEF Lose
<1> QED
  BY <1>2, <1>3, <1>4, <1>5, <1>6, <1>7, <1>8, <1>9, <1>10
     DEF Next, Run, Receive

\* Where is_better_clock does not contradict the order of the standard, no
\* client leaves a source that it still hears for a worse one.
THEOREM NeverLeavesForWorse ==
    ASSUME OneOrder
    PROVE  Spec => LeavesOnlyForBetter
<1> DEFINE Better ==
      \A n \in Node :
          ptp[n].valid /\ ptp'[n].valid /\ ptp'[n].selected # ptp[n].selected
          => Outranks(ptp'[n].selected, ptp[n].selected)
<1>1. IInv /\ [Next]_vars => [Better]_vars
  <2> SUFFICES ASSUME IInv, [Next]_vars, NEW n \in Node, ptp[n].valid,
                      ptp'[n].valid, ptp'[n].selected # ptp[n].selected
               PROVE  Outranks(ptp'[n].selected, ptp[n].selected)
    OBVIOUS
  <2>1. ptp[n].selected \in Node
    BY DEF IInv, TypeOK
  <2> QED  BY <2>1, SourceChange DEF OneOrder
<1> QED
  BY InitIInv, StepIInv, <1>1, PTL DEF Spec, LeavesOnlyForBetter

\* Builds of this repository, which announce the same priority and no steps,
\* are ordered by their identities as the standard orders them.
THEOREM SameBuildsHaveOneOrder ==
    ASSUME \A a, b \in Node : /\ Clock[a].priority1 = Clock[b].priority1
                              /\ Clock[a].steps = Clock[b].steps
    PROVE  OneOrder
<1>1. Clock \in [Node -> [priority1 : Nat, identity : Nat, steps : Nat]]
  BY PtpAssumption
<1>2. ASSUME NEW a \in Node, NEW b \in Node, IsBetterClock(a, b)
      PROVE  Outranks(a, b)
  <2>1. /\ Clock[a] \in [priority1 : Nat, identity : Nat, steps : Nat]
        /\ Clock[a].priority1 \in Nat /\ Clock[a].steps \in Nat
    BY <1>1
  <2>2. /\ Clock[a].priority1 = Clock[b].priority1
        /\ Clock[a].steps = Clock[b].steps
    OBVIOUS
  <2> QED  BY <1>2, <2>1, <2>2 DEF IsBetterClock, Outranks
<1> QED
  BY <1>2 DEF OneOrder
=============================================================================
