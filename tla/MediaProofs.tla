---------------------------- MODULE MediaProofs ----------------------------
(***************************************************************************)
(* Proofs about MediaQueue: for any depth of the queue and of the socket   *)
(* and any ranges of sequence numbers and timestamps, the packet the       *)
(* consumer holds can be put back, packets reach the codec in order and    *)
(* not early, and a session plays nothing of an earlier one's queue.       *)
(***************************************************************************)
EXTENDS MediaQueue, TLAPS

Packet == [idx : Int, due : Int, timed : BOOLEAN]

Written == [packet : Packet, at : Int]

Shape ==
    /\ now \in Int /\ sent \in Int /\ oldest \in Int
    /\ rx \in Seq(Packet) /\ queue \in Seq(Packet)
    /\ entry \in Packet /\ played \in Seq(Written)

Increasing(s) == \A i, j \in 1 .. Len(s) : i < j => s[i].idx < s[j].idx

Below(s, n) == \A i \in 1 .. Len(s) : s[i].idx < n

Above(s, n) == \A i \in 1 .. Len(s) : n < s[i].idx

Before(s, t) == \A i \in 1 .. Len(s) : Above(t, s[i].idx)

\* The stages of the path, each behind the next.
Line ==
    /\ Increasing(rx) /\ Below(rx, sent)
    /\ Increasing(queue) /\ Below(queue, sent) /\ Before(queue, rx)
    /\ consumer = "holding" =>
          /\ entry.idx < sent /\ Above(queue, entry.idx) /\ Above(rx, entry.idx)

\* What was written is behind everything that waits.
Past ==
    \A i \in 1 .. Len(played) :
        LET n == played[i].packet.idx
        IN  /\ n < sent /\ Above(queue, n) /\ Above(rx, n)
            /\ consumer = "holding" => n < entry.idx

Capacity == Len(queue) <= Depth

Soon(p) == p.due <= now + Transit

\* No packet is due later than one sent now would be.
NoneFarAhead ==
    /\ \A i \in 1 .. Len(rx) : Soon(rx[i])
    /\ \A i \in 1 .. Len(queue) : Soon(queue[i])
    /\ consumer = "holding" => Soon(entry)

\* A session begins with both tasks gone and nothing in the queue.
Sessions ==
    /\ consumer \in {"off", "check", "receive"} => entry = None
    /\ consumer = "holding" => oldest <= entry.idx
    /\ control = "stopped" => listener = "off" /\ queue = <<>>
    /\ control \in {"stopped", "starting"} => consumer = "off"
    /\ \A i \in 1 .. Len(rx) : oldest <= rx[i].idx
    /\ \A i \in 1 .. Len(queue) : oldest <= queue[i].idx
    /\ oldest <= sent

IInv ==
    /\ Shape /\ Capacity /\ RequeueRoom /\ Line /\ Past /\ InOrder
    /\ NoneFarAhead /\ NotEarly /\ Sessions /\ OnlySocketIsStale

-----------------------------------------------------------------------------
LEMMA Sizes ==
  /\ Depth \in Nat /\ Depth >= 1 /\ TsRange \in Nat /\ TsRange >= 1
  /\ Transit \in Nat /\ EarlyBy \in Nat /\ Transit < TsRange \div 2 - 1
BY MediaAssumption

LEMMA NoneIsPacket == None \in Packet
BY DEF None, Packet

LEMMA AppendFacts ==
  ASSUME NEW S, NEW s \in Seq(S), NEW e \in S
  PROVE  /\ Append(s, e) \in Seq(S) /\ Len(Append(s, e)) = Len(s) + 1
         /\ \A i \in 1 .. Len(s) : Append(s, e)[i] = s[i]
         /\ Append(s, e)[Len(s) + 1] = e
OBVIOUS

LEMMA TailFacts ==
  ASSUME NEW S, NEW s \in Seq(S), s # <<>>
  PROVE  /\ Tail(s) \in Seq(S) /\ Len(Tail(s)) = Len(s) - 1 /\ Len(s) >= 1
         /\ Head(s) = s[1] /\ Head(s) \in S /\ 1 \in 1 .. Len(s)
         /\ \A i \in 1 .. Len(Tail(s)) : Tail(s)[i] = s[i + 1] /\ i + 1 \in 1 .. Len(s)
OBVIOUS

LEMMA FrontFacts ==
  ASSUME NEW S, NEW s \in Seq(S), NEW e \in S
  PROVE  /\ <<e>> \o s \in Seq(S) /\ Len(<<e>> \o s) = Len(s) + 1
         /\ (<<e>> \o s)[1] = e
         /\ \A i \in 2 .. Len(s) + 1 : (<<e>> \o s)[i] = s[i - 1] /\ i - 1 \in 1 .. Len(s)
OBVIOUS

\* The distance of two times less than a full range apart survives the wrap.
LEMMA Wrap ==
  ASSUME NEW R \in Nat, R >= 1, NEW a \in Int, NEW b \in Int, b <= a, a - b < R
  PROVE  ((a % R) - (b % R)) % R = a - b
<1>1. PICK p \in Int, q \in Int, x \in Int, y \in Int :
        /\ a = R * p + x /\ b = R * q + y /\ x = a % R /\ y = b % R
        /\ 0 <= x /\ x < R /\ 0 <= y /\ y < R
  <2>1. /\ a = R * (a \div R) + (a % R) /\ b = R * (b \div R) + (b % R)
        /\ a \div R \in Int /\ b \div R \in Int /\ a % R \in Int /\ b % R \in Int
        /\ 0 <= a % R /\ a % R < R /\ 0 <= b % R /\ b % R < R
    OBVIOUS
  <2> QED
    BY <2>1
<1>2. PICK n \in Int : n = x - y
  OBVIOUS
<1>3. PICK k \in Int, z \in Int : n = R * k + z /\ z = n % R /\ 0 <= z /\ z < R
  <2>1. /\ n = R * (n \div R) + (n % R) /\ n \div R \in Int /\ n % R \in Int
        /\ 0 <= n % R /\ n % R < R
    OBVIOUS
  <2> QED
    BY <2>1
<1>4. PICK m \in Int : m = p - q + k
  OBVIOUS
<1>5. (a - b) - z = R * m
  <2>1. R * m = R * p - R * q + R * k
    BY <1>4
  <2>2. PICK P \in Int, Q \in Int, K \in Int : P = R * p /\ Q = R * q /\ K = R * k
    OBVIOUS
  <2>3. a = P + x /\ b = Q + y
    BY <1>1, <2>2
  <2>4. n = K + z
    BY <1>3, <2>2
  <2>5. R * m = P - Q + K
    BY <2>1, <2>2
  <2> QED
    BY <1>2, <2>3, <2>4, <2>5
<1>6. m = 0
  <2>1. m >= 1 => R * m >= R
    OBVIOUS
  <2>2. m <= -1 => R * m <= -R
    OBVIOUS
  <2> QED
    BY <1>3, <1>5, <2>1, <2>2
<1>7. a - b = z
  BY <1>3, <1>5, <1>6
<1>8. (a % R) - (b % R) = n
  BY <1>1, <1>2
<1> QED
  BY <1>3, <1>7, <1>8

\* A timed packet the consumer does not put back is due.
LEMMA NotFutureIsDue ==
  ASSUME now \in Int, NEW p \in Packet, Soon(p), Timed(p), ~Future(p)
  PROVE  p.due <= now + EarlyBy
<1>1. p.due \in Int /\ Stamp(p) = p.due % TsRange
  BY DEF Timed, Stamp, Packet
<1>2. CASE p.due <= now
  BY <1>1, <1>2, Sizes
<1>3. CASE now < p.due
  <2>1. p.due - now <= Transit /\ p.due - now < TsRange /\ p.due - now \in Int
    BY <1>1, <1>3, Sizes DEF Soon
  <2>2. Ahead(Stamp(p), now) = p.due - now
    <3>1. Ahead(Stamp(p), now) = ((p.due % TsRange) - (now % TsRange)) % TsRange
      BY <1>1 DEF Ahead
    <3>2. now <= p.due
      BY <1>1, <1>3
    <3> QED
      BY <1>1, <2>1, <3>1, <3>2, Sizes, Wrap
  <2>3. Playback(Stamp(p), now) = now + (p.due - now)
    BY <2>1, <2>2, Sizes DEF Playback
  <2>4. Delta(p) = p.due - now
    BY <1>1, <2>1, <2>3 DEF Delta
  <2> QED
    BY <1>1, <2>1, <2>4, Sizes DEF Future
<1> QED
  BY <1>1, <1>2, <1>3

LEMMA AppendOrder ==
  ASSUME NEW s \in Seq(Packet), NEW e \in Packet, Increasing(s), Below(s, e.idx)
  PROVE  /\ Increasing(Append(s, e))
         /\ \A n \in Int : Below(s, n) /\ e.idx < n => Below(Append(s, e), n)
         /\ \A n \in Int : Above(s, n) /\ n < e.idx => Above(Append(s, e), n)
<1>1. /\ Len(Append(s, e)) = Len(s) + 1 /\ Len(s) \in Nat
      /\ \A i \in 1 .. Len(s) : Append(s, e)[i] = s[i]
      /\ Append(s, e)[Len(s) + 1] = e
  BY AppendFacts
<1> QED
  BY <1>1 DEF Increasing, Below, Above

LEMMA TailOrder ==
  ASSUME NEW s \in Seq(Packet), s # <<>>, Increasing(s)
  PROVE  /\ Increasing(Tail(s)) /\ Above(Tail(s), Head(s).idx)
         /\ \A n \in Int : Below(s, n) => Below(Tail(s), n) /\ Head(s).idx < n
         /\ \A n \in Int : Above(s, n) => Above(Tail(s), n) /\ n < Head(s).idx
<1>1. /\ Len(Tail(s)) = Len(s) - 1 /\ Len(s) \in Nat /\ Len(s) >= 1
      /\ Head(s) = s[1] /\ 1 \in 1 .. Len(s)
      /\ \A i \in 1 .. Len(Tail(s)) : Tail(s)[i] = s[i + 1] /\ i + 1 \in 1 .. Len(s)
  BY TailFacts
<1> QED
  BY <1>1 DEF Increasing, Below, Above

LEMMA FrontOrder ==
  ASSUME NEW s \in Seq(Packet), NEW e \in Packet, Increasing(s), Above(s, e.idx)
  PROVE  /\ Increasing(<<e>> \o s)
         /\ \A n \in Int : Below(s, n) /\ e.idx < n => Below(<<e>> \o s, n)
         /\ \A n \in Int : Above(s, n) /\ n < e.idx => Above(<<e>> \o s, n)
<1>1. /\ Len(<<e>> \o s) = Len(s) + 1 /\ Len(s) \in Nat
      /\ (<<e>> \o s)[1] = e
      /\ \A i \in 2 .. Len(s) + 1 : (<<e>> \o s)[i] = s[i - 1] /\ i - 1 \in 1 .. Len(s)
  BY FrontFacts
<1>2. Increasing(<<e>> \o s)
  <2> SUFFICES ASSUME NEW i \in 1 .. Len(s) + 1, NEW j \in 1 .. Len(s) + 1, i < j
               PROVE  (<<e>> \o s)[i].idx < (<<e>> \o s)[j].idx
    BY <1>1 DEF Increasing
  <2>1. j \in 2 .. Len(s) + 1 /\ (<<e>> \o s)[j] = s[j - 1] /\ j - 1 \in 1 .. Len(s)
    BY <1>1
  <2>2. CASE i = 1
    BY <1>1, <2>1, <2>2 DEF Above
  <2>3. CASE i # 1
    <3>1. (<<e>> \o s)[i] = s[i - 1] /\ i - 1 \in 1 .. Len(s) /\ i - 1 < j - 1
      BY <1>1, <2>1, <2>3
    <3> QED
      BY <2>1, <3>1 DEF Increasing
  <2> QED
    BY <2>2, <2>3
<1>3. ASSUME NEW i \in 1 .. Len(s) + 1
      PROVE  (<<e>> \o s)[i] = e \/ \E k \in 1 .. Len(s) : (<<e>> \o s)[i] = s[k]
  <2>1. i = 1 \/ i \in 2 .. Len(s) + 1
    BY <1>1
  <2> QED
    BY <1>1, <2>1
<1>4. \A n \in Int : Below(s, n) /\ e.idx < n => Below(<<e>> \o s, n)
  BY <1>1, <1>3 DEF Below
<1>5. \A n \in Int : Above(s, n) /\ n < e.idx => Above(<<e>> \o s, n)
  BY <1>1, <1>3 DEF Above
<1> QED
  BY <1>2, <1>4, <1>5

LEMMA Indices ==
  ASSUME Shape
  PROVE  /\ \A i \in 1 .. Len(rx) : rx[i].idx \in Int
         /\ \A i \in 1 .. Len(queue) : queue[i].idx \in Int
         /\ \A i \in 1 .. Len(played) : played[i].packet.idx \in Int
         /\ entry.idx \in Int
<1>1. \A p \in Packet : p.idx \in Int
  BY DEF Packet
<1>2. /\ \A i \in 1 .. Len(rx) : rx[i] \in Packet
      /\ \A i \in 1 .. Len(queue) : queue[i] \in Packet
      /\ entry \in Packet
  BY DEF Shape
<1>3. \A i \in 1 .. Len(played) : played[i] \in Written
  BY DEF Shape
<1>4. \A w \in Written : w.packet \in Packet
  BY DEF Written
<1> QED
  BY <1>1, <1>2, <1>3, <1>4

\* Steps that move no packet.
LEMMA NothingMoves ==
  ASSUME IInv, UNCHANGED <<now, sent, rx, queue, played>>,
         entry' \in Packet, oldest' \in Int,
         consumer' = "holding" => consumer = "holding" /\ entry' = entry
  PROVE  /\ Shape' /\ RequeueRoom' /\ Line' /\ Past' /\ InOrder'
         /\ NoneFarAhead' /\ NotEarly' /\ Capacity'
<1>1. Shape' /\ RequeueRoom' /\ Capacity'
  BY DEF IInv, Shape, RequeueRoom, Capacity
<1>2. Line' /\ Past'
  BY DEF IInv, Line, Past, Increasing, Below, Above, Before
<1>3. InOrder' /\ NotEarly'
  BY DEF IInv, InOrder, NotEarly, Timed, Stamp
<1>4. NoneFarAhead'
  BY DEF IInv, NoneFarAhead, Soon
<1> QED
  BY <1>1, <1>2, <1>3, <1>4

LEMMA InitInv == Init => IInv
<1> SUFFICES ASSUME Init PROVE IInv
  OBVIOUS
<1>1. /\ now = FirstTick /\ sent = 0 /\ rx = <<>> /\ queue = <<>> /\ oldest = 0
      /\ entry = None /\ played = <<>> /\ consumer = "off" /\ listener = "off"
  BY DEF Init
<1>2. Shape /\ RequeueRoom /\ Capacity
  BY <1>1, NoneIsPacket, MediaAssumption DEF Shape, RequeueRoom, Capacity
<1>3. Line /\ Past /\ InOrder /\ NotEarly
  BY <1>1 DEF Line, Past, InOrder, NotEarly, Increasing, Below, Before
<1>4. NoneFarAhead /\ Sessions /\ OnlySocketIsStale
  BY <1>1 DEF NoneFarAhead, Sessions, OnlySocketIsStale
<1> QED
  BY <1>2, <1>3, <1>4 DEF IInv

LEMMA TickInv == IInv /\ Tick => IInv'
<1> SUFFICES ASSUME IInv, Tick PROVE IInv'
  OBVIOUS
<1>1. /\ now' = now + 1 /\ now \in Int
      /\ UNCHANGED <<sent, rx, queue, played, entry, oldest, consumer, control, listener>>
  BY DEF Tick, controlVars, listenerVars, consumerVars, IInv, Shape
<1>2. Shape' /\ RequeueRoom' /\ Capacity'
  BY <1>1 DEF IInv, Shape, RequeueRoom, Capacity
<1>3. Line' /\ Past'
  BY <1>1 DEF IInv, Line, Past, Increasing, Below, Above, Before
<1>4. InOrder' /\ NotEarly'
  BY <1>1 DEF IInv, InOrder, NotEarly, Timed, Stamp
<1>5. NoneFarAhead'
  <2>1. ASSUME NEW p \in Packet, Soon(p)
        PROVE  p.due <= now' + Transit
    BY <1>1, <2>1, Sizes DEF Soon, Packet
  <2>2. /\ \A i \in 1 .. Len(rx) : rx[i] \in Packet
        /\ \A i \in 1 .. Len(queue) : queue[i] \in Packet
        /\ entry \in Packet
    BY DEF IInv, Shape
  <2> QED
    BY <1>1, <2>1, <2>2 DEF IInv, NoneFarAhead, Soon
<1>6. Sessions' /\ OnlySocketIsStale'
  BY <1>1 DEF IInv, Sessions, OnlySocketIsStale
<1> QED
  BY <1>2, <1>3, <1>4, <1>5, <1>6 DEF IInv

LEMMA SendInv ==
  ASSUME IInv, NEW timed \in BOOLEAN, Send(timed)
  PROVE  IInv'
<1> DEFINE p == [idx |-> sent, due |-> now + Transit, timed |-> timed]
<1>1. /\ sent' = sent + 1 /\ now' = now /\ sent \in Int /\ now \in Int
      /\ rx' \in {rx, Append(rx, p)}
      /\ UNCHANGED <<queue, played, entry, oldest, consumer, control, listener>>
  BY DEF Send, controlVars, listenerVars, consumerVars, IInv, Shape
<1>2. p \in Packet /\ p.idx = sent /\ p.due = now + Transit
  BY <1>1, Sizes DEF Packet
<1> HIDE DEF p
<1>3. /\ rx \in Seq(Packet) /\ Len(Append(rx, p)) = Len(rx) + 1 /\ Len(rx) \in Nat
      /\ Append(rx, p) \in Seq(Packet)
      /\ \A i \in 1 .. Len(rx) : Append(rx, p)[i] = rx[i]
      /\ Append(rx, p)[Len(rx) + 1] = p
  <2>1. rx \in Seq(Packet)
    BY DEF IInv, Shape
  <2> QED
    BY <1>2, <2>1, AppendFacts
<1>4. \A i \in 1 .. Len(rx') : (i \in 1 .. Len(rx) /\ rx'[i] = rx[i]) \/ rx'[i] = p
  BY <1>1, <1>3
<1>5. Shape' /\ RequeueRoom' /\ Capacity'
  BY <1>1, <1>3 DEF IInv, Shape, RequeueRoom, Capacity
<1>6. ASSUME NEW n \in Int, Above(rx, n), n < sent
      PROVE  Above(rx', n)
  BY <1>2, <1>4, <1>6 DEF Above
<1>7. Line'
  <2>1. Increasing(rx')
    BY <1>1, <1>2, <1>3, AppendOrder DEF IInv, Line
  <2>2. Below(rx', sent')
    <3>1. \A i \in 1 .. Len(rx) : rx[i].idx < sent /\ rx[i].idx \in Int
      BY Indices DEF IInv, Line, Below
    <3> QED
      BY <1>1, <1>2, <1>4, <3>1 DEF Below
  <2>3. Increasing(queue') /\ Below(queue', sent')
    <3>1. \A i \in 1 .. Len(queue) : queue[i].idx < sent /\ queue[i].idx \in Int
      BY Indices DEF IInv, Line, Below
    <3> QED
      BY <1>1, <3>1 DEF IInv, Line, Increasing, Below
  <2>4. Before(queue', rx')
    <3>1. \A i \in 1 .. Len(queue) : queue[i].idx < sent /\ queue[i].idx \in Int
      BY Indices DEF IInv, Line, Below
    <3> QED
      BY <1>1, <1>6, <3>1 DEF IInv, Line, Before
  <2>5. consumer' = "holding" =>
          entry'.idx < sent' /\ Above(queue', entry'.idx) /\ Above(rx', entry'.idx)
    <3>1. entry.idx \in Int
      BY DEF IInv, Shape, Packet
    <3> QED
      BY <1>1, <1>6, <3>1 DEF IInv, Line, Above
  <2> QED
    BY <2>1, <2>2, <2>3, <2>4, <2>5 DEF Line
<1>8. Past'
  <2> SUFFICES ASSUME NEW i \in 1 .. Len(played)
               PROVE  /\ played[i].packet.idx < sent'
                      /\ Above(queue, played[i].packet.idx)
                      /\ Above(rx', played[i].packet.idx)
                      /\ consumer = "holding" => played[i].packet.idx < entry.idx
    BY <1>1 DEF Past, Above
  <2>1. played[i].packet.idx \in Int
    BY Indices DEF IInv
  <2> QED
    BY <1>1, <1>6, <2>1 DEF IInv, Past
<1>9. InOrder' /\ NotEarly'
  BY <1>1 DEF IInv, InOrder, NotEarly, Timed, Stamp
<1>10. NoneFarAhead'
  <2>1. p.due <= now + Transit
    BY <1>1, <1>2, Sizes
  <2> QED
    BY <1>1, <1>4, <2>1 DEF IInv, NoneFarAhead, Soon
<1>11. Sessions' /\ OnlySocketIsStale'
  <2>1. oldest <= sent /\ oldest \in Int
    BY DEF IInv, Sessions, Shape
  <2>2. \A i \in 1 .. Len(rx') : oldest <= rx'[i].idx
    BY <1>2, <1>4, <2>1 DEF IInv, Sessions
  <2> QED
    BY <1>1, <2>1, <2>2 DEF IInv, Sessions, OnlySocketIsStale
<1> QED
  BY <1>5, <1>7, <1>8, <1>9, <1>10, <1>11 DEF IInv

\* The queue is emptied while the consumer holds nothing.
LEMMA EmptiedInv ==
  ASSUME IInv, queue' = <<>>, consumer # "holding",
         UNCHANGED <<now, sent, rx, played, entry, oldest, consumer>>,
         control' = "stopped" => listener' = "off",
         control' \in {"stopped", "starting"} => consumer = "off"
  PROVE  IInv'
<1>1. Shape' /\ RequeueRoom' /\ Capacity'
  BY Sizes DEF IInv, Shape, RequeueRoom, Capacity
<1>2. Line' /\ Past'
  BY DEF IInv, Line, Past, Increasing, Below, Above, Before
<1>3. InOrder' /\ NotEarly'
  BY DEF IInv, InOrder, NotEarly, Timed, Stamp
<1>4. NoneFarAhead'
  BY DEF IInv, NoneFarAhead, Soon
<1>5. Sessions' /\ OnlySocketIsStale'
  BY DEF IInv, Sessions, OnlySocketIsStale
<1> QED
  BY <1>1, <1>2, <1>3, <1>4, <1>5 DEF IInv

LEMMA ReadInv == IInv /\ ListenerRead => IInv'
<1> SUFFICES ASSUME IInv, ListenerRead PROVE IInv'
  OBVIOUS
<1> DEFINE p == Head(rx)
<1>1. /\ consumer # "holding" /\ rx # <<>> /\ rx' = Tail(rx) /\ control # "stopped"
      /\ queue' \in {queue, Append(queue, p)} /\ Capacity'
      /\ UNCHANGED <<now, sent, played, entry, oldest, consumer, control, listener>>
  BY AppendFacts, Sizes DEF ListenerRead, ListenerRuns, ConsumerReady, Accept, Reject, Push,
         controlVars, consumerVars, IInv, Sessions, Capacity, Shape
<1>2. /\ rx \in Seq(Packet) /\ queue \in Seq(Packet) /\ sent \in Int
      /\ Increasing(rx) /\ Increasing(queue) /\ Before(queue, rx)
      /\ Below(rx, sent) /\ Below(queue, sent)
  BY DEF IInv, Shape, Line
<1>3. /\ Tail(rx) \in Seq(Packet) /\ Len(Tail(rx)) = Len(rx) - 1 /\ Len(rx) >= 1
      /\ p = rx[1] /\ p \in Packet /\ 1 \in 1 .. Len(rx) /\ Len(rx) \in Nat
      /\ \A i \in 1 .. Len(rx') : \E j \in 1 .. Len(rx) : rx'[i] = rx[j]
  <2>1. /\ Tail(rx) \in Seq(Packet) /\ Len(Tail(rx)) = Len(rx) - 1 /\ Len(rx) >= 1
        /\ p = rx[1] /\ p \in Packet /\ 1 \in 1 .. Len(rx)
        /\ \A i \in 1 .. Len(Tail(rx)) : Tail(rx)[i] = rx[i + 1] /\ i + 1 \in 1 .. Len(rx)
    BY <1>1, <1>2, TailFacts
  <2> QED
    BY <1>1, <1>2, <2>1
<1> HIDE DEF p
<1>4. /\ Append(queue, p) \in Seq(Packet) /\ Len(queue) \in Nat
      /\ \A i \in 1 .. Len(queue') :
            (i \in 1 .. Len(queue) /\ queue'[i] = queue[i]) \/ queue'[i] = p
  <2>1. /\ Append(queue, p) \in Seq(Packet) /\ Len(Append(queue, p)) = Len(queue) + 1
        /\ \A i \in 1 .. Len(queue) : Append(queue, p)[i] = queue[i]
        /\ Append(queue, p)[Len(queue) + 1] = p
    BY <1>2, <1>3, AppendFacts
  <2>2. Len(queue) \in Nat
    BY <1>2
  <2>3. CASE queue' = queue
    BY <2>1, <2>2, <2>3
  <2>4. CASE queue' = Append(queue, p)
    <3>1. ASSUME NEW i \in 1 .. Len(queue'), i \notin 1 .. Len(queue)
          PROVE  i = Len(queue) + 1
      BY <2>1, <2>2, <2>4, <3>1
    <3> QED
      BY <2>1, <2>2, <2>4, <3>1
  <2> QED
    BY <1>1, <2>3, <2>4
<1>5. /\ Increasing(rx') /\ Above(rx', p.idx) /\ p.idx < sent /\ Below(rx', sent)
      /\ \A n \in Int : Above(rx, n) => Above(rx', n) /\ n < p.idx
  BY <1>1, <1>2, TailOrder DEF p
<1>6. Below(queue, p.idx)
  BY <1>2, <1>3 DEF Below, Before, Above
<1>7. Increasing(queue')
  BY <1>1, <1>2, <1>3, <1>6, AppendOrder
<1>8. ASSUME NEW n \in Int, Above(queue, n), n < p.idx
      PROVE  Above(queue', n)
  BY <1>4, <1>8 DEF Above
<1>9. Shape' /\ RequeueRoom'
  BY <1>1, <1>2, <1>3, <1>4 DEF IInv, Shape, RequeueRoom
<1>10. Line'
  <2>1. Below(queue', sent)
    BY <1>2, <1>4, <1>5 DEF Below
  <2>2. Before(queue', rx')
    <3> SUFFICES ASSUME NEW i \in 1 .. Len(queue') PROVE Above(rx', queue'[i].idx)
      BY DEF Before
    <3>1. CASE queue'[i] = p
      BY <1>5, <3>1
    <3>2. CASE i \in 1 .. Len(queue) /\ queue'[i] = queue[i]
      BY <1>2, <1>5, <3>2, Indices DEF IInv, Before
    <3> QED
      BY <1>4, <3>1, <3>2
  <2> QED
    BY <1>1, <1>5, <1>7, <2>1, <2>2 DEF Line
<1>11. Past'
  <2> SUFFICES ASSUME NEW i \in 1 .. Len(played)
               PROVE  /\ played[i].packet.idx < sent
                      /\ Above(queue', played[i].packet.idx)
                      /\ Above(rx', played[i].packet.idx)
    BY <1>1 DEF Past
  <2>1. played[i].packet.idx \in Int
    BY Indices DEF IInv
  <2> QED
    BY <1>5, <1>8, <2>1 DEF IInv, Past
<1>12. InOrder' /\ NotEarly'
  BY <1>1 DEF IInv, InOrder, NotEarly, Timed, Stamp
<1>13. NoneFarAhead'
  BY <1>1, <1>3, <1>4 DEF IInv, NoneFarAhead, Soon
<1>14. Sessions' /\ OnlySocketIsStale'
  <2>1. oldest <= p.idx
    BY <1>3 DEF IInv, Sessions
  <2>2. /\ \A i \in 1 .. Len(rx') : oldest <= rx'[i].idx
        /\ \A i \in 1 .. Len(queue') : oldest <= queue'[i].idx
    BY <1>3, <1>4, <2>1 DEF IInv, Sessions
  <2> QED
    BY <1>1, <2>2 DEF IInv, Sessions, OnlySocketIsStale
<1> QED
  BY <1>1, <1>9, <1>10, <1>11, <1>12, <1>13, <1>14 DEF IInv

LEMMA TakeInv == IInv /\ ConsumerTake => IInv'
<1> SUFFICES ASSUME IInv, ConsumerTake PROVE IInv'
  OBVIOUS
<1>1. /\ consumer = "receive" /\ queue # <<>> /\ consumer' = "holding"
      /\ entry' = Head(queue) /\ queue' = Tail(queue)
      /\ UNCHANGED <<now, sent, rx, oldest, control, listener, played>>
  BY DEF ConsumerTake, streamVars, controlVars, listenerVars
<1>2. /\ queue \in Seq(Packet) /\ Increasing(queue) /\ Below(queue, sent) /\ sent \in Int
  BY DEF IInv, Shape, Line
<1>3. /\ Tail(queue) \in Seq(Packet) /\ Len(queue') = Len(queue) - 1
      /\ entry' = queue[1] /\ entry' \in Packet /\ 1 \in 1 .. Len(queue)
      /\ \A i \in 1 .. Len(queue') : queue'[i] = queue[i + 1] /\ i + 1 \in 1 .. Len(queue)
  BY <1>1, <1>2, TailFacts
<1>4. /\ Increasing(queue') /\ Above(queue', entry'.idx)
      /\ Below(queue', sent) /\ entry'.idx < sent
      /\ \A n \in Int : Above(queue, n) => Above(queue', n) /\ n < entry'.idx
  BY <1>1, <1>2, TailOrder
<1>5. Shape'
  BY <1>1, <1>3 DEF IInv, Shape
<1>6. RequeueRoom'
  <2>1. Len(queue) <= Depth /\ Len(queue) \in Nat
    BY <1>2 DEF IInv, Capacity
  <2> QED
    BY <1>3, <2>1, Sizes DEF RequeueRoom
<1>7. Line'
  <2>1. Before(queue', rx) /\ Above(rx, entry'.idx)
    BY <1>3 DEF IInv, Line, Before
  <2> QED
    BY <1>1, <1>4, <2>1 DEF IInv, Line
<1>8. Past'
  BY <1>1, <1>4, Indices DEF IInv, Past
<1>9. InOrder' /\ NotEarly'
  BY <1>1 DEF IInv, InOrder, NotEarly, Timed, Stamp
<1>10. NoneFarAhead'
  BY <1>1, <1>3 DEF IInv, NoneFarAhead, Soon
<1>11. Sessions' /\ OnlySocketIsStale'
  BY <1>1, <1>3 DEF IInv, Sessions, OnlySocketIsStale
<1>12. Capacity'
  <2>1. Len(queue) <= Depth /\ Len(queue) \in Nat
    BY <1>2 DEF IInv, Capacity
  <2> QED
    BY <1>3, <2>1, Sizes DEF Capacity
<1> QED
  BY <1>5, <1>6, <1>7, <1>8, <1>9, <1>10, <1>11, <1>12 DEF IInv

\* The packet goes back in front of those it was taken before.
LEMMA RequeueInv == IInv /\ ConsumerRequeue => IInv'
<1> SUFFICES ASSUME IInv, ConsumerRequeue PROVE IInv'
  OBVIOUS
<1>1. /\ consumer = "holding" /\ consumer' = "check" /\ entry' = None
      /\ queue' = <<entry>> \o queue
      /\ UNCHANGED <<now, sent, rx, oldest, control, listener, played>>
  BY DEF ConsumerRequeue, Requeue, IInv, RequeueRoom,
         streamVars, controlVars, listenerVars
<1>2. /\ queue \in Seq(Packet) /\ Increasing(queue) /\ Below(queue, sent) /\ sent \in Int
      /\ entry \in Packet /\ entry.idx < sent /\ Len(queue) \in Nat
      /\ Above(queue, entry.idx) /\ Above(rx, entry.idx)
  BY <1>1 DEF IInv, Shape, Line
<1>3. /\ queue' \in Seq(Packet) /\ Len(queue') = Len(queue) + 1
      /\ \A i \in 1 .. Len(queue') :
            (queue'[i] = entry) \/ \E j \in 1 .. Len(queue) : queue'[i] = queue[j]
  <2>1. /\ <<entry>> \o queue \in Seq(Packet) /\ Len(<<entry>> \o queue) = Len(queue) + 1
        /\ (<<entry>> \o queue)[1] = entry
        /\ \A i \in 2 .. Len(queue) + 1 :
              (<<entry>> \o queue)[i] = queue[i - 1] /\ i - 1 \in 1 .. Len(queue)
    BY <1>2, FrontFacts
  <2>2. \A i \in 1 .. Len(queue) + 1 : i = 1 \/ i \in 2 .. Len(queue) + 1
    BY <1>2
  <2> QED
    BY <1>1, <2>1, <2>2
<1>4. /\ Increasing(queue') /\ Below(queue', sent)
      /\ \A n \in Int : Above(queue, n) /\ n < entry.idx => Above(queue', n)
  BY <1>1, <1>2, FrontOrder
<1>5. Shape' /\ RequeueRoom'
  BY <1>1, <1>3, NoneIsPacket DEF IInv, Shape, RequeueRoom
<1>6. Line'
  <2>1. Before(queue', rx)
    BY <1>2, <1>3 DEF IInv, Line, Before
  <2> QED
    BY <1>1, <1>4, <2>1 DEF IInv, Line
<1>7. Past'
  BY <1>1, <1>4, Indices DEF IInv, Past
<1>8. InOrder' /\ NotEarly'
  BY <1>1 DEF IInv, InOrder, NotEarly, Timed, Stamp
<1>9. NoneFarAhead'
  BY <1>1, <1>3 DEF IInv, NoneFarAhead, Soon
<1>10. Sessions' /\ OnlySocketIsStale'
  <2>1. oldest <= entry.idx
    BY <1>1 DEF IInv, Sessions
  <2> QED
    BY <1>1, <1>3, <2>1 DEF IInv, Sessions, OnlySocketIsStale
<1>11. Capacity'
  BY <1>1, <1>2, <1>3, Sizes DEF IInv, Capacity, RequeueRoom
<1> QED
  BY <1>5, <1>6, <1>7, <1>8, <1>9, <1>10, <1>11 DEF IInv

LEMMA WriteInv == IInv /\ ConsumerWrite => IInv'
<1> SUFFICES ASSUME IInv, ConsumerWrite PROVE IInv'
  OBVIOUS
<1> DEFINE w == [packet |-> entry, at |-> now]
<1>1. /\ consumer = "holding" /\ consumer' = "writing" /\ played' = Append(played, w)
      /\ ~Future(entry)
      /\ UNCHANGED <<now, sent, rx, queue, entry, oldest, control, listener>>
  BY DEF ConsumerWrite, streamVars, controlVars, listenerVars
<1>2. /\ w \in Written /\ w.packet = entry /\ w.at = now /\ now \in Int /\ entry \in Packet
      /\ played \in Seq(Written)
  BY DEF IInv, Shape, Written
<1>3. entry.idx < sent /\ Above(queue, entry.idx) /\ Above(rx, entry.idx) /\ Soon(entry)
  BY <1>1 DEF IInv, Line, NoneFarAhead
<1> HIDE DEF w
<1>4. /\ Append(played, w) \in Seq(Written) /\ Len(played') = Len(played) + 1
      /\ \A i \in 1 .. Len(played) : played'[i] = played[i]
      /\ played'[Len(played) + 1] = w /\ Len(played) \in Nat
  BY <1>1, <1>2, AppendFacts
<1>5. \A i \in 1 .. Len(played') :
        (i \in 1 .. Len(played) /\ played'[i] = played[i])
        \/ (i = Len(played) + 1 /\ played'[i] = w)
  BY <1>4
<1>6. Shape' /\ RequeueRoom'
  BY <1>1, <1>4 DEF IInv, Shape, RequeueRoom
<1>7. Line'
  BY <1>1 DEF IInv, Line
<1>8. Past'
  BY <1>1, <1>2, <1>3, <1>5 DEF IInv, Past
<1>9. InOrder'
  <2> SUFFICES ASSUME NEW i \in 1 .. Len(played'), NEW j \in 1 .. Len(played'), i < j
               PROVE  played'[i].packet.idx < played'[j].packet.idx
    BY <1>1, <1>4 DEF InOrder
  <2>1. i \in 1 .. Len(played) /\ played'[i] = played[i]
    BY <1>4, <1>5
  <2>2. CASE j \in 1 .. Len(played) /\ played'[j] = played[j]
    BY <1>2, <2>1, <2>2 DEF IInv, InOrder
  <2>3. CASE played'[j] = w
    BY <1>1, <1>2, <2>1, <2>3 DEF IInv, Past
  <2> QED
    BY <1>5, <2>2, <2>3
<1>10. NotEarly'
  <2> SUFFICES ASSUME NEW i \in 1 .. Len(played'), Timed(played'[i].packet)
               PROVE  played'[i].packet.due <= played'[i].at + EarlyBy
    BY <1>1, <1>4 DEF NotEarly, Timed, Stamp
  <2>1. CASE i \in 1 .. Len(played) /\ played'[i] = played[i]
    BY <1>2, <2>1 DEF IInv, NotEarly
  <2>2. CASE played'[i] = w
    BY <1>1, <1>2, <1>3, <2>2, NotFutureIsDue
  <2> QED
    BY <1>5, <2>1, <2>2
<1>11. NoneFarAhead' /\ Sessions' /\ OnlySocketIsStale' /\ Capacity'
  BY <1>1 DEF IInv, NoneFarAhead, Soon, Sessions, OnlySocketIsStale, Capacity
<1> QED
  BY <1>6, <1>7, <1>8, <1>9, <1>10, <1>11 DEF IInv

LEMMA StartInv == IInv /\ StartListener => IInv'
<1> SUFFICES ASSUME IInv, StartListener PROVE IInv'
  OBVIOUS
<1>1. /\ control = "stopped" /\ control' = "starting"
      /\ oldest' = IF rx = <<>> THEN sent ELSE Head(rx).idx
      /\ UNCHANGED <<now, sent, rx, queue, played, entry, consumer>>
  BY DEF StartListener, streamVars, consumerVars
<1>2. consumer = "off" /\ entry = None /\ queue = <<>>
  BY <1>1 DEF IInv, Sessions
<1>3. /\ oldest' \in Int /\ oldest' <= sent
      /\ \A i \in 1 .. Len(rx) : oldest' <= rx[i].idx
  <2>1. sent \in Int /\ rx \in Seq(Packet)
    BY DEF IInv, Shape
  <2>2. CASE rx = <<>>
    BY <1>1, <2>1, <2>2
  <2>3. CASE rx # <<>>
    <3>1. 1 \in 1 .. Len(rx) /\ oldest' = rx[1].idx
      BY <1>1, <2>1, <2>3, TailFacts
    <3>2. \A i \in 1 .. Len(rx) : i = 1 \/ 1 < i
      OBVIOUS
    <3> QED
      BY <2>1, <3>1, <3>2, Indices DEF IInv, Line, Increasing, Below
  <2> QED
    BY <2>2, <2>3
<1>4. /\ Shape' /\ RequeueRoom' /\ Line' /\ Past' /\ InOrder'
      /\ NoneFarAhead' /\ NotEarly' /\ Capacity'
  <2>1. entry' \in Packet
    BY <1>1, <1>2, NoneIsPacket
  <2> QED
    BY <1>1, <1>3, <2>1, NothingMoves
<1>5. Sessions' /\ OnlySocketIsStale'
  BY <1>1, <1>2, <1>3 DEF Sessions, OnlySocketIsStale
<1> QED
  BY <1>4, <1>5 DEF IInv

\* The steps of the listener that touch nothing else.
ListenerMoves == ListenerCheck \/ ListenerSelect \/ ListenerDrained \/ ListenerExit

\* The other steps of the control task and of the two tasks.
LEMMA RestInv ==
  ASSUME IInv,
         \/ StartConsumer \/ StopListener \/ StopConsumer \/ ListenerMoves
         \/ ConsumerCheck \/ ConsumerTimeout \/ ConsumerSkip \/ ConsumerWritten
  PROVE  IInv'
<1>1. UNCHANGED <<now, sent, rx, queue, played, oldest>>
  BY DEF StartConsumer, StopListener, StopConsumer, ListenerMoves, ListenerCheck,
         ListenerSelect, ListenerDrained, ListenerExit, ConsumerCheck, ConsumerTimeout, ConsumerSkip, ConsumerWritten,
         streamVars, controlVars, listenerVars, consumerVars
<1>2. /\ entry' \in {entry, None}
      /\ consumer' = "holding" => consumer = "holding" /\ entry' = entry
      /\ consumer' \in {"off", "check", "receive"} =>
            consumer \in {"off", "check", "receive"} \/ entry' = None
      /\ consumer \in {"off", "check", "receive"} => entry' = entry
  BY DEF IInv, Sessions, StartConsumer, StopListener, StopConsumer, ListenerMoves,
         ListenerCheck, ListenerSelect, ListenerDrained, ListenerExit, ConsumerCheck,
         ConsumerTimeout, ConsumerSkip, ConsumerWritten,
         streamVars, controlVars, listenerVars, consumerVars
<1>3. /\ control' = "stopped" => control = "stopped" /\ listener = "off" /\ UNCHANGED listener
      /\ control' \in {"stopped", "starting"} =>
            control \in {"stopped", "starting"} /\ consumer' = "off"
  BY DEF IInv, Sessions, StartConsumer, StopListener, StopConsumer, ListenerMoves,
         ListenerCheck, ListenerSelect, ListenerDrained, ListenerExit,
         ConsumerCheck, ConsumerTimeout, ConsumerSkip, ConsumerWritten,
         streamVars, controlVars, listenerVars, consumerVars
<1>4. entry' \in Packet /\ oldest' \in Int
  BY <1>1, <1>2, NoneIsPacket DEF IInv, Shape
<1>5. /\ Shape' /\ RequeueRoom' /\ Line' /\ Past' /\ InOrder'
      /\ NoneFarAhead' /\ NotEarly' /\ Capacity'
  BY <1>1, <1>2, <1>4, NothingMoves
<1>6. Sessions' /\ OnlySocketIsStale'
  BY <1>1, <1>2, <1>3 DEF IInv, Sessions, OnlySocketIsStale
<1> QED
  BY <1>5, <1>6 DEF IInv

LEMMA EmptyingInv == IInv /\ (ListenerBegin \/ StopDone) => IInv'
<1> SUFFICES ASSUME IInv, ListenerBegin \/ StopDone PROVE IInv'
  OBVIOUS
<1>1. CASE ListenerBegin
  <2>1. /\ queue' = <<>> /\ consumer # "holding" /\ control # "stopped"
        /\ control = "starting" => consumer = "off"
        /\ UNCHANGED <<now, sent, rx, played, entry, oldest, consumer, control>>
    BY <1>1 DEF ListenerBegin, ListenerRuns, ConsumerReady, IInv, Sessions,
                streamVars, controlVars, consumerVars
  <2> QED
    BY <2>1, EmptiedInv
<1>2. CASE StopDone
  <2>1. /\ queue' = <<>> /\ consumer = "off" /\ listener' = "off"
        /\ UNCHANGED <<now, sent, rx, played, entry, oldest, consumer>>
    BY <1>2 DEF StopDone, streamVars, listenerVars, consumerVars
  <2> QED
    BY <2>1, EmptiedInv
<1> QED
  BY <1>1, <1>2

\* The program starts again: what was written stays behind what will be sent.
LEMMA ReturnsInv == IInv /\ ListenerReturns => IInv'
<1> SUFFICES ASSUME IInv, ListenerReturns PROVE IInv'
  OBVIOUS
<1>1. /\ rx' = <<>> /\ queue' = <<>> /\ entry' = None
      /\ consumer' = "off" /\ listener' = "off"
      /\ UNCHANGED <<now, sent, played, oldest>>
  BY DEF ListenerReturns
<1>2. Shape' /\ RequeueRoom' /\ Capacity'
  BY <1>1, NoneIsPacket, Sizes DEF IInv, Shape, RequeueRoom, Capacity
<1>3. Line' /\ Past'
  BY <1>1 DEF IInv, Line, Past, Increasing, Below, Above, Before
<1>4. InOrder' /\ NotEarly'
  BY <1>1 DEF IInv, InOrder, NotEarly, Timed, Stamp
<1>5. NoneFarAhead' /\ Sessions' /\ OnlySocketIsStale'
  BY <1>1 DEF IInv, NoneFarAhead, Sessions, OnlySocketIsStale
<1> QED
  BY <1>2, <1>3, <1>4, <1>5 DEF IInv

LEMMA StutterInv == IInv /\ UNCHANGED vars => IInv'
<1> SUFFICES ASSUME IInv, UNCHANGED vars PROVE IInv'
  OBVIOUS
<1>1. UNCHANGED <<now, sent, rx, queue, played, oldest, entry, consumer, control, listener>>
  BY DEF vars, streamVars, controlVars, listenerVars, consumerVars
<1>2. entry' \in Packet /\ oldest' \in Int
  BY <1>1 DEF IInv, Shape
<1>3. /\ Shape' /\ RequeueRoom' /\ Line' /\ Past' /\ InOrder'
      /\ NoneFarAhead' /\ NotEarly' /\ Capacity'
  BY <1>1, <1>2, NothingMoves
<1>4. Sessions' /\ OnlySocketIsStale'
  BY <1>1 DEF IInv, Sessions, OnlySocketIsStale
<1> QED
  BY <1>3, <1>4 DEF IInv

LEMMA StepInv == IInv /\ [Next]_vars => IInv'
<1> SUFFICES ASSUME IInv, [Next]_vars PROVE IInv'
  OBVIOUS
<1>1. CASE Tick \/ ListenerRead \/ ConsumerTake \/ ConsumerRequeue \/ ConsumerWrite
  BY <1>1, TickInv, ReadInv, TakeInv, RequeueInv, WriteInv
<1>2. CASE \E timed \in BOOLEAN : Send(timed)
  BY <1>2, SendInv
<1>3. CASE StartListener \/ ListenerBegin \/ StopDone \/ ListenerReturns
  BY <1>3, StartInv, EmptyingInv, ReturnsInv
<1>4. CASE \/ StartConsumer \/ StopListener \/ StopConsumer \/ ListenerMoves
           \/ ConsumerCheck \/ ConsumerTimeout \/ ConsumerSkip \/ ConsumerWritten
  BY <1>4, RestInv
<1>5. CASE UNCHANGED vars
  BY <1>5, StutterInv
<1> QED
  BY <1>1, <1>2, <1>3, <1>4, <1>5 DEF Next, Finish, Listen, ListenerMoves, Consume

\* The inductive invariant holds throughout.
THEOREM Invariance == Spec => []IInv
<1>1. Init => IInv
  BY InitInv
<1>2. IInv /\ [Next]_vars => IInv'
  BY StepInv
<1> QED
  BY <1>1, <1>2, PTL DEF Spec

\* Whatever the depth of the queue, the packet the consumer has taken can be put
\* back: the listener does not push between xQueueReceive and
\* xQueueSendToFront (media_queue.c:97 and 118).
THEOREM AlwaysRoom == Spec => []RequeueRoom
<1>1. IInv => RequeueRoom
  BY DEF IInv
<1> QED
  BY <1>1, Invariance, PTL

\* The codec gets packets in the order they were sent, each at most once, however
\* often packets are put back, the queue overflows or the stream restarts.
THEOREM PlayedInOrder == Spec => []InOrder
<1>1. IInv => InOrder
  BY DEF IInv
<1> QED
  BY <1>1, Invariance, PTL

\* For any range of timestamps more than twice the transit time, the unsigned
\* difference of ts_to_playback_ns never lets a packet out before its time.
THEOREM PlayedOnTime == Spec => []NotEarly
<1>1. IInv => NotEarly
  BY DEF IInv
<1> QED
  BY <1>1, Invariance, PTL

\* A new session plays nothing of an earlier one's queue (media_queue.c:227-236).
THEOREM NothingStaleQueued == Spec => []OnlySocketIsStale
<1>1. IInv => OnlySocketIsStale
  BY DEF IInv
<1> QED
  BY <1>1, Invariance, PTL

-----------------------------------------------------------------------------
\* What the listener knows of the last packet it offered to the queue.
Offers ==
    /\ stats_seq_err \in Nat
    /\ offered.idx \in Int /\ offered.err \in Int /\ offered.err <= stats_seq_err
    /\ 0 <= sent
    /\ \A i \in 1 .. Len(rx) : 0 <= rx[i].idx
    /\ offered.idx # -1 =>
          /\ seq_synced = TRUE /\ 0 <= offered.idx
          /\ offered.idx < sent /\ Above(rx, offered.idx)
          /\ offered.err = stats_seq_err => seq_number = (offered.idx + 1) % SeqRange

NoGap ==
    \/ offered'.idx \in {offered.idx, -1} \/ offered.idx = -1
    \/ offered'.idx = offered.idx + 1
    \/ offered'.err > offered.err
    \/ offered'.idx > offered.idx + SeqRange

LEMMA SameRemainder ==
  ASSUME NEW R \in Nat, R >= 1, NEW a \in Int, NEW b \in Int, b <= a, a - b < R,
         a % R = b % R
  PROVE  a = b
<1>1. ((a % R) - (b % R)) % R = a - b
  BY Wrap
<1>2. a % R \in Int /\ 0 % R = 0
  OBVIOUS
<1>3. (a % R) - (b % R) = 0
  BY <1>2
<1> QED
  BY <1>1, <1>2, <1>3

LEMMA OffersInit == Init => Offers
<1> SUFFICES ASSUME Init PROVE Offers
  OBVIOUS
<1>1. /\ sent = 0 /\ rx = <<>> /\ seq_synced = FALSE /\ stats_seq_err = 0
      /\ offered = [idx |-> -1, err |-> 0]
  BY DEF Init
<1>2. offered.idx = -1 /\ offered.err = 0
  BY <1>1
<1> QED
  BY <1>1, <1>2 DEF Offers

LEMMA OffersSend ==
  ASSUME IInv, Offers, NEW timed \in BOOLEAN, Send(timed)
  PROVE  Offers' /\ NoGap
<1> DEFINE p == [idx |-> sent, due |-> now + Transit, timed |-> timed]
<1>1. /\ sent' = sent + 1 /\ sent \in Int /\ rx' \in {rx, Append(rx, p)}
      /\ UNCHANGED <<seq_synced, seq_number, stats_seq_err, offered>>
      /\ rx \in Seq(Packet) /\ now \in Int
  BY DEF Send, listenerVars, IInv, Shape
<1>2. p \in Packet /\ p.idx = sent
  BY <1>1, Sizes DEF Packet
<1> HIDE DEF p
<1>3. /\ Len(Append(rx, p)) = Len(rx) + 1 /\ Len(rx) \in Nat
      /\ \A i \in 1 .. Len(rx) : Append(rx, p)[i] = rx[i]
      /\ Append(rx, p)[Len(rx) + 1] = p
  BY <1>1, <1>2, AppendFacts
<1>4. \A i \in 1 .. Len(rx') : (i \in 1 .. Len(rx) /\ rx'[i] = rx[i]) \/ rx'[i] = p
  BY <1>1, <1>3
<1>5. offered.idx \in Int
  BY DEF Offers
<1>6. offered.idx # -1 => Above(rx', offered.idx) /\ offered.idx < sent'
  <2>1. offered.idx # -1 => Above(rx, offered.idx) /\ offered.idx < sent
    BY DEF Offers
  <2> QED
    BY <1>1, <1>2, <1>4, <1>5, <2>1 DEF Above
<1>7. /\ \A i \in 1 .. Len(rx') : 0 <= rx'[i].idx
      /\ 0 <= sent'
  BY <1>1, <1>2, <1>4, <1>5 DEF Offers
<1> QED
  BY <1>1, <1>6, <1>7 DEF Offers, NoGap

LEMMA OffersRead == IInv /\ Offers /\ ListenerRead => Offers' /\ NoGap
<1> SUFFICES ASSUME IInv, Offers, ListenerRead PROVE Offers' /\ NoGap
  OBVIOUS
<1> DEFINE p == Head(rx)
<1>1. /\ rx # <<>> /\ rx' = Tail(rx) /\ sent' = sent
      /\ Accept(p) \/ Reject(p)
      /\ seq_number' = (p.idx + 1) % SeqRange
  BY DEF ListenerRead, Accept, Reject
<1>2. /\ rx \in Seq(Packet) /\ sent \in Int /\ Increasing(rx) /\ Below(rx, sent)
  BY DEF IInv, Shape, Line
<1>3. /\ p = rx[1] /\ p \in Packet /\ 1 \in 1 .. Len(rx)
      /\ \A i \in 1 .. Len(rx') : rx'[i] = rx[i + 1] /\ i + 1 \in 1 .. Len(rx)
  BY <1>1, <1>2, TailFacts
<1>4. /\ Above(rx', p.idx) /\ p.idx < sent /\ p.idx \in Int /\ 0 <= p.idx
  BY <1>1, <1>2, <1>3, TailOrder DEF Offers, Packet
<1>5. \A i \in 1 .. Len(rx') : 0 <= rx'[i].idx
  BY <1>3 DEF Offers
<1>6. offered.idx \in Int /\ offered.err \in Int /\ offered.err <= stats_seq_err
      /\ stats_seq_err \in Nat
  BY DEF Offers
<1>7. offered.idx # -1 => offered.idx < p.idx /\ Above(rx', offered.idx)
  BY <1>3, <1>6 DEF Offers, Above
<1> HIDE DEF p
<1>8. CASE Reject(p)
  <2>1. offered' = offered /\ stats_seq_err' = stats_seq_err + 1 /\ seq_synced' = seq_synced
    BY <1>8 DEF Reject
  <2> QED
    BY <1>1, <1>5, <1>6, <1>7, <2>1 DEF Offers, NoGap
<1>9. CASE Accept(p)
  <2>1. /\ offered' = [idx |-> p.idx, err |-> stats_seq_err] /\ seq_synced' = TRUE
        /\ stats_seq_err' = stats_seq_err /\ InSequence(p)
    BY <1>9 DEF Accept, Push
  <2>2. Offers'
    BY <1>1, <1>4, <1>5, <1>6, <2>1 DEF Offers
  <2>3. NoGap
    <3>4. SeqRange \in Nat /\ SeqRange >= 1
      BY MediaAssumption
    <3> SUFFICES ASSUME offered.idx # -1, offered.err = stats_seq_err,
                        p.idx <= offered.idx + SeqRange
                 PROVE  p.idx = offered.idx + 1
      BY <1>4, <1>6, <2>1, <3>4 DEF NoGap
    <3>1. p.idx % SeqRange = (offered.idx + 1) % SeqRange
      BY <2>1 DEF Offers, InSequence
    <3>2. /\ offered.idx + 1 <= p.idx /\ offered.idx + 1 \in Int
          /\ p.idx - (offered.idx + 1) < SeqRange
      BY <1>4, <1>6, <1>7, <3>4
    <3> QED
      BY <1>4, <3>1, <3>2, <3>4, SameRemainder
  <2> QED
    BY <2>2, <2>3
<1> QED
  BY <1>1, <1>8, <1>9

LEMMA OffersRest ==
  ASSUME Offers,
         \/ Tick \/ StartListener \/ StopListener \/ Finish
         \/ ListenerBegin \/ ListenerReturns \/ ListenerMoves \/ Consume \/ UNCHANGED vars
  PROVE  Offers' /\ NoGap
<1>1. CASE ListenerBegin
  <2>1. /\ offered' = [idx |-> -1, err |-> 0] /\ seq_synced' = FALSE
        /\ UNCHANGED <<sent, rx, stats_seq_err>>
    BY <1>1 DEF ListenerBegin, streamVars
  <2>2. offered'.idx = -1 /\ offered'.err = 0
    BY <2>1
  <2> QED
    BY <2>1, <2>2 DEF Offers, NoGap
<1>2. CASE ListenerReturns
  <2>1. /\ offered' = [idx |-> -1, err |-> 0] /\ rx' = <<>> /\ stats_seq_err' = 0
        /\ UNCHANGED sent
    BY <1>2 DEF ListenerReturns
  <2>2. offered'.idx = -1 /\ offered'.err = 0
    BY <2>1
  <2> QED
    BY <2>1, <2>2 DEF Offers, NoGap
<1>3. CASE ~ListenerBegin /\ ~ListenerReturns
  <2>1. UNCHANGED <<sent, rx, seq_synced, seq_number, stats_seq_err, offered>>
    BY <1>3 DEF Tick, StartListener, StopListener, Finish, StartConsumer, StopConsumer,
         StopDone, ListenerMoves, ListenerCheck, ListenerSelect, ListenerDrained,
         ListenerExit, Consume, ConsumerCheck, ConsumerTake, ConsumerTimeout,
         ConsumerSkip, ConsumerRequeue, ConsumerWrite, ConsumerWritten,
         vars, streamVars, controlVars, listenerVars, consumerVars
  <2> QED
    BY <2>1 DEF Offers, NoGap, Above
<1> QED
  BY <1>1, <1>2, <1>3

LEMMA OffersStep == IInv /\ Offers /\ [Next]_vars => Offers' /\ NoGap
<1> SUFFICES ASSUME IInv, Offers, [Next]_vars PROVE Offers' /\ NoGap
  OBVIOUS
<1>1. CASE \E timed \in BOOLEAN : Send(timed)
  BY <1>1, OffersSend
<1>2. CASE ListenerRead
  BY <1>2, OffersRead
<1>3. CASE \/ Tick \/ StartListener \/ StopListener \/ Finish
           \/ ListenerBegin \/ ListenerReturns \/ ListenerMoves \/ Consume \/ UNCHANGED vars
  BY <1>3, OffersRest
<1> QED
  BY <1>1, <1>2, <1>3 DEF Next, Listen, ListenerMoves

\* For streams of any length and sequence numbers of any width: packets offered one
\* after the other are neighbours, or an error was counted between them
\* (avtp.c:288-301), or the network lost a whole turn of sequence numbers in between.
THEOREM NoLossUnnoticed == Spec => NoSilentGap
<1>1. IInv /\ Offers /\ [Next]_vars =>
        [ \/ offered'.idx \in {offered.idx, -1} \/ offered.idx = -1
          \/ offered'.idx = offered.idx + 1
          \/ offered'.err > offered.err
          \/ offered'.idx > offered.idx + SeqRange ]_vars
  BY OffersStep DEF NoGap
<1>2. Init => Offers
  BY OffersInit
<1>3. IInv /\ Offers /\ [Next]_vars => Offers'
  BY OffersStep
<1>4. Spec => []Offers
  BY <1>2, <1>3, Invariance, PTL DEF Spec
<1> QED
  BY <1>1, <1>4, Invariance, PTL DEF Spec, NoSilentGap
=============================================================================
