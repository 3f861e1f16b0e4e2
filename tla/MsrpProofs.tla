----------------------------- MODULE MsrpProofs -----------------------------
(***************************************************************************)
(* Proofs about Msrp: whatever requests, LeaveAlls and losses there are,   *)
(* the lists of a station follow its declarations, a listener declares     *)
(* what ACMP attached it to, a talker falls quiet only when its stream is  *)
(* known at the other end, and a station falls quiet about a domain only   *)
(* when the other end holds it or has asked again.                         *)
(***************************************************************************)
EXTENDS Msrp, FiniteSetTheorems, WellFoundedInduction, TLAPS

-----------------------------------------------------------------------------
(***************************************************************************)
(* Induction over the natural numbers, for sets and functions.             *)
(***************************************************************************)
LEMMA Smallest ==
  ASSUME NEW T, T \subseteq Nat, T # {}
  PROVE  \E x \in T : \A y \in T : x <= y
<1>1. IsWellFoundedOn(OpToRel(<, Nat), Nat)
  BY NatLessThanWellFounded
<1>2. PICK x \in T : \A y \in T : <<y, x>> \notin OpToRel(<, Nat)
  BY <1>1, WFMin
<1>3. x \in Nat /\ \A y \in T : y \in Nat /\ ~(y < x)
  BY <1>2 DEF OpToRel
<1>4. \A y \in T : x <= y
  BY <1>3
<1> QED
  BY <1>2, <1>4

LEMMA Induction ==
  ASSUME NEW N \in Nat, NEW S, 0 \in S,
         \A i \in 0..N : i \in S /\ i < N => i + 1 \in S
  PROVE  0..N \subseteq S
<1> SUFFICES ASSUME (0..N) \ S # {} PROVE FALSE
  OBVIOUS
<1> DEFINE T == (0..N) \ S
<1>0. T \subseteq Nat /\ T # {}
  OBVIOUS
<1> HIDE DEF T
<1>1. PICK x \in T : \A y \in T : x <= y
  BY <1>0, Smallest
<1> USE DEF T
<1>2. x # 0 /\ x - 1 \in 0..N /\ x - 1 < N /\ x - 1 \in S
  BY <1>1
<1>3. (x - 1) + 1 \in S
  BY <1>2
<1> QED
  BY <1>1, <1>3

\* A function can be defined by recursion over 0..N.
Iterates(W, b, v, N, f) ==
  /\ f \in [0..N -> W]
  /\ f[0] = b
  /\ \A i \in 1..N : f[i] = v[i][f[i - 1]]

LEMMA Recursion ==
  ASSUME NEW W, NEW b, b \in W, NEW v, v \in [Nat -> [W -> W]], NEW N, N \in Nat
  PROVE  \E f : Iterates(W, b, v, N, f)
<1> DEFINE Good(n, f) == /\ f \in [0..n -> W] /\ f[0] = b
                         /\ \A i \in 1..n : f[i] = v[i][f[i - 1]]
           S == {n \in 0..N : \E f : Good(n, f)}
<1>1. 0 \in S
  <2>1. Good(0, [i \in 0..0 |-> b])
    OBVIOUS
  <2> HIDE DEF Good
  <2>2. 0 \in 0..N
    OBVIOUS
  <2> QED
    BY <2>1, <2>2
<1>2. ASSUME NEW n \in 0..N, n \in S, n < N
      PROVE  n + 1 \in S
  <2>1. PICK f : Good(n, f)
    BY <1>2
  <2> DEFINE g == [i \in 0..(n + 1) |-> IF i = n + 1 THEN v[n + 1][f[n]] ELSE f[i]]
  <2>2. f[n] \in W /\ v[n + 1][f[n]] \in W
    BY <2>1
  <2>3. g \in [0..(n + 1) -> W]
    BY <2>1, <2>2
  <2>4. g[0] = b /\ \A i \in 0..n : g[i] = f[i]
    BY <2>1
  <2>5. \A i \in 1..(n + 1) : g[i] = v[i][g[i - 1]]
    <3> SUFFICES ASSUME NEW i \in 1..(n + 1) PROVE g[i] = v[i][g[i - 1]]
      OBVIOUS
    <3>1. i - 1 \in 0..n /\ g[i - 1] = f[i - 1]
      BY <2>4
    <3>2. CASE i = n + 1
      <4>1. i - 1 = n /\ i \in 0..(n + 1) /\ n \in 0..n
        BY <3>2
      <4>2. g[i] = v[n + 1][f[n]]
        BY <3>2, <4>1
      <4>3. g[n] = f[n]
        BY <2>4, <4>1
      <4> QED
        BY <3>2, <4>1, <4>2, <4>3
    <3>3. CASE i # n + 1
      BY <2>1, <2>4, <3>1, <3>3
    <3> QED
      BY <3>2, <3>3
  <2>6. Good(n + 1, g)
    BY <2>3, <2>4, <2>5
  <2> HIDE DEF Good, g
  <2>7. n + 1 \in 0..N
    BY <1>2
  <2> QED
    BY <2>6, <2>7
<1> HIDE DEF S
<1>3. 0..N \subseteq S
  BY <1>1, <1>2, Induction
<1> QED
  BY <1>3 DEF S, Iterates

-----------------------------------------------------------------------------
(***************************************************************************)
(* Entries keeps what is in S, SetToSeq lists a finite set.                *)
(***************************************************************************)
LEMMA AppendSet ==
  ASSUME NEW A, NEW s \in Seq(A), NEW x \in A
  PROVE  /\ Append(s, x) \in Seq(A)
         /\ ToSet(Append(s, x)) = ToSet(s) \cup {x}
<1>1. /\ Append(s, x) \in Seq(A) /\ Len(s) \in Nat
      /\ Len(Append(s, x)) = Len(s) + 1
      /\ \A i \in 1..Len(s) + 1 : Append(s, x)[i] = IF i = Len(s) + 1 THEN x ELSE s[i]
  OBVIOUS
<1>2. DOMAIN s = 1..Len(s) /\ DOMAIN Append(s, x) = 1..(Len(s) + 1)
  BY <1>1
<1>3. {Append(s, x)[i] : i \in 1..Len(s) + 1} = {s[i] : i \in 1..Len(s)} \cup {x}
  BY <1>1
<1> QED
  BY <1>1, <1>2, <1>3 DEF ToSet

LEMMA ConcatSet ==
  ASSUME NEW A, NEW s \in Seq(A), NEW t \in Seq(A)
  PROVE  /\ s \o t \in Seq(A)
         /\ ToSet(s \o t) = ToSet(s) \cup ToSet(t)
<1>1. /\ s \o t \in Seq(A) /\ Len(s) \in Nat /\ Len(t) \in Nat
      /\ Len(s \o t) = Len(s) + Len(t)
      /\ \A i \in 1..(Len(s) + Len(t)) :
           (s \o t)[i] = IF i <= Len(s) THEN s[i] ELSE t[i - Len(s)]
  OBVIOUS
<1>2. /\ DOMAIN s = 1..Len(s) /\ DOMAIN t = 1..Len(t)
      /\ DOMAIN (s \o t) = 1..(Len(s) + Len(t))
  BY <1>1
<1>3. \A i \in 1..Len(t) : i + Len(s) \in 1..(Len(s) + Len(t))
                            /\ (s \o t)[i + Len(s)] = t[i]
  BY <1>1
<1>4. \A x : x \in ToSet(s) \cup ToSet(t) => x \in ToSet(s \o t)
  <2>1. ASSUME NEW x \in ToSet(s) PROVE x \in ToSet(s \o t)
    <3>1. PICK i \in 1..Len(s) : x = s[i]
      BY <1>2, <2>1 DEF ToSet
    <3>2. i \in 1..(Len(s) + Len(t)) /\ (s \o t)[i] = x
      BY <1>1, <3>1
    <3> QED
      BY <1>2, <3>2 DEF ToSet
  <2>2. ASSUME NEW x \in ToSet(t) PROVE x \in ToSet(s \o t)
    <3>1. PICK i \in 1..Len(t) : x = t[i]
      BY <1>2, <2>2 DEF ToSet
    <3> QED
      BY <1>2, <1>3, <3>1 DEF ToSet
  <2> QED
    BY <2>1, <2>2
<1>5. \A x : x \in ToSet(s \o t) => x \in ToSet(s) \cup ToSet(t)
  BY <1>1, <1>2 DEF ToSet
<1> QED
  BY <1>1, <1>4, <1>5

LEMMA ListSet ==
  ASSUME NEW S, IsFiniteSet(S)
  PROVE  SetToSeq(S) \in Seq(S) /\ ToSet(SetToSeq(S)) = S
<1> DEFINE n == Cardinality(S)
<1>1. n \in Nat /\ ExistsBijection(1..n, S)
  BY FS_CardinalityType
<1>2. SetToSeq(S) \in Injection(1..n, S)
  BY <1>1 DEF SetToSeq, ExistsBijection, Bijection, Injection, IsInjective
<1>3. Cardinality(1..n) = n
  <2>1. Cardinality(1..n) = IF 1 > n THEN 0 ELSE n - 1 + 1
    BY <1>1, FS_Interval
  <2> QED
    BY <1>1, <2>1
<1>4. SetToSeq(S) \in Surjection(1..n, S)
  BY <1>2, <1>3, FS_Injection
<1> QED
  BY <1>1, <1>4 DEF Surjection, ToSet

LEMMA EntriesSet ==
  ASSUME NEW A, NEW list \in Seq(A), NEW S
  PROVE  /\ Entries(list, S) \in Seq(A)
         /\ ToSet(Entries(list, S)) = ToSet(list) \cap S
<1> DEFINE N == Len(list)
           E(f) == [i \in 0..N |->
                      IF i = 0 THEN <<>>
                      ELSE IF list[i] \in S THEN Append(f[i - 1], list[i]) ELSE f[i - 1]]
           kept == CHOOSE f : f = E(f)
           Upto(i) == {list[j] : j \in 1..i} \cap S
<1>1. Entries(list, S) = kept[N]
  BY DEF Entries
<1>2. N \in Nat /\ DOMAIN list = 1..N /\ \A i \in 1..N : list[i] \in A
  OBVIOUS
<1> HIDE DEF N
<1>3. \E f : f = E(f)
  <2> DEFINE v == [i \in Nat |-> [x \in Seq(A) |->
                     IF i \in 1..N /\ list[i] \in S THEN Append(x, list[i]) ELSE x]]
  <2>1. v \in [Nat -> [Seq(A) -> Seq(A)]]
    <3>1. \A i \in Nat, x \in Seq(A) :
            (IF i \in 1..N /\ list[i] \in S THEN Append(x, list[i]) ELSE x) \in Seq(A)
      BY <1>2
    <3> QED
      BY <3>1
  <2>2. <<>> \in Seq(A)
    OBVIOUS
  <2>3. \A i \in 1..N : \A x \in Seq(A) :
          v[i][x] = IF list[i] \in S THEN Append(x, list[i]) ELSE x
    BY <1>2
  <2> HIDE DEF v
  <2>4. PICK f \in [0..N -> Seq(A)] :
          f[0] = <<>> /\ \A i \in 1..N : f[i] = v[i][f[i - 1]]
    <3>1. \E f : Iterates(Seq(A), <<>>, v, N, f)
      BY <1>2, <2>1, <2>2, Recursion
    <3> QED
      BY <3>1 DEF Iterates
  <2>5. \A i \in 1..N : f[i - 1] \in Seq(A)
    BY <1>2, <2>4
  <2>6. \A i \in 1..N : f[i] = IF list[i] \in S THEN Append(f[i - 1], list[i]) ELSE f[i - 1]
    BY <2>3, <2>4, <2>5
  <2>7. \A i \in 0..N : i = 0 \/ i \in 1..N
    BY <1>2
  <2>8. f = E(f)
    BY <1>2, <2>4, <2>6, <2>7
  <2> QED
    BY <2>8
<1>4. kept = E(kept)
  BY <1>3
<1>5. PICK k : k = kept
  OBVIOUS
<1>6. k = E(k)
  BY <1>4, <1>5
<1> HIDE DEF kept
<1>7. /\ k[0] = <<>>
      /\ \A i \in 0..N : i < N =>
           k[i + 1] = IF list[i + 1] \in S THEN Append(k[i], list[i + 1]) ELSE k[i]
  <2>1. 0 \in 0..N
    BY <1>2
  <2>2. \A i \in 0..N : i < N => i + 1 \in 0..N /\ i + 1 # 0 /\ (i + 1) - 1 = i
    BY <1>2
  <2> QED
    BY <1>6, <2>1, <2>2
<1> HIDE DEF E
<1> DEFINE T == {i \in 0..N : k[i] \in Seq(A) /\ ToSet(k[i]) = Upto(i)}
<1>8. 0 \in T
  <2>1. ToSet(<<>>) = {} /\ Upto(0) = {} /\ 0 \in 0..N /\ <<>> \in Seq(A)
    BY <1>2 DEF ToSet
  <2> QED
    BY <1>7, <2>1
<1>9. ASSUME NEW i \in 0..N, i \in T, i < N
      PROVE  i + 1 \in T
  <2>1. i + 1 \in 1..N /\ i + 1 \in 0..N /\ list[i + 1] \in A
    BY <1>2, <1>9
  <2>2. k[i] \in Seq(A) /\ ToSet(k[i]) = Upto(i)
    BY <1>9
  <2>3. Upto(i + 1) = IF list[i + 1] \in S THEN Upto(i) \cup {list[i + 1]} ELSE Upto(i)
    BY <1>2, <1>9
  <2> HIDE DEF Upto
  <2>4. CASE list[i + 1] \in S
    <3>1. k[i + 1] = Append(k[i], list[i + 1])
      BY <1>7, <1>9, <2>4
    <3>2. /\ Append(k[i], list[i + 1]) \in Seq(A)
          /\ ToSet(Append(k[i], list[i + 1])) = ToSet(k[i]) \cup {list[i + 1]}
      BY <2>1, <2>2, AppendSet
    <3> QED
      BY <2>1, <2>2, <2>3, <2>4, <3>1, <3>2
  <2>5. CASE list[i + 1] \notin S
    BY <1>7, <1>9, <2>1, <2>2, <2>3, <2>5
  <2> QED
    BY <2>4, <2>5
<1>10. N \in T
  <2> HIDE DEF T
  <2>1. 0..N \subseteq T
    BY <1>2, <1>8, <1>9, Induction
  <2> QED
    BY <1>2, <2>1
<1>11. Upto(N) = ToSet(list) \cap S
  BY <1>2 DEF ToSet
<1>12. k[N] \in Seq(A) /\ ToSet(k[N]) = Upto(N)
  BY <1>10
<1> QED
  BY <1>1, <1>5, <1>11, <1>12

-----------------------------------------------------------------------------
(***************************************************************************)
(* The participant: what each operator of mrp.c that MSRP calls does to the *)
(* attributes, their Applicants and their Registrars.                      *)
(***************************************************************************)
PointToPoint == {"VO", "VP", "VN", "AN", "AA", "QA", "LA", "LO"}

Participants ==
    [live : SUBSET Attribute, app : [Attribute -> ApplicantStates],
     reg : [Attribute -> RegistrarStates], leave : [Attribute -> BOOLEAN],
     join : BOOLEAN, la : {"Active", "Passive"}, laTimer : {"armed", "idle", "deleted"},
     orphans : SUBSET Attribute, wanted : SUBSET Attribute,
     announced : SUBSET Attribute, known : SUBSET Attribute]

\* The lists are finite, no Applicant is in a state of shared media, and an
\* attribute that is in no list has nothing left of its state machines.
Sound(p) ==
    /\ p \in Participants
    /\ IsFiniteSet(p.live)
    /\ \A a \in Attribute : p.app[a] \in PointToPoint
    /\ \A a \in Attribute \ p.live : p.app[a] = "VO" /\ p.reg[a] = "MT"

LEMMA TableClosed ==
  ASSUME NEW s \in PointToPoint, NEW ev
  PROVE  /\ ApplicantNext(ev, s) \in PointToPoint
         /\ ApplicantNext(ev, s) \notin BarredStates
         /\ ApplicantNext(ev, s) \in ApplicantStates
<1>1. ApplicantNext(ev, s) \in PointToPoint
  BY DEF PointToPoint, ApplicantNext, OnNew, OnJoin, OnLeave, OnReceiveJoinIn,
         OnReceiveIn, OnReceiveEmpty, OnReceiveLeave, OnPeriodic, OnTransmit
<1> QED
  BY <1>1 DEF PointToPoint, BarredStates, ApplicantStates

LEMMA RegistrarClosed ==
  ASSUME NEW r \in RegistrarStates, NEW ev, NEW armed \in BOOLEAN
  PROVE  /\ RegistrarNext(ev, r) \in RegistrarStates
         /\ LeaveTimerNext(ev, r, armed) \in BOOLEAN
BY DEF RegistrarStates, RegistrarNext, LeaveTimerNext, JoinEvents, LeaveEvents

\* The tables of the participant are those of MrpTables.
LEMMA ApplicantTable ==
  ASSUME NEW n, NEW ev, NEW s
  PROVE  P(n)!ApplicantNext(ev, s) = ApplicantNext(ev, s)
BY DEF P!ApplicantNext, ApplicantNext, P!OnNew, OnNew, P!OnJoin, OnJoin, P!OnLeave,
       OnLeave, P!OnReceiveJoinIn, OnReceiveJoinIn, P!OnReceiveIn, OnReceiveIn,
       P!OnReceiveEmpty, OnReceiveEmpty, P!OnReceiveLeave, OnReceiveLeave,
       P!OnPeriodic, OnPeriodic, P!OnTransmit, OnTransmit

LEMMA RegistrarTable ==
  ASSUME NEW n, NEW ev, NEW r, NEW armed
  PROVE  /\ P(n)!RegistrarNext(ev, r) = RegistrarNext(ev, r)
         /\ P(n)!Indication(ev, r) = Indication(ev, r)
         /\ P(n)!LeaveTimerNext(ev, r, armed) = LeaveTimerNext(ev, r, armed)
BY DEF P!RegistrarNext, RegistrarNext, P!Indication, Indication, P!LeaveTimerNext,
       LeaveTimerNext, P!JoinEvents, JoinEvents, P!LeaveEvents, LeaveEvents

LEMMA StateSets ==
  ASSUME NEW n
  PROVE  P(n)!BarredStates = BarredStates /\ P(n)!ObserverStates = ObserverStates
BY DEF P!BarredStates, BarredStates, P!ObserverStates, ObserverStates

\* An event that the Applicants of S see.
Applied(p, S, ev, r) ==
    /\ Sound(r)
    /\ r.live = p.live /\ r.reg = p.reg /\ r.la = p.la
    /\ \A a \in Attribute :
          r.app[a] = IF a \in S THEN ApplicantNext(ev, p.app[a]) ELSE p.app[a]

LEMMA ApplicantsIs ==
  ASSUME NEW n, NEW p, Sound(p), NEW S, S \subseteq p.live, NEW ev
  PROVE  Applied(p, S, ev, P(n)!Applicants(p, S, ev))
<1> DEFINE next(a) == P(n)!ApplicantNext(ev, p.app[a])
           moved == {a \in S : next(a) \notin P(n)!BarredStates}
           newApp == [a \in Attribute |-> IF a \in moved THEN next(a) ELSE p.app[a]]
           newJoin == p.join \/ \E a \in moved : P(n)!EntersRequest(p.app[a], next(a))
<1>1. S \subseteq Attribute /\ p \in Participants
  BY DEF Sound, Participants
<1>2. \A a \in Attribute : /\ next(a) = ApplicantNext(ev, p.app[a])
                           /\ next(a) \in PointToPoint
                           /\ next(a) \notin P(n)!BarredStates
                           /\ next(a) \in ApplicantStates
                           /\ p.app[a] \in PointToPoint /\ p.app[a] \in ApplicantStates
  BY <1>1, TableClosed, ApplicantTable, StateSets DEF Sound, Participants
<1>3. moved = S
  BY <1>1, <1>2
<1>4. P(n)!Applicants(p, S, ev) = [p EXCEPT !.app = newApp, !.join = newJoin]
  BY DEF P!Applicants, P!EntersRequest
<1>5. p.join \in BOOLEAN /\ newJoin \in BOOLEAN
  BY <1>1 DEF Participants
<1> HIDE DEF next, moved, newJoin
<1>6. /\ newApp \in [Attribute -> ApplicantStates]
      /\ \A a \in Attribute : newApp[a] \in PointToPoint
      /\ \A a \in Attribute : newApp[a] = IF a \in S THEN next(a) ELSE p.app[a]
  BY <1>2, <1>3
<1> HIDE DEF newApp
<1>7. PICK r : r = [p EXCEPT !.app = newApp, !.join = newJoin]
  OBVIOUS
<1>8. /\ r \in Participants /\ r.app = newApp
      /\ r.live = p.live /\ r.reg = p.reg /\ r.la = p.la
  BY <1>1, <1>5, <1>6, <1>7 DEF Participants
<1>9. Sound(r)
  <2>1. \A a \in Attribute \ p.live : r.app[a] = "VO" /\ r.reg[a] = "MT"
    BY <1>6, <1>8 DEF Sound
  <2> QED
    BY <1>6, <1>8, <2>1 DEF Sound
<1>10. \A a \in Attribute :
         r.app[a] = IF a \in S THEN ApplicantNext(ev, p.app[a]) ELSE p.app[a]
  BY <1>2, <1>6, <1>8
<1> QED
  BY <1>4, <1>7, <1>8, <1>9, <1>10 DEF Applied

\* An event that the Registrars of S see.
Registered(p, S, ev, r) ==
    /\ Sound(r)
    /\ r.live = p.live /\ r.app = p.app /\ r.la = p.la
    /\ \A a \in Attribute :
          r.reg[a] = IF a \in S THEN RegistrarNext(ev, p.reg[a]) ELSE p.reg[a]

LEMMA EmptyStays == \A ev : ev \notin JoinEvents => RegistrarNext(ev, "MT") = "MT"
BY DEF RegistrarNext, JoinEvents, LeaveEvents

LEMMA RegistrarsIs ==
  ASSUME NEW n, NEW p, Sound(p), NEW S, S \subseteq Attribute, NEW ev,
         S \subseteq p.live \/ ev \notin JoinEvents
  PROVE  Registered(p, S, ev, P(n)!Registrars(p, S, ev))
<1> DEFINE told(i) == {a \in S : P(n)!Indication(ev, p.reg[a]) = i}
           newReg == [a \in Attribute |->
                        IF a \in S THEN P(n)!RegistrarNext(ev, p.reg[a]) ELSE p.reg[a]]
           newLeave == [a \in Attribute |->
                          IF a \in S THEN P(n)!LeaveTimerNext(ev, p.reg[a], p.leave[a])
                          ELSE p.leave[a]]
           newKnown == (p.known \cup told("New") \cup told("Join")) \ told("Leave")
<1>1. p \in Participants
  BY DEF Sound
<1>2. \A a \in Attribute : p.reg[a] \in RegistrarStates /\ p.leave[a] \in BOOLEAN
  BY <1>1 DEF Participants
<1>3. newReg \in [Attribute -> RegistrarStates] /\ newLeave \in [Attribute -> BOOLEAN]
  <2>1. \A a \in Attribute :
           /\ P(n)!RegistrarNext(ev, p.reg[a]) \in RegistrarStates
           /\ P(n)!LeaveTimerNext(ev, p.reg[a], p.leave[a]) \in BOOLEAN
    <3> TAKE a \in Attribute
    <3>1. PICK r, armed : r = p.reg[a] /\ armed = p.leave[a]
      OBVIOUS
    <3>2. r \in RegistrarStates /\ armed \in BOOLEAN
      BY <1>2, <3>1
    <3>3. /\ RegistrarNext(ev, r) \in RegistrarStates
          /\ LeaveTimerNext(ev, r, armed) \in BOOLEAN
      BY <3>2, RegistrarClosed
    <3> QED
      BY <3>1, <3>3, RegistrarTable
  <2> QED
    BY <1>2, <2>1
<1>4. newKnown \in SUBSET Attribute
  BY <1>1 DEF Participants
<1>5. P(n)!Registrars(p, S, ev) =
        [p EXCEPT !.reg = newReg, !.leave = newLeave, !.known = newKnown]
  BY DEF P!Registrars
<1>6. \A a \in Attribute :
        newReg[a] = IF a \in S THEN RegistrarNext(ev, p.reg[a]) ELSE p.reg[a]
  BY RegistrarTable
<1> HIDE DEF newReg, newLeave, newKnown
<1>7. PICK r : r = [p EXCEPT !.reg = newReg, !.leave = newLeave, !.known = newKnown]
  OBVIOUS
<1>8. /\ r \in Participants /\ r.reg = newReg
      /\ r.live = p.live /\ r.app = p.app /\ r.la = p.la
  BY <1>1, <1>3, <1>4, <1>7 DEF Participants
<1>9. Sound(r)
  <2>1. \A a \in Attribute \ p.live : r.app[a] = "VO" /\ r.reg[a] = "MT"
    BY <1>6, <1>8, EmptyStays DEF Sound
  <2> QED
    BY <1>8, <2>1 DEF Sound
<1> QED
  BY <1>5, <1>6, <1>7, <1>8, <1>9 DEF Registered

\* An attribute is looked up, and created when it is in no list.
Created(p, a, r) ==
    /\ Sound(r) /\ r.live = p.live \cup {a} /\ r.la = p.la
    /\ r.app = p.app /\ r.reg = p.reg

LEMMA GetOrCreateIs ==
  ASSUME NEW n, NEW p, Sound(p), NEW a \in Attribute
  PROVE  Created(p, a, P(n)!GetOrCreate(p, a))
<1> USE DEF Created
<1>1. CASE a \in p.live
  BY <1>1 DEF P!GetOrCreate
<1>2. CASE a \notin p.live
  <2>1. PICK r : r = P(n)!GetOrCreate(p, a)
    OBVIOUS
  <2>2. r = [p EXCEPT !.live = @ \cup {a}, !.app[a] = "VO",
                      !.reg[a] = "MT", !.leave[a] = FALSE]
    BY <1>2, <2>1 DEF P!GetOrCreate
  <2>3. p \in Participants /\ p.app[a] = "VO" /\ p.reg[a] = "MT"
    BY <1>2 DEF Sound
  <2>4. [p.app EXCEPT ![a] = "VO"] = p.app /\ [p.reg EXCEPT ![a] = "MT"] = p.reg
    BY <2>3 DEF Participants
  <2>5. /\ r \in Participants /\ r.live = p.live \cup {a} /\ r.la = p.la
        /\ r.app = p.app /\ r.reg = p.reg
    BY <2>2, <2>3, <2>4 DEF Participants
  <2>6. IsFiniteSet(r.live)
    BY <2>5, FS_AddElement DEF Sound
  <2> QED
    BY <2>1, <2>5, <2>6 DEF Sound
<1> QED
  BY <1>1, <1>2

\* An attribute is freed.
Freed(p, a, r) ==
    /\ Sound(r) /\ r.live = p.live \ {a} /\ r.la = p.la
    /\ r.app[a] = "VO" /\ r.reg[a] = "MT"
    /\ \A b \in Attribute \ {a} : r.app[b] = p.app[b] /\ r.reg[b] = p.reg[b]

LEMMA DeleteIs ==
  ASSUME NEW n, NEW p, Sound(p), NEW a \in Attribute
  PROVE  Freed(p, a, P(n)!Delete(p, a))
<1>1. PICK r : r = P(n)!Delete(p, a)
  OBVIOUS
<1>2. p \in Participants
  BY DEF Sound
<1> DEFINE timer == P(n)!DeleteLeaveAll(p.laTimer)
           orphans == IF p.leave[a] THEN p.orphans \cup {a} ELSE p.orphans
<1>3. /\ r = [p EXCEPT !.live = @ \ {a}, !.app[a] = "VO", !.reg[a] = "MT",
                       !.leave[a] = FALSE, !.laTimer = timer, !.orphans = orphans]
      /\ orphans \in SUBSET Attribute /\ timer \in {"armed", "idle", "deleted"}
  <2>1. orphans \in SUBSET Attribute /\ timer \in {"armed", "idle", "deleted"}
    BY <1>2 DEF P!DeleteLeaveAll, Participants
  <2> QED
    BY <1>1, <2>1 DEF P!Delete
<1> HIDE DEF timer, orphans
<1>4. "VO" \in ApplicantStates /\ "MT" \in RegistrarStates /\ "VO" \in PointToPoint
  BY DEF ApplicantStates, RegistrarStates, PointToPoint
<1>5. /\ r \in Participants /\ r.live = p.live \ {a} /\ r.la = p.la
      /\ r.app = [p.app EXCEPT ![a] = "VO"] /\ r.reg = [p.reg EXCEPT ![a] = "MT"]
  <2>1. PICK app, reg, leave : /\ app = [p.app EXCEPT ![a] = "VO"]
                               /\ reg = [p.reg EXCEPT ![a] = "MT"]
                               /\ leave = [p.leave EXCEPT ![a] = FALSE]
    OBVIOUS
  <2>2. /\ app \in [Attribute -> ApplicantStates]
        /\ reg \in [Attribute -> RegistrarStates]
        /\ leave \in [Attribute -> BOOLEAN]
    BY <1>2, <1>4, <2>1 DEF Participants
  <2>3. PICK live : live = p.live \ {a}
    OBVIOUS
  <2>4. r = [live |-> live, app |-> app, reg |-> reg, leave |-> leave,
             join |-> p.join, la |-> p.la, laTimer |-> timer, orphans |-> orphans,
             wanted |-> p.wanted, announced |-> p.announced, known |-> p.known]
    BY <1>2, <1>3, <2>1, <2>3 DEF Participants
  <2>5. live \in SUBSET Attribute
    BY <1>2, <2>3 DEF Participants
  <2>6. /\ p.join \in BOOLEAN /\ p.la \in {"Active", "Passive"}
        /\ p.wanted \in SUBSET Attribute /\ p.announced \in SUBSET Attribute
        /\ p.known \in SUBSET Attribute
    BY <1>2 DEF Participants
  <2>7. r \in Participants
    BY <1>3, <2>2, <2>4, <2>5, <2>6 DEF Participants
  <2>8. /\ r.live = live /\ r.la = p.la /\ r.app = app /\ r.reg = reg
    BY <2>4
  <2> QED
    BY <2>1, <2>3, <2>7, <2>8
<1>6. /\ r.app[a] = "VO" /\ r.reg[a] = "MT"
      /\ \A b \in Attribute \ {a} : r.app[b] = p.app[b] /\ r.reg[b] = p.reg[b]
  BY <1>2, <1>5 DEF Participants
<1>7. IsFiniteSet(r.live)
  BY <1>5, FS_Subset DEF Sound
<1>8. \A b \in Attribute \ r.live : b = a \/ b \in Attribute \ p.live
  BY <1>5
<1>9. Sound(r)
  BY <1>4, <1>5, <1>6, <1>7, <1>8 DEF Sound
<1> QED
  BY <1>1, <1>5, <1>6, <1>9 DEF Freed

\* A change of the history, or of the timers, is none of Applicants and Registrars.
Alike(p, r) ==
    r.live = p.live /\ r.la = p.la /\ r.app = p.app /\ r.reg = p.reg

\* The application declares an attribute.
Declared(p, a, ev, r) ==
    /\ Sound(r) /\ r.live = p.live \cup {a} /\ r.la = p.la /\ r.reg = p.reg
    /\ r.app[a] = ApplicantNext(ev, p.app[a])
    /\ \A b \in Attribute \ {a} : r.app[b] = p.app[b]

LEMMA JoinRequestIs ==
  ASSUME NEW n, NEW p, Sound(p), NEW a \in Attribute, NEW new,
         NEW ev, ev = IF new THEN "New" ELSE "Join"
  PROVE  Declared(p, a, ev, P(n)!JoinRequest(p, a, new))
<1>1. PICK q : q = P(n)!GetOrCreate(p, a)
  OBVIOUS
<1>2. /\ Sound(q) /\ q.live = p.live \cup {a} /\ q.la = p.la
      /\ q.app = p.app /\ q.reg = p.reg
  BY <1>1, GetOrCreateIs DEF Created
<1>4. PICK x : x = P(n)!Applicants(q, {a}, ev)
  OBVIOUS
<1>5. Applied(q, {a}, ev, x)
  BY <1>2, <1>4, ApplicantsIs
<1>6. P(n)!JoinRequest(p, a, new) = [x EXCEPT !.wanted = @ \cup {a}]
  BY <1>1, <1>4 DEF P!JoinRequest
<1>7. PICK r : r = [x EXCEPT !.wanted = @ \cup {a}]
  OBVIOUS
<1>8. r \in Participants /\ Alike(x, r)
  BY <1>5, <1>7 DEF Applied, Sound, Participants, Alike
<1>9. Sound(r)
  BY <1>5, <1>8 DEF Applied, Sound, Alike
<1> QED
  BY <1>2, <1>5, <1>6, <1>7, <1>8, <1>9 DEF Applied, Alike, Declared

\* An attribute whose Applicant is an observer is freed, or is kept because its
\* Registrar is not empty.
Withdrawn(p, a, r) ==
    /\ Sound(r) /\ r.live \subseteq p.live /\ r.la = p.la /\ r.reg = p.reg
    /\ r.app[a] = ApplicantNext("Lv", p.app[a])
    /\ \A b \in Attribute \ {a} : r.app[b] = p.app[b]

LEMMA LeaveRequestIs ==
  ASSUME NEW n, NEW p, Sound(p), NEW a \in Attribute
  PROVE  Withdrawn(p, a, P(n)!LeaveRequest(p, a))
<1> USE DEF Withdrawn
<1>1. CASE a \notin p.live
  <2>1. p.app[a] = "VO" /\ ApplicantNext("Lv", "VO") = "VO"
    BY <1>1 DEF Sound, ApplicantNext, OnLeave
  <2> QED
    BY <1>1, <2>1 DEF P!LeaveRequest
<1>2. CASE a \in p.live
  <2>1. PICK q : q = P(n)!Applicants(p, {a}, "Lv")
    OBVIOUS
  <2>2. Applied(p, {a}, "Lv", q)
    BY <1>2, <2>1, ApplicantsIs
  <2>3. PICK x : x = [q EXCEPT !.wanted = @ \ {a}]
    OBVIOUS
  <2>4. x \in Participants /\ Alike(q, x)
    BY <2>2, <2>3 DEF Applied, Sound, Participants, Alike
  <2>5. Sound(x)
    BY <2>2, <2>4 DEF Applied, Sound, Alike
  <2>6. P(n)!LeaveRequest(p, a) = P(n)!CheckRelevance(x, a)
    BY <1>2, <2>1, <2>3 DEF P!LeaveRequest
  <2>7. CASE x.app[a] \in ObserverStates /\ x.reg[a] = "MT"
    <3>1. P(n)!LeaveRequest(p, a) = P(n)!Delete(x, a)
      BY <2>6, <2>7, StateSets DEF P!CheckRelevance
    <3>2. x.app[a] = "VO"
      BY <2>5, <2>7 DEF Sound, ObserverStates, PointToPoint
    <3>3. PICK r : r = P(n)!Delete(x, a)
      OBVIOUS
    <3>4. Freed(x, a, r)
      BY <2>5, <3>3, DeleteIs
    <3>5. r.reg = x.reg
      BY <2>5, <2>7, <3>4 DEF Freed, Sound, Participants
    <3> QED
      BY <2>2, <2>4, <3>1, <3>2, <3>3, <3>4, <3>5 DEF Applied, Alike, Freed
  <2>8. CASE ~(x.app[a] \in ObserverStates /\ x.reg[a] = "MT")
    <3>1. P(n)!LeaveRequest(p, a) = x
      BY <2>6, <2>8, StateSets DEF P!CheckRelevance
    <3> QED
      BY <2>2, <2>4, <2>5, <3>1 DEF Applied, Alike
  <2> QED
    BY <2>7, <2>8
<1> QED
  BY <1>1, <1>2

\* What the join indication asks for before the Applicant sees the event.
Asked(n, p, a, ev) ==
    LET i == Indication(ev, p.reg[a])
    IN  IF a \in Echoes(n) /\ i \in {"New", "Join"} THEN ApplicantNext(i, p.app[a])
        ELSE p.app[a]

\* A received event of a listed attribute.  The attribute is freed when its
\* Applicant is an observer then.
Heard(n, p, a, ev, r) ==
    LET next == ApplicantNext(ev, Asked(n, p, a, ev))
    IN  /\ Sound(r) /\ r.la = p.la
        /\ r.live = IF next = "VO" THEN p.live \ {a} ELSE p.live
        /\ r.app[a] = next
        /\ r.reg[a] = IF next = "VO" THEN "MT" ELSE RegistrarNext(ev, p.reg[a])
        /\ \A b \in Attribute \ {a} : r.app[b] = p.app[b] /\ r.reg[b] = p.reg[b]

LEMMA ProcessAttributeIs ==
  ASSUME NEW n, NEW p, Sound(p), NEW a \in p.live, NEW ev
  PROVE  Heard(n, p, a, ev, P(n)!ProcessAttribute(p, a, ev))
<1> DEFINE i == Indication(ev, p.reg[a])
           x == P(n)!Registrars(p, {a}, ev)
           y == P(n)!JoinIndication(x, a, i)
           z == P(n)!PeerSays(y, a, ev)
           w == P(n)!Applicants(z, {a}, ev)
<1>1. a \in Attribute
  BY DEF Sound, Participants
<1>2. Registered(p, {a}, ev, x)
  BY <1>1, RegistrarsIs
<1>3. P(n)!ProcessAttribute(p, a, ev) = P(n)!FreeCheck(w, a)
  BY RegistrarTable DEF P!ProcessAttribute
<1> HIDE DEF x
<1>4. /\ Sound(y) /\ y.live = p.live /\ y.la = p.la /\ y.reg = x.reg
      /\ y.app[a] = Asked(n, p, a, ev)
      /\ \A b \in Attribute \ {a} : y.app[b] = p.app[b]
  <2>1. CASE a \in Echoes(n) /\ i \in {"New", "Join"}
    <3>1. y = P(n)!JoinRequest(x, a, i = "New")
      BY <2>1 DEF P!JoinIndication
    <3>2. i = IF i = "New" THEN "New" ELSE "Join"
      BY <2>1
    <3> HIDE DEF y, i
    <3>3. Declared(x, a, i, y)
      <4>1. Sound(x)
        BY <1>2 DEF Registered
      <4>2. PICK j, new : j = i /\ new = (i = "New")
        OBVIOUS
      <4>3. j = IF new THEN "New" ELSE "Join"
        BY <3>2, <4>2
      <4>4. Declared(x, a, j, P(n)!JoinRequest(x, a, new))
        BY <1>1, <4>1, <4>3, JoinRequestIs
      <4> QED
        BY <3>1, <4>2, <4>4
    <3>4. Asked(n, p, a, ev) = ApplicantNext(i, p.app[a])
      BY <2>1 DEF Asked, i
    <3> QED
      BY <1>2, <3>3, <3>4 DEF Registered, Declared
  <2>2. CASE ~(a \in Echoes(n) /\ i \in {"New", "Join"})
    <3>1. y = x
      BY <2>2 DEF P!JoinIndication
    <3>2. Asked(n, p, a, ev) = p.app[a]
      BY <2>2 DEF Asked
    <3> QED
      BY <1>2, <3>1, <3>2 DEF Registered
  <2> QED
    BY <2>1, <2>2
<1> HIDE DEF y
<1>5. Sound(z) /\ Alike(y, z)
  <2>1. \E h \in SUBSET Attribute : z = y \/ z = [y EXCEPT !.announced = h]
    <3>1. y.announced \in SUBSET Attribute
      BY <1>4 DEF Sound, Participants
    <3>2. y.announced \ {a} \in SUBSET Attribute /\ y.announced \cup {a} \in SUBSET Attribute
      BY <1>1, <3>1
    <3>3. \/ z = y \/ z = [y EXCEPT !.announced = @ \ {a}]
          \/ z = [y EXCEPT !.announced = @ \cup {a}]
      BY DEF P!PeerSays, P!PeerForgets
    <3> QED
      BY <3>1, <3>2, <3>3
  <2>2. PICK h \in SUBSET Attribute : z = y \/ z = [y EXCEPT !.announced = h]
    BY <2>1
  <2> HIDE DEF z
  <2>3. z \in Participants /\ Alike(y, z)
    BY <1>4, <2>2 DEF Sound, Participants, Alike
  <2> QED
    BY <1>4, <2>3 DEF Sound, Alike
<1> HIDE DEF z
<1>6. Applied(z, {a}, ev, w)
  BY <1>4, <1>5, ApplicantsIs DEF Alike
<1> HIDE DEF w
<1>7. /\ Sound(w) /\ w.live = p.live /\ w.la = p.la
      /\ w.app[a] = ApplicantNext(ev, Asked(n, p, a, ev))
      /\ w.reg[a] = RegistrarNext(ev, p.reg[a])
      /\ \A b \in Attribute \ {a} : w.app[b] = p.app[b] /\ w.reg[b] = p.reg[b]
  BY <1>1, <1>2, <1>4, <1>5, <1>6 DEF Applied, Alike, Registered
<1>8. w.app[a] \in ObserverStates <=> w.app[a] = "VO"
  BY <1>1, <1>7 DEF Sound, PointToPoint, ObserverStates
<1>9. CASE w.app[a] = "VO"
  <2>1. P(n)!FreeCheck(w, a) = P(n)!Delete(w, a)
    BY <1>8, <1>9, StateSets DEF P!FreeCheck
  <2>2. PICK r : r = P(n)!Delete(w, a)
    OBVIOUS
  <2>3. Freed(w, a, r)
    BY <1>1, <1>7, <2>2, DeleteIs
  <2> QED
    BY <1>3, <1>7, <1>9, <2>1, <2>2, <2>3 DEF Heard, Freed
<1>10. CASE w.app[a] # "VO"
  <2>1. P(n)!FreeCheck(w, a) = w
    BY <1>8, <1>10, StateSets DEF P!FreeCheck
  <2> QED
    BY <1>3, <1>7, <1>10, <2>1 DEF Heard
<1> QED
  BY <1>9, <1>10

\* A LeaveAll of the peer, for the attributes T of one type.
AgedOut(p, T, r) ==
    /\ Sound(r) /\ r.live = p.live /\ r.la = "Passive"
    /\ \A a \in Attribute :
          /\ r.app[a] = IF a \in p.live \cap T THEN ApplicantNext("rLv", p.app[a])
                        ELSE p.app[a]
          /\ r.reg[a] = IF a \in p.live \cap T THEN RegistrarNext("rLv", p.reg[a])
                        ELSE p.reg[a]

LEMMA ReceiveLeaveAllIs ==
  ASSUME NEW n, NEW p, Sound(p), NEW T
  PROVE  AgedOut(p, T, P(n)!ReceiveLeaveAll(p, T))
<1> DEFINE S == p.live \cap T
           x == P(n)!Registrars(p, S, "rLv")
           y == P(n)!PeerForgets(x, S)
           z == P(n)!Applicants(y, S, "rLv")
           r == P(n)!OnLeaveAllReceived(z)
<1>1. S \subseteq p.live /\ S \subseteq Attribute
  BY DEF Sound, Participants
<1>2. P(n)!ReceiveLeaveAll(p, T) = r
  BY DEF P!ReceiveLeaveAll
<1> HIDE DEF S
<1>3. Registered(p, S, "rLv", x)
  BY <1>1, RegistrarsIs
<1>4. y = [x EXCEPT !.announced = @ \ S]
  BY DEF P!PeerForgets
<1> HIDE DEF x, y
<1>5. y \in Participants /\ Alike(x, y)
  BY <1>3, <1>4 DEF Registered, Sound, Participants, Alike
<1>6. Sound(y)
  BY <1>3, <1>5 DEF Registered, Sound, Alike
<1>7. Applied(y, S, "rLv", z)
  BY <1>1, <1>3, <1>5, <1>6, ApplicantsIs DEF Registered, Alike
<1>8. r = [z EXCEPT !.la = "Passive"]
  BY DEF P!OnLeaveAllReceived
<1> HIDE DEF z, r
<1>9. /\ r \in Participants /\ r.la = "Passive"
      /\ r.live = z.live /\ r.app = z.app /\ r.reg = z.reg
  BY <1>7, <1>8 DEF Applied, Sound, Participants
<1>10. Sound(r)
  BY <1>7, <1>9 DEF Applied, Sound
<1> QED
  BY <1>2, <1>3, <1>5, <1>7, <1>9, <1>10 DEF AgedOut, Applied, Registered, Alike, S

\* The LeaveAll timer only changes the LeaveAll machine and the timers.
LEMMA OnLeaveAllTimerIs ==
  ASSUME NEW n, NEW p, Sound(p)
  PROVE  LET r == P(n)!OnLeaveAllTimer([p EXCEPT !.laTimer = "idle"])
         IN  Sound(r) /\ r.live = p.live /\ r.app = p.app /\ r.reg = p.reg
<1>1. p \in Participants
  BY DEF Sound
<1>2. PICK r : r = P(n)!OnLeaveAllTimer([p EXCEPT !.laTimer = "idle"])
  OBVIOUS
<1>3. PICK t, j : /\ r = [p EXCEPT !.la = "Active", !.laTimer = t, !.join = j]
                  /\ t \in {"armed", "idle", "deleted"} /\ j \in BOOLEAN
  <2>1. PICK x : x = [p EXCEPT !.laTimer = "idle"]
    OBVIOUS
  <2>2. x \in Participants /\ x.la = p.la /\ x.join = p.join
    BY <1>1, <2>1 DEF Participants
  <2>3. PICK y : y = [x EXCEPT !.la = "Active", !.laTimer = P(n)!StartLeaveAll(@)]
    OBVIOUS
  <2>4. y = [p EXCEPT !.la = "Active", !.laTimer = "armed", !.join = p.join]
    BY <1>1, <2>1, <2>3 DEF Participants, P!StartLeaveAll
  <2>5. r = y \/ r = [y EXCEPT !.join = TRUE]
    BY <1>2, <2>1, <2>3 DEF P!OnLeaveAllTimer, P!RequestTransmission
  <2>6. r = y \/ r = [p EXCEPT !.la = "Active", !.laTimer = "armed", !.join = TRUE]
    BY <1>1, <2>4, <2>5 DEF Participants
  <2>7. p.join \in BOOLEAN
    BY <1>1 DEF Participants
  <2> QED
    BY <2>4, <2>6, <2>7
<1>4. r \in Participants /\ r.live = p.live /\ r.app = p.app /\ r.reg = p.reg
  BY <1>1, <1>3 DEF Participants
<1>5. Sound(r)
  BY <1>4 DEF Sound
<1> QED
  BY <1>2, <1>4, <1>5

\* The leave timer of a listed attribute.
LEMMA LeaveTimerIs ==
  ASSUME NEW n, NEW p, Sound(p), NEW a \in Attribute
  PROVE  Registered(p, {a}, "leaveTimer", P(n)!LeaveTimerCallback(p, a))
<1>1. PICK x : x = [p EXCEPT !.leave[a] = FALSE]
  OBVIOUS
<1>2. x \in Participants /\ Alike(p, x)
  BY <1>1 DEF Sound, Participants, Alike
<1>3. Sound(x)
  BY <1>2 DEF Sound, Alike
<1>4. Registered(x, {a}, "leaveTimer", P(n)!Registrars(x, {a}, "leaveTimer"))
  <2>1. "leaveTimer" \notin JoinEvents
    BY DEF JoinEvents
  <2> QED
    BY <1>3, <2>1, RegistrarsIs
<1> QED
  BY <1>1, <1>2, <1>4 DEF P!LeaveTimerCallback, Registered, Alike

\* What a LeaveAll of its own makes of the participant before it transmits.
Before(p, r) ==
    /\ Sound(r) /\ r.live = p.live /\ r.la = "Passive"
    /\ \A a \in Attribute :
          /\ r.app[a] = IF a \in p.live /\ p.la = "Active"
                        THEN ApplicantNext("rLA", p.app[a]) ELSE p.app[a]
          /\ r.reg[a] = IF a \in p.live /\ p.la = "Active"
                        THEN RegistrarNext("rLA", p.reg[a]) ELSE p.reg[a]

LEMMA OnLeaveAllTransmitIs ==
  ASSUME NEW n, NEW p, Sound(p)
  PROVE  Before(p, P(n)!OnLeaveAllTransmit(p))
<1>1. CASE p.la = "Active"
  <2> DEFINE x == [p EXCEPT !.la = "Passive"]
             y == P(n)!Applicants(x, p.live, "rLA")
             z == P(n)!Registrars(y, p.live, "rLA")
  <2>1. P(n)!OnLeaveAllTransmit(p) = z
    BY <1>1 DEF P!OnLeaveAllTransmit
  <2>2. /\ x \in Participants /\ x.la = "Passive" /\ x.live = p.live
        /\ x.app = p.app /\ x.reg = p.reg
    BY DEF Sound, Participants
  <2> HIDE DEF x
  <2>3. Sound(x)
    BY <2>2 DEF Sound
  <2>4. Applied(x, p.live, "rLA", y)
    BY <2>2, <2>3, ApplicantsIs
  <2> HIDE DEF y
  <2>5. Sound(y) /\ y.live = p.live /\ p.live \subseteq Attribute
    BY <2>2, <2>4 DEF Applied, Sound, Participants
  <2>6. Registered(y, p.live, "rLA", z)
    BY <2>5, RegistrarsIs
  <2> QED
    BY <1>1, <2>1, <2>2, <2>4, <2>6 DEF Before, Applied, Registered
<1>2. CASE p.la # "Active"
  BY <1>2 DEF P!OnLeaveAllTransmit, Before, Sound, Participants
<1> QED
  BY <1>1, <1>2

\* A transmission.
Transmitted(p, r) ==
    \E q : Before(p, q) /\ Applied(q, q.live, "tx", r)

LEMMA JoinTimerIs ==
  ASSUME NEW n, NEW p, Sound(p)
  PROVE  Transmitted(p, P(n)!JoinTimerCallback(p))
<1> DEFINE x == [p EXCEPT !.join = FALSE]
           y == P(n)!OnLeaveAllTransmit(x)
           z == P(n)!Transmit(y)
           r == P(n)!Applicants(z, y.live, "tx")
<1>1. P(n)!JoinTimerCallback(p) = r
  BY DEF P!JoinTimerCallback
<1>2. x \in Participants /\ Alike(p, x)
  BY DEF Sound, Participants, Alike
<1> HIDE DEF x
<1>3. Sound(x)
  BY <1>2 DEF Sound, Alike
<1>4. Before(x, y)
  BY <1>3, OnLeaveAllTransmitIs
<1> HIDE DEF y
<1>5. z \in Participants /\ Alike(y, z)
  <2>1. PICK h \in SUBSET Attribute : z = [y EXCEPT !.announced = h]
    <3>1. y \in Participants
      BY <1>4 DEF Before, Sound
    <3>2. ((y.announced \cup P(n)!Heard(y, {"New", "JoinIn", "JoinMt"}))
              \ P(n)!Heard(y, {"Lv"})) \in SUBSET Attribute
      BY <3>1 DEF P!Heard, Participants
    <3> QED
      BY <3>2 DEF P!Transmit
  <2> HIDE DEF z
  <2> QED
    BY <1>4, <2>1 DEF Before, Sound, Participants, Alike
<1> HIDE DEF z
<1>6. Sound(z)
  BY <1>4, <1>5 DEF Before, Sound, Alike
<1>7. Applied(z, y.live, "tx", r)
  BY <1>5, <1>6, ApplicantsIs DEF Alike
<1> HIDE DEF r
<1>8. Before(p, y) /\ Applied(y, y.live, "tx", r)
  BY <1>2, <1>4, <1>5, <1>7 DEF Before, Applied, Alike
<1> QED
  BY <1>1, <1>8 DEF Transmitted

-----------------------------------------------------------------------------
(***************************************************************************)
(* The station: its lists are those of the participant's attributes, and   *)
(* the indications keep the stream map and the list of domains.            *)
(***************************************************************************)
Whole(q) ==
    /\ q \in [mrp : Participants, order : Seq(Attribute), streams : Seq(Stream),
              domains : Seq(Domain), attached : SUBSET Stream]
    /\ Sound(q.mrp)
    /\ ToSet(q.order) = q.mrp.live

\* q with the participant p.
Became(q, p, r) ==
    /\ Whole(r) /\ Alike(p, r.mrp)
    /\ r.streams = q.streams /\ r.domains = q.domains /\ r.attached = q.attached

LEMMA WithIs ==
  ASSUME NEW q, Whole(q), NEW p, Sound(p)
  PROVE  Became(q, p, With(q, p))
<1> DEFINE m == Forgetful(p)
           kept == Entries(q.order, p.live)
           new == SetToSeq(p.live \ ToSet(q.order))
           r == With(q, p)
<1>1. m \in Participants /\ Alike(p, m)
  BY DEF Forgetful, Sound, Participants, Alike
<1>2. Sound(m)
  BY <1>1 DEF Sound, Alike
<1>3. q.order \in Seq(Attribute) /\ p.live \subseteq Attribute
  BY DEF Whole, Sound, Participants
<1>4. kept \in Seq(Attribute) /\ ToSet(kept) = ToSet(q.order) \cap p.live
  BY <1>3, EntriesSet
<1>5. new \in Seq(Attribute) /\ ToSet(new) = p.live \ ToSet(q.order)
  <2>1. IsFiniteSet(p.live \ ToSet(q.order))
    BY FS_Subset DEF Sound
  <2>2. new \in Seq(p.live \ ToSet(q.order)) /\ ToSet(new) = p.live \ ToSet(q.order)
    BY <2>1, ListSet
  <2> HIDE DEF new
  <2> QED
    BY <1>3, <2>2
<1>6. r = [q EXCEPT !.mrp = m, !.order = kept \o new]
  BY DEF With
<1> HIDE DEF m, kept, new
<1>7. kept \o new \in Seq(Attribute) /\ ToSet(kept \o new) = p.live
  <2>1. /\ kept \o new \in Seq(Attribute)
        /\ ToSet(kept \o new) = ToSet(kept) \cup ToSet(new)
    BY <1>4, <1>5, ConcatSet
  <2> QED
    BY <1>4, <1>5, <2>1
<1> PICK o : o = kept \o new
  OBVIOUS
<1>8. r = [q EXCEPT !.mrp = m, !.order = o] /\ o \in Seq(Attribute) /\ ToSet(o) = p.live
  BY <1>6, <1>7
<1> HIDE DEF r
<1>9. /\ r \in [mrp : Participants, order : Seq(Attribute), streams : Seq(Stream),
                domains : Seq(Domain), attached : SUBSET Stream]
      /\ r.mrp = m /\ r.order = o
      /\ r.streams = q.streams /\ r.domains = q.domains /\ r.attached = q.attached
  BY <1>1, <1>8 DEF Whole
<1>10. Whole(r)
  BY <1>1, <1>2, <1>8, <1>9 DEF Whole, Alike
<1> QED
  BY <1>1, <1>9, <1>10 DEF Became, r

LEMMA ListedIs ==
  ASSUME NEW A, NEW list \in Seq(A), NEW x \in A
  PROVE  /\ Listed(list, x) \in Seq(A)
         /\ ToSet(Listed(list, x)) = ToSet(list) \cup {x}
         /\ IsInjective(list) => IsInjective(Listed(list, x))
<1>1. CASE x \in ToSet(list)
  BY <1>1 DEF Listed
<1>2. CASE x \notin ToSet(list)
  <2>1. Listed(list, x) = Append(list, x)
    BY <1>2 DEF Listed
  <2>2. /\ Append(list, x) \in Seq(A)
        /\ ToSet(Append(list, x)) = ToSet(list) \cup {x}
    BY AppendSet
  <2>3. ASSUME IsInjective(list) PROVE IsInjective(Append(list, x))
    <3>1. /\ Len(list) \in Nat /\ DOMAIN list = 1..Len(list)
          /\ DOMAIN Append(list, x) = 1..(Len(list) + 1)
          /\ \A i \in 1..Len(list) : Append(list, x)[i] = list[i]
          /\ Append(list, x)[Len(list) + 1] = x
      OBVIOUS
    <3>2. \A i \in 1..Len(list) : list[i] # x
      BY <1>2, <3>1 DEF ToSet
    <3>3. \A i, j \in 1..Len(list) : list[i] = list[j] => i = j
      BY <2>3, <3>1 DEF IsInjective
    <3>4. \A i \in 1..(Len(list) + 1) : i \in 1..Len(list) \/ i = Len(list) + 1
      BY <3>1
    <3>5. PICK t : t = Append(list, x)
      OBVIOUS
    <3>6. ASSUME NEW i \in 1..(Len(list) + 1), NEW j \in 1..(Len(list) + 1), t[i] = t[j]
          PROVE  i = j
      BY <3>1, <3>2, <3>3, <3>4, <3>5, <3>6
    <3> QED
      BY <3>1, <3>5, <3>6 DEF IsInjective
  <2> QED
    BY <2>1, <2>2, <2>3
<1> QED
  BY <1>1, <1>2

Told(q, a, ev) == Indication(ev, q.mrp.reg[a]) \in {"New", "Join"}

\* A received event of a listed attribute of the station.
Processed(n, q, a, ev, r) ==
    /\ Whole(r) /\ Heard(n, q.mrp, a, ev, r.mrp)
    /\ r.attached = q.attached
    /\ r.streams = IF Told(q, a, ev) /\ a.type = "TalkerAdvertise"
                   THEN Listed(q.streams, a.stream) ELSE q.streams
    /\ r.domains = IF Told(q, a, ev) /\ a.type = "Domain"
                   THEN Listed(q.domains, a.value) ELSE q.domains

LEMMA AttributeFields ==
  ASSUME NEW a \in Attribute
  PROVE  /\ a.type = "TalkerAdvertise" =>
              a.stream \in Stream /\ a.value \in Address
              /\ a = TalkerAdvertise(a.stream, a.value)
         /\ a.type = "Listener" =>
              a.stream \in Stream /\ a.value \in Octets /\ a = Listener(a.stream, a.value)
         /\ a.type = "Domain" => a.value \in Domain /\ a = DomainOf(a.value)
         /\ a.type \in {"TalkerAdvertise", "Listener", "Domain"}
<1>1. CASE a \in {TalkerAdvertise(s, x) : s \in Stream, x \in Address}
  BY <1>1 DEF TalkerAdvertise
<1>2. CASE a \in {Listener(s, d) : s \in Stream, d \in Octets}
  BY <1>2 DEF Listener
<1>3. CASE a \in {DomainOf(d) : d \in Domain}
  BY <1>3 DEF DomainOf
<1> QED
  BY <1>1, <1>2, <1>3 DEF Attribute

LEMMA ProcessIs ==
  ASSUME NEW n, NEW q, Whole(q), NEW a \in q.mrp.live, NEW ev
  PROVE  Processed(n, q, a, ev, Process(n, q, a, ev))
<1>1. a \in Attribute /\ Sound(q.mrp)
  BY DEF Whole, Sound, Participants
<1>2. PICK x : x = IF Told(q, a, ev) THEN JoinIndicated(q, a) ELSE q
  OBVIOUS
<1>3. PICK p : p = P(n)!ProcessAttribute(q.mrp, a, ev)
  OBVIOUS
<1>4. Process(n, q, a, ev) = With(x, p)
  BY <1>2, <1>3 DEF Process, Told
<1>5. Heard(n, q.mrp, a, ev, p)
  BY <1>1, <1>3, ProcessAttributeIs
<1>6. /\ Whole(x) /\ x.attached = q.attached
      /\ x.streams = IF Told(q, a, ev) /\ a.type = "TalkerAdvertise"
                     THEN Listed(q.streams, a.stream) ELSE q.streams
      /\ x.domains = IF Told(q, a, ev) /\ a.type = "Domain"
                     THEN Listed(q.domains, a.value) ELSE q.domains
  <2>1. CASE Told(q, a, ev) /\ a.type = "TalkerAdvertise"
    <3>1. PICK l : l = Listed(q.streams, a.stream)
      OBVIOUS
    <3>2. l \in Seq(Stream)
      BY <1>1, <2>1, <3>1, AttributeFields, ListedIs DEF Whole
    <3>3. x = [q EXCEPT !.streams = l]
      BY <1>2, <2>1, <3>1 DEF JoinIndicated
    <3> QED
      BY <2>1, <3>1, <3>2, <3>3 DEF Whole
  <2>2. CASE Told(q, a, ev) /\ a.type = "Domain"
    <3>1. PICK l : l = Listed(q.domains, a.value)
      OBVIOUS
    <3>2. l \in Seq(Domain)
      BY <1>1, <2>2, <3>1, AttributeFields, ListedIs DEF Whole
    <3>3. x = [q EXCEPT !.domains = l]
      BY <1>2, <2>2, <3>1 DEF JoinIndicated
    <3> QED
      BY <2>2, <3>1, <3>2, <3>3 DEF Whole
  <2>3. CASE ~Told(q, a, ev) \/ a.type \notin {"TalkerAdvertise", "Domain"}
    <3>1. x = q
      BY <1>2, <2>3 DEF JoinIndicated
    <3> QED
      BY <2>3, <3>1
  <2> QED
    BY <2>1, <2>2, <2>3
<1>7. PICK r : r = With(x, p)
  OBVIOUS
<1>8. Became(x, p, r)
  BY <1>5, <1>6, <1>7, WithIs DEF Heard
<1>9. Heard(n, q.mrp, a, ev, r.mrp)
  BY <1>5, <1>8 DEF Heard, Became, Alike, Whole
<1> QED
  BY <1>4, <1>6, <1>7, <1>8, <1>9 DEF Processed, Became

\* What peers send, a LeaveAll and a transmission do not declare or withdraw.
LEMMA TableKeeps ==
  ASSUME NEW s \in PointToPoint, NEW ev \in ReceivedEvents \cup {"rLA", "tx"}
  PROVE  ApplicantNext(ev, s) \in DeclaringStates <=> s \in DeclaringStates
BY DEF PointToPoint, DeclaringStates, ReceivedEvents, ApplicantNext, OnReceiveJoinIn,
       OnReceiveIn, OnReceiveEmpty, OnReceiveLeave, OnTransmit

Declaring(q) == {a \in Attribute : q.mrp.app[a] \in DeclaringStates}

\* What a walk over the Listeners leaves alone: all other attributes, the lists,
\* and the declaration of a Listener that the join indication does not echo.
Spared(n, q, r) ==
    /\ Whole(r) /\ r.mrp.la = q.mrp.la
    /\ r.streams = q.streams /\ r.domains = q.domains /\ r.attached = q.attached
    /\ r.mrp.live \subseteq q.mrp.live
    /\ \A a \in Attribute : a.type # "Listener" =>
          /\ r.mrp.app[a] = q.mrp.app[a] /\ r.mrp.reg[a] = q.mrp.reg[a]
          /\ a \in r.mrp.live <=> a \in q.mrp.live
    /\ \A a \in Attribute \ Echoes(n) : a \in Declaring(r) <=> a \in Declaring(q)

LEMMA SparedAgain ==
  ASSUME NEW n, NEW q, NEW r, NEW t, Spared(n, q, r), Spared(n, r, t)
  PROVE  Spared(n, q, t)
BY DEF Spared

LEMMA ListOfIs ==
  ASSUME NEW q, Whole(q), NEW t
  PROVE  /\ ListOf(q, t) \in Seq(Attribute)
         /\ ToSet(ListOf(q, t)) = {a \in q.mrp.live : a.type = t}
<1>1. q.order \in Seq(Attribute) /\ ToSet(q.order) = q.mrp.live
  BY DEF Whole
<1>2. /\ ListOf(q, t) \in Seq(Attribute)
      /\ ToSet(ListOf(q, t)) = q.mrp.live \cap OfType(t)
  BY <1>1, EntriesSet DEF ListOf
<1>3. q.mrp.live \subseteq Attribute
  BY DEF Whole, Sound, Participants
<1> QED
  BY <1>2, <1>3 DEF OfType

LEMMA ListenerSpared ==
  ASSUME NEW n, NEW q, Whole(q), NEW a \in q.mrp.live, a.type = "Listener",
         NEW ev \in ReceivedEvents
  PROVE  Spared(n, q, Process(n, q, a, ev))
<1>1. PICK r : r = Process(n, q, a, ev)
  OBVIOUS
<1>2. Processed(n, q, a, ev, r)
  BY <1>1, ProcessIs
<1>3. a \in Attribute
  BY DEF Whole, Sound, Participants
<1>4. /\ r.streams = q.streams /\ r.domains = q.domains /\ r.attached = q.attached
      /\ r.mrp.live \subseteq q.mrp.live /\ Whole(r) /\ r.mrp.la = q.mrp.la
      /\ \A b \in q.mrp.live : b # a => b \in r.mrp.live
      /\ \A b \in Attribute \ {a} :
            r.mrp.app[b] = q.mrp.app[b] /\ r.mrp.reg[b] = q.mrp.reg[b]
  BY <1>2 DEF Processed, Heard
<1>5. ASSUME a \notin Echoes(n)
      PROVE  a \in Declaring(r) <=> a \in Declaring(q)
  <2>1. r.mrp.app[a] = ApplicantNext(ev, q.mrp.app[a])
    BY <1>2, <1>5 DEF Processed, Heard, Asked
  <2>2. q.mrp.app[a] \in PointToPoint
    BY <1>3 DEF Whole, Sound
  <2> QED
    BY <1>3, <2>1, <2>2, TableKeeps DEF Declaring
<1>6. \A b \in Attribute \ Echoes(n) : b \in Declaring(r) <=> b \in Declaring(q)
  BY <1>4, <1>5 DEF Declaring
<1>7. \A b \in Attribute : b.type # "Listener" =>
        /\ r.mrp.app[b] = q.mrp.app[b] /\ r.mrp.reg[b] = q.mrp.reg[b]
        /\ b \in r.mrp.live <=> b \in q.mrp.live
  BY <1>4
<1> QED
  BY <1>1, <1>4, <1>6, <1>7 DEF Spared

\* Wherever the walk is, it has spared what it must, and the entry it is to visit
\* next is one of the list, although entries are freed under it.
OnItsWay(n, q, w) ==
    Spared(n, q, w.q) /\ w.at \in 0..Len(ListOf(w.q, "Listener"))

LEMMA VisitIs ==
  ASSUME NEW n, NEW q, NEW s, NEW ev \in ReceivedEvents, NEW w, OnItsWay(n, q, w)
  PROVE  LET x == Visit(n, s, ev, w)
         IN  OnItsWay(n, q, x) /\ (x = w \/ x = [q |-> x.q, at |-> x.at])
<1> DEFINE list == ListOf(w.q, "Listener")
           a == list[w.at + 1]
           r == IF a.stream = s THEN Process(n, w.q, a, ev) ELSE w.q
           at == IF w.at + 1 > Len(ListOf(r, "Listener")) THEN 0 ELSE w.at + 1
<1>1. Whole(w.q)
  BY DEF OnItsWay, Spared
<1>2. list \in Seq(Attribute) /\ ToSet(list) = {b \in w.q.mrp.live : b.type = "Listener"}
  BY <1>1, ListOfIs
<1>3. CASE w.at = Len(list)
  BY <1>3 DEF Visit
<1>4. CASE w.at # Len(list)
  <2>1. Visit(n, s, ev, w) = [q |-> r, at |-> at]
    BY <1>4 DEF Visit
  <2>2. w.at \in Nat /\ w.at + 1 \in 1..Len(list)
    BY <1>2, <1>4 DEF OnItsWay
  <2>3. a \in w.q.mrp.live /\ a.type = "Listener"
    <3>1. a \in ToSet(list)
      BY <1>2, <2>2 DEF ToSet
    <3> QED
      BY <1>2, <3>1
  <2>4. Spared(n, w.q, r)
    <3>1. CASE a.stream = s
      <4>1. Spared(n, w.q, Process(n, w.q, a, ev))
        <5> PICK b : b = a
          OBVIOUS
        <5>1. b \in w.q.mrp.live /\ b.type = "Listener"
          BY <2>3
        <5> HIDE DEF a
        <5> QED
          BY <1>1, <5>1, ListenerSpared
      <4> QED
        BY <3>1, <4>1
    <3>2. CASE a.stream # s
      BY <1>1, <3>2 DEF Spared
    <3> QED
      BY <3>1, <3>2
  <2> HIDE DEF r
  <2>5. Spared(n, q, r)
    BY <2>4, SparedAgain DEF OnItsWay
  <2>6. ListOf(r, "Listener") \in Seq(Attribute)
    BY <2>5, ListOfIs DEF Spared
  <2>7. at \in 0..Len(ListOf(r, "Listener"))
    BY <2>2, <2>6
  <2> HIDE DEF at
  <2> QED
    BY <2>1, <2>5, <2>7 DEF OnItsWay
<1> QED
  BY <1>3, <1>4

\* The walk, a recursive function in the source of which every value is one step
\* from the one before: so it spares throughout.
LEMMA WalkIs ==
  ASSUME NEW n, NEW q, Whole(q), NEW s, NEW ev \in ReceivedEvents
  PROVE  Spared(n, q, WalkListeners(n, q, s, ev))
<1> DEFINE length == Len(ListOf(q, "Listener"))
           N == (length + 1) * (length + 1)
           b == [q |-> q, at |-> 0]
           E(f) == [i \in 0..N |-> IF i = 0 THEN b ELSE Visit(n, s, ev, f[i - 1])]
           walk == CHOOSE f : f = E(f)
           W == {w \in [q : [mrp : Participants, order : Seq(Attribute),
                             streams : Seq(Stream), domains : Seq(Domain),
                             attached : SUBSET Stream],
                         at : Nat] : OnItsWay(n, q, w)}
<1>1. WalkListeners(n, q, s, ev) = walk[N].q
  BY DEF WalkListeners
<1>2. N \in Nat /\ length \in Nat
  <2>1. ListOf(q, "Listener") \in Seq(Attribute)
    BY ListOfIs
  <2>2. length \in Nat
    BY <2>1
  <2> HIDE DEF length
  <2> QED
    BY <2>2
<1> HIDE DEF N
<1>3. b \in W
  <2>1. b.q = q /\ b.at = 0 /\ 0 \in Nat
    OBVIOUS
  <2>2. Spared(n, q, q)
    BY DEF Spared
  <2>3. OnItsWay(n, q, b)
    BY <1>2, <2>1, <2>2 DEF OnItsWay
  <2> QED
    BY <2>3 DEF Whole
<1>4. \A w \in W : Visit(n, s, ev, w) \in W
  <2> SUFFICES ASSUME NEW w \in W PROVE Visit(n, s, ev, w) \in W
    OBVIOUS
  <2>1. OnItsWay(n, q, w)
    OBVIOUS
  <2>2. PICK x : x = Visit(n, s, ev, w)
    OBVIOUS
  <2>3. OnItsWay(n, q, x) /\ (x = w \/ x = [q |-> x.q, at |-> x.at])
    BY <2>1, <2>2, VisitIs
  <2>4. CASE x = w
    BY <2>2, <2>4
  <2>5. CASE x = [q |-> x.q, at |-> x.at]
    <3>1. ListOf(x.q, "Listener") \in Seq(Attribute)
      BY <2>3, ListOfIs DEF OnItsWay, Spared
    <3>2. x.at \in Nat
      BY <2>3, <3>1 DEF OnItsWay
    <3>3. x.q \in [mrp : Participants, order : Seq(Attribute), streams : Seq(Stream),
                    domains : Seq(Domain), attached : SUBSET Stream]
      BY <2>3 DEF OnItsWay, Spared, Whole
    <3> QED
      BY <2>2, <2>3, <2>5, <3>2, <3>3
  <2> QED
    BY <2>3, <2>4, <2>5
<1> HIDE DEF W, b
<1>5. \E f : f = E(f)
  <2> DEFINE v == [i \in Nat |-> [w \in W |-> Visit(n, s, ev, w)]]
  <2>1. v \in [Nat -> [W -> W]]
    BY <1>4
  <2>2. \A i \in Nat : \A w \in W : v[i][w] = Visit(n, s, ev, w)
    OBVIOUS
  <2> HIDE DEF v
  <2>3. PICK f : Iterates(W, b, v, N, f)
    BY <1>2, <1>3, <2>1, Recursion
  <2>4. \A i \in 1..N : f[i - 1] \in W /\ i \in Nat
    BY <1>2, <2>3 DEF Iterates
  <2>5. \A i \in 1..N : f[i] = Visit(n, s, ev, f[i - 1])
    BY <2>2, <2>3, <2>4 DEF Iterates
  <2>6. \A i \in 0..N : i = 0 \/ i \in 1..N
    BY <1>2
  <2>7. f = E(f)
    BY <1>2, <2>3, <2>5, <2>6 DEF Iterates
  <2> QED
    BY <2>7
<1>6. walk = E(walk)
  BY <1>5
<1>7. PICK k : k = walk
  OBVIOUS
<1>8. k = E(k)
  BY <1>6, <1>7
<1> HIDE DEF walk
<1>9. /\ k[0] = b
      /\ \A i \in 0..N : i < N => k[i + 1] = Visit(n, s, ev, k[i])
  <2>1. 0 \in 0..N
    BY <1>2
  <2>2. \A i \in 0..N : i < N => i + 1 \in 0..N /\ i + 1 # 0 /\ (i + 1) - 1 = i
    BY <1>2
  <2> QED
    BY <1>8, <2>1, <2>2
<1> DEFINE T == {i \in 0..N : k[i] \in W}
<1>10. 0 \in T
  BY <1>2, <1>3, <1>9
<1>11. ASSUME NEW i \in 0..N, i \in T, i < N
       PROVE  i + 1 \in T
  BY <1>2, <1>4, <1>9, <1>11
<1>12. N \in T
  <2> HIDE DEF T
  <2>1. 0..N \subseteq T
    BY <1>2, <1>10, <1>11, Induction
  <2> QED
    BY <1>2, <2>1
<1> QED
  BY <1>1, <1>7, <1>12 DEF W, OnItsWay

-----------------------------------------------------------------------------
(***************************************************************************)
(* What a station keeps whatever it hears: its lists, the domains it        *)
(* declares and the streams it is attached to.                             *)
(***************************************************************************)
DomainsDeclared(q) ==
    \A d \in Domain : d \in ToSet(q.domains) <=> DomainOf(d) \in Declaring(q)

ListedOnce(q) == IsInjective(q.streams) /\ IsInjective(q.domains)

AttachedDeclared(n, q) ==
    n \notin Microphones =>
        \A s \in Stream : s \in q.attached <=> Listener(s, "READY") \in Declaring(q)

\* A talker is not the listener of its own stream.
NotItsOwn(n, q) ==
    \A s \in Stream : TalkerOf[s] = n =>
        s \notin q.attached /\ Listener(s, "READY") \notin q.mrp.live

Follows(n, q) ==
    /\ Whole(q) /\ DomainsDeclared(q) /\ ListedOnce(q)
    /\ AttachedDeclared(n, q) /\ NotItsOwn(n, q)

LEMMA Attributes ==
  /\ \A d \in Domain : DomainOf(d) \in Attribute /\ DomainOf(d).type = "Domain"
                        /\ DomainOf(d).value = d
  /\ \A s \in Stream : Listener(s, "READY") \in Attribute
                        /\ Listener(s, "READY").type = "Listener"
                        /\ Listener(s, "READY").value = "READY"
                        /\ Listener(s, "READY").stream = s
  /\ \A s \in Stream, m \in Address :
        /\ TalkerAdvertise(s, m) \in Attribute
        /\ TalkerAdvertise(s, m).type = "TalkerAdvertise"
        /\ TalkerAdvertise(s, m).stream = s
<1>1. \A d \in Domain : DomainOf(d) \in Attribute
  BY DEF Attribute
<1>2. \A s \in Stream : Listener(s, "READY") \in Attribute
  <2>1. "READY" \in Octets
    BY DEF Octets
  <2>2. \A s \in Stream : Listener(s, "READY") \in {Listener(t, d) : t \in Stream, d \in Octets}
    BY <2>1
  <2> QED
    BY <2>2 DEF Attribute
<1>3. \A s \in Stream, m \in Address : TalkerAdvertise(s, m) \in Attribute
  BY DEF Attribute
<1>4. \A d : DomainOf(d).type = "Domain" /\ DomainOf(d).value = d
  BY DEF DomainOf
<1>5. \A s, d : /\ Listener(s, d).type = "Listener" /\ Listener(s, d).value = d
                /\ Listener(s, d).stream = s
  BY DEF Listener
<1>6. \A s, m : /\ TalkerAdvertise(s, m).type = "TalkerAdvertise"
                /\ TalkerAdvertise(s, m).stream = s
  BY DEF TalkerAdvertise
<1> QED
  BY <1>1, <1>2, <1>3, <1>4, <1>5, <1>6

LEMMA Unechoed ==
  ASSUME NEW n, n \notin Microphones, NEW a \in Attribute, a.type = "Listener"
  PROVE  a \notin Echoes(n)
BY DEF Echoes, OfType

LEMMA EchoesAre ==
  ASSUME NEW n
  PROVE  /\ \A a \in Attribute : a.type = "Domain" => a \in Echoes(n)
         /\ \A a \in Echoes(n) : a \in Attribute /\ a.type \in {"Domain", "Listener"}
BY DEF Echoes, OfType

LEMMA JoinDeclares ==
  ASSUME NEW s \in PointToPoint, NEW i \in {"New", "Join"}
  PROVE  ApplicantNext(i, s) \in DeclaringStates
BY DEF PointToPoint, DeclaringStates, ApplicantNext, OnNew, OnJoin

\* Steps that touch no declaration, no list and no attachment.
Untouched(q, r) ==
    /\ Whole(r) /\ r.streams = q.streams /\ r.domains = q.domains
    /\ r.attached = q.attached /\ Declaring(r) = Declaring(q)

LEMMA UntouchedFollows ==
  ASSUME NEW n, NEW q, Follows(n, q), NEW r, Untouched(q, r),
         \A s \in Stream : Listener(s, "READY") \in r.mrp.live
                             => Listener(s, "READY") \in q.mrp.live
  PROVE  Follows(n, r)
BY DEF Follows, Untouched, DomainsDeclared, ListedOnce, AttachedDeclared, NotItsOwn

LEMMA SparedFollows ==
  ASSUME NEW n, NEW q, Follows(n, q), NEW r, Spared(n, q, r)
  PROVE  Follows(n, r)
<1>1. DomainsDeclared(r)
  <2>1. \A d \in Domain : DomainOf(d) \in Declaring(q) <=> DomainOf(d) \in Declaring(r)
    BY Attributes DEF Spared, Declaring
  <2> QED
    BY <2>1 DEF Follows, DomainsDeclared, Spared
<1>2. AttachedDeclared(n, r)
  <2> SUFFICES ASSUME n \notin Microphones, NEW s \in Stream
               PROVE  s \in r.attached <=> Listener(s, "READY") \in Declaring(r)
    BY DEF AttachedDeclared
  <2>1. Listener(s, "READY") \in Attribute \ Echoes(n)
    BY Attributes, Unechoed
  <2> QED
    BY <2>1 DEF Follows, AttachedDeclared, Spared
<1> QED
  BY <1>1, <1>2 DEF Follows, ListedOnce, NotItsOwn, Spared

LEMMA ProcessedFollows ==
  ASSUME NEW n, NEW q, Follows(n, q), NEW a \in q.mrp.live, NEW ev \in ReceivedEvents,
         NEW r, Processed(n, q, a, ev, r)
  PROVE  Follows(n, r)
<1>1. a \in Attribute /\ Whole(q) /\ q.mrp.app[a] \in PointToPoint
  BY DEF Follows, Whole, Sound, Participants
<1>2. /\ Heard(n, q.mrp, a, ev, r.mrp) /\ Whole(r) /\ r.attached = q.attached
      /\ \A b \in Attribute \ {a} : b \in Declaring(r) <=> b \in Declaring(q)
      /\ r.mrp.live \subseteq q.mrp.live
  BY DEF Processed, Heard, Declaring
<1>3. a \in Declaring(r) <=> Asked(n, q.mrp, a, ev) \in DeclaringStates
  <2>1. Asked(n, q.mrp, a, ev) \in PointToPoint
    BY <1>1, TableClosed DEF Asked
  <2>2. r.mrp.app[a] = ApplicantNext(ev, Asked(n, q.mrp, a, ev))
    BY <1>2 DEF Heard
  <2> QED
    BY <1>1, <2>1, <2>2, TableKeeps DEF Declaring
<1>4. ~Told(q, a, ev) \/ a \notin Echoes(n) => (a \in Declaring(r) <=> a \in Declaring(q))
  BY <1>1, <1>3 DEF Asked, Told, Declaring
<1>5. Told(q, a, ev) /\ a \in Echoes(n) => a \in Declaring(r)
  BY <1>1, <1>3, JoinDeclares DEF Asked, Told
<1>6. DomainsDeclared(r)
  <2> SUFFICES ASSUME NEW d \in Domain
               PROVE  d \in ToSet(r.domains) <=> DomainOf(d) \in Declaring(r)
    BY DEF DomainsDeclared
  <2>1. d \in ToSet(q.domains) <=> DomainOf(d) \in Declaring(q)
    BY DEF Follows, DomainsDeclared
  <2>2. CASE Told(q, a, ev) /\ a.type = "Domain"
    <3>1. a.value \in Domain /\ a = DomainOf(a.value) /\ a \in Echoes(n)
      BY <1>1, <2>2, AttributeFields, EchoesAre
    <3>2. r.domains = Listed(q.domains, a.value)
      BY <2>2 DEF Processed
    <3>3. q.domains \in Seq(Domain)
      BY <1>1 DEF Whole
    <3>4. ToSet(r.domains) = ToSet(q.domains) \cup {a.value}
      <4>1. PICK list, x : list = q.domains /\ x = a.value
        OBVIOUS
      <4>2. list \in Seq(Domain) /\ x \in Domain
        BY <3>1, <3>3, <4>1
      <4>3. ToSet(Listed(list, x)) = ToSet(list) \cup {x}
        BY <4>2, ListedIs
      <4> QED
        BY <3>2, <4>1, <4>3
    <3>5. CASE d = a.value
      BY <1>5, <2>2, <3>1, <3>4, <3>5
    <3>6. CASE d # a.value
      <4>1. DomainOf(d) \in Attribute \ {a}
        BY <3>1, <3>6, Attributes
      <4> QED
        BY <1>2, <2>1, <3>4, <3>6, <4>1
    <3> QED
      BY <3>5, <3>6
  <2>3. CASE ~(Told(q, a, ev) /\ a.type = "Domain")
    <3>1. r.domains = q.domains
      BY <2>3 DEF Processed
    <3>2. DomainOf(d) \in Declaring(r) <=> DomainOf(d) \in Declaring(q)
      BY <1>2, <1>4, <2>3, Attributes
    <3> QED
      BY <2>1, <3>1, <3>2
  <2> QED
    BY <2>2, <2>3
<1>7. ListedOnce(r)
  <2>1. q.streams \in Seq(Stream) /\ q.domains \in Seq(Domain)
    BY <1>1 DEF Whole
  <2>2. IsInjective(q.streams) /\ IsInjective(q.domains)
    BY DEF Follows, ListedOnce
  <2>3. a.type = "TalkerAdvertise" => IsInjective(Listed(q.streams, a.stream))
    BY <1>1, <2>1, <2>2, AttributeFields, ListedIs
  <2>4. a.type = "Domain" => IsInjective(Listed(q.domains, a.value))
    BY <1>1, <2>1, <2>2, AttributeFields, ListedIs
  <2> QED
    BY <2>2, <2>3, <2>4 DEF Processed, ListedOnce
<1>8. AttachedDeclared(n, r)
  <2> SUFFICES ASSUME n \notin Microphones, NEW s \in Stream
               PROVE  s \in r.attached <=> Listener(s, "READY") \in Declaring(r)
    BY DEF AttachedDeclared
  <2>1. Listener(s, "READY") \in Attribute \ Echoes(n)
    BY Attributes, Unechoed
  <2>2. Listener(s, "READY") \in Declaring(r) <=> Listener(s, "READY") \in Declaring(q)
    BY <1>2, <1>4, <2>1
  <2> QED
    BY <1>2, <2>2 DEF Follows, AttachedDeclared
<1>9. NotItsOwn(n, r)
  BY <1>2 DEF Follows, NotItsOwn
<1> QED
  BY <1>2, <1>6, <1>7, <1>8, <1>9 DEF Follows

-----------------------------------------------------------------------------
(***************************************************************************)
(* A frame: its LeaveAll, the walk over the Listeners, its attribute.      *)
(***************************************************************************)
WellFormed(f) ==
    /\ f.leaveAll \in BOOLEAN /\ f.type \in AttributeTypes
    /\ \/ f.attr = NoAttribute
       \/ f.attr \in Attribute /\ f.attr.type = f.type /\ f.event \in ReceivedEvents

SameLists(q, r) ==
    r.streams = q.streams /\ r.domains = q.domains /\ r.attached = q.attached

AgedFor(q, f, r) ==
    /\ Whole(r) /\ SameLists(q, r) /\ r.mrp.live = q.mrp.live
    /\ f.leaveAll => AgedOut(q.mrp, OfType(f.type), r.mrp)
    /\ ~f.leaveAll => r = q

Looked(q, a, r) == Whole(r) /\ SameLists(q, r) /\ Created(q.mrp, a, r.mrp)

Received(n, q, f, r) ==
    \/ f.attr = NoAttribute /\ AgedFor(q, f, r)
    \/ /\ f.attr # NoAttribute
       /\ \E x, y, z :
             /\ AgedFor(q, f, x) /\ Spared(n, x, y) /\ Looked(y, AsReceived(f), z)
             /\ Processed(n, z, AsReceived(f), f.event, r)

LEMMA AsReceivedIs ==
  ASSUME NEW f, WellFormed(f), f.attr # NoAttribute
  PROVE  /\ AsReceived(f) \in Attribute /\ AsReceived(f).type = f.type
         /\ f.event \in ReceivedEvents
         /\ f.type # "Listener" => AsReceived(f) = f.attr
         /\ \A s \in Stream : AsReceived(f) # Listener(s, "READY")
<1>1. f.attr \in Attribute /\ f.attr.type = f.type /\ f.event \in ReceivedEvents
  BY DEF WellFormed
<1>2. CASE f.type = "Listener"
  <2>1. f.attr.stream \in Stream /\ f.event \in Octets
    BY <1>1, <1>2, AttributeFields DEF Octets
  <2>2. PICK t, e : t = f.attr.stream /\ e = f.event /\ AsReceived(f) = Listener(t, e)
    BY <1>2 DEF AsReceived
  <2>3. Listener(t, e) \in {Listener(u, d) : u \in Stream, d \in Octets}
    BY <2>1, <2>2
  <2>4. AsReceived(f) \in Attribute
    BY <2>2, <2>3 DEF Attribute
  <2>5. Listener(t, e).type = "Listener" /\ Listener(t, e).value = e
    BY DEF Listener
  <2>6. \A s : Listener(s, "READY").value = "READY"
    BY DEF Listener
  <2>7. e # "READY"
    BY <1>1, <2>2 DEF ReceivedEvents
  <2>8. \A s : Listener(t, e) # Listener(s, "READY")
    BY <2>5, <2>6, <2>7
  <2> QED
    BY <1>1, <1>2, <2>2, <2>4, <2>5, <2>8
<1>3. CASE f.type # "Listener"
  BY <1>1, <1>3, Attributes DEF AsReceived
<1> QED
  BY <1>2, <1>3

LEMMA ReceiveFrameIs ==
  ASSUME NEW n, NEW q, Whole(q), NEW f, WellFormed(f)
  PROVE  Received(n, q, f, ReceiveFrame(n, q, f))
<1> DEFINE left == IF f.leaveAll
                   THEN With(q, P(n)!ReceiveLeaveAll(q.mrp, OfType(f.type))) ELSE q
           walked == IF f.type = "TalkerAdvertise"
                     THEN WalkListeners(n, left, f.attr.stream, f.event) ELSE left
           found == With(walked, P(n)!GetOrCreate(walked.mrp, AsReceived(f)))
           r == Process(n, found, AsReceived(f), f.event)
<1>1. ReceiveFrame(n, q, f) = IF f.attr = NoAttribute THEN left ELSE r
  BY DEF ReceiveFrame, FindAndProcess
<1>2. AgedFor(q, f, left)
  <2>1. CASE f.leaveAll
    <3>1. PICK p : p = P(n)!ReceiveLeaveAll(q.mrp, OfType(f.type))
      OBVIOUS
    <3>2. AgedOut(q.mrp, OfType(f.type), p)
      BY <3>1, ReceiveLeaveAllIs DEF Whole
    <3>3. Became(q, p, left)
      BY <2>1, <3>1, <3>2, WithIs DEF AgedOut
    <3> HIDE DEF left
    <3>4. AgedOut(q.mrp, OfType(f.type), left.mrp)
      BY <3>2, <3>3 DEF AgedOut, Became, Alike, Whole
    <3> QED
      BY <2>1, <3>3, <3>4 DEF AgedFor, Became, SameLists, AgedOut
  <2>2. CASE ~f.leaveAll
    BY <2>2 DEF AgedFor, SameLists
  <2> QED
    BY <2>1, <2>2 DEF WellFormed
<1> HIDE DEF left
<1>3. CASE f.attr = NoAttribute
  BY <1>1, <1>2, <1>3 DEF Received
<1>4. CASE f.attr # NoAttribute
  <2>1. AsReceived(f) \in Attribute /\ f.event \in ReceivedEvents
    BY <1>4, AsReceivedIs
  <2>2. Whole(left)
    BY <1>2 DEF AgedFor
  <2>3. Spared(n, left, walked)
    <3>1. CASE f.type = "TalkerAdvertise"
      BY <2>1, <2>2, <3>1, WalkIs
    <3>2. CASE f.type # "TalkerAdvertise"
      BY <2>2, <3>2 DEF Spared
    <3> QED
      BY <3>1, <3>2
  <2> HIDE DEF walked
  <2>4. Looked(walked, AsReceived(f), found)
    <3>1. PICK p : p = P(n)!GetOrCreate(walked.mrp, AsReceived(f))
      OBVIOUS
    <3>2. Whole(walked) /\ Sound(walked.mrp)
      BY <2>3 DEF Spared, Whole
    <3>3. Created(walked.mrp, AsReceived(f), p)
      BY <2>1, <3>1, <3>2, GetOrCreateIs
    <3>4. Became(walked, p, found)
      BY <3>1, <3>2, <3>3, WithIs DEF Created
    <3> HIDE DEF found
    <3>5. Created(walked.mrp, AsReceived(f), found.mrp)
      BY <3>3, <3>4 DEF Created, Became, Alike, Whole
    <3> QED
      BY <3>4, <3>5 DEF Looked, Became, SameLists
  <2> HIDE DEF found
  <2>5. Processed(n, found, AsReceived(f), f.event, r)
    <3>1. Whole(found) /\ AsReceived(f) \in found.mrp.live
      BY <2>4 DEF Looked, Created
    <3> QED
      BY <3>1, ProcessIs
  <2> HIDE DEF r
  <2> QED
    BY <1>1, <1>2, <1>4, <2>3, <2>4, <2>5 DEF Received
<1> QED
  BY <1>3, <1>4

LEMMA AgedKeeps ==
  ASSUME NEW q, Whole(q), NEW f, f.leaveAll \in BOOLEAN, NEW r, AgedFor(q, f, r)
  PROVE  Declaring(r) = Declaring(q)
<1>1. CASE f.leaveAll
  <2> SUFFICES ASSUME NEW a \in Attribute
               PROVE  a \in Declaring(r) <=> a \in Declaring(q)
    BY DEF Declaring
  <2>1. q.mrp.app[a] \in PointToPoint
    BY DEF Whole, Sound
  <2>2. \/ r.mrp.app[a] = ApplicantNext("rLv", q.mrp.app[a])
        \/ r.mrp.app[a] = q.mrp.app[a]
    BY <1>1 DEF AgedFor, AgedOut
  <2>3. "rLv" \in ReceivedEvents
    BY DEF ReceivedEvents
  <2> QED
    BY <2>1, <2>2, <2>3, TableKeeps DEF Declaring
<1>2. CASE ~f.leaveAll
  BY <1>2 DEF AgedFor
<1> QED
  BY <1>1, <1>2

LEMMA ReceivedFollows ==
  ASSUME NEW n, NEW q, Follows(n, q), NEW f, WellFormed(f), NEW r, Received(n, q, f, r)
  PROVE  Follows(n, r)
<1>1. ASSUME NEW x, AgedFor(q, f, x)
      PROVE  Follows(n, x)
  <2>1. Declaring(x) = Declaring(q)
    BY <1>1, AgedKeeps DEF Follows, WellFormed
  <2> QED
    BY <1>1, <2>1, UntouchedFollows DEF AgedFor, Untouched, SameLists
<1>2. CASE f.attr = NoAttribute
  BY <1>1, <1>2 DEF Received
<1>3. CASE f.attr # NoAttribute
  <2>1. PICK x, y, z :
          /\ AgedFor(q, f, x) /\ Spared(n, x, y) /\ Looked(y, AsReceived(f), z)
          /\ Processed(n, z, AsReceived(f), f.event, r)
    BY <1>3 DEF Received
  <2>2. Follows(n, y)
    BY <1>1, <2>1, SparedFollows
  <2>3. f.event \in ReceivedEvents /\ \A s \in Stream : AsReceived(f) # Listener(s, "READY")
    BY <1>3, AsReceivedIs
  <2>4. Follows(n, z)
    <3>1. Untouched(y, z)
      BY <2>1 DEF Looked, SameLists, Created, Untouched, Declaring
    <3>2. z.mrp.live = y.mrp.live \cup {AsReceived(f)}
      BY <2>1 DEF Looked, Created
    <3> QED
      BY <2>2, <2>3, <3>1, <3>2, UntouchedFollows
  <2>5. AsReceived(f) \in z.mrp.live
    BY <2>1 DEF Looked, Created
  <2> QED
    BY <2>1, <2>3, <2>4, <2>5, ProcessedFollows
<1> QED
  BY <1>2, <1>3

-----------------------------------------------------------------------------
(***************************************************************************)
(* A transmission: every attribute with a message is in a frame of its     *)
(* type, and no LeaveAll of that type is in a later frame.                 *)
(***************************************************************************)
FrameSet ==
    {f \in [type : AttributeTypes, leaveAll : BOOLEAN,
            attr : Attribute \cup {NoAttribute}, event : ReceivedEvents \cup {"none"}] :
        WellFormed(f)}

Message(q, a) == MessageFor(q.mrp.app[a], q.mrp.reg[a])

Speaks(q, a) == a \in q.mrp.live /\ Message(q, a) # "none"

\* The frame i of F carries the message of a, and no LeaveAll follows it.
Carries(F, q, a, i) ==
    /\ i \in 1..Len(F) /\ F[i].attr = a /\ F[i].event = EventOf[Message(q, a)]
    /\ \A j \in 1..Len(F) : j > i /\ F[j].leaveAll => F[j].type # a.type

\* F is the frames of the attribute types T.
SaysFor(F, T, q, all) ==
    /\ F \in Seq(FrameSet)
    /\ \A i \in 1..Len(F) :
          /\ F[i].type \in T
          /\ F[i].leaveAll => all
          /\ F[i].attr # NoAttribute =>
                Speaks(q, F[i].attr) /\ F[i].event = EventOf[Message(q, F[i].attr)]
    /\ \A a \in Attribute : a.type \in T /\ Speaks(q, a) => \E i : Carries(F, q, a, i)
    /\ all => \A t \in T : \E i \in 1..Len(F) : F[i].leaveAll /\ F[i].type = t

LEMMA EventsSent ==
  ASSUME NEW s, NEW r, MessageFor(s, r) # "none"
  PROVE  EventOf[MessageFor(s, r)] \in ReceivedEvents
BY DEF MessageFor, EventOf, ReceivedEvents

LEMMA NoAttributeIsNone == NoAttribute \notin Attribute
BY AttributeFields DEF NoAttribute

LEMMA FramesOfSay ==
  ASSUME NEW q, Whole(q), NEW t \in AttributeTypes, NEW all \in BOOLEAN
  PROVE  SaysFor(FramesOf(q, t, all), {t}, q, all)
<1> DEFINE speaking == {a \in q.mrp.live : MessageFor(q.mrp.app[a], q.mrp.reg[a]) # "none"}
           due == Entries(ListOf(q, t), speaking)
           event(a) == EventOf[MessageFor(q.mrp.app[a], q.mrp.reg[a])]
           F == FramesOf(q, t, all)
<1>1. F = IF due = <<>>
          THEN IF all THEN <<Frame(t, TRUE, NoAttribute, "none")>> ELSE <<>>
          ELSE [i \in 1..Len(due) |-> Frame(t, all /\ i = 1, due[i], event(due[i]))]
  BY DEF FramesOf
<1>2. \A a : a \in speaking <=> Speaks(q, a)
  BY DEF Speaks, Message
<1>3. q.mrp.live \subseteq Attribute
  BY DEF Whole, Sound, Participants
<1> HIDE DEF speaking
<1>4. /\ due \in Seq(Attribute)
      /\ ToSet(due) = {a \in Attribute : a.type = t /\ Speaks(q, a)}
  <2>1. /\ ListOf(q, t) \in Seq(Attribute)
        /\ ToSet(ListOf(q, t)) = {a \in q.mrp.live : a.type = t}
    BY ListOfIs
  <2>2. due \in Seq(Attribute) /\ ToSet(due) = ToSet(ListOf(q, t)) \cap speaking
    BY <2>1, EntriesSet
  <2>3. \A a : Speaks(q, a) => a \in q.mrp.live
    BY DEF Speaks
  <2> QED
    BY <1>2, <1>3, <2>1, <2>2, <2>3
<1>5. \A a : Speaks(q, a) => event(a) = EventOf[Message(q, a)] /\ event(a) \in ReceivedEvents
  BY EventsSent DEF Speaks, Message
<1> SUFFICES SaysFor(F, {t}, q, all)
  OBVIOUS
<1> HIDE DEF due, event, F
<1>6. Len(due) \in Nat /\ DOMAIN due = 1..Len(due)
  BY <1>4
<1>7. \A i \in 1..Len(due) : due[i] \in Attribute /\ due[i].type = t /\ Speaks(q, due[i])
  BY <1>4, <1>6 DEF ToSet
<1>8. \A a \in Attribute : a.type = t /\ Speaks(q, a) => \E i \in 1..Len(due) : due[i] = a
  BY <1>4, <1>6 DEF ToSet
<1>9. CASE due = <<>>
  <2>1. \A a \in Attribute : a.type = t => ~Speaks(q, a)
    BY <1>8, <1>9
  <2>2. CASE all
    <3>1. PICK f : f = Frame(t, TRUE, NoAttribute, "none")
      OBVIOUS
    <3>2. f \in FrameSet /\ f.type = t /\ f.leaveAll /\ f.attr = NoAttribute
      BY <3>1 DEF Frame, FrameSet, WellFormed
    <3>3. F = <<f>>
      BY <1>1, <1>9, <2>2, <3>1
    <3>4. /\ F \in Seq(FrameSet) /\ Len(F) = 1 /\ F[1] = f
          /\ \A i \in 1..Len(F) : i = 1
      BY <3>2, <3>3
    <3>5. \A i \in 1..Len(F) :
            /\ F[i].type \in {t} /\ (F[i].leaveAll => all) /\ F[i].attr = NoAttribute
      BY <2>2, <3>2, <3>4
    <3>6. 1 \in 1..Len(F) /\ F[1].leaveAll /\ F[1].type = t
      BY <3>2, <3>4
    <3> QED
      BY <2>1, <3>4, <3>5, <3>6 DEF SaysFor
  <2>3. CASE ~all
    <3>1. F \in Seq(FrameSet) /\ Len(F) = 0
      BY <1>1, <1>9, <2>3
    <3>2. ~\E i : i \in 1..Len(F)
      BY <3>1
    <3> QED
      BY <2>1, <2>3, <3>1, <3>2 DEF SaysFor
  <2> QED
    BY <2>2, <2>3
<1>10. CASE due # <<>>
  <2>1. F = [i \in 1..Len(due) |-> Frame(t, all /\ i = 1, due[i], event(due[i]))]
    BY <1>1, <1>10
  <2>2. \A i \in 1..Len(due) :
          /\ F[i] \in FrameSet
          /\ F[i].type = t /\ (F[i].leaveAll => all /\ i = 1)
          /\ (all /\ i = 1 => F[i].leaveAll)
          /\ F[i].attr = due[i] /\ F[i].event = EventOf[Message(q, due[i])]
    <3> SUFFICES ASSUME NEW i \in 1..Len(due)
                 PROVE  /\ F[i] \in FrameSet
                        /\ F[i].type = t /\ (F[i].leaveAll => all /\ i = 1)
                        /\ (all /\ i = 1 => F[i].leaveAll)
                        /\ F[i].attr = due[i] /\ F[i].event = EventOf[Message(q, due[i])]
      OBVIOUS
    <3>1. PICK l \in BOOLEAN : l = (all /\ i = 1)
      OBVIOUS
    <3>2. F[i] = Frame(t, l, due[i], event(due[i]))
      BY <2>1, <3>1
    <3>3. /\ due[i] \in Attribute /\ due[i].type = t /\ event(due[i]) \in ReceivedEvents
          /\ event(due[i]) = EventOf[Message(q, due[i])]
      BY <1>5, <1>7
    <3>4. PICK f, d, e : f = F[i] /\ d = due[i] /\ e = event(due[i])
      OBVIOUS
    <3>5. f = [type |-> t, leaveAll |-> l, attr |-> d, event |-> e]
      BY <3>2, <3>4 DEF Frame
    <3>6. d \in Attribute /\ d.type = t /\ e \in ReceivedEvents
      BY <3>3, <3>4
    <3>7. /\ f \in [type : AttributeTypes, leaveAll : BOOLEAN,
                    attr : Attribute \cup {NoAttribute}, event : ReceivedEvents \cup {"none"}]
          /\ f.type = t /\ f.leaveAll = l /\ f.attr = d /\ f.event = e
      BY <3>5, <3>6
    <3>8. f \in FrameSet
      BY <3>6, <3>7 DEF FrameSet, WellFormed
    <3> QED
      BY <3>1, <3>3, <3>4, <3>7, <3>8
  <2>3. F \in Seq(FrameSet) /\ Len(F) = Len(due)
    BY <1>6, <2>1, <2>2
  <2>4. ASSUME NEW a \in Attribute, a.type = t, Speaks(q, a)
        PROVE  \E i : Carries(F, q, a, i)
    <3>1. PICK i \in 1..Len(due) : due[i] = a
      BY <1>8, <2>4
    <3>2. \A j \in 1..Len(F) : j > i => j \in 1..Len(due) /\ j # 1
      BY <1>6, <2>3, <3>1
    <3>3. Carries(F, q, a, i)
      BY <2>2, <2>3, <3>1, <3>2 DEF Carries
    <3> QED
      BY <3>3
  <2>5. 1 \in 1..Len(due)
    BY <1>4, <1>6, <1>10
  <2>6. \A i \in 1..Len(F) :
          /\ F[i].type \in {t} /\ (F[i].leaveAll => all)
          /\ F[i].attr # NoAttribute =>
                Speaks(q, F[i].attr) /\ F[i].event = EventOf[Message(q, F[i].attr)]
    BY <1>7, <2>2, <2>3
  <2>7. all => F[1].leaveAll /\ F[1].type = t /\ 1 \in 1..Len(F)
    BY <2>2, <2>3, <2>5
  <2>8. \A a \in Attribute : a.type \in {t} /\ Speaks(q, a) => \E i : Carries(F, q, a, i)
    BY <2>4
  <2>9. all => \A u \in {t} : \E i \in 1..Len(F) : F[i].leaveAll /\ F[i].type = u
    BY <2>7
  <2> QED
    BY <2>3, <2>6, <2>8, <2>9 DEF SaysFor
<1> QED
  BY <1>9, <1>10

LEMMA SaysMore ==
  ASSUME NEW q, NEW all \in BOOLEAN, NEW F, NEW T, SaysFor(F, T, q, all),
         NEW G, NEW U, SaysFor(G, U, q, all), T \cap U = {}
  PROVE  SaysFor(F \o G, T \cup U, q, all)
<1> DEFINE H == F \o G
<1>1. /\ H \in Seq(FrameSet) /\ Len(H) = Len(F) + Len(G)
      /\ Len(F) \in Nat /\ Len(G) \in Nat
      /\ \A i \in 1..Len(F) : H[i] = F[i]
      /\ \A i \in 1..Len(G) : H[Len(F) + i] = G[i]
  BY DEF SaysFor
<1> HIDE DEF H
<1>2. \A i \in 1..Len(H) : \/ i \in 1..Len(F)
                           \/ \E k \in 1..Len(G) : i = Len(F) + k
  <2> SUFFICES ASSUME NEW i \in 1..Len(H), i \notin 1..Len(F)
               PROVE  \E k \in 1..Len(G) : i = Len(F) + k
    OBVIOUS
  <2>1. i - Len(F) \in 1..Len(G) /\ i = Len(F) + (i - Len(F))
    BY <1>1
  <2> QED
    BY <2>1
<1>3. \A k \in 1..Len(G) : Len(F) + k \in 1..Len(H)
  BY <1>1
<1>4. \A i \in 1..Len(F) : i \in 1..Len(H)
  BY <1>1
<1>5. \A i \in 1..Len(F) : F[i].type \in T
  BY DEF SaysFor
<1>6. \A i \in 1..Len(G) : G[i].type \in U
  BY DEF SaysFor
<1>7. \A i \in 1..Len(H) :
        /\ H[i].type \in T \cup U
        /\ H[i].leaveAll => all
        /\ H[i].attr # NoAttribute =>
              Speaks(q, H[i].attr) /\ H[i].event = EventOf[Message(q, H[i].attr)]
  <2> SUFFICES ASSUME NEW i \in 1..Len(H)
               PROVE  /\ H[i].type \in T \cup U
                      /\ H[i].leaveAll => all
                      /\ H[i].attr # NoAttribute =>
                            Speaks(q, H[i].attr) /\ H[i].event = EventOf[Message(q, H[i].attr)]
    OBVIOUS
  <2>1. CASE i \in 1..Len(F)
    BY <1>1, <2>1 DEF SaysFor
  <2>2. CASE \E k \in 1..Len(G) : i = Len(F) + k
    BY <1>1, <2>2 DEF SaysFor
  <2> QED
    BY <1>2, <2>1, <2>2
<1>8. ASSUME NEW a \in Attribute, a.type \in T \cup U, Speaks(q, a)
      PROVE  \E i : Carries(H, q, a, i)
  <2>1. CASE a.type \in T
    <3>1. PICK i : Carries(F, q, a, i)
      BY <1>8, <2>1 DEF SaysFor
    <3>2. /\ i \in 1..Len(F) /\ F[i].attr = a /\ F[i].event = EventOf[Message(q, a)]
          /\ \A j \in 1..Len(F) : j > i /\ F[j].leaveAll => F[j].type # a.type
      BY <3>1 DEF Carries
    <3>3. ASSUME NEW j \in 1..Len(H), j > i, H[j].leaveAll
          PROVE  H[j].type # a.type
      <4>1. CASE j \in 1..Len(F)
        BY <1>1, <3>2, <3>3, <4>1
      <4>2. CASE \E k \in 1..Len(G) : j = Len(F) + k
        BY <1>1, <1>6, <2>1, <4>2
      <4> QED
        BY <1>2, <4>1, <4>2
    <3>4. Carries(H, q, a, i)
      BY <1>1, <1>4, <3>2, <3>3 DEF Carries
    <3> QED
      BY <3>4
  <2>2. CASE a.type \in U
    <3>1. PICK i : Carries(G, q, a, i)
      BY <1>8, <2>2 DEF SaysFor
    <3>2. /\ i \in 1..Len(G) /\ G[i].attr = a /\ G[i].event = EventOf[Message(q, a)]
          /\ \A j \in 1..Len(G) : j > i /\ G[j].leaveAll => G[j].type # a.type
      BY <3>1 DEF Carries
    <3>3. ASSUME NEW j \in 1..Len(H), j > Len(F) + i, H[j].leaveAll
          PROVE  H[j].type # a.type
      <4>1. j \notin 1..Len(F)
        BY <1>1, <3>2, <3>3
      <4>2. PICK k \in 1..Len(G) : j = Len(F) + k
        BY <1>2, <4>1
      <4>3. k > i
        BY <1>1, <3>2, <3>3, <4>2
      <4> QED
        BY <1>1, <3>2, <3>3, <4>2, <4>3
    <3>4. Carries(H, q, a, Len(F) + i)
      BY <1>1, <1>3, <3>2, <3>3 DEF Carries
    <3> QED
      BY <3>4
  <2> QED
    BY <1>8, <2>1, <2>2
<1>9. ASSUME all, NEW t \in T \cup U
      PROVE  \E i \in 1..Len(H) : H[i].leaveAll /\ H[i].type = t
  <2>1. CASE t \in T
    <3>1. PICK k \in 1..Len(F) : F[k].leaveAll /\ F[k].type = t
      BY <1>9, <2>1 DEF SaysFor
    <3> QED
      BY <1>1, <1>4, <3>1
  <2>2. CASE t \in U
    <3>1. PICK k \in 1..Len(G) : G[k].leaveAll /\ G[k].type = t
      BY <1>9, <2>2 DEF SaysFor
    <3> QED
      BY <1>1, <1>3, <3>1
  <2> QED
    BY <2>1, <2>2
<1>10. H \in Seq(FrameSet)
  BY <1>1
<1> QED
  BY <1>7, <1>8, <1>9, <1>10 DEF SaysFor, H

-----------------------------------------------------------------------------
(***************************************************************************)
(* The steps, each as what it makes of the station and of the wire.        *)
(***************************************************************************)
Stations ==
    [mrp : Participants, order : Seq(Attribute), streams : Seq(Stream),
     domains : Seq(Domain), attached : SUBSET Stream]

Typed == /\ station \in [Station -> Stations] /\ wire \in [Station -> Seq(FrameSet)]
         /\ lost \in Nat /\ leaveAlls \in Nat
         /\ \A n \in Station : Whole(station[n])

LEMMA Peers ==
  ASSUME NEW n \in Station
  PROVE  /\ Peer(n) \in Station /\ Peer(n) # n /\ Peer(Peer(n)) = n
         /\ \A m \in Station : m = n \/ m = Peer(n)
<1>1. PICK a, b \in Station : a # b /\ Station = {a, b}
  BY MsrpAssumption
<1>2. \A m \in Station : \E k \in Station : k # m
  BY <1>1
<1>3. \A m \in Station : Peer(m) \in Station /\ Peer(m) # m
  BY <1>2 DEF Peer
<1> QED
  BY <1>1, <1>3

\* What a transmission makes of a station and sends: the attributes that have a
\* message, after the LeaveAll of the station itself, when there is one.
Sends(q, r, F) ==
    \E due :
        /\ Whole(due) /\ Before(q.mrp, due.mrp)
        /\ SaysFor(F, AttributeTypes, due, q.mrp.la = "Active")
        /\ Whole(r) /\ SameLists(q, r) /\ Applied(due.mrp, due.mrp.live, "tx", r.mrp)

LEMMA SendsIs ==
  ASSUME Typed, NEW n \in Station, JoinTimer(n)
  PROVE  \E F : /\ Sends(station[n], station'[n], F)
                /\ wire' = [wire EXCEPT ![n] = @ \o F]
<1> DEFINE q == station[n]
           due == With(q, P(n)!OnLeaveAllTransmit(q.mrp))
           all == q.mrp.la = "Active"
           of(t) == FramesOf(due, t, all)
           F == of("TalkerAdvertise") \o of("TalkerFailed") \o of("Listener") \o of("Domain")
           p == P(n)!JoinTimerCallback(q.mrp)
           r == With(q, p)
<1>1. Whole(q) /\ Sound(q.mrp)
  BY DEF Typed, Whole
<1>2. wire' = [wire EXCEPT ![n] = @ \o F] /\ station'[n] = r
  BY DEF JoinTimer, Becomes, Typed
<1>3. Whole(due) /\ Before(q.mrp, due.mrp) /\ Became(q, P(n)!OnLeaveAllTransmit(q.mrp), due)
  <2>1. PICK x : x = P(n)!OnLeaveAllTransmit(q.mrp)
    OBVIOUS
  <2> HIDE DEF q
  <2>2. Before(q.mrp, x)
    BY <1>1, <2>1, OnLeaveAllTransmitIs
  <2>3. Became(q, x, due)
    BY <1>1, <2>1, <2>2, WithIs DEF Before
  <2> HIDE DEF due
  <2>4. Before(q.mrp, due.mrp)
    BY <2>2, <2>3 DEF Before, Became, Alike, Whole
  <2> QED
    BY <2>1, <2>3, <2>4 DEF Became
<1> HIDE DEF due
<1>4. SaysFor(F, AttributeTypes, due, all)
  <2>1. PICK l \in BOOLEAN : l = all
    OBVIOUS
  <2>2. \A t \in AttributeTypes : SaysFor(FramesOf(due, t, l), {t}, due, l)
    BY <1>3, FramesOfSay
  <2> DEFINE g(t) == FramesOf(due, t, l)
             A == g("TalkerAdvertise") \o g("TalkerFailed")
             B == A \o g("Listener")
  <2>3. SaysFor(A, {"TalkerAdvertise", "TalkerFailed"}, due, l)
    <3>1. SaysFor(A, {"TalkerAdvertise"} \cup {"TalkerFailed"}, due, l)
      BY <2>2, SaysMore DEF AttributeTypes
    <3>2. {"TalkerAdvertise"} \cup {"TalkerFailed"} = {"TalkerAdvertise", "TalkerFailed"}
      OBVIOUS
    <3> QED
      BY <3>1, <3>2
  <2> HIDE DEF A
  <2>4. SaysFor(B, {"TalkerAdvertise", "TalkerFailed", "Listener"}, due, l)
    <3>1. SaysFor(B, {"TalkerAdvertise", "TalkerFailed"} \cup {"Listener"}, due, l)
      BY <2>2, <2>3, SaysMore DEF AttributeTypes
    <3>2. {"TalkerAdvertise", "TalkerFailed"} \cup {"Listener"}
            = {"TalkerAdvertise", "TalkerFailed", "Listener"}
      OBVIOUS
    <3> QED
      BY <3>1, <3>2
  <2> HIDE DEF B
  <2>5. SaysFor(B \o g("Domain"), AttributeTypes, due, l)
    <3>1. SaysFor(B \o g("Domain"),
                  {"TalkerAdvertise", "TalkerFailed", "Listener"} \cup {"Domain"}, due, l)
      BY <2>2, <2>4, SaysMore DEF AttributeTypes
    <3>2. {"TalkerAdvertise", "TalkerFailed", "Listener"} \cup {"Domain"} = AttributeTypes
      BY DEF AttributeTypes
    <3> QED
      BY <3>1, <3>2
  <2>6. F = B \o g("Domain")
    BY <2>1 DEF A, B
  <2> HIDE DEF F, all, g
  <2> QED
    BY <2>1, <2>5, <2>6
<1>5. Whole(r) /\ SameLists(q, r) /\ Applied(due.mrp, due.mrp.live, "tx", r.mrp)
  <2> PICK y : y = q
    OBVIOUS
  <2>1. Transmitted(y.mrp, p) /\ Whole(y)
    BY <1>1, JoinTimerIs
  <2>2. PICK x : Before(y.mrp, x) /\ Applied(x, x.live, "tx", p)
    BY <2>1 DEF Transmitted
  <2> HIDE DEF p
  <2>3. Became(y, p, r)
    BY <2>1, <2>2, WithIs DEF Applied
  <2> HIDE DEF r
  <2>4. Before(y.mrp, due.mrp)
    BY <1>3
  <2> HIDE DEF q
  <2>5. /\ x.live = due.mrp.live /\ x.la = due.mrp.la
        /\ \A a \in Attribute : x.app[a] = due.mrp.app[a] /\ x.reg[a] = due.mrp.reg[a]
    BY <2>2, <2>4 DEF Before
  <2>6. x.reg = due.mrp.reg
    BY <2>2, <2>4, <2>5 DEF Before, Sound, Participants
  <2>7. Applied(due.mrp, due.mrp.live, "tx", r.mrp)
    BY <2>2, <2>3, <2>5, <2>6 DEF Applied, Became, Alike, Whole
  <2> QED
    BY <2>3, <2>7 DEF Became, SameLists
<1> HIDE DEF F, r
<1> QED
  BY <1>2, <1>3, <1>4, <1>5 DEF Sends

LEMMA ReceivesIs ==
  ASSUME Typed, NEW n \in Station, NetRx(n)
  PROVE  /\ wire[Peer(n)] # <<>> /\ Head(wire[Peer(n)]) \in FrameSet
         /\ Received(n, station[n], Head(wire[Peer(n)]), station'[n])
         /\ wire' = [wire EXCEPT ![Peer(n)] = Tail(@)]
         /\ station' = [station EXCEPT ![n] = station'[n]]
<1>1. /\ wire[Peer(n)] # <<>> /\ wire[Peer(n)] \in Seq(FrameSet)
      /\ station' = [station EXCEPT ![n] =
                       ReceiveFrame(n, station[n], Head(wire[Peer(n)]))]
      /\ wire' = [wire EXCEPT ![Peer(n)] = Tail(@)]
  BY Peers DEF Typed, NetRx, Becomes
<1>2. PICK f : f = Head(wire[Peer(n)])
  OBVIOUS
<1>3. f \in FrameSet /\ WellFormed(f)
  BY <1>1, <1>2 DEF FrameSet
<1>4. Received(n, station[n], f, ReceiveFrame(n, station[n], f))
  BY <1>3, ReceiveFrameIs DEF Typed
<1>5. station'[n] = ReceiveFrame(n, station[n], f)
  BY <1>1, <1>2 DEF Typed
<1> QED
  BY <1>1, <1>2, <1>3, <1>4, <1>5

\* The request of a talker.
LEMMA RegisterStreamIs ==
  ASSUME Typed, NEW n \in Station, NEW s \in Stream, NEW m \in Address,
         RegisterStreamRequest(n, s, m)
  PROVE  /\ SameLists(station[n], station'[n]) /\ Whole(station'[n])
         /\ Declared(station[n].mrp, TalkerAdvertise(s, m), "New", station'[n].mrp)
<1> DEFINE q == station[n]
           a == TalkerAdvertise(s, m)
           r == With(q, P(n)!JoinRequest(q.mrp, a, TRUE))
<1>1. station'[n] = r
  BY DEF Typed, RegisterStreamRequest, Becomes
<1>2. Whole(q) /\ Sound(q.mrp) /\ a \in Attribute
  BY Attributes DEF Typed, Whole
<1> HIDE DEF q, a
<1>3. PICK p : p = P(n)!JoinRequest(q.mrp, a, TRUE)
  OBVIOUS
<1>4. Declared(q.mrp, a, "New", p)
  BY <1>2, <1>3, JoinRequestIs
<1>5. Became(q, p, r)
  BY <1>2, <1>3, <1>4, WithIs DEF Declared
<1> HIDE DEF r
<1>6. Declared(q.mrp, a, "New", r.mrp)
  BY <1>4, <1>5 DEF Declared, Became, Alike, Whole
<1> QED
  BY <1>1, <1>5, <1>6 DEF Became, SameLists, q, a

LEMMA AttachIs ==
  ASSUME Typed, NEW n \in Station, NEW s \in Stream, RegisterAttachRequest(n, s)
  PROVE  /\ Whole(station'[n])
         /\ station'[n].streams = station[n].streams
         /\ station'[n].domains = station[n].domains
         /\ station'[n].attached = station[n].attached \cup {s}
         /\ Declared(station[n].mrp, Listener(s, "READY"), "New", station'[n].mrp)
<1> DEFINE q == station[n]
           a == Listener(s, "READY")
           x == With(q, P(n)!JoinRequest(q.mrp, a, TRUE))
           r == [x EXCEPT !.attached = @ \cup {s}]
<1>1. station'[n] = r
  BY DEF Typed, RegisterAttachRequest, Becomes
<1>2. Whole(q) /\ Sound(q.mrp) /\ a \in Attribute
  BY Attributes DEF Typed, Whole
<1> HIDE DEF q, a
<1>3. PICK p : p = P(n)!JoinRequest(q.mrp, a, TRUE)
  OBVIOUS
<1>4. Declared(q.mrp, a, "New", p)
  BY <1>2, <1>3, JoinRequestIs
<1>5. Became(q, p, x)
  BY <1>2, <1>3, <1>4, WithIs DEF Declared
<1> HIDE DEF x
<1>6. /\ Whole(r) /\ r.mrp = x.mrp /\ r.streams = x.streams /\ r.domains = x.domains
      /\ r.attached = x.attached \cup {s}
  BY <1>5 DEF Became, Whole
<1> HIDE DEF r
<1>7. Declared(q.mrp, a, "New", r.mrp)
  BY <1>4, <1>5, <1>6 DEF Declared, Became, Alike, Whole
<1> QED
  BY <1>1, <1>5, <1>6, <1>7 DEF Became, q, a

LEMMA DetachIs ==
  ASSUME Typed, NEW n \in Station, NEW s \in Stream, DeregisterAttachRequest(n, s)
  PROVE  /\ Whole(station'[n])
         /\ station'[n].streams = station[n].streams
         /\ station'[n].domains = station[n].domains
         /\ station'[n].attached = station[n].attached \ {s}
         /\ Withdrawn(station[n].mrp, Listener(s, "READY"), station'[n].mrp)
<1> DEFINE q == station[n]
           a == Listener(s, "READY")
           x == With(q, P(n)!LeaveRequest(q.mrp, a))
           r == [x EXCEPT !.attached = @ \ {s}]
<1>1. station'[n] = r
  BY DEF Typed, DeregisterAttachRequest, Becomes
<1>2. Whole(q) /\ Sound(q.mrp) /\ a \in Attribute
  BY Attributes DEF Typed, Whole
<1> HIDE DEF q, a
<1>3. PICK p : p = P(n)!LeaveRequest(q.mrp, a)
  OBVIOUS
<1>4. Withdrawn(q.mrp, a, p)
  BY <1>2, <1>3, LeaveRequestIs
<1>5. Became(q, p, x)
  BY <1>2, <1>3, <1>4, WithIs DEF Withdrawn
<1> HIDE DEF x
<1>6. /\ Whole(r) /\ r.mrp = x.mrp /\ r.streams = x.streams /\ r.domains = x.domains
      /\ r.attached = x.attached \ {s}
  BY <1>5 DEF Became, Whole
<1> HIDE DEF r
<1>7. Withdrawn(q.mrp, a, r.mrp)
  BY <1>4, <1>5, <1>6 DEF Withdrawn, Became, Alike, Whole
<1> QED
  BY <1>1, <1>5, <1>6, <1>7 DEF Became, q, a

LEMMA LeaveTimerStepIs ==
  ASSUME Typed, NEW n \in Station, NEW a \in Attribute, LeaveTimer(n, a)
  PROVE  /\ Whole(station'[n]) /\ SameLists(station[n], station'[n])
         /\ Registered(station[n].mrp, {a}, "leaveTimer", station'[n].mrp)
<1> DEFINE q == station[n]
           r == With(q, P(n)!LeaveTimerCallback(q.mrp, a))
<1>1. station'[n] = r
  BY DEF Typed, LeaveTimer, Becomes
<1>2. Whole(q) /\ Sound(q.mrp)
  BY DEF Typed, Whole
<1> HIDE DEF q
<1>3. PICK p : p = P(n)!LeaveTimerCallback(q.mrp, a)
  OBVIOUS
<1>4. Registered(q.mrp, {a}, "leaveTimer", p)
  BY <1>2, <1>3, LeaveTimerIs
<1>5. Became(q, p, r)
  BY <1>2, <1>3, <1>4, WithIs DEF Registered
<1> HIDE DEF r
<1>6. Registered(q.mrp, {a}, "leaveTimer", r.mrp)
  BY <1>4, <1>5 DEF Registered, Became, Alike, Whole
<1> QED
  BY <1>1, <1>5, <1>6 DEF Became, SameLists, q

LEMMA LeaveAllTimerStepIs ==
  ASSUME Typed, NEW n \in Station, LeaveAllTimer(n)
  PROVE  /\ Whole(station'[n]) /\ SameLists(station[n], station'[n])
         /\ station'[n].mrp.live = station[n].mrp.live
         /\ station'[n].mrp.app = station[n].mrp.app
         /\ station'[n].mrp.reg = station[n].mrp.reg
<1> DEFINE q == station[n]
           p == P(n)!OnLeaveAllTimer([q.mrp EXCEPT !.laTimer = "idle"])
           r == With(q, p)
<1>1. station'[n] = r
  BY DEF Typed, LeaveAllTimer, Becomes
<1>2. Whole(q) /\ Sound(q.mrp)
  BY DEF Typed, Whole
<1> HIDE DEF q
<1>3. Sound(p) /\ p.live = q.mrp.live /\ p.app = q.mrp.app /\ p.reg = q.mrp.reg
  BY <1>2, OnLeaveAllTimerIs
<1> HIDE DEF p
<1>4. Became(q, p, r)
  BY <1>2, <1>3, WithIs
<1> HIDE DEF r
<1> QED
  BY <1>1, <1>3, <1>4 DEF Became, Alike, SameLists, q

-----------------------------------------------------------------------------
(***************************************************************************)
(* The lists follow and the attachment is kept.                            *)
(***************************************************************************)
AllFollow == \A n \in Station : Follows(n, station[n])

\* The action changes the station n at most.
Touches(n) == station' = [station EXCEPT ![n] = station'[n]]

LEMMA OneStation ==
  ASSUME Typed, NEW n \in Station, Touches(n), Whole(station'[n])
  PROVE  /\ station' \in [Station -> Stations]
         /\ \A m \in Station : Whole(station'[m])
         /\ \A m \in Station \ {n} : station'[m] = station[m]
<1>1. station'[n] \in Stations
  BY DEF Whole, Stations
<1>2. PICK r : r = station'[n]
  OBVIOUS
<1>3. station' = [station EXCEPT ![n] = r] /\ r \in Stations /\ Whole(r)
  BY <1>1, <1>2 DEF Touches
<1> QED
  BY <1>3 DEF Typed

LEMMA NextIs ==
  ASSUME Typed, Next
  PROVE  \E n \in Station :
           \/ /\ Touches(n)
              /\ \/ \E s \in Stream, a \in Address : RegisterStreamRequest(n, s, a)
                 \/ \E s \in Stream : RegisterAttachRequest(n, s)
                 \/ \E s \in Stream : DeregisterAttachRequest(n, s)
                 \/ NetRx(n)
                 \/ JoinTimer(n)
                 \/ \E a \in Attribute : LeaveTimer(n, a)
                 \/ LeaveAllTimer(n)
           \/ Lose(n)
<1> SUFFICES ASSUME NEW n \in Station,
                    \/ \E s \in Stream, a \in Address : RegisterStreamRequest(n, s, a)
                    \/ \E s \in Stream : RegisterAttachRequest(n, s)
                    \/ \E s \in Stream : DeregisterAttachRequest(n, s)
                    \/ NetRx(n)
                    \/ JoinTimer(n)
                    \/ \E a \in Attribute : LeaveTimer(n, a)
                    \/ LeaveAllTimer(n)
             PROVE  Touches(n)
  BY DEF Next
<1>1. ASSUME NEW q, Becomes(n, q) PROVE Touches(n)
  <2>1. station'[n] = q
    BY <1>1 DEF Becomes, Typed
  <2> QED
    BY <1>1, <2>1 DEF Becomes, Touches
<1> HIDE DEF Becomes
<1> QED
  BY <1>1 DEF RegisterStreamRequest, RegisterAttachRequest, DeregisterAttachRequest,
              NetRx, JoinTimer, LeaveTimer, LeaveAllTimer

\* A station that has declared its default domain and heard nothing.
Fresh(n, r) ==
    /\ Whole(r) /\ r.mrp.la = "Passive" /\ r.mrp.live = {DomainOf(DefaultDomain[n])}
    /\ r.streams = <<>> /\ r.domains = <<DefaultDomain[n]>> /\ r.attached = {}
    /\ \A a \in Attribute :
          /\ r.mrp.reg[a] = "MT"
          /\ r.mrp.app[a] = IF a = DomainOf(DefaultDomain[n]) THEN "VN" ELSE "VO"

LEMMA StartedIs ==
  ASSUME NEW n \in Station
  PROVE  Fresh(n, Started(n))
<1> DEFINE p == [live |-> {}, app |-> [b \in Attribute |-> "VO"],
                 reg |-> [b \in Attribute |-> "MT"],
                 leave |-> [b \in Attribute |-> FALSE],
                 join |-> FALSE, la |-> "Passive", laTimer |-> "armed",
                 orphans |-> {}, wanted |-> {}, announced |-> {}, known |-> {}]
           d == DefaultDomain[n]
           a == DomainOf(d)
<1>1. /\ Sound(p) /\ p.live = {} /\ p.la = "Passive"
      /\ \A b \in Attribute : p.app[b] = "VO" /\ p.reg[b] = "MT"
  <2>1. /\ p \in Participants /\ p.live = {} /\ p.la = "Passive"
        /\ \A b \in Attribute : p.app[b] = "VO" /\ p.reg[b] = "MT"
    BY DEF Participants, ApplicantStates, RegistrarStates
  <2>2. IsFiniteSet(p.live) /\ "VO" \in PointToPoint
    BY <2>1, FS_EmptySet DEF PointToPoint
  <2> HIDE DEF p
  <2> QED
    BY <2>1, <2>2 DEF Sound
<1>2. d \in Domain /\ a \in Attribute
  BY MsrpAssumption, Attributes
<1>3. PICK x : x = [mrp |-> p, order |-> <<>>, streams |-> <<>>,
                    domains |-> <<d>>, attached |-> {}]
  OBVIOUS
<1>4. PICK y : y = P(n)!JoinRequest(p, a, TRUE)
  OBVIOUS
<1>5. PICK r : r = Started(n)
  OBVIOUS
<1>6. r = With(x, y)
  BY <1>3, <1>4, <1>5 DEF Started
<1> HIDE DEF p
<1>7. /\ x \in Stations /\ x.mrp = p /\ x.order = <<>> /\ x.streams = <<>>
      /\ x.domains = <<d>> /\ x.attached = {}
  BY <1>1, <1>2, <1>3 DEF Stations, Sound
<1>8. Whole(x)
  <2>1. ToSet(<<>>) = {}
    BY DEF ToSet
  <2> QED
    BY <1>1, <1>7, <2>1 DEF Whole, Stations
<1>9. Declared(p, a, "New", y)
  BY <1>1, <1>2, <1>4, JoinRequestIs
<1>10. Became(x, y, r)
  BY <1>6, <1>8, <1>9, WithIs DEF Declared
<1> HIDE DEF a
<1>11. /\ y.live = {a} /\ y.la = "Passive" /\ y.app[a] = "VN"
       /\ \A b \in Attribute : y.reg[b] = "MT" /\ (b # a => y.app[b] = "VO")
  <2>1. ApplicantNext("New", "VO") = "VN"
    BY DEF ApplicantNext, OnNew
  <2> QED
    BY <1>1, <1>2, <1>9, <2>1 DEF Declared
<1>12. \A b \in Attribute : /\ r.mrp.reg[b] = "MT"
                            /\ r.mrp.app[b] = IF b = a THEN "VN" ELSE "VO"
  BY <1>10, <1>11 DEF Became, Alike
<1> QED
  BY <1>5, <1>7, <1>10, <1>11, <1>12 DEF Fresh, Became, Alike, a

LEMMA InitTyped ==
  ASSUME Init
  PROVE  Typed /\ AllFollow
<1>1. ASSUME NEW n \in Station
      PROVE  Follows(n, Started(n))
  <2>1. PICK r, d, a : r = Started(n) /\ d = DefaultDomain[n] /\ a = DomainOf(d)
    OBVIOUS
  <2>2. /\ Whole(r) /\ r.mrp.live = {a}
        /\ r.streams = <<>> /\ r.domains = <<d>> /\ r.attached = {}
        /\ \A b \in Attribute : r.mrp.app[b] = IF b = a THEN "VN" ELSE "VO"
    BY <2>1, StartedIs DEF Fresh
  <2>3. d \in Domain /\ a \in Attribute /\ a.type = "Domain" /\ a.value = d
    BY <2>1, MsrpAssumption, Attributes
  <2>4. Declaring(r) = {a}
    <3>1. "VN" \in DeclaringStates /\ "VO" \notin DeclaringStates
      BY DEF DeclaringStates
    <3> QED
      BY <2>2, <2>3, <3>1 DEF Declaring
  <2>5. DomainsDeclared(r)
    <3>1. ToSet(<<d>>) = {d}
      <4>1. DOMAIN <<d>> = {1} /\ <<d>>[1] = d
        OBVIOUS
      <4> QED
        BY <4>1 DEF ToSet
    <3>2. \A e \in Domain : DomainOf(e) = a <=> e = d
      BY <2>1, <2>3, Attributes
    <3> QED
      BY <2>2, <2>4, <3>1, <3>2 DEF DomainsDeclared
  <2>6. ListedOnce(r)
    <3>1. DOMAIN <<d>> = {1} /\ DOMAIN <<>> = {}
      OBVIOUS
    <3> QED
      BY <2>2, <3>1 DEF ListedOnce, IsInjective
  <2>7. \A s \in Stream : Listener(s, "READY") # a
    BY <2>3, Attributes
  <2> QED
    BY <2>1, <2>2, <2>4, <2>5, <2>6, <2>7 DEF Follows, AttachedDeclared, NotItsOwn
<1>2. \A n \in Station : Started(n) \in Stations
  BY <1>1 DEF Follows, Whole, Stations
<1>3. wire \in [Station -> Seq(FrameSet)]
  <2>1. <<>> \in Seq(FrameSet)
    OBVIOUS
  <2> QED
    BY <2>1 DEF Init
<1> QED
  BY <1>1, <1>2, <1>3 DEF Init, Typed, AllFollow, Follows

LEMMA SendsKeeps ==
  ASSUME NEW q, Whole(q), NEW r, NEW F, Sends(q, r, F)
  PROVE  Untouched(q, r) /\ r.mrp.live = q.mrp.live /\ F \in Seq(FrameSet)
<1>1. PICK due :
        /\ Whole(due) /\ Before(q.mrp, due.mrp)
        /\ SaysFor(F, AttributeTypes, due, q.mrp.la = "Active")
        /\ Whole(r) /\ SameLists(q, r) /\ Applied(due.mrp, due.mrp.live, "tx", r.mrp)
  BY DEF Sends
<1>2. ASSUME NEW a \in Attribute
      PROVE  a \in Declaring(r) <=> a \in Declaring(q)
  <2>1. q.mrp.app[a] \in PointToPoint /\ due.mrp.app[a] \in PointToPoint
    BY <1>1 DEF Whole, Sound
  <2>2. due.mrp.app[a] \in DeclaringStates <=> q.mrp.app[a] \in DeclaringStates
    <3>1. \/ due.mrp.app[a] = ApplicantNext("rLA", q.mrp.app[a])
          \/ due.mrp.app[a] = q.mrp.app[a]
      BY <1>1 DEF Before
    <3> QED
      BY <2>1, <3>1, TableKeeps
  <2>3. r.mrp.app[a] \in DeclaringStates <=> due.mrp.app[a] \in DeclaringStates
    <3>1. \/ r.mrp.app[a] = ApplicantNext("tx", due.mrp.app[a])
          \/ r.mrp.app[a] = due.mrp.app[a]
      BY <1>1 DEF Applied
    <3> QED
      BY <2>1, <3>1, TableKeeps
  <2> QED
    BY <2>2, <2>3 DEF Declaring
<1>3. Declaring(r) = Declaring(q)
  BY <1>2 DEF Declaring
<1> QED
  BY <1>1, <1>3 DEF Untouched, SameLists, Applied, Before, SaysFor

LEMMA FollowStep ==
  ASSUME Typed, AllFollow, [Next]_vars
  PROVE  Typed' /\ AllFollow'
<1>1. CASE UNCHANGED vars
  BY <1>1 DEF vars, Typed, AllFollow
<1>2. ASSUME NEW n \in Station, Touches(n), Follows(n, station'[n]),
             wire' \in [Station -> Seq(FrameSet)], lost' \in Nat, leaveAlls' \in Nat
      PROVE  Typed' /\ AllFollow'
  <2>1. Whole(station'[n])
    BY <1>2 DEF Follows
  <2>2. /\ station' \in [Station -> Stations]
        /\ \A m \in Station : Whole(station'[m])
        /\ \A m \in Station \ {n} : station'[m] = station[m]
    BY <1>2, <2>1, OneStation
  <2>3. \A m \in Station : Follows(m, station'[m])
    BY <1>2, <2>2 DEF AllFollow
  <2> QED
    BY <1>2, <2>2, <2>3 DEF Typed, AllFollow
<1>3. CASE Next
  <2>1. PICK n \in Station :
           \/ /\ Touches(n)
              /\ \/ \E s \in Stream, a \in Address : RegisterStreamRequest(n, s, a)
                 \/ \E s \in Stream : RegisterAttachRequest(n, s)
                 \/ \E s \in Stream : DeregisterAttachRequest(n, s)
                 \/ NetRx(n)
                 \/ JoinTimer(n)
                 \/ \E a \in Attribute : LeaveTimer(n, a)
                 \/ LeaveAllTimer(n)
           \/ Lose(n)
    BY <1>3, NextIs
  <2>2. Follows(n, station[n]) /\ Whole(station[n]) /\ Sound(station[n].mrp)
    BY DEF AllFollow, Follows, Whole
  <2>3. CASE Touches(n) /\ \E s \in Stream, a \in Address : RegisterStreamRequest(n, s, a)
    <3>1. PICK s \in Stream, m \in Address : RegisterStreamRequest(n, s, m)
      BY <2>3
    <3>2. /\ SameLists(station[n], station'[n]) /\ Whole(station'[n])
          /\ Declared(station[n].mrp, TalkerAdvertise(s, m), "New", station'[n].mrp)
      BY <3>1, RegisterStreamIs
    <3>3. TalkerAdvertise(s, m) \in Attribute
          /\ \A t \in Stream : Listener(t, "READY") # TalkerAdvertise(s, m)
          /\ \A d \in Domain : DomainOf(d) # TalkerAdvertise(s, m)
      BY Attributes
    <3>4. /\ \A t \in Stream : Listener(t, "READY") \in Declaring(station'[n])
                                <=> Listener(t, "READY") \in Declaring(station[n])
          /\ \A d \in Domain : DomainOf(d) \in Declaring(station'[n])
                                <=> DomainOf(d) \in Declaring(station[n])
      BY <3>2, <3>3, Attributes DEF Declared, Declaring
    <3>5. station'[n].mrp.live = station[n].mrp.live \cup {TalkerAdvertise(s, m)}
      BY <3>2 DEF Declared
    <3>6. Follows(n, station'[n])
      BY <2>2, <3>2, <3>3, <3>4, <3>5 DEF Follows, SameLists, DomainsDeclared, ListedOnce,
                                          AttachedDeclared, NotItsOwn
    <3> QED
      BY <1>2, <2>3, <3>1, <3>6 DEF RegisterStreamRequest, Requested, Typed
  <2>4. CASE Touches(n) /\ \E s \in Stream : RegisterAttachRequest(n, s)
    <3>1. PICK s \in Stream : RegisterAttachRequest(n, s)
      BY <2>4
    <3> DEFINE a == Listener(s, "READY")
    <3>2. /\ Whole(station'[n])
          /\ station'[n].streams = station[n].streams
          /\ station'[n].domains = station[n].domains
          /\ station'[n].attached = station[n].attached \cup {s}
          /\ Declared(station[n].mrp, a, "New", station'[n].mrp)
      BY <3>1, AttachIs
    <3>3. /\ a \in Attribute /\ \A t \in Stream : Listener(t, "READY") = a <=> t = s
          /\ \A d \in Domain : DomainOf(d) # a
      BY Attributes
    <3> HIDE DEF a
    <3>4. /\ \A t \in Stream \ {s} : Listener(t, "READY") \in Declaring(station'[n])
                                <=> Listener(t, "READY") \in Declaring(station[n])
          /\ \A d \in Domain : DomainOf(d) \in Declaring(station'[n])
                                <=> DomainOf(d) \in Declaring(station[n])
      BY <3>2, <3>3, Attributes DEF Declared, Declaring
    <3>5. a \in Declaring(station'[n])
      <4>1. station[n].mrp.app[a] \in PointToPoint
        BY <2>2, <3>3 DEF Sound
      <4> QED
        BY <3>2, <3>3, <4>1, JoinDeclares DEF Declared, Declaring
    <3>6. station'[n].mrp.live = station[n].mrp.live \cup {a} /\ TalkerOf[s] # n
      BY <3>1, <3>2 DEF Declared, RegisterAttachRequest
    <3>7. DomainsDeclared(station'[n]) /\ ListedOnce(station'[n])
      BY <2>2, <3>2, <3>4 DEF Follows, DomainsDeclared, ListedOnce
    <3>8. AttachedDeclared(n, station'[n])
      BY <2>2, <3>2, <3>3, <3>4, <3>5 DEF Follows, AttachedDeclared, a
    <3>9. NotItsOwn(n, station'[n])
      BY <2>2, <3>2, <3>3, <3>6 DEF Follows, NotItsOwn
    <3>10. Follows(n, station'[n])
      BY <3>2, <3>7, <3>8, <3>9 DEF Follows
    <3> QED
      BY <1>2, <2>4, <3>1, <3>10 DEF RegisterAttachRequest, Requested, Typed
  <2>5. CASE Touches(n) /\ \E s \in Stream : DeregisterAttachRequest(n, s)
    <3>1. PICK s \in Stream : DeregisterAttachRequest(n, s)
      BY <2>5
    <3> DEFINE a == Listener(s, "READY")
    <3>2. /\ Whole(station'[n])
          /\ station'[n].streams = station[n].streams
          /\ station'[n].domains = station[n].domains
          /\ station'[n].attached = station[n].attached \ {s}
          /\ Withdrawn(station[n].mrp, a, station'[n].mrp)
      BY <3>1, DetachIs
    <3>3. /\ a \in Attribute /\ \A t \in Stream : Listener(t, "READY") = a <=> t = s
          /\ \A d \in Domain : DomainOf(d) # a
      BY Attributes
    <3> HIDE DEF a
    <3>4. /\ \A t \in Stream \ {s} : Listener(t, "READY") \in Declaring(station'[n])
                                <=> Listener(t, "READY") \in Declaring(station[n])
          /\ \A d \in Domain : DomainOf(d) \in Declaring(station'[n])
                                <=> DomainOf(d) \in Declaring(station[n])
      BY <3>2, <3>3, Attributes DEF Withdrawn, Declaring
    <3>5. a \notin Declaring(station'[n])
      <4>1. station[n].mrp.app[a] \in PointToPoint
        BY <2>2, <3>3 DEF Sound
      <4>2. ApplicantNext("Lv", station[n].mrp.app[a]) \notin DeclaringStates
        BY <4>1 DEF PointToPoint, ApplicantNext, OnLeave, DeclaringStates
      <4> QED
        BY <3>2, <4>2 DEF Withdrawn, Declaring
    <3>6. station'[n].mrp.live \subseteq station[n].mrp.live
      BY <3>2 DEF Withdrawn
    <3>7. DomainsDeclared(station'[n]) /\ ListedOnce(station'[n])
      BY <2>2, <3>2, <3>4 DEF Follows, DomainsDeclared, ListedOnce
    <3>8. AttachedDeclared(n, station'[n])
      BY <2>2, <3>2, <3>3, <3>4, <3>5 DEF Follows, AttachedDeclared, a
    <3>9. NotItsOwn(n, station'[n])
      BY <2>2, <3>2, <3>6 DEF Follows, NotItsOwn
    <3>10. Follows(n, station'[n])
      BY <3>2, <3>7, <3>8, <3>9 DEF Follows
    <3> QED
      BY <1>2, <2>5, <3>1, <3>10 DEF DeregisterAttachRequest, Requested, Typed
  <2>6. CASE Touches(n) /\ NetRx(n)
    <3>1. PICK f : f = Head(wire[Peer(n)])
      OBVIOUS
    <3>2. /\ wire[Peer(n)] # <<>> /\ f \in FrameSet
          /\ Received(n, station[n], f, station'[n])
          /\ wire' = [wire EXCEPT ![Peer(n)] = Tail(@)]
      BY <2>6, <3>1, ReceivesIs
    <3>3. WellFormed(f)
      BY <3>2 DEF FrameSet
    <3>4. Follows(n, station'[n])
      BY <2>2, <3>2, <3>3, ReceivedFollows
    <3>5. wire' \in [Station -> Seq(FrameSet)]
      <4>1. wire[Peer(n)] \in Seq(FrameSet) /\ Peer(n) \in Station
        BY Peers DEF Typed
      <4>2. Tail(wire[Peer(n)]) \in Seq(FrameSet)
        BY <3>2, <4>1
      <4> QED
        BY <3>2, <4>1, <4>2 DEF Typed
    <3> QED
      BY <1>2, <2>6, <3>4, <3>5 DEF NetRx, Typed
  <2>7. CASE Touches(n) /\ JoinTimer(n)
    <3>1. PICK F : Sends(station[n], station'[n], F) /\ wire' = [wire EXCEPT ![n] = @ \o F]
      BY <2>7, SendsIs
    <3>2. /\ Untouched(station[n], station'[n])
          /\ station'[n].mrp.live = station[n].mrp.live /\ F \in Seq(FrameSet)
      BY <2>2, <3>1, SendsKeeps
    <3>3. Follows(n, station'[n])
      BY <2>2, <3>2, UntouchedFollows
    <3>4. wire' \in [Station -> Seq(FrameSet)]
      <4>1. wire[n] \o F \in Seq(FrameSet)
        BY <3>2 DEF Typed
      <4> QED
        BY <3>1, <4>1 DEF Typed
    <3> QED
      BY <1>2, <2>7, <3>3, <3>4 DEF JoinTimer, Typed
  <2>8. CASE Touches(n) /\ \E a \in Attribute : LeaveTimer(n, a)
    <3>1. PICK a \in Attribute : LeaveTimer(n, a)
      BY <2>8
    <3>2. /\ Whole(station'[n]) /\ SameLists(station[n], station'[n])
          /\ Registered(station[n].mrp, {a}, "leaveTimer", station'[n].mrp)
      BY <3>1, LeaveTimerStepIs
    <3>3. Untouched(station[n], station'[n]) /\ station'[n].mrp.live = station[n].mrp.live
      BY <3>2 DEF Untouched, SameLists, Registered, Declaring
    <3>4. Follows(n, station'[n])
      BY <2>2, <3>3, UntouchedFollows
    <3> QED
      BY <1>2, <2>8, <3>1, <3>4 DEF LeaveTimer, Typed
  <2>9. CASE Touches(n) /\ LeaveAllTimer(n)
    <3>1. /\ Whole(station'[n]) /\ SameLists(station[n], station'[n])
          /\ station'[n].mrp.live = station[n].mrp.live
          /\ station'[n].mrp.app = station[n].mrp.app
      BY <2>9, LeaveAllTimerStepIs
    <3>2. Untouched(station[n], station'[n])
      BY <3>1 DEF Untouched, SameLists, Declaring
    <3>3. Follows(n, station'[n])
      BY <2>2, <3>1, <3>2, UntouchedFollows
    <3> QED
      BY <1>2, <2>9, <3>3 DEF LeaveAllTimer, Typed
  <2>10. CASE Lose(n)
    <3>1. wire' \in [Station -> Seq(FrameSet)]
      <4>1. wire[n] \in Seq(FrameSet) /\ wire[n] # <<>>
        BY <2>10 DEF Typed, Lose
      <4>2. Tail(wire[n]) \in Seq(FrameSet)
        BY <4>1
      <4> QED
        BY <2>10, <4>2 DEF Typed, Lose
    <3> QED
      BY <2>10, <3>1 DEF Lose, Typed, AllFollow
  <2> QED
    BY <2>1, <2>3, <2>4, <2>5, <2>6, <2>7, <2>8, <2>9, <2>10
<1> QED
  BY <1>1, <1>3

\* The lists of streams and domains hold an entry once, and the domains listed are
\* those declared, for any number of LeaveAlls, losses, streams and domains.
THEOREM ListsAlwaysFollow == Spec => []ListsFollow
<1>1. Typed /\ AllFollow => ListsFollow
  BY Attributes DEF Typed, AllFollow, Follows, DomainsDeclared, ListedOnce, Declaring,
                    ListsFollow, Declares
<1> QED
  BY <1>1, InitTyped, FollowStep, PTL DEF Spec

\* A listener without input channels declares itself ready for the streams ACMP
\* attached it to and no others, whatever its peer sends and a walk frees.
THEOREM AttachmentAlwaysKept == Spec => []AttachmentKept
<1>1. Typed /\ AllFollow => AttachmentKept
  <2> SUFFICES ASSUME Typed, AllFollow, NEW n \in Station, NEW s \in Stream,
                      n \notin Microphones \/ TalkerOf[s] = n
               PROVE  s \in station[n].attached <=> Declares(n, Listener(s, "READY"))
    BY DEF AttachmentKept
  <2>1. Listener(s, "READY") \in Attribute /\ Follows(n, station[n])
    BY Attributes DEF AllFollow
  <2>2. CASE n \notin Microphones
    BY <2>1, <2>2 DEF Follows, AttachedDeclared, Declaring, Declares
  <2>3. CASE TalkerOf[s] = n
    <3>1. s \notin station[n].attached /\ Listener(s, "READY") \notin station[n].mrp.live
      BY <2>1, <2>3 DEF Follows, NotItsOwn
    <3>2. station[n].mrp.app[Listener(s, "READY")] = "VO"
      BY <2>1, <3>1 DEF Follows, Whole, Sound
    <3> QED
      BY <3>1, <3>2 DEF Declares, DeclaringStates
  <2> QED
    BY <2>2, <2>3
<1> QED
  BY <1>1, InitTyped, FollowStep, PTL DEF Spec

-----------------------------------------------------------------------------
(***************************************************************************)
(* A talker that falls quiet is known.  A New is sent twice, so until the   *)
(* peer has the stream in its map two frames of the talker are under way or *)
(* lost.                                                                   *)
(***************************************************************************)
Joins(f, a) == f.attr = a /\ f.event \in JoinEvents

One(w, a) == \E i \in 1..Len(w) : Joins(w[i], a)

Two(w, a) == \E i, j \in 1..Len(w) : i # j /\ Joins(w[i], a) /\ Joins(w[j], a)

\* The states after the second New.
Later == {"VP", "AA", "QA"}

Sent(a, s, w, l) ==
    /\ s \in Later => l >= 2 \/ (l >= 1 /\ One(w, a)) \/ Two(w, a)
    /\ s = "AN" => l >= 1 \/ One(w, a)

\* The frames left after one is read or lost are frames that were there.
LEMMA TailIs ==
  ASSUME NEW w \in Seq(FrameSet), w # <<>>
  PROVE  /\ Len(w) \in Nat /\ Len(w) # 0 /\ Len(Tail(w)) = Len(w) - 1 /\ Head(w) = w[1]
         /\ \A i \in 1..Len(Tail(w)) : i + 1 \in 1..Len(w) /\ Tail(w)[i] = w[i + 1]
         /\ \A i \in 1..Len(w) : i # 1 => i - 1 \in 1..Len(Tail(w)) /\ w[i] = Tail(w)[i - 1]
<1>1. /\ Len(w) \in Nat /\ Len(w) # 0 /\ Len(Tail(w)) = Len(w) - 1 /\ Head(w) = w[1]
      /\ \A i \in 1..Len(Tail(w)) : i + 1 \in 1..Len(w) /\ Tail(w)[i] = w[i + 1]
  OBVIOUS
<1>2. ASSUME NEW i \in 1..Len(w), i # 1
      PROVE  i - 1 \in 1..Len(Tail(w)) /\ w[i] = Tail(w)[i - 1]
  <2>1. i - 1 \in 1..Len(Tail(w)) /\ (i - 1) + 1 = i
    BY <1>1, <1>2
  <2> QED
    BY <1>1, <2>1
<1> QED
  BY <1>1, <1>2

LEMMA ConcatIs ==
  ASSUME NEW w \in Seq(FrameSet), NEW F \in Seq(FrameSet)
  PROVE  /\ Len(w \o F) = Len(w) + Len(F) /\ Len(w) \in Nat /\ Len(F) \in Nat
         /\ \A i \in 1..Len(w) : i \in 1..Len(w \o F) /\ (w \o F)[i] = w[i]
         /\ \A i \in 1..Len(F) : /\ Len(w) + i \in 1..Len(w \o F)
                                 /\ (w \o F)[Len(w) + i] = F[i]
         /\ \A i \in 1..Len(w \o F) : i > Len(w) =>
               i - Len(w) \in 1..Len(F) /\ (w \o F)[i] = F[i - Len(w)]
<1>1. PICK H : H = w \o F
  OBVIOUS
<1>2. /\ Len(H) = Len(w) + Len(F) /\ Len(w) \in Nat /\ Len(F) \in Nat
      /\ \A i \in 1..Len(w) : i \in 1..Len(H) /\ H[i] = w[i]
      /\ \A i \in 1..Len(F) : Len(w) + i \in 1..Len(H) /\ H[Len(w) + i] = F[i]
  BY <1>1
<1>3. ASSUME NEW i \in 1..Len(H), i > Len(w)
      PROVE  i - Len(w) \in 1..Len(F) /\ H[i] = F[i - Len(w)]
  <2>1. i - Len(w) \in 1..Len(F) /\ Len(w) + (i - Len(w)) = i
    BY <1>2, <1>3
  <2> QED
    BY <1>2, <2>1
<1> QED
  BY <1>1, <1>2, <1>3

LEMMA TailSays ==
  ASSUME NEW w \in Seq(FrameSet), w # <<>>, NEW a
  PROVE  /\ One(w, a) => Joins(Head(w), a) \/ One(Tail(w), a)
         /\ Two(w, a) => One(Tail(w), a)
         /\ Two(w, a) /\ ~Joins(Head(w), a) => Two(Tail(w), a)
<1>1. /\ Len(Tail(w)) = Len(w) - 1 /\ Head(w) = w[1]
      /\ \A i \in 1..Len(w) : i # 1 => i - 1 \in 1..Len(Tail(w)) /\ Tail(w)[i - 1] = w[i]
  BY TailIs
<1>3. ASSUME One(w, a), ~Joins(Head(w), a) PROVE One(Tail(w), a)
  <2>1. PICK i \in 1..Len(w) : Joins(w[i], a)
    BY <1>3 DEF One
  <2> QED
    BY <1>1, <1>3, <2>1 DEF One
<1>4. ASSUME Two(w, a) PROVE One(Tail(w), a)
  <2>1. PICK i, j \in 1..Len(w) : i # j /\ Joins(w[i], a) /\ Joins(w[j], a)
    BY <1>4 DEF Two
  <2>2. i # 1 \/ j # 1
    BY <2>1
  <2> QED
    BY <1>1, <2>1, <2>2 DEF One
<1>5. ASSUME Two(w, a), ~Joins(Head(w), a) PROVE Two(Tail(w), a)
  <2>1. PICK i, j \in 1..Len(w) : i # j /\ Joins(w[i], a) /\ Joins(w[j], a)
    BY <1>5 DEF Two
  <2>2. i # 1 /\ j # 1 /\ i - 1 # j - 1
    BY <1>1, <1>5, <2>1, TailIs
  <2>3. /\ i - 1 \in 1..Len(Tail(w)) /\ Joins(Tail(w)[i - 1], a)
        /\ j - 1 \in 1..Len(Tail(w)) /\ Joins(Tail(w)[j - 1], a)
    BY <1>1, <2>1, <2>2
  <2> QED
    BY <2>2, <2>3 DEF Two
<1> QED
  BY <1>3, <1>4, <1>5

LEMMA ConcatSays ==
  ASSUME NEW w \in Seq(FrameSet), NEW F \in Seq(FrameSet), NEW a
  PROVE  /\ One(w, a) \/ One(F, a) => One(w \o F, a)
         /\ Two(w, a) \/ (One(w, a) /\ One(F, a)) => Two(w \o F, a)
<1>1. PICK H : H = w \o F
  OBVIOUS
<1>2. /\ Len(w) \in Nat
      /\ \A i \in 1..Len(w) : i \in 1..Len(H) /\ H[i] = w[i]
      /\ \A i \in 1..Len(F) : Len(w) + i \in 1..Len(H) /\ H[Len(w) + i] = F[i]
  BY <1>1, ConcatIs
<1>3. One(w, a) \/ One(F, a) => One(H, a)
  BY <1>2 DEF One
<1>4. Two(w, a) => Two(H, a)
  BY <1>2 DEF Two
<1>5. ASSUME One(w, a), One(F, a) PROVE Two(H, a)
  <2>1. PICK i \in 1..Len(w), j \in 1..Len(F) : Joins(w[i], a) /\ Joins(F[j], a)
    BY <1>5 DEF One
  <2>2. i # Len(w) + j
    BY <1>2
  <2> QED
    BY <1>2, <2>1, <2>2 DEF Two
<1> QED
  BY <1>1, <1>3, <1>4, <1>5

LEMMA SentTail ==
  ASSUME NEW a, NEW s, NEW w \in Seq(FrameSet), w # <<>>, NEW l \in Nat, Sent(a, s, w, l)
  PROVE  /\ Sent(a, s, Tail(w), l + 1)
         /\ ~Joins(Head(w), a) => Sent(a, s, Tail(w), l)
BY TailSays DEF Sent

Talks == OfType("TalkerAdvertise")

\* A registration is of a stream in the map.
MapsRegistered(q) ==
    \A a \in Talks : q.mrp.reg[a] # "MT" => a.stream \in ToSet(q.streams)

\* No step but a transmission brings an Applicant to the states after a New.
Calm(q, r) ==
    \A a \in Talks :
        /\ r.mrp.app[a] \in Later => q.mrp.app[a] \in Later
        /\ r.mrp.app[a] = "AN" => q.mrp.app[a] = "AN"

Remembers(q, r) == ToSet(q.streams) \subseteq ToSet(r.streams) /\ MapsRegistered(r)

LEMMA TalkerTable ==
  ASSUME NEW s \in PointToPoint, NEW ev \in ReceivedEvents
  PROVE  /\ ApplicantNext(ev, s) \in Later => s \in Later
         /\ ApplicantNext(ev, s) = "AN" => s = "AN"
BY DEF PointToPoint, Later, ReceivedEvents, ApplicantNext, OnReceiveJoinIn,
       OnReceiveIn, OnReceiveEmpty, OnReceiveLeave

LEMMA RegistrarHolds ==
  ASSUME NEW r \in RegistrarStates, NEW ev, RegistrarNext(ev, r) # "MT"
  PROVE  r # "MT" \/ (ev \in JoinEvents /\ Indication(ev, r) \in {"New", "Join"})
BY DEF RegistrarStates, RegistrarNext, Indication, JoinEvents, LeaveEvents

LEMMA JoinTold ==
  ASSUME NEW r, NEW ev \in JoinEvents, r = "MT"
  PROVE  Indication(ev, r) \in {"New", "Join"}
BY DEF Indication, JoinEvents

LEMMA TalksAre ==
  ASSUME NEW a \in Talks
  PROVE  /\ a \in Attribute /\ a.type = "TalkerAdvertise" /\ a.stream \in Stream
         /\ \A n : a \notin Echoes(n)
BY AttributeFields, EchoesAre DEF Talks, OfType

LEMMA ProcessedTalk ==
  ASSUME NEW n, NEW q, Whole(q), MapsRegistered(q), NEW a \in q.mrp.live,
         NEW ev \in ReceivedEvents, NEW r, Processed(n, q, a, ev, r)
  PROVE  /\ Calm(q, r) /\ Remembers(q, r)
         /\ a \in Talks /\ ev \in JoinEvents => a.stream \in ToSet(r.streams)
<1>1. a \in Attribute /\ Heard(n, q.mrp, a, ev, r.mrp) /\ q.streams \in Seq(Stream)
  BY DEF Whole, Sound, Participants, Processed
<1>2. CASE a \notin Talks
  <2>1. r.streams = q.streams
    BY <1>1, <1>2 DEF Processed, Talks, OfType
  <2>2. \A b \in Talks : r.mrp.app[b] = q.mrp.app[b] /\ r.mrp.reg[b] = q.mrp.reg[b]
    BY <1>1, <1>2, TalksAre DEF Heard
  <2> QED
    BY <1>2, <2>1, <2>2 DEF Calm, Remembers, MapsRegistered
<1>3. CASE a \in Talks
  <2>1. q.mrp.app[a] \in PointToPoint /\ q.mrp.reg[a] \in RegistrarStates
    BY <1>1 DEF Whole, Sound, Participants
  <2>2. r.mrp.app[a] = ApplicantNext(ev, q.mrp.app[a])
    BY <1>1, <1>3, TalksAre DEF Heard, Asked
  <2>3. Calm(q, r)
    BY <1>1, <2>1, <2>2, TalkerTable, TalksAre DEF Heard, Calm
  <2>4. ToSet(r.streams) = IF Told(q, a, ev) THEN ToSet(q.streams) \cup {a.stream}
                           ELSE ToSet(q.streams)
    <3>1. r.streams = IF Told(q, a, ev) THEN Listed(q.streams, a.stream) ELSE q.streams
      BY <1>3, TalksAre DEF Processed
    <3>2. ToSet(Listed(q.streams, a.stream)) = ToSet(q.streams) \cup {a.stream}
      BY <1>1, <1>3, TalksAre, ListedIs
    <3> QED
      BY <3>1, <3>2
  <2>5. r.mrp.reg[a] # "MT" => RegistrarNext(ev, q.mrp.reg[a]) # "MT"
    BY <1>1 DEF Heard
  <2>6. r.mrp.reg[a] # "MT" => q.mrp.reg[a] # "MT" \/ Told(q, a, ev)
    BY <2>1, <2>5, RegistrarHolds DEF Told
  <2>7. Remembers(q, r)
    <3>1. \A b \in Talks : b # a => r.mrp.reg[b] = q.mrp.reg[b]
      BY <1>1, TalksAre DEF Heard
    <3> QED
      BY <1>3, <2>4, <2>6, <3>1 DEF Remembers, MapsRegistered
  <2>8. ev \in JoinEvents => a.stream \in ToSet(r.streams)
    BY <1>3, <2>4, JoinTold DEF Told, MapsRegistered
  <2> QED
    BY <2>3, <2>7, <2>8
<1> QED
  BY <1>2, <1>3

LEMMA ReceivedTalk ==
  ASSUME NEW n, NEW q, Whole(q), MapsRegistered(q), NEW f, WellFormed(f),
         NEW r, Received(n, q, f, r)
  PROVE  /\ Calm(q, r) /\ Remembers(q, r)
         /\ \A a \in Talks : Joins(f, a) => a.stream \in ToSet(r.streams)
<1>1. ASSUME NEW x, AgedFor(q, f, x)
      PROVE  Whole(x) /\ Calm(q, x) /\ Remembers(q, x)
  <2>1. CASE f.leaveAll
    <3>1. ASSUME NEW a \in Talks
          PROVE  /\ x.mrp.app[a] \in Later => q.mrp.app[a] \in Later
                 /\ x.mrp.app[a] = "AN" => q.mrp.app[a] = "AN"
                 /\ x.mrp.reg[a] # "MT" => q.mrp.reg[a] # "MT"
      <4>1. /\ q.mrp.app[a] \in PointToPoint /\ q.mrp.reg[a] \in RegistrarStates
            /\ "rLv" \in ReceivedEvents /\ "rLv" \notin JoinEvents
        BY TalksAre DEF Whole, Sound, Participants, ReceivedEvents, JoinEvents
      <4>2. /\ x.mrp.app[a] \in {q.mrp.app[a], ApplicantNext("rLv", q.mrp.app[a])}
            /\ x.mrp.reg[a] \in {q.mrp.reg[a], RegistrarNext("rLv", q.mrp.reg[a])}
        BY <1>1, <2>1, TalksAre DEF AgedFor, AgedOut
      <4> QED
        BY <4>1, <4>2, TalkerTable, RegistrarHolds
    <3>2. x.streams = q.streams /\ Whole(x)
      BY <1>1 DEF AgedFor, SameLists
    <3> QED
      BY <3>1, <3>2 DEF Calm, Remembers, MapsRegistered
  <2>2. CASE ~f.leaveAll
    BY <1>1, <2>2 DEF AgedFor, Calm, Remembers
  <2> QED
    BY <2>1, <2>2 DEF WellFormed
<1>2. CASE f.attr = NoAttribute
  BY <1>1, <1>2, NoAttributeIsNone, TalksAre DEF Received, Joins
<1>3. CASE f.attr # NoAttribute
  <2>1. PICK x, y, z :
          /\ AgedFor(q, f, x) /\ Spared(n, x, y) /\ Looked(y, AsReceived(f), z)
          /\ Processed(n, z, AsReceived(f), f.event, r)
    BY <1>3 DEF Received
  <2>2. Whole(x) /\ Calm(q, x) /\ Remembers(q, x)
    BY <1>1, <2>1
  <2>3. /\ Whole(z) /\ z.streams = x.streams /\ AsReceived(f) \in z.mrp.live
        /\ \A a \in Talks : z.mrp.app[a] = x.mrp.app[a] /\ z.mrp.reg[a] = x.mrp.reg[a]
    BY <2>1, TalksAre DEF Spared, Looked, SameLists, Created
  <2>4. Calm(q, z) /\ Remembers(q, z)
    BY <2>2, <2>3 DEF Calm, Remembers, MapsRegistered
  <2>5. f.event \in ReceivedEvents
    BY <1>3, AsReceivedIs
  <2>6. /\ Calm(z, r) /\ Remembers(z, r)
        /\ AsReceived(f) \in Talks /\ f.event \in JoinEvents =>
              AsReceived(f).stream \in ToSet(r.streams)
    BY <2>1, <2>3, <2>4, <2>5, ProcessedTalk DEF Remembers
  <2>7. ASSUME NEW a \in Talks, Joins(f, a)
        PROVE  a.stream \in ToSet(r.streams)
    <3>1. f.attr = a /\ f.event \in JoinEvents
      BY <2>7 DEF Joins
    <3>2. f.type = "TalkerAdvertise"
      BY <1>3, <3>1, TalksAre DEF WellFormed
    <3>3. AsReceived(f) = a
      BY <1>3, <3>1, <3>2, AsReceivedIs
    <3> QED
      BY <2>6, <3>1, <3>3
  <2> QED
    BY <2>4, <2>6, <2>7 DEF Calm, Remembers
<1> QED
  BY <1>2, <1>3

\* A stream is known to the peer of its talker, or the talker's frames account
\* for it.
Accounted(a) ==
    LET n == TalkerOf[a.stream]
    IN  \/ a.stream \in ToSet(station[Peer(n)].streams)
        \/ Sent(a, station[n].mrp.app[a], wire[n], lost)

TalkInv ==
    /\ \A n \in Station : MapsRegistered(station[n])
    /\ \A a \in Talks : Accounted(a)

LEMMA SentCalm ==
  ASSUME NEW a, NEW s, NEW t, NEW w, NEW l, Sent(a, s, w, l),
         t \in Later => s \in Later, t = "AN" => s = "AN"
  PROVE  Sent(a, t, w, l)
BY DEF Sent

LEMMA CalmStep ==
  ASSUME Typed, TalkInv, NEW n \in Station, Touches(n), Whole(station'[n]),
         Calm(station[n], station'[n]), Remembers(station[n], station'[n]),
         UNCHANGED <<wire, lost>>
  PROVE  TalkInv'
<1>1. \A m \in Station \ {n} : station'[m] = station[m]
  BY OneStation
<1>2. \A m \in Station : /\ Calm(station[m], station'[m])
                         /\ ToSet(station[m].streams) \subseteq ToSet(station'[m].streams)
                         /\ MapsRegistered(station'[m])
  BY <1>1 DEF TalkInv, Calm, Remembers
<1>3. ASSUME NEW a \in Talks PROVE Accounted(a)'
  <2>1. PICK k \in Station : k = TalkerOf[a.stream]
    BY MsrpAssumption, TalksAre
  <2>2. Peer(k) \in Station
    BY Peers
  <2>3. /\ station'[k].mrp.app[a] \in Later => station[k].mrp.app[a] \in Later
        /\ station'[k].mrp.app[a] = "AN" => station[k].mrp.app[a] = "AN"
    BY <1>2 DEF Calm
  <2>4. \/ a.stream \in ToSet(station[Peer(k)].streams)
        \/ Sent(a, station[k].mrp.app[a], wire[k], lost)
    BY <2>1 DEF TalkInv, Accounted
  <2>5. \/ a.stream \in ToSet(station'[Peer(k)].streams)
        \/ Sent(a, station'[k].mrp.app[a], wire'[k], lost')
    BY <1>2, <2>2, <2>3, <2>4, SentCalm
  <2> QED
    BY <2>1, <2>5 DEF Accounted
<1> QED
  BY <1>2, <1>3 DEF TalkInv

\* What is sent for an Applicant: a first New, or a second.
LEMMA SendsTalk ==
  ASSUME NEW q, Whole(q), NEW r, NEW F, Sends(q, r, F), NEW w \in Seq(FrameSet),
         NEW l \in Nat, NEW a \in Talks, Sent(a, q.mrp.app[a], w, l)
  PROVE  Sent(a, r.mrp.app[a], w \o F, l)
<1>1. PICK due :
        /\ Whole(due) /\ Before(q.mrp, due.mrp)
        /\ SaysFor(F, AttributeTypes, due, q.mrp.la = "Active")
        /\ Whole(r) /\ SameLists(q, r) /\ Applied(due.mrp, due.mrp.live, "tx", r.mrp)
  BY DEF Sends
<1>2. a \in Attribute /\ a.type \in AttributeTypes
  BY TalksAre DEF AttributeTypes
<1> DEFINE s == q.mrp.app[a]
           d == due.mrp.app[a]
           t == r.mrp.app[a]
<1>3. s \in PointToPoint /\ d \in PointToPoint
  BY <1>1, <1>2 DEF Whole, Sound
<1>4. d = s \/ d = ApplicantNext("rLA", s)
  BY <1>1, <1>2 DEF Before
<1>5. (d \in Later => s \in Later) /\ (d = "AN" => s = "AN")
  BY <1>3, <1>4 DEF PointToPoint, Later, ApplicantNext, OnReceiveLeave
<1>6. t = d \/ (a \in due.mrp.live /\ t = ApplicantNext("tx", d))
  BY <1>1, <1>2 DEF Applied
<1>7. (t \in Later => d \in Later \/ (d = "AN" /\ a \in due.mrp.live))
      /\ (t = "AN" => (d = "AN" \/ d = "VN") /\ (d = "AN" \/ a \in due.mrp.live))
  BY <1>3, <1>6 DEF PointToPoint, Later, ApplicantNext, OnTransmit
<1>8. d \in {"AN", "VN"} /\ a \in due.mrp.live => One(F, a)
  <2> SUFFICES ASSUME d \in {"AN", "VN"}, a \in due.mrp.live PROVE One(F, a)
    OBVIOUS
  <2>1. Message(due, a) = "New" /\ EventOf[Message(due, a)] = "rNew"
    BY DEF Message, MessageFor, EventOf
  <2>2. Speaks(due, a)
    BY <2>1 DEF Speaks
  <2>3. PICK i : Carries(F, due, a, i)
    BY <1>1, <1>2, <2>2 DEF SaysFor
  <2> QED
    BY <2>1, <2>3 DEF Carries, One, Joins, JoinEvents
<1>9. F \in Seq(FrameSet)
  BY <1>1 DEF SaysFor
<1>10. (One(w, a) \/ One(F, a) => One(w \o F, a))
       /\ (Two(w, a) \/ (One(w, a) /\ One(F, a)) => Two(w \o F, a))
  BY <1>9, ConcatSays
<1> HIDE DEF s, d, t
<1>11. Sent(a, s, w, l)
  BY DEF s
<1>12. Sent(a, t, w \o F, l)
  BY <1>5, <1>7, <1>8, <1>10, <1>11 DEF Sent
<1> QED
  BY <1>12 DEF t

LEMMA SendsMaps ==
  ASSUME NEW q, Whole(q), MapsRegistered(q), NEW r, NEW F, Sends(q, r, F)
  PROVE  MapsRegistered(r) /\ r.streams = q.streams
<1>1. PICK due :
        /\ Whole(due) /\ Before(q.mrp, due.mrp)
        /\ Whole(r) /\ SameLists(q, r) /\ Applied(due.mrp, due.mrp.live, "tx", r.mrp)
  BY DEF Sends
<1>2. ASSUME NEW a \in Talks, r.mrp.reg[a] # "MT" PROVE q.mrp.reg[a] # "MT"
  <2>1. q.mrp.reg[a] \in RegistrarStates /\ "rLA" \notin JoinEvents
    BY TalksAre DEF Whole, Sound, Participants, JoinEvents
  <2>2. r.mrp.reg[a] \in {q.mrp.reg[a], RegistrarNext("rLA", q.mrp.reg[a])}
    BY <1>1, TalksAre DEF Before, Applied
  <2> QED
    BY <1>2, <2>1, <2>2, RegistrarHolds
<1> QED
  BY <1>1, <1>2 DEF MapsRegistered, SameLists

LEMMA TalkInit ==
  ASSUME Init
  PROVE  TalkInv
<1>1. ASSUME NEW n \in Station, NEW a \in Talks
      PROVE  station[n].mrp.app[a] = "VO" /\ station[n].mrp.reg[a] = "MT"
  <2>1. a \in Attribute /\ a # DomainOf(DefaultDomain[n])
    BY MsrpAssumption, Attributes, TalksAre
  <2> QED
    BY <2>1, StartedIs DEF Init, Fresh
<1>2. \A n \in Station : MapsRegistered(station[n])
  BY <1>1 DEF MapsRegistered
<1>3. ASSUME NEW a \in Talks PROVE Accounted(a)
  <2>1. TalkerOf[a.stream] \in Station
    BY MsrpAssumption, TalksAre
  <2>2. station[TalkerOf[a.stream]].mrp.app[a] = "VO"
    BY <1>1, <2>1
  <2> QED
    BY <2>2 DEF Accounted, Sent, Later
<1> QED
  BY <1>2, <1>3 DEF TalkInv

LEMMA TalkStep ==
  ASSUME Typed, TalkInv, [Next]_vars
  PROVE  TalkInv'
<1>1. CASE UNCHANGED vars
  BY <1>1 DEF vars, TalkInv, Accounted
<1>2. CASE Next
  <2>1. PICK n \in Station :
           \/ /\ Touches(n)
              /\ \/ \E s \in Stream, a \in Address : RegisterStreamRequest(n, s, a)
                 \/ \E s \in Stream : RegisterAttachRequest(n, s)
                 \/ \E s \in Stream : DeregisterAttachRequest(n, s)
                 \/ NetRx(n)
                 \/ JoinTimer(n)
                 \/ \E a \in Attribute : LeaveTimer(n, a)
                 \/ LeaveAllTimer(n)
           \/ Lose(n)
    BY <1>2, NextIs
  <2>2. Whole(station[n]) /\ MapsRegistered(station[n])
    BY DEF Typed, TalkInv
  <2>3. CASE Touches(n) /\ \E s \in Stream, a \in Address : RegisterStreamRequest(n, s, a)
    <3>1. PICK s \in Stream, m \in Address : RegisterStreamRequest(n, s, m)
      BY <2>3
    <3>2. /\ SameLists(station[n], station'[n]) /\ Whole(station'[n])
          /\ Declared(station[n].mrp, TalkerAdvertise(s, m), "New", station'[n].mrp)
      BY <3>1, RegisterStreamIs
    <3>3. ASSUME NEW a \in Talks
          PROVE  /\ station'[n].mrp.app[a] \in Later => station[n].mrp.app[a] \in Later
                 /\ station'[n].mrp.app[a] = "AN" => station[n].mrp.app[a] = "AN"
      <4>1. \/ station'[n].mrp.app[a] = station[n].mrp.app[a]
            \/ station'[n].mrp.app[a] = ApplicantNext("New", station[n].mrp.app[a])
        BY <3>2, TalksAre DEF Declared
      <4> QED
        BY <4>1 DEF ApplicantNext, OnNew, Later
    <3>4. Calm(station[n], station'[n]) /\ Remembers(station[n], station'[n])
      BY <2>2, <3>2, <3>3 DEF Calm, Remembers, MapsRegistered, SameLists, Declared
    <3> QED
      BY <2>3, <3>1, <3>2, <3>4, CalmStep DEF RegisterStreamRequest, Requested
  <2>4. CASE Touches(n) /\ \E s \in Stream : RegisterAttachRequest(n, s)
    <3>1. PICK s \in Stream : RegisterAttachRequest(n, s)
      BY <2>4
    <3>2. /\ Whole(station'[n]) /\ station'[n].streams = station[n].streams
          /\ Declared(station[n].mrp, Listener(s, "READY"), "New", station'[n].mrp)
      BY <3>1, AttachIs
    <3>3. \A a \in Talks : a \in Attribute \ {Listener(s, "READY")}
      BY TalksAre, Attributes
    <3>4. Calm(station[n], station'[n]) /\ Remembers(station[n], station'[n])
      BY <2>2, <3>2, <3>3 DEF Calm, Remembers, MapsRegistered, Declared
    <3> QED
      BY <2>4, <3>1, <3>2, <3>4, CalmStep DEF RegisterAttachRequest, Requested
  <2>5. CASE Touches(n) /\ \E s \in Stream : DeregisterAttachRequest(n, s)
    <3>1. PICK s \in Stream : DeregisterAttachRequest(n, s)
      BY <2>5
    <3>2. /\ Whole(station'[n]) /\ station'[n].streams = station[n].streams
          /\ Withdrawn(station[n].mrp, Listener(s, "READY"), station'[n].mrp)
      BY <3>1, DetachIs
    <3>3. \A a \in Talks : a \in Attribute \ {Listener(s, "READY")}
      BY TalksAre, Attributes
    <3>4. Calm(station[n], station'[n]) /\ Remembers(station[n], station'[n])
      BY <2>2, <3>2, <3>3 DEF Calm, Remembers, MapsRegistered, Withdrawn
    <3> QED
      BY <2>5, <3>1, <3>2, <3>4, CalmStep DEF DeregisterAttachRequest, Requested
  <2>6. CASE Touches(n) /\ NetRx(n)
    <3>1. PICK m, f : m \in Station /\ m = Peer(n) /\ f = Head(wire[m]) /\ n = Peer(m) /\ m # n
      BY Peers
    <3>2. /\ wire[m] # <<>> /\ f \in FrameSet
          /\ Received(n, station[n], f, station'[n])
          /\ wire' = [wire EXCEPT ![m] = Tail(@)]
      BY <2>6, <3>1, ReceivesIs
    <3>3. /\ Calm(station[n], station'[n]) /\ Remembers(station[n], station'[n])
          /\ \A a \in Talks : Joins(f, a) => a.stream \in ToSet(station'[n].streams)
      BY <2>2, <3>2, ReceivedTalk DEF FrameSet
    <3>4. Whole(station'[n])
      BY <3>2 DEF Received, AgedFor, Processed
    <3>5. station'[m] = station[m] /\ lost' = lost
      BY <2>6, <3>1, <3>4, OneStation DEF NetRx
    <3>6. /\ wire[m] \in Seq(FrameSet) /\ wire'[m] = Tail(wire[m]) /\ wire'[n] = wire[n]
          /\ lost \in Nat
      BY <3>1, <3>2 DEF Typed
    <3>7. \A k \in Station : MapsRegistered(station'[k])
      BY <3>1, <3>3, <3>5, Peers DEF Remembers, TalkInv
    <3>8. ASSUME NEW a \in Talks PROVE Accounted(a)'
      <4>1. PICK k \in Station : k = TalkerOf[a.stream]
        BY MsrpAssumption, TalksAre
      <4>2. \/ a.stream \in ToSet(station[Peer(k)].streams)
            \/ Sent(a, station[k].mrp.app[a], wire[k], lost)
        BY <4>1 DEF TalkInv, Accounted
      <4>3. CASE k = m
        <5>1. CASE a.stream \in ToSet(station[n].streams)
          BY <3>1, <3>3, <4>1, <4>3, <5>1 DEF Accounted, Remembers
        <5>2. CASE Joins(f, a)
          BY <3>1, <3>3, <4>1, <4>3, <5>2 DEF Accounted
        <5>3. CASE Sent(a, station[m].mrp.app[a], wire[m], lost) /\ ~Joins(f, a)
          <6>1. Sent(a, station[m].mrp.app[a], Tail(wire[m]), lost)
            BY <3>1, <3>2, <3>6, <5>3, SentTail
          <6> QED
            BY <3>5, <3>6, <4>1, <4>3, <6>1 DEF Accounted
        <5> QED
          BY <3>1, <4>2, <4>3, <5>1, <5>2, <5>3
      <4>4. CASE k = n
        <5>1. Sent(a, station[n].mrp.app[a], wire[n], lost)
                => Sent(a, station'[n].mrp.app[a], wire[n], lost)
          BY <3>3, SentCalm DEF Calm
        <5> QED
          BY <3>1, <3>5, <3>6, <4>1, <4>2, <4>4, <5>1 DEF Accounted
      <4> QED
        BY <3>1, <4>3, <4>4, Peers
    <3> QED
      BY <3>7, <3>8 DEF TalkInv
  <2>7. CASE Touches(n) /\ JoinTimer(n)
    <3>1. PICK F : Sends(station[n], station'[n], F) /\ wire' = [wire EXCEPT ![n] = @ \o F]
      BY <2>7, SendsIs
    <3>2. MapsRegistered(station'[n]) /\ station'[n].streams = station[n].streams
      BY <2>2, <3>1, SendsMaps
    <3>3. Whole(station'[n])
      BY <3>1 DEF Sends
    <3>4. (\A m \in Station \ {n} : station'[m] = station[m]) /\ lost' = lost
      BY <2>7, <3>3, OneStation DEF JoinTimer
    <3>5. /\ wire[n] \in Seq(FrameSet) /\ wire'[n] = wire[n] \o F /\ lost \in Nat
          /\ \A m \in Station \ {n} : wire'[m] = wire[m]
      BY <3>1 DEF Typed
    <3>6. \A k \in Station : /\ MapsRegistered(station'[k])
                             /\ station'[k].streams = station[k].streams
      BY <3>2, <3>4 DEF TalkInv
    <3>7. ASSUME NEW a \in Talks PROVE Accounted(a)'
      <4>1. PICK k \in Station : k = TalkerOf[a.stream] /\ Peer(k) \in Station
        BY MsrpAssumption, TalksAre, Peers
      <4>2. \/ a.stream \in ToSet(station[Peer(k)].streams)
            \/ Sent(a, station[k].mrp.app[a], wire[k], lost)
        BY <4>1 DEF TalkInv, Accounted
      <4>3. Sent(a, station[k].mrp.app[a], wire[k], lost)
              => Sent(a, station'[k].mrp.app[a], wire'[k], lost)
        <5>1. CASE k = n
          <6> SUFFICES ASSUME Sent(a, station[n].mrp.app[a], wire[n], lost)
                       PROVE  Sent(a, station'[n].mrp.app[a], wire[n] \o F, lost)
            BY <3>4, <3>5, <5>1
          <6>1. PICK q, r, w, l : /\ q = station[n] /\ r = station'[n] /\ w = wire[n]
                                  /\ l = lost
            OBVIOUS
          <6>2. /\ Whole(q) /\ Sends(q, r, F) /\ w \in Seq(FrameSet) /\ l \in Nat
                /\ Sent(a, q.mrp.app[a], w, l)
            BY <2>2, <3>1, <3>5, <6>1
          <6>3. Sent(a, r.mrp.app[a], w \o F, l)
            BY <6>2, SendsTalk
          <6> QED
            BY <6>1, <6>3
        <5>2. CASE k # n
          BY <3>4, <3>5, <5>2
        <5> QED
          BY <5>1, <5>2
      <4> QED
        BY <3>4, <3>6, <4>1, <4>2, <4>3 DEF Accounted
    <3> QED
      BY <3>6, <3>7 DEF TalkInv
  <2>8. CASE Touches(n) /\ \E a \in Attribute : LeaveTimer(n, a)
    <3>1. PICK a \in Attribute : LeaveTimer(n, a)
      BY <2>8
    <3>2. /\ Whole(station'[n]) /\ SameLists(station[n], station'[n])
          /\ Registered(station[n].mrp, {a}, "leaveTimer", station'[n].mrp)
      BY <3>1, LeaveTimerStepIs
    <3>3. \A b \in Talks : station'[n].mrp.reg[b] # "MT" => station[n].mrp.reg[b] # "MT"
      <4> SUFFICES ASSUME NEW b \in Talks, station'[n].mrp.reg[b] # "MT"
                   PROVE  station[n].mrp.reg[b] # "MT"
        OBVIOUS
      <4>1. station[n].mrp.reg[b] \in RegistrarStates /\ "leaveTimer" \notin JoinEvents
        BY <2>2, TalksAre DEF Whole, Sound, Participants, JoinEvents
      <4>2. \/ station'[n].mrp.reg[b] = station[n].mrp.reg[b]
            \/ station'[n].mrp.reg[b] = RegistrarNext("leaveTimer", station[n].mrp.reg[b])
        BY <3>2, TalksAre DEF Registered
      <4> QED
        BY <4>1, <4>2, RegistrarHolds
    <3>4. Calm(station[n], station'[n]) /\ Remembers(station[n], station'[n])
      BY <2>2, <3>2, <3>3 DEF Calm, Remembers, MapsRegistered, SameLists, Registered
    <3> QED
      BY <2>8, <3>1, <3>2, <3>4, CalmStep DEF LeaveTimer
  <2>9. CASE Touches(n) /\ LeaveAllTimer(n)
    <3>1. /\ Whole(station'[n]) /\ SameLists(station[n], station'[n])
          /\ station'[n].mrp.app = station[n].mrp.app
          /\ station'[n].mrp.reg = station[n].mrp.reg
      BY <2>9, LeaveAllTimerStepIs
    <3>2. Calm(station[n], station'[n]) /\ Remembers(station[n], station'[n])
      BY <2>2, <3>1 DEF Calm, Remembers, MapsRegistered, SameLists
    <3> QED
      BY <2>9, <3>1, <3>2, CalmStep DEF LeaveAllTimer
  <2>10. CASE Lose(n)
    <3>1. /\ wire[n] \in Seq(FrameSet) /\ wire[n] # <<>> /\ lost \in Nat
          /\ wire'[n] = Tail(wire[n]) /\ lost' = lost + 1 /\ station' = station
          /\ \A m \in Station \ {n} : wire'[m] = wire[m]
      BY <2>10 DEF Lose, Typed
    <3>2. ASSUME NEW a \in Talks PROVE Accounted(a)'
      <4>1. PICK k \in Station : k = TalkerOf[a.stream]
        BY MsrpAssumption, TalksAre
      <4>2. Sent(a, station[k].mrp.app[a], wire[k], lost)
              => Sent(a, station[k].mrp.app[a], wire'[k], lost')
        <5>1. CASE k = n
          BY <3>1, <5>1, SentTail
        <5>2. CASE k # n
          BY <3>1, <5>2 DEF Sent
        <5> QED
          BY <5>1, <5>2
      <4> QED
        BY <3>1, <4>1, <4>2 DEF TalkInv, Accounted
    <3> QED
      BY <3>1, <3>2 DEF TalkInv
  <2> QED
    BY <2>1, <2>3, <2>4, <2>5, <2>6, <2>7, <2>8, <2>9, <2>10
<1> QED
  BY <1>1, <1>2

\* A talker falls quiet about a stream only when its peer has the stream in its
\* map or a frame that puts it there is under way, when no more than one frame
\* was lost, for any number of LeaveAlls.
THEOREM QuietTalkerIsKnown == Spec => []QuietIsKnown
<1>1. Typed /\ TalkInv => QuietIsKnown
  <2> SUFFICES ASSUME Typed, TalkInv, lost <= 1, NEW s \in Stream, NEW m \in Address,
                      station[TalkerOf[s]].mrp.app[TalkerAdvertise(s, m)] = "QA"
               PROVE  \/ s \in ToSet(station[Peer(TalkerOf[s])].streams)
                      \/ Said(TalkerOf[s], TalkerAdvertise(s, m))
    BY DEF QuietIsKnown
  <2> DEFINE a == TalkerAdvertise(s, m)
             n == TalkerOf[s]
  <2>1. a \in Talks /\ a.stream = s /\ n \in Station
    BY MsrpAssumption, Attributes DEF Talks, OfType
  <2>2. wire[n] \in Seq(FrameSet) /\ lost \in Nat /\ ~(lost >= 2)
    BY <2>1 DEF Typed
  <2> HIDE DEF a
  <2>3. \/ s \in ToSet(station[Peer(n)].streams)
        \/ Sent(a, station[n].mrp.app[a], wire[n], lost)
    BY <2>1 DEF TalkInv, Accounted
  <2>4. ASSUME Sent(a, station[n].mrp.app[a], wire[n], lost)
        PROVE  Said(n, a)
    <3>1. station[n].mrp.app[a] = "QA"
      BY DEF a
    <3>2. Two(wire[n], a) => One(wire[n], a)
      BY DEF Two, One
    <3>3. One(wire[n], a)
      BY <2>2, <2>4, <3>1, <3>2 DEF Sent, Later
    <3>4. PICK i \in 1..Len(wire[n]) : Joins(wire[n][i], a)
      BY <3>3 DEF One
    <3>5. wire[n][i] \in ToSet(wire[n])
      BY <2>2, <3>4 DEF ToSet
    <3> QED
      BY <3>4, <3>5 DEF Said, UnderWay, Joins
  <2> QED
    BY <2>3, <2>4 DEF a
<1>2. Init => Typed /\ AllFollow /\ TalkInv
  BY InitTyped, TalkInit
<1>3. Typed /\ AllFollow /\ TalkInv /\ [Next]_vars => (Typed /\ AllFollow /\ TalkInv)'
  BY FollowStep, TalkStep
<1> QED
  BY <1>1, <1>2, <1>3, PTL DEF Spec

-----------------------------------------------------------------------------
(***************************************************************************)
(* A station that falls quiet about a domain is heard.  What a registrar is *)
(* to hold after it has read the frames under way is followed frame by      *)
(* frame; without LeaveAlls the frames themselves are counted as above.     *)
(***************************************************************************)
Doms == OfType("Domain")

Quiet == {"AN", "AA", "QA"}

\* Whoever registers a domain declares it, and none is withdrawn.
Held(q) ==
    \A a \in Doms : /\ q.mrp.reg[a] # "MT" => a \in Declaring(q)
                    /\ q.mrp.app[a] # "LA"

Unwithdrawn(f) == f.attr \in Doms => f.event # "rLv"

\* The peer asks for the declarations of all domains, or says it holds this one.
AsksAgain(f) == f.leaveAll /\ f.type = "Domain"

Approves(f, a) == f.attr = a /\ f.event \in {"rIn", "rJoinIn"}

\* What a frame f that a station reads makes of its domain a.
DomainHeard(q, f, r, a) ==
    /\ r.mrp.app[a] \in Quiet => q.mrp.app[a] \in Quiet /\ ~AsksAgain(f)
    /\ ~Approves(f, a) =>
          /\ r.mrp.app[a] = "QA" => q.mrp.app[a] = "QA"
          /\ r.mrp.app[a] = "AA" => q.mrp.app[a] \in {"AA", "QA"}
          /\ r.mrp.app[a] = "AN" => q.mrp.app[a] = "AN"
    /\ q.mrp.reg[a] # "MT" => r.mrp.reg[a] # "MT"
    /\ ~AsksAgain(f) /\ q.mrp.reg[a] = "IN" => r.mrp.reg[a] = "IN"
    /\ ~AsksAgain(f) /\ q.mrp.reg[a] # "LV" => r.mrp.reg[a] # "LV"
    /\ Joins(f, a) => r.mrp.reg[a] = "IN"

LEMMA DomsAre ==
  ASSUME NEW a \in Doms
  PROVE  /\ a \in Attribute /\ a.type = "Domain" /\ a.type \in AttributeTypes
         /\ \A n : a \in Echoes(n)
BY EchoesAre DEF Doms, OfType, AttributeTypes

LEMMA DomainTable ==
  ASSUME NEW s \in PointToPoint, s # "LA", NEW i \in {"New", "Join"},
         NEW x \in {s, ApplicantNext(i, s)}, NEW ev \in ReceivedEvents
  PROVE  /\ ApplicantNext(ev, x) \in Quiet => s \in Quiet
         /\ ApplicantNext(ev, x) # "LA"
         /\ ev \notin {"rIn", "rJoinIn"} =>
               /\ ApplicantNext(ev, x) = "QA" => s = "QA"
               /\ ApplicantNext(ev, x) = "AA" => s \in {"AA", "QA"}
               /\ ApplicantNext(ev, x) = "AN" => s = "AN"
BY DEF PointToPoint, Quiet, ReceivedEvents, ApplicantNext, OnNew, OnJoin,
       OnReceiveJoinIn, OnReceiveIn, OnReceiveEmpty, OnReceiveLeave

LEMMA DomainRegistrar ==
  ASSUME NEW g \in RegistrarStates, NEW ev \in ReceivedEvents
  PROVE  /\ g # "MT" => RegistrarNext(ev, g) # "MT"
         /\ ev \in JoinEvents => RegistrarNext(ev, g) = "IN"
         /\ ev # "rLv" /\ g = "IN" => RegistrarNext(ev, g) = "IN"
         /\ ev # "rLv" /\ g # "LV" => RegistrarNext(ev, g) # "LV"
         /\ RegistrarNext(ev, g) # "MT" =>
               g # "MT" \/ Indication(ev, g) \in {"New", "Join"}
BY DEF RegistrarStates, ReceivedEvents, RegistrarNext, Indication, JoinEvents, LeaveEvents

\* The event of a domain that is listed.
LEMMA ProcessedDomain ==
  ASSUME NEW n, NEW q, Whole(q), Held(q), NEW a \in q.mrp.live, NEW ev \in ReceivedEvents,
         a \in Doms => ev # "rLv", NEW r, Processed(n, q, a, ev, r)
  PROVE  /\ Held(r)
         /\ \A b \in Doms \ {a} :
               r.mrp.app[b] = q.mrp.app[b] /\ r.mrp.reg[b] = q.mrp.reg[b]
         /\ a \in Doms =>
               /\ r.mrp.app[a] \in Quiet => q.mrp.app[a] \in Quiet
               /\ ev \notin {"rIn", "rJoinIn"} =>
                     /\ r.mrp.app[a] = "QA" => q.mrp.app[a] = "QA"
                     /\ r.mrp.app[a] = "AA" => q.mrp.app[a] \in {"AA", "QA"}
                     /\ r.mrp.app[a] = "AN" => q.mrp.app[a] = "AN"
               /\ q.mrp.reg[a] # "MT" => r.mrp.reg[a] # "MT"
               /\ q.mrp.reg[a] = "IN" => r.mrp.reg[a] = "IN"
               /\ q.mrp.reg[a] # "LV" => r.mrp.reg[a] # "LV"
               /\ ev \in JoinEvents => r.mrp.reg[a] = "IN"
<1>1. a \in Attribute /\ Heard(n, q.mrp, a, ev, r.mrp)
  BY DEF Whole, Sound, Participants, Processed
<1>2. \A b \in Doms \ {a} : r.mrp.app[b] = q.mrp.app[b] /\ r.mrp.reg[b] = q.mrp.reg[b]
  BY <1>1, DomsAre DEF Heard
<1>3. CASE a \notin Doms
  <2>1. Held(r)
    BY <1>2, <1>3, DomsAre DEF Held, Declaring
  <2> QED
    BY <1>2, <1>3, <2>1
<1>4. CASE a \in Doms
  <2> DEFINE s == q.mrp.app[a]
             g == q.mrp.reg[a]
             x == Asked(n, q.mrp, a, ev)
             y == ApplicantNext(ev, x)
             told == Indication(ev, g) \in {"New", "Join"}
  <2>1. /\ s \in PointToPoint /\ s # "LA" /\ g \in RegistrarStates
        /\ g # "MT" => s \in DeclaringStates
    BY <1>1, <1>4 DEF Whole, Sound, Participants, Held, Declaring
  <2>2. PICK i \in {"New", "Join"} :
          /\ x \in {s, ApplicantNext(i, s)}
          /\ told => x = ApplicantNext(i, s)
          /\ ~told => x = s
    <3>1. a \in Echoes(n)
      BY <1>4, DomsAre
    <3>2. CASE told
      BY <3>1, <3>2 DEF Asked
    <3>3. CASE ~told
      BY <3>3 DEF Asked
    <3> QED
      BY <3>2, <3>3
  <2>3. r.mrp.app[a] = y /\ r.mrp.reg[a] = IF y = "VO" THEN "MT" ELSE RegistrarNext(ev, g)
    BY <1>1 DEF Heard
  <2> HIDE DEF x
  <2>4. g # "MT" \/ told => y \in DeclaringStates
    <3>1. ApplicantNext(i, s) \in DeclaringStates /\ ApplicantNext(i, s) \in PointToPoint
      BY <2>1, JoinDeclares, TableClosed
    <3>2. x \in PointToPoint /\ (g # "MT" \/ told => x \in DeclaringStates)
      BY <2>1, <2>2, <3>1
    <3> QED
      BY <3>2, TableKeeps
  <2>5. /\ y \in Quiet => s \in Quiet
        /\ y # "LA"
        /\ ev \notin {"rIn", "rJoinIn"} =>
              /\ y = "QA" => s = "QA"
              /\ y = "AA" => s \in {"AA", "QA"}
              /\ y = "AN" => s = "AN"
    BY <2>1, <2>2, DomainTable
  <2> HIDE DEF y, s, g
  <2>6. "VO" \notin DeclaringStates
    BY DEF DeclaringStates
  <2>7. /\ g # "MT" => r.mrp.reg[a] # "MT"
        /\ g = "IN" => r.mrp.reg[a] = "IN"
        /\ g # "LV" => r.mrp.reg[a] # "LV"
        /\ r.mrp.reg[a] # "MT" => y \in DeclaringStates
    BY <1>4, <2>1, <2>3, <2>4, <2>6, DomainRegistrar
  <2>8. ev \in JoinEvents => r.mrp.reg[a] = "IN"
    <3>1. ev \in JoinEvents => g # "MT" \/ told
      BY JoinTold
    <3> QED
      BY <2>1, <2>3, <2>4, <2>6, <3>1, DomainRegistrar
  <2>9. Held(r)
    <3>1. \A b \in Doms : b # a =>
            (r.mrp.reg[b] # "MT" => b \in Declaring(r)) /\ r.mrp.app[b] # "LA"
      BY <1>2, DomsAre DEF Held, Declaring
    <3>2. (r.mrp.reg[a] # "MT" => a \in Declaring(r)) /\ r.mrp.app[a] # "LA"
      BY <1>1, <2>3, <2>5, <2>7 DEF Declaring
    <3> QED
      BY <3>1, <3>2 DEF Held
  <2> QED
    BY <1>2, <2>3, <2>5, <2>7, <2>8, <2>9 DEF s, g
<1> QED
  BY <1>3, <1>4

LEMMA AgedDomain ==
  ASSUME NEW q, Whole(q), Held(q), NEW f, WellFormed(f), NEW x, AgedFor(q, f, x)
  PROVE  /\ Held(x)
         /\ \A a \in Doms :
              /\ ~AsksAgain(f) => x.mrp.app[a] = q.mrp.app[a] /\ x.mrp.reg[a] = q.mrp.reg[a]
              /\ AsksAgain(f) => /\ x.mrp.app[a] \notin Quiet
                                 /\ q.mrp.reg[a] # "MT" => x.mrp.reg[a] # "MT"
<1>1. CASE ~f.leaveAll
  BY <1>1 DEF AgedFor, AsksAgain
<1>2. CASE f.leaveAll
  <2>1. AgedOut(q.mrp, OfType(f.type), x.mrp)
    BY <1>2 DEF AgedFor
  <2>0. Declaring(x) = Declaring(q)
    <3>1. f.leaveAll \in BOOLEAN
      BY DEF WellFormed
    <3> QED
      BY <3>1, AgedKeeps
  <2>2. ASSUME NEW a \in Doms
        PROVE  /\ ~AsksAgain(f) => x.mrp.app[a] = q.mrp.app[a] /\ x.mrp.reg[a] = q.mrp.reg[a]
               /\ AsksAgain(f) => x.mrp.app[a] \notin Quiet
               /\ x.mrp.reg[a] # "MT" <=> q.mrp.reg[a] # "MT"
               /\ x.mrp.app[a] # "LA"
    <3>1. /\ q.mrp.app[a] \in PointToPoint /\ q.mrp.reg[a] \in RegistrarStates
          /\ q.mrp.app[a] # "LA"
      BY DomsAre DEF Whole, Sound, Participants, Held
    <3>2. CASE f.type # "Domain"
      <4>1. a \notin OfType(f.type)
        BY <3>2, DomsAre DEF OfType
      <4> QED
        BY <2>1, <3>1, <3>2, <4>1, DomsAre DEF AgedOut, AsksAgain
    <3>3. CASE f.type = "Domain" /\ a \in q.mrp.live
      <4>1. a \in q.mrp.live \cap OfType(f.type)
        BY <3>3, DomsAre DEF OfType
      <4>2. /\ x.mrp.app[a] = ApplicantNext("rLv", q.mrp.app[a])
            /\ x.mrp.reg[a] = RegistrarNext("rLv", q.mrp.reg[a])
        BY <2>1, <4>1, DomsAre DEF AgedOut
      <4>3. /\ ApplicantNext("rLv", q.mrp.app[a]) \notin Quiet \cup {"LA"}
            /\ RegistrarNext("rLv", q.mrp.reg[a]) # "MT" <=> q.mrp.reg[a] # "MT"
        BY <3>1 DEF PointToPoint, ApplicantNext, OnReceiveLeave, Quiet, RegistrarStates,
                    RegistrarNext, JoinEvents, LeaveEvents
      <4> QED
        BY <1>2, <3>3, <4>2, <4>3 DEF AsksAgain
    <3>4. CASE a \notin q.mrp.live
      <4>1. q.mrp.app[a] = "VO" /\ x.mrp.app[a] = q.mrp.app[a] /\ x.mrp.reg[a] = q.mrp.reg[a]
        BY <2>1, <3>4, DomsAre DEF AgedOut, Whole, Sound
      <4> QED
        BY <4>1 DEF Quiet
    <3> QED
      BY <3>2, <3>3, <3>4
  <2>3. Held(x)
    BY <2>0, <2>2 DEF Held
  <2> QED
    BY <2>2, <2>3
<1> QED
  BY <1>1, <1>2 DEF WellFormed

LEMMA ReceivedDomain ==
  ASSUME NEW n, NEW q, Whole(q), Held(q), NEW f, WellFormed(f), Unwithdrawn(f),
         NEW r, Received(n, q, f, r)
  PROVE  Held(r) /\ \A a \in Doms : DomainHeard(q, f, r, a)
<1>1. CASE f.attr = NoAttribute
  <2>1. AgedFor(q, f, r)
    BY <1>1 DEF Received
  <2>2. \A a \in Doms : ~Joins(f, a)
    BY <1>1, NoAttributeIsNone, DomsAre DEF Joins
  <2>3. Held(r)
    BY <2>1, AgedDomain
  <2>4. ASSUME NEW a \in Doms PROVE DomainHeard(q, f, r, a)
    <3>1. /\ ~AsksAgain(f) => r.mrp.app[a] = q.mrp.app[a] /\ r.mrp.reg[a] = q.mrp.reg[a]
          /\ AsksAgain(f) => /\ r.mrp.app[a] \notin Quiet
                             /\ q.mrp.reg[a] # "MT" => r.mrp.reg[a] # "MT"
      BY <2>1, AgedDomain
    <3> QED
      BY <2>2, <3>1 DEF DomainHeard, Quiet
  <2> QED
    BY <2>3, <2>4
<1>2. CASE f.attr # NoAttribute
  <2>1. PICK x, y, z :
          /\ AgedFor(q, f, x) /\ Spared(n, x, y) /\ Looked(y, AsReceived(f), z)
          /\ Processed(n, z, AsReceived(f), f.event, r)
    BY <1>2 DEF Received
  <2>2. PICK b : b = AsReceived(f)
    OBVIOUS
  <2>3. /\ b \in Attribute /\ f.event \in ReceivedEvents
        /\ \A a \in Doms : b = a <=> f.attr = a
    <3>1. b \in Attribute /\ f.event \in ReceivedEvents /\ b.type = f.type
          /\ (f.type # "Listener" => b = f.attr)
      BY <1>2, <2>2, AsReceivedIs
    <3>2. f.attr.type = f.type
      BY <1>2 DEF WellFormed
    <3> QED
      BY <3>1, <3>2, DomsAre
  <2>4. /\ Whole(z) /\ b \in z.mrp.live
        /\ \A a \in Doms : z.mrp.app[a] = x.mrp.app[a] /\ z.mrp.reg[a] = x.mrp.reg[a]
    BY <2>1, <2>2, DomsAre DEF Spared, Looked, Created
  <2>5. /\ Held(x)
        /\ \A a \in Doms :
             /\ ~AsksAgain(f) => x.mrp.app[a] = q.mrp.app[a] /\ x.mrp.reg[a] = q.mrp.reg[a]
             /\ AsksAgain(f) => /\ x.mrp.app[a] \notin Quiet
                                /\ q.mrp.reg[a] # "MT" => x.mrp.reg[a] # "MT"
    BY <2>1, AgedDomain
  <2>6. Held(z)
    BY <2>4, <2>5, DomsAre DEF Held, Declaring
  <2>7. b \in Doms => f.event # "rLv"
    BY <2>3 DEF Unwithdrawn
  <2>8. PICK ev : ev = f.event
    OBVIOUS
  <2>9. Processed(n, z, b, ev, r) /\ ev \in ReceivedEvents
    BY <2>1, <2>2, <2>3, <2>8
  <2>10. /\ Held(r)
         /\ \A a \in Doms \ {b} :
               r.mrp.app[a] = z.mrp.app[a] /\ r.mrp.reg[a] = z.mrp.reg[a]
         /\ b \in Doms =>
               /\ r.mrp.app[b] \in Quiet => z.mrp.app[b] \in Quiet
               /\ ev \notin {"rIn", "rJoinIn"} =>
                     /\ r.mrp.app[b] = "QA" => z.mrp.app[b] = "QA"
                     /\ r.mrp.app[b] = "AA" => z.mrp.app[b] \in {"AA", "QA"}
                     /\ r.mrp.app[b] = "AN" => z.mrp.app[b] = "AN"
               /\ z.mrp.reg[b] # "MT" => r.mrp.reg[b] # "MT"
               /\ z.mrp.reg[b] = "IN" => r.mrp.reg[b] = "IN"
               /\ z.mrp.reg[b] # "LV" => r.mrp.reg[b] # "LV"
               /\ ev \in JoinEvents => r.mrp.reg[b] = "IN"
    BY <2>4, <2>6, <2>7, <2>8, <2>9, ProcessedDomain
  <2>11. ASSUME NEW a \in Doms PROVE DomainHeard(q, f, r, a)
    <3>1. CASE a # b
      <4>1. r.mrp.app[a] = x.mrp.app[a] /\ r.mrp.reg[a] = x.mrp.reg[a]
        BY <2>4, <2>10, <3>1
      <4>2. ~Joins(f, a)
        BY <2>3, <3>1 DEF Joins
      <4> QED
        BY <2>5, <4>1, <4>2 DEF DomainHeard, Quiet
    <3>2. CASE a = b
      <4>1. f.attr = a /\ b \in Doms
        BY <2>3, <3>2
      <4>2. z.mrp.app[a] = x.mrp.app[a] /\ z.mrp.reg[a] = x.mrp.reg[a]
        BY <2>4
      <4>3. CASE AsksAgain(f)
        <5>1. r.mrp.app[a] \notin Quiet
          BY <2>5, <2>10, <3>2, <4>1, <4>2, <4>3
        <5> QED
          BY <2>5, <2>8, <2>10, <3>2, <4>1, <4>2, <4>3, <5>1 DEF DomainHeard, Quiet, Joins
      <4>4. CASE ~AsksAgain(f)
        BY <2>5, <2>8, <2>10, <3>2, <4>1, <4>2, <4>4 DEF DomainHeard, Joins, Approves
      <4> QED
        BY <4>3, <4>4
    <3> QED
      BY <3>1, <3>2
  <2> QED
    BY <2>10, <2>11
<1> QED
  BY <1>1, <1>2

\* What a transmission makes of a domain a, and what it sends of it.
Asking(w) == \E i \in 1..Len(w) : AsksAgain(w[i])

SaidSince(a, w) ==
    \E i \in 1..Len(w) : Joins(w[i], a) /\ \A j \in 1..Len(w) : j > i => ~AsksAgain(w[j])

DomainSent(q, F, r, a) ==
    /\ r.mrp.app[a] \in Quiet => SaidSince(a, F) \/ (q.mrp.app[a] = "QA" /\ ~Asking(F))
    /\ ~Asking(F) => r.mrp.reg[a] = q.mrp.reg[a]
    /\ q.mrp.la # "Active" =>
          /\ r.mrp.app[a] \in {"AN", "AA"} => One(F, a)
          /\ r.mrp.app[a] = "QA" =>
                q.mrp.app[a] = "QA" \/ (q.mrp.app[a] \in {"AN", "AA"} /\ One(F, a))
          /\ \A i \in 1..Len(F) : Approves(F[i], a) => q.mrp.reg[a] # "MT"

LEMMA TransmitTable ==
  ASSUME NEW s \in PointToPoint, s # "LA", NEW d \in {s, ApplicantNext("rLA", s)}
  PROVE  /\ d \in PointToPoint /\ d # "LA" /\ ApplicantNext("tx", d) # "LA"
         /\ d = ApplicantNext("rLA", s) => d \notin {"AN", "AA", "QA"}
         /\ ApplicantNext("tx", d) \in Quiet => d \in {"VN", "VP", "AN", "AA", "QA"}
         /\ ApplicantNext("tx", d) \in {"AN", "AA"} => d \in {"VN", "VP"}
         /\ ApplicantNext("tx", d) = "QA" => d \in {"AN", "AA", "QA"}
BY DEF PointToPoint, Quiet, ApplicantNext, OnReceiveLeave, OnTransmit

LEMMA MessageTable ==
  ASSUME NEW s, NEW g
  PROVE  /\ s \in {"VN", "VP", "AN", "AA"} =>
               MessageFor(s, g) # "none" /\ EventOf[MessageFor(s, g)] \in JoinEvents
         /\ MessageFor(s, g) # "none" /\ s # "LA" => EventOf[MessageFor(s, g)] # "rLv"
         /\ MessageFor(s, g) # "none" /\ EventOf[MessageFor(s, g)] \in {"rIn", "rJoinIn"}
               => g = "IN"
BY DEF MessageFor, EventOf, JoinEvents

LEMMA SendsDomain ==
  ASSUME NEW q, Whole(q), Held(q), NEW r, NEW F, Sends(q, r, F)
  PROVE  /\ Held(r) /\ r.mrp.la = "Passive"
         /\ F \in Seq(FrameSet) /\ \A i \in 1..Len(F) : Unwithdrawn(F[i])
         /\ q.mrp.la # "Active" => ~Asking(F)
         /\ \A a \in Doms : DomainSent(q, F, r, a)
<1>1. PICK due :
        /\ Whole(due) /\ Before(q.mrp, due.mrp)
        /\ SaysFor(F, AttributeTypes, due, q.mrp.la = "Active")
        /\ Whole(r) /\ SameLists(q, r) /\ Applied(due.mrp, due.mrp.live, "tx", r.mrp)
  BY DEF Sends
<1>2. F \in Seq(FrameSet) /\ r.mrp.la = "Passive"
  BY <1>1 DEF SaysFor, Applied, Before
<1>3. ASSUME NEW a \in Doms
      PROVE  /\ q.mrp.app[a] \in PointToPoint /\ q.mrp.app[a] # "LA"
             /\ q.mrp.reg[a] \in RegistrarStates
             /\ due.mrp.app[a] \in {q.mrp.app[a], ApplicantNext("rLA", q.mrp.app[a])}
             /\ q.mrp.la # "Active" =>
                   due.mrp.app[a] = q.mrp.app[a] /\ due.mrp.reg[a] = q.mrp.reg[a]
             /\ due.mrp.app[a] = "QA" => q.mrp.la # "Active"
  <2>1. /\ q.mrp.app[a] \in PointToPoint /\ q.mrp.app[a] # "LA"
        /\ q.mrp.reg[a] \in RegistrarStates
    BY DomsAre DEF Whole, Sound, Participants, Held
  <2>2. /\ due.mrp.app[a] = IF a \in q.mrp.live /\ q.mrp.la = "Active"
                            THEN ApplicantNext("rLA", q.mrp.app[a]) ELSE q.mrp.app[a]
        /\ q.mrp.la # "Active" => due.mrp.reg[a] = q.mrp.reg[a]
        /\ a \notin q.mrp.live => q.mrp.app[a] = "VO"
    BY <1>1, DomsAre DEF Before, Whole, Sound
  <2> QED
    BY <2>1, <2>2, TransmitTable
<1>4. \A i \in 1..Len(F) : Unwithdrawn(F[i])
  <2> SUFFICES ASSUME NEW i \in 1..Len(F), F[i].attr \in Doms
               PROVE  F[i].event # "rLv"
    BY DEF Unwithdrawn
  <2>1. PICK a \in Doms : a = F[i].attr
    OBVIOUS
  <2>2. a # NoAttribute
    BY DomsAre, NoAttributeIsNone
  <2>3. Speaks(due, a) /\ F[i].event = EventOf[Message(due, a)]
    BY <1>1, <2>1, <2>2 DEF SaysFor
  <2>4. due.mrp.app[a] # "LA"
    BY <1>3, TransmitTable
  <2> QED
    BY <2>3, <2>4, MessageTable DEF Speaks, Message
<1>5. q.mrp.la # "Active" => ~Asking(F)
  BY <1>1 DEF SaysFor, Asking, AsksAgain
<1>6. q.mrp.la = "Active" => Asking(F)
  BY <1>1 DEF SaysFor, Asking, AsksAgain, AttributeTypes
<1>7. ASSUME NEW a \in Doms, due.mrp.app[a] \in {"VN", "VP", "AN", "AA"}
      PROVE  SaidSince(a, F) /\ One(F, a)
  <2>1. due.mrp.app[a] # "VO" /\ a.type \in AttributeTypes /\ a.type = "Domain"
    BY <1>7, DomsAre
  <2>2. a \in due.mrp.live
    BY <1>1, <2>1, DomsAre DEF Whole, Sound
  <2>3. Speaks(due, a) /\ EventOf[Message(due, a)] \in JoinEvents
    BY <1>7, <2>2, MessageTable DEF Speaks, Message
  <2>4. PICK i : Carries(F, due, a, i)
    BY <1>1, <2>1, <2>3, DomsAre DEF SaysFor
  <2> QED
    BY <2>1, <2>3, <2>4 DEF Carries, SaidSince, One, Joins, AsksAgain
<1>8. ASSUME NEW a \in Doms PROVE DomainSent(q, F, r, a)
  <2> DEFINE s == q.mrp.app[a]
             d == due.mrp.app[a]
             t == r.mrp.app[a]
  <2>1. t = d \/ t = ApplicantNext("tx", d)
    BY <1>1, DomsAre DEF Applied
  <2>2. t = d => d \notin {"VN", "VP", "AN", "AA", "QA"} \/ d = ApplicantNext("tx", d)
    <3>1. a \notin due.mrp.live => d = "VO"
      BY <1>1, DomsAre DEF Whole, Sound
    <3>2. a \in due.mrp.live => t = ApplicantNext("tx", d)
      BY <1>1, DomsAre DEF Applied
    <3> QED
      BY <3>1, <3>2
  <2>3. /\ t \in Quiet => d \in {"VN", "VP", "AN", "AA", "QA"}
        /\ t \in {"AN", "AA"} => d \in {"VN", "VP"}
        /\ t = "QA" => d \in {"AN", "AA", "QA"}
    BY <1>3, <2>1, <2>2, TransmitTable DEF Quiet
  <2>4. t \in Quiet => SaidSince(a, F) \/ (s = "QA" /\ ~Asking(F))
    BY <1>3, <1>5, <1>7, <2>3
  <2>5. ~Asking(F) => r.mrp.reg[a] = q.mrp.reg[a]
    BY <1>1, <1>3, <1>6, DomsAre DEF Applied
  <2>6. ASSUME q.mrp.la # "Active"
        PROVE  /\ t \in {"AN", "AA"} => One(F, a)
               /\ t = "QA" => s = "QA" \/ (s \in {"AN", "AA"} /\ One(F, a))
    BY <1>3, <1>7, <2>3, <2>6
  <2>7. ASSUME q.mrp.la # "Active", NEW i \in 1..Len(F), Approves(F[i], a)
        PROVE  q.mrp.reg[a] # "MT"
    <3>1. F[i].attr = a /\ a # NoAttribute
      BY <2>7, DomsAre, NoAttributeIsNone DEF Approves
    <3>2. Speaks(due, a) /\ F[i].event = EventOf[Message(due, a)]
      BY <1>1, <3>1 DEF SaysFor
    <3>3. due.mrp.reg[a] = "IN"
      BY <2>7, <3>2, MessageTable DEF Speaks, Message, Approves
    <3> QED
      BY <1>3, <2>7, <3>3
  <2> HIDE DEF s, t, d
  <2>8. q.mrp.app[a] = s /\ r.mrp.app[a] = t
    BY DEF s, t
  <2> QED
    BY <2>4, <2>5, <2>6, <2>7, <2>8 DEF DomainSent
<1>9. Held(r)
  <2> SUFFICES ASSUME NEW a \in Doms
               PROVE  /\ r.mrp.reg[a] # "MT" => a \in Declaring(r)
                      /\ r.mrp.app[a] # "LA"
    BY DEF Held
  <2>1. r.mrp.app[a] # "LA"
    BY <1>1, <1>3, TransmitTable, DomsAre DEF Applied
  <2>2. ASSUME r.mrp.reg[a] # "MT" PROVE a \in Declaring(r)
    <3>1. r.mrp.reg[a] \in {q.mrp.reg[a], RegistrarNext("rLA", q.mrp.reg[a])}
      BY <1>1, DomsAre DEF Before, Applied
    <3>2. q.mrp.reg[a] # "MT"
      BY <2>2, <3>1, EmptyStays DEF JoinEvents
    <3>3. a \in Declaring(q) /\ Declaring(r) = Declaring(q)
      <4>1. a \in Declaring(q)
        BY <3>2 DEF Held
      <4> QED
        BY <4>1, SendsKeeps DEF Untouched
    <3> QED
      BY <3>3
  <2> QED
    BY <2>1, <2>2
<1> QED
  BY <1>2, <1>4, <1>5, <1>8, <1>9

\* The steps as far as domains go: most leave them alone, but for a leave timer.
Idle(n) ==
    /\ wire' = wire /\ lost' = lost
    /\ leaveAlls' = 0 => leaveAlls = 0 /\ station'[n].mrp.la = station[n].mrp.la
    /\ \A a \in Doms : /\ station'[n].mrp.app[a] = station[n].mrp.app[a]
                       /\ \/ station'[n].mrp.reg[a] = station[n].mrp.reg[a]
                          \/ station[n].mrp.reg[a] = "LV" /\ station'[n].mrp.reg[a] = "MT"

Reads(n) ==
    /\ wire[Peer(n)] # <<>> /\ wire' = [wire EXCEPT ![Peer(n)] = Tail(@)]
    /\ lost' = lost /\ leaveAlls' = leaveAlls
    /\ station'[n].mrp.la \in {station[n].mrp.la, "Passive"}
    /\ \A a \in Doms : DomainHeard(station[n], Head(wire[Peer(n)]), station'[n], a)

Transmits(n) ==
    \E F \in Seq(FrameSet) :
        /\ wire' = [wire EXCEPT ![n] = @ \o F]
        /\ lost' = lost /\ leaveAlls' = leaveAlls
        /\ station'[n].mrp.la = "Passive"
        /\ \A i \in 1..Len(F) : Unwithdrawn(F[i])
        /\ station[n].mrp.la # "Active" => ~Asking(F)
        /\ \A a \in Doms : DomainSent(station[n], F, station'[n], a)

Loses(n) ==
    /\ station'[n] = station[n] /\ wire[n] # <<>> /\ wire' = [wire EXCEPT ![n] = Tail(@)]
    /\ lost' = lost + 1 /\ leaveAlls' = leaveAlls

Kind(n) == Idle(n) \/ Reads(n) \/ Transmits(n) \/ Loses(n)

AllHeld ==
    \A n \in Station : /\ Held(station[n])
                       /\ \A i \in 1..Len(wire[n]) : Unwithdrawn(wire[n][i])

LEMMA IdleHeld ==
  ASSUME NEW n \in Station, Idle(n), Held(station[n])
  PROVE  Held(station'[n])
BY DomsAre DEF Held, Declaring, Idle

LEMMA IdleWhen ==
  ASSUME Typed, NEW n \in Station, Touches(n), Whole(station'[n]), Idle(n), AllHeld
  PROVE  /\ \A m \in Station \ {n} : station'[m] = station[m]
         /\ Kind(n) /\ AllHeld'
<1>1. \A m \in Station \ {n} : station'[m] = station[m]
  BY OneStation
<1>2. Held(station'[n])
  BY IdleHeld DEF AllHeld
<1>3. AllHeld'
  BY <1>1, <1>2 DEF AllHeld, Idle
<1> QED
  BY <1>1, <1>3 DEF Kind

LEMMA HeldFrames ==
  ASSUME NEW w \in Seq(FrameSet), \A i \in 1..Len(w) : Unwithdrawn(w[i])
  PROVE  /\ w # <<>> => /\ Unwithdrawn(Head(w))
                        /\ \A i \in 1..Len(Tail(w)) : Unwithdrawn(Tail(w)[i])
         /\ \A F \in Seq(FrameSet) : (\A i \in 1..Len(F) : Unwithdrawn(F[i])) =>
               \A i \in 1..Len(w \o F) : Unwithdrawn((w \o F)[i])
<1>1. ASSUME w # <<>>
      PROVE  Unwithdrawn(Head(w)) /\ \A i \in 1..Len(Tail(w)) : Unwithdrawn(Tail(w)[i])
  <2>1. 1 \in 1..Len(w)
    BY <1>1, TailIs
  <2> QED
    BY <1>1, <2>1, TailIs
<1>2. ASSUME NEW F \in Seq(FrameSet), \A i \in 1..Len(F) : Unwithdrawn(F[i]),
             NEW i \in 1..Len(w \o F)
      PROVE  Unwithdrawn((w \o F)[i])
  <2>1. CASE i > Len(w)
    BY <1>2, <2>1, ConcatIs
  <2>2. CASE ~(i > Len(w))
    <3>1. i \in 1..Len(w)
      BY <2>2, ConcatIs
    <3> QED
      BY <3>1, ConcatIs
  <2> QED
    BY <2>1, <2>2
<1> QED
  BY <1>1, <1>2

LEMMA RequestIdle ==
  ASSUME NEW p, NEW r, NEW b, b \notin Doms,
         (\E ev : Declared(p, b, ev, r)) \/ Withdrawn(p, b, r)
  PROVE  /\ r.la = p.la
         /\ \A a \in Doms : r.app[a] = p.app[a] /\ r.reg[a] = p.reg[a]
<1>1. \A a \in Doms : a \in Attribute \ {b}
  BY DomsAre
<1> QED
  BY <1>1 DEF Declared, Withdrawn

LEMMA ReceivedLeaveAll ==
  ASSUME NEW n, NEW q, NEW f, NEW r, Received(n, q, f, r)
  PROVE  r.mrp.la \in {q.mrp.la, "Passive"}
<1>1. ASSUME NEW x, AgedFor(q, f, x) PROVE x.mrp.la \in {q.mrp.la, "Passive"}
  <2>1. CASE f.leaveAll
    BY <1>1, <2>1 DEF AgedFor, AgedOut
  <2>2. CASE ~f.leaveAll
    BY <1>1, <2>2 DEF AgedFor
  <2> QED
    BY <2>1, <2>2
<1>2. CASE f.attr = NoAttribute
  BY <1>1, <1>2 DEF Received
<1>3. CASE f.attr # NoAttribute
  <2>1. PICK x, y, z :
          /\ AgedFor(q, f, x) /\ Spared(n, x, y) /\ Looked(y, AsReceived(f), z)
          /\ Processed(n, z, AsReceived(f), f.event, r)
    BY <1>3 DEF Received
  <2>2. y.mrp.la = x.mrp.la /\ z.mrp.la = y.mrp.la /\ r.mrp.la = z.mrp.la
    BY <2>1 DEF Spared, Looked, Created, Processed, Heard
  <2> QED
    BY <1>1, <2>1, <2>2
<1> QED
  BY <1>2, <1>3

LEMMA ReadsWhen ==
  ASSUME Typed, AllHeld, NEW n \in Station, NetRx(n)
  PROVE  /\ \A m \in Station \ {n} : station'[m] = station[m]
         /\ Kind(n) /\ AllHeld'
<1>1. PICK m, f : m \in Station /\ m = Peer(n) /\ f = Head(wire[m]) /\ n = Peer(m) /\ m # n
  BY Peers
<1>2. /\ wire[m] # <<>> /\ f \in FrameSet
      /\ Received(n, station[n], f, station'[n])
      /\ wire' = [wire EXCEPT ![m] = Tail(@)]
      /\ Touches(n)
  BY <1>1, ReceivesIs DEF Touches
<1>3. Whole(station'[n])
  BY <1>2 DEF Received, AgedFor, Processed
<1>4. \A k \in Station \ {n} : station'[k] = station[k]
  BY <1>2, <1>3, OneStation
<1>5. wire[m] \in Seq(FrameSet) /\ wire'[m] = Tail(wire[m]) /\ wire'[n] = wire[n]
  BY <1>1, <1>2 DEF Typed
<1>6. Unwithdrawn(f) /\ \A i \in 1..Len(wire'[m]) : Unwithdrawn(wire'[m][i])
  BY <1>1, <1>2, <1>5, HeldFrames DEF AllHeld
<1>7. Held(station'[n]) /\ \A a \in Doms : DomainHeard(station[n], f, station'[n], a)
  BY <1>2, <1>6, ReceivedDomain DEF AllHeld, Typed, FrameSet
<1>8. AllHeld'
  BY <1>1, <1>4, <1>5, <1>6, <1>7, Peers DEF AllHeld
<1>9. Reads(n)
  BY <1>1, <1>2, <1>7, ReceivedLeaveAll DEF Reads, NetRx
<1> QED
  BY <1>4, <1>8, <1>9 DEF Kind

LEMMA TransmitsWhen ==
  ASSUME Typed, AllHeld, NEW n \in Station, Touches(n), JoinTimer(n)
  PROVE  /\ \A m \in Station \ {n} : station'[m] = station[m]
         /\ Kind(n) /\ AllHeld'
<1>1. PICK F : Sends(station[n], station'[n], F) /\ wire' = [wire EXCEPT ![n] = @ \o F]
  BY SendsIs
<1>2. Whole(station[n]) /\ Held(station[n])
  BY DEF Typed, AllHeld
<1>3. /\ Held(station'[n]) /\ station'[n].mrp.la = "Passive"
      /\ F \in Seq(FrameSet) /\ \A i \in 1..Len(F) : Unwithdrawn(F[i])
      /\ station[n].mrp.la # "Active" => ~Asking(F)
      /\ \A a \in Doms : DomainSent(station[n], F, station'[n], a)
  BY <1>1, <1>2, SendsDomain
<1>4. \A m \in Station \ {n} : station'[m] = station[m]
  BY <1>1, OneStation DEF Sends
<1>5. wire[n] \in Seq(FrameSet) /\ wire'[n] = wire[n] \o F
      /\ \A m \in Station \ {n} : wire'[m] = wire[m]
  BY <1>1 DEF Typed
<1>6. \A i \in 1..Len(wire'[n]) : Unwithdrawn(wire'[n][i])
  BY <1>3, <1>5, HeldFrames DEF AllHeld
<1>7. AllHeld'
  BY <1>3, <1>4, <1>5, <1>6 DEF AllHeld
<1>8. Transmits(n)
  BY <1>1, <1>3 DEF Transmits, JoinTimer
<1> QED
  BY <1>4, <1>7, <1>8 DEF Kind

LEMMA LosesWhen ==
  ASSUME Typed, AllHeld, NEW n \in Station, Lose(n)
  PROVE  /\ \A m \in Station \ {n} : station'[m] = station[m]
         /\ Kind(n) /\ AllHeld'
<1>1. /\ wire[n] \in Seq(FrameSet) /\ wire[n] # <<>> /\ wire'[n] = Tail(wire[n])
      /\ station' = station /\ \A m \in Station \ {n} : wire'[m] = wire[m]
  BY DEF Lose, Typed
<1>2. \A i \in 1..Len(wire'[n]) : Unwithdrawn(wire'[n][i])
  BY <1>1, HeldFrames DEF AllHeld
<1>3. AllHeld'
  BY <1>1, <1>2 DEF AllHeld
<1>4. Loses(n)
  BY <1>1 DEF Loses, Lose
<1> QED
  BY <1>1, <1>3, <1>4 DEF Kind

LEMMA DomainSteps ==
  ASSUME Typed, AllHeld, [Next]_vars
  PROVE  AllHeld' /\ \E n \in Station : /\ \A m \in Station \ {n} : station'[m] = station[m]
                                        /\ Kind(n)
<1>1. CASE UNCHANGED vars
  <2>1. PICK n \in Station : TRUE
    BY MsrpAssumption
  <2>2. Kind(n) /\ AllHeld' /\ station' = station
    BY <1>1 DEF vars, Kind, Idle, AllHeld
  <2> QED
    BY <2>2
<1>2. CASE Next
  <2>1. PICK n \in Station :
           \/ /\ Touches(n)
              /\ \/ \E s \in Stream, a \in Address : RegisterStreamRequest(n, s, a)
                 \/ \E s \in Stream : RegisterAttachRequest(n, s)
                 \/ \E s \in Stream : DeregisterAttachRequest(n, s)
                 \/ NetRx(n)
                 \/ JoinTimer(n)
                 \/ \E a \in Attribute : LeaveTimer(n, a)
                 \/ LeaveAllTimer(n)
           \/ Lose(n)
    BY <1>2, NextIs
  <2> DEFINE Goal == /\ \A m \in Station \ {n} : station'[m] = station[m]
                     /\ Kind(n) /\ AllHeld'
  <2>2. ASSUME Touches(n), Whole(station'[n]), Idle(n) PROVE Goal
    BY <2>2, IdleWhen
  <2>3. CASE Touches(n) /\ \E s \in Stream, a \in Address : RegisterStreamRequest(n, s, a)
    <3>1. PICK s \in Stream, m \in Address : RegisterStreamRequest(n, s, m)
      BY <2>3
    <3>2. /\ Whole(station'[n])
          /\ Declared(station[n].mrp, TalkerAdvertise(s, m), "New", station'[n].mrp)
      BY <3>1, RegisterStreamIs
    <3>3. TalkerAdvertise(s, m) \notin Doms
      BY DomsAre, Attributes
    <3>4. /\ station'[n].mrp.la = station[n].mrp.la
          /\ \A a \in Doms : /\ station'[n].mrp.app[a] = station[n].mrp.app[a]
                             /\ station'[n].mrp.reg[a] = station[n].mrp.reg[a]
      <4>1. PICK b, p, r : /\ b = TalkerAdvertise(s, m) /\ p = station[n].mrp
                           /\ r = station'[n].mrp
        OBVIOUS
      <4>2. (\E ev : Declared(p, b, ev, r)) \/ Withdrawn(p, b, r)
        BY <3>2, <4>1
      <4>3. b \notin Doms
        BY <3>3, <4>1
      <4>4. /\ r.la = p.la
            /\ \A a \in Doms : r.app[a] = p.app[a] /\ r.reg[a] = p.reg[a]
        BY <4>2, <4>3, RequestIdle
      <4> QED
        BY <4>1, <4>4
    <3>5. Idle(n)
      BY <3>1, <3>4 DEF Idle, RegisterStreamRequest, Requested
    <3> QED
      BY <2>2, <2>3, <3>2, <3>5
  <2>4. CASE Touches(n) /\ \E s \in Stream : RegisterAttachRequest(n, s)
    <3>1. PICK s \in Stream : RegisterAttachRequest(n, s)
      BY <2>4
    <3>2. /\ Whole(station'[n])
          /\ Declared(station[n].mrp, Listener(s, "READY"), "New", station'[n].mrp)
      BY <3>1, AttachIs
    <3>3. Listener(s, "READY") \notin Doms
      BY DomsAre, Attributes
    <3>4. /\ station'[n].mrp.la = station[n].mrp.la
          /\ \A a \in Doms : /\ station'[n].mrp.app[a] = station[n].mrp.app[a]
                             /\ station'[n].mrp.reg[a] = station[n].mrp.reg[a]
      <4>1. PICK b, p, r : /\ b = Listener(s, "READY") /\ p = station[n].mrp
                           /\ r = station'[n].mrp
        OBVIOUS
      <4>2. (\E ev : Declared(p, b, ev, r)) \/ Withdrawn(p, b, r)
        BY <3>2, <4>1
      <4>3. b \notin Doms
        BY <3>3, <4>1
      <4>4. /\ r.la = p.la
            /\ \A a \in Doms : r.app[a] = p.app[a] /\ r.reg[a] = p.reg[a]
        BY <4>2, <4>3, RequestIdle
      <4> QED
        BY <4>1, <4>4
    <3>5. /\ wire' = wire /\ lost' = lost
          /\ leaveAlls' = leaveAlls
      BY <3>1 DEF RegisterAttachRequest, Requested
    <3>6. Idle(n)
      BY <3>4, <3>5 DEF Idle
    <3> QED
      BY <2>2, <2>4, <3>2, <3>6
  <2>5. CASE Touches(n) /\ \E s \in Stream : DeregisterAttachRequest(n, s)
    <3>1. PICK s \in Stream : DeregisterAttachRequest(n, s)
      BY <2>5
    <3>2. /\ Whole(station'[n])
          /\ Withdrawn(station[n].mrp, Listener(s, "READY"), station'[n].mrp)
      BY <3>1, DetachIs
    <3>3. Listener(s, "READY") \notin Doms
      BY DomsAre, Attributes
    <3>4. /\ station'[n].mrp.la = station[n].mrp.la
          /\ \A a \in Doms : /\ station'[n].mrp.app[a] = station[n].mrp.app[a]
                             /\ station'[n].mrp.reg[a] = station[n].mrp.reg[a]
      <4>1. PICK b, p, r : /\ b = Listener(s, "READY") /\ p = station[n].mrp
                           /\ r = station'[n].mrp
        OBVIOUS
      <4>2. (\E ev : Declared(p, b, ev, r)) \/ Withdrawn(p, b, r)
        BY <3>2, <4>1
      <4>3. b \notin Doms
        BY <3>3, <4>1
      <4>4. /\ r.la = p.la
            /\ \A a \in Doms : r.app[a] = p.app[a] /\ r.reg[a] = p.reg[a]
        BY <4>2, <4>3, RequestIdle
      <4> QED
        BY <4>1, <4>4
    <3>5. /\ wire' = wire /\ lost' = lost
          /\ leaveAlls' = leaveAlls
      BY <3>1 DEF DeregisterAttachRequest, Requested
    <3>6. Idle(n)
      BY <3>4, <3>5 DEF Idle
    <3> QED
      BY <2>2, <2>5, <3>2, <3>6
  <2>6. CASE Touches(n) /\ NetRx(n)
    BY <2>6, ReadsWhen
  <2>7. CASE Touches(n) /\ JoinTimer(n)
    BY <2>7, TransmitsWhen
  <2>8. CASE Touches(n) /\ \E a \in Attribute : LeaveTimer(n, a)
    <3>1. PICK b \in Attribute : LeaveTimer(n, b)
      BY <2>8
    <3>2. /\ Whole(station'[n])
          /\ Registered(station[n].mrp, {b}, "leaveTimer", station'[n].mrp)
      BY <3>1, LeaveTimerStepIs
    <3>3. \A g : \/ RegistrarNext("leaveTimer", g) = g
                 \/ g = "LV" /\ RegistrarNext("leaveTimer", g) = "MT"
      BY DEF RegistrarNext, JoinEvents, LeaveEvents
    <3>4. Idle(n)
      BY <3>1, <3>2, <3>3, DomsAre DEF Idle, LeaveTimer, Registered
    <3> QED
      BY <2>2, <2>8, <3>2, <3>4
  <2>9. CASE Touches(n) /\ LeaveAllTimer(n)
    <3>1. /\ Whole(station'[n])
          /\ station'[n].mrp.app = station[n].mrp.app
          /\ station'[n].mrp.reg = station[n].mrp.reg
      BY <2>9, LeaveAllTimerStepIs
    <3>2. leaveAlls' # 0
      BY <2>9 DEF LeaveAllTimer, Typed
    <3>3. Idle(n)
      BY <2>9, <3>1, <3>2 DEF Idle, LeaveAllTimer
    <3> QED
      BY <2>2, <2>9, <3>1, <3>3
  <2>10. CASE Lose(n)
    BY <2>10, LosesWhen
  <2> QED
    BY <2>1, <2>3, <2>4, <2>5, <2>6, <2>7, <2>8, <2>9, <2>10
<1> QED
  BY <1>1, <1>2

\* A station that is quiet about a, in the state s with the frames w, is to hear
\* that its peer forgets, or the peer is to hear of a, or holds it (in the state
\* g) and is not to forget it.
Backed(a, s, v, w, g) ==
    s \in Quiet => Asking(v) \/ SaidSince(a, w) \/ (g = "IN" /\ ~Asking(w))

Heeded ==
    lost = 0 => \A n \in Station, a \in Doms :
        Backed(a, station[n].mrp.app[a], wire[Peer(n)], wire[n],
               station[Peer(n)].mrp.reg[a])

LEMMA TailAsks ==
  ASSUME NEW w \in Seq(FrameSet), w # <<>>, NEW a
  PROVE  /\ Asking(w) <=> AsksAgain(Head(w)) \/ Asking(Tail(w))
         /\ SaidSince(a, w) =>
               SaidSince(a, Tail(w)) \/ (Joins(Head(w), a) /\ ~Asking(Tail(w)))
<1>1. Asking(w) => AsksAgain(Head(w)) \/ Asking(Tail(w))
  BY TailIs DEF Asking
<1>2. AsksAgain(Head(w)) => Asking(w)
  <2>1. 1 \in 1..Len(w)
    BY TailIs
  <2> QED
    BY <2>1, TailIs DEF Asking
<1>3. Asking(Tail(w)) => Asking(w)
  BY TailIs DEF Asking
<1>4. ASSUME SaidSince(a, w)
      PROVE  SaidSince(a, Tail(w)) \/ (Joins(Head(w), a) /\ ~Asking(Tail(w)))
  <2>1. PICK i \in 1..Len(w) :
          Joins(w[i], a) /\ \A j \in 1..Len(w) : j > i => ~AsksAgain(w[j])
    BY <1>4 DEF SaidSince
  <2>2. \A j \in 1..Len(Tail(w)) : j + 1 > i => ~AsksAgain(Tail(w)[j])
    BY <2>1, TailIs
  <2>3. CASE i = 1
    <3>1. \A j \in 1..Len(Tail(w)) : j + 1 > i
      BY <2>3, TailIs
    <3> QED
      BY <2>1, <2>2, <2>3, <3>1, TailIs DEF Asking
  <2>4. CASE i # 1
    <3>1. i - 1 \in 1..Len(Tail(w)) /\ Joins(Tail(w)[i - 1], a)
      BY <2>1, <2>4, TailIs
    <3>2. \A j \in 1..Len(Tail(w)) : j > i - 1 => j + 1 > i
      BY TailIs
    <3> QED
      BY <2>2, <3>1, <3>2 DEF SaidSince
  <2> QED
    BY <2>3, <2>4
<1> QED
  BY <1>1, <1>2, <1>3, <1>4

LEMMA ConcatAsks ==
  ASSUME NEW w \in Seq(FrameSet), NEW F \in Seq(FrameSet), NEW a
  PROVE  /\ Asking(w \o F) <=> Asking(w) \/ Asking(F)
         /\ SaidSince(a, F) => SaidSince(a, w \o F)
         /\ SaidSince(a, w) /\ ~Asking(F) => SaidSince(a, w \o F)
<1>1. \A i \in 1..Len(w \o F) : ~(i > Len(w)) => i \in 1..Len(w)
  BY ConcatIs
<1>2. Asking(w \o F) => Asking(w) \/ Asking(F)
  BY <1>1, ConcatIs DEF Asking
<1>3. Asking(w) => Asking(w \o F)
  BY ConcatIs DEF Asking
<1>4. Asking(F) => Asking(w \o F)
  BY ConcatIs DEF Asking
<1>5. ASSUME SaidSince(a, F) PROVE SaidSince(a, w \o F)
  <2>1. PICK i \in 1..Len(F) :
          Joins(F[i], a) /\ \A j \in 1..Len(F) : j > i => ~AsksAgain(F[j])
    BY <1>5 DEF SaidSince
  <2>2. Len(w) + i \in 1..Len(w \o F) /\ Joins((w \o F)[Len(w) + i], a)
    BY <2>1, ConcatIs
  <2>3. ASSUME NEW j \in 1..Len(w \o F), j > Len(w) + i
        PROVE  ~AsksAgain((w \o F)[j])
    <3>1. j > Len(w) /\ j - Len(w) > i
      BY <2>3, ConcatIs
    <3>2. j - Len(w) \in 1..Len(F) /\ (w \o F)[j] = F[j - Len(w)]
      BY <3>1, ConcatIs
    <3> QED
      BY <2>1, <3>1, <3>2
  <2> QED
    BY <2>2, <2>3 DEF SaidSince
<1>6. ASSUME SaidSince(a, w), ~Asking(F) PROVE SaidSince(a, w \o F)
  <2>1. PICK i \in 1..Len(w) :
          Joins(w[i], a) /\ \A j \in 1..Len(w) : j > i => ~AsksAgain(w[j])
    BY <1>6 DEF SaidSince
  <2>2. i \in 1..Len(w \o F) /\ Joins((w \o F)[i], a)
    BY <2>1, ConcatIs
  <2>3. ASSUME NEW j \in 1..Len(w \o F), j > i
        PROVE  ~AsksAgain((w \o F)[j])
    <3>1. CASE j > Len(w)
      <4>1. j - Len(w) \in 1..Len(F) /\ (w \o F)[j] = F[j - Len(w)]
        BY <3>1, ConcatIs
      <4> QED
        BY <1>6, <4>1 DEF Asking
    <3>2. CASE ~(j > Len(w))
      <4>1. j \in 1..Len(w) /\ (w \o F)[j] = w[j]
        BY <1>1, <3>2, ConcatIs
      <4> QED
        BY <2>1, <2>3, <4>1
    <3> QED
      BY <3>1, <3>2
  <2> QED
    BY <2>2, <2>3 DEF SaidSince
<1> QED
  BY <1>2, <1>3, <1>4, <1>5, <1>6

LEMMA HeededStep ==
  ASSUME Typed, Heeded, NEW n \in Station, \A m \in Station \ {n} : station'[m] = station[m],
         Kind(n)
  PROVE  Heeded'
<1> SUFFICES ASSUME lost' = 0, NEW k \in Station, NEW a \in Doms
             PROVE  Backed(a, station'[k].mrp.app[a], wire'[Peer(k)], wire'[k],
                           station'[Peer(k)].mrp.reg[a])
  BY DEF Heeded
<1>1. PICK m \in Station : m = Peer(n) /\ n = Peer(m) /\ m # n
  BY Peers
<1>2. station'[m] = station[m]
  BY <1>1
<1>3. wire[m] \in Seq(FrameSet) /\ wire[n] \in Seq(FrameSet) /\ lost \in Nat
      /\ wire \in [Station -> Seq(FrameSet)]
  BY DEF Typed
<1>4. k = n \/ k = m
  BY <1>1, Peers
<1> DEFINE sn == station[n].mrp.app[a]
           gn == station[n].mrp.reg[a]
           sm == station[m].mrp.app[a]
           gm == station[m].mrp.reg[a]
           tn == station'[n].mrp.app[a]
           hn == station'[n].mrp.reg[a]
<1>5. SUFFICES ASSUME lost = 0 =>
                        Backed(a, sn, wire[m], wire[n], gm) /\ Backed(a, sm, wire[n], wire[m], gn)
               PROVE  Backed(a, tn, wire'[m], wire'[n], gm) /\ Backed(a, sm, wire'[n], wire'[m], hn)
  BY <1>1, <1>2, <1>4 DEF Heeded
<1>6. CASE Idle(n)
  BY <1>5, <1>6 DEF Idle, Backed
<1>7. CASE Reads(n)
  <2>1. PICK f : f = Head(wire[m])
    OBVIOUS
  <2>2. /\ wire[m] # <<>> /\ wire'[m] = Tail(wire[m]) /\ wire'[n] = wire[n]
        /\ lost = 0 /\ DomainHeard(station[n], f, station'[n], a)
    BY <1>1, <1>3, <1>7, <2>1 DEF Reads
  <2>3. /\ tn \in Quiet => sn \in Quiet /\ ~AsksAgain(f)
        /\ ~AsksAgain(f) /\ gn = "IN" => hn = "IN"
        /\ Joins(f, a) => hn = "IN"
    BY <2>2 DEF DomainHeard
  <2>4. /\ Asking(wire[m]) <=> AsksAgain(f) \/ Asking(wire'[m])
        /\ SaidSince(a, wire[m]) =>
               SaidSince(a, wire'[m]) \/ (Joins(f, a) /\ ~Asking(wire'[m]))
    <3>1. PICK w : w = wire[m]
      OBVIOUS
    <3>2. /\ Asking(w) <=> AsksAgain(Head(w)) \/ Asking(Tail(w))
          /\ SaidSince(a, w) =>
                 SaidSince(a, Tail(w)) \/ (Joins(Head(w), a) /\ ~Asking(Tail(w)))
      BY <1>3, <2>2, <3>1, TailAsks
    <3> QED
      BY <2>1, <2>2, <3>1, <3>2
  <2> HIDE DEF sn, gn, sm, gm, tn, hn
  <2>5. Backed(a, tn, wire'[m], wire'[n], gm)
    BY <1>5, <2>2, <2>3, <2>4 DEF Backed
  <2>6. Backed(a, sm, wire'[n], wire'[m], hn)
    BY <1>5, <2>2, <2>3, <2>4 DEF Backed
  <2> QED
    BY <2>5, <2>6
<1>8. CASE Transmits(n)
  <2>1. PICK F \in Seq(FrameSet) :
          /\ wire' = [wire EXCEPT ![n] = @ \o F] /\ lost' = lost
          /\ DomainSent(station[n], F, station'[n], a)
    BY <1>8 DEF Transmits
  <2>2. wire'[n] = wire[n] \o F /\ wire'[m] = wire[m] /\ lost = 0
    BY <1>1, <1>3, <2>1
  <2>3. /\ tn \in Quiet => SaidSince(a, F) \/ (sn = "QA" /\ ~Asking(F))
        /\ ~Asking(F) => hn = gn
    BY <2>1 DEF DomainSent
  <2>4. /\ Asking(wire'[n]) <=> Asking(wire[n]) \/ Asking(F)
        /\ SaidSince(a, F) => SaidSince(a, wire'[n])
        /\ SaidSince(a, wire[n]) /\ ~Asking(F) => SaidSince(a, wire'[n])
    BY <1>3, <2>2, ConcatAsks
  <2> HIDE DEF sn, gn, sm, gm, tn, hn
  <2>5. Backed(a, tn, wire'[m], wire'[n], gm)
    <3>1. sn = "QA" => sn \in Quiet
      BY DEF Quiet
    <3> QED
      BY <1>5, <2>2, <2>3, <2>4, <3>1 DEF Backed
  <2>6. Backed(a, sm, wire'[n], wire'[m], hn)
    BY <1>5, <2>2, <2>3, <2>4 DEF Backed
  <2> QED
    BY <2>5, <2>6
<1>9. CASE Loses(n)
  BY <1>3, <1>9 DEF Loses
<1> QED
  BY <1>6, <1>7, <1>8, <1>9 DEF Kind

\* While no LeaveAll was ever asked for, what is registered stays so, and a station
\* that says it holds a domain does.
Unasked(q, w) ==
    /\ q.mrp.la = "Passive" /\ ~Asking(w)
    /\ \A a \in Doms :
          /\ q.mrp.reg[a] # "LV"
          /\ \A i \in 1..Len(w) : Approves(w[i], a) => q.mrp.reg[a] # "MT"

\* A first declaration was sent, or a second too, unless the peer holds it.
Owed(a, s, w, l) ==
    /\ s \in {"AN", "AA"} => l >= 1 \/ One(w, a)
    /\ s = "QA" => l >= 2 \/ (l >= 1 /\ One(w, a)) \/ Two(w, a)

Counted(a, s, w, l, g) == g # "MT" \/ Owed(a, s, w, l)

Remembered ==
    leaveAlls = 0 =>
        /\ \A n \in Station : Unasked(station[n], wire[n])
        /\ \A n \in Station, a \in Doms :
              Counted(a, station[n].mrp.app[a], wire[n], lost, station[Peer(n)].mrp.reg[a])

LEMMA OwedTail ==
  ASSUME NEW a, NEW s, NEW w \in Seq(FrameSet), w # <<>>, NEW l \in Nat, Owed(a, s, w, l)
  PROVE  /\ Owed(a, s, Tail(w), l + 1)
         /\ ~Joins(Head(w), a) => Owed(a, s, Tail(w), l)
BY TailSays DEF Owed

LEMMA OwedHeard ==
  ASSUME NEW a, NEW s, NEW t, NEW w, NEW l \in Nat, Owed(a, s, w, l),
         t = "QA" => s = "QA", t = "AA" => s \in {"AA", "QA"}, t = "AN" => s = "AN"
  PROVE  Owed(a, t, w, l)
<1>1. Two(w, a) => One(w, a)
  BY DEF Two, One
<1> QED
  BY <1>1 DEF Owed

LEMMA OwedSent ==
  ASSUME NEW a, NEW s, NEW t, NEW w \in Seq(FrameSet), NEW F \in Seq(FrameSet),
         NEW l \in Nat, Owed(a, s, w, l),
         t \in {"AN", "AA"} => One(F, a),
         t = "QA" => s = "QA" \/ (s \in {"AN", "AA"} /\ One(F, a))
  PROVE  Owed(a, t, w \o F, l)
BY ConcatSays DEF Owed

\* No step of a station that no LeaveAll was asked of makes it forget a domain.
LEMMA UnaskedStep ==
  ASSUME Typed, Remembered, NEW n \in Station,
         \A m \in Station \ {n} : station'[m] = station[m],
         Kind(n), leaveAlls' = 0
  PROVE  /\ leaveAlls = 0 /\ \A m \in Station : Unasked(station'[m], wire'[m])
         /\ \A m \in Station, a \in Doms :
               station[m].mrp.reg[a] # "MT" => station'[m].mrp.reg[a] # "MT"
<1>1. PICK m \in Station : m = Peer(n) /\ n = Peer(m) /\ m # n
  BY Peers
<1>2. station'[m] = station[m]
  BY <1>1
<1>3. /\ wire[m] \in Seq(FrameSet) /\ wire[n] \in Seq(FrameSet)
      /\ wire \in [Station -> Seq(FrameSet)]
  BY DEF Typed
<1>4. leaveAlls = 0
  BY DEF Kind, Idle, Reads, Transmits, Loses
<1>5. Unasked(station[n], wire[n]) /\ Unasked(station[m], wire[m])
  BY <1>4 DEF Remembered
<1>6. SUFFICES /\ Unasked(station'[n], wire'[n]) /\ Unasked(station[m], wire'[m])
               /\ \A a \in Doms : station[n].mrp.reg[a] # "MT" => station'[n].mrp.reg[a] # "MT"
  <2>1. \A k \in Station : k = n \/ k = m
    BY <1>1, Peers
  <2> QED
    BY <1>2, <1>4, <2>1
<1>7. CASE Idle(n)
  <2>1. \A a \in Doms : station'[n].mrp.reg[a] = station[n].mrp.reg[a]
    BY <1>5, <1>7 DEF Idle, Unasked
  <2> QED
    BY <1>5, <1>7, <2>1 DEF Idle, Unasked
<1>8. CASE Reads(n)
  <2>1. PICK f : f = Head(wire[m])
    OBVIOUS
  <2>2. /\ wire[m] # <<>> /\ wire'[m] = Tail(wire[m]) /\ wire'[n] = wire[n]
        /\ station'[n].mrp.la = "Passive"
        /\ \A a \in Doms : DomainHeard(station[n], f, station'[n], a)
    BY <1>1, <1>3, <1>5, <1>8, <2>1 DEF Reads, Unasked
  <2>3. ~AsksAgain(f) /\ ~Asking(wire'[m])
    BY <1>3, <1>5, <2>1, <2>2, TailAsks DEF Unasked
  <2>4. \A a \in Doms :
          /\ station[n].mrp.reg[a] # "MT" => station'[n].mrp.reg[a] # "MT"
          /\ station[n].mrp.reg[a] # "LV" => station'[n].mrp.reg[a] # "LV"
    BY <2>2, <2>3 DEF DomainHeard
  <2>5. Unasked(station[m], wire'[m])
    <3>1. \A a \in Doms, i \in 1..Len(wire'[m]) :
            Approves(wire'[m][i], a) => station[m].mrp.reg[a] # "MT"
      BY <1>3, <1>5, <2>2, TailIs DEF Unasked
    <3> QED
      BY <1>5, <2>3, <3>1 DEF Unasked
  <2>6. Unasked(station'[n], wire'[n])
    BY <1>5, <2>2, <2>4 DEF Unasked
  <2> QED
    BY <2>4, <2>5, <2>6
<1>9. CASE Transmits(n)
  <2>1. PICK F \in Seq(FrameSet) :
          /\ wire' = [wire EXCEPT ![n] = @ \o F]
          /\ station'[n].mrp.la = "Passive"
          /\ station[n].mrp.la # "Active" => ~Asking(F)
          /\ \A a \in Doms : DomainSent(station[n], F, station'[n], a)
    BY <1>9 DEF Transmits
  <2>2. wire'[n] = wire[n] \o F /\ wire'[m] = wire[m]
    BY <1>1, <1>3, <2>1
  <2>3. station[n].mrp.la # "Active" /\ ~Asking(F) /\ ~Asking(wire'[n])
    BY <1>3, <1>5, <2>1, <2>2, ConcatAsks DEF Unasked
  <2>4. \A a \in Doms :
          /\ station'[n].mrp.reg[a] = station[n].mrp.reg[a]
          /\ \A i \in 1..Len(F) : Approves(F[i], a) => station[n].mrp.reg[a] # "MT"
    BY <2>1, <2>3 DEF DomainSent
  <2>5. ASSUME NEW a \in Doms, NEW i \in 1..Len(wire'[n]), Approves(wire'[n][i], a)
        PROVE  station[n].mrp.reg[a] # "MT"
    <3>1. CASE i > Len(wire[n])
      BY <1>3, <2>2, <2>4, <2>5, <3>1, ConcatIs
    <3>2. CASE ~(i > Len(wire[n]))
      <4>1. i \in 1..Len(wire[n])
        BY <1>3, <2>2, <3>2, ConcatIs
      <4> QED
        BY <1>3, <1>5, <2>2, <2>5, <4>1, ConcatIs DEF Unasked
    <3> QED
      BY <3>1, <3>2
  <2>6. Unasked(station'[n], wire'[n])
    BY <1>5, <2>1, <2>3, <2>4, <2>5 DEF Unasked
  <2> QED
    BY <1>5, <2>2, <2>4, <2>6
<1>10. CASE Loses(n)
  <2>1. /\ wire[n] # <<>> /\ wire'[n] = Tail(wire[n]) /\ wire'[m] = wire[m]
        /\ station'[n] = station[n]
    BY <1>1, <1>3, <1>10 DEF Loses
  <2>2. ~Asking(wire'[n])
    BY <1>3, <1>5, <2>1, TailAsks DEF Unasked
  <2>3. \A a \in Doms, i \in 1..Len(wire'[n]) :
          Approves(wire'[n][i], a) => station[n].mrp.reg[a] # "MT"
    BY <1>3, <1>5, <2>1, TailIs DEF Unasked
  <2> QED
    BY <1>5, <2>1, <2>2, <2>3 DEF Unasked
<1> QED
  BY <1>7, <1>8, <1>9, <1>10 DEF Kind

LEMMA RememberedStep ==
  ASSUME Typed, Remembered, NEW n \in Station,
         \A m \in Station \ {n} : station'[m] = station[m],
         Kind(n)
  PROVE  Remembered'
<1> SUFFICES ASSUME leaveAlls' = 0
             PROVE  /\ \A m \in Station : Unasked(station'[m], wire'[m])
                    /\ \A k \in Station, a \in Doms :
                          Counted(a, station'[k].mrp.app[a], wire'[k], lost',
                                  station'[Peer(k)].mrp.reg[a])
  BY DEF Remembered
<1>1. PICK m \in Station : m = Peer(n) /\ n = Peer(m) /\ m # n
  BY Peers
<1>2. station'[m] = station[m]
  BY <1>1
<1>3. /\ wire[m] \in Seq(FrameSet) /\ wire[n] \in Seq(FrameSet) /\ lost \in Nat
      /\ wire \in [Station -> Seq(FrameSet)]
  BY DEF Typed
<1>4. /\ leaveAlls = 0 /\ \A k \in Station : Unasked(station'[k], wire'[k])
      /\ \A k \in Station, a \in Doms :
               station[k].mrp.reg[a] # "MT" => station'[k].mrp.reg[a] # "MT"
  BY UnaskedStep
<1>5. Unasked(station[n], wire[n]) /\ Unasked(station[m], wire[m])
  BY <1>4 DEF Remembered
<1>6. ASSUME NEW k \in Station, NEW a \in Doms
      PROVE  Counted(a, station'[k].mrp.app[a], wire'[k], lost', station'[Peer(k)].mrp.reg[a])
  <2> DEFINE sn == station[n].mrp.app[a]
             gn == station[n].mrp.reg[a]
             sm == station[m].mrp.app[a]
             gm == station[m].mrp.reg[a]
             tn == station'[n].mrp.app[a]
             hn == station'[n].mrp.reg[a]
  <2>1. k = n \/ k = m
    BY <1>1, Peers
  <2>2. (gn # "MT" => hn # "MT") /\ station'[m].mrp.reg[a] = gm /\ station'[m].mrp.app[a] = sm
    BY <1>2, <1>4
  <2>3. Counted(a, sn, wire[n], lost, gm) /\ Counted(a, sm, wire[m], lost, gn)
    BY <1>1, <1>4 DEF Remembered
  <2>4. SUFFICES Counted(a, tn, wire'[n], lost', gm) /\ Counted(a, sm, wire'[m], lost', hn)
    BY <1>1, <2>1, <2>2
  <2>5. CASE Idle(n)
    BY <2>2, <2>3, <2>5 DEF Idle, Counted
  <2>6. CASE Reads(n)
    <3>1. PICK f : f = Head(wire[m])
      OBVIOUS
    <3>2. /\ wire[m] # <<>> /\ wire'[m] = Tail(wire[m]) /\ wire'[n] = wire[n]
          /\ lost' = lost /\ DomainHeard(station[n], f, station'[n], a)
      BY <1>1, <1>3, <2>6, <3>1 DEF Reads
    <3>3. /\ Joins(f, a) => hn = "IN"
          /\ ~Approves(f, a) => /\ tn = "QA" => sn = "QA"
                                /\ tn = "AA" => sn \in {"AA", "QA"}
                                /\ tn = "AN" => sn = "AN"
      BY <3>2 DEF DomainHeard
    <3>4. Approves(f, a) => gm # "MT"
      <4>1. 1 \in 1..Len(wire[m]) /\ f = wire[m][1]
        BY <1>3, <3>1, <3>2, TailIs
      <4> QED
        BY <1>5, <4>1 DEF Unasked
    <3> HIDE DEF sn, gn, sm, gm, tn, hn
    <3>5. Counted(a, tn, wire'[n], lost', gm)
      BY <1>3, <2>3, <3>2, <3>3, <3>4, OwedHeard DEF Counted
    <3>6. Counted(a, sm, wire'[m], lost', hn)
      BY <1>3, <2>2, <2>3, <3>1, <3>2, <3>3, OwedTail DEF Counted
    <3> QED
      BY <3>5, <3>6
  <2>7. CASE Transmits(n)
    <3>1. PICK F \in Seq(FrameSet) :
            /\ wire' = [wire EXCEPT ![n] = @ \o F] /\ lost' = lost
            /\ DomainSent(station[n], F, station'[n], a)
      BY <2>7 DEF Transmits
    <3>2. wire'[n] = wire[n] \o F /\ wire'[m] = wire[m]
      BY <1>1, <1>3, <3>1
    <3>3. /\ tn \in {"AN", "AA"} => One(F, a)
          /\ tn = "QA" => sn = "QA" \/ (sn \in {"AN", "AA"} /\ One(F, a))
      BY <1>5, <3>1 DEF DomainSent, Unasked
    <3> HIDE DEF sn, gn, sm, gm, tn, hn
    <3>4. Counted(a, tn, wire'[n], lost', gm)
      BY <1>3, <2>3, <3>1, <3>2, <3>3, OwedSent DEF Counted
    <3> QED
      BY <2>2, <2>3, <3>1, <3>2, <3>4 DEF Counted
  <2>8. CASE Loses(n)
    <3>1. /\ wire[n] # <<>> /\ wire'[n] = Tail(wire[n]) /\ wire'[m] = wire[m]
          /\ tn = sn /\ lost' = lost + 1
      BY <1>1, <1>3, <2>8 DEF Loses
    <3> HIDE DEF sn, gn, sm, gm, tn, hn
    <3>2. Counted(a, tn, wire'[n], lost', gm)
      BY <1>3, <2>3, <3>1, OwedTail DEF Counted
    <3>3. Counted(a, sm, wire'[m], lost', hn)
      BY <1>3, <2>2, <2>3, <3>1 DEF Counted, Owed
    <3> QED
      BY <3>2, <3>3
  <2> QED
    BY <2>5, <2>6, <2>7, <2>8, UnaskedStep DEF Kind
<1> QED
  BY <1>4, <1>6

DomainInv == AllHeld /\ Heeded /\ Remembered

LEMMA DomainInit ==
  ASSUME Init
  PROVE  DomainInv
<1>1. ASSUME NEW n \in Station
      PROVE  /\ station[n].mrp.la = "Passive" /\ wire[n] = <<>>
             /\ \A a \in Doms : /\ station[n].mrp.reg[a] = "MT"
                                /\ station[n].mrp.app[a] \in {"VN", "VO"}
  BY StartedIs, DomsAre DEF Init, Fresh
<1>2. Len(<<>>) = 0 /\ \A i \in 1..0 : FALSE
  OBVIOUS
<1>3. AllHeld
  BY <1>1, <1>2 DEF AllHeld, Held
<1>4. Heeded
  BY <1>1 DEF Heeded, Backed, Quiet
<1>5. Remembered
  BY <1>1, <1>2, Peers DEF Remembered, Unasked, Asking, Counted, Owed
<1> QED
  BY <1>3, <1>4, <1>5 DEF DomainInv

LEMMA DomainStep ==
  ASSUME Typed, DomainInv, [Next]_vars
  PROVE  DomainInv'
<1>1. AllHeld' /\ \E n \in Station : /\ \A m \in Station \ {n} : station'[m] = station[m]
                                     /\ Kind(n)
  BY DomainSteps DEF DomainInv
<1> QED
  BY <1>1, HeededStep, RememberedStep DEF DomainInv

\* A station falls quiet about a domain only when its peer has registered it, a
\* frame that declares it is under way, or the peer has asked for all domains
\* again, for any number of LeaveAlls when no frame was lost, and when one was
\* as long as no LeaveAll was sent.
THEOREM QuietStationIsRegistered == Spec => []QuietIsRegistered
<1>1. Typed /\ DomainInv => QuietIsRegistered
  <2> SUFFICES ASSUME Typed, DomainInv, lost = 0 \/ (lost = 1 /\ leaveAlls = 0),
                      NEW n \in Station, NEW d \in Domain, NEW a, a = DomainOf(d),
                      station[n].mrp.app[a] = "QA"
               PROVE  Registers(Peer(n), a) \/ Said(n, a) \/ AskedAgain(n, a)
    BY DEF QuietIsRegistered
  <2>1. a \in Doms /\ a.type = "Domain"
    BY Attributes DEF Doms, OfType
  <2>2. PICK v, w : /\ v = wire[Peer(n)] /\ w = wire[n]
                    /\ v \in Seq(FrameSet) /\ w \in Seq(FrameSet)
    BY Peers DEF Typed
  <2>3. One(w, a) => Said(n, a)
    <3> SUFFICES ASSUME NEW i \in 1..Len(w), Joins(w[i], a)
                 PROVE  Said(n, a)
      BY DEF One
    <3>1. w[i] \in ToSet(w)
      BY <2>2 DEF ToSet
    <3> QED
      BY <2>2, <3>1 DEF Said, UnderWay, Joins
  <2>4. SaidSince(a, w) \/ Two(w, a) => One(w, a)
    BY DEF SaidSince, Two, One
  <2>5. Asking(v) => AskedAgain(n, a)
    <3> SUFFICES ASSUME NEW i \in 1..Len(v), AsksAgain(v[i])
                 PROVE  AskedAgain(n, a)
      BY DEF Asking
    <3>1. v[i] \in ToSet(v)
      BY <2>2 DEF ToSet
    <3> QED
      BY <2>1, <2>2, <3>1 DEF AskedAgain, UnderWay, AsksAgain
  <2>6. CASE lost = 0
    <3>1. \/ Asking(v) \/ SaidSince(a, w) \/ station[Peer(n)].mrp.reg[a] = "IN"
      BY <2>1, <2>2, <2>6 DEF DomainInv, Heeded, Backed, Quiet
    <3> QED
      BY <2>3, <2>4, <2>5, <3>1 DEF Registers
  <2>7. CASE lost = 1 /\ leaveAlls = 0
    <3>1. station[Peer(n)].mrp.reg[a] # "MT" \/ Owed(a, "QA", w, lost)
      BY <2>1, <2>2, <2>7 DEF DomainInv, Remembered, Counted
    <3>2. Owed(a, "QA", w, lost) => One(w, a)
      BY <2>4, <2>7 DEF Owed
    <3> QED
      BY <2>3, <3>1, <3>2 DEF Registers
  <2> QED
    BY <2>6, <2>7
<1>2. Init => Typed /\ AllFollow /\ DomainInv
  BY InitTyped, DomainInit
<1>3. Typed /\ AllFollow /\ DomainInv /\ [Next]_vars => (Typed /\ AllFollow /\ DomainInv)'
  BY FollowStep, DomainStep
<1> QED
  BY <1>1, <1>2, <1>3, PTL DEF Spec
=============================================================================
