---------------------------- MODULE EntityProofs ----------------------------
(***************************************************************************)
(* Proofs about Entity: whatever is lost, repeated or late, at most one    *)
(* controller believes that it owns the entity, and the table of any size  *)
(* implements the abstract Directory.                                      *)
(***************************************************************************)
EXTENDS Entity, FiniteSetTheorems, WellFoundedInduction, TLAPS

-----------------------------------------------------------------------------
(***************************************************************************)
(* Acquisition.  What is under way of a controller are its answers, then   *)
(* its commands, oldest first.  The invariant says that the identifiers    *)
(* tell the outstanding command from the ones before it: the answers that  *)
(* carry its identifier are answers to it, and an older command, which     *)
(* could still release the entity, never follows one of them.              *)
(***************************************************************************)
Statuses == {"SUCCESS", "ENTITY_ACQUIRED", "NOT_SUPPORTED"}
OwnerAnswers == [id : {0, 1}, status : Statuses, value : Controller \cup {None},
                 stale : BOOLEAN]

Typed ==
    /\ owner \in Controller \cup {None}
    /\ DOMAIN command = Controller /\ DOMAIN answer = Controller
    /\ DOMAIN pending = Controller /\ DOMAIN believes = Owners

OwnerTyped(c) ==
    /\ command[c] \in Seq(OwnerCommands)
    /\ answer[c] \in Seq(OwnerAnswers)
    /\ pending[c] \in OwnerCommands \cup {None}
    /\ believes[c] \in BOOLEAN

\* Once something under way is of the outstanding command, the rest is.
Later(K, A, p) ==
    /\ \A i, j \in DOMAIN A : i < j /\ A[i].id = p.id => A[j].id = p.id
    /\ \A i \in DOMAIN A, j \in DOMAIN K : A[i].id = p.id => K[j].id = p.id
    /\ \A i, j \in DOMAIN K : i < j /\ K[i].id = p.id => K[j].id = p.id

\* Nothing outstanding: all that is under way is of the last command.
Alike(K, A) ==
    /\ \A i, j \in DOMAIN A : A[i].id = A[j].id
    /\ \A i \in DOMAIN A, j \in DOMAIN K : A[i].id = K[j].id
    /\ \A i, j \in DOMAIN K : K[i].id = K[j].id

Identified(c) ==
    /\ pending[c] = None => Alike(command[c], answer[c])
    /\ pending[c] # None =>
          /\ Later(command[c], answer[c], pending[c])
          /\ \A j \in DOMAIN command[c] :
                command[c][j].id = pending[c].id => command[c][j] = pending[c]

\* An owner has no release under way or outstanding.
Keeps(c) ==
    believes[c] =>
        /\ owner = c
        /\ \A j \in DOMAIN command[c] : command[c][j].op # "RELEASE"
        /\ pending[c] # None => pending[c].op # "RELEASE"

\* A fresh success of the outstanding acquisition is true when it arrives.
Truthful(c) ==
    pending[c] # None /\ pending[c].op = "ACQUIRE" =>
        \A i \in DOMAIN answer[c] :
            /\ answer[c][i].id = pending[c].id
            /\ answer[c][i].status = "SUCCESS" /\ ~answer[c][i].stale
            => owner = c

OwnerInv(c) == OwnerTyped(c) /\ Identified(c) /\ Keeps(c) /\ Truthful(c)

IInv == Typed /\ \A c \in Owners : OwnerInv(c)

LEMMA OwnerInit == Init => IInv
<1> SUFFICES ASSUME Init PROVE IInv
  OBVIOUS
<1> USE DEF Init
<1>1. Typed
  BY DEF Typed, Controller
<1>2. ASSUME NEW c \in Owners PROVE OwnerInv(c)
  BY DEF OwnerInv, OwnerTyped, Identified, Keeps, Truthful, Alike, Controller
<1> QED
  BY <1>1, <1>2 DEF IInv

\* What a step leaves of c: nothing changes but who else is the owner.
Untouched(c) ==
    /\ command'[c] = command[c] /\ answer'[c] = answer[c]
    /\ pending'[c] = pending[c] /\ believes'[c] = believes[c]
    /\ owner = c => owner' = c

LEMMA UntouchedKeeps ==
  ASSUME IInv, NEW c \in Owners, Untouched(c)
  PROVE  OwnerInv(c)'
<1> USE DEF IInv, Untouched
<1>1. Identified(c)'
  BY DEF OwnerInv, Identified
<1>2. Keeps(c)'
  BY DEF OwnerInv, Keeps
<1>3. Truthful(c)'
  BY DEF OwnerInv, Truthful
<1>4. OwnerTyped(c)'
  BY DEF OwnerInv, OwnerTyped
<1> QED
  BY <1>1, <1>2, <1>3, <1>4 DEF OwnerInv

\* The domain of the controllers' sequences, and what Tail and Append do.
LEMMA Shorter ==
  ASSUME NEW S, NEW s \in Seq(S), s # <<>>
  PROVE  /\ Tail(s) \in Seq(S) /\ Head(s) \in S /\ Head(s) = s[1]
         /\ 1 \in DOMAIN s
         /\ \A i \in DOMAIN Tail(s) : i \in Nat /\ i >= 1 /\ i + 1 \in DOMAIN s /\ Tail(s)[i] = s[i + 1]
OBVIOUS

LEMMA Longer ==
  ASSUME NEW S, NEW s \in Seq(S), NEW x \in S, NEW t, t = Append(s, x)
  PROVE  /\ t \in Seq(S)
         /\ \A i \in DOMAIN t : \/ i \in DOMAIN s /\ t[i] = s[i]
                                \/ i = Len(s) + 1 /\ t[i] = x
         /\ \A i \in DOMAIN s : i \in Nat /\ i < Len(s) + 1
         /\ Len(s) \in Nat
OBVIOUS

(***************************************************************************)
(* The ways in which what is under way of c changes.                       *)
(***************************************************************************)
\* A frame is lost.
LEMMA LosesCommand ==
  ASSUME IInv, NEW c \in Owners, command[c] # <<>>,
         command'[c] = Tail(command[c]),
         UNCHANGED <<owner, answer, pending, believes>>
  PROVE  OwnerInv(c)'
<1> DEFINE K == command[c]
<1>1. K \in Seq(OwnerCommands)
  BY DEF IInv, Typed, OwnerInv, OwnerTyped
<1>2. \A i \in DOMAIN Tail(K) : i \in Nat /\ i + 1 \in DOMAIN K /\ Tail(K)[i] = K[i + 1]
  BY <1>1, Shorter
<1>3. OwnerInv(c)
  BY DEF IInv
<1> HIDE DEF K
<1>4. Identified(c)'
  BY <1>2, <1>3 DEF OwnerInv, Identified, Later, Alike, K
<1>5. Keeps(c)'
  BY <1>2, <1>3 DEF OwnerInv, Keeps, K
<1>6. Truthful(c)'
  BY <1>3 DEF OwnerInv, Truthful
<1>7. OwnerTyped(c)'
  BY <1>3, Shorter DEF OwnerInv, OwnerTyped
<1> QED
  BY <1>4, <1>5, <1>6, <1>7 DEF OwnerInv

LEMMA LosesAnswer ==
  ASSUME IInv, NEW c \in Owners, answer[c] # <<>>,
         answer'[c] = Tail(answer[c]),
         UNCHANGED <<owner, command, pending, believes>>
  PROVE  OwnerInv(c)'
<1> DEFINE A == answer[c]
<1>1. A \in Seq(OwnerAnswers)
  BY DEF IInv, Typed, OwnerInv, OwnerTyped
<1>2. \A i \in DOMAIN Tail(A) : i \in Nat /\ i + 1 \in DOMAIN A /\ Tail(A)[i] = A[i + 1]
  BY <1>1, Shorter
<1>3. OwnerInv(c)
  BY DEF IInv
<1> HIDE DEF A
<1>4. Identified(c)'
  BY <1>2, <1>3 DEF OwnerInv, Identified, Later, Alike, A
<1>5. Keeps(c)'
  BY <1>3 DEF OwnerInv, Keeps
<1>6. Truthful(c)'
  BY <1>2, <1>3 DEF OwnerInv, Truthful, A
<1>7. OwnerTyped(c)'
  BY <1>3, Shorter DEF OwnerInv, OwnerTyped
<1> QED
  BY <1>4, <1>5, <1>6, <1>7 DEF OwnerInv

\* A restart: what is under way is answers, all of them stale.
LEMMA RestartKeeps ==
  ASSUME IInv, NEW c \in Owners, Restarts, UNCHANGED pending
  PROVE  OwnerInv(c)'
<1> DEFINE A == answer[c]
<1>1. A \in Seq(OwnerAnswers) /\ c \in Controller
  BY DEF IInv, Typed, OwnerInv, OwnerTyped, Controller
<1>2. /\ command'[c] = <<>> /\ believes'[c] = FALSE
      /\ answer'[c] = [i \in DOMAIN A |-> [A[i] EXCEPT !.stale = TRUE]]
  BY <1>1 DEF Restarts
<1> DEFINE Old(a) == [a EXCEPT !.stale = TRUE]
<1>3. \A i \in DOMAIN A : /\ answer'[c][i] \in OwnerAnswers
                          /\ answer'[c][i].id = A[i].id /\ answer'[c][i].stale
  <2>1. ASSUME NEW a \in OwnerAnswers
        PROVE  Old(a) \in OwnerAnswers /\ Old(a).id = a.id /\ Old(a).stale
    BY DEF OwnerAnswers
  <2>2. \A i \in DOMAIN A : A[i] \in OwnerAnswers
    BY <1>1
  <2>3. \A i \in DOMAIN A : answer'[c][i] = Old(A[i])
    BY <1>2
  <2> HIDE DEF A, Old
  <2> QED
    BY <2>1, <2>2, <2>3
<1>4. DOMAIN answer'[c] = DOMAIN A
  BY <1>2
<1>5. OwnerInv(c)
  BY DEF IInv
<1> HIDE DEF A
<1>6. Identified(c)'
  BY <1>2, <1>3, <1>4, <1>5 DEF OwnerInv, Identified, Later, Alike, A
<1>7. Keeps(c)'
  BY <1>2 DEF Keeps
<1>8. Truthful(c)'
  BY <1>3, <1>4 DEF Truthful
<1>9. OwnerTyped(c)'
  <2>1. Len(A) \in Nat /\ DOMAIN A = 1..Len(A)
    BY <1>1
  <2>2. answer'[c] \in Seq(OwnerAnswers)
    BY <2>1, <1>2, <1>3
  <2> QED
    <3>1. command'[c] \in Seq(OwnerCommands) /\ believes'[c] \in BOOLEAN
      <4>1. command'[c] = <<>> /\ believes'[c] = FALSE
        BY <1>2
      <4>2. <<>> \in Seq(OwnerCommands)
        OBVIOUS
      <4>3. command'[c] \in Seq(OwnerCommands)
        BY <4>1, <4>2, Zenon
      <4>4. believes'[c] \in BOOLEAN
        BY <4>1
      <4> QED
        BY <4>3, <4>4
    <3>2. pending'[c] \in OwnerCommands \cup {None}
      BY <1>5 DEF OwnerInv, OwnerTyped
    <3> QED
      BY <2>2, <3>1, <3>2 DEF OwnerTyped
<1> QED
  BY <1>6, <1>7, <1>8, <1>9 DEF OwnerInv

\* The handlers of ACQUIRE_ENTITY: the oldest command is answered.
LEMMA HandledKeeps ==
  ASSUME IInv, NEW c \in Owners, Acquire(c) \/ Release(c) \/ AcquireOther(c)
  PROVE  OwnerInv(c)'
<1> DEFINE K == command[c]
           A == answer[c]
           k == Head(K)
           p == pending[c]
<1>1. K \in Seq(OwnerCommands) /\ A \in Seq(OwnerAnswers) /\ c \in Controller
  BY DEF IInv, Typed, OwnerInv, OwnerTyped, Controller
<1>0. Acquire(c) \/ Release(c) \/ AcquireOther(c)
  OBVIOUS
<1>2. K # <<>> /\ k.op \in {"ACQUIRE", "RELEASE", "ACQUIRE_OTHER"}
  BY DEF Acquire, Release, AcquireOther, Command
<1>3. UNCHANGED <<pending, believes>>
  BY DEF Acquire, Release, AcquireOther, Unasked, asked
<1>4. command'[c] = Tail(K)
  BY <1>1 DEF Acquire, Release, AcquireOther, Consumes, IInv, Typed, OwnerInv, OwnerTyped
<1>5. PICK a \in OwnerAnswers :
               /\ answer'[c] = Append(A, a)
               /\ a.id = k.id
               /\ a.status = "SUCCESS" => k.op # "ACQUIRE_OTHER"
               /\ a.status = "SUCCESS" /\ k.op = "ACQUIRE" => owner' = c
               /\ owner = c /\ k.op # "RELEASE" => owner' = c
  <2> DEFINE new(status, value) ==
               [id |-> k.id, status |-> status, value |-> value, stale |-> FALSE]
  <2>1. k \in OwnerCommands
    BY <1>1, <1>2, Shorter
  <2>2. ASSUME NEW status \in Statuses, NEW value \in Controller \cup {None}
        PROVE  /\ new(status, value) \in OwnerAnswers
               /\ new(status, value).id = k.id /\ new(status, value).status = status
    BY <2>1 DEF OwnerAnswers, OwnerCommands
  <2>3. ASSUME NEW status, NEW value, Answers(c, status, value)
        PROVE  answer'[c] = Append(A, new(status, value))
    BY <2>3, <1>1 DEF Answers, IInv, Typed, OwnerInv, OwnerTyped
  <2>4. owner \in Controller \cup {None}
    BY DEF IInv, Typed, OwnerInv, OwnerTyped
  <2> HIDE DEF new, k, A
  <2>5. /\ "SUCCESS" \in Statuses /\ "ENTITY_ACQUIRED" \in Statuses
        /\ "NOT_SUPPORTED" \in Statuses
    BY DEF Statuses
  <2> HIDE DEF new, k, A
  <2>6. CASE Acquire(c) /\ owner \in {None, c}
    <3>1. k.op = "ACQUIRE" /\ owner' = c /\ Answers(c, "SUCCESS", c)
      BY <2>6 DEF Acquire, Command, k
    <3>2. answer'[c] = Append(A, new("SUCCESS", c))
      BY <2>3, <3>1
    <3> QED
      BY <2>2, <2>5, <3>1, <3>2, <1>1
  <2>7. CASE Acquire(c) /\ owner \notin {None, c}
    <3>1. Answers(c, "ENTITY_ACQUIRED", owner)
      BY <2>7 DEF Acquire
    <3>2. answer'[c] = Append(A, new("ENTITY_ACQUIRED", owner))
      BY <2>3, <3>1
    <3> QED
      BY <2>2, <2>4, <2>5, <2>7, <3>2
  <2>8. CASE Release(c) /\ owner \in {None, c}
    <3>1. k.op = "RELEASE" /\ Answers(c, "SUCCESS", None)
      BY <2>8 DEF Release, Command, k
    <3>2. answer'[c] = Append(A, new("SUCCESS", None))
      BY <2>3, <3>1
    <3> QED
      BY <2>2, <2>5, <3>1, <3>2
  <2>9. CASE Release(c) /\ owner \notin {None, c}
    <3>1. k.op = "RELEASE" /\ Answers(c, "ENTITY_ACQUIRED", owner)
      BY <2>9 DEF Release, Command, k
    <3>2. answer'[c] = Append(A, new("ENTITY_ACQUIRED", owner))
      BY <2>3, <3>1
    <3> QED
      BY <2>2, <2>4, <2>5, <3>1, <3>2
  <2>10. CASE AcquireOther(c)
    <3>1. owner' = owner /\ Answers(c, "NOT_SUPPORTED", owner)
      BY <2>10 DEF AcquireOther, served
    <3>2. answer'[c] = Append(A, new("NOT_SUPPORTED", owner))
      BY <2>3, <3>1
    <3> QED
      BY <2>2, <2>4, <2>5, <3>1, <3>2
  <2> QED
    BY <1>0, <2>6, <2>7, <2>8, <2>9, <2>10
<1>6. /\ k = K[1] /\ 1 \in DOMAIN K
      /\ \A i \in DOMAIN Tail(K) : i \in Nat /\ i >= 1 /\ i + 1 \in DOMAIN K /\ Tail(K)[i] = K[i + 1]
  BY <1>1, <1>2, Shorter
<1> DEFINE B == answer'[c]
<1>7. /\ \A i \in DOMAIN B : \/ i \in DOMAIN A /\ B[i] = A[i]
                             \/ i = Len(A) + 1 /\ B[i] = a
      /\ \A i \in DOMAIN A : i \in Nat /\ i < Len(A) + 1
      /\ Len(A) \in Nat
  <2>1. A \in Seq(OwnerAnswers) /\ a \in OwnerAnswers /\ B = Append(A, a)
    BY <1>1, <1>5
  <2> HIDE DEF A, B
  <2> QED
    BY <2>1, Longer
<1>8. OwnerInv(c)
  BY DEF IInv
<1> HIDE DEF K, A, B, k, p
<1>9. Identified(c)'
  <2>1. CASE p = None
    <3>1. Alike(K, A)
      BY <2>1, <1>8 DEF OwnerInv, Identified, K, A, p
    <3>2. Alike(Tail(K), B)
      BY <3>1, <1>5, <1>6, <1>7 DEF Alike
    <3> QED
      BY <3>2, <2>1, <1>3, <1>4, <1>5 DEF Identified, p, B
  <2>2. CASE p # None
    <3>1. /\ Later(K, A, p)
          /\ \A j \in DOMAIN K : K[j].id = p.id => K[j] = p
      BY <2>2, <1>8 DEF OwnerInv, Identified, K, A, p
    <3>2. Later(Tail(K), B, p)
      BY <3>1, <1>5, <1>6, <1>7 DEF Later
    <3>3. \A j \in DOMAIN Tail(K) : Tail(K)[j].id = p.id => Tail(K)[j] = p
      BY <3>1, <1>6
    <3> QED
      BY <3>2, <3>3, <2>2, <1>3, <1>4, <1>5 DEF Identified, p, B
  <2> QED
    BY <2>1, <2>2
<1>10. Keeps(c)'
  BY <1>3, <1>4, <1>5, <1>6, <1>8 DEF OwnerInv, Keeps, K
<1>11. Truthful(c)'
  <2> SUFFICES ASSUME p # None, p.op = "ACQUIRE",
                      NEW i \in DOMAIN B, B[i].id = p.id,
                      B[i].status = "SUCCESS", ~B[i].stale
               PROVE  owner' = c
    BY <1>3, <1>5 DEF Truthful, p, B
  <2>1. /\ Later(K, A, p)
        /\ \A j \in DOMAIN K : K[j].id = p.id => K[j] = p
    BY <1>8 DEF OwnerInv, Identified, K, A, p
  <2>2. k.id = p.id
    BY <2>1, <1>5, <1>6, <1>7 DEF Later
  <2>3. k.op = "ACQUIRE"
    BY <2>1, <2>2, <1>6
  <2>4. CASE i \in DOMAIN A /\ B[i] = A[i]
    BY <2>3, <2>4, <1>5, <1>8 DEF OwnerInv, Truthful, A, p
  <2>5. CASE B[i] = a
    BY <2>3, <2>5, <1>5
  <2> QED
    BY <2>4, <2>5, <1>7
<1>12. OwnerTyped(c)'
  <2>1. Tail(K) \in Seq(OwnerCommands)
    BY <1>1, <1>2, Shorter
  <2>2. B \in Seq(OwnerAnswers)
    BY <1>1, <1>5, Longer DEF B
  <2> QED
    BY <2>1, <2>2, <1>3, <1>4, <1>8 DEF OwnerInv, OwnerTyped, B
<1> QED
  BY <1>9, <1>10, <1>11, <1>12 DEF OwnerInv

\* A new command, and one repeated: it is put after what is under way.
LEMMA SentKeeps ==
  ASSUME IInv, NEW c \in Owners, NEW cmd \in OwnerCommands,
         command'[c] = Append(command[c], cmd), pending'[c] = cmd,
         UNCHANGED <<owner, answer>>,
         believes'[c] \in BOOLEAN, believes'[c] => believes[c] /\ cmd.op # "RELEASE",
         \/ pending[c] = cmd
         \/ pending[c] = None /\ cmd.id = NextId(c)
  PROVE  OwnerInv(c)'
<1> DEFINE K == command[c]
           A == answer[c]
           L == command'[c]
<1>1. K \in Seq(OwnerCommands) /\ A \in Seq(OwnerAnswers) /\ L = Append(K, cmd)
  BY DEF IInv, Typed, OwnerInv, OwnerTyped
<1>2. OwnerInv(c) /\ answer'[c] = A /\ cmd # None
  BY EntityAssumption DEF IInv
<1>3. /\ \A i \in DOMAIN L : \/ i \in DOMAIN K /\ L[i] = K[i]
                             \/ i = Len(K) + 1 /\ L[i] = cmd
      /\ \A i \in DOMAIN K : i \in Nat /\ i < Len(K) + 1
      /\ Len(K) \in Nat
  <2> HIDE DEF K, L
  <2> QED
    BY <1>1, Longer
<1>4. /\ A # <<>> => Len(A) \in DOMAIN A
      /\ K # <<>> => Len(K) \in DOMAIN K
      /\ A = <<>> => DOMAIN A = {}
      /\ K = <<>> => DOMAIN K = {}
  BY <1>1
<1>5. /\ \A i \in DOMAIN A : A[i].id \in {0, 1}
      /\ \A i \in DOMAIN K : K[i].id \in {0, 1}
  <2>1. /\ \A i \in DOMAIN A : A[i] \in OwnerAnswers
        /\ \A i \in DOMAIN K : K[i] \in OwnerCommands
    BY <1>1
  <2> HIDE DEF K, A
  <2> QED
    BY <2>1 DEF OwnerAnswers, OwnerCommands
<1>8. OwnerTyped(c)'
  <2>1. L \in Seq(OwnerCommands)
    BY <1>1, Longer
  <2> QED
    BY <2>1, <1>2 DEF OwnerInv, OwnerTyped
<1>6. CASE pending[c] = cmd
  <2>1. Later(K, A, cmd) /\ \A j \in DOMAIN K : K[j].id = cmd.id => K[j] = cmd
    BY <1>2, <1>6 DEF OwnerInv, Identified
  <2> HIDE DEF K, A, L
  <2>2. Later(L, A, cmd) /\ \A j \in DOMAIN L : L[j].id = cmd.id => L[j] = cmd
    BY <2>1, <1>3 DEF Later
  <2>3. Identified(c)'
    BY <2>2, <1>2 DEF Identified, L
  <2>4. Keeps(c)'
    BY <1>2, <1>3, <1>6 DEF OwnerInv, Keeps, K, L
  <2>5. Truthful(c)'
    BY <1>2, <1>6 DEF OwnerInv, Truthful, A
  <2> QED
    BY <2>3, <2>4, <2>5, <1>8 DEF OwnerInv
<1>7. CASE pending[c] = None /\ cmd.id = NextId(c)
  <2>1. Alike(K, A)
    BY <1>2, <1>7 DEF OwnerInv, Identified
  <2>2. cmd.id = 1 - (IF A # <<>> THEN A[Len(A)].id
                      ELSE IF K # <<>> THEN K[Len(K)].id ELSE 0)
    BY <1>7 DEF NextId
  <2> HIDE DEF K, A, L
  <2>3. /\ \A i \in DOMAIN A : A[i].id # cmd.id
        /\ \A i \in DOMAIN K : K[i].id # cmd.id
    BY <2>1, <2>2, <1>4, <1>5 DEF Alike
  <2>4. Later(L, A, cmd) /\ \A j \in DOMAIN L : L[j].id = cmd.id => L[j] = cmd
    BY <2>3, <1>3 DEF Later
  <2>5. Identified(c)'
    BY <2>4, <1>2 DEF Identified, L
  <2>6. Keeps(c)'
    BY <1>2, <1>3 DEF OwnerInv, Keeps, K, L
  <2>7. Truthful(c)'
    BY <2>3, <1>2 DEF Truthful, A
  <2> QED
    BY <2>5, <2>6, <2>7, <1>8 DEF OwnerInv
<1> QED
  BY <1>6, <1>7

\* An answer is read: when it settles the command, what is left is alike.
LEMMA TakenKeeps ==
  ASSUME IInv, NEW c \in Owners, TakesAnswer(c)
  PROVE  OwnerInv(c)'
<1> DEFINE K == command[c]
           A == answer[c]
           p == pending[c]
           a == Head(A)
<1>1. K \in Seq(OwnerCommands) /\ A \in Seq(OwnerAnswers) /\ c \in Controller
  BY DEF IInv, Typed, OwnerInv, OwnerTyped, Controller
<1>2. A # <<>> /\ answer'[c] = Tail(A)
  BY <1>1 DEF TakesAnswer, IInv, Typed, OwnerInv, OwnerTyped
<1>3. UNCHANGED <<owner, command>>
  BY DEF TakesAnswer, served
<1>4. /\ a = A[1] /\ 1 \in DOMAIN A
      /\ \A i \in DOMAIN Tail(A) : i \in Nat /\ i >= 1 /\ i + 1 \in DOMAIN A /\ Tail(A)[i] = A[i + 1]
  BY <1>1, <1>2, Shorter
<1>5. OwnerInv(c)
  BY DEF IInv
<1>6. CASE p # None /\ a.id = p.id
  <2>1. pending'[c] = None
    BY <1>6, <1>1 DEF TakesAnswer, IInv, Typed, OwnerInv, OwnerTyped
  <2>2. believes'[c] => \/ believes[c]
                        \/ p.op = "ACQUIRE" /\ a.status = "SUCCESS" /\ ~a.stale
    BY DEF TakesAnswer, IInv, Typed, OwnerInv, OwnerTyped
  <2>3. Later(K, A, p) /\ \A j \in DOMAIN K : K[j].id = p.id => K[j] = p
    BY <1>5, <1>6 DEF OwnerInv, Identified
  <2>4. p.op = "ACQUIRE" /\ a.status = "SUCCESS" /\ ~a.stale => owner = c
    BY <1>4, <1>5, <1>6 DEF OwnerInv, Truthful
  <2> HIDE DEF K, A, p, a
  <2>5. \A j \in DOMAIN K : K[j] = p
    BY <2>3, <1>4, <1>6 DEF Later
  <2>6. \A i \in DOMAIN Tail(A) : Tail(A)[i].id = p.id
    BY <2>3, <1>4, <1>6 DEF Later
  <2>7. Identified(c)'
    BY <2>1, <2>5, <2>6, <1>2, <1>3 DEF Identified, Alike, K
  <2>8. Keeps(c)'
    BY <2>1, <2>2, <2>4, <2>5, <1>3, <1>5 DEF OwnerInv, Keeps, K
  <2>9. Truthful(c)'
    BY <2>1 DEF Truthful
  <2>10. OwnerTyped(c)'
    <3>1. Tail(A) \in Seq(OwnerAnswers)
      BY <1>1, <1>2, Shorter
    <3>2. believes'[c] \in BOOLEAN
      BY DEF TakesAnswer, IInv, Typed, OwnerInv, OwnerTyped
    <3> QED
      BY <3>1, <3>2, <2>1, <1>2, <1>3, <1>5 DEF OwnerInv, OwnerTyped
  <2> QED
    BY <2>7, <2>8, <2>9, <2>10 DEF OwnerInv
<1>7. CASE ~(p # None /\ a.id = p.id)
  <2>1. UNCHANGED <<pending, believes>>
    BY <1>7 DEF TakesAnswer
  <2> QED
    BY <2>1, <1>2, <1>3, LosesAnswer
<1> QED
  BY <1>6, <1>7

-----------------------------------------------------------------------------
(***************************************************************************)
(* The step.  What others do leaves c untouched; the controllers that own  *)
(* send nothing but commands about the owner.                              *)
(***************************************************************************)
\* A handler changes what is under way of its controller alone, and takes the
\* entity from nobody.
LEMMA OthersHandled ==
  ASSUME IInv, NEW c \in Owners, NEW d \in Controller, d # c,
         Handles(d), ~Restarts
  PROVE  Untouched(c)
<1>1. c \in Controller /\ c # None
  BY EntityAssumption DEF Controller
<1>2. UNCHANGED <<pending, believes>>
  BY DEF Handles, ReadEntity, ReadStatic, ReadAllocated, ReadAudioMap, NotHandled, Simple,
         SetName, Acquire, Release, AcquireOther, Unasked, asked
<1>3. command'[c] = command[c] /\ answer'[c] = answer[c]
  BY <1>1 DEF Handles, ReadEntity, ReadStatic, ReadAllocated, ReadAudioMap, NotHandled, Simple,
              SetName, Acquire, Release, AcquireOther, Consumes, Answers, IInv, Typed, OwnerInv, OwnerTyped
<1>4. owner = c => owner' = c
  BY <1>1 DEF Handles, ReadEntity, ReadStatic, ReadAllocated, ReadAudioMap, NotHandled, Simple,
              SetName, Acquire, Release, AcquireOther, served
<1> QED
  BY <1>2, <1>3, <1>4 DEF Untouched

\* What an owner sends is handled by the handlers of the acquisition.
LEMMA OwnHandled ==
  ASSUME IInv, NEW c \in Owners, Handles(c)
  PROVE  Acquire(c) \/ Release(c) \/ AcquireOther(c)
<1>0. command[c] \in Seq(OwnerCommands)
  BY DEF IInv, Typed, OwnerInv, OwnerTyped
<1>1. command[c] # <<>> => Head(command[c]).op \in {"ACQUIRE", "ACQUIRE_OTHER", "RELEASE"}
  <2>1. command[c] # <<>> => Head(command[c]) \in OwnerCommands
    BY <1>0, Shorter
  <2> QED
    BY <2>1 DEF OwnerCommands
<1>2. \A op : Command(c, op) => op \in {"ACQUIRE", "ACQUIRE_OTHER", "RELEASE"}
  BY <1>1 DEF Command
<1>3. DOMAIN StatusOf \cap {"ACQUIRE", "ACQUIRE_OTHER", "RELEASE"} = {}
  BY DEF StatusOf
<1>4. ~Command(c, "READ") /\ ~Command(c, "STOP_STREAMING") /\ ~Command(c, "UNKNOWN")
      /\ ~Command(c, "SET_NAME") /\ \A op \in DOMAIN StatusOf : ~Command(c, op)
  BY <1>2, <1>3
<1> QED
  BY <1>4 DEF Handles, ReadEntity, ReadStatic, ReadAllocated, ReadAudioMap, NotHandled, Simple,
              SetName

\* An identifier is 0 or 1.
LEMMA IdType ==
  ASSUME IInv, NEW c \in Owners
  PROVE  NextId(c) \in {0, 1}
<1>1. command[c] \in Seq(OwnerCommands) /\ answer[c] \in Seq(OwnerAnswers)
  BY DEF IInv, Typed, OwnerInv, OwnerTyped
<1>2. /\ answer[c] # <<>> => answer[c][Len(answer[c])] \in OwnerAnswers
      /\ command[c] # <<>> => command[c][Len(command[c])] \in OwnerCommands
  BY <1>1
<1> QED
  BY <1>2 DEF NextId, OwnerAnswers, OwnerCommands

LEMMA ControlsKeep ==
  ASSUME IInv, NEW c \in Owners, NEW d \in Controller, Controls(d)
  PROVE  OwnerInv(c)'
<1>1. c \in Controller /\ c \notin Readers /\ c \notin Namers /\ c \notin Askers
  BY EntityAssumption DEF Controller
<1>2. CASE d # c
  <2>1. Untouched(c)
    BY <1>1, <1>2 DEF Controls, Reads, Owns, Names, Asks, Repeats, GivesUp, TakesAnswer,
                      Requests, Sends, Untouched, served, IInv, Typed, OwnerInv, OwnerTyped
  <2> QED
    BY <2>1, UntouchedKeeps
<1>3. CASE Owns(c)
  <2> DEFINE req(op, arg) == [op |-> op, arg |-> arg, id |-> NextId(c)]
  <2>1. ASSUME NEW op, NEW arg, Requests(c, op, arg), req(op, arg) \in OwnerCommands,
               believes'[c] \in BOOLEAN, believes'[c] => believes[c] /\ op # "RELEASE"
        PROVE  OwnerInv(c)'
    <3>1. /\ command'[c] = Append(command[c], req(op, arg))
          /\ pending'[c] = req(op, arg) /\ pending[c] = None
          /\ UNCHANGED <<owner, answer>>
      BY <2>1, <1>1 DEF Requests, Sends, served, IInv, Typed, OwnerInv, OwnerTyped
    <3>2. req(op, arg).id = NextId(c) /\ req(op, arg).op = op
      OBVIOUS
    <3> HIDE DEF req
    <3> QED
      BY <2>1, <3>1, <3>2, SentKeeps
  <2>2. ASSUME NEW op \in {"ACQUIRE", "ACQUIRE_OTHER", "RELEASE"},
               NEW arg \in BOOLEAN \cup {None}
        PROVE  req(op, arg) \in OwnerCommands
    BY IdType DEF OwnerCommands
  <2>3. ASSUME NEW b \in BOOLEAN, Requests(c, "ACQUIRE", b), UNCHANGED believes
        PROVE  OwnerInv(c)'
    <3>1. req("ACQUIRE", b) \in OwnerCommands /\ believes'[c] \in BOOLEAN
      BY <2>2, <2>3 DEF IInv, OwnerInv, OwnerTyped
    <3> HIDE DEF req
    <3> QED
      BY <2>1, <2>3, <3>1
  <2>4. ASSUME Requests(c, "ACQUIRE_OTHER", None), UNCHANGED believes
        PROVE  OwnerInv(c)'
    <3>1. req("ACQUIRE_OTHER", None) \in OwnerCommands /\ believes'[c] \in BOOLEAN
      BY <2>2, <2>4 DEF IInv, OwnerInv, OwnerTyped
    <3> HIDE DEF req
    <3> QED
      BY <2>1, <2>4, <3>1
  <2>5. ASSUME Requests(c, "RELEASE", None), believes' = [believes EXCEPT ![c] = FALSE]
        PROVE  OwnerInv(c)'
    <3>1. req("RELEASE", None) \in OwnerCommands /\ believes'[c] = FALSE
      BY <2>2, <2>5 DEF IInv, Typed, OwnerInv, OwnerTyped
    <3> HIDE DEF req
    <3> QED
      BY <2>1, <2>5, <3>1
  <2> QED
    BY <1>3, <2>3, <2>4, <2>5 DEF Owns
<1>4. CASE Repeats(c)
  <2>1. /\ command'[c] = Append(command[c], pending[c])
        /\ pending' = pending /\ pending[c] # None
        /\ UNCHANGED <<owner, answer, believes>>
    BY <1>4, <1>1 DEF Repeats, Sends, served, IInv, Typed, OwnerInv, OwnerTyped
  <2>2. pending[c] \in OwnerCommands
    BY <2>1 DEF IInv, Typed, OwnerInv, OwnerTyped
  <2>3. believes[c] \in BOOLEAN /\ (believes[c] => pending[c].op # "RELEASE")
    BY <2>1 DEF IInv, OwnerInv, OwnerTyped, Keeps
  <2> QED
    BY <2>1, <2>2, <2>3, SentKeeps
<1>5. CASE TakesAnswer(c)
  BY <1>5, TakenKeeps
<1> QED
  BY <1>1, <1>2, <1>3, <1>4, <1>5 DEF Controls, Reads, Names, Asks, GivesUp

\* The domains, and that the owner is a controller or none.
LEMMA TypedKept ==
  ASSUME IInv, [Next]_vars
  PROVE  Typed'
<1> USE DEF IInv, Typed
<1>1. CASE NvsReady \/ PowerFails
  BY <1>1 DEF NvsReady, PowerFails, Restarts, asked
<1>2. ASSUME NEW e \in Others, Departs(e) \/ \E b \in BOOLEAN : Announces(e, b)
      PROVE  Typed'
  BY <1>2 DEF Departs, Announces, asked
<1>3. ASSUME NEW d \in Controller, Handles(d)
      PROVE  Typed'
  BY <1>3 DEF Handles, ReadEntity, ReadStatic, ReadAllocated, ReadAudioMap, NotHandled, Simple,
              SetName, Acquire, Release, AcquireOther, Consumes, Answers, Unasked, Restarts,
              served, asked
<1>4. ASSUME NEW d \in Controller, Controls(d) \/ Lose(d)
      PROVE  Typed'
  BY <1>4 DEF Controls, Lose, Reads, Owns, Names, Asks, Repeats, GivesUp, TakesAnswer,
              Requests, Sends, served, asked
<1>5. CASE UNCHANGED vars
  BY <1>5 DEF vars, served, asked
<1> QED
  BY <1>1, <1>2, <1>3, <1>4, <1>5 DEF Next

LEMMA OwnerStep ==
  ASSUME IInv, [Next]_vars
  PROVE  IInv'
<1> SUFFICES ASSUME NEW c \in Owners PROVE OwnerInv(c)'
  BY TypedKept DEF IInv
<1>0. c \in Controller
  BY DEF Controller
<1>1. CASE NvsReady \/ UNCHANGED vars
  BY <1>1, UntouchedKeeps DEF NvsReady, vars, served, asked, Untouched
<1>2. CASE PowerFails
  BY <1>2, RestartKeeps DEF PowerFails
<1>3. ASSUME NEW e \in Others, Departs(e) \/ \E b \in BOOLEAN : Announces(e, b)
      PROVE  OwnerInv(c)'
  BY <1>3, UntouchedKeeps DEF Departs, Announces, asked, Untouched
<1>4. ASSUME NEW d \in Controller, Handles(d)
      PROVE  OwnerInv(c)'
  <2>1. CASE Restarts /\ UNCHANGED pending
    BY <2>1, RestartKeeps
  <2>2. CASE ~(Restarts /\ UNCHANGED pending)
    <3>1. ~Restarts
      BY <1>4, <2>2 DEF Handles, ReadEntity, ReadStatic, ReadAllocated, ReadAudioMap,
            NotHandled, Simple, SetName, Acquire, Release, AcquireOther, Unasked, asked
    <3>2. CASE d # c
      BY <1>4, <3>1, <3>2, OthersHandled, UntouchedKeeps
    <3>3. CASE d = c
      BY <1>4, <3>3, OwnHandled, HandledKeeps
    <3> QED
      BY <3>2, <3>3
  <2> QED
    BY <2>1, <2>2
<1>5. ASSUME NEW d \in Controller, Controls(d)
      PROVE  OwnerInv(c)'
  BY <1>5, ControlsKeep
<1>6. ASSUME NEW d \in Controller, Lose(d)
      PROVE  OwnerInv(c)'
  <2>1. CASE d # c
    BY <1>0, <1>6, <2>1, UntouchedKeeps DEF Lose, served, asked, Untouched, IInv, Typed
  <2>2. CASE d = c
    <3>1. \/ command[c] # <<>> /\ command'[c] = Tail(command[c]) /\ UNCHANGED answer
          \/ answer[c] # <<>> /\ answer'[c] = Tail(answer[c]) /\ UNCHANGED command
      BY <1>0, <1>6, <2>2 DEF Lose, IInv, Typed
    <3>2. UNCHANGED <<owner, pending, believes>>
      BY <1>6 DEF Lose, served, asked
    <3> QED
      BY <3>1, <3>2, LosesCommand, LosesAnswer
  <2> QED
    BY <2>1, <2>2
<1> QED
  BY <1>1, <1>2, <1>3, <1>4, <1>5, <1>6 DEF Next

\* OneOwner: at most one controller believes that it owns the entity, and it
\* does (handle_acm_acquire_entity), whatever is lost, late or repeated.
THEOREM OneOwnerAlways == Spec => []OneOwner
<1>1. IInv => OneOwner
  BY DEF IInv, OwnerInv, Keeps, OneOwner
<1> QED
  BY <1>1, OwnerInit, OwnerStep, PTL DEF Spec

-----------------------------------------------------------------------------
(***************************************************************************)
(* The table.  An entity is in one slot at most, so a slot is free exactly *)
(* when fewer entities are known than there are slots; an entry that is    *)
(* updated is the only one of its entity, and one that is removed too.     *)
(***************************************************************************)
TableInv ==
    /\ table \in [1..Slots -> Entries \cup {None}]
    /\ \A i, j \in 1..Slots :
          table[i] # None /\ table[j] # None /\ table[i].id = table[j].id => i = j
    /\ index \in [Others -> 0..(IndexRange - 1)]
    /\ DOMAIN heard = Others

Known == {table[i] : i \in 1..Slots} \ {None}

\* A set of slots that is not empty has a first one.
LEMMA FirstSlot ==
  ASSUME NEW slots \in SUBSET (1..Slots), slots # {}
  PROVE  First(slots) \in slots
<1> DEFINE R == OpToRel(<, Nat)
<1>1. slots \subseteq Nat
  BY EntityAssumption
<1>2. PICK i \in slots : \A j \in slots : ~(<<j, i>> \in R)
  <2>1. IsWellFoundedOn(R, Nat)
    BY NatLessThanWellFounded
  <2> HIDE DEF R
  <2> QED
    BY <1>1, <2>1, WFMin
<1>3. \A j \in slots : ~(j < i)
  BY <1>1, <1>2 DEF OpToRel
<1>4. \A j \in slots : i <= j
  BY <1>1, <1>3
<1> QED
  BY <1>4 DEF First

\* An entity that is not known finds a free slot exactly when there is room.
LEMMA RoomIsFree ==
  ASSUME TableInv
  PROVE  FreeSlots # {} <=> Cardinality(Known) < Slots
<1> DEFINE Used == 1..Slots \ FreeSlots
           f == [i \in Used |-> table[i]]
<1>1. Slots \in Nat /\ Slots > 0
  BY EntityAssumption
<1>2. IsFiniteSet(1..Slots) /\ Cardinality(1..Slots) = Slots
  BY <1>1, FS_Interval
<1>3. Used \in SUBSET (1..Slots)
  OBVIOUS
<1>4. IsFiniteSet(Used) /\ Cardinality(Used) <= Slots /\ (Cardinality(Used) = Slots => Used = 1..Slots)
  BY <1>2, <1>3, FS_Subset
<1>5. f \in Bijection(Used, Known)
  <2>1. \A i \in Used : table[i] \in Known /\ table[i] \in Entries
    BY DEF Known, FreeSlots, TableInv
  <2>2. \A i, j \in Used : table[i] = table[j] => i = j
    BY <2>1 DEF FreeSlots, TableInv
  <2>3. \A k \in Known : \E i \in Used : table[i] = k
    BY DEF Known, FreeSlots
  <2> QED
    BY <2>1, <2>2, <2>3 DEF Bijection, Injection, Surjection, IsInjective
<1>6. Cardinality(Known) = Cardinality(Used)
  BY <1>4, <1>5, FS_Bijection DEF ExistsBijection
<1>7. Cardinality(Used) \in Nat
  BY <1>4, FS_CardinalityType
<1>8. FreeSlots = {} <=> Used = 1..Slots
  BY DEF FreeSlots
<1> HIDE DEF Used
<1> QED
  BY <1>1, <1>2, <1>4, <1>6, <1>7, <1>8

\* What is known after slot s has been given to entity e, which has no other.
LEMMA SlotGiven ==
  ASSUME TableInv, NEW e \in Others, NEW new \in Entries, new.id = e,
         NEW s \in 1..Slots, UsedFor(e) \subseteq {s},
         \/ table[s] = None
         \/ table[s].id = e,
         table' = [table EXCEPT ![s] = new]
  PROVE  /\ Known' = {k \in Known : k.id # e} \cup {new}
         /\ table' \in [1..Slots -> Entries \cup {None}]
         /\ \A i, j \in 1..Slots :
               table'[i] # None /\ table'[j] # None /\ table'[i].id = table'[j].id => i = j
<1> USE DEF TableInv
<1>1. \A i \in 1..Slots : table'[i] = IF i = s THEN new ELSE table[i]
  OBVIOUS
<1>2. new # None
  BY EntityAssumption
<1>3. \A i \in 1..Slots : i # s /\ table[i] # None => table[i].id # e
  BY DEF UsedFor
<1>4. ASSUME NEW k \in Known'
      PROVE  k \in {m \in Known : m.id # e} \cup {new}
  <2>1. PICK i \in 1..Slots : k = table'[i] /\ k # None
    BY DEF Known
  <2> QED
    BY <2>1, <1>1, <1>3 DEF Known
<1>5. ASSUME NEW k \in Known, k.id # e
      PROVE  k \in Known'
  <2>1. PICK i \in 1..Slots : k = table[i] /\ k # None
    BY DEF Known
  <2>2. i # s
    BY <2>1, <1>5
  <2>3. table'[i] = k
    BY <2>1, <2>2, <1>1
  <2> QED
    BY <2>1, <2>3 DEF Known
<1>6. new \in Known'
  BY <1>1, <1>2 DEF Known
<1>7. table' \in [1..Slots -> Entries \cup {None}]
  OBVIOUS
<1>8. ASSUME NEW i \in 1..Slots, NEW j \in 1..Slots,
             table'[i] # None, table'[j] # None, table'[i].id = table'[j].id
      PROVE  i = j
  BY <1>1, <1>3, <1>8
<1>9. Known' = {k \in Known : k.id # e} \cup {new}
  BY <1>4, <1>5, <1>6
<1> QED
  BY <1>7, <1>8, <1>9

\* adp_upsert_entity does what Directory says.
LEMMA UpsertMaps ==
  ASSUME TableInv, NEW e \in Others, NEW i \in 0..(IndexRange - 1),
         table' = Upsert(e, i), heard' = [heard EXCEPT ![e] = i],
         index' \in [Others -> 0..(IndexRange - 1)]
  PROVE  Dir!Available(e, i) /\ TableInv'
<1> DEFINE new == [id |-> e, info |-> i]
<1>1. new \in Entries /\ new.id = e
  BY DEF Entries
<1>2. Dir!Rest(e) = {k \in Known : k.id # e}
  BY DEF Dir!Rest, Known
<1>3. UsedFor(e) \subseteq 1..Slots /\ FreeSlots \subseteq 1..Slots
  BY DEF UsedFor, FreeSlots
<1>4. \A k \in Known : k.id = e <=> \E j \in UsedFor(e) : table[j] = k
  BY DEF Known, UsedFor
<1>5. DOMAIN heard' = Others
  BY DEF TableInv
<1>10. Cardinality(Known) = Dir!Cardinality(Known)
  BY Zenon DEF Cardinality, Dir!Cardinality
<1>9. ASSUME Known' = IF Dir!Rest(e) # Known \/ Cardinality(Known) < Slots
                      THEN Dir!Rest(e) \cup {new} ELSE Known
      PROVE  Dir!Available(e, i)
  <2>1. CASE Dir!Rest(e) # Known \/ Cardinality(Known) < Slots
    <3>1. Known' = Dir!Rest(e) \cup {new}
      BY <1>9, <2>1
    <3> QED
      BY <1>10, <2>1, <3>1 DEF Dir!Available, Known, new
  <2>2. CASE ~(Dir!Rest(e) # Known \/ Cardinality(Known) < Slots)
    <3>1. Known' = Known
      BY <1>9, <2>2
    <3> QED
      BY <1>10, <2>2, <3>1 DEF Dir!Available, Known, new
  <2> QED
    BY <2>1, <2>2
<1> HIDE DEF new
<1>6. CASE UsedFor(e) # {}
  <2> DEFINE s == First(UsedFor(e))
  <2>1. s \in UsedFor(e)
    BY <1>3, <1>6, FirstSlot
  <2>2. table' = [table EXCEPT ![s] = new]
    BY <1>6 DEF Upsert, new
  <2> HIDE DEF s
  <2>3. UsedFor(e) \subseteq {s} /\ s \in 1..Slots /\ table[s].id = e /\ table[s] \in Known
    BY <2>1 DEF UsedFor, TableInv, Known
  <2>4. /\ Known' = Dir!Rest(e) \cup {new}
        /\ TableInv'
    BY <1>1, <1>2, <1>5, <2>2, <2>3, SlotGiven DEF TableInv
  <2>5. Dir!Rest(e) # Known
    BY <1>2, <2>3
  <2> QED
    BY <2>4, <2>5, <1>9
<1>7. CASE UsedFor(e) = {} /\ FreeSlots # {}
  <2> DEFINE s == First(FreeSlots)
  <2>1. s \in FreeSlots
    BY <1>3, <1>7, FirstSlot
  <2>2. table' = [table EXCEPT ![s] = new]
    BY <1>7 DEF Upsert, new
  <2> HIDE DEF s
  <2>3. UsedFor(e) \subseteq {s} /\ s \in 1..Slots /\ table[s] = None
    BY <2>1, <1>7 DEF FreeSlots
  <2>4. /\ Known' = Dir!Rest(e) \cup {new}
        /\ TableInv'
    BY <1>1, <1>2, <1>5, <2>2, <2>3, SlotGiven DEF TableInv
  <2>5. Cardinality(Known) < Slots
    BY <1>7, RoomIsFree
  <2> QED
    BY <2>4, <2>5, <1>9
<1>8. CASE UsedFor(e) = {} /\ FreeSlots = {}
  <2>1. table' = table
    BY <1>8 DEF Upsert
  <2>2. ~(Cardinality(Known) < Slots) /\ Dir!Rest(e) = Known
    BY <1>2, <1>4, <1>8, RoomIsFree
  <2>3. TableInv'
    BY <2>1, <1>5 DEF TableInv
  <2>4. Known' = Known
    BY <2>1 DEF Known
  <2> QED
    BY <2>2, <2>3, <2>4, <1>9
<1> QED
  BY <1>6, <1>7, <1>8

\* adp_remove_entity does what Directory says.
LEMMA RemovedMaps ==
  ASSUME TableInv, NEW e \in Others,
         table' = Removed(e), heard' = [heard EXCEPT ![e] = None],
         index' \in [Others -> 0..(IndexRange - 1)]
  PROVE  Dir!Departing(e) /\ TableInv'
<1>1. Dir!Rest(e) = {k \in Known : k.id # e}
  BY DEF Dir!Rest, Known
<1>2. UsedFor(e) \subseteq 1..Slots /\ DOMAIN heard' = Others
  BY DEF UsedFor, TableInv
<1>3. CASE UsedFor(e) # {}
  <2> DEFINE s == First(UsedFor(e))
  <2>1. s \in UsedFor(e)
    BY <1>2, <1>3, FirstSlot
  <2>2. table' = [table EXCEPT ![s] = None]
    BY <1>3 DEF Removed
  <2> HIDE DEF s
  <2>3. s \in 1..Slots /\ \A i \in 1..Slots : table[i] # None => (table[i].id = e <=> i = s)
    BY <2>1 DEF UsedFor, TableInv
  <2>4. \A i \in 1..Slots : table'[i] = IF i = s THEN None ELSE table[i]
    BY <2>2, <2>3 DEF TableInv
  <2>5. Known' = Dir!Rest(e)
    <3>1. ASSUME NEW k \in Known' PROVE k \in Dir!Rest(e)
      BY <1>1, <2>3, <2>4 DEF Known
    <3>2. ASSUME NEW k \in Dir!Rest(e) PROVE k \in Known'
      <4>1. PICK i \in 1..Slots : k = table[i] /\ k # None /\ k.id # e
        BY <1>1, <3>2 DEF Known
      <4>2. k = table'[i]
        BY <2>3, <2>4, <4>1
      <4> QED
        BY <4>1, <4>2 DEF Known
    <3> QED
      BY <3>1, <3>2
  <2>6. TableInv'
    BY <1>2, <2>2, <2>3, <2>4 DEF TableInv
  <2> QED
    BY <2>5, <2>6 DEF Dir!Departing, Known
<1>4. CASE UsedFor(e) = {}
  <2>1. table' = table
    BY <1>4 DEF Removed
  <2>2. Dir!Rest(e) = Known
    BY <1>1, <1>4 DEF Known, UsedFor
  <2>3. TableInv'
    BY <1>2, <2>1 DEF TableInv
  <2> QED
    BY <2>1, <2>2, <2>3 DEF Dir!Departing, Known
<1> QED
  BY <1>3, <1>4

\* The steps: two of them are the table's, a restart forgets, the others leave
\* it alone.
LEMMA DirectoryStep ==
  ASSUME TableInv, [Next]_vars
  PROVE  TableInv' /\ [Dir!Next]_<<heard, Known>>
<1>1. ASSUME UNCHANGED <<table, heard, index>>
      PROVE  TableInv' /\ [Dir!Next]_<<heard, Known>>
  BY <1>1 DEF TableInv, Known
<1>2. ASSUME Restarts, UNCHANGED index
      PROVE  TableInv' /\ [Dir!Next]_<<heard, Known>>
  <2>1. TableInv'
    BY <1>2 DEF Restarts, TableInv
  <2>2. Known' = {}
    BY <1>2 DEF Restarts, Known
  <2>3. Dir!Forget
    BY <1>2, <2>2 DEF Dir!Forget, Restarts, Known
  <2> QED
    BY <2>1, <2>3 DEF Dir!Next
<1>3. CASE NvsReady \/ UNCHANGED vars
  BY <1>1, <1>3 DEF NvsReady, vars, served
<1>4. CASE PowerFails
  BY <1>2, <1>4 DEF PowerFails
<1>5. ASSUME NEW e \in Others, Departs(e)
      PROVE  TableInv' /\ [Dir!Next]_<<heard, Known>>
  <2>1. index' \in [Others -> 0..(IndexRange - 1)]
    BY <1>5, EntityAssumption DEF Departs, TableInv
  <2> QED
    BY <1>5, <2>1, RemovedMaps DEF Departs, Dir!Next
<1>6. ASSUME NEW e \in Others, NEW arrives \in BOOLEAN, Announces(e, arrives)
      PROVE  TableInv' /\ [Dir!Next]_<<heard, Known>>
  <2>1. index' \in [Others -> 0..(IndexRange - 1)] /\ index[e] \in 0..(IndexRange - 1)
    BY <1>6, EntityAssumption DEF Announces, TableInv
  <2>2. CASE arrives
    BY <1>6, <2>1, <2>2, UpsertMaps DEF Announces, Dir!Next
  <2>3. CASE ~arrives
    <3>1. UNCHANGED <<table, heard>>
      BY <1>6, <2>3 DEF Announces
    <3> QED
      BY <3>1, <2>1 DEF TableInv, Known
  <2> QED
    BY <2>2, <2>3
<1>7. ASSUME NEW d \in Controller, Handles(d)
      PROVE  TableInv' /\ [Dir!Next]_<<heard, Known>>
  <2>1. \/ UNCHANGED <<table, heard, index>>
        \/ Restarts /\ UNCHANGED index
    BY <1>7 DEF Handles, ReadEntity, ReadStatic, ReadAllocated, ReadAudioMap, NotHandled, Simple,
                SetName, Acquire, Release, AcquireOther, Unasked, served
  <2> QED
    BY <2>1, <1>1, <1>2
<1>8. ASSUME NEW d \in Controller, Controls(d) \/ Lose(d)
      PROVE  TableInv' /\ [Dir!Next]_<<heard, Known>>
  BY <1>1, <1>8 DEF Controls, Lose, Reads, Owns, Names, Asks, Repeats, GivesUp, TakesAnswer,
                    Requests, served
<1> QED
  BY <1>3, <1>4, <1>5, <1>6, <1>7, <1>8 DEF Next

\* ImplementsDirectory: a table of any size, with any holes, shows each entity
\* once and as it was last heard (adp_upsert_entity, adp_remove_entity).
THEOREM TableIsDirectory == Spec => ImplementsDirectory
<1>1. Init => TableInv /\ Dir!Init
  <2> SUFFICES ASSUME Init PROVE TableInv /\ Dir!Init
    OBVIOUS
  <2>1. TableInv
    BY EntityAssumption DEF Init, TableInv
  <2>2. Known = {}
    BY DEF Init, Known
  <2> QED
    BY <2>1, <2>2 DEF Init, Dir!Init, Known
<1>2. TableInv /\ [Next]_vars => TableInv' /\ [Dir!Next]_<<heard, Known>>
  BY DirectoryStep
<1> QED
  BY <1>1, <1>2, PTL DEF Spec, ImplementsDirectory, Dir!Spec, Known

=============================================================================
