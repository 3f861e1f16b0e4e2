------------------------------- MODULE MCAcmp -------------------------------
(* Acmp with two or three listeners, one or two talkers, two controllers.  *)
EXTENDS Acmp, TLC

CONSTANTS l1, l2, l3, t1, t2, c1, c2

\* Either listener may be connected to either talker.
AllPairs == {l1, l2} \X {t1, t2}

\* Three listeners compete for one talker.
OneTalker == {l1, l2, l3} \X {t1}

\* One listener and one talker.
OnePair == {<<l1, t1>>}

\* How many commands each controller issues.
TwoAndOne == (c1 :> 2) @@ (c2 :> 1)
TwoEach == [c \in Controller |-> 2]

\* The listeners are interchangeable.
Interchangeable == Permutations({l1, l2, l3})
=============================================================================
