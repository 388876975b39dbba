--------------------------- MODULE InOrder_proofs ---------------------------
(***************************************************************************)
(* Items handled one after the other: what the coordinator's tick and a    *)
(* reader of the mailbox do with their messages.  The modules write this   *)
(* as a recursive function over 0 .. n.  Such a definition chooses a       *)
(* function that satisfies its equation; the lemmas here say that one      *)
(* exists, and that what every step keeps, the last value has.             *)
(***************************************************************************)
EXTENDS Naturals, WellFoundedInduction, TLAPS

\* A set of numbers has a least one.
LEMMA LeastOfNat ==
    ASSUME NEW T \in SUBSET Nat, T # {}
    PROVE  \E x \in T : \A y \in T : x =< y
<1> DEFINE R == OpToRel(<, Nat)
<1>1. IsWellFoundedOn(R, Nat)
  BY NatLessThanWellFounded
<1>2. \E x \in T : \A y \in T : ~(<<y, x>> \in R)
  <2> HIDE DEF R
  <2> QED
    BY <1>1, WFMin, Zenon
<1>3. PICK x \in T : \A y \in T : ~(<<y, x>> \in R)
  BY <1>2
<1>4. \A y \in T : ~(y < x)
  BY <1>3 DEF OpToRel
<1> QED
  BY <1>4

\* Induction over the naturals, for a set instead of a predicate.
LEMMA InductiveSet ==
    ASSUME NEW S \in SUBSET Nat, 0 \in S, \A n \in S : n + 1 \in S
    PROVE  S = Nat
<1>1. SUFFICES ASSUME Nat \ S # {} PROVE FALSE
  OBVIOUS
<1>2. PICK x \in Nat \ S : \A y \in Nat \ S : x =< y
  <2>1. Nat \ S \in SUBSET Nat
    OBVIOUS
  <2> QED
    BY <1>1, <2>1, LeastOfNat
<1>3. x \in Nat /\ x # 0 /\ x \notin S
  OBVIOUS
<1>4. x - 1 \in Nat /\ x - 1 + 1 = x /\ ~(x =< x - 1)
  BY <1>3
<1>5. x - 1 \in S
  BY <1>2, <1>4
<1> QED
  BY <1>3, <1>4, <1>5

\* The steps of n items on values of V, and the values they lead through.
Steps(n, V) == [1 .. n -> [V -> V]]

Courses(n, V, base, step) ==
    {f \in [0 .. n -> V] : f[0] = base /\ \A i \in 1 .. n : f[i] = step[i][f[i - 1]]}

LEMMA CourseExists ==
    ASSUME NEW n \in Nat, NEW V, NEW base \in V, NEW step \in Steps(n, V)
    PROVE  Courses(n, V, base, step) # {}
<1> USE DEF Steps
<1> DEFINE Runs(k, f) == f[0] = base /\ \A i \in 1 .. k : f[i] = step[i][f[i - 1]]
           S == {k \in Nat : k =< n => \E f \in [0 .. k -> V] : Runs(k, f)}
<1>1. 0 \in S
  <2>1. [i \in 0 .. 0 |-> base] \in [0 .. 0 -> V] /\ Runs(0, [i \in 0 .. 0 |-> base])
    OBVIOUS
  <2> QED
    BY <2>1
<1>2. ASSUME NEW k \in S PROVE k + 1 \in S
  <2>1. ASSUME k + 1 =< n PROVE \E f \in [0 .. k + 1 -> V] : Runs(k + 1, f)
    <3>1. PICK f \in [0 .. k -> V] : Runs(k, f)
      BY <2>1
    <3> DEFINE g == [i \in 0 .. k + 1 |-> IF i = k + 1 THEN step[k + 1][f[k]] ELSE f[i]]
    <3>2. step[k + 1] \in [V -> V] /\ f[k] \in V
      BY <2>1
    <3>3. g \in [0 .. k + 1 -> V]
      BY <3>2
    <3>4. Runs(k + 1, g)
      BY <3>1
    <3> QED
      BY <3>3, <3>4
  <2> HIDE DEF Runs
  <2> QED
    BY <2>1
<1>3. n \in S
  <2> HIDE DEF S
  <2>1. S \in SUBSET Nat
    BY DEF S
  <2> QED
    BY <1>1, <1>2, <2>1, InductiveSet
<1> QED
  BY <1>3 DEF Courses

\* What holds of the first value, and of each value when it held of the one before.
LEMMA CourseKeeps ==
    ASSUME NEW n \in Nat, NEW f, NEW W,
           f[0] \in W[0], \A i \in 1 .. n : f[i - 1] \in W[i - 1] => f[i] \in W[i]
    PROVE  \A i \in 0 .. n : f[i] \in W[i]
<1> DEFINE S == {k \in Nat : k =< n => f[k] \in W[k]}
<1>1. 0 \in S
  OBVIOUS
<1>2. ASSUME NEW k \in S PROVE k + 1 \in S
  <2>1. SUFFICES ASSUME k + 1 =< n PROVE f[k + 1] \in W[k + 1]
    OBVIOUS
  <2>2. k + 1 \in 1 .. n /\ k + 1 - 1 = k /\ f[k] \in W[k]
    BY <2>1
  <2> QED
    BY <2>2
<1>3. S = Nat
  <2> HIDE DEF S
  <2>1. S \in SUBSET Nat
    BY DEF S
  <2> QED
    BY <1>1, <1>2, <2>1, InductiveSet
<1> QED
  BY <1>3
=============================================================================
