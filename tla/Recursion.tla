------------------------------ MODULE Recursion ------------------------------
(***************************************************************************)
(* Recursion along a sequence of steps, as the models write it:            *)
(*                                                                         *)
(*     f[i \in 0 .. n] == IF i = 0 THEN First(p) ELSE Step(p, f[i - 1], i) *)
(*                                                                         *)
(* (the replay of a history, for instance), and its mirror image from n    *)
(* down to 1.  A definition like that means something only if such a       *)
(* function exists; this module proves that it does, for any First and     *)
(* Step, and what induction then gives.  A proof instantiates the module   *)
(* with the First and Step of the definition it is about.                  *)
(***************************************************************************)
EXTENDS Integers, WellFoundedInduction, TLAPS

CONSTANTS
    First(_),       \* value before the first step, for a parameter p
    Step(_, _, _)   \* value after step i, from p, the value before and i

Upto(p, n) ==
    LET f[i \in 0 .. n] == IF i = 0 THEN First(p) ELSE Step(p, f[i - 1], i)
    IN  f

Downto(p, n) ==
    LET f[i \in 1 .. n + 1] == IF i > n THEN First(p) ELSE Step(p, f[i + 1], i)
    IN  f

-----------------------------------------------------------------------------
(* Induction over a set of natural numbers *)

\* A set of natural numbers that has an element has a smallest one.
LEMMA SmallestElement ==
    ASSUME NEW T, T \subseteq Nat, T # {}
    PROVE  \E m \in T : \A k \in T : m <= k
  <1> DEFINE R == OpToRel(<, Nat)
  <1>1. IsWellFoundedOn(R, Nat)
    BY NatLessThanWellFounded
  <1>2. \A k, m \in Nat : <<k, m>> \notin R => m <= k
    BY DEF OpToRel
  <1> HIDE DEF R
  <1>3. \E m \in T : \A k \in T : <<k, m>> \notin R
    BY <1>1, WFMin
  <1> QED
    BY <1>2, <1>3

\* What holds at 0 and passes from each step to the next holds up to n.
LEMMA InductionUpto ==
    ASSUME NEW n \in Nat, NEW S, 0 \in S,
           \A i \in 1 .. n : i - 1 \in S => i \in S
    PROVE  0 .. n \subseteq S
  <1> SUFFICES ASSUME ~(0 .. n \subseteq S) PROVE FALSE
    OBVIOUS
  <1> DEFINE T == (0 .. n) \ S
  <1>1. T \subseteq Nat /\ T # {}
    OBVIOUS
  <1>2. PICK m \in T : \A k \in T : m <= k
    <2> HIDE DEF T
    <2> QED
      BY <1>1, SmallestElement
  <1>3. m \in 1 .. n /\ m - 1 \in S
    BY <1>2
  <1> QED
    BY <1>2, <1>3

\* What holds at n + 1 and passes from each step to the one before holds down to 1.
LEMMA InductionDownto ==
    ASSUME NEW n \in Nat, NEW S, n + 1 \in S,
           \A i \in 1 .. n : i + 1 \in S => i \in S
    PROVE  1 .. n + 1 \subseteq S
  <1> DEFINE T == {k \in 0 .. n : n + 1 - k \in S}
  <1>1. 0 \in T
    OBVIOUS
  <1>2. ASSUME NEW k \in 1 .. n, k - 1 \in T PROVE k \in T
    <2>1. n + 1 - k \in 1 .. n /\ (n + 1 - k) + 1 \in S
      BY <1>2
    <2> QED
      BY <2>1
  <1>3. 0 .. n \subseteq T
    <2> HIDE DEF T
    <2> QED
      BY <1>1, <1>2, InductionUpto
  <1>4. ASSUME NEW i \in 1 .. n + 1 PROVE i \in S
    <2>1. n + 1 - i \in T
      BY <1>3
    <2> QED
      BY <2>1
  <1> QED
    BY <1>4

-----------------------------------------------------------------------------
(* The recursive functions exist *)

Above(p, f, i) == IF i = 0 THEN First(p) ELSE Step(p, f[i - 1], i)
Climbs(p, n, f) == f = [i \in 0 .. n |-> Above(p, f, i)]

LEMMA ClimbExists ==
    ASSUME NEW p, NEW n \in Nat
    PROVE  \E f : Climbs(p, n, f)
  <1> DEFINE S == {m \in 0 .. n : \E f : Climbs(p, m, f)}
  <1>1. 0 \in S
    <2> DEFINE f == [i \in 0 .. 0 |-> First(p)]
    <2>1. Climbs(p, 0, f)
      BY DEF Climbs, Above
    <2> QED
      BY <2>1
  <1>2. ASSUME NEW m \in 1 .. n, m - 1 \in S PROVE m \in S
    <2>1. PICK f : Climbs(p, m - 1, f)
      BY <1>2
    <2> DEFINE g == [i \in 0 .. m |-> IF i = m THEN Step(p, f[m - 1], m) ELSE f[i]]
    <2>2. ASSUME NEW i \in 0 .. m PROVE g[i] = Above(p, g, i)
      <3>1. CASE i = m
        BY <3>1 DEF Above
      <3>2. CASE i # m
        <4>1. i \in 0 .. m - 1 /\ g[i] = f[i] /\ (i # 0 => g[i - 1] = f[i - 1])
          BY <3>2
        <4>2. f[i] = Above(p, f, i)
          BY <2>1, <4>1 DEF Climbs
        <4> QED
          BY <4>1, <4>2 DEF Above
      <3> QED
        BY <3>1, <3>2
    <2>3. Climbs(p, m, g)
      <3> HIDE DEF g
      <3>1. g = [i \in 0 .. m |-> g[i]]
        BY DEF g
      <3> QED
        BY <2>2, <3>1 DEF Climbs
    <2> QED
      BY <2>3
  <1> HIDE DEF S
  <1>3. n \in S
    BY <1>1, <1>2, InductionUpto
  <1> QED
    BY <1>3 DEF S

Below(p, n, f, i) == IF i > n THEN First(p) ELSE Step(p, f[i + 1], i)
Descends(p, n, m, f) == f = [i \in m .. n + 1 |-> Below(p, n, f, i)]

LEMMA DescentExists ==
    ASSUME NEW p, NEW n \in Nat
    PROVE  \E f : Descends(p, n, 1, f)
  <1> DEFINE S == {m \in 1 .. n + 1 : \E f : Descends(p, n, m, f)}
  <1>1. n + 1 \in S
    <2> DEFINE f == [i \in n + 1 .. n + 1 |-> First(p)]
    <2>1. Descends(p, n, n + 1, f)
      BY DEF Descends, Below
    <2> QED
      BY <2>1
  <1>2. ASSUME NEW m \in 1 .. n, m + 1 \in S PROVE m \in S
    <2>1. PICK f : Descends(p, n, m + 1, f)
      BY <1>2
    <2> DEFINE g == [i \in m .. n + 1 |-> IF i = m THEN Step(p, f[m + 1], m) ELSE f[i]]
    <2>2. ASSUME NEW i \in m .. n + 1 PROVE g[i] = Below(p, n, g, i)
      <3>1. CASE i = m
        BY <3>1 DEF Below
      <3>2. CASE i # m
        <4>1. i \in m + 1 .. n + 1 /\ g[i] = f[i] /\ (i <= n => g[i + 1] = f[i + 1])
          BY <3>2
        <4>2. f[i] = Below(p, n, f, i)
          BY <2>1, <4>1 DEF Descends
        <4> QED
          BY <4>1, <4>2 DEF Below
      <3> QED
        BY <3>1, <3>2
    <2>3. Descends(p, n, m, g)
      <3> HIDE DEF g
      <3>1. g = [i \in m .. n + 1 |-> g[i]]
        BY DEF g
      <3> QED
        BY <2>2, <3>1 DEF Descends
    <2> QED
      BY <2>3
  <1> HIDE DEF S
  <1>3. 1 \in S
    BY <1>1, <1>2, InductionDownto
  <1> QED
    BY <1>3 DEF S

-----------------------------------------------------------------------------
(* What the recursive definitions compute *)

\* The definition from the first step on unfolds step by step.
THEOREM UptoUnfolds ==
    ASSUME NEW p, NEW n \in Nat
    PROVE  /\ DOMAIN Upto(p, n) = 0 .. n
           /\ Upto(p, n)[0] = First(p)
           /\ \A i \in 1 .. n : Upto(p, n)[i] = Step(p, Upto(p, n)[i - 1], i)
  <1>1. Upto(p, n) = CHOOSE f : Climbs(p, n, f)
    BY Zenon DEF Upto, Climbs, Above
  <1>2. Climbs(p, n, Upto(p, n))
    BY <1>1, ClimbExists
  <1> QED
    BY <1>2 DEF Climbs, Above

\* The definition from the last step on unfolds step by step.
THEOREM DowntoUnfolds ==
    ASSUME NEW p, NEW n \in Nat
    PROVE  /\ DOMAIN Downto(p, n) = 1 .. n + 1
           /\ Downto(p, n)[n + 1] = First(p)
           /\ \A i \in 1 .. n : Downto(p, n)[i] = Step(p, Downto(p, n)[i + 1], i)
  <1>1. Downto(p, n) = CHOOSE f : Descends(p, n, 1, f)
    BY Zenon DEF Downto, Descends, Below
  <1>2. Descends(p, n, 1, Downto(p, n))
    BY <1>1, DescentExists
  <1> QED
    BY <1>2 DEF Descends, Below

\* The first k steps of two recursions, of m and n steps, are the same.
SameSteps(p, m, q, n, k) ==
    /\ k <= m /\ k <= n
    /\ First(p) = First(q)
    /\ \A i \in 1 .. k : Step(p, Upto(p, m)[i - 1], i) = Step(q, Upto(p, m)[i - 1], i)

\* They have computed the same by then.
THEOREM UptoAgrees ==
    ASSUME NEW p, NEW q, NEW m \in Nat, NEW n \in Nat, NEW k \in Nat,
           SameSteps(p, m, q, n, k)
    PROVE  \A i \in 0 .. k : Upto(p, m)[i] = Upto(q, n)[i]
  <1> DEFINE S == {i \in 0 .. k : Upto(p, m)[i] = Upto(q, n)[i]}
  <1>1. 0 \in S
    BY UptoUnfolds DEF SameSteps
  <1>2. ASSUME NEW i \in 1 .. k, i - 1 \in S PROVE i \in S
    <2>1. i \in 1 .. m /\ i \in 1 .. n
      BY DEF SameSteps
    <2> QED
      BY <1>2, <2>1, UptoUnfolds DEF SameSteps
  <1> HIDE DEF S
  <1>3. 0 .. k \subseteq S
    BY <1>1, <1>2, InductionUpto
  <1> QED
    BY <1>3 DEF S
=============================================================================
