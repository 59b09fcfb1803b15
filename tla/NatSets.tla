------------------------------- MODULE NatSets -------------------------------
(***************************************************************************)
(* Induction over the natural numbers, stated with sets: to show P(n) for  *)
(* every n, apply SetInduction to the set of the n that satisfy P.  It     *)
(* follows from the library's theorem that the order of the naturals is    *)
(* well founded.                                                           *)
(***************************************************************************)
EXTENDS Naturals, WellFoundedInduction, TLAPS

(* A set of natural numbers that is not empty has a least member.          *)
LEMMA LeastMember ==
  ASSUME NEW T \in SUBSET Nat, T # {}
  PROVE  \E x \in T : \A y \in T : x <= y
<1> DEFINE R == OpToRel(<, Nat)
<1>1. IsWellFoundedOn(R, Nat)
  BY NatLessThanWellFounded
<1>2. \A x, y \in Nat : y < x => <<y, x>> \in R
  BY DEF OpToRel
<1> HIDE DEF R
<1>3. \E x \in T : \A y \in T : ~(<<y, x>> \in R)
  BY <1>1, WFMin
<1>4. \A x, y \in Nat : ~(y < x) => x <= y
  OBVIOUS
<1>5. \A x, y \in Nat : <<y, x>> \notin R => x <= y
  BY <1>2, <1>4, Zenon
<1> QED
  BY <1>3, <1>5, Zenon

(* A set that holds 0, and with each number the next, holds them all.      *)
LEMMA SetInduction ==
  ASSUME NEW T, 0 \in T, \A n \in Nat : n \in T => n + 1 \in T
  PROVE  Nat \subseteq T
<1> SUFFICES ASSUME Nat \ T # {}
             PROVE  FALSE
  OBVIOUS
<1>1. PICK x \in Nat \ T : \A y \in Nat \ T : x <= y
  BY LeastMember
<1>2. x # 0 /\ x - 1 \in Nat
  OBVIOUS
<1>3. x - 1 \in T
  BY <1>1, <1>2
<1> QED
  BY <1>2, <1>3

(* So does a finite one have a greatest member.                            *)
LEMMA GreatestMember ==
  ASSUME NEW n \in Nat, NEW T \in SUBSET (0 .. n), T # {}
  PROVE  \E x \in T : \A y \in T : y <= x
<1> DEFINE Above == {m \in Nat : \A y \in T : y <= m}
<1>1. n \in Above
  OBVIOUS
<1>2. PICK x \in Above : \A m \in Above : x <= m
  BY <1>1, LeastMember
<1>3. CASE x \in T
  BY <1>2, <1>3
<1>4. CASE x \notin T
  <2>1. PICK t \in T : t \in 0 .. n
    OBVIOUS
  <2>2. x - 1 \in Nat /\ \A y \in T : y <= x - 1
    BY <1>2, <1>4, <2>1
  <2>3. x - 1 \in Above
    BY <2>2
  <2> QED
    BY <1>2, <2>2, <2>3
<1> QED
  BY <1>3, <1>4

(* A run: n steps from a start, each from what the last one led to.        *)
IsRun(f, n, start, step) == f[0] = start /\ \A i \in 1 .. n : f[i] = step[i][f[i - 1]]

(* A start and a step define a run of any length: the body of a recursive  *)
(* function over 0 .. n is satisfied by some function.                     *)
LEMMA RunExists ==
  \A n \in Nat : \A S : \A start \in S : \A step \in [1 .. n -> [S -> S]] :
    \E f \in [0 .. n -> S] : IsRun(f, n, start, step)
<1> SUFFICES ASSUME NEW n \in Nat, NEW S, NEW start \in S, NEW step \in [1 .. n -> [S -> S]]
             PROVE  \E f \in [0 .. n -> S] : IsRun(f, n, start, step)
  OBVIOUS
<1> DEFINE Run(f, k) == /\ f \in [0 .. k -> S] /\ f[0] = start
                        /\ \A i \in 1 .. k : f[i] = step[i][f[i - 1]]
           Runs == {k \in Nat : k <= n => \E f : Run(f, k)}
<1>1. 0 \in Runs
  <2>1. Run([i \in 0 .. 0 |-> start], 0)
    OBVIOUS
  <2> QED
    BY <2>1
<1>2. ASSUME NEW k \in Nat, k \in Runs
      PROVE  k + 1 \in Runs
  <2> SUFFICES ASSUME k + 1 <= n
               PROVE  \E f : Run(f, k + 1)
    OBVIOUS
  <2>1. PICK f : Run(f, k)
    BY <1>2
  <2> DEFINE g == [i \in 0 .. k + 1 |-> IF i = k + 1 THEN step[k + 1][f[k]] ELSE f[i]]
  <2>2. step[k + 1][f[k]] \in S
    BY <2>1
  <2>3. g \in [0 .. k + 1 -> S] /\ g[0] = start
    BY <2>1, <2>2
  <2>4. ASSUME NEW i \in 1 .. k + 1
        PROVE  g[i] = step[i][g[i - 1]]
    <3>1. CASE i = k + 1
      <4>1. g[i] = step[i][f[k]] /\ g[i - 1] = f[k]
        BY <3>1
      <4> HIDE DEF g
      <4> QED
        BY <4>1
    <3>2. CASE i \in 1 .. k
      <4>1. g[i] = f[i] /\ g[i - 1] = f[i - 1]
        BY <3>2
      <4> QED
        BY <2>1, <3>2, <4>1
    <3> QED
      BY <3>1, <3>2
  <2> HIDE DEF g
  <2> QED
    BY <2>3, <2>4
<1>3. Nat \subseteq Runs
  <2> HIDE DEF Runs
  <2> QED
    BY <1>1, <1>2, SetInduction
<1>4. n \in Runs
  <2> HIDE DEF Runs
  <2> QED
    BY <1>3
<1> QED
  BY <1>4 DEF IsRun

(* Two runs start alike, and alike they go on.                             *)
StayAlike(f, g, n) ==
    f[0] = g[0] /\ \A i \in 1 .. n : f[i - 1] = g[i - 1] => f[i] = g[i]

(* Then they are the same.                                                 *)
LEMMA RunUnique ==
  \A n \in Nat : \A f, g : StayAlike(f, g, n) => \A i \in 0 .. n : f[i] = g[i]
<1> SUFFICES ASSUME NEW n \in Nat, NEW f, NEW g, f[0] = g[0],
                    \A i \in 1 .. n : f[i - 1] = g[i - 1] => f[i] = g[i]
             PROVE  \A i \in 0 .. n : f[i] = g[i]
  BY DEF StayAlike
<1> DEFINE Alike == {i \in Nat : i <= n => f[i] = g[i]}
<1>1. 0 \in Alike
  OBVIOUS
<1>2. ASSUME NEW i \in Nat, i \in Alike
      PROVE  i + 1 \in Alike
  <2>1. CASE i + 1 <= n
    <3>1. i + 1 \in 1 .. n /\ (i + 1) - 1 = i /\ f[i] = g[i]
      BY <1>2, <2>1
    <3> QED
      BY <3>1
  <2> QED
    BY <2>1
<1>3. Nat \subseteq Alike
  <2> HIDE DEF Alike
  <2> QED
    BY <1>1, <1>2, SetInduction
<1> QED
  BY <1>3

=============================================================================
