--------------------------- MODULE Recursion_proofs ---------------------------
(* Induction and recursion over 0..n as facts about sets and functions: P is a *)
(* set of numbers and step a function, where a theorem about a predicate or an  *)
(* operator could not be cited.                                                 *)
EXTENDS Integers, Sequences, SequenceTheorems, WellFoundedInduction, TLAPS

LEMMA LeastElement ==
    ASSUME NEW S \in SUBSET Nat, S # {}
    PROVE  \E i \in S : \A j \in S : i <= j
<1> DEFINE Less == OpToRel(<, Nat)
<1>1. \E i \in S : \A j \in S : ~ (<<j, i>> \in Less)
  BY NatLessThanWellFounded, WFMin
<1>2. ASSUME NEW i \in S, NEW j \in S, ~ (<<j, i>> \in Less) PROVE i <= j
  BY <1>2 DEF OpToRel
<1> HIDE DEF Less
<1> QED BY <1>1, <1>2

\* What holds of 0 and passes from each number to the next holds up to n.
LEMMA Induction ==
    ASSUME NEW n \in Nat, NEW P, 0 \in P, \A i \in 1..n : i - 1 \in P => i \in P
    PROVE  \A i \in 0..n : i \in P
<1> DEFINE Bad == {i \in 0..n : i \notin P}
<1> SUFFICES ASSUME Bad # {} PROVE FALSE
  OBVIOUS
<1>1. PICK i \in Bad : \A j \in Bad : i <= j
  <2>1. Bad \in SUBSET Nat
    OBVIOUS
  <2> HIDE DEF Bad
  <2> QED BY <2>1, LeastElement
<1>2. i \in 1..n /\ i - 1 \in 0..n /\ ~(i <= i - 1)
  BY <1>1
<1>3. i - 1 \notin Bad
  BY <1>1, <1>2
<1> QED BY <1>1, <1>2, <1>3

\* A function over 0..n starts with b and goes on by step[i] at each i.
Goes(g, n, S, b, step) ==
    g \in [0..n -> S] /\ g[0] = b /\ \A i \in 1..n : g[i] = step[i][g[i - 1]]

Steps(step, n, S) == \A i \in 1..n : \A x \in S : step[i][x] \in S

\* There is one.
LEMMA Recursion ==
    ASSUME NEW n \in Nat, NEW S, NEW b \in S, NEW step, Steps(step, n, S)
    PROVE  \E g : Goes(g, n, S, b, step)
<1> DEFINE Upto(m, g) == /\ g \in [0..m -> S] /\ g[0] = b
                         /\ \A i \in 1..m : g[i] = step[i][g[i - 1]]
           P == {m \in 0..n : \E g : Upto(m, g)}
<1>0. \A i \in 1..n, x \in S : step[i][x] \in S
  BY DEF Steps
<1>1. 0 \in P
  <2>1. Upto(0, [i \in 0..0 |-> b])
    OBVIOUS
  <2> HIDE DEF Upto
  <2> QED BY <2>1
<1>2. ASSUME NEW m \in 1..n, m - 1 \in P PROVE m \in P
  <2>1. PICK g : Upto(m - 1, g)
    BY <1>2
  <2> DEFINE h == [i \in 0..m |-> IF i = m THEN step[m][g[m - 1]] ELSE g[i]]
  <2>2. m - 1 \in 0..(m - 1) /\ 0 \in 0..(m - 1) /\ m # 0
    OBVIOUS
  <2>3. g[m - 1] \in S /\ step[m][g[m - 1]] \in S
    BY <1>0, <2>1, <2>2
  <2>4. \A i \in 0..m : i # m => i \in 0..(m - 1)
    OBVIOUS
  <2>5. h \in [0..m -> S]
    BY <2>1, <2>3, <2>4
  <2>6. h[0] = b
    BY <2>1, <2>2
  <2>7. ASSUME NEW i \in 1..m PROVE h[i] = step[i][h[i - 1]]
    <3>1. i \in 0..m /\ i - 1 \in 0..m /\ i - 1 # m
      OBVIOUS
    <3>2. h[i - 1] = g[i - 1]
      BY <3>1
    <3>3. CASE i = m
      BY <3>1, <3>2, <3>3
    <3>4. CASE i # m
      <4>1. i \in 1..(m - 1)
        BY <3>4
      <4> QED BY <2>1, <3>1, <3>2, <3>4, <4>1
    <3> QED BY <3>3, <3>4
  <2>8. Upto(m, h)
    BY <2>5, <2>6, <2>7
  <2> HIDE DEF Upto, h
  <2> QED BY <2>8
<1> HIDE DEF P
<1>3. \A m \in 0..n : m \in P
  BY <1>1, <1>2, Induction
<1>4. n \in P
  BY <1>3
<1> QED BY <1>4 DEF P, Goes

\* Any other that does, and any that starts with the same steps, is the same.
Unrolls(f, n, S, step) == \A i \in 1..n : f[i - 1] \in S => f[i] = step[i][f[i - 1]]

LEMMA Unrolled ==
    ASSUME NEW n \in Nat, NEW S, NEW b, NEW step, NEW g, Goes(g, n, S, b, step),
           NEW f, f[0] = b, Unrolls(f, n, S, step)
    PROVE  \A i \in 0..n : f[i] = g[i]
<1> DEFINE P == {i \in 0..n : f[i] = g[i]}
<1>1. g \in [0..n -> S] /\ g[0] = b /\ \A i \in 1..n : g[i] = step[i][g[i - 1]]
  BY DEF Goes
<1>2. 0 \in P
  BY <1>1
<1>3. ASSUME NEW i \in 1..n, i - 1 \in P PROVE i \in P
  <2>1. i - 1 \in 0..n /\ i \in 0..n
    OBVIOUS
  <2>2. f[i - 1] = g[i - 1] /\ f[i - 1] \in S
    BY <1>1, <1>3, <2>1
  <2> QED BY <1>1, <2>1, <2>2 DEF Unrolls
<1> HIDE DEF P
<1>4. \A i \in 0..n : i \in P
  BY <1>2, <1>3, Induction
<1> QED BY <1>4 DEF P

SameSteps(step, other, n) == \A i \in 1..n : step[i] = other[i]

LEMMA Agreeing ==
    ASSUME NEW n \in Nat, NEW m \in 0..n, NEW S, NEW b, NEW step, NEW other,
           NEW g, Goes(g, n, S, b, step), NEW h, Goes(h, m, S, b, other),
           SameSteps(step, other, m)
    PROVE  \A i \in 0..m : h[i] = g[i]
<1>1. g \in [0..n -> S] /\ g[0] = b /\ \A i \in 1..n : g[i] = step[i][g[i - 1]]
  BY DEF Goes
<1>2. \A i \in 1..m : i \in 1..n /\ i \in 0..m /\ i - 1 \in 0..m
  OBVIOUS
<1>3. Unrolls(g, m, S, other)
  BY <1>1, <1>2 DEF Unrolls, SameSteps
<1>4. m \in Nat
  OBVIOUS
<1>5. \A i \in 0..m : g[i] = h[i]
  BY <1>1, <1>3, <1>4, Unrolled
<1> QED BY <1>5
=============================================================================
