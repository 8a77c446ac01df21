-------------------------------- MODULE Loops -------------------------------
(***************************************************************************)
(* A loop over the bytes of a string, or over the members of a sequence,    *)
(* that does Turn with each.  A module has an instance for each of its      *)
(* loops, and in its proofs the theorems of the instance: no prover could   *)
(* apply a theorem with the operator Turn as its parameter.                 *)
(***************************************************************************)
EXTENDS Integers, Sequences, SequenceTheorems, WellFoundedInduction, TLAPS

CONSTANT Turn(_, _)

\* What the loop, having begun with start, is left with after the last turn.
After(start, s) ==
    LET at[n \in 0..Len(s)] == IF n = 0 THEN start ELSE Turn(at[n - 1], s[n])
    IN  at[Len(s)]

-----------------------------------------------------------------------------

\* A set of natural numbers with a member has a least one.
LEMMA LeastMember ==
    ASSUME NEW T \in SUBSET Nat, T # {}
    PROVE  \E m \in T : \A n \in T : m <= n
<1> DEFINE R == OpToRel(<, Nat)
<1>1. IsWellFoundedOn(R, Nat)
  BY NatLessThanWellFounded
<1>2. \A m, n \in Nat : <<m, n>> \in R <=> m < n
  BY DEF OpToRel
<1> HIDE DEF R
<1>3. PICK m \in T : \A n \in T : ~(<<n, m>> \in R)
  BY <1>1, WFMin
<1>4. ASSUME NEW n \in T PROVE m <= n
  <2>1. m \in Nat /\ n \in Nat /\ ~(n < m)
    BY <1>2, <1>3
  <2> QED BY <2>1
<1> QED BY <1>4

\* What holds of 0 and is passed on from each number to the next holds up to b.
LEMMA Climb ==
    ASSUME NEW b \in Nat, NEW S, 0 \in S,
           \A n \in 0..(b - 1) : n \in S => n + 1 \in S
    PROVE  \A n \in 0..b : n \in S
<1> DEFINE T == {n \in 0..b : n \notin S}
<1> SUFFICES ASSUME T # {} PROVE FALSE
  OBVIOUS
<1>1. T \in SUBSET Nat
  OBVIOUS
<1>2. PICK m \in T : \A n \in T : m <= n
  <2> HIDE DEF T
  <2> QED BY <1>1, LeastMember
<1>3. m \in 0..b /\ m # 0 /\ m - 1 \in 0..(b - 1) /\ ~(m <= m - 1)
  BY <1>2
<1>4. m - 1 \in T
  BY <1>2, <1>3
<1> QED BY <1>2, <1>3, <1>4

\* f has what the loop is left with after each of n turns.
Runs(f, start, s, n) ==
    f = [j \in 0..n |-> IF j = 0 THEN start ELSE Turn(f[j - 1], s[j])]

\* The loop can be run for any number of turns.
LEMMA RunExists ==
    ASSUME NEW start, NEW s, NEW n \in Nat
    PROVE  \E f : Runs(f, start, s, n)
<1> DEFINE S == {m \in Nat : \E f : Runs(f, start, s, m)}
<1>1. 0 \in S
  <2> DEFINE f == [j \in 0..0 |-> start]
  <2>1. \A j \in 0..0 : j = 0
    OBVIOUS
  <2>2. Runs(f, start, s, 0)
    BY <2>1 DEF Runs
  <2> QED BY <2>2
<1>2. ASSUME NEW m \in 0..(n - 1), m \in S PROVE m + 1 \in S
  <2>1. PICK f : Runs(f, start, s, m)
    BY <1>2
  <2> DEFINE g == [j \in 0..(m + 1) |-> IF j = m + 1 THEN Turn(f[m], s[m + 1]) ELSE f[j]]
  <2>2. ASSUME NEW j \in 0..(m + 1)
        PROVE  g[j] = IF j = 0 THEN start ELSE Turn(g[j - 1], s[j])
    <3>1. CASE j = m + 1
      <4>1. j # 0 /\ j - 1 = m /\ m \in 0..(m + 1) /\ m # m + 1
        BY <3>1
      <4>2. g[j - 1] = f[m] /\ g[j] = Turn(f[m], s[j])
        BY <3>1, <4>1
      <4> QED BY <4>1, <4>2
    <3>2. CASE j # m + 1
      <4>1. j \in 0..m /\ g[j] = f[j]
        BY <3>2
      <4>2. CASE j = 0
        BY <2>1, <4>1, <4>2 DEF Runs
      <4>3. CASE j # 0
        <5>1. j - 1 \in 0..(m + 1) /\ j - 1 # m + 1
          BY <4>1, <4>3
        <5>2. g[j - 1] = f[j - 1]
          BY <5>1
        <5>3. f[j] = Turn(f[j - 1], s[j])
          BY <2>1, <4>1, <4>3 DEF Runs
        <5> QED BY <4>1, <4>3, <5>2, <5>3
      <4> QED BY <4>2, <4>3
    <3> QED BY <3>1, <3>2
  <2>3. g = [j \in 0..(m + 1) |-> g[j]]
    OBVIOUS
  <2> HIDE DEF g
  <2>4. Runs(g, start, s, m + 1)
    BY <2>2, <2>3 DEF Runs
  <2> QED BY <1>2, <2>4
<1>3. \A m \in 0..n : m \in S
  <2> HIDE DEF S
  <2> QED BY <1>1, <1>2, Climb
<1> QED BY <1>3

\* f has what the loop over s is left with after each turn.
Trace(f, start, s) ==
    /\ f[0] = start /\ f[Len(s)] = After(start, s)
    /\ \A n \in 1..Len(s) : f[n] = Turn(f[n - 1], s[n])

\* Every loop over a sequence runs to its end.
THEOREM LoopRuns ==
    ASSUME NEW B, NEW s \in Seq(B), NEW start
    PROVE  \E f : Trace(f, start, s)
<1> DEFINE N == Len(s)
           f == CHOOSE f : Runs(f, start, s, N)
<1>1. N \in Nat
  OBVIOUS
<1>2. Runs(f, start, s, N)
  <2>1. \E g : Runs(g, start, s, N)
    <3> HIDE DEF N
    <3> QED BY <1>1, RunExists
  <2> QED BY <2>1, Zenon
<1>3. After(start, s) = f[N]
  BY DEF After, Runs
<1> HIDE DEF f, N
<1>4. f[0] = start /\ \A n \in 1..N : f[n] = Turn(f[n - 1], s[n])
  BY <1>1, <1>2 DEF Runs
<1> QED BY <1>3, <1>4 DEF Trace, N

\* Two runs that begin alike, over sequences that do, are alike so far.
LEMMA SameTraces ==
    ASSUME NEW B, NEW s \in Seq(B), NEW t \in Seq(B), NEW start,
           NEW f, Trace(f, start, s), NEW g, Trace(g, start, t),
           NEW m \in Nat, m <= Len(s), m <= Len(t), \A n \in 1..m : s[n] = t[n]
    PROVE  \A n \in 0..m : f[n] = g[n]
<1> DEFINE S == {n \in Nat : f[n] = g[n]}
<1>1. 0 \in S
  BY DEF Trace
<1>2. \A n \in 0..(m - 1) : n \in S => n + 1 \in S
  <2> SUFFICES ASSUME NEW n \in 0..(m - 1), n \in S PROVE n + 1 \in S
    OBVIOUS
  <2>1. n + 1 \in 1..m /\ (n + 1) - 1 = n /\ n + 1 \in 1..Len(s) /\ n + 1 \in 1..Len(t)
    OBVIOUS
  <2>2. f[n + 1] = Turn(f[n], s[n + 1]) /\ g[n + 1] = Turn(g[n], t[n + 1])
    BY <2>1 DEF Trace
  <2> QED BY <2>1, <2>2
<1>3. \A n \in 0..m : n \in S
  <2> HIDE DEF S
  <2> QED BY <1>1, <1>2, Climb
<1> QED BY <1>3

\* A loop over nothing is left with what it began with, and one more member
\* is one more turn.
THEOREM LoopAppend ==
    ASSUME NEW B, NEW s \in Seq(B), NEW b \in B, NEW start
    PROVE  /\ After(start, <<>>) = start
           /\ After(start, Append(s, b)) = Turn(After(start, s), b)
<1>1. After(start, <<>>) = start
  <2>1. <<>> \in Seq(B) /\ Len(<<>>) = 0
    OBVIOUS
  <2>2. PICK f : Trace(f, start, <<>>)
    BY <2>1, LoopRuns
  <2> QED BY <2>1, <2>2 DEF Trace
<1> DEFINE t == Append(s, b)
           m == Len(s)
<1>2. /\ t \in Seq(B) /\ Len(t) = m + 1 /\ m \in Nat /\ t[m + 1] = b
      /\ \A n \in 1..m : s[n] = t[n]
  OBVIOUS
<1> HIDE DEF t
<1>3. PICK f : Trace(f, start, s)
  BY LoopRuns
<1>4. PICK g : Trace(g, start, t)
  BY <1>2, LoopRuns
<1>5. m <= Len(s) /\ m <= Len(t)
  BY <1>2
<1>6. f[m] = g[m]
  BY <1>2, <1>3, <1>4, <1>5, SameTraces
<1>7. m + 1 \in 1..Len(t) /\ (m + 1) - 1 = m
  BY <1>2
<1>8. g[m + 1] = Turn(g[m], t[m + 1])
  BY <1>4, <1>7 DEF Trace
<1>9. f[m] = After(start, s) /\ g[m + 1] = After(start, t)
  BY <1>2, <1>3, <1>4 DEF Trace
<1> QED BY <1>1, <1>2, <1>6, <1>8, <1>9 DEF t

=============================================================================
