----------------------------- MODULE FoldProofs -----------------------------
(***************************************************************************)
(* Facts about numbers, folds and sequences that the proofs of several     *)
(* components need.  Where induction is needed the predicate is a set: a   *)
(* number is in it, or is not.                                             *)
(***************************************************************************)
EXTENDS SeqFilter, FiniteSetTheorems, WellFoundedInduction, TLAPS

-----------------------------------------------------------------------------
(* Induction and positions.                                                 *)

\* A nonempty set of naturals has a least member.
LEMMA LeastNat ==
  ASSUME NEW S \in SUBSET Nat, S # {}
  PROVE  \E n \in S : \A m \in S : n <= m
  <1>1. PICK n \in S : \A m \in S : ~(<<m, n>> \in OpToRel(<, Nat))
    BY NatLessThanWellFounded, WFMin
  <1>2. \A m \in S : ~(m < n)
    BY <1>1 DEF OpToRel
  <1> QED
    BY <1>2

\* Induction over the naturals, with a set in place of a predicate.
LEMMA NatSetInduction ==
  ASSUME NEW S, 0 \in S, \A n \in Nat : n \in S => n + 1 \in S
  PROVE  Nat \subseteq S
  <1> SUFFICES ASSUME Nat \ S # {} PROVE FALSE
    OBVIOUS
  <1>1. PICK n \in Nat \ S : \A m \in Nat \ S : n <= m
    BY LeastNat
  <1>2. n - 1 \in Nat /\ n - 1 \in S
    BY <1>1
  <1> QED
    BY <1>2

\* The same up to a bound: a set that holds 0 and is closed under one step
\* holds every number up to n.
LEMMA StepInduction ==
  ASSUME NEW n \in Nat, NEW S, 0 \in S, \A i \in 1..n : i - 1 \in S => i \in S
  PROVE  \A i \in 0..n : i \in S
  <1> DEFINE T == {i \in Nat : i <= n => i \in S}
  <1>1. 0 \in T
    OBVIOUS
  <1>2. ASSUME NEW i \in Nat, i \in T
        PROVE  i + 1 \in T
    <2>1. i + 1 <= n => i + 1 \in 1..n /\ (i + 1) - 1 = i
      OBVIOUS
    <2> QED
      BY <1>2, <2>1
  <1>3. Nat \subseteq T
    <2> HIDE DEF T
    <2> QED
      BY <1>1, <1>2, NatSetInduction
  <1> QED
    BY <1>3

\* The largest of a set of positions, when it is the last one.
LEMMA MaxOfInterval ==
  ASSUME NEW k \in Nat, NEW s \in SUBSET (1..(k+1)), k + 1 \in s
  PROVE  Max(s) = k + 1
  <1>1. \A y \in s : k + 1 >= y
    OBVIOUS
  <1>2. \A x \in s : (\A y \in s : x >= y) => x = k + 1
    OBVIOUS
  <1> QED
    BY <1>1, <1>2 DEF Max

\* A nonempty set of positions has a largest, and Max finds it.
LEMMA MaxInside ==
  ASSUME NEW k \in Nat, NEW s \in SUBSET (1..k), s # {}
  PROVE  Max(s) \in s
  <1> DEFINE T == {j \in Nat : s \subseteq 1..j}
  <1>1. k \in T
    OBVIOUS
  <1>2. PICK j \in T : \A i \in T : j <= i
    BY <1>1, LeastNat
  <1>3. j \in s
    <2> SUFFICES ASSUME j \notin s PROVE FALSE
      OBVIOUS
    <2>1. \A x \in s : x \in 1..j /\ x # j
      OBVIOUS
    <2>2. \A x \in s : x \in 1..(j - 1)
      BY <2>1
    <2>3. PICK x \in s : TRUE
      OBVIOUS
    <2>4. j - 1 \in Nat
      BY <2>1, <2>3
    <2>5. j - 1 \in T
      BY <2>2, <2>4
    <2> QED
      BY <2>5, <1>2
  <1>4. \A y \in s : j >= y
    OBVIOUS
  <1> QED
    BY <1>3, <1>4 DEF Max

-----------------------------------------------------------------------------
(* Loops.                                                                   *)

\* g is a run of a loop of n steps, the i-th of which takes the state g[i - 1]
\* to F[<<i, g[i - 1]>>].
LoopRun(g, n, F, base) == g[0] = base /\ \A i \in 1..n : g[i] = F[<<i, g[i - 1]>>]

\* The loop has a run, in the states that its steps keep.
LEMMA StepsExist ==
  ASSUME NEW n \in Nat, NEW P, NEW F \in [(1..n) \X P -> P], NEW base \in P
  PROVE  \E g \in [0..n -> P] : LoopRun(g, n, F, base)
  <1> DEFINE Runs(k) == \E g \in [0..k -> P] : g[0] = base /\ \A i \in 1..k : g[i] = F[<<i, g[i - 1]>>]
             S == {k \in 0..n : Runs(k)}
  <1>1. 0 \in S
    <2> DEFINE g == [i \in 0..0 |-> base]
    <2>1. g \in [0..0 -> P] /\ g[0] = base /\ \A i \in 1..0 : g[i] = F[<<i, g[i - 1]>>]
      OBVIOUS
    <2> HIDE DEF g
    <2>2. Runs(0)
      BY <2>1
    <2> HIDE DEF Runs
    <2> QED
      BY <2>2
  <1>2. ASSUME NEW k \in 1..n, k - 1 \in S
        PROVE  k \in S
    <2>1. PICK g \in [0..(k - 1) -> P] :
             g[0] = base /\ \A i \in 1..(k - 1) : g[i] = F[<<i, g[i - 1]>>]
      BY <1>2
    <2>2. k \in Nat /\ k # 0 /\ k - 1 \in 0..(k - 1) /\ k \in 0..n /\ 0 \in 0..(k - 1)
      OBVIOUS
    <2>3. g[k - 1] \in P
      BY <2>1, <2>2
    <2> DEFINE next == F[<<k, g[k - 1]>>]
    <2>4. next \in P
      BY <2>3
    <2> HIDE DEF next
    <2> DEFINE h == [i \in 0..k |-> IF i = k THEN next ELSE g[i]]
    <2>5. /\ DOMAIN h = 0..k /\ h = [i \in 0..k |-> h[i]] /\ h[k] = next
          /\ \A i \in 0..k : i # k => i \in 0..(k - 1) /\ h[i] = g[i]
      BY <2>2
    <2> HIDE DEF h
    <2>6. h \in [0..k -> P]
      <3>1. \A i \in 0..k : h[i] \in P
        BY <2>1, <2>4, <2>5
      <3> QED
        BY <2>5, <3>1
    <2>7. h[0] = base
      BY <2>1, <2>2, <2>5
    <2>8. ASSUME NEW i \in 1..k
          PROVE  h[i] = F[<<i, h[i - 1]>>]
      <3>1. i - 1 \in 0..k /\ i - 1 # k /\ i \in 0..k
        BY <2>2
      <3>2. h[i - 1] = g[i - 1]
        BY <2>5, <3>1
      <3>3. CASE i = k
        BY <2>5, <3>2, <3>3 DEF next
      <3>4. CASE i # k
        <4>1. i \in 1..(k - 1) /\ h[i] = g[i]
          BY <2>5, <3>1, <3>4
        <4> QED
          BY <2>1, <3>2, <4>1
      <3> QED
        BY <3>3, <3>4
    <2>9. Runs(k)
      BY <2>6, <2>7, <2>8
    <2> HIDE DEF Runs
    <2> QED
      BY <2>2, <2>9
  <1>3. n \in S
    <2> HIDE DEF S
    <2>1. \A i \in 0..n : i \in S
      BY <1>1, <1>2, StepInduction
    <2> QED
      BY <2>1
  <1> QED
    BY <1>3 DEF LoopRun

-----------------------------------------------------------------------------
(* Folds over transactions.                                                 *)

\* g is the function over sets of positions that a fold of F is defined by.
FoldedBy(g, F, base, seq) ==
    g = [s \in SUBSET (1..Len(seq)) |->
            IF s = {} THEN base ELSE F[<<g[s \ {Max(s)}], seq[Max(s)]>>]]

\* It exists, and its values are of the type F keeps.
LEMMA FoldExists ==
  ASSUME NEW P, NEW E, NEW F \in [P \X E -> P], NEW base \in P, NEW seq \in Seq(E)
  PROVE  \E g : FoldedBy(g, F, base, seq) /\ \A s \in SUBSET (1..Len(seq)) : g[s] \in P
  <1> DEFINE n == Len(seq)
             Body(g, s) == IF s = {} THEN base ELSE F[<<g[s \ {Max(s)}], seq[Max(s)]>>]
             Good(k) == \E g : /\ g = [s \in SUBSET (1..k) |-> Body(g, s)]
                               /\ \A s \in SUBSET (1..k) : g[s] \in P
  <1>1. n \in Nat /\ \A i \in 1..n : seq[i] \in E
    OBVIOUS
  <1>2. Good(0)
    <2> DEFINE g == [s \in SUBSET (1..0) |-> base]
    <2>1. g = [s \in SUBSET (1..0) |-> Body(g, s)]
      OBVIOUS
    <2>2. \A s \in SUBSET (1..0) : g[s] \in P
      OBVIOUS
    <2> HIDE DEF g
    <2> QED
      BY <2>1, <2>2
  <1>3. ASSUME NEW k \in 0..(n - 1), Good(k)
        PROVE  Good(k + 1)
    <2>1. PICK g : g = [s \in SUBSET (1..k) |-> Body(g, s)] /\ \A s \in SUBSET (1..k) : g[s] \in P
      BY <1>3
    <2>0. k \in Nat /\ seq[k + 1] \in E
      BY <1>1
    <2> DEFINE h == [s \in SUBSET (1..(k + 1)) |->
                        IF k + 1 \in s THEN F[<<g[s \ {k + 1}], seq[k + 1]>>] ELSE g[s]]
    <2>2. ASSUME NEW s \in SUBSET (1..(k + 1))
          PROVE  h[s] = Body(h, s) /\ h[s] \in P
      <3>1. CASE k + 1 \in s
        <4>1. Max(s) = k + 1
          BY <2>0, <3>1, MaxOfInterval
        <4>2. s \ {k + 1} \in SUBSET (1..k) /\ s \ {k + 1} \in SUBSET (1..(k + 1)) /\ k + 1 \notin s \ {k + 1}
          BY <2>0
        <4>3. h[s \ {k + 1}] = g[s \ {k + 1}]
          BY <4>2
        <4>4. h[s] = F[<<g[s \ {k + 1}], seq[k + 1]>>]
          BY <3>1
        <4>5. h[s] \in P
          <5>1. g[s \ {k + 1}] \in P
            BY <2>1, <4>2
          <5> HIDE DEF h
          <5> QED
            BY <2>0, <4>4, <5>1
        <4> QED
          BY <3>1, <4>1, <4>3, <4>4, <4>5
      <3>2. CASE k + 1 \notin s
        <4>1. s \in SUBSET (1..k)
          BY <2>0, <3>2
        <4>2. h[s] = g[s] /\ g[s] = Body(g, s) /\ g[s] \in P
          BY <2>1, <3>2, <4>1
        <4>3. CASE s = {}
          BY <4>2, <4>3
        <4>4. CASE s # {}
          <5>1. Max(s) \in s
            BY <2>0, <4>1, <4>4, MaxInside
          <5>2. s \ {Max(s)} \in SUBSET (1..(k + 1)) /\ k + 1 \notin s \ {Max(s)}
            BY <3>2
          <5>3. h[s \ {Max(s)}] = g[s \ {Max(s)}]
            BY <5>2
          <5> QED
            BY <4>2, <4>4, <5>3
        <4> QED
          BY <4>3, <4>4
      <3> QED
        BY <3>1, <3>2
    <2> HIDE DEF h, Body
    <2>3. h = [s \in SUBSET (1..(k + 1)) |-> Body(h, s)]
      BY <2>2 DEF h
    <2> QED
      BY <2>2, <2>3
  <1>4. Good(n)
    <2> HIDE DEF Good
    <2> DEFINE S == {k \in 0..n : Good(k)}
    <2>1. 0 \in S
      BY <1>1, <1>2
    <2>2. \A i \in 1..n : i - 1 \in S => i \in S
      <3> SUFFICES ASSUME NEW i \in 1..n, i - 1 \in S PROVE i \in S
        OBVIOUS
      <3>1. i - 1 \in 0..(n - 1) /\ (i - 1) + 1 = i /\ i \in 0..n
        BY <1>1
      <3>2. Good((i - 1) + 1)
        BY <1>3, <3>1
      <3> QED
        BY <3>1, <3>2
    <2>3. n \in S
      <3> HIDE DEF S
      <3>1. \A i \in 0..n : i \in S
        BY <1>1, <2>1, <2>2, StepInduction
      <3> QED
        BY <1>1, <3>1
    <2> QED
      BY <2>3
  <1> QED
    BY <1>4 DEF FoldedBy

\* What it says of the sets 1..i.
LEMMA FoldInOrder ==
  ASSUME NEW n \in Nat, NEW i \in 1..n
  PROVE  /\ 1..i \in SUBSET (1..n) /\ 1..i # {} /\ Max(1..i) = i
         /\ (1..i) \ {Max(1..i)} = 1..(i - 1) /\ 1..(i - 1) \in SUBSET (1..n)
  <1>1. i \in 1..i /\ 1..i \in SUBSET (1..n) /\ 1..(i - 1) \in SUBSET (1..n)
    OBVIOUS
  <1>2. Max(1..i) = i
    <2>1. i - 1 \in Nat /\ (i - 1) + 1 = i
      OBVIOUS
    <2> QED
      BY <1>1, <2>1, MaxOfInterval
  <1>3. (1..i) \ {i} = 1..(i - 1)
    OBVIOUS
  <1> QED
    BY <1>1, <1>2, <1>3

-----------------------------------------------------------------------------
(* What FlattenSeq and Those compute.                                       *)

\* g is the function FlattenSeq is defined by.
FlattenedBy(g, ss) ==
    g = [i \in 1..Len(ss) |-> IF i = 1 THEN ss[i] ELSE g[i - 1] \o ss[i]]

\* It exists.
LEMMA FlattenExists ==
  ASSUME NEW E, NEW ss \in Seq(Seq(E))
  PROVE  \E g : FlattenedBy(g, ss) /\ \A i \in 1..Len(ss) : g[i] \in Seq(E)
  <1> DEFINE n == Len(ss)
             Good(k) == \E g : /\ g = [i \in 1..k |-> IF i = 1 THEN ss[i] ELSE g[i - 1] \o ss[i]]
                               /\ \A i \in 1..k : g[i] \in Seq(E)
             S == {k \in 0..n : Good(k)}
  <1>1. n \in Nat /\ \A i \in 1..n : ss[i] \in Seq(E)
    OBVIOUS
  <1>2. 0 \in S
    <2> DEFINE g == [i \in 1..0 |-> ss[i]]
    <2>1. g = [i \in 1..0 |-> IF i = 1 THEN ss[i] ELSE g[i - 1] \o ss[i]]
      OBVIOUS
    <2>2. \A i \in 1..0 : g[i] \in Seq(E)
      OBVIOUS
    <2> HIDE DEF g
    <2>3. Good(0)
      BY <2>1, <2>2
    <2>4. 0 \in 0..n
      BY <1>1
    <2> HIDE DEF Good
    <2> QED
      BY <2>3, <2>4
  <1>3. ASSUME NEW k \in 1..n, k - 1 \in S
        PROVE  k \in S
    <2>1. PICK g : /\ g = [i \in 1..(k - 1) |-> IF i = 1 THEN ss[i] ELSE g[i - 1] \o ss[i]]
                   /\ \A i \in 1..(k - 1) : g[i] \in Seq(E)
      BY <1>3
    <2> DEFINE last == IF k = 1 THEN ss[k] ELSE g[k - 1] \o ss[k]
               h == [i \in 1..k |-> IF i = k THEN last ELSE g[i]]
    <2>2. k \in Nat /\ ss[k] \in Seq(E) /\ last \in Seq(E)
      <3>1. k \in Nat /\ ss[k] \in Seq(E)
        BY <1>1
      <3>2. k # 1 => g[k - 1] \in Seq(E)
        BY <1>1, <2>1
      <3> QED
        BY <3>1, <3>2
    <2> HIDE DEF last
    <2>3. ASSUME NEW i \in 1..k
          PROVE  h[i] = (IF i = 1 THEN ss[i] ELSE h[i - 1] \o ss[i]) /\ h[i] \in Seq(E)
      <3>1. CASE i = k
        <4>1. h[i] = last
          BY <3>1
        <4>2. k # 1 => h[k - 1] = g[k - 1]
          BY <2>2
        <4> HIDE DEF h
        <4> QED
          BY <2>2, <3>1, <4>1, <4>2 DEF last
      <3>2. CASE i # k
        <4>1. i \in 1..(k - 1) /\ i \in Nat
          BY <2>2, <3>2
        <4>2. h[i] = g[i]
          BY <3>2
        <4>3. i # 1 => h[i - 1] = g[i - 1]
          BY <2>2, <4>1
        <4>4. g[i] = (IF i = 1 THEN ss[i] ELSE g[i - 1] \o ss[i]) /\ g[i] \in Seq(E)
          BY <2>1, <4>1
        <4> HIDE DEF h
        <4> QED
          BY <4>2, <4>3, <4>4
      <3> QED
        BY <3>1, <3>2
    <2>4. h = [i \in 1..k |-> IF i = 1 THEN ss[i] ELSE h[i - 1] \o ss[i]]
      <3>1. h = [i \in 1..k |-> h[i]]
        OBVIOUS
      <3> HIDE DEF h
      <3> QED
        BY <2>3, <3>1
    <2> HIDE DEF h
    <2>5. Good(k)
      BY <2>3, <2>4
    <2>6. k \in 0..n
      BY <1>1
    <2> HIDE DEF Good
    <2> QED
      BY <2>5, <2>6
  <1>4. n \in S
    <2> HIDE DEF S, n
    <2>1. \A i \in 0..n : i \in S
      BY <1>1, <1>2, <1>3, StepInduction
    <2> QED
      BY <1>1, <2>1
  <1> QED
    BY <1>4 DEF FlattenedBy

\* Where the elements of the sequences are: off[i] elements come from the
\* first i of them.
Offsets(off, ss) ==
    /\ off \in [0..Len(ss) -> Nat] /\ off[0] = 0
    /\ \A i \in 1..Len(ss) : off[i] = off[i - 1] + Len(ss[i])
    /\ Len(FlattenSeq(ss)) = off[Len(ss)]
    /\ \A i \in 1..Len(ss) : \A j \in 1..Len(ss[i]) :
          /\ off[i - 1] + j \in 1..off[Len(ss)]
          /\ FlattenSeq(ss)[off[i - 1] + j] = ss[i][j]

\* FlattenSeq is the concatenation, in order.
LEMMA FlattenIs ==
  ASSUME NEW E, NEW ss \in Seq(Seq(E))
  PROVE  FlattenSeq(ss) \in Seq(E) /\ \E off : Offsets(off, ss)
  <1> DEFINE n == Len(ss)
  <1>1. n \in Nat /\ \A i \in 1..n : ss[i] \in Seq(E) /\ Len(ss[i]) \in Nat
    OBVIOUS
  <1>2. CASE n = 0
    <2>1. ss = <<>> /\ FlattenSeq(ss) = <<>>
      BY <1>2 DEF FlattenSeq
    <2> DEFINE off == [i \in 0..0 |-> 0]
    <2>2. Offsets(off, ss)
      BY <2>1 DEF Offsets
    <2> HIDE DEF off
    <2>3. <<>> \in Seq(E)
      OBVIOUS
    <2> QED
      BY <2>1, <2>2, <2>3
  <1>3. CASE n # 0
    <2> DEFINE g == CHOOSE h : h = [i \in 1..n |-> IF i = 1 THEN ss[i] ELSE h[i - 1] \o ss[i]]
               off == [i \in 0..n |-> IF i = 0 THEN 0 ELSE Len(g[i])]
    <2>1. FlattenSeq(ss) = g[n]
      BY <1>1, <1>3 DEF FlattenSeq
    <2>2. g = [i \in 1..n |-> IF i = 1 THEN ss[i] ELSE g[i - 1] \o ss[i]]
      <3>1. \E h : h = [i \in 1..n |-> IF i = 1 THEN ss[i] ELSE h[i - 1] \o ss[i]]
        <4>1. PICK h : FlattenedBy(h, ss)
          BY FlattenExists
        <4> QED
          BY <4>1 DEF FlattenedBy
      <3> QED
        BY <3>1, Zenon
    <2> HIDE DEF g
    <2> DEFINE S == {i \in 0..n : i > 0 => g[i] \in Seq(E)}
    <2>3. 0 \in S
      BY <1>1
    <2>4. ASSUME NEW i \in 1..n, i - 1 \in S
          PROVE  i \in S
      <3>1. (i = 1 \/ i - 1 > 0) /\ i \in 0..n
        BY <1>1
      <3>2. g[i] = IF i = 1 THEN ss[i] ELSE g[i - 1] \o ss[i]
        BY <2>2
      <3>3. i # 1 => g[i - 1] \in Seq(E)
        BY <2>4, <3>1
      <3>4. g[i] \in Seq(E)
        BY <1>1, <3>2, <3>3
      <3> QED
        BY <3>1, <3>4
    <2>5. \A i \in 1..n : g[i] \in Seq(E)
      <3> HIDE DEF S
      <3>1. \A i \in 0..n : i \in S
        <4> HIDE DEF n
        <4> QED
          BY <1>1, <2>3, <2>4, StepInduction
      <3>2. \A i \in 1..n : i \in 0..n /\ i > 0
        BY <1>1
      <3> QED
        BY <3>1, <3>2 DEF S
    <2>6. off \in [0..n -> Nat] /\ off[0] = 0 /\ off[n] = Len(g[n])
      BY <1>1, <1>3, <2>5
    <2>7. ASSUME NEW i \in 1..n
          PROVE  /\ off[i] = Len(g[i]) /\ off[i] = off[i - 1] + Len(ss[i])
                 /\ \A j \in 1..Len(ss[i]) : off[i - 1] + j \in 1..off[i] /\ g[i][off[i - 1] + j] = ss[i][j]
                 /\ i > 1 => \A k \in 1..off[i - 1] : k \in 1..off[i] /\ g[i][k] = g[i - 1][k]
      <3>1. CASE i = 1
        <4>1. g[i] = ss[i] /\ off[i] = Len(g[i]) /\ off[i - 1] = 0
          BY <1>1, <2>2, <3>1
        <4> HIDE DEF off
        <4> QED
          BY <1>1, <3>1, <4>1
      <3>2. CASE i # 1
        <4>1. g[i] = g[i - 1] \o ss[i] /\ g[i - 1] \in Seq(E) /\ off[i] = Len(g[i]) /\ off[i - 1] = Len(g[i - 1])
          <5>1. i \in Nat /\ i > 1 /\ i - 1 \in 1..n /\ i \in 0..n /\ i - 1 \in 0..n /\ i # 0 /\ i - 1 # 0
            BY <1>1, <3>2
          <5>2. g[i] = IF i = 1 THEN ss[i] ELSE g[i - 1] \o ss[i]
            BY <2>2
          <5>3. off[i] = Len(g[i]) /\ off[i - 1] = Len(g[i - 1])
            BY <5>1
          <5> HIDE DEF off
          <5> QED
            BY <2>5, <3>2, <5>1, <5>2, <5>3
        <4> DEFINE a == g[i - 1]
                   b == ss[i]
        <4>2. a \in Seq(E) /\ b \in Seq(E)
          BY <1>1, <4>1
        <4> HIDE DEF off, a, b
        <4>3. Len(a \o b) = Len(a) + Len(b) /\ Len(a) \in Nat /\ Len(b) \in Nat
          BY <4>2
        <4>4. \A j \in 1..Len(b) : Len(a) + j \in 1..Len(a \o b) /\ (a \o b)[Len(a) + j] = b[j]
          BY <4>2, <4>3
        <4>5. \A k \in 1..Len(a) : k \in 1..Len(a \o b) /\ (a \o b)[k] = a[k]
          BY <4>2, <4>3
        <4> QED
          BY <4>1, <4>3, <4>4, <4>5 DEF a, b
      <3> QED
        BY <3>1, <3>2
    <2> HIDE DEF off
    <2> DEFINE C(i) == \A m \in 1..i : \A j \in 1..Len(ss[m]) :
                          off[m - 1] + j \in 1..off[i] /\ g[i][off[m - 1] + j] = ss[m][j]
               T == {i \in 0..n : C(i)}
    <2>8. 0 \in T
      BY <1>1
    <2>9. ASSUME NEW i \in 1..n, i - 1 \in T
          PROVE  i \in T
      <3>1. C(i - 1)
        BY <2>9
      <3>2. ASSUME NEW m \in 1..i, NEW j \in 1..Len(ss[m])
            PROVE  off[m - 1] + j \in 1..off[i] /\ g[i][off[m - 1] + j] = ss[m][j]
        <4>1. CASE m = i
          BY <2>7, <4>1
        <4>2. CASE m # i
          <5>1. m \in 1..(i - 1) /\ i > 1
            BY <1>1, <4>2
          <5>2. off[m - 1] + j \in 1..off[i - 1] /\ g[i - 1][off[m - 1] + j] = ss[m][j]
            BY <3>1, <5>1
          <5>3. \A k \in 1..off[i - 1] : k \in 1..off[i] /\ g[i][k] = g[i - 1][k]
            BY <2>7, <5>1
          <5> QED
            BY <5>2, <5>3
        <4> QED
          BY <4>1, <4>2
      <3>3. C(i) /\ i \in 0..n
        BY <1>1, <3>2
      <3> HIDE DEF C
      <3> QED
        BY <3>3
    <2>10. C(n)
      <3> HIDE DEF C
      <3>1. \A i \in 0..n : i \in T
        <4> HIDE DEF n, T
        <4> QED
          BY <1>1, <2>8, <2>9, StepInduction
      <3> QED
        BY <1>1, <3>1
    <2>11. g[n] \in Seq(E)
      BY <1>1, <1>3, <2>5
    <2>12. Offsets(off, ss)
      BY <2>1, <2>6, <2>7, <2>10 DEF Offsets
    <2> QED
      BY <2>1, <2>11, <2>12
  <1> QED
    BY <1>2, <1>3

\* It holds the elements of each of the sequences.
LEMMA FlattenHolds ==
  ASSUME NEW E, NEW ss \in Seq(Seq(E)), NEW i \in 1..Len(ss), NEW j \in 1..Len(ss[i])
  PROVE  \E k \in 1..Len(FlattenSeq(ss)) : FlattenSeq(ss)[k] = ss[i][j]
  <1>1. PICK off : Offsets(off, ss)
    BY FlattenIs
  <1> QED
    BY <1>1 DEF Offsets

\* The step of Those.
KeepIf(S, kept, t) == IF t \in S THEN Append(kept, t) ELSE kept

\* Those takes one element after the other.
LEMMA ThoseRun ==
  ASSUME NEW E, NEW seq \in Seq(E), NEW S
  PROVE  \E g : /\ g[0] = <<>> /\ g[Len(seq)] = Those(seq, S)
                /\ \A i \in 1..Len(seq) : g[i] = KeepIf(S, g[i - 1], seq[i])
  <1> DEFINE n == Len(seq)
             F == [x \in Seq(E) \X E |-> KeepIf(S, x[1], x[2])]
             iter == CHOOSE g : g = [s \in SUBSET (1..n) |->
                        IF s = {} THEN <<>> ELSE KeepIf(S, g[s \ {Max(s)}], seq[Max(s)])]
  <1>1. n \in Nat /\ DOMAIN seq = 1..n /\ \A i \in 1..n : seq[i] \in E
    OBVIOUS
  <1>2. F \in [Seq(E) \X E -> Seq(E)] /\ \A x \in Seq(E), t \in E : F[<<x, t>>] = KeepIf(S, x, t)
    BY DEF KeepIf
  <1>3. PICK g : FoldedBy(g, F, <<>>, seq) /\ \A s \in SUBSET (1..n) : g[s] \in Seq(E)
    <2> HIDE DEF F
    <2>1. <<>> \in Seq(E)
      OBVIOUS
    <2> QED
      BY <1>2, <2>1, FoldExists
  <1> HIDE DEF F
  <1>4. \E h : h = [s \in SUBSET (1..n) |->
                   IF s = {} THEN <<>> ELSE KeepIf(S, h[s \ {Max(s)}], seq[Max(s)])]
    <2>1. ASSUME NEW s \in SUBSET (1..n)
          PROVE  g[s] = IF s = {} THEN <<>> ELSE KeepIf(S, g[s \ {Max(s)}], seq[Max(s)])
      <3>1. CASE s = {}
        BY <1>3, <3>1 DEF FoldedBy
      <3>2. CASE s # {}
        <4>1. Max(s) \in 1..n /\ s \ {Max(s)} \in SUBSET (1..n)
          BY <1>1, <3>2, MaxInside
        <4>2. g[s \ {Max(s)}] \in Seq(E) /\ seq[Max(s)] \in E
          BY <1>1, <1>3, <4>1
        <4>3. g[s] = F[<<g[s \ {Max(s)}], seq[Max(s)]>>]
          BY <1>3, <3>2 DEF FoldedBy
        <4> QED
          BY <1>2, <3>2, <4>2, <4>3
      <3> QED
        BY <3>1, <3>2
    <2>2. g = [s \in SUBSET (1..n) |-> g[s]]
      BY <1>3 DEF FoldedBy
    <2>3. g = [s \in SUBSET (1..n) |-> IF s = {} THEN <<>> ELSE KeepIf(S, g[s \ {Max(s)}], seq[Max(s)])]
      BY <2>1, <2>2
    <2> QED
      BY <2>3
  <1>5. iter = [s \in SUBSET (1..n) |->
                   IF s = {} THEN <<>> ELSE KeepIf(S, iter[s \ {Max(s)}], seq[Max(s)])]
    BY <1>4
  <1>6. Those(seq, S) = iter[1..n]
    BY <1>1 DEF Those, FoldLeft, MapThenFoldSet, KeepIf
  <1> HIDE DEF iter
  <1> DEFINE r == [i \in 0..n |-> iter[1..i]]
  <1>7. r[0] = <<>> /\ r[n] = Those(seq, S)
    <2>1. iter[1..0] = <<>>
      BY <1>1, <1>5
    <2> QED
      BY <1>1, <1>6, <2>1
  <1>8. ASSUME NEW i \in 1..n
        PROVE  r[i] = KeepIf(S, r[i - 1], seq[i])
    <2>1. /\ 1..i \in SUBSET (1..n) /\ 1..i # {} /\ Max(1..i) = i
          /\ (1..i) \ {Max(1..i)} = 1..(i - 1)
      BY <1>1, FoldInOrder
    <2>2. iter[1..i] = KeepIf(S, iter[(1..i) \ {Max(1..i)}], seq[Max(1..i)])
      <3> HIDE DEF n
      <3> QED
        BY <1>5, <2>1
    <2>3. r[i] = iter[1..i] /\ r[i - 1] = iter[1..(i - 1)]
      BY <1>1
    <2> QED
      BY <2>1, <2>2, <2>3
  <1> HIDE DEF r
  <1> QED
    BY <1>7, <1>8

\* t has the elements of seq that are in S, and repeats none that seq does not.
FilterOf(seq, S, t) ==
    /\ \A x : (\E j \in 1..Len(t) : t[j] = x) <=> x \in S /\ \E j \in 1..Len(seq) : seq[j] = x
    /\ (\A i, j \in 1..Len(seq) : i # j => seq[i] # seq[j])
          => \A i, j \in 1..Len(t) : i # j => t[i] # t[j]

\* Those gives the members of S, each as often as it was there: once, if the
\* sequence has it once.
LEMMA ThoseIs ==
  ASSUME NEW E, NEW seq \in Seq(E), NEW S
  PROVE  Those(seq, S) \in Seq(E) /\ FilterOf(seq, S, Those(seq, S))
  <1> DEFINE n == Len(seq)
             Once(w, m) == \A i, j \in 1..m : i # j => w[i] # w[j]
             Has(w, i) == \A x : (\E j \in 1..Len(w) : w[j] = x) <=> x \in S /\ \E j \in 1..i : seq[j] = x
             Good(w, i) == w \in Seq(E) /\ Has(w, i) /\ (Once(seq, n) => Once(w, Len(w)))
  <1>1. n \in Nat /\ \A i \in 1..n : seq[i] \in E
    OBVIOUS
  <1>2. PICK g : /\ g[0] = <<>> /\ g[n] = Those(seq, S)
                 /\ \A i \in 1..n : g[i] = KeepIf(S, g[i - 1], seq[i])
    BY ThoseRun
  <1> DEFINE T == {i \in 0..n : Good(g[i], i)}
  <1>3. 0 \in T
    <2>1. Good(<<>>, 0)
      OBVIOUS
    <2>2. 0 \in 0..n
      BY <1>1
    <2> HIDE DEF Good
    <2> QED
      BY <1>2, <2>1, <2>2
  <1>4. ASSUME NEW i \in 1..n, i - 1 \in T
        PROVE  i \in T
    <2> DEFINE v == g[i - 1]
               w == g[i]
    <2>1. Good(v, i - 1) /\ i \in 0..n /\ seq[i] \in E /\ w = KeepIf(S, v, seq[i])
      BY <1>1, <1>2, <1>4
    <2> HIDE DEF v, w
    <2>2. \A x : (\E j \in 1..i : seq[j] = x) <=> x = seq[i] \/ \E j \in 1..(i - 1) : seq[j] = x
      <3>1. \A j \in 1..i : j = i \/ j \in 1..(i - 1)
        BY <1>1
      <3>2. i \in 1..i /\ \A j \in 1..(i - 1) : j \in 1..i
        BY <1>1
      <3> QED
        BY <3>1, <3>2
    <2>3. CASE seq[i] \notin S
      <3>1. w = v
        BY <2>1, <2>3 DEF KeepIf
      <3>2. Good(w, i)
        BY <2>1, <2>2, <2>3, <3>1
      <3> HIDE DEF Good
      <3> QED
        BY <2>1, <3>2 DEF w
    <2>4. CASE seq[i] \in S
      <3>1. w = Append(v, seq[i]) /\ v \in Seq(E)
        BY <2>1, <2>4 DEF KeepIf
      <3>2. /\ w \in Seq(E) /\ Len(w) = Len(v) + 1 /\ Len(v) \in Nat /\ w[Len(w)] = seq[i]
            /\ \A j \in 1..Len(v) : w[j] = v[j]
        BY <2>1, <3>1
      <3>3. \A j \in 1..Len(w) : j = Len(w) \/ j \in 1..Len(v)
        BY <3>2
      <3>4. Len(w) \in 1..Len(w) /\ \A j \in 1..Len(v) : j \in 1..Len(w)
        BY <3>2
      <3>5. \A x : (\E j \in 1..Len(w) : w[j] = x) <=> x = seq[i] \/ \E j \in 1..Len(v) : v[j] = x
        BY <3>2, <3>3, <3>4
      <3>6. Has(w, i)
        BY <2>1, <2>2, <2>4, <3>5
      <3>7. Once(seq, n) => Once(w, Len(w))
        <4> SUFFICES ASSUME Once(seq, n) PROVE Once(w, Len(w))
          OBVIOUS
        <4>1. \A j \in 1..(i - 1) : j \in 1..n /\ j # i
          BY <1>1
        <4>2. \A j \in 1..(i - 1) : seq[j] # seq[i]
          BY <4>1
        <4>3. \A j \in 1..Len(v) : v[j] # seq[i]
          BY <2>1, <4>2
        <4> QED
          BY <2>1, <3>2, <3>3, <4>3
      <3> QED
        BY <2>1, <3>2, <3>6, <3>7 DEF w
    <2> QED
      BY <2>3, <2>4
  <1>5. Good(g[n], n)
    <2>1. \A i \in 0..n : i \in T
      <3> HIDE DEF T, n
      <3> QED
        BY <1>1, <1>3, <1>4, StepInduction
    <2> HIDE DEF Good
    <2> QED
      BY <1>1, <2>1
  <1> QED
    BY <1>2, <1>5 DEF FilterOf
=============================================================================
