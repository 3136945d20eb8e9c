------------------------ MODULE TaskSamplingProofs ------------------------
(***************************************************************************)
(* Proofs about TaskSampling: that a session reads the records as the      *)
(* kernel writes them, and accounts for every sample.                      *)
(*                                                                         *)
(* The argument: unread is what is left of the record at hand, which the   *)
(* reads in todo fit (Fits), and whole records behind it (Stream).  A read *)
(* takes one part from both, the kernel adds records behind them.  Fits    *)
(* and Stream are stated with the chain of what is left after each field   *)
(* or record, so that their proofs need no induction but SetInduction.     *)
(***************************************************************************)
EXTENDS TaskSampling, SequenceTheorems, FiniteSetTheorems, WellFoundedInduction, TLAPS

(***************************************************************************)
(* Induction on the natural numbers, from the minimal elements of a set of *)
(* intervals.                                                              *)
(***************************************************************************)
LEMMA SetInduction ==
    ASSUME NEW P, 0 \in P, \A n \in Nat : n \in P => n + 1 \in P
    PROVE  \A n \in Nat : n \in P
<1> SUFFICES ASSUME NEW n \in Nat, n \notin P PROVE FALSE
  OBVIOUS
<1> DEFINE T == {0 .. i : i \in {j \in 0 .. n : j \notin P}}
<1>1. T \subseteq FiniteSubsetsOf(0 .. n)
  <2>1. \A i \in 0 .. n : IsFiniteSet(0 .. i) /\ 0 .. i \subseteq 0 .. n
    BY FS_Interval
  <2>2. QED
    BY <2>1 DEF FiniteSubsetsOf
<1>2. T # {}
  OBVIOUS
<1>3. PICK x \in T : \A y \in T : ~ (<<y, x>> \in StrictSubsetOrdering(0 .. n))
  <2>1. IsWellFoundedOn(StrictSubsetOrdering(0 .. n), FiniteSubsetsOf(0 .. n))
    BY FS_StrictSubsetOrderingWellFounded
  <2> HIDE DEF T
  <2>2. QED
    BY <1>1, <1>2, <2>1, WFMin
<1>4. PICK i \in 0 .. n : i \notin P /\ x = 0 .. i
  OBVIOUS
<1>5. i # 0 /\ i - 1 \in Nat
  BY <1>4
<1>6. i - 1 \notin P
  BY <1>4, <1>5
<1>7. 0 .. (i - 1) \in T
  BY <1>5, <1>6
<1>8. <<0 .. (i - 1), x>> \in StrictSubsetOrdering(0 .. n)
  <2>1. 0 .. (i - 1) \subseteq 0 .. i /\ i \in 0 .. i /\ i \notin 0 .. (i - 1)
    BY <1>5
  <2>2. x \subseteq 0 .. n /\ 0 .. (i - 1) \subseteq 0 .. n
    BY <1>4, <1>5
  <2>3. QED
    BY <1>4, <2>1, <2>2 DEF StrictSubsetOrdering
<1>9. QED
  BY <1>3, <1>7, <1>8

(***************************************************************************)
(* Sums over sequences                                                     *)
(***************************************************************************)
\* The recursive function of Total satisfies its equation.
LEMMA TotalUpto ==
    ASSUME NEW s, Len(s) \in Nat
    PROVE  \E u : /\ u = [i \in 0 .. Len(s) |-> IF i = 0 THEN 0 ELSE u[i - 1] + s[i]]
                  /\ Total(s) = u[Len(s)]
<1> DEFINE E(g, i) == IF i = 0 THEN 0 ELSE g[i - 1] + s[i]
           Rec(g, n) == g = [i \in 0 .. n |-> E(g, i)]
           Q == {n \in Nat : \E g : Rec(g, n)}
           upto[i \in 0 .. Len(s)] == IF i = 0 THEN 0 ELSE upto[i - 1] + s[i]
<1> HIDE DEF upto, E
<1>1. \A n \in Nat : n \in Q
  <2>1. 0 \in Q
    <3>1. Rec([i \in 0 .. 0 |-> 0], 0)
      BY DEF E
    <3>2. QED
      BY <3>1
  <2>2. \A n \in Nat : n \in Q => n + 1 \in Q
    <3>1. SUFFICES ASSUME NEW n \in Nat, n \in Q PROVE \E g : Rec(g, n + 1)
      OBVIOUS
    <3>2. PICK g : Rec(g, n)
      BY <3>1
    <3> DEFINE h == [i \in 0 .. n + 1 |-> E(g, i)]
    <3>3. \A i \in 0 .. n : h[i] = g[i]
      BY <3>2
    <3>4. \A i \in 0 .. n + 1 : E(h, i) = E(g, i)
      <4>1. \A i \in 0 .. n + 1 : i # 0 => i - 1 \in 0 .. n
        OBVIOUS
      <4> HIDE DEF h
      <4>2. QED
        BY <3>3, <4>1 DEF E
    <3>5. Rec(h, n + 1)
      BY <3>4
    <3>6. QED
      BY <3>5
  <2> HIDE DEF Q
  <2>3. QED
    BY <2>1, <2>2, SetInduction
<1>2. upto = [i \in 0 .. Len(s) |-> E(upto, i)]
  <2>1. \E g : Rec(g, Len(s))
    BY <1>1
  <2>2. upto = CHOOSE g : Rec(g, Len(s))
    BY DEF upto, E
  <2> HIDE DEF Rec
  <2>3. Rec(upto, Len(s))
    BY <2>1, <2>2
  <2>4. QED
    BY <2>3 DEF Rec
<1>3. Total(s) = upto[Len(s)]
  BY DEF Total, upto
<1>4. QED
  BY <1>2, <1>3 DEF E

\* The sums of the prefixes of a sequence.
LEMMA PartialSums ==
    ASSUME NEW s \in Seq(Nat)
    PROVE  \E u \in [0 .. Len(s) -> Nat] :
               /\ u[0] = 0
               /\ \A i \in 1 .. Len(s) : u[i] = u[i - 1] + s[i]
               /\ Total(s) = u[Len(s)]
<1>1. Len(s) \in Nat
  OBVIOUS
<1>2. PICK u : /\ u = [i \in 0 .. Len(s) |-> IF i = 0 THEN 0 ELSE u[i - 1] + s[i]]
               /\ Total(s) = u[Len(s)]
  BY <1>1, TotalUpto
<1> DEFINE n == Len(s)
<1> HIDE DEF n
<1>3. n \in Nat /\ u = [i \in 0 .. n |-> IF i = 0 THEN 0 ELSE u[i - 1] + s[i]]
  BY <1>1, <1>2 DEF n
<1>4. \A i \in 0 .. n : u[i] = IF i = 0 THEN 0 ELSE u[i - 1] + s[i]
  BY <1>3
<1> DEFINE P == {i \in Nat : i <= n => u[i] \in Nat}
<1>5. 0 \in P
  BY <1>3, <1>4
<1>6. \A i \in Nat : i \in P => i + 1 \in P
  <2>1. SUFFICES ASSUME NEW i \in Nat, i \in P, i + 1 <= n PROVE u[i + 1] \in Nat
    OBVIOUS
  <2>0. u[i] \in Nat
    BY <1>3, <2>1
  <2> HIDE DEF P
  <2>2. i + 1 \in 0 .. n /\ i + 1 \in 1 .. Len(s)
    BY <1>3, <2>1 DEF n
  <2>3. u[i + 1] = u[i] + s[i + 1] /\ s[i + 1] \in Nat
    BY <1>4, <2>1, <2>2 DEF n
  <2>4. QED
    BY <2>0, <2>3
<1>7. \A i \in Nat : i \in P
  <2> HIDE DEF P
  <2>1. QED
    BY <1>5, <1>6, SetInduction
<1>8. \A i \in 0 .. n : u[i] \in Nat
  <2>1. n \in Nat
    BY <1>3
  <2>2. QED
    BY <1>7, <2>1
<1>9. u \in [0 .. n -> Nat]
  BY <1>3, <1>8
<1>10. \A i \in 1 .. n : u[i] = u[i - 1] + s[i]
  <2>1. \A i \in 1 .. n : i \in 0 .. n /\ i # 0
    OBVIOUS
  <2>2. QED
    BY <1>4, <2>1
<1>11. u[0] = 0
  BY <1>3, <1>4
<1>12. QED
  BY <1>2, <1>9, <1>10, <1>11 DEF n

LEMMA TotalOfOne == ASSUME NEW x \in Nat PROVE Total(<<x>>) = x
<1>1. <<x>> \in Seq(Nat) /\ Len(<<x>>) = 1 /\ <<x>>[1] = x
  OBVIOUS
<1>2. PICK u \in [0 .. 1 -> Nat] : u[0] = 0 /\ (\A i \in 1 .. 1 : u[i] = u[i - 1] + <<x>>[i]) /\ Total(<<x>>) = u[1]
  BY <1>1, PartialSums
<1>3. QED
  BY <1>1, <1>2

LEMMA TotalOfNone == Total(<<>>) = 0
<1>1. <<>> \in Seq(Nat) /\ Len(<<>>) = 0
  OBVIOUS
<1>2. QED
  BY <1>1, PartialSums

LEMMA TotalNat == ASSUME NEW s \in Seq(Nat) PROVE Total(s) \in Nat
<1>1. Len(s) \in 0 .. Len(s)
  OBVIOUS
<1>2. QED
  BY <1>1, PartialSums

LEMMA TotalConcat ==
    ASSUME NEW s \in Seq(Nat), NEW t \in Seq(Nat)
    PROVE  Total(s \o t) = Total(s) + Total(t)
<1> DEFINE st == s \o t
           m == Len(s)
           n == Len(t)
<1>1. /\ st \in Seq(Nat) /\ Len(st) = m + n /\ m \in Nat /\ n \in Nat
      /\ \A i \in 1 .. m : st[i] = s[i]
      /\ \A i \in 1 .. n : st[m + i] = t[i] /\ t[i] \in Nat
  OBVIOUS
<1> HIDE DEF st, m, n
<1>2. PICK u \in [0 .. m -> Nat] :
           u[0] = 0 /\ (\A i \in 1 .. m : u[i] = u[i - 1] + s[i]) /\ Total(s) = u[m]
  BY PartialSums DEF m
<1>3. PICK v \in [0 .. n -> Nat] :
           v[0] = 0 /\ (\A i \in 1 .. n : v[i] = v[i - 1] + t[i]) /\ Total(t) = v[n]
  BY PartialSums DEF n
<1>4. PICK w \in [0 .. m + n -> Nat] :
           w[0] = 0 /\ (\A i \in 1 .. m + n : w[i] = w[i - 1] + st[i]) /\ Total(st) = w[m + n]
  BY <1>1, PartialSums
<1> DEFINE P == {i \in Nat : i <= m => w[i] = u[i]}
           Q == {i \in Nat : i <= n => w[m + i] = u[m] + v[i]}
<1>5. \A i \in Nat : i \in P
  <2>1. 0 \in P
    BY <1>1, <1>2, <1>4
  <2>2. \A i \in Nat : i \in P => i + 1 \in P
    <3>1. SUFFICES ASSUME NEW i \in Nat, w[i] = u[i], i + 1 <= m PROVE w[i + 1] = u[i + 1]
      BY <1>1
    <3>2. i + 1 \in 1 .. m /\ i + 1 \in 1 .. m + n /\ (i + 1) - 1 = i
      BY <1>1, <3>1
    <3>3. QED
      BY <1>1, <1>2, <1>4, <3>1, <3>2
  <2> HIDE DEF P
  <2>3. QED
    BY <2>1, <2>2, SetInduction
<1>6. w[m] = u[m]
  BY <1>1, <1>5
<1>7. \A i \in Nat : i \in Q
  <2>1. 0 \in Q
    BY <1>1, <1>2, <1>3, <1>6
  <2>2. \A i \in Nat : i \in Q => i + 1 \in Q
    <3>1. SUFFICES ASSUME NEW i \in Nat, i \in Q, i + 1 <= n
                   PROVE  w[m + (i + 1)] = u[m] + v[i + 1]
      OBVIOUS
    <3>0. w[m + i] = u[m] + v[i]
      BY <1>1, <3>1
    <3> HIDE DEF Q
    <3>2. /\ i + 1 \in 1 .. n /\ m + (i + 1) \in 1 .. m + n /\ (i + 1) - 1 = i
          /\ (m + (i + 1)) - 1 = m + i /\ i \in 0 .. n /\ m \in 0 .. m
      BY <1>1, <3>1
    <3>3. w[m + (i + 1)] = w[m + i] + t[i + 1] /\ v[i + 1] = v[i] + t[i + 1]
      BY <1>1, <1>3, <1>4, <3>2
    <3>4. t[i + 1] \in Nat /\ u[m] \in Nat /\ v[i] \in Nat
      BY <1>1, <1>2, <1>3, <3>2
    <3>5. QED
      BY <3>0, <3>3, <3>4
  <2> HIDE DEF Q
  <2>3. QED
    BY <2>1, <2>2, SetInduction
<1>8. w[m + n] = u[m] + v[n]
  BY <1>1, <1>7
<1>9. QED
  BY <1>2, <1>3, <1>4, <1>8 DEF st

LEMMA TotalZero ==
    ASSUME NEW s \in Seq(Nat), \A i \in 1 .. Len(s) : s[i] = 0
    PROVE  Total(s) = 0
<1> DEFINE n == Len(s)
<1>1. n \in Nat /\ \A i \in 1 .. n : s[i] = 0
  OBVIOUS
<1> HIDE DEF n
<1>2. PICK u \in [0 .. n -> Nat] :
           u[0] = 0 /\ (\A i \in 1 .. n : u[i] = u[i - 1] + s[i]) /\ Total(s) = u[n]
  BY PartialSums DEF n
<1> DEFINE P == {i \in Nat : i <= n => u[i] = 0}
<1>3. 0 \in P
  BY <1>2
<1>4. \A i \in Nat : i \in P => i + 1 \in P
  <2>1. SUFFICES ASSUME NEW i \in Nat, u[i] = 0, i + 1 <= n PROVE u[i + 1] = 0
    BY <1>1
  <2>2. i + 1 \in 1 .. n /\ (i + 1) - 1 = i
    BY <1>1, <2>1
  <2>3. QED
    BY <1>1, <1>2, <2>1, <2>2
<1>5. \A i \in Nat : i \in P
  <2> HIDE DEF P
  <2>1. QED
    BY <1>3, <1>4, SetInduction
<1>6. QED
  BY <1>1, <1>2, <1>5

(***************************************************************************)
(* Sizes and counts of parts                                               *)
(***************************************************************************)
\* what the parts are
Names ==
    { "SAMPLE", "LOST", "THROTTLE", "lost", "throttle",
      "IDENTIFIER", "IP", "TID", "TIME", "ADDR", "ID", "STREAM_ID", "CPU", "PERIOD", "READ",
      "CALLCHAIN", "RAW", "BRANCH_STACK", "STACK_USER", "WEIGHT", "DATA_SRC", "TRANSACTION",
      "value", "enabled", "running", "nr_ip", "ip", "raw_size", "raw", "nr_branch", "branch" }

PartSet == [f : Names, n : Nat \ {0}, v : Nat]
BodyPartSet == [f : Names \ {"SAMPLE"}, n : Nat \ {0}, v : Nat]

\* the samples that a part stands for: itself, or those reported as lost
Counted(p) == IF p.f = "SAMPLE" THEN 1 ELSE IF p.f = "lost" THEN p.v ELSE 0
Samples(parts) == Total([i \in 1 .. Len(parts) |-> Counted(parts[i])])

LEMMA BodyPartsAreParts == Seq(BodyPartSet) \subseteq Seq(PartSet)
<1>1. BodyPartSet \subseteq PartSet
  BY DEF BodyPartSet, PartSet
<1>2. QED
  BY <1>1

LEMMA UnitsTypes ==
    ASSUME NEW s \in Seq(PartSet)
    PROVE  /\ [i \in 1 .. Len(s) |-> s[i].n] \in Seq(Nat)
           /\ [i \in 1 .. Len(s) |-> Counted(s[i])] \in Seq(Nat)
           /\ Units(s) \in Nat /\ Samples(s) \in Nat
<1>1. \A i \in 1 .. Len(s) : s[i] \in PartSet
  OBVIOUS
<1>2. \A p \in PartSet : p.n \in Nat /\ Counted(p) \in Nat
  BY DEF PartSet, Counted
<1>3. /\ [i \in 1 .. Len(s) |-> s[i].n] \in Seq(Nat)
      /\ [i \in 1 .. Len(s) |-> Counted(s[i])] \in Seq(Nat)
  BY <1>1, <1>2
<1>4. QED
  BY <1>3, TotalNat DEF Units, Samples

LEMMA UnitsConcat ==
    ASSUME NEW s \in Seq(PartSet), NEW t \in Seq(PartSet)
    PROVE  Units(s \o t) = Units(s) + Units(t) /\ Samples(s \o t) = Samples(s) + Samples(t)
<1> DEFINE N(u) == [i \in 1 .. Len(u) |-> u[i].n]
           C(u) == [i \in 1 .. Len(u) |-> Counted(u[i])]
<1>1. N(s) \in Seq(Nat) /\ N(t) \in Seq(Nat) /\ C(s) \in Seq(Nat) /\ C(t) \in Seq(Nat)
  BY UnitsTypes
<1>2. /\ Len(s \o t) = Len(s) + Len(t) /\ Len(s) \in Nat /\ Len(t) \in Nat
      /\ \A i \in 1 .. Len(s) + Len(t) : (s \o t)[i] = IF i <= Len(s) THEN s[i] ELSE t[i - Len(s)]
  BY ConcatProperties
<1>3. N(s \o t) = N(s) \o N(t)
  BY <1>1, <1>2
<1>4. C(s \o t) = C(s) \o C(t)
  BY <1>1, <1>2
<1>5. QED
  BY <1>1, <1>3, <1>4, TotalConcat DEF Units, Samples

LEMMA UnitsOfOne ==
    ASSUME NEW p \in PartSet
    PROVE  Units(<<p>>) = p.n /\ Samples(<<p>>) = Counted(p)
<1>1. p.n \in Nat /\ Counted(p) \in Nat
  BY DEF PartSet, Counted
<1>2. [i \in 1 .. Len(<<p>>) |-> <<p>>[i].n] = <<p.n>>
  OBVIOUS
<1>3. [i \in 1 .. Len(<<p>>) |-> Counted(<<p>>[i])] = <<Counted(p)>>
  OBVIOUS
<1>4. QED
  BY <1>1, <1>2, <1>3, TotalOfOne DEF Units, Samples

LEMMA UnitsOfNone == Units(<<>>) = 0 /\ Samples(<<>>) = 0
<1>1. [i \in 1 .. Len(<<>>) |-> <<>>[i].n] = <<>> /\ [i \in 1 .. Len(<<>>) |-> Counted(<<>>[i])] = <<>>
  OBVIOUS
<1>2. QED
  BY <1>1, TotalOfNone DEF Units, Samples

LEMMA HeadAndTail ==
    ASSUME NEW S, NEW s \in Seq(S), s # <<>>
    PROVE  s = <<Head(s)>> \o Tail(s) /\ Head(s) \in S /\ Tail(s) \in Seq(S)
  OBVIOUS

LEMMA UnitsOfHead ==
    ASSUME NEW s \in Seq(PartSet), s # <<>>
    PROVE  /\ Units(s) = Head(s).n + Units(Tail(s)) /\ Units(s) > 0
           /\ Samples(s) = Counted(Head(s)) + Samples(Tail(s))
<1>1. s = <<Head(s)>> \o Tail(s) /\ Head(s) \in PartSet /\ Tail(s) \in Seq(PartSet) /\ <<Head(s)>> \in Seq(PartSet)
  BY HeadAndTail
<1>2. /\ Units(s) = Units(<<Head(s)>>) + Units(Tail(s))
      /\ Samples(s) = Samples(<<Head(s)>>) + Samples(Tail(s))
  BY <1>1, UnitsConcat
<1>3. Units(<<Head(s)>>) = Head(s).n /\ Samples(<<Head(s)>>) = Counted(Head(s))
  BY <1>1, UnitsOfOne
<1>4. Head(s).n \in Nat \ {0} /\ Units(Tail(s)) \in Nat
  BY <1>1, UnitsTypes DEF PartSet
<1>5. QED
  BY <1>2, <1>3, <1>4

Associate(a, b, c) == (a \o b) \o c = a \o (b \o c)

LEMMA ThreeAssociate ==
    ASSUME NEW S, NEW a \in Seq(S), NEW b \in Seq(S), NEW c \in Seq(S)
    PROVE  Associate(a, b, c)
  BY DEF Associate

(***************************************************************************)
(* FlattenSeq                                                              *)
(***************************************************************************)
\* The recursive function of FlattenSeq satisfies its equation.
LEMMA FlattenUpto ==
    ASSUME NEW n \in Nat \ {0}, NEW ss, Len(ss) = n
    PROVE  \E u : /\ u = [i \in 1 .. n |-> IF i = 1 THEN ss[i] ELSE u[i - 1] \o ss[i]]
                  /\ FlattenSeq(ss) = u[n]
<1> DEFINE E(g, i) == IF i = 1 THEN ss[i] ELSE g[i - 1] \o ss[i]
           Rec(g, m) == g = [i \in 1 .. m |-> E(g, i)]
           Q == {m \in Nat : \E g : Rec(g, m)}
           flatten[i \in 1 .. Len(ss)] == IF i = 1 THEN ss[i] ELSE flatten[i - 1] \o ss[i]
<1> HIDE DEF flatten, E
<1>1. \A m \in Nat : m \in Q
  <2>1. 0 \in Q
    <3>1. Rec(<<>>, 0)
      BY DEF E
    <3>2. QED
      BY <3>1
  <2>2. \A m \in Nat : m \in Q => m + 1 \in Q
    <3>1. SUFFICES ASSUME NEW m \in Nat, m \in Q PROVE \E g : Rec(g, m + 1)
      OBVIOUS
    <3>2. PICK g : Rec(g, m)
      BY <3>1
    <3> DEFINE h == [i \in 1 .. m + 1 |-> E(g, i)]
    <3>3. \A i \in 1 .. m : h[i] = g[i]
      BY <3>2
    <3>4. \A i \in 1 .. m + 1 : E(h, i) = E(g, i)
      <4>1. \A i \in 1 .. m + 1 : i # 1 => i - 1 \in 1 .. m
        OBVIOUS
      <4> HIDE DEF h
      <4>2. QED
        BY <3>3, <4>1 DEF E
    <3>5. Rec(h, m + 1)
      BY <3>4
    <3>6. QED
      BY <3>5
  <2> HIDE DEF Q
  <2>3. QED
    BY <2>1, <2>2, SetInduction
<1>2. flatten = [i \in 1 .. n |-> E(flatten, i)]
  <2>1. \E g : Rec(g, n)
    BY <1>1
  <2>2. flatten = CHOOSE g : Rec(g, n)
    BY DEF flatten, E
  <2> HIDE DEF Rec
  <2>3. Rec(flatten, n)
    BY <2>1, <2>2
  <2>4. QED
    BY <2>3 DEF Rec
<1>3. FlattenSeq(ss) = flatten[n]
  BY DEF FlattenSeq, flatten
<1>4. QED
  BY <1>2, <1>3 DEF E

\* g has what ss holds up to each position.
Heads(n, ss, g) == g[0] = <<>> /\ \A i \in 0 .. n - 1 : g[i + 1] = g[i] \o ss[i + 1]

\* The prefixes of what FlattenSeq makes, the empty one included.
LEMMA FlattenedHeads ==
    ASSUME NEW S, NEW n \in Nat \ {0}, NEW ss \in [1 .. n -> Seq(S)]
    PROVE  \E g \in [0 .. n -> Seq(S)] : Heads(n, ss, g) /\ g[n] = FlattenSeq(ss)
<1>1. Len(ss) = n
  OBVIOUS
<1>2. PICK u : /\ u = [i \in 1 .. n |-> IF i = 1 THEN ss[i] ELSE u[i - 1] \o ss[i]]
               /\ FlattenSeq(ss) = u[n]
  BY <1>1, FlattenUpto
<1>3. \A i \in 1 .. n : u[i] = IF i = 1 THEN ss[i] ELSE u[i - 1] \o ss[i]
  BY <1>2
<1>4. \A i \in 1 .. n : ss[i] \in Seq(S)
  OBVIOUS
<1> DEFINE g == [i \in 0 .. n |-> IF i = 0 THEN <<>> ELSE u[i]]
<1>5. /\ g[0] = <<>> /\ g[n] = u[n] /\ DOMAIN g = 0 .. n /\ g = [i \in 0 .. n |-> g[i]]
      /\ \A i \in 1 .. n : g[i] = u[i]
  OBVIOUS
<1> HIDE DEF g
<1>6. \A i \in 0 .. n - 1 : g[i + 1] = g[i] \o ss[i + 1]
  <2>1. SUFFICES ASSUME NEW i \in 0 .. n - 1 PROVE g[i + 1] = g[i] \o ss[i + 1]
    OBVIOUS
  <2> DEFINE j == i + 1
  <2>2. j \in 1 .. n /\ j - 1 = i
    OBVIOUS
  <2> HIDE DEF j
  <2>3. ss[j] \in Seq(S) /\ g[j] = u[j]
    BY <1>4, <1>5, <2>2
  <2>4. CASE i = 0
    <3>1. j = 1
      BY <2>2, <2>4
    <3>2. u[j] = ss[j] /\ g[i] = <<>>
      BY <1>3, <1>5, <2>2, <2>4, <3>1
    <3>3. <<>> \o ss[j] = ss[j]
      BY <2>3
    <3>4. QED
      BY <2>3, <3>2, <3>3 DEF j
  <2>5. CASE i # 0
    <3>1. j # 1 /\ i \in 1 .. n
      BY <2>2, <2>5
    <3>2. u[j] = u[i] \o ss[j] /\ g[i] = u[i]
      BY <1>3, <1>5, <2>2, <3>1
    <3>3. QED
      BY <2>3, <3>2 DEF j
  <2>6. QED
    BY <2>4, <2>5
<1> DEFINE P == {i \in Nat : i <= n => g[i] \in Seq(S)}
<1>7. 0 \in P
  <2>1. <<>> \in Seq(S)
    OBVIOUS
  <2>2. QED
    BY <1>5, <2>1
<1>8. \A i \in Nat : i \in P => i + 1 \in P
  <2>1. SUFFICES ASSUME NEW i \in Nat, i \in P, i + 1 <= n PROVE g[i + 1] \in Seq(S)
    OBVIOUS
  <2>2. g[i] \in Seq(S) /\ i \in 0 .. n - 1 /\ i + 1 \in 1 .. n
    BY <2>1
  <2>3. g[i + 1] = g[i] \o ss[i + 1] /\ ss[i + 1] \in Seq(S)
    BY <1>4, <1>6, <2>2
  <2>4. QED
    BY <2>2, <2>3
<1>9. \A i \in Nat : i \in P
  <2> HIDE DEF P
  <2>1. QED
    BY <1>7, <1>8, SetInduction
<1>10. \A i \in 0 .. n : g[i] \in Seq(S)
  BY <1>9
<1>11. g \in [0 .. n -> Seq(S)]
  BY <1>5, <1>10
<1>12. QED
  BY <1>2, <1>5, <1>6, <1>11 DEF Heads

\* r has what ss holds from each position on, but for the first ones.
TailsFrom(m, n, ss, g, r) ==
    /\ r[n] = <<>>
    /\ \A i \in m .. n - 1 : r[i] = ss[i + 1] \o r[i + 1]
    /\ g[n] = g[m] \o r[m]

LEMMA MoreTails ==
    ASSUME NEW S, NEW n \in Nat, NEW m \in 0 .. n - 1, NEW ss \in [1 .. n -> Seq(S)],
           NEW g \in [0 .. n -> Seq(S)], Heads(n, ss, g),
           NEW r \in [0 .. n -> Seq(S)], TailsFrom(m + 1, n, ss, g, r)
    PROVE  \E q \in [0 .. n -> Seq(S)] : TailsFrom(m, n, ss, g, q)
<1> DEFINE k == m + 1
           t == ss[k] \o r[k]
           q == [r EXCEPT ![m] = t]
<1>1. k \in 1 .. n /\ k \in 0 .. n /\ m \in 0 .. n /\ m # n /\ m # k
  OBVIOUS
<1>2. ss[k] \in Seq(S) /\ r[k] \in Seq(S) /\ g[m] \in Seq(S) /\ g[k] = g[m] \o ss[k]
  BY <1>1 DEF Heads
<1>3. t \in Seq(S)
  BY <1>2
<1>4. /\ r[n] = <<>> /\ g[n] = g[k] \o r[k]
      /\ \A i \in k .. n - 1 : r[i] = ss[i + 1] \o r[i + 1]
  BY DEF TailsFrom
<1> HIDE DEF k, t
<1>5. q \in [0 .. n -> Seq(S)] /\ q[m] = t /\ \A i \in 0 .. n : i # m => q[i] = r[i]
  BY <1>1, <1>3
<1> HIDE DEF q
<1>6. q[n] = <<>> /\ q[k] = r[k]
  BY <1>1, <1>4, <1>5
<1>7. \A i \in m .. n - 1 : q[i] = ss[i + 1] \o q[i + 1]
  <2>1. SUFFICES ASSUME NEW i \in m .. n - 1 PROVE q[i] = ss[i + 1] \o q[i + 1]
    OBVIOUS
  <2>2. CASE i = m
    <3>1. i + 1 = k
      BY <2>2 DEF k
    <3>2. QED
      BY <1>5, <1>6, <2>2, <3>1 DEF t
  <2>3. CASE i # m
    <3>1. i \in k .. n - 1 /\ i \in 0 .. n /\ i + 1 \in 0 .. n /\ i + 1 # m
      BY <2>3 DEF k
    <3>2. q[i] = r[i] /\ q[i + 1] = r[i + 1] /\ r[i] = ss[i + 1] \o r[i + 1]
      BY <1>4, <1>5, <2>3, <3>1
    <3>3. QED
      BY <3>2
  <2>4. QED
    BY <2>2, <2>3
<1>8. g[n] = g[m] \o q[m]
  <2>1. Associate(g[m], ss[k], r[k])
    BY <1>2, ThreeAssociate, Zenon
  <2>2. QED
    BY <1>2, <1>4, <1>5, <2>1 DEF t, Associate
<1>9. QED
  BY <1>5, <1>6, <1>7, <1>8 DEF TailsFrom

\* What FlattenSeq makes of the sequences from each one on.
Tails(n, ss, rest) ==
    /\ rest[0] = FlattenSeq(ss) /\ rest[n] = <<>>
    /\ \A i \in 0 .. n - 1 : rest[i] = ss[i + 1] \o rest[i + 1]

LEMMA FlattenedTails ==
    ASSUME NEW S, NEW n \in Nat, NEW ss \in [1 .. n -> Seq(S)]
    PROVE  \E rest \in [0 .. n -> Seq(S)] : Tails(n, ss, rest)
<1> USE DEF Tails
<1>1. CASE n = 0
  <2>1. ss = <<>> /\ Len(ss) = 0
    BY <1>1
  <2>2. FlattenSeq(ss) = <<>>
    BY <2>1 DEF FlattenSeq
  <2> DEFINE rest == [i \in 0 .. 0 |-> <<>>]
  <2>3. rest \in [0 .. n -> Seq(S)] /\ rest[0] = <<>>
    BY <1>1
  <2>4. \A i \in 0 .. n - 1 : FALSE
    BY <1>1
  <2>5. QED
    BY <1>1, <2>2, <2>3, <2>4
<1>2. CASE n # 0
  <2>1. PICK g \in [0 .. n -> Seq(S)] : Heads(n, ss, g) /\ g[n] = FlattenSeq(ss)
    <3>1. n \in Nat \ {0} /\ ss \in [1 .. n -> Seq(S)]
      BY <1>2
    <3>2. QED
      BY <3>1, FlattenedHeads, Zenon
  <2> DEFINE W(m) == \E r \in [0 .. n -> Seq(S)] : TailsFrom(n - m, n, ss, g, r)
             R == {m \in Nat : m <= n => W(m)}
  <2>2. 0 \in R
    <3> DEFINE r == [i \in 0 .. n |-> <<>>]
    <3>1. r \in [0 .. n -> Seq(S)] /\ r[n] = <<>>
      OBVIOUS
    <3>2. g[n] \in Seq(S)
      OBVIOUS
    <3>3. g[n] = g[n] \o <<>>
      BY <3>2
    <3>4. \A i \in n .. n - 1 : FALSE
      OBVIOUS
    <3> HIDE DEF r
    <3>5. TailsFrom(n, n, ss, g, r)
      BY <3>1, <3>3, <3>4 DEF TailsFrom
    <3>6. n - 0 = n
      OBVIOUS
    <3>7. QED
      BY <3>1, <3>5, <3>6
  <2>3. \A m \in Nat : m \in R => m + 1 \in R
    <3> HIDE DEF W
    <3>1. SUFFICES ASSUME NEW m \in Nat, m \in R, m + 1 <= n
                   PROVE  W(m + 1)
      OBVIOUS
    <3>0. W(m)
      BY <3>1
    <3>2. PICK r \in [0 .. n -> Seq(S)] : TailsFrom(n - m, n, ss, g, r)
      BY <3>0 DEF W
    <3> DEFINE k == n - (m + 1)
    <3>3. k \in 0 .. n - 1 /\ n - m = k + 1
      BY <3>1
    <3> HIDE DEF k
    <3>4. TailsFrom(k + 1, n, ss, g, r)
      BY <3>2, <3>3
    <3>5. \E q \in [0 .. n -> Seq(S)] : TailsFrom(k, n, ss, g, q)
      BY <2>1, <3>3, <3>4, MoreTails
    <3>6. QED
      BY <3>5 DEF k, W
  <2>4. \A m \in Nat : m \in R
    <3> HIDE DEF R
    <3>1. QED
      BY <2>2, <2>3, SetInduction
  <2>5. PICK r \in [0 .. n -> Seq(S)] : TailsFrom(0, n, ss, g, r)
    <3>1. n - n = 0 /\ n \in R
      BY <2>4
    <3>2. QED
      BY <3>1
  <2>6. /\ r[n] = <<>> /\ g[n] = g[0] \o r[0]
        /\ \A i \in 0 .. n - 1 : r[i] = ss[i + 1] \o r[i + 1]
    BY <2>5 DEF TailsFrom
  <2>7. r[0] \in Seq(S)
    OBVIOUS
  <2>8. <<>> \o r[0] = r[0]
    BY <2>7
  <2>9. QED
    BY <2>1, <2>6, <2>8 DEF Heads
<1>3. QED
  BY <1>1, <1>2

(***************************************************************************)
(* Reads and the parts they are for                                        *)
(***************************************************************************)
PlainSteps == [f : Names, n : Nat, more : {<<>>}, dec : Nat]
StepSet == [f : Names, n : Nat, more : {<<>>} \cup {<<m>> : m \in PlainSteps}, dec : Nat]

Fit(s, p) == s.f = p.f /\ s.n = p.n /\ s.dec = p.n

\* one part for each read
Plain(x, y) ==
    /\ Len(x) = Len(y)
    /\ \A i \in 1 .. Len(x) : Fit(x[i], y[i]) /\ x[i].more = <<>>

\* the reads for a field and the parts it is made of, which the first read
\* may have to tell
FieldFits(x, y) ==
    /\ x \in Seq(StepSet) \ {<<>>} /\ y \in Seq(BodyPartSet) \ {<<>>}
    /\ Fit(Head(x), Head(y))
    /\ Plain(Expand(Head(x), Head(y).v) \o Tail(x), Tail(y))

\* the reads x are those for the parts y, field by field
Fields(k, a, b) ==
    /\ a[k] = <<>> /\ b[k] = <<>>
    /\ \A i \in 0 .. k - 1 : \E u, w : /\ FieldFits(u, w)
                                      /\ a[i] = u \o a[i + 1] /\ b[i] = w \o b[i + 1]
Fits(x, y) ==
    \E k \in Nat : \E a \in [0 .. k -> Seq(StepSet)], b \in [0 .. k -> Seq(BodyPartSet)] :
        a[0] = x /\ b[0] = y /\ Fields(k, a, b)

LEMMA FitsNone == Fits(<<>>, <<>>)
<1> DEFINE a == [i \in 0 .. 0 |-> <<>>]
<1>1. a \in [0 .. 0 -> Seq(StepSet)] /\ a \in [0 .. 0 -> Seq(BodyPartSet)] /\ a[0] = <<>>
  OBVIOUS
<1> HIDE DEF a
<1>2. \A i \in 0 .. 0 - 1 : FALSE
  OBVIOUS
<1>3. Fields(0, a, a)
  BY <1>1, <1>2 DEF Fields
<1>4. QED
  BY <1>1, <1>3 DEF Fits

LEMMA FitsTypes == ASSUME NEW x, NEW y, Fits(x, y) PROVE x \in Seq(StepSet) /\ y \in Seq(BodyPartSet)
<1>0. PICK k \in Nat : \E a \in [0 .. k -> Seq(StepSet)], b \in [0 .. k -> Seq(BodyPartSet)] :
        a[0] = x /\ b[0] = y /\ Fields(k, a, b)
  BY Zenon DEF Fits
<1>1. PICK a \in [0 .. k -> Seq(StepSet)], b \in [0 .. k -> Seq(BodyPartSet)] :
        a[0] = x /\ b[0] = y
  BY <1>0, Zenon
<1>2. 0 \in 0 .. k
  OBVIOUS
<1>3. QED
  BY <1>1, <1>2

\* a chain with one more element in front
InFront(k, a, x, c) == c[0] = x /\ \A i \in 0 .. k : c[i + 1] = a[i]

LEMMA Longer ==
    ASSUME NEW S, NEW k \in Nat, NEW a \in [0 .. k -> S], NEW x \in S
    PROVE  \E c \in [0 .. k + 1 -> S] : InFront(k, a, x, c)
<1> DEFINE c == [i \in 0 .. k + 1 |-> IF i = 0 THEN x ELSE a[i - 1]]
<1>1. c \in [0 .. k + 1 -> S] /\ c[0] = x
  OBVIOUS
<1>2. \A i \in 0 .. k : c[i + 1] = a[i]
  OBVIOUS
<1>3. QED
  BY <1>1, <1>2 DEF InFront

\* a chain without its first element
Behind(k, a, c) == \A i \in 0 .. k - 1 : c[i] = a[i + 1]

LEMMA Shorter ==
    ASSUME NEW S, NEW k \in Nat \ {0}, NEW a \in [0 .. k -> S]
    PROVE  \E c \in [0 .. k - 1 -> S] : Behind(k, a, c)
<1> DEFINE c == [i \in 0 .. k - 1 |-> a[i + 1]]
<1>1. \A i \in 0 .. k - 1 : c[i] = a[i + 1] /\ a[i + 1] \in S
  OBVIOUS
<1>2. c \in [0 .. k - 1 -> S]
  BY <1>1
<1>3. QED
  BY <1>1, <1>2 DEF Behind

LEMMA FitsMore ==
    ASSUME NEW u, NEW w, FieldFits(u, w), NEW x, NEW y, Fits(x, y)
    PROVE  Fits(u \o x, w \o y)
<1>0. PICK k \in Nat : \E a \in [0 .. k -> Seq(StepSet)], b \in [0 .. k -> Seq(BodyPartSet)] :
        a[0] = x /\ b[0] = y /\ Fields(k, a, b)
  BY Zenon DEF Fits
<1>1. PICK a \in [0 .. k -> Seq(StepSet)], b \in [0 .. k -> Seq(BodyPartSet)] :
        a[0] = x /\ b[0] = y /\ Fields(k, a, b)
  BY <1>0, Zenon
<1> DEFINE ux == u \o x
           wy == w \o y
<1>2. ux \in Seq(StepSet) /\ wy \in Seq(BodyPartSet)
  BY FitsTypes DEF FieldFits
<1> HIDE DEF ux, wy
<1>3. PICK c \in [0 .. k + 1 -> Seq(StepSet)] : InFront(k, a, ux, c)
  BY <1>2, Longer, Zenon
<1>4. PICK d \in [0 .. k + 1 -> Seq(BodyPartSet)] : InFront(k, b, wy, d)
  BY <1>2, Longer, Zenon
<1>5. Fields(k + 1, c, d)
  <2>1. c[k + 1] = <<>> /\ d[k + 1] = <<>>
    BY <1>1, <1>3, <1>4 DEF Fields, InFront
  <2>2. ASSUME NEW i \in 0 .. (k + 1) - 1
        PROVE  \E p, q : FieldFits(p, q) /\ c[i] = p \o c[i + 1] /\ d[i] = q \o d[i + 1]
    <3>1. CASE i = 0
      <4>1. 0 \in 0 .. k /\ i + 1 = 0 + 1
        BY <3>1
      <4>2. c[i] = ux /\ d[i] = wy /\ c[i + 1] = x /\ d[i + 1] = y
        BY <1>1, <1>3, <1>4, <3>1, <4>1 DEF InFront
      <4>3. QED
        BY <4>2 DEF ux, wy
    <3>2. CASE i # 0
      <4> DEFINE j == i - 1
      <4>1. j \in 0 .. k - 1 /\ j + 1 = i /\ j \in 0 .. k /\ i \in 0 .. k
        BY <3>2
      <4> HIDE DEF j
      <4>2. PICK p, q : FieldFits(p, q) /\ a[j] = p \o a[j + 1] /\ b[j] = q \o b[j + 1]
        BY <1>1, <4>1 DEF Fields
      <4>3. c[j + 1] = a[j] /\ c[i + 1] = a[i] /\ d[j + 1] = b[j] /\ d[i + 1] = b[i]
        BY <1>3, <1>4, <4>1 DEF InFront
      <4>4. QED
        BY <4>1, <4>2, <4>3
    <3>3. QED
      BY <3>1, <3>2
  <2>3. QED
    BY <2>1, <2>2 DEF Fields
<1>6. QED
  <2>1. c[0] = ux /\ d[0] = wy /\ k + 1 \in Nat
    BY <1>3, <1>4 DEF InFront
  <2>2. Fits(ux, wy)
    BY <1>5, <2>1, Zenon DEF Fits
  <2>3. QED
    BY <2>2 DEF ux, wy

LEMMA FitsSplit ==
    ASSUME NEW x, NEW y, Fits(x, y)
    PROVE  \/ x = <<>> /\ y = <<>>
           \/ \E u, w, x1, y1 : FieldFits(u, w) /\ Fits(x1, y1) /\ x = u \o x1 /\ y = w \o y1
<1>0. PICK k \in Nat : \E a \in [0 .. k -> Seq(StepSet)], b \in [0 .. k -> Seq(BodyPartSet)] :
        a[0] = x /\ b[0] = y /\ Fields(k, a, b)
  BY Zenon DEF Fits
<1>1. PICK a \in [0 .. k -> Seq(StepSet)], b \in [0 .. k -> Seq(BodyPartSet)] :
        a[0] = x /\ b[0] = y /\ Fields(k, a, b)
  BY <1>0, Zenon
<1>2. CASE k = 0
  <2>1. a[k] = <<>> /\ b[k] = <<>>
    BY <1>1, Zenon DEF Fields
  <2>2. QED
    BY <1>1, <1>2, <2>1
<1>3. CASE k # 0
  <2>1. k \in Nat \ {0} /\ 0 \in 0 .. k - 1 /\ k - 1 \in Nat /\ k - 1 \in 0 .. k - 1
    BY <1>3
  <2>2. PICK c \in [0 .. k - 1 -> Seq(StepSet)] : Behind(k, a, c)
    BY <2>1, Shorter, Zenon
  <2>3. PICK d \in [0 .. k - 1 -> Seq(BodyPartSet)] : Behind(k, b, d)
    BY <2>1, Shorter, Zenon
  <2>4. PICK u, w : FieldFits(u, w) /\ a[0] = u \o a[0 + 1] /\ b[0] = w \o b[0 + 1]
    BY <1>1, <2>1 DEF Fields
  <2>5. c[0] = a[0 + 1] /\ d[0] = b[0 + 1]
    BY <2>1, <2>2, <2>3 DEF Behind
  <2>6. Fields(k - 1, c, d)
    <3>1. c[k - 1] = <<>> /\ d[k - 1] = <<>>
      <4>1. c[k - 1] = a[(k - 1) + 1] /\ d[k - 1] = b[(k - 1) + 1]
        BY <2>1, <2>2, <2>3 DEF Behind
      <4>2. (k - 1) + 1 = k
        OBVIOUS
      <4>3. QED
        BY <1>1, <4>1, <4>2 DEF Fields
    <3>2. ASSUME NEW i \in 0 .. (k - 1) - 1
          PROVE  \E p, q : FieldFits(p, q) /\ c[i] = p \o c[i + 1] /\ d[i] = q \o d[i + 1]
      <4> DEFINE j == i + 1
      <4>1. j \in 0 .. k - 1 /\ i \in 0 .. k - 1
        OBVIOUS
      <4>2. c[i] = a[j] /\ d[i] = b[j]
        BY <2>2, <2>3, <4>1 DEF Behind
      <4> HIDE DEF j
      <4>3. PICK p, q : FieldFits(p, q) /\ a[j] = p \o a[j + 1] /\ b[j] = q \o b[j + 1]
        BY <1>1, <4>1 DEF Fields
      <4>4. c[j] = a[j + 1] /\ d[j] = b[j + 1]
        BY <2>2, <2>3, <4>1 DEF Behind
      <4>5. QED
        BY <4>2, <4>3, <4>4 DEF j
    <3>3. QED
      BY <3>1, <3>2 DEF Fields
  <2>7. Fits(c[0], d[0])
    BY <2>1, <2>6 DEF Fits
  <2>8. QED
    BY <1>1, <2>4, <2>5, <2>7
<1>4. QED
  BY <1>2, <1>3

\* the first element of a concatenation, and the rest
LEMMA HeadOfConcat ==
    ASSUME NEW S, NEW s \in Seq(S), s # <<>>, NEW t \in Seq(S)
    PROVE  s \o t # <<>> /\ Head(s \o t) = Head(s) /\ Tail(s \o t) = Tail(s) \o t
<1>1. /\ Len(s) \in Nat \ {0} /\ Len(t) \in Nat /\ Len(s \o t) = Len(s) + Len(t)
      /\ \A i \in 1 .. Len(s) + Len(t) : (s \o t)[i] = IF i <= Len(s) THEN s[i] ELSE t[i - Len(s)]
  BY ConcatProperties
<1>2. s \o t \in Seq(S) /\ s \o t # <<>> /\ Tail(s) \in Seq(S) /\ Len(Tail(s)) = Len(s) - 1
  BY <1>1
<1>3. Head(s \o t) = Head(s)
  BY <1>1, <1>2
<1>4. Tail(s \o t) = Tail(s) \o t
  <2>1. Tail(s \o t) \in Seq(S) /\ Tail(s) \o t \in Seq(S)
    BY <1>2
  <2>2. Len(Tail(s \o t)) = Len(Tail(s) \o t)
    BY <1>1, <1>2
  <2>3. \A i \in 1 .. Len(Tail(s \o t)) : Tail(s \o t)[i] = (Tail(s) \o t)[i]
    BY <1>1, <1>2
  <2>4. QED
    BY <2>1, <2>2, <2>3, SeqEqual
<1>5. QED
  BY <1>2, <1>3, <1>4

LEMMA ExpandTypes ==
    ASSUME NEW s \in StepSet, NEW v \in Nat
    PROVE  Expand(s, v) \in Seq(StepSet)
<1>1. PlainSteps \subseteq StepSet
  BY DEF PlainSteps, StepSet
<1>2. CASE s.more = <<>> \/ v = 0
  BY <1>2 DEF Expand
<1>3. CASE ~(s.more = <<>> \/ v = 0)
  <2>1. PICK m \in PlainSteps : s.more = <<m>>
    BY <1>3 DEF StepSet
  <2>2. s.more[1] = m
    BY <2>1
  <2>3. CASE m.n > 0
    <3>1. Expand(s, v) = Copies(m, v)
      BY <1>3, <2>2, <2>3 DEF Expand
    <3>2. QED
      BY <1>1, <3>1 DEF Copies
  <2>4. CASE ~(m.n > 0)
    <3> DEFINE q == [m EXCEPT !.n = v, !.dec = IF s.dec = 0 THEN 0 ELSE v]
    <3>1. Expand(s, v) = <<q>>
      BY <1>3, <2>2, <2>4 DEF Expand
    <3>2. q \in PlainSteps
      BY DEF PlainSteps
    <3> HIDE DEF q
    <3>3. QED
      BY <1>1, <3>1, <3>2
  <2>5. QED
    BY <2>3, <2>4
<1>4. QED
  BY <1>2, <1>3

LEMMA PlainFits ==
    ASSUME NEW x \in Seq(StepSet), NEW y \in Seq(BodyPartSet), Plain(x, y), x # <<>>
    PROVE  FieldFits(x, y)
<1>1. Len(x) \in Nat \ {0} /\ Len(y) = Len(x) /\ \A i \in 1 .. Len(x) : Fit(x[i], y[i]) /\ x[i].more = <<>>
  BY DEF Plain
<1>2. y # <<>> /\ 1 \in 1 .. Len(x) /\ Head(x) = x[1] /\ Head(y) = y[1]
  BY <1>1
<1>3. Fit(Head(x), Head(y)) /\ Head(x).more = <<>>
  BY <1>1, <1>2
<1>4. Expand(Head(x), Head(y).v) = <<>>
  BY <1>3 DEF Expand
<1>5. /\ Tail(x) \in Seq(StepSet) /\ Len(Tail(x)) = Len(x) - 1
      /\ \A i \in 1 .. Len(x) - 1 : Tail(x)[i] = x[i + 1] /\ i + 1 \in 1 .. Len(x)
  BY <1>1
<1>6. /\ Tail(y) \in Seq(BodyPartSet) /\ Len(Tail(y)) = Len(x) - 1
      /\ \A i \in 1 .. Len(x) - 1 : Tail(y)[i] = y[i + 1]
  BY <1>1, <1>2
<1>7. Plain(Tail(x), Tail(y))
  BY <1>1, <1>5, <1>6 DEF Plain
<1>8. <<>> \o Tail(x) = Tail(x)
  BY <1>5
<1>9. QED
  BY <1>2, <1>3, <1>4, <1>7, <1>8 DEF FieldFits

\* One read takes the part it is for, and what is left fits again.
LEMMA FitsStep ==
    ASSUME NEW x, NEW y, Fits(x, y), x # <<>>
    PROVE  /\ y # <<>> /\ Fit(Head(x), Head(y))
           /\ Fits(Expand(Head(x), Head(y).v) \o Tail(x), Tail(y))
<1>1. PICK u, w, x1, y1 : FieldFits(u, w) /\ Fits(x1, y1) /\ x = u \o x1 /\ y = w \o y1
  BY FitsSplit
<1>2. /\ u \in Seq(StepSet) /\ u # <<>> /\ w \in Seq(BodyPartSet) /\ w # <<>>
      /\ x1 \in Seq(StepSet) /\ y1 \in Seq(BodyPartSet)
  BY <1>1, FitsTypes DEF FieldFits
<1>3. Head(x) = Head(u) /\ Tail(x) = Tail(u) \o x1
  BY <1>1, <1>2, HeadOfConcat
<1>4. y # <<>> /\ Head(y) = Head(w) /\ Tail(y) = Tail(w) \o y1
  BY <1>1, <1>2, HeadOfConcat
<1> DEFINE e == Expand(Head(u), Head(w).v)
           z == e \o Tail(u)
           q == Tail(w)
<1>5. Head(u) \in StepSet /\ Tail(u) \in Seq(StepSet) /\ Head(w).v \in Nat /\ q \in Seq(BodyPartSet)
  <2>1. Head(u) \in StepSet /\ Tail(u) \in Seq(StepSet)
    BY <1>2, HeadAndTail
  <2>2. Head(w) \in BodyPartSet /\ q \in Seq(BodyPartSet)
    BY <1>2, HeadAndTail
  <2>3. Head(w).v \in Nat
    BY <2>2 DEF BodyPartSet
  <2>4. QED
    BY <2>1, <2>2, <2>3
<1>6. e \in Seq(StepSet)
  BY <1>5, ExpandTypes
<1>7. Fit(Head(u), Head(w)) /\ Plain(z, q)
  BY <1>1 DEF FieldFits
<1>8. Expand(Head(x), Head(y).v) \o Tail(x) = z \o x1
  <2>1. Associate(e, Tail(u), x1)
    BY <1>2, <1>5, <1>6, ThreeAssociate, Zenon
  <2>2. QED
    BY <1>3, <1>4, <2>1 DEF Associate
<1>9. z \in Seq(StepSet)
  BY <1>5, <1>6
<1> HIDE DEF z, e, q
<1>10. Fits(z \o x1, q \o y1)
  <2>1. CASE z = <<>>
    <3>1. Len(q) = 0
      BY <1>7, <2>1 DEF Plain
    <3>2. q = <<>>
      BY <1>5, <3>1
    <3>3. z \o x1 = x1 /\ q \o y1 = y1
      BY <1>2, <2>1, <3>2
    <3>4. QED
      BY <1>1, <3>3
  <2>2. CASE z # <<>>
    <3>1. FieldFits(z, q)
      BY <1>5, <1>7, <1>9, <2>2, PlainFits
    <3>2. QED
      BY <1>1, <3>1, FitsMore
  <2>3. QED
    BY <2>1, <2>2
<1>11. QED
  BY <1>3, <1>4, <1>7, <1>8, <1>10 DEF q

LEMMA FitsEnd == ASSUME NEW y, Fits(<<>>, y) PROVE y = <<>>
<1>1. SUFFICES ASSUME NEW u, NEW w, NEW x1, NEW y1, FieldFits(u, w), Fits(x1, y1), <<>> = u \o x1
               PROVE  FALSE
  BY FitsSplit
<1>2. u \in Seq(StepSet) /\ u # <<>> /\ x1 \in Seq(StepSet)
  BY <1>1, FitsTypes DEF FieldFits
<1>3. u \o x1 # <<>>
  BY <1>2, HeadOfConcat
<1>4. QED
  BY <1>1, <1>3

(***************************************************************************)
(* What the kernel writes                                                  *)
(***************************************************************************)
\* the parts behind the header of a sample
DataPartSet == [f : Names \ {"SAMPLE", "lost"}, n : Nat \ {0}, v : Nat]

LEMMA CopiesTypes ==
    ASSUME NEW S, NEW x \in S, NEW n \in Nat
    PROVE  /\ Copies(x, n) \in Seq(S) /\ Len(Copies(x, n)) = n
           /\ \A i \in 1 .. n : Copies(x, n)[i] = x
  BY DEF Copies

LEMMA StepFacts ==
    ASSUME NEW f \in Names, NEW n \in Nat
    PROVE  /\ Step(f, n) \in PlainSteps /\ Step(f, n) \in StepSet
           /\ Step(f, n).f = f /\ Step(f, n).n = n
           /\ Step(f, n).more = <<>> /\ Step(f, n).dec = n
BY DEF Step, PlainSteps, StepSet

LEMMA CountStepFacts ==
    ASSUME NEW f \in Names, NEW n \in Nat, NEW m \in PlainSteps
    PROVE  /\ CountStep(f, n, <<m>>) \in StepSet
           /\ CountStep(f, n, <<m>>).f = f /\ CountStep(f, n, <<m>>).n = n
           /\ CountStep(f, n, <<m>>).more = <<m>> /\ CountStep(f, n, <<m>>).dec = n
<1> DEFINE more == <<m>>
<1>1. more \in {<<k>> : k \in PlainSteps}
  OBVIOUS
<1> HIDE DEF more
<1>2. CountStep(f, n, more) = [f |-> f, n |-> n, more |-> more, dec |-> n]
  BY DEF CountStep, Step
<1>3. CountStep(f, n, more) \in StepSet
  BY <1>1, <1>2 DEF StepSet
<1>4. QED
  BY <1>2, <1>3 DEF more

LEMMA PartFacts ==
    ASSUME NEW f \in Names \ {"SAMPLE", "lost"}, NEW n \in Nat \ {0}, NEW v \in Nat
    PROVE  /\ Part(f, n, v) \in DataPartSet /\ Part(f, n, v) \in BodyPartSet
           /\ Part(f, n, v).f = f /\ Part(f, n, v).n = n /\ Part(f, n, v).v = v
BY DEF Part, DataPartSet, BodyPartSet

\* a count, and as many parts of one kind
CountAndReads(f, m) == << CountStep(f, 2, << m >>) >>
CountAndParts(f, r, c) == << Part(f, 2, c) >> \o Copies(r, c)

LEMMA CountedFits ==
    ASSUME NEW f \in Names \ {"SAMPLE", "lost"}, NEW t \in PlainSteps, NEW r \in DataPartSet, NEW c \in Nat,
           Fit(t, r)
    PROVE  /\ CountAndReads(f, t) \in Seq(StepSet) /\ CountAndParts(f, r, c) \in Seq(DataPartSet)
           /\ FieldFits(CountAndReads(f, t), CountAndParts(f, r, c))
<1> DEFINE s == CountStep(f, 2, << t >>)
           p == Part(f, 2, c)
           q == Copies(r, c)
           z == Copies(t, c)
<1>1. t.n \in Nat \ {0} /\ t.more = <<>>
  BY DEF Fit, PlainSteps, DataPartSet
<1>2. s \in StepSet /\ s.more = <<t>> /\ s.f = f /\ s.n = 2 /\ s.dec = 2
  BY CountStepFacts
<1>3. p \in DataPartSet /\ p.v = c /\ p.f = f /\ p.n = 2
  BY PartFacts
<1>4. DataPartSet \subseteq BodyPartSet /\ PlainSteps \subseteq StepSet
  BY DEF DataPartSet, BodyPartSet, PlainSteps, StepSet
<1> HIDE DEF s, p
<1>5. q \in Seq(DataPartSet) /\ Len(q) = c /\ \A i \in 1 .. c : q[i] = r
  BY CopiesTypes
<1>6. z \in Seq(StepSet) /\ Len(z) = c /\ \A i \in 1 .. c : z[i] = t
  BY <1>4, CopiesTypes
<1>7. Expand(s, c) = z
  <2>1. CASE c = 0
    <3>1. Expand(s, c) = <<>>
      BY <2>1 DEF Expand
    <3>2. z = <<>>
      BY <1>6, <2>1
    <3>3. QED
      BY <3>1, <3>2
  <2>2. CASE c # 0
    <3>1. s.more # <<>> /\ s.more[1] = t /\ t.n > 0
      BY <1>1, <1>2
    <3>2. QED
      BY <2>2, <3>1 DEF Expand
  <2>3. QED
    BY <2>1, <2>2
<1> HIDE DEF q, z
<1> DEFINE x == << s >>
           y == << p >> \o q
<1>8. x \in Seq(StepSet) /\ x # <<>> /\ Head(x) = s /\ Tail(x) = <<>>
  BY <1>2
<1>9. y \in Seq(DataPartSet) /\ y \in Seq(BodyPartSet) /\ y # <<>> /\ Head(y) = p /\ Tail(y) = q
  BY <1>3, <1>4, <1>5
<1>10. z \o <<>> = z
  BY <1>6
<1>11. Fit(s, p) /\ Plain(z, q)
  BY <1>1, <1>2, <1>3, <1>5, <1>6 DEF Fit, Plain
<1> HIDE DEF x, y
<1>12. FieldFits(x, y)
  BY <1>3, <1>7, <1>8, <1>9, <1>10, <1>11 DEF FieldFits
<1>13. x = CountAndReads(f, t) /\ y = CountAndParts(f, r, c)
  BY DEF x, y, s, p, q, CountAndReads, CountAndParts
<1>14. QED
  BY <1>8, <1>9, <1>12, <1>13

LEMMA OneFits ==
    ASSUME NEW f \in Names \ {"SAMPLE", "lost"}, NEW n \in Nat \ {0}
    PROVE  /\ << Step(f, n) >> \in Seq(StepSet) /\ << Part(f, n, 0) >> \in Seq(DataPartSet)
           /\ FieldFits(<< Step(f, n) >>, << Part(f, n, 0) >>)
<1> DEFINE s == Step(f, n)
           p == Part(f, n, 0)
<1>1. s \in StepSet /\ p \in DataPartSet /\ p \in BodyPartSet
  BY StepFacts, PartFacts
<1>2. Fit(s, p) /\ s.more = <<>>
  BY StepFacts, PartFacts DEF Fit
<1> HIDE DEF s, p
<1>3. << s >> \in Seq(StepSet) /\ << p >> \in Seq(DataPartSet) /\ << p >> \in Seq(BodyPartSet) /\ << s >> # <<>>
  BY <1>1
<1>4. Plain(<< s >>, << p >>)
  BY <1>2 DEF Plain
<1>5. FieldFits(<< s >>, << p >>)
  BY <1>3, <1>4, PlainFits
<1>6. QED
  BY <1>3, <1>5 DEF s, p

LEMMA ReadFits ==
    LET x == << Step("value", 2), Step("enabled", 2), Step("running", 2) >>
        y == << Part("value", 2, 0), Part("enabled", 2, 0), Part("running", 2, 0) >>
    IN  x \in Seq(StepSet) /\ y \in Seq(DataPartSet) /\ FieldFits(x, y)
<1> DEFINE s(g) == Step(g, 2)
           p(g) == Part(g, 2, 0)
<1>1. ASSUME NEW g \in Names \ {"SAMPLE", "lost"}
      PROVE  /\ s(g) \in StepSet /\ p(g) \in DataPartSet /\ p(g) \in BodyPartSet
             /\ Fit(s(g), p(g)) /\ s(g).more = <<>>
  <2>1. s(g) \in StepSet /\ s(g).f = g /\ s(g).n = 2 /\ s(g).more = <<>> /\ s(g).dec = 2
    BY StepFacts
  <2>2. p(g) \in DataPartSet /\ p(g) \in BodyPartSet /\ p(g).f = g /\ p(g).n = 2
    BY PartFacts
  <2>3. QED
    BY <2>1, <2>2 DEF Fit
<1> HIDE DEF s, p
<1>0. {"value", "enabled", "running"} \subseteq Names \ {"SAMPLE", "lost"}
  BY DEF Names
<1>2. /\ s("value") \in StepSet /\ p("value") \in DataPartSet /\ p("value") \in BodyPartSet
      /\ Fit(s("value"), p("value")) /\ s("value").more = <<>>
  BY <1>0, <1>1
<1>3. /\ s("enabled") \in StepSet /\ p("enabled") \in DataPartSet /\ p("enabled") \in BodyPartSet
      /\ Fit(s("enabled"), p("enabled")) /\ s("enabled").more = <<>>
  BY <1>0, <1>1
<1>4. /\ s("running") \in StepSet /\ p("running") \in DataPartSet /\ p("running") \in BodyPartSet
      /\ Fit(s("running"), p("running")) /\ s("running").more = <<>>
  BY <1>0, <1>1
<1> DEFINE x == << s("value"), s("enabled"), s("running") >>
           y == << p("value"), p("enabled"), p("running") >>
<1>5. x \in Seq(StepSet) /\ y \in Seq(DataPartSet) /\ y \in Seq(BodyPartSet) /\ x # <<>>
  BY <1>2, <1>3, <1>4
<1>6. Plain(x, y)
  BY <1>2, <1>3, <1>4 DEF Plain
<1>7. FieldFits(x, y)
  BY <1>5, <1>6, PlainFits
<1>8. QED
  BY <1>5, <1>7 DEF s, p

\* perf_display_sample reads a field as the kernel writes it, whatever the
\* number of its elements.
LEMMA DisplayedFits ==
    ASSUME NEW f \in Names \ {"SAMPLE", "lost", "STACK_USER"}, NEW c \in Nat
    PROVE  /\ Displayed(f) \in Seq(StepSet) /\ Written(f, c) \in Seq(DataPartSet)
           /\ FieldFits(Displayed(f), Written(f, c))
<1>1. DataPartSet \subseteq BodyPartSet
  BY DEF DataPartSet, BodyPartSet
<1>2. CASE f = "CALLCHAIN"
  <2>1. Displayed(f) = CountAndReads("nr_ip", Step("ip", 2))
    BY <1>2 DEF Displayed, CountAndReads
  <2>2. Written(f, c) = CountAndParts("nr_ip", Part("ip", 2, 0), c)
    BY <1>2 DEF Written, U64, CountAndParts
  <2>3. Step("ip", 2) \in PlainSteps /\ Part("ip", 2, 0) \in DataPartSet /\ Fit(Step("ip", 2), Part("ip", 2, 0))
    <3>1. "ip" \in Names \ {"SAMPLE", "lost"}
      BY DEF Names
    <3>2. QED
      BY <3>1, StepFacts, PartFacts DEF Fit
  <2>4. "nr_ip" \in Names \ {"SAMPLE", "lost"}
    BY DEF Names
  <2>5. QED
    BY <2>1, <2>2, <2>3, <2>4, CountedFits
<1>3. CASE f = "BRANCH_STACK"
  <2>1. Displayed(f) = CountAndReads("nr_branch", Step("branch", 6))
    BY <1>3 DEF Displayed, CountAndReads
  <2>2. Written(f, c) = CountAndParts("nr_branch", Part("branch", 6, 0), c)
    BY <1>3 DEF Written, CountAndParts
  <2>3. /\ Step("branch", 6) \in PlainSteps /\ Part("branch", 6, 0) \in DataPartSet
        /\ Fit(Step("branch", 6), Part("branch", 6, 0))
    <3>1. "branch" \in Names \ {"SAMPLE", "lost"}
      BY DEF Names
    <3>2. QED
      BY <3>1, StepFacts, PartFacts DEF Fit
  <2>4. "nr_branch" \in Names \ {"SAMPLE", "lost"}
    BY DEF Names
  <2>5. QED
    BY <2>1, <2>2, <2>3, <2>4, CountedFits
<1>4. CASE f = "RAW"
  <2> DEFINE n == 2 * c + 1
             m == Step("raw", 0)
             s == CountStep("raw_size", 1, << m >>)
             p == Part("raw_size", 1, n)
             q == Part("raw", n, 0)
             t == [m EXCEPT !.n = n, !.dec = n]
  <2>1. Displayed(f) = << s >> /\ Written(f, c) = << p, q >>
    BY <1>4 DEF Displayed, Written
  <2>2. n \in Nat \ {0} /\ {"raw", "raw_size"} \subseteq Names \ {"SAMPLE", "lost"}
    BY DEF Names
  <2> HIDE DEF n
  <2>3. m \in PlainSteps /\ m.f = "raw" /\ m.n = 0 /\ m.more = <<>>
    BY <2>2, StepFacts
  <2>4. s \in StepSet /\ s.more = <<m>> /\ s.f = "raw_size" /\ s.n = 1 /\ s.dec = 1
    BY <2>2, <2>3, CountStepFacts
  <2>5. p \in DataPartSet /\ q \in DataPartSet /\ p.f = "raw_size" /\ p.n = 1 /\ p.v = n /\ q.f = "raw" /\ q.n = n
    BY <2>2, PartFacts
  <2> HIDE DEF m, s, p, q
  <2>6. t \in PlainSteps /\ t.f = "raw" /\ t.n = n /\ t.dec = n /\ t.more = <<>>
    BY <2>2, <2>3 DEF PlainSteps
  <2>7. t \in StepSet
    BY <2>6 DEF PlainSteps, StepSet
  <2>8. Expand(s, p.v) = << t >>
    <3>1. s.more[1] = m /\ s.more # <<>> /\ p.v # 0 /\ ~(m.n > 0) /\ s.dec # 0
      BY <2>2, <2>3, <2>4, <2>5
    <3>2. QED
      BY <2>5, <3>1 DEF Expand
  <2> HIDE DEF t
  <2>9. << s >> \in Seq(StepSet) /\ << s >> # <<>> /\ Head(<< s >>) = s /\ << t >> \o Tail(<< s >>) = << t >>
    BY <2>4, <2>7
  <2>10. /\ << p, q >> \in Seq(DataPartSet) /\ << p, q >> \in Seq(BodyPartSet) /\ << p, q >> # <<>>
         /\ Head(<< p, q >>) = p /\ Tail(<< p, q >>) = << q >>
    BY <1>1, <2>5
  <2>11. Plain(<< t >>, << q >>) /\ Fit(s, p)
    BY <2>4, <2>5, <2>6 DEF Plain, Fit
  <2>12. QED
    BY <2>1, <2>8, <2>9, <2>10, <2>11 DEF FieldFits
<1>5. CASE f = "READ"
  <2>1. /\ Displayed(f) = << Step("value", 2), Step("enabled", 2), Step("running", 2) >>
        /\ Written(f, c) = << Part("value", 2, 0), Part("enabled", 2, 0), Part("running", 2, 0) >>
    BY <1>5 DEF Displayed, Written, U64
  <2>2. QED
    BY <2>1, ReadFits
<1>6. CASE f \notin {"CALLCHAIN", "BRANCH_STACK", "RAW", "READ"}
  <2>1. Displayed(f) = << Step(f, 2) >> /\ Written(f, c) = << Part(f, 2, 0) >>
    BY <1>6 DEF Displayed, Written, U64
  <2>2. QED
    BY <2>1, OneFits
<1>7. QED
  BY <1>2, <1>3, <1>4, <1>5, <1>6

\* the two orders agree, and no field is called as what the program counts
LEMMA Orders ==
    /\ DisplayOrder = KernelOrder /\ Len(KernelOrder) = 17
    /\ \A i \in 1 .. 17 : KernelOrder[i] \in Names \ {"SAMPLE", "lost"}
<1>1. DisplayOrder = KernelOrder
  BY DEF DisplayOrder, KernelOrder
<1>2. Len(KernelOrder) = 17 /\ KernelOrder \in Seq(Names)
  BY DEF KernelOrder, Names
<1>3. \A i \in 1 .. 17 : KernelOrder[i] \notin {"SAMPLE", "lost"}
  BY DEF KernelOrder
<1>4. \A i \in 1 .. 17 : KernelOrder[i] \in Names
  BY <1>2, ElementOfSeq
<1>5. QED
  BY <1>1, <1>2, <1>3, <1>4

LEMMA OneBack ==
    ASSUME NEW m \in Nat, m + 1 <= 17
    PROVE  LET k == 17 - (m + 1)
           IN  k \in 0 .. 17 - 1 /\ 17 - m = k + 1 /\ k + 1 \in 1 .. 17 /\ k + 1 \in 0 .. 17
OBVIOUS

\* the reads of a sample are those for the parts that the kernel writes
LEMMA SampleFits ==
    ASSUME NEW c \in Nat, sample_type \in SampleTypes
    PROVE  \E parts \in Seq(DataPartSet) : Sample(c) = Record("SAMPLE", parts) /\ Fits(SampleSteps, parts)
<1> DEFINE A == [i \in 1 .. 17 |-> IF KernelOrder[i] \in sample_type THEN Displayed(KernelOrder[i]) ELSE <<>>]
           B == [i \in 1 .. 17 |-> IF KernelOrder[i] \in sample_type THEN Written(KernelOrder[i], c) ELSE <<>>]
<1>1. SampleSteps = FlattenSeq(A) /\ Sample(c) = Record("SAMPLE", FlattenSeq(B))
  BY Orders DEF SampleSteps, Sample, InOrder
<1>2. ASSUME NEW i \in 1 .. 17
      PROVE  /\ A[i] \in Seq(StepSet) /\ B[i] \in Seq(DataPartSet)
             /\ (A[i] = <<>> /\ B[i] = <<>>) \/ FieldFits(A[i], B[i])
  <2> DEFINE f == KernelOrder[i]
  <2>1. f \in Names \ {"SAMPLE", "lost"}
    BY Orders
  <2>2. CASE f \in sample_type
    <3>1. A[i] = Displayed(f) /\ B[i] = Written(f, c)
      BY <2>2
    <3>2. f # "STACK_USER"
      BY <2>2, FormatAssumption
    <3> HIDE DEF A, B, f
    <3>3. QED
      BY <2>1, <3>1, <3>2, DisplayedFits
  <2>3. CASE f \notin sample_type
    <3>1. A[i] = <<>> /\ B[i] = <<>>
      BY <2>3
    <3> HIDE DEF A, B, f
    <3>2. QED
      BY <3>1
  <2>4. QED
    BY <2>2, <2>3
<1>3. A \in [1 .. 17 -> Seq(StepSet)] /\ B \in [1 .. 17 -> Seq(DataPartSet)]
  <2>1. A = [i \in 1 .. 17 |-> A[i]] /\ B = [i \in 1 .. 17 |-> B[i]]
    OBVIOUS
  <2> HIDE DEF A, B
  <2>2. QED
    BY <1>2, <2>1
<1> HIDE DEF A, B
<1>0. 17 \in Nat
  OBVIOUS
<1>a. PICK a \in [0 .. 17 -> Seq(StepSet)] : Tails(17, A, a)
  BY <1>0, <1>3, FlattenedTails, Zenon
<1>b. PICK b \in [0 .. 17 -> Seq(DataPartSet)] : Tails(17, B, b)
  BY <1>0, <1>3, FlattenedTails, Zenon
<1>4. a[0] = FlattenSeq(A) /\ a[17] = <<>> /\ \A i \in 0 .. 17 - 1 : a[i] = A[i + 1] \o a[i + 1]
  BY <1>a DEF Tails
<1>5. b[0] = FlattenSeq(B) /\ b[17] = <<>> /\ \A i \in 0 .. 17 - 1 : b[i] = B[i + 1] \o b[i + 1]
  BY <1>b DEF Tails
<1> DEFINE W(m) == Fits(a[17 - m], b[17 - m])
           R == {m \in Nat : m <= 17 => W(m)}
<1>6. W(0)
  <2>1. 17 - 0 = 17
    OBVIOUS
  <2>2. QED
    BY <1>4, <1>5, <2>1, FitsNone
<1>7. ASSUME NEW m \in Nat, W(m), m + 1 <= 17
      PROVE  W(m + 1)
  <2> DEFINE k == 17 - (m + 1)
  <2>2. k \in 0 .. 17 - 1 /\ 17 - m = k + 1 /\ k + 1 \in 1 .. 17 /\ k + 1 \in 0 .. 17
    <3>1. m + 1 <= 17
      BY <1>7, Zenon
    <3>2. QED
      BY <3>1, OneBack
  <2> HIDE DEF k
  <2>3. Fits(a[k + 1], b[k + 1])
    <3>1. 17 - m = k + 1
      BY <2>2
    <3>2. Fits(a[17 - m], b[17 - m])
      BY <1>7
    <3>3. QED
      BY <3>1, <3>2, Zenon
  <2>4. a[k] = A[k + 1] \o a[k + 1] /\ b[k] = B[k + 1] \o b[k + 1]
    BY <1>4, <1>5, <2>2
  <2>5. CASE A[k + 1] = <<>> /\ B[k + 1] = <<>>
    <3>1. a[k + 1] \in Seq(StepSet) /\ b[k + 1] \in Seq(DataPartSet)
      BY <2>2
    <3>2. a[k] = a[k + 1] /\ b[k] = b[k + 1]
      BY <2>4, <2>5, <3>1
    <3>3. QED
      BY <2>3, <3>2 DEF k
  <2>6. CASE FieldFits(A[k + 1], B[k + 1])
    <3>1. Fits(A[k + 1] \o a[k + 1], B[k + 1] \o b[k + 1])
      BY <2>3, <2>6, FitsMore
    <3>2. QED
      BY <2>4, <3>1 DEF k
  <2>7. QED
    BY <1>2, <2>2, <2>5, <2>6
<1>8. W(17)
  <2> HIDE DEF W
  <2>1. 0 \in R /\ \A m \in Nat : m \in R => m + 1 \in R
    BY <1>6, <1>7
  <2> HIDE DEF R
  <2>2. 17 \in R
    BY <2>1, SetInduction
  <2>3. QED
    BY <2>2 DEF R
<1>9. Fits(a[0], b[0])
  <2>1. 17 - 17 = 0
    OBVIOUS
  <2>2. QED
    BY <1>8, <2>1
<1>10. b[0] \in Seq(DataPartSet)
  OBVIOUS
<1>11. QED
  BY <1>1, <1>4, <1>5, <1>9, <1>10

\* the report of lost samples
LEMMA LostFits ==
    ASSUME NEW d \in Nat
    PROVE  /\ << Part("lost", 4, d) >> \in Seq(BodyPartSet)
           /\ Fits(<< Step("lost", 4) >>, << Part("lost", 4, d) >>)
<1> DEFINE s == Step("lost", 4)
           p == Part("lost", 4, d)
<1>1. s \in StepSet /\ s.f = "lost" /\ s.n = 4 /\ s.more = <<>> /\ s.dec = 4
  BY StepFacts DEF Names
<1>2. p \in BodyPartSet /\ p.f = "lost" /\ p.n = 4
  BY DEF Part, BodyPartSet, Names
<1> HIDE DEF s, p
<1>3. << s >> \in Seq(StepSet) /\ << p >> \in Seq(BodyPartSet) /\ << s >> # <<>>
  BY <1>1, <1>2
<1>4. Plain(<< s >>, << p >>)
  BY <1>1, <1>2 DEF Plain, Fit
<1>5. FieldFits(<< s >>, << p >>)
  BY <1>3, <1>4, PlainFits
<1>6. << s >> \o <<>> = << s >> /\ << p >> \o <<>> = << p >>
  BY <1>3
<1>7. Fits(<< s >>, << p >>)
  BY <1>5, <1>6, FitsMore, FitsNone
<1>8. QED
  BY <1>3, <1>7 DEF s, p

LEMMA ThrottleFits ==
    /\ << Part("throttle", 6, 0) >> \in Seq(DataPartSet)
    /\ Fits(<< Step("throttle", 6) >>, << Part("throttle", 6, 0) >>)
<1> DEFINE x == << Step("throttle", 6) >>
           y == << Part("throttle", 6, 0) >>
<1>1. "throttle" \in Names \ {"SAMPLE", "lost"}
  BY DEF Names
<1>2. x \in Seq(StepSet) /\ y \in Seq(DataPartSet) /\ FieldFits(x, y)
  BY <1>1, OneFits
<1> HIDE DEF x, y
<1>3. x \o <<>> = x /\ y \o <<>> = y
  BY <1>2
<1>4. Fits(x, y)
  BY <1>2, <1>3, FitsMore, FitsNone
<1>5. QED
  BY <1>2, <1>4 DEF x, y

\* what is behind the header of a record is neither a sample nor, but in the
\* report, a count of lost ones
LEMMA DataIsNotCounted ==
    ASSUME NEW s \in Seq(DataPartSet)
    PROVE  Samples(s) = 0
<1>1. \A p \in DataPartSet : Counted(p) = 0
  BY DEF DataPartSet, Counted
<1>2. \A i \in 1 .. Len(s) : s[i] \in DataPartSet
  OBVIOUS
<1>3. [i \in 1 .. Len(s) |-> Counted(s[i])] = [i \in 1 .. Len(s) |-> 0]
  BY <1>1, <1>2
<1>4. QED
  BY <1>3, TotalZero DEF Samples

(***************************************************************************)
(* A stream of records                                                     *)
(***************************************************************************)
Chain(k, r, W) == r[k] = <<>> /\ \A i \in 0 .. k - 1 : \E w \in W : r[i] = w \o r[i + 1]
Stream(s, W) == \E k \in Nat : \E r \in [0 .. k -> Seq(PartSet)] : r[0] = s /\ Chain(k, r, W)

LEMMA StreamNone == ASSUME NEW W PROVE Stream(<<>>, W)
<1> DEFINE r == [i \in 0 .. 0 |-> <<>>]
<1>1. r \in [0 .. 0 -> Seq(PartSet)] /\ r[0] = <<>>
  OBVIOUS
<1> HIDE DEF r
<1>2. \A i \in 0 .. 0 - 1 : FALSE
  OBVIOUS
<1>3. Chain(0, r, W)
  BY <1>1, <1>2 DEF Chain
<1>4. QED
  BY <1>1, <1>3 DEF Stream

LEMMA StreamTypes == ASSUME NEW W, NEW s, Stream(s, W) PROVE s \in Seq(PartSet)
<1>1. PICK k \in Nat : \E r \in [0 .. k -> Seq(PartSet)] : r[0] = s /\ Chain(k, r, W)
  BY Zenon DEF Stream
<1>2. PICK r \in [0 .. k -> Seq(PartSet)] : r[0] = s
  BY <1>1, Zenon
<1>3. 0 \in 0 .. k
  OBVIOUS
<1>4. QED
  BY <1>2, <1>3

LEMMA StreamSplit ==
    ASSUME NEW W, NEW s, Stream(s, W), s # <<>>
    PROVE  \E w \in W : \E t : Stream(t, W) /\ s = w \o t
<1>1. PICK k \in Nat : \E r \in [0 .. k -> Seq(PartSet)] : r[0] = s /\ Chain(k, r, W)
  BY Zenon DEF Stream
<1>2. PICK r \in [0 .. k -> Seq(PartSet)] : r[0] = s /\ Chain(k, r, W)
  BY <1>1, Zenon
<1>3. k # 0
  BY <1>2, Zenon DEF Chain
<1>4. k \in Nat \ {0} /\ 0 \in 0 .. k - 1 /\ k - 1 \in Nat /\ k - 1 \in 0 .. k - 1 /\ 0 + 1 = 1
  BY <1>3
<1>5. PICK c \in [0 .. k - 1 -> Seq(PartSet)] : Behind(k, r, c)
  BY <1>4, Shorter, Zenon
<1>6. PICK w \in W : r[0] = w \o r[0 + 1]
  BY <1>2, <1>4 DEF Chain
<1>7. c[0] = r[0 + 1]
  BY <1>4, <1>5 DEF Behind
<1>8. Chain(k - 1, c, W)
  <2>1. c[k - 1] = <<>>
    <3>1. c[k - 1] = r[(k - 1) + 1]
      BY <1>4, <1>5 DEF Behind
    <3>2. (k - 1) + 1 = k
      OBVIOUS
    <3>3. QED
      BY <1>2, <3>1, <3>2 DEF Chain
  <2>2. ASSUME NEW i \in 0 .. (k - 1) - 1
        PROVE  \E v \in W : c[i] = v \o c[i + 1]
    <3> DEFINE j == i + 1
    <3>1. j \in 0 .. k - 1 /\ i \in 0 .. k - 1
      OBVIOUS
    <3>2. c[i] = r[j]
      BY <1>5, <3>1 DEF Behind
    <3> HIDE DEF j
    <3>3. PICK v \in W : r[j] = v \o r[j + 1]
      BY <1>2, <3>1 DEF Chain
    <3>4. c[j] = r[j + 1]
      BY <1>5, <3>1 DEF Behind
    <3>5. QED
      BY <3>2, <3>3, <3>4 DEF j
  <2>3. QED
    BY <2>1, <2>2 DEF Chain
<1>9. Stream(c[0], W)
  BY <1>4, <1>8 DEF Stream
<1>10. QED
  BY <1>2, <1>6, <1>7, <1>9

\* the kernel writes behind what is there
Appended(k, r, w, c) == c[k + 1] = <<>> /\ \A i \in 0 .. k : c[i] = r[i] \o w

LEMMA LongerBehind ==
    ASSUME NEW S, NEW k \in Nat, NEW r \in [0 .. k -> Seq(S)], NEW w \in Seq(S)
    PROVE  \E c \in [0 .. k + 1 -> Seq(S)] : Appended(k, r, w, c)
<1> DEFINE c == [i \in 0 .. k + 1 |-> IF i = k + 1 THEN <<>> ELSE r[i] \o w]
<1>1. \A i \in 0 .. k : r[i] \in Seq(S) /\ r[i] \o w \in Seq(S) /\ i # k + 1 /\ i \in 0 .. k + 1
  OBVIOUS
<1>2. \A i \in 0 .. k + 1 : i # k + 1 => i \in 0 .. k
  OBVIOUS
<1>3. \A i \in 0 .. k + 1 : (IF i = k + 1 THEN <<>> ELSE r[i] \o w) \in Seq(S)
  BY <1>1, <1>2
<1>4. c \in [0 .. k + 1 -> Seq(S)]
  BY <1>3
<1>5. k + 1 \in 0 .. k + 1
  OBVIOUS
<1>6. c[k + 1] = <<>> /\ \A i \in 0 .. k : c[i] = r[i] \o w
  BY <1>1, <1>5
<1>7. QED
  BY <1>4, <1>6 DEF Appended

LEMMA StreamAppend ==
    ASSUME NEW W, W \subseteq Seq(PartSet), NEW s, Stream(s, W), NEW w \in W
    PROVE  Stream(s \o w, W)
<1>1. PICK k \in Nat : \E r \in [0 .. k -> Seq(PartSet)] : r[0] = s /\ Chain(k, r, W)
  BY Zenon DEF Stream
<1>2. PICK r \in [0 .. k -> Seq(PartSet)] : r[0] = s /\ Chain(k, r, W)
  BY <1>1, Zenon
<1>3. w \in Seq(PartSet)
  OBVIOUS
<1>4. PICK c \in [0 .. k + 1 -> Seq(PartSet)] : Appended(k, r, w, c)
  BY <1>3, LongerBehind, Zenon
<1>5. Chain(k + 1, c, W)
  <2>1. c[k + 1] = <<>>
    BY <1>4 DEF Appended
  <2>2. ASSUME NEW i \in 0 .. (k + 1) - 1
        PROVE  \E v \in W : c[i] = v \o c[i + 1]
    <3>1. i \in 0 .. k
      OBVIOUS
    <3>2. c[i] = r[i] \o w
      BY <1>4, <3>1 DEF Appended
    <3>3. CASE i = k
      <4>1. r[i] = <<>> /\ c[i + 1] = <<>>
        BY <1>2, <2>1, <3>3 DEF Chain
      <4>2. <<>> \o w = w /\ w \o <<>> = w
        BY <1>3
      <4>3. QED
        BY <3>2, <4>1, <4>2
    <3>4. CASE i # k
      <4>1. i \in 0 .. k - 1 /\ i + 1 \in 0 .. k
        BY <3>1, <3>4
      <4>2. PICK v \in W : r[i] = v \o r[i + 1]
        BY <1>2, <4>1 DEF Chain
      <4>3. c[i + 1] = r[i + 1] \o w
        BY <1>4, <4>1 DEF Appended
      <4>4. v \in Seq(PartSet) /\ r[i + 1] \in Seq(PartSet)
        BY <4>1, <4>2
      <4>5. Associate(v, r[i + 1], w)
        BY <1>3, <4>4, ThreeAssociate, Zenon
      <4>6. c[i] = v \o c[i + 1]
        BY <3>2, <4>2, <4>3, <4>5 DEF Associate
      <4>7. QED
        BY <4>6
    <3>5. QED
      BY <3>3, <3>4
  <2>3. QED
    BY <2>1, <2>2 DEF Chain
<1>6. c[0] = s \o w
  <2>1. 0 \in 0 .. k
    OBVIOUS
  <2>2. QED
    BY <1>2, <1>4, <2>1 DEF Appended
<1>7. k + 1 \in Nat
  OBVIOUS
<1>8. Stream(c[0], W)
  BY <1>5, <1>7, Zenon DEF Stream
<1>9. QED
  BY <1>6, <1>8

(***************************************************************************)
(* The records of a session                                                *)
(***************************************************************************)
\* the reads for the part of a record behind its header
Reads(type, steps) ==
    CASE type = "SAMPLE" -> steps
      [] type = "LOST" -> << Step("lost", 4) >>
      [] OTHER -> << Step("throttle", 6) >>

IsRecord(w, type, parts, steps) ==
    /\ type \in {"SAMPLE", "LOST", "THROTTLE"} /\ parts \in Seq(BodyPartSet)
    /\ w = Record(type, parts) /\ Fits(Reads(type, steps), parts)
RecordsOf(steps) == {w \in Seq(PartSet) : \E type, parts : IsRecord(w, type, parts, steps)}

LEMMA RecordFacts ==
    ASSUME NEW type \in {"SAMPLE", "LOST", "THROTTLE"}, NEW parts \in Seq(BodyPartSet)
    PROVE  /\ Record(type, parts) \in Seq(PartSet)
           /\ Part(type, 2, 2 + Units(parts)) \in PartSet
           /\ Samples(Record(type, parts)) = (IF type = "SAMPLE" THEN 1 ELSE 0) + Samples(parts)
<1> DEFINE h == Part(type, 2, 2 + Units(parts))
<1>1. parts \in Seq(PartSet) /\ Units(parts) \in Nat
  BY BodyPartsAreParts, UnitsTypes
<1>2. h \in PartSet /\ h.f = type
  BY <1>1 DEF Part, PartSet, Names
<1>3. Record(type, parts) = << h >> \o parts
  BY DEF Record
<1>4. Counted(h) = IF type = "SAMPLE" THEN 1 ELSE 0
  BY <1>2 DEF Counted
<1> HIDE DEF h
<1>5. << h >> \in Seq(PartSet)
  BY <1>2
<1>6. Samples(<< h >> \o parts) = Samples(<< h >>) + Samples(parts)
  BY <1>1, <1>5, UnitsConcat
<1>7. Samples(<< h >>) = Counted(h)
  BY <1>2, UnitsOfOne
<1>8. << h >> \o parts \in Seq(PartSet)
  BY <1>1, <1>5
<1>9. QED
  BY <1>2, <1>3, <1>4, <1>6, <1>7, <1>8 DEF h

LEMMA SampleRecord ==
    ASSUME NEW c \in Nat, sample_type \in SampleTypes
    PROVE  Sample(c) \in RecordsOf(SampleSteps) /\ Samples(Sample(c)) = 1
<1>1. PICK parts \in Seq(DataPartSet) : Sample(c) = Record("SAMPLE", parts) /\ Fits(SampleSteps, parts)
  BY SampleFits
<1>2. parts \in Seq(BodyPartSet)
  <2>1. DataPartSet \subseteq BodyPartSet
    BY DEF DataPartSet, BodyPartSet
  <2>2. QED
    BY <2>1
<1>3. Samples(parts) = 0
  BY DataIsNotCounted
<1>4. Reads("SAMPLE", SampleSteps) = SampleSteps
  BY DEF Reads
<1>5. /\ Record("SAMPLE", parts) \in Seq(PartSet)
      /\ Samples(Record("SAMPLE", parts)) = 1 + Samples(parts)
  BY <1>2, RecordFacts
<1>6. IsRecord(Sample(c), "SAMPLE", parts, SampleSteps)
  BY <1>1, <1>2, <1>4 DEF IsRecord
<1>7. QED
  BY <1>1, <1>3, <1>5, <1>6 DEF RecordsOf

LEMMA LostRecord ==
    ASSUME dropped \in Nat, NEW steps
    PROVE  Lost \in RecordsOf(steps) /\ Samples(Lost) = dropped
<1> DEFINE p == Part("lost", 4, dropped)
           parts == << p >>
<1>1. parts \in Seq(BodyPartSet) /\ Fits(<< Step("lost", 4) >>, parts)
  BY LostFits
<1>2. Lost = Record("LOST", parts)
  BY DEF Lost
<1>3. Reads("LOST", steps) = << Step("lost", 4) >>
  BY DEF Reads
<1>4. Samples(parts) = dropped
  <2>1. p \in PartSet /\ p.f = "lost" /\ p.v = dropped
    BY DEF Part, PartSet, Names
  <2>2. Counted(p) = dropped
    BY <2>1 DEF Counted
  <2> HIDE DEF p
  <2>3. QED
    BY <2>1, <2>2, UnitsOfOne
<1> HIDE DEF parts
<1>5. Record("LOST", parts) \in Seq(PartSet) /\ Samples(Record("LOST", parts)) = 0 + Samples(parts)
  BY <1>1, RecordFacts
<1>6. IsRecord(Lost, "LOST", parts, steps)
  BY <1>1, <1>2, <1>3 DEF IsRecord
<1>7. QED
  BY <1>2, <1>4, <1>5, <1>6 DEF RecordsOf

LEMMA ThrottleRecord ==
    ASSUME NEW steps
    PROVE  LET w == Record("THROTTLE", << Part("throttle", 6, 0) >>)
           IN  w \in RecordsOf(steps) /\ Samples(w) = 0
<1> DEFINE parts == << Part("throttle", 6, 0) >>
           w == Record("THROTTLE", parts)
<1>1. parts \in Seq(DataPartSet) /\ Fits(<< Step("throttle", 6) >>, parts)
  BY ThrottleFits
<1>2. Samples(parts) = 0
  BY <1>1, DataIsNotCounted
<1>3. Reads("THROTTLE", steps) = << Step("throttle", 6) >>
  BY DEF Reads
<1>4. parts \in Seq(BodyPartSet)
  <2>1. DataPartSet \subseteq BodyPartSet
    BY DEF DataPartSet, BodyPartSet
  <2>2. QED
    BY <1>1, <2>1
<1> HIDE DEF parts
<1>5. w \in Seq(PartSet) /\ Samples(w) = 0 + Samples(parts)
  BY <1>4, RecordFacts
<1>6. IsRecord(w, "THROTTLE", parts, steps)
  BY <1>1, <1>3, <1>4 DEF IsRecord
<1>7. w \in RecordsOf(steps) /\ Samples(w) = 0
  BY <1>2, <1>5, <1>6 DEF RecordsOf
<1>8. QED
  BY <1>7 DEF parts

\* The header of the next record, and what the reads for it will find.
LEMMA NextRecord ==
    ASSUME NEW steps, NEW u, Stream(u, RecordsOf(steps)), u # <<>>
    PROVE  \E type \in {"SAMPLE", "LOST", "THROTTLE"} : \E parts, rest :
               /\ Head(u) = Part(type, 2, 2 + Units(parts))
               /\ Tail(u) = parts \o rest
               /\ Fits(Reads(type, steps), parts) /\ Stream(rest, RecordsOf(steps))
<1>1. PICK w \in RecordsOf(steps) : \E t : Stream(t, RecordsOf(steps)) /\ u = w \o t
  BY StreamSplit
<1>2. PICK t : Stream(t, RecordsOf(steps)) /\ u = w \o t
  BY <1>1
<1>3. PICK type, parts : IsRecord(w, type, parts, steps)
  BY DEF RecordsOf
<1> DEFINE h == Part(type, 2, 2 + Units(parts))
<1>4. /\ type \in {"SAMPLE", "LOST", "THROTTLE"} /\ parts \in Seq(BodyPartSet)
      /\ w = << h >> \o parts /\ Fits(Reads(type, steps), parts)
  BY <1>3 DEF IsRecord, Record
<1>5. h \in PartSet /\ parts \in Seq(PartSet) /\ t \in Seq(PartSet)
  BY <1>2, <1>4, RecordFacts, BodyPartsAreParts, StreamTypes
<1> HIDE DEF h
<1>6. Associate(<< h >>, parts, t)
  <2>1. << h >> \in Seq(PartSet)
    BY <1>5
  <2>2. QED
    BY <1>5, <2>1, ThreeAssociate, Zenon
<1> DEFINE q == parts \o t
<1>7. u = << h >> \o q
  BY <1>2, <1>4, <1>6 DEF Associate
<1>8. q \in Seq(PartSet)
  BY <1>5
<1> HIDE DEF q
<1>9. Head(u) = h /\ Tail(u) = q
  BY <1>5, <1>7, <1>8
<1>10. QED
  BY <1>2, <1>4, <1>9 DEF h, q

LEMMA Piece ==
    ASSUME NEW S, NEW u \in Seq(S), NEW a \in Nat, NEW n \in Nat, a + n <= Len(u)
    PROVE  /\ SubSeq(u, a + 1, a + n) \in Seq(S) /\ Len(SubSeq(u, a + 1, a + n)) = n
           /\ \A i \in 1 .. n : SubSeq(u, a + 1, a + n)[i] = u[a + i]
<1> DEFINE l == a + 1
           h == a + n
<1>1. l \in Int /\ h \in Int /\ h - l + 1 = n /\ (IF l <= h THEN h - l + 1 ELSE 0) = n
  OBVIOUS
<1>2. \A i \in l .. h : i \in 1 .. Len(u)
  OBVIOUS
<1>3. \A i \in l .. h : u[i] \in S
  BY <1>2
<1>4. \A i \in 1 .. n : l + i - 1 = a + i
  OBVIOUS
<1> HIDE DEF l, h
<1>5. /\ SubSeq(u, l, h) \in Seq(S) /\ Len(SubSeq(u, l, h)) = n
      /\ \A i \in 1 .. n : SubSeq(u, l, h)[i] = u[l + i - 1]
  BY <1>1, <1>3, SubSeqProperties
<1>6. \A i \in 1 .. n : SubSeq(u, l, h)[i] = u[a + i]
  BY <1>4, <1>5
<1>7. QED
  BY <1>5, <1>6 DEF l, h

\* Only one part of the stream is as long as what is left of a record.
Joined(u, parts, rest) == u = parts \o rest
SkipPlaces(u, n) == {i \in 0 .. Len(u) : Units(SubSeq(u, 1, i)) = n}

LEMMA SkipExact ==
    ASSUME NEW parts \in Seq(PartSet), NEW rest \in Seq(PartSet), NEW u, Joined(u, parts, rest)
    PROVE  /\ Units(parts) <= Units(u)
           /\ SkipPlaces(u, Units(parts)) = {Len(parts)}
           /\ SubSeq(u, Len(parts) + 1, Len(u)) = rest
<1> USE DEF Joined, SkipPlaces
<1>1. /\ Units(u) = Units(parts) + Units(rest)
      /\ Units(parts) \in Nat /\ Units(rest) \in Nat /\ Units(u) \in Nat
      /\ u \in Seq(PartSet) /\ Len(u) = Len(parts) + Len(rest)
      /\ Len(parts) \in Nat /\ Len(rest) \in Nat
  <2>1. u \in Seq(PartSet) /\ Len(u) = Len(parts) + Len(rest) /\ Len(parts) \in Nat /\ Len(rest) \in Nat
    OBVIOUS
  <2>2. Units(u) = Units(parts) + Units(rest)
    BY UnitsConcat
  <2>3. Units(parts) \in Nat /\ Units(rest) \in Nat /\ Units(u) \in Nat
    BY <2>1, UnitsTypes
  <2>4. QED
    BY <2>1, <2>2, <2>3
<1>2. \A i \in 1 .. Len(u) : u[i] = IF i <= Len(parts) THEN parts[i] ELSE rest[i - Len(parts)]
  BY ConcatProperties
<1>3. SubSeq(u, 1, Len(parts)) = parts
  <2>1. /\ SubSeq(u, 1, Len(parts)) \in Seq(PartSet) /\ Len(SubSeq(u, 1, Len(parts))) = Len(parts)
        /\ \A i \in 1 .. Len(parts) : SubSeq(u, 1, Len(parts))[i] = u[i]
    BY <1>1
  <2>2. \A i \in 1 .. Len(parts) : SubSeq(u, 1, Len(parts))[i] = parts[i]
    BY <1>1, <1>2, <2>1
  <2>3. QED
    BY <2>1, <2>2, SeqEqual
<1>4. SubSeq(u, Len(parts) + 1, Len(u)) = rest
  <2> DEFINE v == SubSeq(u, Len(parts) + 1, Len(u))
  <2>1. /\ v \in Seq(PartSet) /\ Len(v) = Len(rest)
        /\ \A i \in 1 .. Len(rest) : v[i] = u[Len(parts) + i]
    BY <1>1, Piece
  <2>2. \A i \in 1 .. Len(rest) : Len(parts) + i \in 1 .. Len(u) /\ ~(Len(parts) + i <= Len(parts)) /\ (Len(parts) + i) - Len(parts) = i
    BY <1>1
  <2>3. \A i \in 1 .. Len(rest) : v[i] = rest[i]
    BY <1>2, <2>1, <2>2
  <2> HIDE DEF v
  <2>4. QED
    <3>1. v = rest
      BY <2>1, <2>3, SeqEqual
    <3>2. QED
      BY <3>1 DEF v
<1>5. ASSUME NEW i \in 0 .. Len(u), NEW j \in 0 .. Len(u), i < j
      PROVE  Units(SubSeq(u, 1, i)) < Units(SubSeq(u, 1, j))
  <2> DEFINE a == SubSeq(u, 1, i)
             b == SubSeq(u, i + 1, j)
             c == SubSeq(u, 1, j)
  <2>1. a \in Seq(PartSet) /\ c \in Seq(PartSet)
    <3>1. 0 \in Nat /\ i \in Nat /\ 0 + i <= Len(u) /\ 0 + 1 = 1 /\ 0 + i = i
      BY <1>1
    <3>2. j \in Nat /\ 0 + j <= Len(u) /\ 0 + j = j
      BY <1>1
    <3>3. SubSeq(u, 0 + 1, 0 + i) \in Seq(PartSet)
      BY <1>1, <3>1, Piece
    <3>4. SubSeq(u, 0 + 1, 0 + j) \in Seq(PartSet)
      BY <1>1, <3>1, <3>2, Piece
    <3>5. QED
      BY <3>1, <3>2, <3>3, <3>4
  <2>4. b \in Seq(PartSet) /\ b # <<>>
    <3> DEFINE n == j - i
    <3>1. i \in Nat /\ n \in Nat /\ i + n <= Len(u) /\ n # 0 /\ i + n = j
      BY <1>1, <1>5
    <3> HIDE DEF n
    <3>2. SubSeq(u, i + 1, i + n) \in Seq(PartSet) /\ Len(SubSeq(u, i + 1, i + n)) = n
      BY <1>1, <3>1, Piece
    <3>3. Len(b) # 0 /\ b \in Seq(PartSet)
      BY <3>1, <3>2
    <3> HIDE DEF b
    <3>4. QED
      BY <3>3
  <2>2. c = a \o b
    <3>1. 1 \in 1 .. Len(u) + 1 /\ i \in 1 - 1 .. Len(u) /\ j \in i .. Len(u)
      BY <1>1, <1>5
    <3>2. QED
      BY <1>1, <3>1, ConcatAdjacentSubSeq
  <2> HIDE DEF a, b, c
  <2>3. Units(c) = Units(a) + Units(b)
    BY <2>1, <2>2, <2>4, UnitsConcat
  <2>5. Units(b) > 0 /\ Units(a) \in Nat /\ Units(b) \in Nat
    BY <2>1, <2>4, UnitsTypes, UnitsOfHead
  <2>6. Units(a) < Units(c)
    BY <2>3, <2>5
  <2>7. QED
    BY <2>6 DEF a, c
<1>6. Len(parts) \in 0 .. Len(u)
  BY <1>1
<1>7. \A i \in 0 .. Len(u) : Units(SubSeq(u, 1, i)) = Units(parts) => i = Len(parts)
  <2>1. SUFFICES ASSUME NEW i \in 0 .. Len(u), Units(SubSeq(u, 1, i)) = Units(parts), i # Len(parts)
                 PROVE  FALSE
    OBVIOUS
  <2>2. i < Len(parts) \/ Len(parts) < i
    BY <1>1, <2>1
  <2>3. CASE i < Len(parts)
    <3>1. Units(SubSeq(u, 1, i)) < Units(SubSeq(u, 1, Len(parts)))
      BY <1>5, <1>6, <2>3
    <3>2. Units(parts) < Units(parts)
      BY <1>3, <2>1, <3>1
    <3>3. QED
      BY <1>1, <3>2
  <2>4. CASE Len(parts) < i
    <3>1. Units(SubSeq(u, 1, Len(parts))) < Units(SubSeq(u, 1, i))
      BY <1>5, <1>6, <2>4
    <3>2. Units(parts) < Units(parts)
      BY <1>3, <2>1, <3>1
    <3>3. QED
      BY <1>1, <3>2
  <2>5. QED
    BY <2>2, <2>3, <2>4
<1>8. QED
  <2>1. Units(parts) <= Units(u)
    BY <1>1
  <2>2. QED
    BY <1>3, <1>4, <1>6, <1>7, <2>1

(***************************************************************************)
(* The inductive invariant                                                 *)
(***************************************************************************)
\* the rest of a record, and whole records behind it
AtRecord(u, reads, n, W) ==
    \E parts, rest : u = parts \o rest /\ Fits(reads, parts) /\ Stream(rest, W) /\ n = Units(parts)
InStream(inside, u, reads, n, W) == IF inside THEN AtRecord(u, reads, n, W) ELSE Stream(u, W)

Records == RecordsOf(SampleSteps)
InRecord == pc \in {"skip", "sample", "other"}
Streaming == InStream(InRecord, unread, todo, sz, Records)

\* SIGCHLD is blocked wherever the parser is, and comes when the child is gone
Signalled ==
    /\ pc \in {"header", "skip", "sample", "other", "unmask", "wait", "done"} => blocked
    /\ pc \in {"open", "signal", "go"} => child \in {"forked", "ready"}
    /\ pending \/ ending \/ pc \in {"wait", "done"} => child = "exited"

\* where every sample of the child is
Balanced ==
    /\ ~no_show => pc # "skip"
    /\ ~no_show => generated = collected_samples + lost_samples + dropped + Samples(unread)
    /\ pc = "done" => unread = <<>>

IInv == TypeOK /\ Decodes /\ Streaming /\ Signalled /\ Balanced

LEMMA InStreamTypes ==
    ASSUME NEW inside \in BOOLEAN, NEW u, NEW reads, NEW n, NEW W, InStream(inside, u, reads, n, W)
    PROVE  u \in Seq(PartSet)
<1>1. CASE inside
  <2>1. PICK parts, rest : u = parts \o rest /\ Fits(reads, parts) /\ Stream(rest, W)
    BY <1>1, Zenon DEF InStream, AtRecord
  <2>2. parts \in Seq(PartSet) /\ rest \in Seq(PartSet)
    BY <2>1, FitsTypes, StreamTypes, BodyPartsAreParts
  <2>3. QED
    BY <2>1, <2>2
<1>2. CASE ~inside
  BY <1>2, StreamTypes DEF InStream
<1>3. QED
  BY <1>1, <1>2

LEMMA InStreamAppend ==
    ASSUME NEW inside \in BOOLEAN, NEW u, NEW reads, NEW n, NEW W, W \subseteq Seq(PartSet),
           InStream(inside, u, reads, n, W), NEW w \in W
    PROVE  InStream(inside, u \o w, reads, n, W)
<1>1. CASE inside
  <2>1. PICK parts, rest : /\ u = parts \o rest /\ Fits(reads, parts) /\ Stream(rest, W)
                           /\ n = Units(parts)
    BY <1>1, Zenon DEF InStream, AtRecord
  <2>2. parts \in Seq(PartSet) /\ rest \in Seq(PartSet) /\ w \in Seq(PartSet)
    BY <2>1, FitsTypes, StreamTypes, BodyPartsAreParts
  <2> DEFINE q == rest \o w
  <2>3. Stream(q, W)
    BY <2>1, StreamAppend
  <2>4. Associate(parts, rest, w)
    BY <2>2, ThreeAssociate, Zenon
  <2>5. u \o w = parts \o q
    BY <2>1, <2>4 DEF Associate
  <2> HIDE DEF q
  <2> DEFINE v == u \o w
  <2>6. v = parts \o q
    BY <2>5
  <2> HIDE DEF v
  <2>7. AtRecord(v, reads, n, W)
    BY <2>1, <2>3, <2>6 DEF AtRecord
  <2>8. QED
    BY <1>1, <2>7 DEF v, InStream
<1>2. CASE ~inside
  <2>1. Stream(u, W)
    BY <1>2 DEF InStream
  <2>2. Stream(u \o w, W)
    BY <2>1, StreamAppend
  <2>3. QED
    BY <1>2, <2>2 DEF InStream
<1>3. QED
  BY <1>1, <1>2

LEMMA SameRecords ==
    ASSUME sample_type' = sample_type
    PROVE  SampleSteps' = SampleSteps /\ Records' = Records
<1>1. SampleSteps' = SampleSteps
  BY DEF SampleSteps, InOrder
<1>2. QED
  BY <1>1 DEF Records

LEMMA RecordsTyped == Records \subseteq Seq(PartSet)
BY DEF Records, RecordsOf

LEMMA UnreadTyped == ASSUME Streaming PROVE unread \in Seq(PartSet)
<1>1. InRecord \in BOOLEAN
  BY DEF InRecord
<1>2. QED
  BY <1>1, InStreamTypes DEF Streaming

LEMMA InitIInv == Init => IInv
<1> SUFFICES ASSUME Init PROVE IInv
  OBVIOUS
<1>1. TypeOK /\ Decodes /\ Signalled
  BY DEF Init, TypeOK, Decodes, Signalled, Places
<1>2. Streaming
  BY StreamNone DEF Init, Streaming, InStream, InRecord
<1>3. Balanced
  BY UnitsOfNone DEF Init, Balanced
<1>4. QED
  BY <1>1, <1>2, <1>3 DEF IInv

\* A step that leaves the buffer and the record at hand alone.
LEMMA Still ==
    ASSUME Streaming, UNCHANGED <<options, unread, todo, sz>>, InRecord' = InRecord
    PROVE  Streaming'
BY SameRecords DEF Streaming, options

(***************************************************************************)
(* The steps of the session keep it                                        *)
(***************************************************************************)
\* the steps up to the core loop and between two calls of the parser, and
\* those of the child
LEMMA OutsideSteps ==
    ASSUME IInv,
           \/ Open \/ Signal \/ Go \/ SetJmp \/ Poll \/ Mask \/ Unmask \/ Wait \/ Deliver
           \/ ChildReady \/ ChildGo \/ ChildExit
    PROVE  IInv'
<1>0. TypeOK /\ Decodes /\ Streaming /\ Signalled /\ Balanced
  BY DEF IInv
<1>1. CASE Open
  <2>1. UNCHANGED <<options, unread, todo, sz>> /\ InRecord' = InRecord
    BY <1>0, <1>1 DEF Open, Goto, options, buffer, parsing, InRecord
  <2>2. TypeOK' /\ Decodes'
    BY <1>0, <1>1 DEF Open, Goto, options, buffer, signals, parsing, TypeOK, Decodes, Places
  <2>3. Signalled'
    BY <1>0, <1>1 DEF Open, Goto, options, buffer, signals, parsing, TypeOK, Signalled
  <2>4. Balanced'
    BY <1>0, <1>1 DEF Open, Goto, options, buffer, signals, parsing, Balanced
  <2>5. QED
    BY <1>0, <2>1, <2>2, <2>3, <2>4, Still DEF IInv
<1>2. CASE Signal
  <2>1. UNCHANGED <<options, unread, todo, sz>> /\ InRecord' = InRecord
    BY <1>0, <1>2 DEF Signal, Goto, options, buffer, parsing, InRecord
  <2>2. TypeOK' /\ Decodes'
    BY <1>0, <1>2 DEF Signal, Goto, options, buffer, signals, parsing, TypeOK, Decodes, Places
  <2>3. Signalled'
    BY <1>0, <1>2 DEF Signal, Goto, options, buffer, signals, parsing, TypeOK, Signalled
  <2>4. Balanced'
    BY <1>0, <1>2 DEF Signal, Goto, options, buffer, signals, parsing, Balanced
  <2>5. QED
    BY <1>0, <2>1, <2>2, <2>3, <2>4, Still DEF IInv
<1>3. CASE Go
  <2>1. UNCHANGED <<options, unread, todo, sz>> /\ InRecord' = InRecord
    BY <1>0, <1>3 DEF Go, Goto, options, buffer, parsing, InRecord
  <2>2. TypeOK' /\ Decodes'
    BY <1>0, <1>3 DEF Go, Goto, options, buffer, signals, parsing, TypeOK, Decodes, Places
  <2>3. Signalled'
    BY <1>0, <1>3 DEF Go, Goto, options, buffer, signals, parsing, TypeOK, Signalled
  <2>4. Balanced'
    BY <1>0, <1>3 DEF Go, Goto, options, buffer, signals, parsing, Balanced
  <2>5. QED
    BY <1>0, <2>1, <2>2, <2>3, <2>4, Still DEF IInv
<1>4. CASE SetJmp
  <2>1. UNCHANGED <<options, unread, todo, sz>> /\ InRecord' = InRecord
    BY <1>0, <1>4 DEF SetJmp, Goto, options, buffer, parsing, InRecord
  <2>2. TypeOK' /\ Decodes'
    BY <1>0, <1>4 DEF SetJmp, Goto, options, buffer, signals, parsing, TypeOK, Decodes, Places
  <2>3. Signalled'
    BY <1>0, <1>4 DEF SetJmp, Goto, options, buffer, signals, parsing, TypeOK, Signalled
  <2>4. Balanced'
    BY <1>0, <1>4 DEF SetJmp, Goto, options, buffer, signals, parsing, Balanced
  <2>5. QED
    BY <1>0, <2>1, <2>2, <2>3, <2>4, Still DEF IInv
<1>5. CASE Poll
  <2>1. UNCHANGED <<options, unread, todo, sz>> /\ InRecord' = InRecord
    BY <1>0, <1>5 DEF Poll, Goto, options, buffer, parsing, InRecord
  <2>2. TypeOK' /\ Decodes'
    BY <1>0, <1>5 DEF Poll, Goto, options, buffer, signals, parsing, TypeOK, Decodes, Places
  <2>3. Signalled'
    BY <1>0, <1>5 DEF Poll, Goto, options, buffer, signals, parsing, TypeOK, Signalled
  <2>4. Balanced'
    BY <1>0, <1>5 DEF Poll, Goto, options, buffer, signals, parsing, Balanced
  <2>5. QED
    BY <1>0, <2>1, <2>2, <2>3, <2>4, Still DEF IInv
<1>6. CASE Mask
  <2>1. UNCHANGED <<options, unread, todo, sz>> /\ InRecord' = InRecord
    BY <1>0, <1>6 DEF Mask, Goto, options, buffer, parsing, InRecord
  <2>2. TypeOK' /\ Decodes'
    BY <1>0, <1>6 DEF Mask, Goto, options, buffer, signals, parsing, TypeOK, Decodes, Places
  <2>3. Signalled'
    BY <1>0, <1>6 DEF Mask, Goto, options, buffer, signals, parsing, TypeOK, Signalled
  <2>4. Balanced'
    BY <1>0, <1>6 DEF Mask, Goto, options, buffer, signals, parsing, Balanced
  <2>5. QED
    BY <1>0, <2>1, <2>2, <2>3, <2>4, Still DEF IInv
<1>7. CASE Unmask
  <2>1. UNCHANGED <<options, unread, todo, sz>> /\ InRecord' = InRecord
    BY <1>0, <1>7 DEF Unmask, options, buffer, parsing, InRecord
  <2>2. TypeOK' /\ Decodes'
    BY <1>0, <1>7 DEF Unmask, options, buffer, signals, parsing, TypeOK, Decodes, Places
  <2>3. Signalled'
    BY <1>0, <1>7 DEF Unmask, options, buffer, signals, parsing, TypeOK, Signalled
  <2>4. Balanced'
    BY <1>0, <1>7 DEF Unmask, options, buffer, signals, parsing, Balanced
  <2>5. QED
    BY <1>0, <2>1, <2>2, <2>3, <2>4, Still DEF IInv
<1>8. CASE Wait
  <2>1. UNCHANGED <<options, unread, todo, sz>> /\ InRecord' = InRecord
    BY <1>0, <1>8 DEF Wait, Goto, options, buffer, parsing, InRecord
  <2>2. TypeOK' /\ Decodes'
    BY <1>0, <1>8 DEF Wait, Goto, options, buffer, signals, parsing, TypeOK, Decodes, Places
  <2>3. Signalled'
    BY <1>0, <1>8 DEF Wait, Goto, options, buffer, signals, parsing, TypeOK, Signalled
  <2>4. Balanced'
    BY <1>0, <1>8 DEF Wait, Goto, options, buffer, signals, parsing, Balanced
  <2>5. QED
    BY <1>0, <2>1, <2>2, <2>3, <2>4, Still DEF IInv
<1>9. CASE Deliver
  <2>1. UNCHANGED <<options, unread, todo, sz>> /\ InRecord' = InRecord
    BY <1>0, <1>9 DEF Deliver, options, buffer, parsing, InRecord, Signalled
  <2>2. TypeOK' /\ Decodes'
    BY <1>0, <1>9 DEF Deliver, options, buffer, signals, parsing, TypeOK, Decodes, Places
  <2>3. Signalled'
    BY <1>0, <1>9 DEF Deliver, options, buffer, signals, parsing, TypeOK, Signalled
  <2>4. Balanced'
    BY <1>0, <1>9 DEF Deliver, options, buffer, signals, parsing, Balanced
  <2>5. QED
    BY <1>0, <2>1, <2>2, <2>3, <2>4, Still DEF IInv
<1>10. CASE ChildReady
  <2>1. UNCHANGED <<options, unread, todo, sz>> /\ InRecord' = InRecord
    BY <1>0, <1>10 DEF ChildReady, options, buffer, parsing, InRecord
  <2>2. TypeOK' /\ Decodes'
    BY <1>0, <1>10 DEF ChildReady, options, buffer, signals, parsing, TypeOK, Decodes, Places
  <2>3. Signalled'
    BY <1>0, <1>10 DEF ChildReady, options, buffer, signals, parsing, TypeOK, Signalled
  <2>4. Balanced'
    BY <1>0, <1>10 DEF ChildReady, options, buffer, signals, parsing, Balanced
  <2>5. QED
    BY <1>0, <2>1, <2>2, <2>3, <2>4, Still DEF IInv
<1>11. CASE ChildGo
  <2>1. UNCHANGED <<options, unread, todo, sz>> /\ InRecord' = InRecord
    BY <1>0, <1>11 DEF ChildGo, options, buffer, parsing, InRecord
  <2>2. TypeOK' /\ Decodes'
    BY <1>0, <1>11 DEF ChildGo, options, buffer, signals, parsing, TypeOK, Decodes, Places
  <2>3. Signalled'
    BY <1>0, <1>11 DEF ChildGo, options, buffer, signals, parsing, TypeOK, Signalled
  <2>4. Balanced'
    BY <1>0, <1>11 DEF ChildGo, options, buffer, signals, parsing, Balanced
  <2>5. QED
    BY <1>0, <2>1, <2>2, <2>3, <2>4, Still DEF IInv
<1>12. CASE ChildExit
  <2>1. UNCHANGED <<options, unread, todo, sz>> /\ InRecord' = InRecord
    BY <1>0, <1>12 DEF ChildExit, options, buffer, parsing, InRecord
  <2>2. TypeOK' /\ Decodes'
    BY <1>0, <1>12 DEF ChildExit, options, buffer, signals, parsing, TypeOK, Decodes, Places
  <2>3. Signalled'
    BY <1>0, <1>12 DEF ChildExit, options, buffer, signals, parsing, TypeOK, Signalled
  <2>4. Balanced'
    BY <1>0, <1>12 DEF ChildExit, options, buffer, signals, parsing, Balanced
  <2>5. QED
    BY <1>0, <2>1, <2>2, <2>3, <2>4, Still DEF IInv
<1>13. QED
  BY <1>1, <1>2, <1>3, <1>4, <1>5, <1>6, <1>7, <1>8, <1>9, <1>10, <1>11, <1>12

\* The kernel writes records behind what is unread.
LEMMA OneWritten ==
    ASSUME Streaming, UNCHANGED <<options, pc, todo, sz>>, NEW w \in Records, unread' = unread \o w
    PROVE  Streaming' /\ Samples(unread') = Samples(unread) + Samples(w)
<1>1. InRecord \in BOOLEAN /\ InRecord' = InRecord
  BY DEF InRecord
<1>2. Records' = Records /\ Records \subseteq Seq(PartSet)
  BY SameRecords, RecordsTyped DEF options
<1>3. InStream(InRecord, unread \o w, todo, sz, Records)
  BY <1>1, <1>2, InStreamAppend DEF Streaming
<1>4. Streaming'
  BY <1>1, <1>2, <1>3 DEF Streaming
<1>5. unread \in Seq(PartSet) /\ w \in Seq(PartSet)
  BY <1>2, UnreadTyped
<1>6. QED
  BY <1>4, <1>5, UnitsConcat

LEMMA TwoWritten ==
    ASSUME Streaming, UNCHANGED <<options, pc, todo, sz>>, NEW v \in Records, NEW w \in Records,
           unread' = unread \o (v \o w)
    PROVE  Streaming' /\ Samples(unread') = Samples(unread) + Samples(v) + Samples(w)
<1>1. InRecord \in BOOLEAN /\ InRecord' = InRecord
  BY DEF InRecord
<1>2. Records' = Records /\ Records \subseteq Seq(PartSet)
  BY SameRecords, RecordsTyped DEF options
<1> DEFINE u == unread \o v
<1>3. InStream(InRecord, u, todo, sz, Records)
  BY <1>1, <1>2, InStreamAppend DEF Streaming
<1>4. unread \in Seq(PartSet) /\ v \in Seq(PartSet) /\ w \in Seq(PartSet)
  BY <1>2, UnreadTyped
<1>5. Associate(unread, v, w)
  BY <1>4, ThreeAssociate, Zenon
<1>6. unread' = u \o w
  BY <1>5 DEF Associate
<1>7. Samples(u) = Samples(unread) + Samples(v) /\ u \in Seq(PartSet)
  BY <1>4, UnitsConcat
<1> HIDE DEF u
<1>8. InStream(InRecord, u \o w, todo, sz, Records)
  BY <1>1, <1>2, <1>3, InStreamAppend
<1>9. Streaming'
  BY <1>1, <1>2, <1>6, <1>8 DEF Streaming
<1>10. Samples(u \o w) = Samples(u) + Samples(w)
  BY <1>4, <1>7, UnitsConcat
<1>11. QED
  BY <1>6, <1>7, <1>9, <1>10

LEMMA KernelSampleStep ==
    ASSUME IInv, NEW c \in 0 .. MaxCount, KernelSample(c)
    PROVE  IInv'
<1>0. TypeOK /\ Decodes /\ Streaming /\ Signalled /\ Balanced
  BY DEF IInv
<1>1. UNCHANGED <<child, options, pc, jbuf, ending, signals, parsing>> /\ child = "run" /\ generated' = generated + 1
  BY DEF KernelSample
<1>2. UNCHANGED <<options, pc, todo, sz>> /\ UNCHANGED <<collected_samples, lost_samples>>
  BY <1>1 DEF parsing
<1>3. dropped \in Nat /\ generated \in Nat /\ sample_type \in SampleTypes /\ c \in Nat
  BY <1>0, SamplingAssumption DEF TypeOK
<1>4. Sample(c) \in Records /\ Samples(Sample(c)) = 1
  BY <1>3, SampleRecord DEF Records
<1>5. Lost \in Records /\ Samples(Lost) = dropped
  BY <1>3, LostRecord DEF Records
<1>6. unread \in Seq(PartSet)
  BY <1>0, UnreadTyped
<1>7. \/ UNCHANGED unread /\ dropped' = dropped + 1
      \/ dropped' = 0 /\ dropped > 0 /\ unread' = unread \o (Lost \o Sample(c))
      \/ dropped' = 0 /\ dropped = 0 /\ unread' = unread \o Sample(c)
  <2> DEFINE smp == Sample(c)
             new == (IF dropped > 0 THEN Lost ELSE <<>>) \o smp
             fits == Units(unread) + Units(new) <= Size
  <2>1. /\ unread' = IF fits THEN unread \o new ELSE unread
        /\ dropped' = IF fits THEN 0 ELSE dropped + 1
    BY DEF KernelSample
  <2>2. smp \in Seq(PartSet) /\ Lost \in Seq(PartSet)
    BY <1>4, <1>5, RecordsTyped
  <2> HIDE DEF smp
  <2>3. <<>> \o smp = smp
    BY <2>2
  <2>4. IF dropped > 0 THEN new = Lost \o smp ELSE new = smp
    BY <2>3
  <2> HIDE DEF new, fits
  <2>5. dropped > 0 \/ dropped = 0
    BY <1>3
  <2>6. QED
    BY <2>1, <2>4, <2>5 DEF smp
<1>8. /\ Streaming' /\ dropped' \in Nat
      /\ Samples(unread') + dropped' = Samples(unread) + dropped + 1
  <2>1. Samples(unread) \in Nat
    BY <1>6, UnitsTypes
  <2>2. CASE UNCHANGED unread /\ dropped' = dropped + 1
    <3>1. InRecord' = InRecord
      BY <1>2 DEF InRecord
    <3>2. Streaming'
      BY <1>0, <1>2, <2>2, <3>1, Still
    <3>3. Samples(unread') = Samples(unread)
      BY <2>2
    <3>4. QED
      BY <1>3, <2>1, <2>2, <3>2, <3>3
  <2>3. CASE dropped' = 0 /\ dropped > 0 /\ unread' = unread \o (Lost \o Sample(c))
    <3>1. Streaming' /\ Samples(unread') = Samples(unread) + Samples(Lost) + Samples(Sample(c))
      BY <1>0, <1>2, <1>4, <1>5, <2>3, TwoWritten
    <3>2. QED
      BY <1>3, <1>4, <1>5, <2>1, <2>3, <3>1
  <2>4. CASE dropped' = 0 /\ dropped = 0 /\ unread' = unread \o Sample(c)
    <3>1. Streaming' /\ Samples(unread') = Samples(unread) + Samples(Sample(c))
      BY <1>0, <1>2, <1>4, <2>4, OneWritten
    <3>2. QED
      BY <1>3, <1>4, <2>1, <2>4, <3>1
  <2>5. QED
    BY <1>7, <2>2, <2>3, <2>4
<1>9. TypeOK' /\ Decodes'
  BY <1>0, <1>1, <1>3, <1>8 DEF TypeOK, Decodes, options, signals, parsing
<1>10. Signalled'
  BY <1>0, <1>1 DEF Signalled, signals
<1>11. Balanced'
  <2>1. Samples(unread) \in Nat /\ Samples(unread') \in Nat
    <3>1. unread' \in Seq(PartSet)
      <4>1. InRecord' \in BOOLEAN
        BY DEF InRecord
      <4>2. QED
        BY <1>8, <4>1, InStreamTypes DEF Streaming
    <3>2. QED
      BY <1>6, <3>1, UnitsTypes
  <2>2. pc # "done"
    BY <1>0, <1>1 DEF Signalled
  <2>3. no_show' = no_show /\ pc' = pc
    BY <1>2 DEF options
  <2>4. ~no_show => generated' = collected_samples' + lost_samples' + dropped' + Samples(unread')
    <3>1. SUFFICES ASSUME ~no_show
                   PROVE  generated + 1 = collected_samples + lost_samples + dropped' + Samples(unread')
      BY <1>1, <1>2
    <3>2. generated = collected_samples + lost_samples + dropped + Samples(unread)
      BY <1>0, <3>1 DEF Balanced
    <3>3. collected_samples \in Nat /\ lost_samples \in Nat
      BY <1>0 DEF TypeOK
    <3>4. QED
      BY <1>3, <1>8, <2>1, <3>2, <3>3
  <2>5. QED
    BY <1>0, <2>2, <2>3, <2>4 DEF Balanced
<1>12. QED
  BY <1>8, <1>9, <1>10, <1>11 DEF IInv

LEMMA KernelThrottleStep ==
    ASSUME IInv, KernelThrottle
    PROVE  IInv'
<1>0. TypeOK /\ Decodes /\ Streaming /\ Signalled /\ Balanced
  BY DEF IInv
<1> DEFINE w == Record("THROTTLE", << Part("throttle", 6, 0) >>)
<1>1. /\ UNCHANGED <<child, options, dropped, generated, pc, jbuf, ending, signals, parsing>>
      /\ child = "run" /\ unread' = unread \o w
  BY DEF KernelThrottle
<1>2. w \in Records /\ Samples(w) = 0
  BY ThrottleRecord DEF Records
<1> HIDE DEF w
<1>3. UNCHANGED <<options, pc, todo, sz>>
  BY <1>1 DEF parsing
<1>4. Streaming' /\ Samples(unread') = Samples(unread) + 0
  BY <1>0, <1>1, <1>2, <1>3, OneWritten
<1>5. TypeOK' /\ Decodes'
  BY <1>0, <1>1 DEF TypeOK, Decodes, options, signals, parsing
<1>6. Signalled'
  BY <1>0, <1>1 DEF Signalled, signals
<1>7. Balanced'
  <2>1. Samples(unread) \in Nat
    BY <1>0, UnreadTyped, UnitsTypes
  <2>2. pc # "done"
    BY <1>0, <1>1 DEF Signalled
  <2>3. Samples(unread') = Samples(unread)
    BY <1>4, <2>1
  <2>4. QED
    BY <1>0, <1>1, <2>2, <2>3 DEF Balanced, options, parsing
<1>8. QED
  BY <1>4, <1>5, <1>6, <1>7 DEF IInv

\* The parser is at the header of a record, or has read all of the buffer.
LEMMA AtHeader ==
    ASSUME Streaming, pc = "header"
    PROVE  \/ unread = <<>> /\ Units(unread) = 0
           \/ /\ unread # <<>> /\ Units(unread) >= 2 /\ Tail(unread) \in Seq(PartSet)
              /\ Samples(unread) = Counted(Head(unread)) + Samples(Tail(unread))
              /\ \E type \in {"SAMPLE", "LOST", "THROTTLE"} : \E parts, rest :
                     /\ Head(unread) = Part(type, 2, 2 + Units(parts)) /\ Units(parts) \in Nat
                     /\ Tail(unread) = parts \o rest
                     /\ Fits(Reads(type, SampleSteps), parts) /\ Stream(rest, Records)
<1>1. Stream(unread, Records)
  BY DEF Streaming, InStream, InRecord
<1>2. unread \in Seq(PartSet)
  BY UnreadTyped
<1>3. CASE unread = <<>>
  BY <1>3, UnitsOfNone
<1>4. CASE unread # <<>>
  <2>1. PICK type \in {"SAMPLE", "LOST", "THROTTLE"} : \E parts, rest :
            /\ Head(unread) = Part(type, 2, 2 + Units(parts))
            /\ Tail(unread) = parts \o rest
            /\ Fits(Reads(type, SampleSteps), parts) /\ Stream(rest, Records)
    BY <1>1, <1>4, NextRecord DEF Records
  <2>2. PICK parts, rest :
            /\ Head(unread) = Part(type, 2, 2 + Units(parts))
            /\ Tail(unread) = parts \o rest
            /\ Fits(Reads(type, SampleSteps), parts) /\ Stream(rest, Records)
    BY <2>1, Zenon
  <2>3. Units(parts) \in Nat
    BY <2>2, FitsTypes, BodyPartsAreParts, UnitsTypes
  <2>4. /\ Units(unread) = Head(unread).n + Units(Tail(unread))
        /\ Samples(unread) = Counted(Head(unread)) + Samples(Tail(unread))
    BY <1>2, <1>4, UnitsOfHead
  <2>5. Tail(unread) \in Seq(PartSet)
    BY <1>2, <1>4, HeadAndTail
  <2>6. Units(Tail(unread)) \in Nat
    BY <2>5, UnitsTypes
  <2>7. Head(unread).n = 2
    BY <2>2 DEF Part
  <2>8. Units(unread) >= 2
    BY <2>4, <2>6, <2>7
  <2>9. QED
    BY <1>4, <2>2, <2>3, <2>4, <2>5, <2>8, Zenon
<1>5. QED
  BY <1>3, <1>4

LEMMA ReadHeaderStep ==
    ASSUME IInv, ReadHeader
    PROVE  IInv'
<1>0. TypeOK /\ Decodes /\ Streaming /\ Signalled /\ Balanced
  BY DEF IInv
<1>1. pc = "header" /\ UNCHANGED <<child, options, dropped, generated, jbuf, ending, signals>>
  BY DEF ReadHeader
<1>2. CASE unread = <<>> /\ Units(unread) = 0
  <2>1. pc' = (IF ending THEN "done" ELSE "unmask") /\ UNCHANGED <<unread, parsing>>
    BY <1>2 DEF ReadHeader
  <2>2. UNCHANGED <<options, unread, todo, sz>> /\ InRecord' = InRecord
    BY <1>1, <2>1 DEF parsing, InRecord
  <2>3. TypeOK' /\ Decodes'
    BY <1>0, <1>1, <2>1 DEF options, signals, parsing, TypeOK, Decodes, Places
  <2>4. Signalled'
    BY <1>0, <1>1, <2>1 DEF signals, TypeOK, Signalled
  <2>5. Balanced'
    BY <1>0, <1>1, <1>2, <2>1 DEF options, parsing, Balanced
  <2>6. QED
    BY <1>0, <2>2, <2>3, <2>4, <2>5, Still DEF IInv
<1>3. CASE ~(unread = <<>> /\ Units(unread) = 0)
  <2> DEFINE h == Head(unread)
  <2>1. /\ Units(unread) >= 2 /\ Tail(unread) \in Seq(PartSet)
        /\ Samples(unread) = Counted(h) + Samples(Tail(unread))
        /\ \E type \in {"SAMPLE", "LOST", "THROTTLE"} : \E parts, rest :
               /\ h = Part(type, 2, 2 + Units(parts)) /\ Units(parts) \in Nat
               /\ Tail(unread) = parts \o rest
               /\ Fits(Reads(type, SampleSteps), parts) /\ Stream(rest, Records)
    BY <1>0, <1>1, <1>3, AtHeader, Zenon
  <2>2. PICK type \in {"SAMPLE", "LOST", "THROTTLE"} : \E parts, rest :
               /\ h = Part(type, 2, 2 + Units(parts)) /\ Units(parts) \in Nat
               /\ Tail(unread) = parts \o rest
               /\ Fits(Reads(type, SampleSteps), parts) /\ Stream(rest, Records)
    BY <2>1, Zenon
  <2>3. PICK parts, rest :
               /\ h = Part(type, 2, 2 + Units(parts)) /\ Units(parts) \in Nat
               /\ Tail(unread) = parts \o rest
               /\ Fits(Reads(type, SampleSteps), parts) /\ Stream(rest, Records)
    BY <2>2, Zenon
  <2>4. h.f = type /\ h.v = 2 + Units(parts)
    BY <2>3 DEF Part
  <2>5. Counted(h) = IF type = "SAMPLE" THEN 1 ELSE 0
    BY <2>4 DEF Counted
  <2>6. ~(Units(unread) < 2) /\ type \in {"SAMPLE", "LOST", "THROTTLE"}
    <3>1. Units(unread) \in Nat
      BY <1>0, UnreadTyped, UnitsTypes
    <3>2. QED
      BY <2>1, <3>1
  <2>7. /\ unread' = Tail(unread) /\ sz' = h.v - 2
        /\ pc' = IF no_show THEN "skip" ELSE IF h.f = "SAMPLE" THEN "sample" ELSE "other"
        /\ todo' = CASE h.f = "SAMPLE" -> SampleSteps
                     [] h.f = "LOST" -> << Step("lost", 4) >>
                     [] OTHER -> << Step("throttle", 6) >>
        /\ collected_samples' = collected_samples + (IF h.f = "SAMPLE" /\ ~no_show THEN 1 ELSE 0)
        /\ lost_samples' = lost_samples
    BY <2>4, <2>6 DEF ReadHeader
  <2> HIDE DEF h
  <2>8. todo' = Reads(type, SampleSteps) /\ sz' = Units(parts)
    BY <2>3, <2>4, <2>7 DEF Reads
  <2>9. Streaming'
    <3>1. AtRecord(unread', todo', sz', Records)
      BY <2>3, <2>7, <2>8, Zenon DEF AtRecord
    <3>2. InRecord'
      BY <2>7 DEF InRecord
    <3>3. Records' = Records
      BY <1>1, SameRecords DEF options
    <3>4. QED
      BY <3>1, <3>2, <3>3 DEF Streaming, InStream
  <2>10. pc' \in {"skip", "sample", "other"} /\ collected_samples' \in Nat /\ sz' \in Nat
    BY <1>0, <2>3, <2>7, <2>8 DEF TypeOK
  <2>11. TypeOK' /\ Decodes'
    BY <1>0, <1>1, <2>7, <2>10 DEF options, signals, TypeOK, Decodes, Places
  <2>12. Signalled'
    BY <1>0, <1>1, <2>10 DEF signals, TypeOK, Signalled
  <2>13. Balanced'
    <3>1. pc' # "done" /\ (~no_show' => pc' # "skip")
      BY <1>1, <2>7 DEF options
    <3>2. ~no_show => generated' = collected_samples' + lost_samples' + dropped' + Samples(unread')
      <4>1. SUFFICES ASSUME ~no_show
                     PROVE  generated = collected_samples' + lost_samples + dropped + Samples(Tail(unread))
        BY <1>1, <2>7
      <4>2. collected_samples' = collected_samples + Counted(h)
        BY <2>4, <2>5, <2>7, <4>1
      <4>3. generated = collected_samples + lost_samples + dropped + Samples(unread)
        BY <1>0, <4>1 DEF Balanced
      <4>4. collected_samples \in Nat /\ lost_samples \in Nat /\ dropped \in Nat
        BY <1>0 DEF TypeOK
      <4>5. Samples(Tail(unread)) \in Nat /\ Counted(h) \in Nat
        <5>1. Tail(unread) \in Seq(PartSet)
          BY <2>1, Zenon
        <5>2. Samples(Tail(unread)) \in Nat
          BY <5>1, UnitsTypes
        <5>3. QED
          BY <2>5, <5>2
      <4>6. QED
        BY <2>1, <4>2, <4>3, <4>4, <4>5
    <3>3. QED
      BY <1>1, <3>1, <3>2 DEF options, Balanced
  <2>14. QED
    BY <2>9, <2>11, <2>12, <2>13 DEF IInv
<1>4. QED
  BY <1>2, <1>3

LEMMA SkipRecordStep ==
    ASSUME IInv, SkipRecord
    PROVE  IInv'
<1>0. TypeOK /\ Decodes /\ Streaming /\ Signalled /\ Balanced
  BY DEF IInv
<1>1. pc = "skip" /\ UNCHANGED <<child, options, dropped, generated, jbuf, ending, signals, parsing>>
  BY DEF SkipRecord
<1>2. PICK parts, rest : unread = parts \o rest /\ Fits(todo, parts) /\ Stream(rest, Records) /\ sz = Units(parts)
  <2>1. AtRecord(unread, todo, sz, Records)
    BY <1>0, <1>1 DEF Streaming, InStream, InRecord
  <2>2. QED
    BY <2>1, Zenon DEF AtRecord
<1>3. parts \in Seq(PartSet) /\ rest \in Seq(PartSet)
  BY <1>2, FitsTypes, StreamTypes, BodyPartsAreParts
<1>4. unread' = rest /\ pc' = "header"
  <2> DEFINE whole == SkipPlaces(unread, sz)
  <2>0. Joined(unread, parts, rest) /\ sz = Units(parts)
    BY <1>2 DEF Joined
  <2>1. sz <= Units(unread) /\ whole = {Len(parts)} /\ SubSeq(unread, Len(parts) + 1, Len(unread)) = rest
    BY <1>3, <2>0, SkipExact, Zenon
  <2>2. sz \in Nat /\ Units(unread) \in Nat
    BY <1>0, UnreadTyped, UnitsTypes DEF TypeOK
  <2>3. (IF sz > Units(unread) THEN Units(unread) ELSE sz) = sz
    BY <2>1, <2>2
  <2>4. IF whole = {}
        THEN pc' = "garbled" /\ UNCHANGED unread
        ELSE /\ \E i \in whole : unread' = SubSeq(unread, i + 1, Len(unread))
             /\ pc' = "header"
    BY <2>3 DEF SkipRecord, SkipTo, SkipPlaces
  <2> HIDE DEF whole
  <2>5. QED
    BY <2>1, <2>4
<1>5. no_show
  BY <1>0, <1>1 DEF Balanced, TypeOK
<1>6. Streaming'
  <2>1. Records' = Records /\ ~InRecord'
    BY <1>1, <1>4, SameRecords DEF options, InRecord
  <2>2. QED
    BY <1>2, <1>4, <2>1 DEF Streaming, InStream
<1>7. TypeOK' /\ Decodes'
  BY <1>0, <1>1, <1>4 DEF options, signals, parsing, TypeOK, Decodes, Places
<1>8. Signalled'
  BY <1>0, <1>1, <1>4 DEF signals, Signalled
<1>9. Balanced'
  BY <1>1, <1>4, <1>5 DEF options, Balanced
<1>10. QED
  BY <1>6, <1>7, <1>8, <1>9 DEF IInv

\* A read finds the part that it is for.
LEMMA ReadStepStep ==
    ASSUME IInv, ReadStep
    PROVE  IInv'
<1>0. TypeOK /\ Decodes /\ Streaming /\ Signalled /\ Balanced
  BY DEF IInv
<1> DEFINE s == Head(todo)
           p == Head(unread)
<1>1. /\ pc \in {"sample", "other"} /\ todo # <<>>
      /\ UNCHANGED <<child, options, dropped, generated, jbuf, ending, signals>>
  BY DEF ReadStep
<1>2. PICK parts, rest : unread = parts \o rest /\ Fits(todo, parts) /\ Stream(rest, Records) /\ sz = Units(parts)
  <2>1. AtRecord(unread, todo, sz, Records)
    BY <1>0, <1>1 DEF Streaming, InStream, InRecord
  <2>2. QED
    BY <2>1, Zenon DEF AtRecord
<1>3. parts \in Seq(BodyPartSet) /\ parts \in Seq(PartSet) /\ rest \in Seq(PartSet)
  BY <1>2, FitsTypes, StreamTypes, BodyPartsAreParts
<1> DEFINE q == Head(parts)
<1>4. parts # <<>> /\ Fit(s, q) /\ Fits(Expand(s, q.v) \o Tail(todo), Tail(parts))
  BY <1>1, <1>2, FitsStep
<1>5. unread # <<>> /\ p = q /\ Tail(unread) = Tail(parts) \o rest
  BY <1>2, <1>3, <1>4, HeadOfConcat
<1>6. q \in BodyPartSet /\ Tail(parts) \in Seq(BodyPartSet)
  BY <1>3, <1>4, HeadAndTail
<1>7. q.n \in Nat /\ q.v \in Nat /\ q.f # "SAMPLE"
  BY <1>6 DEF BodyPartSet
<1>8. /\ Units(parts) = q.n + Units(Tail(parts)) /\ Units(Tail(parts)) \in Nat
  <2>1. Tail(parts) \in Seq(PartSet)
    BY <1>6, BodyPartsAreParts
  <2>2. QED
    BY <1>3, <1>4, <2>1, UnitsOfHead, UnitsTypes
<1>9. /\ unread \in Seq(PartSet) /\ Tail(unread) \in Seq(PartSet)
      /\ Units(unread) = p.n + Units(Tail(unread))
      /\ Samples(unread) = Counted(p) + Samples(Tail(unread))
  BY <1>0, <1>5, UnreadTyped, UnitsOfHead, HeadAndTail
<1>10. Units(Tail(unread)) \in Nat /\ Samples(Tail(unread)) \in Nat
  BY <1>9, UnitsTypes
<1>11. s.f = p.f /\ s.n = p.n /\ s.dec = p.n
  BY <1>4, <1>5 DEF Fit
<1>12. ~(Units(unread) < s.n)
  <2>1. p.n \in Nat
    BY <1>5, <1>7
  <2>2. QED
    BY <1>9, <1>10, <1>11, <2>1
<1>13. /\ unread' = Tail(unread)
       /\ todo' = Expand(s, p.v) \o Tail(todo)
       /\ sz' = sz - s.dec
       /\ lost_samples' = lost_samples + (IF s.f = "lost" THEN p.v ELSE 0)
       /\ UNCHANGED <<pc, collected_samples>>
  BY <1>11, <1>12 DEF ReadStep
<1> HIDE DEF s, p, q
<1>14. sz' = Units(Tail(parts)) /\ sz' \in Nat
  BY <1>2, <1>5, <1>7, <1>8, <1>11, <1>13
<1>15. Streaming'
  <2>1. Fits(todo', Tail(parts))
    BY <1>4, <1>5, <1>13
  <2>2. unread' = Tail(parts) \o rest
    BY <1>5, <1>13
  <2>3. AtRecord(unread', todo', sz', Records)
    BY <1>2, <1>14, <2>1, <2>2, Zenon DEF AtRecord
  <2>4. InRecord' /\ Records' = Records
    BY <1>1, <1>13, SameRecords DEF options, InRecord
  <2>5. QED
    BY <2>3, <2>4 DEF Streaming, InStream
<1>16. lost_samples' = lost_samples + Counted(p) /\ Counted(p) \in Nat
  BY <1>5, <1>7, <1>11, <1>13 DEF Counted
<1>17. TypeOK' /\ Decodes'
  <2>1. lost_samples' \in Nat
    BY <1>0, <1>16 DEF TypeOK
  <2>2. QED
    BY <1>0, <1>1, <1>13, <1>14, <2>1 DEF options, signals, TypeOK, Decodes
<1>18. Signalled'
  BY <1>0, <1>1, <1>13 DEF signals, Signalled
<1>19. Balanced'
  <2>1. pc' # "done" /\ pc' # "skip"
    BY <1>1, <1>13
  <2>2. ~no_show => generated' = collected_samples' + lost_samples' + dropped' + Samples(unread')
    <3>1. SUFFICES ASSUME ~no_show
                   PROVE  generated = collected_samples + lost_samples' + dropped + Samples(Tail(unread))
      BY <1>1, <1>13
    <3>2. generated = collected_samples + lost_samples + dropped + Samples(unread)
      BY <1>0, <3>1 DEF Balanced
    <3>3. collected_samples \in Nat /\ lost_samples \in Nat /\ dropped \in Nat
      BY <1>0 DEF TypeOK
    <3>4. QED
      BY <1>9, <1>10, <1>16, <3>2, <3>3
  <2>3. QED
    BY <1>1, <2>1, <2>2 DEF options, Balanced
<1>20. QED
  BY <1>15, <1>17, <1>18, <1>19 DEF IInv

\* Nothing is left of a record when all of its reads are done.
LEMMA EndRecordStep ==
    ASSUME IInv, EndRecord
    PROVE  IInv'
<1>0. TypeOK /\ Decodes /\ Streaming /\ Signalled /\ Balanced
  BY DEF IInv
<1>1. /\ pc \in {"sample", "other"} /\ todo = <<>>
      /\ UNCHANGED <<child, options, dropped, generated, jbuf, ending, signals, parsing>>
  BY DEF EndRecord
<1>2. PICK parts, rest : unread = parts \o rest /\ Fits(todo, parts) /\ Stream(rest, Records) /\ sz = Units(parts)
  <2>1. AtRecord(unread, todo, sz, Records)
    BY <1>0, <1>1 DEF Streaming, InStream, InRecord
  <2>2. QED
    BY <2>1, Zenon DEF AtRecord
<1>3. parts = <<>> /\ sz = 0
  BY <1>1, <1>2, FitsEnd, UnitsOfNone
<1>4. pc' = "header" /\ unread' = unread
  BY <1>3 DEF EndRecord
<1>5. unread = rest
  <2>1. rest \in Seq(PartSet)
    BY <1>2, StreamTypes
  <2>2. QED
    BY <1>2, <1>3, <2>1
<1>6. Streaming'
  <2>1. Records' = Records /\ ~InRecord'
    BY <1>1, <1>4, SameRecords DEF options, InRecord
  <2>2. QED
    BY <1>2, <1>4, <1>5, <2>1 DEF Streaming, InStream
<1>7. TypeOK' /\ Decodes'
  BY <1>0, <1>1, <1>4 DEF options, signals, parsing, TypeOK, Decodes, Places
<1>8. Signalled'
  BY <1>0, <1>1, <1>4 DEF signals, Signalled
<1>9. Balanced'
  BY <1>0, <1>1, <1>4 DEF options, parsing, Balanced
<1>10. QED
  BY <1>6, <1>7, <1>8, <1>9 DEF IInv

LEMMA IInvIsInductive == Spec => []IInv
<1>1. ASSUME IInv, [Next]_vars PROVE IInv'
  <2>1. CASE UNCHANGED vars
    <3>1. UNCHANGED <<child, options, buffer, pc, jbuf, ending, signals, parsing>>
      BY <2>1 DEF vars
    <3>2. UNCHANGED <<options, unread, todo, sz>> /\ InRecord' = InRecord
      BY <3>1 DEF buffer, parsing, InRecord
    <3>3. TypeOK' /\ Decodes' /\ Signalled' /\ Balanced'
      BY <1>1, <3>1 DEF IInv, options, buffer, signals, parsing, TypeOK, Decodes, Signalled, Balanced
    <3>4. QED
      BY <1>1, <3>2, <3>3, Still DEF IInv
  <2>2. ASSUME NEW c \in 0 .. MaxCount, KernelSample(c) PROVE IInv'
    BY <1>1, <2>2, KernelSampleStep
  <2>3. CASE KernelThrottle
    BY <1>1, <2>3, KernelThrottleStep
  <2>4. CASE ReadHeader
    BY <1>1, <2>4, ReadHeaderStep
  <2>5. CASE SkipRecord
    BY <1>1, <2>5, SkipRecordStep
  <2>6. CASE ReadStep
    BY <1>1, <2>6, ReadStepStep
  <2>7. CASE EndRecord
    BY <1>1, <2>7, EndRecordStep
  <2>8. CASE \/ Open \/ Signal \/ Go \/ SetJmp \/ Poll \/ Mask \/ Unmask \/ Wait \/ Deliver
             \/ ChildReady \/ ChildGo \/ ChildExit
    BY <1>1, <2>8, OutsideSteps
  <2>9. QED
    BY <1>1, <2>1, <2>2, <2>3, <2>4, <2>5, <2>6, <2>7, <2>8 DEF Next, Parent
<1>2. QED
  BY <1>1, InitIInv, PTL DEF Spec

(***************************************************************************)
(* Results                                                                 *)
(***************************************************************************)
\* The session is always in one of its places, with the sample type and the
\* option it was started with; in particular sz, which is unsigned in
\* perf_display_sample, is never decremented below zero.
THEOREM TypeCorrect == Spec => []TypeOK
<1>1. IInv => TypeOK
  BY DEF IInv
<1>2. QED
  BY <1>1, IInvIsInductive, PTL

\* For every set of sampled fields without the user stack and the registers,
\* whose display ends the program (perf_util.c:346), every size of the ring
\* buffer and every length of the variable fields, perf_display_sample and
\* display_lost take each part of a record for what the kernel wrote there, and
\* process_smpl_buf finds the header of the next one behind it, also when
\* records are added between two reads and when SIGCHLD ends the core loop.
THEOREM RecordsDecode == Spec => []Decodes
<1>1. IInv => Decodes
  BY DEF IInv
<1>2. QED
  BY <1>1, IInvIsInductive, PTL

\* A session that came to its end has printed or counted as lost every sample
\* of the child but those that were dropped behind the last record, and has
\* left nothing in the buffer, wherever in the core loop SIGCHLD arrived.
THEOREM SamplesAccounted == Spec => []Accounted
<1>1. IInv => Accounted
  <2>1. SUFFICES ASSUME IInv, pc = "done"
                 PROVE  /\ unread = <<>>
                        /\ ~no_show => collected_samples + lost_samples + dropped = generated
    BY DEF Accounted
  <2>2. unread = <<>> /\ Samples(unread) = 0
    BY <2>1, UnitsOfNone DEF IInv, Balanced
  <2>3. collected_samples \in Nat /\ lost_samples \in Nat /\ dropped \in Nat
    BY <2>1 DEF IInv, TypeOK
  <2>4. ~no_show => generated = collected_samples + lost_samples + dropped + 0
    BY <2>1, <2>2 DEF IInv, Balanced
  <2>5. QED
    BY <2>2, <2>3, <2>4
<1>2. QED
  BY <1>1, IInvIsInductive, PTL

============================================================================
