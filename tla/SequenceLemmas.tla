--------------------------- MODULE SequenceLemmas ---------------------------
EXTENDS Naturals, Sequences, SequencesExt, WellFoundedInduction, TLAPS

(* Every non-empty set of natural numbers has a least element. *)
LEMMA LeastElement ==
  ASSUME NEW T \in SUBSET Nat, T # {}
  PROVE  \E x \in T : \A y \in T : x <= y
<1> DEFINE R == {ss \in Nat \X Nat : ss[1] < ss[2]}
<1>1. IsWellFoundedOn(R, Nat)
  BY NatLessThanWellFounded DEF OpToRel
<1>2. PICK x \in T : \A y \in T : ~ (<<y, x>> \in R)
  <2> HIDE DEF R
  <2>1. QED
    BY <1>1, WFMin
<1>3. \A y \in T : ~ (y < x)
  BY <1>2
<1>4. QED
  BY <1>3

(* What FlattenSeq defines: the concatenation of the first i sequences. *)
Flattening(seqs, n, f) ==
  f = [i \in 1..n |-> IF i = 1 THEN seqs[i] ELSE f[i-1] \o seqs[i]]

LEMMA FlatteningExists ==
  ASSUME NEW seqs, NEW n \in Nat
  PROVE  \E f : Flattening(seqs, n, f)
<1> DEFINE T == {k \in Nat : ~ \E f : Flattening(seqs, k, f)}
<1> SUFFICES ASSUME T # {} PROVE FALSE
  OBVIOUS
<1>1. PICK k \in T : \A y \in T : k <= y
  BY LeastElement
<1>2. CASE k = 0
  <2>1. Flattening(seqs, 0, [i \in 1..0 |-> seqs])
    BY DEF Flattening
  <2>2. QED
    BY <1>1, <1>2, <2>1
<1>3. CASE k # 0
  <2>1. k - 1 \in Nat /\ k - 1 \notin T
    BY <1>1, <1>3
  <2>2. PICK f : Flattening(seqs, k - 1, f)
    BY <2>1
  <2> DEFINE g == [i \in 1..k |-> IF i = k THEN (IF k = 1 THEN seqs[k] ELSE f[k-1] \o seqs[k]) ELSE f[i]]
  <2>3. \A i \in 1..k : g[i] = IF i = 1 THEN seqs[i] ELSE g[i-1] \o seqs[i]
    <3> SUFFICES ASSUME NEW i \in 1..k PROVE g[i] = IF i = 1 THEN seqs[i] ELSE g[i-1] \o seqs[i]
      OBVIOUS
    <3>1. CASE i = k
      BY <1>1, <3>1
    <3>2. CASE i # k
      <4>1. i \in 1..(k-1) /\ (i # 1 => i - 1 \in 1..(k-1) /\ i - 1 # k)
        BY <1>1, <3>2
      <4>2. f[i] = IF i = 1 THEN seqs[i] ELSE f[i-1] \o seqs[i]
        BY <2>2, <4>1 DEF Flattening
      <4>3. QED
        BY <3>2, <4>1, <4>2
    <3>3. QED
      BY <3>1, <3>2
  <2>4. g = [i \in 1..k |-> IF i = 1 THEN seqs[i] ELSE g[i-1] \o seqs[i]]
    BY <2>3
  <2>5. Flattening(seqs, k, g)
    BY <2>4 DEF Flattening
  <2>6. QED
    BY <1>1, <2>5
<1>4. QED
  BY <1>2, <1>3

LEMMA FlattenSeqIs ==
  ASSUME NEW seqs, Len(seqs) \in Nat, Len(seqs) # 0
  PROVE  \E f : Flattening(seqs, Len(seqs), f) /\ FlattenSeq(seqs) = f[Len(seqs)]
<1> DEFINE f == CHOOSE f : f = [i \in 1..Len(seqs) |-> IF i = 1 THEN seqs[i] ELSE f[i-1] \o seqs[i]]
<1>1. Flattening(seqs, Len(seqs), f)
  BY FlatteningExists DEF Flattening
<1>2. FlattenSeq(seqs) = f[Len(seqs)]
  BY DEF FlattenSeq
<1>3. QED
  BY <1>1, <1>2

(* A function on 1..n is a sequence of length n. *)
LEMMA FunctionIsSeq ==
  ASSUME NEW S, NEW n \in Nat, NEW f \in [1..n -> S]
  PROVE  f \in Seq(S) /\ Len(f) = n /\ DOMAIN f = 1..n
OBVIOUS

(* What is left of a sequence without its first element, or with one more. *)
LEMMA TailParts ==
  ASSUME NEW S, NEW s \in Seq(S), s # <<>>
  PROVE  /\ Len(s) \in Nat /\ Len(s) > 0 /\ 1 \in 1..Len(s)
         /\ Head(s) = s[1] /\ s[1] \in S
         /\ Tail(s) \in Seq(S) /\ Len(Tail(s)) = Len(s) - 1
         /\ \A k \in 1..(Len(s) - 1) : k + 1 \in 1..Len(s) /\ Tail(s)[k] = s[k + 1]
OBVIOUS

LEMMA AppendParts ==
  ASSUME NEW S, NEW s \in Seq(S), NEW e \in S
  PROVE  /\ Append(s, e) \in Seq(S) /\ Len(s) \in Nat
         /\ Len(Append(s, e)) = Len(s) + 1
         /\ \A k \in 1..Len(s) : Append(s, e)[k] = s[k]
         /\ Append(s, e)[Len(s) + 1] = e
OBVIOUS

(* The parts of a concatenation keep their elements. *)
LEMMA ConcatParts ==
  ASSUME NEW S, NEW g \in Seq(S), NEW s \in Seq(S)
  PROVE  /\ g \o s \in Seq(S)
         /\ Len(g) \in Nat /\ Len(s) \in Nat
         /\ Len(g \o s) = Len(g) + Len(s)
         /\ \A x \in 1..Len(g) : (g \o s)[x] = g[x]
         /\ \A j \in 1..Len(s) : (g \o s)[Len(g) + j] = s[j]
OBVIOUS

(***************************************************************************)
(* Where the elements of the first n of seqs are in flat: those of the     *)
(* i-th come after place start[i], in their order.                         *)
(***************************************************************************)
Placed(seqs, n, flat, start) ==
  /\ \A i \in 1..n : \A j \in 1..Len(seqs[i]) :
       start[i] + j \in 1..Len(flat) /\ flat[start[i] + j] = seqs[i][j]
  /\ \A x \in 1..Len(flat) : \E i \in 1..n : \E j \in 1..Len(seqs[i]) :
       x = start[i] + j

Layout(seqs, flat, start) ==
  /\ start \in [1..(Len(seqs) + 1) -> Nat]
  /\ start[1] = 0
  /\ \A i \in 1..Len(seqs) : start[i+1] = start[i] + Len(seqs[i])
  /\ Len(flat) = start[Len(seqs) + 1]
  /\ Placed(seqs, Len(seqs), flat, start)

LEMMA PlacedFirst ==
  ASSUME NEW S, NEW seqs, seqs[1] \in Seq(S), NEW start, start[1] = 0
  PROVE  Placed(seqs, 1, seqs[1], start)
BY DEF Placed

LEMMA PlacedNext ==
  ASSUME NEW S, NEW seqs, NEW k \in Nat, k > 1, NEW start, NEW g \in Seq(S),
         seqs[k] \in Seq(S), start[k] = Len(g), Placed(seqs, k - 1, g, start)
  PROVE  Placed(seqs, k, g \o seqs[k], start)
<1> DEFINE s == seqs[k]
           f == g \o s
<1>1. /\ Len(g) \in Nat /\ Len(s) \in Nat
      /\ Len(f) = Len(g) + Len(s)
      /\ \A x \in 1..Len(g) : f[x] = g[x]
      /\ \A j \in 1..Len(s) : f[Len(g) + j] = s[j]
  BY ConcatParts
<1> HIDE DEF f
<1>2. ASSUME NEW i \in 1..k, NEW j \in 1..Len(seqs[i])
      PROVE  start[i] + j \in 1..Len(f) /\ f[start[i] + j] = seqs[i][j]
  <2>1. CASE i = k
    <3>1. j \in 1..Len(s) /\ start[i] = Len(g) /\ s = seqs[i]
      BY <2>1
    <3>2. Len(g) + j \in 1..Len(f)
      <4> HIDE DEF s
      <4>1. QED
        BY <1>1, <3>1
    <3>3. f[Len(g) + j] = s[j]
      BY <1>1, <3>1
    <3>4. QED
      BY <3>1, <3>2, <3>3
  <2>2. CASE i # k
    <3>1. i \in 1..(k-1)
      BY <2>2
    <3>2. start[i] + j \in 1..Len(g) /\ g[start[i] + j] = seqs[i][j]
      BY <3>1 DEF Placed
    <3>3. QED
      BY <1>1, <3>2
  <2>3. QED
    BY <2>1, <2>2
<1>3. ASSUME NEW x \in 1..Len(f)
      PROVE  \E i \in 1..k : \E j \in 1..Len(seqs[i]) : x = start[i] + j
  <2>1. CASE x <= Len(g)
    <3>1. x \in 1..Len(g)
      BY <1>1, <2>1
    <3>2. PICK i \in 1..(k-1) : \E j \in 1..Len(seqs[i]) : x = start[i] + j
      BY <3>1 DEF Placed
    <3>3. i \in 1..k
      OBVIOUS
    <3>4. QED
      BY <3>2, <3>3
  <2>2. CASE x > Len(g)
    <3>1. x - Len(g) \in 1..Len(s) /\ x = start[k] + (x - Len(g)) /\ k \in 1..k
      BY <1>1, <2>2
    <3>2. QED
      BY <3>1
  <2>3. QED
    BY <1>1, <2>1, <2>2
<1>4. QED
  BY <1>2, <1>3 DEF Placed, f

(* FlattenSeq puts its sequences one after the other, and nothing else. *)
LEMMA FlattenSeqLayout ==
  ASSUME NEW S, NEW seqs \in Seq(Seq(S))
  PROVE  /\ FlattenSeq(seqs) \in Seq(S)
         /\ \E start : Layout(seqs, FlattenSeq(seqs), start)
<1> DEFINE n == Len(seqs)
<1>1. n \in Nat /\ \A i \in 1..n : seqs[i] \in Seq(S)
  OBVIOUS
<1>2. CASE n = 0
  <2>1. seqs = <<>> /\ FlattenSeq(seqs) = <<>>
    BY <1>2 DEF FlattenSeq
  <2>2. Layout(seqs, FlattenSeq(seqs), [i \in 1..1 |-> 0])
    BY <2>1 DEF Layout, Placed
  <2>3. FlattenSeq(seqs) \in Seq(S)
    <3>1. <<>> \in Seq(S)
      OBVIOUS
    <3>2. QED
      BY <2>1, <3>1
  <2>4. QED
    BY <2>2, <2>3
<1>3. CASE n # 0
  <2>1. PICK f : Flattening(seqs, n, f) /\ FlattenSeq(seqs) = f[n]
    BY <1>1, <1>3, FlattenSeqIs
  <2>2. PICK start : start = [i \in 1..(n+1) |-> IF i = 1 THEN 0 ELSE Len(f[i-1])]
    OBVIOUS
  <2>3. \A i \in 1..n : f[i] = IF i = 1 THEN seqs[i] ELSE f[i-1] \o seqs[i]
    BY <2>1 DEF Flattening
  <2>4. start[1] = 0 /\ \A i \in 1..n : start[i+1] = Len(f[i])
    BY <1>1, <2>2
  <2> DEFINE Good(k) == f[k] \in Seq(S) /\ Placed(seqs, k, f[k], start)
             Bad == {k \in 1..n : ~ Good(k)}
  <2>5. Good(1)
    <3>1. 1 \in 1..n /\ f[1] = seqs[1] /\ seqs[1] \in Seq(S)
      BY <1>1, <1>3, <2>3
    <3>2. Placed(seqs, 1, seqs[1], start)
      BY <2>4, <3>1, PlacedFirst
    <3>3. QED
      BY <3>1, <3>2
  <2>6. ASSUME NEW k \in 1..n, k # 1, Good(k-1) PROVE Good(k)
    <3>1. k - 1 \in 1..n /\ k > 1 /\ k \in Nat
      BY <1>1, <2>6
    <3>2. f[k] = f[k-1] \o seqs[k]
      BY <2>3, <2>6
    <3>3. start[k] = Len(f[k-1])
      BY <2>4, <3>1
    <3>4. f[k-1] \in Seq(S) /\ seqs[k] \in Seq(S) /\ Placed(seqs, k - 1, f[k-1], start)
      BY <1>1, <2>6
    <3>5. Placed(seqs, k, f[k-1] \o seqs[k], start)
      BY <3>1, <3>3, <3>4, PlacedNext
    <3>6. QED
      BY <3>2, <3>4, <3>5, ConcatParts
  <2> HIDE DEF Good
  <2>7. Bad = {}
    <3>1. SUFFICES ASSUME Bad # {} PROVE FALSE
      OBVIOUS
    <3>2. Bad \in SUBSET Nat
      OBVIOUS
    <3>3. PICK k \in Bad : \A y \in Bad : k <= y
      BY <3>1, <3>2, LeastElement
    <3>4. k # 1
      BY <2>5, <3>3
    <3>5. k - 1 \in 1..n /\ k - 1 \notin Bad
      BY <1>1, <3>3, <3>4
    <3>6. QED
      BY <2>6, <3>3, <3>4, <3>5
  <2>8. \A k \in 1..n : f[k] \in Seq(S) /\ Placed(seqs, k, f[k], start)
    BY <2>7 DEF Good
  <2>9. start \in [1..(n+1) -> Nat]
    <3>1. ASSUME NEW i \in 1..(n+1) PROVE i # 1 => Len(f[i-1]) \in Nat
      <4>1. i # 1 => i - 1 \in 1..n
        BY <1>1
      <4>2. QED
        BY <2>8, <4>1
    <3>2. QED
      BY <2>2, <3>1
  <2>10. ASSUME NEW i \in 1..n PROVE start[i+1] = start[i] + Len(seqs[i])
    <3>1. CASE i = 1
      <4>1. f[i] = seqs[i] /\ start[i] = 0 /\ start[i+1] = Len(f[i])
        BY <2>3, <2>4, <3>1
      <4>2. Len(seqs[i]) \in Nat
        BY <1>1
      <4>3. QED
        BY <4>1, <4>2
    <3>2. CASE i # 1
      <4>1. i - 1 \in 1..n
        BY <1>1, <3>2
      <4>2. f[i] = f[i-1] \o seqs[i] /\ f[i-1] \in Seq(S) /\ seqs[i] \in Seq(S)
        BY <1>1, <2>3, <2>8, <3>2, <4>1
      <4>3. start[i] = Len(f[i-1])
        BY <2>4, <4>1
      <4>4. Len(f[i-1] \o seqs[i]) = Len(f[i-1]) + Len(seqs[i])
        BY <4>2, ConcatParts
      <4>5. start[i+1] = Len(f[i])
        BY <2>4
      <4>6. QED
        BY <4>2, <4>3, <4>4, <4>5
    <3>3. QED
      BY <3>1, <3>2
  <2>11. n \in 1..n
    BY <1>1, <1>3
  <2>12. Layout(seqs, f[n], start)
    BY <2>4, <2>8, <2>9, <2>10, <2>11 DEF Layout
  <2>13. QED
    BY <2>1, <2>8, <2>11, <2>12
<1>4. QED
  BY <1>2, <1>3
=============================================================================
