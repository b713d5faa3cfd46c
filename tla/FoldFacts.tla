----------------------------- MODULE FoldFacts -----------------------------
(***************************************************************************)
(* A loop over a list, as the list of the values its accumulator takes.    *)
(* Instances give Op and Base; FoldSteps then says that FoldLeft(Op, Base, *)
(* q) is the last of them.  The values exist by induction over the length  *)
(* of the prefix, stated as: a set of natural numbers with 0 and all       *)
(* successors is Nat.                                                      *)
(***************************************************************************)
EXTENDS SequencesExt, NaturalsInduction, FiniteSetTheorems, SequenceTheorems, TLAPS

CONSTANTS
    Op(_, _),    \* the body of the loop
    Base         \* the accumulator before it

\* A set of natural numbers has a least one.
LEMMA Least ==
    ASSUME NEW T, T \subseteq Nat, T # {}
    PROVE  \E x \in T : \A y \in T : x <= y
<1> DEFINE L == {ss \in Nat \X Nat : ss[1] < ss[2]}
<1>1. IsWellFoundedOn(L, Nat)
  BY NatLessThanWellFounded, Zenon DEF OpToRel
<1>2. PICK x \in T : \A y \in T : ~(<<y, x>> \in L)
  <2> HIDE DEF L
  <2> QED
    BY <1>1, WFMin
<1>3. \A y \in T : x <= y
  <2> SUFFICES ASSUME NEW y \in T, ~(x <= y) PROVE FALSE
    OBVIOUS
  <2>1. <<y, x>> \in L
    OBVIOUS
  <2> HIDE DEF L
  <2> QED
    BY <1>2, <2>1
<1> QED
  BY <1>3

\* A set with 0 and the successor of each of its members has every natural number.
LEMMA Induction ==
    ASSUME NEW S, S \subseteq Nat, 0 \in S, \A m \in S : m + 1 \in S
    PROVE  S = Nat
<1> SUFFICES ASSUME S # Nat PROVE FALSE
    OBVIOUS
<1>1. PICK x \in Nat \ S : \A y \in Nat \ S : x <= y
  BY Least
<1>2. x # 0 /\ x - 1 \in Nat
  OBVIOUS
<1>3. x - 1 \in S
  BY <1>1, <1>2
<1>4. (x - 1) + 1 \in S
  BY <1>3
<1> QED
  BY <1>4

\* The largest member of a set of integers.
LEMMA MaxIs ==
    ASSUME NEW s, s \subseteq Int, NEW m \in s, \A y \in s : m >= y
    PROVE  Max(s) = m
<1> DEFINE x == Max(s)
<1>1. x \in s /\ \A y \in s : x >= y
  BY DEF Max
<1> HIDE DEF x
<1>2. x >= m /\ m >= x
  BY <1>1
<1>3. x \in Int /\ m \in Int
  BY <1>1
<1>4. x = m
  BY <1>2, <1>3
<1> QED
  BY <1>4 DEF x

\* With n + 1 in it, n + 1 is the largest of a set of numbers up to it.
LEMMA MaxOf ==
    ASSUME NEW n \in Nat, NEW s \in SUBSET (1 .. n + 1)
    PROVE  /\ n + 1 \in s => Max(s) = n + 1
           /\ Max(1 .. n + 1) = n + 1
           /\ s \ {n + 1} \in SUBSET (1 .. n)
<1>1. n + 1 \in 1 .. n + 1 /\ \A y \in 1 .. n + 1 : n + 1 >= y
  OBVIOUS
<1>2. 1 .. n + 1 \subseteq Int /\ s \subseteq Int
  OBVIOUS
<1>3. \A y \in s : n + 1 >= y
  BY <1>1
<1>4. Max(1 .. n + 1) = n + 1
  BY <1>1, <1>2, MaxIs
<1>5. n + 1 \in s => Max(s) = n + 1
  BY <1>2, <1>3, MaxIs
<1> QED
  BY <1>4, <1>5

\* f[k] is the accumulator after k rounds of the loop.
LEMMA FoldSteps ==
    ASSUME NEW q, NEW n \in Nat, DOMAIN q = 1 .. n
    PROVE  \E f : /\ f = [k \in 0 .. n |-> f[k]]
                  /\ f[0] = Base /\ f[n] = FoldLeft(Op, Base, q)
                  /\ \A k \in 1 .. n : f[k] = Op(f[k - 1], q[k])
<1> DEFINE Body(g, s) == IF s = {} THEN Base ELSE Op(g[s \ {Max(s)}], q[Max(s)])
           Iter(m) == \E g : g = [s \in SUBSET (1 .. m) |-> Body(g, s)]
<1>1. Iter(0)
  <2> DEFINE g == [s \in SUBSET (1 .. 0) |-> Base]
  <2>1. SUBSET (1 .. 0) = {{}}
    OBVIOUS
  <2>2. g = [s \in SUBSET (1 .. 0) |-> Body(g, s)]
    BY <2>1
  <2> QED
    BY <2>2
<1>2. ASSUME NEW m \in Nat, Iter(m)
      PROVE  Iter(m + 1)
  <2>1. PICK g : g = [s \in SUBSET (1 .. m) |-> Body(g, s)]
    BY <1>2
  <2> DEFINE h == [s \in SUBSET (1 .. m + 1) |->
                     IF m + 1 \in s THEN Op(g[s \ {m + 1}], q[m + 1]) ELSE g[s]]
  <2>2. ASSUME NEW s \in SUBSET (1 .. m + 1)
        PROVE  h[s] = Body(h, s)
    <3>1. CASE m + 1 \in s
      <4>1. Max(s) = m + 1 /\ s \ {m + 1} \in SUBSET (1 .. m) /\ m + 1 \notin s \ {m + 1}
        BY <3>1, MaxOf
      <4>2. h[s \ {m + 1}] = g[s \ {m + 1}]
        BY <4>1
      <4> HIDE DEF h
      <4>3. h[s] = Op(g[s \ {m + 1}], q[m + 1])
        BY <3>1 DEF h
      <4> QED
        BY <3>1, <4>1, <4>2, <4>3
    <3>2. CASE m + 1 \notin s
      <4>1. s \in SUBSET (1 .. m)
        BY <3>2
      <4>2. h[s] = g[s]
        BY <3>2
      <4>3. CASE s = {}
        BY <2>1, <4>1, <4>2, <4>3
      <4>4. CASE s # {}
        <5>1. s \ {Max(s)} \in SUBSET (1 .. m) /\ m + 1 \notin s \ {Max(s)}
          BY <3>2, <4>1
        <5>2. h[s \ {Max(s)}] = g[s \ {Max(s)}]
          BY <5>1
        <5>3. g[s] = Op(g[s \ {Max(s)}], q[Max(s)])
          BY <2>1, <4>1, <4>4
        <5> HIDE DEF h
        <5> QED
          BY <4>2, <4>4, <5>2, <5>3
      <4> QED
        BY <4>3, <4>4
    <3> QED
      BY <3>1, <3>2
  <2> DEFINE hh == [s \in SUBSET (1 .. m + 1) |-> Body(h, s)]
  <2>3. h = hh
    <3> HIDE DEF Body
    <3> QED
      BY <2>2
  <2> QED
    BY <2>3
<1>3. Iter(n)
  <2> HIDE DEF Iter
  <2> DEFINE Good == {m \in Nat : Iter(m)}
  <2>1. 0 \in Good /\ \A m \in Good : m + 1 \in Good
    BY <1>1, <1>2
  <2>2. Good = Nat
    <3> HIDE DEF Good
    <3>1. Good \subseteq Nat
      BY DEF Good
    <3> QED
      BY <2>1, <3>1, Induction
  <2> QED
    BY <2>2
<1> DEFINE iter == CHOOSE g : g = [s \in SUBSET (1 .. n) |-> Body(g, s)]
<1>4. iter = [s \in SUBSET (1 .. n) |-> Body(iter, s)]
  BY <1>3
<1>5. FoldLeft(Op, Base, q) = iter[1 .. n]
  BY Zenon DEF FoldLeft, MapThenFoldSet
<1> HIDE DEF iter
<1> DEFINE f == [k \in 0 .. n |-> iter[1 .. k]]
<1>6. f[0] = Base
  <2>1. {} \in SUBSET (1 .. n) /\ 1 .. 0 = {} /\ 0 \in 0 .. n
    OBVIOUS
  <2> QED
    BY <1>4, <2>1
<1>7. ASSUME NEW k \in 1 .. n
      PROVE  f[k] = Op(f[k - 1], q[k])
  <2>0. k - 1 \in Nat /\ (k - 1) + 1 = k /\ k - 1 \in 0 .. n /\ k \in 0 .. n
    OBVIOUS
  <2>4. 1 .. k \in SUBSET (1 .. n) /\ k \in 1 .. k
    OBVIOUS
  <2>1. 1 .. k \in SUBSET (1 .. n) /\ 1 .. k # {} /\ k - 1 \in Nat /\ (k - 1) + 1 = k /\ k - 1 \in 0 .. n /\ k \in 0 .. n
    BY <2>0, <2>4
  <2>2. Max(1 .. k) = k
    BY <2>1, MaxOf
  <2>3. (1 .. k) \ {k} = 1 .. (k - 1)
    OBVIOUS
  <2> QED
    BY <1>4, <2>1, <2>2, <2>3
<1>8. f[n] = FoldLeft(Op, Base, q)
  BY <1>5
<1>9. f = [k \in 0 .. n |-> f[k]]
  OBVIOUS
<1> QED
  BY <1>6, <1>7, <1>8, <1>9

\* The same, with what is said of f under one name.
Trace(f, q, n) ==
    /\ f[0] = Base /\ f[n] = FoldLeft(Op, Base, q)
    /\ \A k \in 1 .. n : f[k] = Op(f[k - 1], q[k])

LEMMA FoldTrace ==
    ASSUME NEW q, NEW n \in Nat, DOMAIN q = 1 .. n
    PROVE  \E f : Trace(f, q, n)
<1>1. PICK f : /\ f = [k \in 0 .. n |-> f[k]]
               /\ f[0] = Base /\ f[n] = FoldLeft(Op, Base, q)
               /\ \A k \in 1 .. n : f[k] = Op(f[k - 1], q[k])
  BY FoldSteps
<1>2. Trace(f, q, n)
  BY <1>1 DEF Trace
<1> QED
  BY <1>2
=============================================================================
