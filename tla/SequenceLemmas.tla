--------------------------- MODULE SequenceLemmas ---------------------------
(***************************************************************************)
(* What the proofs about several components need of numbers and sequences. *)
(***************************************************************************)
EXTENDS Filtering, FiniteSets, FiniteSetTheorems, WellFoundedInduction, TLAPS

\* Induction over the natural numbers, for a set instead of a predicate.
LEMMA SetInduction ==
    ASSUME NEW S, 0 \in S, \A n \in Nat : n \in S => n + 1 \in S
    PROVE  Nat \subseteq S
<1> SUFFICES ASSUME ~(Nat \subseteq S) PROVE FALSE
  OBVIOUS
<1> DEFINE T == Nat \ S
<1>1. T \subseteq Nat /\ T # {}
  OBVIOUS
<1>2. PICK m \in T : \A k \in T : ~(<<k, m>> \in OpToRel(<, Nat))
  BY <1>1, NatLessThanWellFounded, WFMin
<1>3. \A k \in T : ~(k < m)
  BY <1>1, <1>2 DEF OpToRel
<1>4. m \in Nat /\ m # 0
  BY <1>1, <1>2
<1>5. m - 1 \in Nat /\ m - 1 < m
  BY <1>4
<1>6. m - 1 \in S
  BY <1>3, <1>5
<1>7. (m - 1) + 1 = m
  BY <1>4
<1> QED
  BY <1>5, <1>6, <1>7

\* f filters the first m elements of s one after the other.
Filters(f, s, S, m) ==
    /\ f[0] = << >>
    /\ \A n \in 1 .. m :
          /\ s[n] \in S => f[n] = Append(f[n - 1], s[n])
          /\ s[n] \notin S => f[n] = f[n - 1]

\* A filter of m elements is extended by one.
LEMMA FilterExtended ==
    ASSUME NEW T, NEW s \in Seq(T), NEW S, NEW m \in Nat, m < Len(s),
           NEW f, f \in [0 .. m -> Seq(T)], Filters(f, s, S, m)
    PROVE  \E g : g \in [0 .. m + 1 -> Seq(T)] /\ Filters(g, s, S, m + 1)
<1> DEFINE last == IF s[m + 1] \in S THEN Append(f[m], s[m + 1]) ELSE f[m]
           g == [n \in 0 .. m + 1 |-> IF n = m + 1 THEN last ELSE f[n]]
<1>1. f[m] \in Seq(T) /\ s[m + 1] \in T
  BY Len(s) \in Nat
<1>2. last \in Seq(T)
  BY <1>1
<1>3. g \in [0 .. m + 1 -> Seq(T)]
  <2> HIDE DEF last
  <2> QED
    BY <1>2
<1>4. /\ s[m + 1] \in S => last = Append(f[m], s[m + 1])
      /\ s[m + 1] \notin S => last = f[m]
  OBVIOUS
<1>5. g[m + 1] = last /\ \A n \in 0 .. m : g[n] = f[n]
  <2> HIDE DEF last
  <2> QED
    OBVIOUS
<1> HIDE DEF g, last
<1>6. g[0] = << >>
  BY <1>5 DEF Filters
<1>7. ASSUME NEW n \in 1 .. m + 1
      PROVE  /\ s[n] \in S => g[n] = Append(g[n - 1], s[n])
             /\ s[n] \notin S => g[n] = g[n - 1]
  <2>1. CASE n = m + 1
    <3>1. g[n - 1] = f[m] /\ g[n] = last
      BY <1>5, <2>1
    <3> QED
      BY <1>4, <2>1, <3>1
  <2>2. CASE n \in 1 .. m
    <3>1. g[n - 1] = f[n - 1] /\ g[n] = f[n]
      BY <1>5, <2>2
    <3>2. /\ s[n] \in S => f[n] = Append(f[n - 1], s[n])
          /\ s[n] \notin S => f[n] = f[n - 1]
      BY <2>2 DEF Filters
    <3> QED
      BY <3>1, <3>2
  <2> QED
    BY <2>1, <2>2
<1>8. Filters(g, s, S, m + 1)
  BY <1>6, <1>7 DEF Filters
<1> QED
  BY <1>3, <1>8

\* Every sequence is filtered by some function.
LEMMA FilterExists ==
    ASSUME NEW T, NEW s \in Seq(T), NEW S
    PROVE  \E f : f \in [0 .. Len(s) -> Seq(T)] /\ Filters(f, s, S, Len(s))
<1> DEFINE Filtered(m) ==
             \E f : f \in [0 .. m -> Seq(T)] /\ Filters(f, s, S, m)
           Reached == {m \in Nat : m <= Len(s) => Filtered(m)}
<1>1. Len(s) \in Nat
  OBVIOUS
<1>2. 0 \in Reached
  <2> DEFINE g == [n \in 0 .. 0 |-> << >>]
  <2>1. g \in [0 .. 0 -> Seq(T)] /\ Filters(g, s, S, 0)
    BY DEF Filters
  <2> HIDE DEF g
  <2>2. Filtered(0)
    BY <2>1
  <2> QED
    BY <2>2
<1>3. ASSUME NEW m \in Nat, m \in Reached
      PROVE  m + 1 \in Reached
  <2>1. ASSUME m + 1 <= Len(s) PROVE Filtered(m + 1)
    <3>1. m < Len(s) /\ Filtered(m)
      BY <1>1, <1>3, <2>1
    <3> QED
      BY <3>1, FilterExtended
  <2> HIDE DEF Filtered
  <2> QED
    BY <2>1
<1>4. Filtered(Len(s))
  <2>1. Nat \subseteq Reached
    <3> HIDE DEF Reached
    <3> QED
      BY <1>2, <1>3, SetInduction
  <2> HIDE DEF Filtered
  <2> QED
    BY <1>1, <2>1
<1> QED
  BY <1>4

\* The recursive function in the definition of Kept is such a function.
LEMMA KeptIsFilter ==
    ASSUME NEW T, NEW s \in Seq(T), NEW S
    PROVE  \E f : /\ f \in [0 .. Len(s) -> Seq(T)]
                  /\ Filters(f, s, S, Len(s))
                  /\ Kept(s, S) = f[Len(s)]
<1> DEFINE Rule(f) == [n \in 0 .. Len(s) |->
                         IF n = 0 THEN << >>
                         ELSE IF s[n] \in S THEN Append(f[n - 1], s[n])
                         ELSE f[n - 1]]
           h == CHOOSE g : g = Rule(g)
<1>1. Len(s) \in Nat
  OBVIOUS
<1>2. PICK f : f \in [0 .. Len(s) -> Seq(T)] /\ Filters(f, s, S, Len(s))
  BY FilterExists
<1>3. f = Rule(f)
  <2>1. ASSUME NEW n \in 0 .. Len(s) PROVE f[n] = Rule(f)[n]
    <3>1. CASE n = 0
      BY <1>1, <1>2, <3>1 DEF Filters
    <3>2. CASE n \in 1 .. Len(s) /\ s[n] \in S
      BY <1>2, <3>2 DEF Filters
    <3>3. CASE n \in 1 .. Len(s) /\ s[n] \notin S
      BY <1>2, <3>3 DEF Filters
    <3> QED
      BY <1>1, <3>1, <3>2, <3>3
  <2> QED
    BY <1>2, <2>1
<1>4. h = Rule(h)
  BY <1>3, Zenon
<1>5. Kept(s, S) = h[Len(s)]
  BY DEF Kept
<1> HIDE DEF h
<1> DEFINE Same == {n \in Nat : n <= Len(s) => h[n] = f[n]}
<1>6. 0 \in Same
  BY <1>1, <1>2, <1>4 DEF Filters
<1>7. ASSUME NEW n \in Nat, n \in Same PROVE n + 1 \in Same
  <2> SUFFICES ASSUME n + 1 <= Len(s) PROVE h[n + 1] = f[n + 1]
    OBVIOUS
  <2>1. h[n] = f[n] /\ n + 1 \in 1 .. Len(s) /\ (n + 1) - 1 = n
    BY <1>1, <1>7
  <2>2. h[n + 1] = IF s[n + 1] \in S THEN Append(h[n], s[n + 1]) ELSE h[n]
    <3>1. h[n + 1] = Rule(h)[n + 1]
      BY <1>4, Zenon
    <3>2. n + 1 \in 0 .. Len(s) /\ n + 1 # 0
      BY <2>1
    <3> QED
      BY <2>1, <3>1, <3>2
  <2>3. f[n + 1] = IF s[n + 1] \in S THEN Append(f[n], s[n + 1]) ELSE f[n]
    BY <1>2, <2>1 DEF Filters
  <2> QED
    BY <2>1, <2>2, <2>3
<1>8. h[Len(s)] = f[Len(s)]
  <2>1. Nat \subseteq Same
    <3> HIDE DEF Same
    <3> QED
      BY <1>6, <1>7, SetInduction
  <2> QED
    BY <1>1, <2>1
<1> QED
  BY <1>2, <1>5, <1>8

\* What is kept of a sequence: its elements that are in the set.
LEMMA KeptElements ==
    ASSUME NEW T, NEW s \in Seq(T), NEW S
    PROVE  /\ Kept(s, S) \in Seq(T)
           /\ \A k \in 1 .. Len(Kept(s, S)) :
                 /\ Kept(s, S)[k] \in S
                 /\ \E n \in 1 .. Len(s) : s[n] = Kept(s, S)[k]
           /\ \A n \in 1 .. Len(s) :
                 s[n] \in S => \E k \in 1 .. Len(Kept(s, S)) :
                                  Kept(s, S)[k] = s[n]
<1>1. PICK f : /\ f \in [0 .. Len(s) -> Seq(T)]
               /\ Filters(f, s, S, Len(s))
               /\ Kept(s, S) = f[Len(s)]
  BY KeptIsFilter
<1> DEFINE Sound(m) ==
             \A k \in 1 .. Len(f[m]) :
                f[m][k] \in S /\ \E n \in 1 .. m : s[n] = f[m][k]
           Complete(m) ==
             \A n \in 1 .. m :
                s[n] \in S => \E k \in 1 .. Len(f[m]) : f[m][k] = s[n]
           Good == {m \in Nat : m <= Len(s) => Sound(m) /\ Complete(m)}
<1>2. Len(s) \in Nat
  OBVIOUS
<1>3. 0 \in Good
  BY <1>1 DEF Filters
<1>4. ASSUME NEW m \in Nat, m \in Good PROVE m + 1 \in Good
  <2> SUFFICES ASSUME m + 1 <= Len(s) PROVE Sound(m + 1) /\ Complete(m + 1)
    OBVIOUS
  <2>1. /\ m \in 0 .. Len(s) /\ m + 1 \in 1 .. Len(s) /\ (m + 1) - 1 = m
        /\ m <= Len(s)
    BY <1>2
  <2>2. Sound(m) /\ Complete(m)
    BY <1>4, <2>1
  <2>3. f[m] \in Seq(T) /\ s[m + 1] \in T
    BY <1>1, <2>1
  <2>4. /\ s[m + 1] \in S => f[m + 1] = Append(f[m], s[m + 1])
        /\ s[m + 1] \notin S => f[m + 1] = f[m]
    BY <1>1, <2>1 DEF Filters
  <2>5. CASE s[m + 1] \in S
    <3>1. /\ Len(f[m + 1]) = Len(f[m]) + 1
          /\ f[m + 1][Len(f[m]) + 1] = s[m + 1]
          /\ \A k \in 1 .. Len(f[m]) : f[m + 1][k] = f[m][k]
          /\ Len(f[m]) \in Nat
      BY <2>3, <2>4, <2>5
    <3>2. Sound(m + 1)
      <4> SUFFICES ASSUME NEW k \in 1 .. Len(f[m + 1])
                   PROVE  /\ f[m + 1][k] \in S
                          /\ \E n \in 1 .. m + 1 : s[n] = f[m + 1][k]
        OBVIOUS
      <4>1. CASE k = Len(f[m]) + 1
        BY <2>5, <3>1, <4>1
      <4>2. CASE k \in 1 .. Len(f[m])
        <5>1. PICK n \in 1 .. m : s[n] = f[m][k]
          BY <2>2, <4>2
        <5>2. n \in 1 .. m + 1 /\ f[m + 1][k] = f[m][k] /\ f[m][k] \in S
          BY <2>2, <3>1, <4>2
        <5> QED
          BY <5>1, <5>2
      <4> QED
        BY <3>1, <4>1, <4>2
    <3>3. Complete(m + 1)
      <4> SUFFICES ASSUME NEW n \in 1 .. m + 1, s[n] \in S
                   PROVE  \E k \in 1 .. Len(f[m + 1]) : f[m + 1][k] = s[n]
        OBVIOUS
      <4>1. CASE n = m + 1
        BY <3>1, <4>1
      <4>2. CASE n \in 1 .. m
        <5>1. PICK k \in 1 .. Len(f[m]) : f[m][k] = s[n]
          BY <2>2, <4>2
        <5>2. k \in 1 .. Len(f[m + 1]) /\ f[m + 1][k] = f[m][k]
          BY <3>1
        <5> QED
          BY <5>1, <5>2
      <4> QED
        BY <4>1, <4>2
    <3> QED
      BY <3>2, <3>3
  <2>6. CASE s[m + 1] \notin S
    <3>1. f[m + 1] = f[m]
      BY <2>4, <2>6
    <3>2. Sound(m + 1)
      <4> SUFFICES ASSUME NEW k \in 1 .. Len(f[m])
                   PROVE  f[m][k] \in S /\ \E n \in 1 .. m + 1 : s[n] = f[m][k]
        BY <3>1
      <4>1. PICK n \in 1 .. m : s[n] = f[m][k]
        BY <2>2
      <4>2. n \in 1 .. m + 1 /\ f[m][k] \in S
        BY <2>2
      <4> QED
        BY <4>1, <4>2
    <3>3. Complete(m + 1)
      <4> SUFFICES ASSUME NEW n \in 1 .. m + 1, s[n] \in S
                   PROVE  \E k \in 1 .. Len(f[m]) : f[m][k] = s[n]
        BY <3>1
      <4>1. n \in 1 .. m
        BY <2>6
      <4> QED
        BY <2>2, <4>1
    <3> QED
      BY <3>2, <3>3
  <2> QED
    BY <2>5, <2>6
<1>5. Sound(Len(s)) /\ Complete(Len(s))
  <2>1. Nat \subseteq Good
    <3> HIDE DEF Good
    <3> QED
      BY <1>3, <1>4, SetInduction
  <2> QED
    BY <1>2, <2>1
<1>6. f[Len(s)] \in Seq(T)
  BY <1>1, <1>2
<1> QED
  BY <1>1, <1>5, <1>6

-----------------------------------------------------------------------------
\* The elements of two sequences put one after the other.
LEMMA ConcatElements ==
    ASSUME NEW T, NEW a \in Seq(T), NEW b \in Seq(T)
    PROVE  /\ a \o b \in Seq(T)
           /\ Len(a \o b) = Len(a) + Len(b)
           /\ \A k \in 1 .. Len(a) : (a \o b)[k] = a[k]
           /\ \A k \in 1 .. Len(b) : (a \o b)[Len(a) + k] = b[k]
           /\ \A k \in 1 .. Len(a \o b) :
                 \/ k \in 1 .. Len(a)
                 \/ k - Len(a) \in 1 .. Len(b) /\ (a \o b)[k] = b[k - Len(a)]
<1>1. a \o b \in Seq(T) /\ Len(a \o b) = Len(a) + Len(b)
  OBVIOUS
<1>2. Len(a) \in Nat /\ Len(b) \in Nat
  OBVIOUS
<1>3. \A k \in 1 .. Len(a) : (a \o b)[k] = a[k]
  BY <1>2
<1>4. ASSUME NEW k \in 1 .. Len(b) PROVE (a \o b)[Len(a) + k] = b[k]
  <2>1. Len(a) + k \in 1 .. Len(a) + Len(b) /\ ~(Len(a) + k <= Len(a))
        /\ (Len(a) + k) - Len(a) = k
    BY <1>2
  <2> QED
    BY <1>2, <2>1
<1>5. ASSUME NEW k \in 1 .. Len(a \o b), ~(k \in 1 .. Len(a))
      PROVE  k - Len(a) \in 1 .. Len(b) /\ (a \o b)[k] = b[k - Len(a)]
  <2>1. k - Len(a) \in 1 .. Len(b) /\ k = Len(a) + (k - Len(a))
    BY <1>1, <1>2, <1>5
  <2> QED
    BY <1>4, <2>1
<1> QED
  BY <1>1, <1>3, <1>4, <1>5

-----------------------------------------------------------------------------
(***************************************************************************)
(* Sequences that hold each of their elements once: lists that stand for   *)
(* ordered sets.                                                           *)
(***************************************************************************)
Members(s) == {s[n] : n \in DOMAIN s}

Distinct(s) == \A m, n \in 1 .. Len(s) : s[m] = s[n] => m = n

\* A new element at the end.
LEMMA AppendDistinct ==
    ASSUME NEW T, NEW s \in Seq(T), Distinct(s), NEW e \in T, e \notin Members(s)
    PROVE  /\ Distinct(Append(s, e))
           /\ Members(Append(s, e)) = Members(s) \cup {e}
<1> DEFINE a == Append(s, e)
<1>1. /\ a \in Seq(T) /\ Len(s) \in Nat /\ Len(a) = Len(s) + 1
      /\ a[Len(s) + 1] = e
      /\ \A n \in 1 .. Len(s) : a[n] = s[n]
      /\ DOMAIN a = 1 .. Len(a) /\ DOMAIN s = 1 .. Len(s)
  OBVIOUS
<1> HIDE DEF a
<1>2. \A n \in 1 .. Len(a) : n \in 1 .. Len(s) \/ n = Len(s) + 1
  BY <1>1
<1>3. ASSUME NEW m \in 1 .. Len(a), NEW n \in 1 .. Len(a), a[m] = a[n]
      PROVE  m = n
  <2>1. CASE m \in 1 .. Len(s) /\ n \in 1 .. Len(s)
    BY <1>1, <1>3, <2>1 DEF Distinct
  <2>2. CASE m \in 1 .. Len(s) /\ n = Len(s) + 1
    BY <1>1, <1>3, <2>2 DEF Members
  <2>3. CASE n \in 1 .. Len(s) /\ m = Len(s) + 1
    BY <1>1, <1>3, <2>3 DEF Members
  <2> QED
    BY <1>2, <2>1, <2>2, <2>3
<1>4. Members(a) \subseteq Members(s) \cup {e}
  BY <1>1, <1>2 DEF Members
<1>5. Members(s) \subseteq Members(a) /\ e \in Members(a)
  <2>1. 1 .. Len(s) \subseteq 1 .. Len(a) /\ Len(s) + 1 \in 1 .. Len(a)
    BY <1>1
  <2> QED
    BY <1>1, <2>1 DEF Members
<1> QED
  BY <1>3, <1>4, <1>5 DEF Distinct, a

\* The oldest element leaves.
LEMMA TailDistinct ==
    ASSUME NEW T, NEW s \in Seq(T), Distinct(s), Len(s) > 0
    PROVE  /\ Distinct(Tail(s))
           /\ Members(Tail(s)) = Members(s) \ {Head(s)}
<1> DEFINE t == Tail(s)
<1>1. /\ t \in Seq(T) /\ Len(s) \in Nat /\ Len(t) = Len(s) - 1
      /\ \A n \in 1 .. Len(t) : t[n] = s[n + 1]
      /\ DOMAIN t = 1 .. Len(t) /\ DOMAIN s = 1 .. Len(s)
      /\ Head(s) = s[1]
  OBVIOUS
<1> HIDE DEF t
<1>2. \A n \in 1 .. Len(t) : n + 1 \in 1 .. Len(s) /\ n + 1 # 1
  BY <1>1
<1>3. ASSUME NEW m \in 1 .. Len(t), NEW n \in 1 .. Len(t), t[m] = t[n]
      PROVE  m = n
  <2>1. m + 1 = n + 1
    BY <1>1, <1>2, <1>3 DEF Distinct
  <2> QED
    BY <2>1
<1>4. ASSUME NEW x \in Members(t) PROVE x \in Members(s) \ {Head(s)}
  <2>1. PICK n \in 1 .. Len(t) : t[n] = x
    BY <1>1 DEF Members
  <2>2. x = s[n + 1] /\ n + 1 \in 1 .. Len(s) /\ n + 1 # 1 /\ 1 \in 1 .. Len(s)
    BY <1>1, <1>2, <2>1
  <2> QED
    BY <1>1, <2>2 DEF Members, Distinct
<1>5. ASSUME NEW x \in Members(s) \ {Head(s)} PROVE x \in Members(t)
  <2>1. PICK n \in 1 .. Len(s) : s[n] = x
    BY <1>1 DEF Members
  <2>2. n # 1
    BY <1>1, <1>5, <2>1
  <2>3. n - 1 \in 1 .. Len(t) /\ (n - 1) + 1 = n
    BY <1>1, <2>2
  <2>4. t[n - 1] = x
    BY <1>1, <2>1, <2>3
  <2> QED
    BY <1>1, <2>3, <2>4 DEF Members
<1> QED
  BY <1>3, <1>4, <1>5 DEF Distinct, t

\* A filter repeats nothing.
LEMMA KeptDistinct ==
    ASSUME NEW T, NEW s \in Seq(T), NEW S, Distinct(s)
    PROVE  /\ Kept(s, S) \in Seq(T)
           /\ Len(Kept(s, S)) <= Len(s)
           /\ Distinct(Kept(s, S))
           /\ Members(Kept(s, S)) = Members(s) \cap S
<1>1. PICK f : /\ f \in [0 .. Len(s) -> Seq(T)]
               /\ Filters(f, s, S, Len(s))
               /\ Kept(s, S) = f[Len(s)]
  BY KeptIsFilter
<1> DEFINE Read(m) == {s[n] : n \in 1 .. m}
           Good == {m \in Nat : m <= Len(s) =>
                       /\ Distinct(f[m]) /\ Members(f[m]) = Read(m) \cap S
                       /\ Len(f[m]) <= m}
<1>2. Len(s) \in Nat /\ DOMAIN s = 1 .. Len(s)
  OBVIOUS
<1>3. 0 \in Good
  <2>1. Len(f[0]) = 0 /\ f[0] = << >>
    BY <1>1 DEF Filters
  <2>2. Members(f[0]) = {}
    BY <2>1 DEF Members
  <2> QED
    BY <2>1, <2>2 DEF Distinct
<1>4. ASSUME NEW m \in Nat, m \in Good PROVE m + 1 \in Good
  <2> SUFFICES ASSUME m + 1 <= Len(s)
               PROVE  /\ Distinct(f[m + 1])
                      /\ Members(f[m + 1]) = Read(m + 1) \cap S
                      /\ Len(f[m + 1]) <= m + 1
    OBVIOUS
  <2>1. /\ m \in 0 .. Len(s) /\ m + 1 \in 1 .. Len(s) /\ (m + 1) - 1 = m
        /\ m <= Len(s)
    BY <1>2
  <2>2. /\ Distinct(f[m]) /\ Members(f[m]) = Read(m) \cap S
        /\ Len(f[m]) <= m
    BY <1>4, <2>1
  <2>3. f[m] \in Seq(T) /\ s[m + 1] \in T
    BY <1>1, <2>1
  <2>4. Read(m + 1) = Read(m) \cup {s[m + 1]}
    <3>1. \A n \in 1 .. m + 1 : n \in 1 .. m \/ n = m + 1
      OBVIOUS
    <3>2. 1 .. m \subseteq 1 .. m + 1 /\ m + 1 \in 1 .. m + 1
      OBVIOUS
    <3> QED
      BY <3>1, <3>2
  <2>5. CASE s[m + 1] \in S
    <3>1. f[m + 1] = Append(f[m], s[m + 1])
      BY <1>1, <2>1, <2>5 DEF Filters
    <3>2. s[m + 1] \notin Read(m)
      <4>1. \A n \in 1 .. m : n \in 1 .. Len(s) /\ n # m + 1
        BY <2>1
      <4> QED
        BY <2>1, <4>1 DEF Distinct
    <3> HIDE DEF Read
    <3>3. /\ Distinct(f[m + 1])
          /\ Members(f[m + 1]) = Members(f[m]) \cup {s[m + 1]}
      BY <2>2, <2>3, <3>1, <3>2, AppendDistinct
    <3>4. Len(f[m + 1]) = Len(f[m]) + 1 /\ Len(f[m]) \in Nat
      BY <2>3, <3>1
    <3> QED
      BY <2>2, <2>4, <2>5, <3>3, <3>4
  <2>6. CASE s[m + 1] \notin S
    <3>1. f[m + 1] = f[m]
      BY <1>1, <2>1, <2>6 DEF Filters
    <3>2. Len(f[m]) \in Nat
      BY <2>3
    <3> HIDE DEF Read
    <3> QED
      BY <2>2, <2>4, <2>6, <3>1, <3>2
  <2> QED
    BY <2>5, <2>6
<1>5. Len(s) \in Good
  <2>1. Nat \subseteq Good
    <3> HIDE DEF Good
    <3> QED
      BY <1>3, <1>4, SetInduction
  <2> QED
    BY <1>2, <2>1
<1>6. Read(Len(s)) = Members(s)
  BY <1>2 DEF Members
<1>7. f[Len(s)] \in Seq(T)
  BY <1>1, <1>2
<1> QED
  BY <1>1, <1>2, <1>5, <1>6, <1>7

\* As many elements as places.
LEMMA DistinctCardinality ==
    ASSUME NEW T, NEW s \in Seq(T), Distinct(s)
    PROVE  Cardinality(Members(s)) = Len(s)
<1>1. Len(s) \in Nat /\ DOMAIN s = 1 .. Len(s)
  OBVIOUS
<1>2. IsFiniteSet(1 .. Len(s)) /\ Cardinality(1 .. Len(s)) = Len(s)
  BY <1>1, FS_Interval
<1> DEFINE g == [n \in 1 .. Len(s) |-> s[n]]
<1>3. g \in Bijection(1 .. Len(s), Members(s))
  <2>1. g \in [1 .. Len(s) -> Members(s)]
    BY <1>1 DEF Members
  <2>2. \A m, n \in 1 .. Len(s) : g[m] = g[n] => m = n
    BY DEF Distinct
  <2>3. \A x \in Members(s) : \E n \in 1 .. Len(s) : g[n] = x
    BY <1>1 DEF Members
  <2> QED
    BY <2>1, <2>2, <2>3 DEF Bijection, Injection, Surjection, IsInjective
<1> QED
  BY <1>2, <1>3, FS_Bijection DEF ExistsBijection

=============================================================================
