-------------------------- MODULE SectionParserProofs --------------------------
(***************************************************************************)
(* Proofs about SectionParser, for documents with any number of headings   *)
(* of any levels, any names, ids and text: the parser prints every section *)
(* once and in order with the headings around it, and the processor makes  *)
(* of them search documents that hold all text once, differ in their ids   *)
(* and have a level counted from the top of their branch; and the number   *)
(* of an RFD is removed from its title.                                    *)
(*                                                                         *)
(* The parser's recursions are functions, known as a CHOOSE only: that one *)
(* exists is shown by a function that solves the recursion, and what it    *)
(* computes by induction.  Induction is done over sets of naturals, from   *)
(* the least element of those outside.                                     *)
(***************************************************************************)
EXTENDS SectionParser, FiniteSetTheorems, SequenceTheorems, WellFoundedInduction, TLAPS

-----------------------------------------------------------------------------
(* Induction over the naturals, from the least element of a set: the theorems *)
(* of the library that state induction take an operator as a parameter.      *)

\* A set of naturals with an element has a least one.
LEMMA Least ==
    ASSUME NEW T, T \subseteq Nat, T # {}
    PROVE  \E x \in T : \A y \in T : x <= y
  <1>1. IsWellFoundedOn(OpToRel(<, Nat), Nat)
    BY NatLessThanWellFounded
  <1>2. PICK x \in T : \A y \in T : ~ (<<y, x>> \in OpToRel(<, Nat))
    BY <1>1, WFMin
  <1>3. ASSUME NEW y \in T PROVE ~ (y < x)
    <2>1. x \in Nat /\ y \in Nat /\ ~ (<<y, x>> \in OpToRel(<, Nat))
      BY <1>2
    <2> QED
      BY <2>1 DEF OpToRel
  <1>4. \A y \in T : x <= y
    <2> SUFFICES ASSUME NEW y \in T PROVE x <= y
      OBVIOUS
    <2>1. x \in Nat /\ y \in Nat
      OBVIOUS
    <2> QED
      BY <1>3, <2>1
  <1> QED
    BY <1>4

\* A set that holds a natural when it holds all lower ones holds them all.
LEMMA StrongInduction ==
    ASSUME NEW S, \A n \in Nat : (\A m \in Nat : m < n => m \in S) => n \in S
    PROVE  Nat \subseteq S
  <1> SUFFICES ASSUME Nat \ S # {} PROVE FALSE
    OBVIOUS
  <1>1. PICK x \in Nat \ S : \A y \in Nat \ S : x <= y
    <2>1. Nat \ S \subseteq Nat
      OBVIOUS
    <2> QED
      BY <2>1, Least, Zenon
  <1>2. \A m \in Nat : m < x => m \in S
    BY <1>1
  <1> QED
    BY <1>1, <1>2

\* A set that holds zero, and with each natural the next, holds them all.
LEMMA Induction ==
    ASSUME NEW S, 0 \in S, \A n \in Nat : n \in S => n + 1 \in S
    PROVE  Nat \subseteq S
  <1>1. ASSUME NEW n \in Nat, \A m \in Nat : m < n => m \in S PROVE n \in S
    <2>1. CASE n = 0
      BY <2>1
    <2>2. CASE n # 0
      <3>1. n - 1 \in Nat /\ n - 1 < n /\ (n - 1) + 1 = n
        BY <2>2
      <3> QED
        BY <1>1, <3>1
    <2> QED
      BY <2>1, <2>2
  <1> QED
    BY <1>1, StrongInduction

\* A bounded set of naturals with an element has a greatest one.
LEMMA Greatest ==
    ASSUME NEW T, NEW n \in Nat, T \subseteq 0 .. n, T # {}
    PROVE  \E x \in T : \A y \in T : x >= y
  <1> DEFINE D == {d \in 0 .. n : n - d \in T}
  <1>1. D \subseteq Nat /\ D # {}
    <2>1. D \subseteq Nat
      OBVIOUS
    <2>2. PICK y \in T : TRUE
      OBVIOUS
    <2>3. y \in 0 .. n
      BY <2>2
    <2>4. n - y \in 0 .. n /\ n - (n - y) = y
      BY <2>3
    <2>5. n - y \in D
      BY <2>2, <2>4
    <2> QED
      BY <2>1, <2>5
  <1>2. PICK m \in D : \A d \in D : m <= d
    <2> HIDE DEF D
    <2> QED
      BY <1>1, Least, Zenon
  <1>3. m \in 0 .. n /\ n - m \in T
    BY <1>2
  <1>4. ASSUME NEW y \in T PROVE n - m >= y
    <2>1. y \in 0 .. n
      OBVIOUS
    <2>2. n - y \in 0 .. n /\ n - (n - y) = y
      BY <2>1
    <2>3. n - y \in D
      BY <2>2
    <2>4. m <= n - y
      BY <1>2, <2>3
    <2> QED
      BY <1>3, <2>1, <2>4
  <1> QED
    BY <1>3, <1>4

\* What is below k + 1 is below k or is k.
LEMMA BelowNext ==
    \A k, a \in Nat : a < k + 1 => /\ a < k \/ a = k
                                   /\ \A b \in Nat : b < a => b < k
  OBVIOUS

\* A step that looks only at values of a lower rank.
GoesDown(step, rank, n, D, S) ==
    /\ S # {} /\ step \in [D \X [D -> S] -> S]
    /\ n \in Nat /\ rank \in [D -> Nat] /\ \A i \in D : rank[i] < n
    /\ \A i \in D : \A g, h \in [D -> S] :
           (\A j \in D : rank[j] < rank[i] => g[j] = h[j]) => step[<<i, g>>] = step[<<i, h>>]

\* A function can be defined by recursion over a rank that the step goes down.
LEMMA Recursion ==
    ASSUME NEW D, NEW S, NEW step, NEW rank, NEW n, GoesDown(step, rank, n, D, S)
    PROVE  \E f \in [D -> S] : \A i \in D : f[i] = step[<<i, f>>]
  <1> USE DEF GoesDown
  <1> DEFINE Upto(k, f) == \A i \in D : rank[i] < k => f[i] = step[<<i, f>>]
             P == {k \in Nat : \E f \in [D -> S] : Upto(k, f)}
  <1>0. \A i \in D : rank[i] \in Nat
    OBVIOUS
  <1>1. 0 \in P
    <2>1. PICK a \in S : TRUE
      OBVIOUS
    <2>2. [i \in D |-> a] \in [D -> S] /\ Upto(0, [i \in D |-> a])
      OBVIOUS
    <2> QED
      BY <2>2
  <1>2. ASSUME NEW k \in Nat, k \in P PROVE k + 1 \in P
    <2>1. PICK f \in [D -> S] : Upto(k, f)
      BY <1>2
    <2> DEFINE g == [i \in D |-> IF rank[i] = k THEN step[<<i, f>>] ELSE f[i]]
    <2>2. g \in [D -> S]
      OBVIOUS
    <2>3. \A i \in D : rank[i] < k => g[i] = f[i]
      OBVIOUS
    <2>4. \A i \in D : rank[i] = k => g[i] = step[<<i, f>>]
      OBVIOUS
    <2> HIDE DEF g
    <2>5. ASSUME NEW i \in D, rank[i] < k + 1 PROVE g[i] = step[<<i, g>>]
      <3>0. rank[i] \in Nat
        BY <1>0
      <3>4. rank[i] < k \/ rank[i] = k
        BY <2>5, <3>0, BelowNext, Zenon
      <3>1. \A j \in D : rank[j] < rank[i] => f[j] = g[j]
        <4> SUFFICES ASSUME NEW j \in D, rank[j] < rank[i] PROVE f[j] = g[j]
          OBVIOUS
        <4>1. rank[j] \in Nat
          BY <1>0
        <4>2. rank[j] < k
          BY <2>5, <3>0, <4>1, BelowNext, Zenon
        <4> QED
          BY <2>3, <4>2
      <3>2. step[<<i, f>>] = step[<<i, g>>]
        BY <2>2, <3>1, Zenon
      <3>3. g[i] = step[<<i, f>>]
        BY <2>1, <2>3, <2>4, <3>4, Zenon
      <3> QED
        BY <3>2, <3>3
    <2>6. Upto(k + 1, g)
      BY <2>5
    <2> HIDE DEF Upto
    <2> QED
      BY <2>2, <2>6
  <1>3. n \in P
    <2> HIDE DEF P
    <2>1. Nat \subseteq P
      BY <1>1, <1>2, Induction
    <2> QED
      BY <2>1
  <1> QED
    BY <1>3

-----------------------------------------------------------------------------
(* A set of positions in order. *)

\* s lists the m elements of S, going up.
Ascending(s, m, S) ==
    /\ s \in [1 .. m -> S]
    /\ \A i, j \in 1 .. m : i < j => s[i] < s[j]

\* Positions in a sequence are finitely many integers.
LEMMA PositionsAreFinite ==
    ASSUME NEW n \in Nat, NEW S \in SUBSET (1 .. n)
    PROVE  IsFiniteSet(S) /\ Cardinality(S) \in Nat /\ S \subseteq Int
  <1>1. IsFiniteSet(1 .. n)
    BY FS_Interval
  <1>2. IsFiniteSet(S)
    BY <1>1, FS_Subset
  <1> QED
    BY <1>2, FS_CardinalityType

\* Every set of positions can be listed in order.
LEMMA AscendingExists ==
    ASSUME NEW n \in Nat, NEW S \in SUBSET (1 .. n)
    PROVE  \E s : Ascending(s, Cardinality(S), S)
  <1> DEFINE P == {k \in Nat : \A T \in SUBSET (1 .. k) : \E s : Ascending(s, Cardinality(T), T)}
  <1>1. 0 \in P
    <2>1. 1 .. 0 = {} /\ Cardinality({}) = 0
      BY FS_EmptySet
    <2>2. Ascending([i \in 1 .. 0 |-> i], 0, {})
      BY DEF Ascending
    <2> QED
      BY <2>1, <2>2
  <1>2. ASSUME NEW k \in Nat, k \in P PROVE k + 1 \in P
    <2> SUFFICES ASSUME NEW T \in SUBSET (1 .. k + 1)
                 PROVE  \E s : Ascending(s, Cardinality(T), T)
      OBVIOUS
    <2>1. CASE k + 1 \notin T
      <3>1. T \in SUBSET (1 .. k)
        BY <2>1
      <3> QED
        BY <1>2, <3>1
    <2>2. CASE k + 1 \in T
      <3> DEFINE R == T \ {k + 1}
                 m == Cardinality(R)
      <3>1. R \in SUBSET (1 .. k) /\ T = R \cup {k + 1} /\ k + 1 \notin R
        BY <2>2
      <3>2. PICK r : Ascending(r, m, R)
        BY <1>2, <3>1
      <3>3. IsFiniteSet(R)
        BY <3>1, PositionsAreFinite
      <3>4. m \in Nat /\ Cardinality(T) = m + 1
        BY <3>1, <3>3, FS_AddElement, FS_CardinalityType
      <3> DEFINE t == [i \in 1 .. m + 1 |-> IF i = m + 1 THEN k + 1 ELSE r[i]]
      <3> HIDE DEF m, R
      <3>5. r \in [1 .. m -> R] /\ \A i, j \in 1 .. m : i < j => r[i] < r[j]
        BY <3>2 DEF Ascending
      <3>6. \A i \in 1 .. m : r[i] \in R /\ r[i] \in 1 .. k
        BY <3>1, <3>5
      <3>7. t \in [1 .. m + 1 -> T]
        BY <3>1, <3>4, <3>6
      <3>8. ASSUME NEW i \in 1 .. m + 1, NEW j \in 1 .. m + 1, i < j PROVE t[i] < t[j]
        <4>1. i \in 1 .. m /\ t[i] = r[i] /\ r[i] \in 1 .. k
          BY <3>4, <3>6, <3>8
        <4>2. CASE j = m + 1
          BY <4>1, <4>2
        <4>3. CASE j # m + 1
          <5>1. j \in 1 .. m /\ t[j] = r[j]
            BY <3>4, <4>3
          <5> QED
            BY <3>5, <3>8, <4>1, <5>1
        <4> QED
          BY <4>2, <4>3
      <3>9. Ascending(t, m + 1, T)
        <4> HIDE DEF t
        <4> QED
          BY <3>7, <3>8 DEF Ascending
      <3> QED
        BY <3>4, <3>9
    <2> QED
      BY <2>1, <2>2
  <1>3. Nat \subseteq P
    <2> HIDE DEF P
    <2> QED
      BY <1>1, <1>2, Induction
  <1> QED
    BY <1>3

\* It misses none of them.
LEMMA AscendingIsOnto ==
    ASSUME NEW n \in Nat, NEW S \in SUBSET (1 .. n), NEW s, Ascending(s, Cardinality(S), S)
    PROVE  \A x \in S : \E k \in 1 .. Cardinality(S) : s[k] = x
  <1> DEFINE m == Cardinality(S)
  <1>1. IsFiniteSet(S) /\ m \in Nat
    BY PositionsAreFinite
  <1> HIDE DEF m
  <1>2. s \in [1 .. m -> S] /\ \A i, j \in 1 .. m : i < j => s[i] < s[j]
    BY DEF Ascending, m
  <1>3. ASSUME NEW i \in 1 .. m, NEW j \in 1 .. m, s[i] = s[j] PROVE i = j
    <2>0. S \subseteq Int
      BY PositionsAreFinite
    <2>1. s[i] \in Int /\ s[j] \in Int
      BY <1>2, <2>0
    <2>2. i \in Int /\ j \in Int /\ ~ (i < j) /\ ~ (j < i)
      BY <1>2, <1>3, <2>1
    <2> QED
      BY <2>2
  <1>4. s \in Injection(1 .. m, S)
    <2>1. DOMAIN s = 1 .. m
      BY <1>2
    <2>2. IsInjective(s)
      BY <1>3, <2>1 DEF IsInjective
    <2> QED
      BY <1>2, <2>2 DEF Injection
  <1>5. IsFiniteSet(1 .. m) /\ Cardinality(1 .. m) = m
    BY <1>1, FS_Interval
  <1>6. s \in Surjection(1 .. m, S)
    <2>1. Cardinality(1 .. m) = Cardinality(S)
      BY <1>5 DEF m
    <2> QED
      BY <1>1, <1>4, <2>1, FS_Injection
  <1> QED
    BY <1>6 DEF Surjection, m

\* There is one way to list a set in order.
LEMMA AscendingIsUnique ==
    ASSUME NEW n \in Nat, NEW S \in SUBSET (1 .. n), NEW s, NEW t,
           Ascending(s, Cardinality(S), S), Ascending(t, Cardinality(S), S)
    PROVE  s = t
  <1> DEFINE m == Cardinality(S)
  <1>1. m \in Nat
    BY PositionsAreFinite
  <1>2. \A x \in S : (\E k \in 1 .. m : s[k] = x) /\ (\E k \in 1 .. m : t[k] = x)
    BY AscendingIsOnto
  <1>3. /\ s \in [1 .. m -> S] /\ \A i, j \in 1 .. m : i < j => s[i] < s[j]
        /\ t \in [1 .. m -> S] /\ \A i, j \in 1 .. m : i < j => t[i] < t[j]
    BY DEF Ascending
  <1> HIDE DEF m
  <1>4. \A k \in 1 .. m : s[k] \in S /\ t[k] \in S /\ s[k] \in Int /\ t[k] \in Int
    <2>1. \A k \in 1 .. m : s[k] \in S /\ t[k] \in S
      BY <1>3
    <2>2. S \subseteq Int
      BY PositionsAreFinite
    <2> QED
      BY <2>1, <2>2
  <1> DEFINE D == {k \in 1 .. m : s[k] # t[k]}
  <1>5. CASE D = {}
    <2>1. \A k \in 1 .. m : s[k] = t[k]
      BY <1>5
    <2>2. s = [k \in 1 .. m |-> s[k]] /\ t = [k \in 1 .. m |-> t[k]]
      BY <1>3
    <2> QED
      BY <2>1, <2>2
  <1>6. CASE D # {}
    <2>1. D \subseteq Nat
      BY <1>1
    <2>2. PICK k \in D : \A j \in D : k <= j
      <3> HIDE DEF D
      <3> QED
        BY <1>6, <2>1, Least, Zenon
    <2>3. k \in 1 .. m /\ s[k] # t[k] /\ s[k] \in Int /\ t[k] \in Int
      BY <1>4, <2>2
    <2>4. \A j \in 1 .. m : j < k => s[j] = t[j]
      BY <2>2, <2>3
    <2>5. PICK p \in 1 .. m : t[p] = s[k]
      BY <1>2, <1>4, <2>3
    <2>6. PICK q \in 1 .. m : s[q] = t[k]
      BY <1>2, <1>4, <2>3
    <2> HIDE DEF D
    <2>7. ~ (p < k) /\ ~ (q < k)
      BY <1>3, <1>4, <2>3, <2>4, <2>5, <2>6
    <2>8. p # k /\ q # k
      BY <2>3, <2>5, <2>6
    <2>9. k < p /\ k < q
      BY <2>3, <2>7, <2>8
    <2>10. t[k] < s[k] /\ s[k] < t[k]
      BY <1>3, <2>3, <2>5, <2>6, <2>9
    <2> QED
      BY <2>3, <2>10
  <1> QED
    BY <1>5, <1>6

\* InOrder is the sequence of a set in order.
LEMMA InOrderAscends ==
    ASSUME NEW n \in Nat, NEW S \in SUBSET (1 .. n)
    PROVE  Ascending(InOrder(S), Cardinality(S), S)
  <1> DEFINE m == Cardinality(S)
  <1>1. PICK t : Ascending(t, m, S)
    BY AscendingExists
  <1>2. m \in Nat
    BY PositionsAreFinite
  <1>3. \A s \in [1 .. m -> S] : Len(s) = m
    BY <1>2
  <1>4. t \in [1 .. m -> S] /\ \A i, j \in 1 .. Len(t) : i < j => t[i] < t[j]
    BY <1>1, <1>2 DEF Ascending
  <1> HIDE DEF m
  <1>5. \E s \in [1 .. m -> S] : \A i, j \in 1 .. Len(s) : i < j => s[i] < s[j]
    BY <1>4
  <1> DEFINE c == InOrder(S)
  <1>6. c = CHOOSE s \in [1 .. m -> S] : \A i, j \in 1 .. Len(s) : i < j => s[i] < s[j]
    BY DEF InOrder, IsSorted, m
  <1> HIDE DEF c
  <1>7. c \in [1 .. m -> S] /\ \A i, j \in 1 .. Len(c) : i < j => c[i] < c[j]
    BY <1>5, <1>6
  <1>8. Ascending(c, m, S)
    BY <1>3, <1>7 DEF Ascending
  <1> QED
    BY <1>8 DEF c, m

\* What is used of it: its length, its elements, and that it is a sequence.
LEMMA InOrderFacts ==
    ASSUME NEW n \in Nat, NEW S \in SUBSET (1 .. n)
    PROVE  /\ Len(InOrder(S)) \in Nat
           /\ InOrder(S) \in [1 .. Len(InOrder(S)) -> S]
           /\ \A i, j \in 1 .. Len(InOrder(S)) : i < j => InOrder(S)[i] < InOrder(S)[j]
           /\ \A x \in S : \E k \in 1 .. Len(InOrder(S)) : InOrder(S)[k] = x
  <1> DEFINE m == Cardinality(S)
             c == InOrder(S)
  <1>1. m \in Nat
    BY PositionsAreFinite
  <1>2. Ascending(c, m, S)
    BY InOrderAscends
  <1>3. \A x \in S : \E k \in 1 .. m : c[k] = x
    BY <1>2, AscendingIsOnto
  <1> HIDE DEF m, c
  <1>4. c \in [1 .. m -> S] /\ \A i, j \in 1 .. m : i < j => c[i] < c[j]
    BY <1>2 DEF Ascending
  <1>5. Len(c) = m
    BY <1>1, <1>4
  <1> QED
    BY <1>1, <1>3, <1>4, <1>5 DEF c

\* A last element goes to the end.
LEMMA InOrderAppend ==
    ASSUME NEW n \in Nat, NEW S \in SUBSET (1 .. n), NEW p \in 1 .. n, \A x \in S : x < p
    PROVE  /\ Len(InOrder(S \cup {p})) = Len(InOrder(S)) + 1
           /\ \A k \in 1 .. Len(InOrder(S)) : InOrder(S \cup {p})[k] = InOrder(S)[k]
           /\ InOrder(S \cup {p})[Len(InOrder(S)) + 1] = p
  <1> DEFINE c == InOrder(S)
             m == Len(c)
             T == S \cup {p}
             t == [i \in 1 .. m + 1 |-> IF i = m + 1 THEN p ELSE c[i]]
  <1>1. /\ m \in Nat /\ c \in [1 .. m -> S]
        /\ \A i, j \in 1 .. m : i < j => c[i] < c[j]
    BY InOrderFacts
  <1>2. Ascending(c, Cardinality(S), S) /\ Cardinality(S) \in Nat
    BY InOrderAscends, PositionsAreFinite
  <1> HIDE DEF c
  <1>3. Cardinality(S) = m
    BY <1>1, <1>2 DEF Ascending
  <1>4. Cardinality(T) = m + 1
    <2>1. p \notin S
      OBVIOUS
    <2>2. IsFiniteSet(S)
      BY PositionsAreFinite
    <2> QED
      BY <1>3, <2>1, <2>2, FS_AddElement
  <1> HIDE DEF m
  <1>5. \A i \in 1 .. m : c[i] \in S /\ c[i] < p
    BY <1>1
  <1>6. t \in [1 .. m + 1 -> T]
    BY <1>1, <1>5
  <1>7. ASSUME NEW i \in 1 .. m + 1, NEW j \in 1 .. m + 1, i < j PROVE t[i] < t[j]
    <2>1. i \in 1 .. m /\ t[i] = c[i]
      BY <1>1, <1>7
    <2>2. CASE j = m + 1
      BY <1>5, <2>1, <2>2
    <2>3. CASE j # m + 1
      <3>1. j \in 1 .. m /\ t[j] = c[j]
        BY <1>1, <2>3
      <3> QED
        BY <1>1, <1>7, <2>1, <3>1
    <2> QED
      BY <2>2, <2>3
  <1>8. Ascending(t, Cardinality(T), T)
    <2> HIDE DEF t
    <2> QED
      BY <1>4, <1>6, <1>7 DEF Ascending
  <1>9. T \in SUBSET (1 .. n)
    OBVIOUS
  <1>10. InOrder(T) = t
    <2> HIDE DEF T, t
    <2>1. Ascending(InOrder(T), Cardinality(T), T)
      BY <1>9, InOrderAscends
    <2> QED
      BY <1>8, <1>9, <2>1, AscendingIsUnique
  <1>11. Len(t) = m + 1 /\ (\A k \in 1 .. m : t[k] = c[k]) /\ t[m + 1] = p
    BY <1>1
  <1> HIDE DEF T, t
  <1>12. /\ Len(InOrder(T)) = m + 1 /\ InOrder(T)[m + 1] = p
         /\ \A k \in 1 .. m : InOrder(T)[k] = c[k]
    BY <1>10, <1>11
  <1> QED
    BY <1>12 DEF c, m, T

-----------------------------------------------------------------------------
(* The tree that a sequence of levels makes.  L[0] is below every level; e is *)
(* the end of the part of the document that heading i is at the head of.     *)

Leveled(L, n) == n \in Nat /\ L \in [0 .. n -> Int] /\ \A k \in 1 .. n : L[0] < L[k]

\* p is the last heading before j of a lower level.
IsParent(L, p, j) == p < j /\ L[p] < L[j] /\ \A k \in p + 1 .. j - 1 : L[k] >= L[j]

\* e is the last heading after i before one that closes i.
IsEnd(L, n, i, e) ==
    /\ e \in i .. n
    /\ \A k \in i + 1 .. e : L[k] > L[i]
    /\ e < n => L[e + 1] <= L[i]

\* Each part of the document has an end.
LEMMA EndExists ==
    ASSUME NEW n, NEW L, Leveled(L, n), NEW i \in 0 .. n
    PROVE  \E e : IsEnd(L, n, i, e)
  <1>1. n \in Nat /\ \A k \in 0 .. n : L[k] \in Int
    BY DEF Leveled
  <1> DEFINE T == {e \in i .. n : \A k \in i + 1 .. e : L[k] > L[i]}
  <1>2. T \subseteq 0 .. n
    BY <1>1
  <1>3. i \in T
    BY <1>1
  <1>4. PICK e \in T : \A y \in T : e >= y
    <2> HIDE DEF T
    <2> QED
      BY <1>1, <1>2, <1>3, Greatest, Zenon
  <1>5. e \in i .. n /\ \A k \in i + 1 .. e : L[k] > L[i]
    BY <1>4
  <1>6. ASSUME e < n PROVE L[e + 1] <= L[i]
    <2>1. e + 1 \in i .. n /\ e + 1 \in 0 .. n /\ ~ (e >= e + 1) /\ e \in Int /\ i \in 0 .. n
      BY <1>1, <1>5, <1>6
    <2>2. e + 1 \notin T
      <3> HIDE DEF T
      <3> QED
        BY <1>4, <2>1
    <2>3. PICK k \in i + 1 .. e + 1 : ~ (L[k] > L[i])
      BY <2>1, <2>2
    <2>4. k = e + 1
      BY <1>5, <2>1, <2>3
    <2>5. L[k] \in Int /\ L[i] \in Int
      BY <1>1, <2>1, <2>4
    <2> QED
      BY <2>3, <2>4, <2>5
  <1> QED
    BY <1>5, <1>6 DEF IsEnd

\* The end of the document is the end of the part that the document is.
LEMMA EndOfAll ==
    ASSUME NEW n, NEW L, Leveled(L, n), NEW e, IsEnd(L, n, 0, e)
    PROVE  e = n
  <1>1. n \in Nat /\ (\A k \in 0 .. n : L[k] \in Int) /\ \A k \in 1 .. n : L[0] < L[k]
    BY DEF Leveled
  <1>2. e \in 0 .. n /\ (e < n => L[e + 1] <= L[0])
    BY DEF IsEnd
  <1>3. e < n => e + 1 \in 1 .. n /\ e + 1 \in 0 .. n
    BY <1>1, <1>2
  <1>4. e < n => L[0] < L[e + 1] /\ L[0] \in Int /\ L[e + 1] \in Int
    BY <1>1, <1>3
  <1>5. ~ (e < n)
    BY <1>2, <1>4
  <1> QED
    BY <1>1, <1>2, <1>5

\* The facts of a tree: where the first section in another one is, that one ends
\* before the other, and where the next one is.
LEMMA FirstChild ==
    ASSUME NEW n, NEW L, Leveled(L, n), NEW i \in 0 .. n, NEW e, IsEnd(L, n, i, e), i < e
    PROVE  i + 1 \in 1 .. n /\ IsParent(L, i, i + 1)
  <1>1. n \in Nat /\ e \in i .. n /\ i + 1 \in i + 1 .. e
    BY DEF Leveled, IsEnd
  <1>2. L[i + 1] > L[i]
    BY <1>1 DEF IsEnd
  <1>3. L[i + 1] \in Int /\ L[i] \in Int
    BY <1>1 DEF Leveled
  <1> QED
    BY <1>1, <1>2, <1>3 DEF IsParent

\* A section ends no later than the one it is in.
LEMMA ChildWithin ==
    ASSUME NEW n, NEW L, Leveled(L, n), NEW i \in 0 .. n, NEW e, IsEnd(L, n, i, e),
           NEW j \in 1 .. n, IsParent(L, i, j), NEW f, IsEnd(L, n, j, f)
    PROVE  j <= e /\ f <= e
  <1>1. n \in Nat /\ \A k \in 0 .. n : L[k] \in Int
    BY DEF Leveled
  <1>2. e \in i .. n /\ (e < n => L[e + 1] <= L[i])
    BY DEF IsEnd
  <1>3. f \in j .. n /\ \A k \in j + 1 .. f : L[k] > L[j]
    BY DEF IsEnd
  <1>4. i < j /\ L[i] < L[j] /\ \A k \in i + 1 .. j - 1 : L[k] >= L[j]
    BY DEF IsParent
  <1>5. ASSUME NEW k \in i + 1 .. f PROVE L[k] > L[i]
    <2>1. k \in 0 .. n /\ j \in 0 .. n
      BY <1>1, <1>3
    <2>2. L[k] \in Int /\ L[j] \in Int /\ L[i] \in Int
      BY <1>1, <2>1
    <2>3. k \in i + 1 .. j - 1 \/ k = j \/ k \in j + 1 .. f
      BY <1>1, <1>3
    <2>4. L[k] >= L[j]
      BY <1>3, <1>4, <2>2, <2>3
    <2> QED
      BY <1>4, <2>2, <2>4
  <1>6. ~ (e < f)
    <2> SUFFICES ASSUME e < f PROVE FALSE
      OBVIOUS
    <2>1. e + 1 \in i + 1 .. f /\ e + 1 \in 0 .. n /\ e < n
      BY <1>1, <1>2, <1>3
    <2>2. L[e + 1] > L[i] /\ L[e + 1] <= L[i]
      BY <1>2, <1>5, <2>1
    <2>3. L[e + 1] \in Int /\ L[i] \in Int
      BY <1>1, <2>1
    <2> QED
      BY <2>2, <2>3
  <1> QED
    BY <1>1, <1>2, <1>3, <1>6

\* After a section that does not end its parent comes another one of the parent.
LEMMA NextChild ==
    ASSUME NEW n, NEW L, Leveled(L, n), NEW i \in 0 .. n, NEW e, IsEnd(L, n, i, e),
           NEW j \in 1 .. n, IsParent(L, i, j), NEW f, IsEnd(L, n, j, f), f < e
    PROVE  f + 1 \in 1 .. n /\ IsParent(L, i, f + 1)
  <1>1. n \in Nat /\ \A k \in 0 .. n : L[k] \in Int
    BY DEF Leveled
  <1>2. e \in i .. n /\ \A k \in i + 1 .. e : L[k] > L[i]
    BY DEF IsEnd
  <1>3. f \in j .. n /\ (\A k \in j + 1 .. f : L[k] > L[j]) /\ (f < n => L[f + 1] <= L[j])
    BY DEF IsEnd
  <1>4. i < j /\ L[i] < L[j] /\ \A k \in i + 1 .. j - 1 : L[k] >= L[j]
    BY DEF IsParent
  <1>5. /\ f + 1 \in i + 1 .. e /\ f + 1 \in 1 .. n /\ f + 1 \in 0 .. n
        /\ f < n /\ i < f + 1 /\ j \in 0 .. n
    BY <1>1, <1>2, <1>3, <1>4
  <1>6. L[f + 1] <= L[j] /\ L[f + 1] > L[i] /\ L[f + 1] \in Int /\ L[i] \in Int /\ L[j] \in Int
    BY <1>1, <1>2, <1>3, <1>5
  <1>7. ASSUME NEW k \in i + 1 .. (f + 1) - 1 PROVE L[k] >= L[f + 1]
    <2>1. k \in 0 .. n
      BY <1>1, <1>3
    <2>2. L[k] \in Int
      BY <1>1, <2>1
    <2>3. k \in i + 1 .. j - 1 \/ k = j \/ k \in j + 1 .. f
      BY <1>1, <1>3
    <2>4. L[k] >= L[j]
      BY <1>3, <1>4, <1>6, <2>2, <2>3
    <2> QED
      BY <1>6, <2>2, <2>4
  <1>8. L[i] < L[f + 1]
    BY <1>6
  <1> QED
    BY <1>5, <1>7, <1>8 DEF IsParent

\* Nothing inside another section is in the same section as that one.
LEMMA ChildAfter ==
    ASSUME NEW n, NEW L, Leveled(L, n), NEW i \in 0 .. n,
           NEW j \in 1 .. n, IsParent(L, i, j), NEW f, IsEnd(L, n, j, f),
           NEW k \in 1 .. n, IsParent(L, i, k), j < k
    PROVE  f < k
  <1> SUFFICES ASSUME ~ (f < k) PROVE FALSE
    OBVIOUS
  <1>1. n \in Nat /\ \A x \in 0 .. n : L[x] \in Int
    BY DEF Leveled
  <1>2. f \in j .. n /\ \A x \in j + 1 .. f : L[x] > L[j]
    BY DEF IsEnd
  <1>3. i < j
    BY DEF IsParent
  <1>4. \A x \in i + 1 .. k - 1 : L[x] >= L[k]
    BY DEF IsParent
  <1>5. k \in j + 1 .. f /\ j \in i + 1 .. k - 1 /\ j \in 0 .. n /\ k \in 0 .. n
    BY <1>1, <1>2, <1>3
  <1>6. L[k] > L[j] /\ L[j] >= L[k] /\ L[k] \in Int /\ L[j] \in Int
    BY <1>1, <1>2, <1>4, <1>5
  <1> QED
    BY <1>6

\* E has the end of each heading.
AreEnds(E, L, n) == \A x \in 0 .. n : IsEnd(L, n, x, E[x])

\* s lists the m sections directly in i, in order.
AreChildren(s, m, L, n, i) ==
    /\ m \in Nat
    /\ \A k \in 1 .. m : s[k] \in 1 .. n /\ IsParent(L, i, s[k])
    /\ \A j, k \in 1 .. m : j < k => s[j] < s[k]
    /\ \A x \in 1 .. n : IsParent(L, i, x) => \E k \in 1 .. m : s[k] = x

\* s divides what follows heading i: each begins where the one before it ends.
Divide(s, m, E, i) ==
    /\ m = 0 => E[i] = i
    /\ m > 0 => s[1] = i + 1 /\ E[s[m]] = E[i]
    /\ \A k \in 1 .. m - 1 : s[k + 1] = E[s[k]] + 1

\* The sections in section i, in order, divide what is in it: the first one begins
\* after its heading, each other one where the one before it ends, and the last one
\* ends where it ends.
LEMMA ChildrenDivide ==
    ASSUME NEW n, NEW L, Leveled(L, n), NEW i \in 0 .. n, NEW E, AreEnds(E, L, n),
           NEW m, NEW s, AreChildren(s, m, L, n, i)
    PROVE  Divide(s, m, E, i)
  <1>0. /\ m \in Nat
        /\ \A x \in 0 .. n : IsEnd(L, n, x, E[x])
        /\ \A k \in 1 .. m : s[k] \in 1 .. n /\ IsParent(L, i, s[k])
        /\ \A j, k \in 1 .. m : j < k => s[j] < s[k]
        /\ \A x \in 1 .. n : IsParent(L, i, x) => \E k \in 1 .. m : s[k] = x
    BY DEF AreEnds, AreChildren
  <1>1. n \in Nat /\ \A x \in 0 .. n : E[x] \in x .. n
    BY <1>0 DEF Leveled, IsEnd
  <1>2. ASSUME NEW k \in 1 .. m
        PROVE  /\ s[k] \in 1 .. n /\ s[k] \in 0 .. n
               /\ i < s[k] /\ s[k] <= E[i] /\ s[k] <= E[s[k]] /\ E[s[k]] <= E[i]
    <2>1. s[k] \in 1 .. n /\ IsParent(L, i, s[k])
      BY <1>0
    <2>2. s[k] \in 0 .. n /\ i < s[k]
      BY <1>1, <2>1 DEF IsParent
    <2>3. IsEnd(L, n, i, E[i]) /\ IsEnd(L, n, s[k], E[s[k]])
      BY <1>0, <2>2
    <2>4. s[k] <= E[i] /\ E[s[k]] <= E[i]
      BY <2>1, <2>3, ChildWithin, Zenon
    <2>5. s[k] <= E[s[k]]
      BY <1>1, <2>2
    <2> QED
      BY <2>1, <2>2, <2>4, <2>5
  <1>3. ASSUME i < E[i] PROVE \E k \in 1 .. m : s[k] = i + 1
    <2>1. IsEnd(L, n, i, E[i])
      BY <1>0
    <2>2. i + 1 \in 1 .. n /\ IsParent(L, i, i + 1)
      BY <1>3, <2>1, FirstChild, Zenon
    <2> QED
      BY <1>0, <2>2
  <1>4. ASSUME NEW k \in 1 .. m, E[s[k]] < E[i]
        PROVE  \E q \in 1 .. m : s[q] = E[s[k]] + 1
    <2>1. s[k] \in 1 .. n /\ IsParent(L, i, s[k]) /\ s[k] \in 0 .. n
      BY <1>0, <1>2
    <2>2. IsEnd(L, n, i, E[i]) /\ IsEnd(L, n, s[k], E[s[k]])
      BY <1>0, <2>1
    <2>3. E[s[k]] + 1 \in 1 .. n /\ IsParent(L, i, E[s[k]] + 1)
      BY <1>4, <2>1, <2>2, NextChild, Zenon
    <2> QED
      BY <1>0, <2>3
  <1>5. ASSUME NEW j \in 1 .. m, NEW k \in 1 .. m, j < k PROVE E[s[j]] < s[k]
    <2>1. /\ s[j] \in 1 .. n /\ IsParent(L, i, s[j]) /\ s[j] \in 0 .. n
          /\ s[k] \in 1 .. n /\ IsParent(L, i, s[k]) /\ s[j] < s[k]
      BY <1>0, <1>2, <1>5
    <2>2. IsEnd(L, n, s[j], E[s[j]])
      BY <1>0, <2>1
    <2> QED
      BY <2>1, <2>2, ChildAfter, Zenon
  <1>6. E[i] \in i .. n
    BY <1>1
  <1>7. m \in Nat /\ \A j, k \in 1 .. m : j < k => s[j] < s[k]
    BY <1>0
  <1>8. \A k \in 1 .. m : E[s[k]] \in Int /\ s[k] \in Int
    BY <1>1, <1>2
  <1>9. m = 0 => E[i] = i
    BY <1>3, <1>6, <1>7
  <1>10. ASSUME m > 0 PROVE s[1] = i + 1
    <2>1. 1 \in 1 .. m
      BY <1>7, <1>10
    <2>2. i < E[i] /\ i < s[1]
      BY <1>2, <1>6, <1>8, <2>1
    <2>3. PICK k \in 1 .. m : s[k] = i + 1
      BY <1>3, <2>2
    <2>4. k = 1 \/ s[1] < s[k]
      BY <1>7, <2>1
    <2> QED
      BY <1>8, <2>1, <2>2, <2>3, <2>4
  <1>11. ASSUME m > 0 PROVE E[s[m]] = E[i]
    <2>1. m \in 1 .. m
      BY <1>7, <1>11
    <2>2. E[s[m]] <= E[i] /\ E[s[m]] \in Int /\ E[i] \in Int
      BY <1>2, <1>6, <1>8, <2>1
    <2>3. ASSUME E[s[m]] < E[i] PROVE FALSE
      <3>1. PICK q \in 1 .. m : s[q] = E[s[m]] + 1
        BY <1>4, <2>1, <2>3
      <3>2. s[m] <= E[s[m]] /\ s[q] \in Int /\ s[m] \in Int
        BY <1>2, <1>8, <2>1
      <3>3. q = m \/ s[q] < s[m]
        BY <1>7, <2>1
      <3> QED
        BY <2>2, <3>1, <3>2, <3>3
    <2> QED
      BY <2>2, <2>3
  <1>12. ASSUME NEW k \in 1 .. m - 1 PROVE s[k + 1] = E[s[k]] + 1
    <2>1. k \in 1 .. m /\ k + 1 \in 1 .. m
      BY <1>7
    <2>2. E[s[k]] < s[k + 1] /\ s[k + 1] <= E[i] /\ s[k] <= E[s[k]] /\ E[i] \in Int
      BY <1>2, <1>5, <1>6, <2>1
    <2>3. E[s[k]] \in Int /\ s[k + 1] \in Int /\ s[k] \in Int
      BY <1>8, <2>1
    <2>4. PICK q \in 1 .. m : s[q] = E[s[k]] + 1
      BY <1>4, <2>1, <2>2, <2>3
    <2>5. q = k + 1 \/ k + 1 < q \/ q = k \/ q < k
      OBVIOUS
    <2>6. ~ (q = k) /\ ~ (q < k)
      BY <1>7, <1>8, <2>1, <2>2, <2>3, <2>4
    <2>7. q = k + 1 \/ s[k + 1] < s[q]
      BY <1>7, <2>1, <2>5, <2>6
    <2> QED
      BY <2>2, <2>3, <2>4, <2>7
  <1> QED
    BY <1>9, <1>10, <1>11, <1>12 DEF Divide

-----------------------------------------------------------------------------
(* The tree of the model. *)

\* The level of each heading, the document being below all of them.
Lev(hs) == [k \in 0 .. Len(hs) |-> IF k = 0 THEN -1 ELSE hs[k].level]

\* The last heading of each part of the document.
EndOf(hs) == [i \in 0 .. Len(hs) |-> CHOOSE e : IsEnd(Lev(hs), Len(hs), i, e)]

\* The types of headings.
LEMMA HeadingFacts ==
    ASSUME NEW hs \in Seq(Heading)
    PROVE  /\ Len(hs) \in Nat /\ DOMAIN hs = 1 .. Len(hs)
           /\ \A i \in 1 .. Len(hs) :
                 /\ hs[i] \in Heading /\ hs[i].level \in 0 .. 5 /\ hs[i].id \in Id
                 /\ hs[i].name \in Name /\ hs[i].blocks \in Seq(Block)
  <1>1. Len(hs) \in Nat /\ DOMAIN hs = 1 .. Len(hs) /\ \A i \in 1 .. Len(hs) : hs[i] \in Heading
    OBVIOUS
  <1>2. \A h \in Heading : /\ h.level \in 0 .. 5 /\ h.id \in Id
                           /\ h.name \in Name /\ h.blocks \in Seq(Block)
    BY DEF Heading
  <1> QED
    BY <1>1, <1>2

\* The levels of headings, with the document below all of them.
LEMMA LevFacts ==
    ASSUME NEW hs \in Seq(Heading)
    PROVE  /\ Leveled(Lev(hs), Len(hs))
           /\ Lev(hs)[0] = -1
           /\ \A i \in 1 .. Len(hs) : Lev(hs)[i] = hs[i].level /\ Lev(hs)[i] \in 0 .. 5
  <1>1. Len(hs) \in Nat /\ \A i \in 1 .. Len(hs) : hs[i].level \in 0 .. 5
    BY HeadingFacts
  <1>2. \A i \in 0 .. Len(hs) : Lev(hs)[i] = IF i = 0 THEN -1 ELSE hs[i].level
    BY DEF Lev
  <1>3. Lev(hs) \in [0 .. Len(hs) -> Int]
    BY <1>1 DEF Lev
  <1>4. Lev(hs)[0] = -1
    BY <1>1, <1>2
  <1>5. \A i \in 1 .. Len(hs) : Lev(hs)[i] = hs[i].level /\ Lev(hs)[i] \in 0 .. 5
    BY <1>1, <1>2
  <1>6. \A i \in 1 .. Len(hs) : Lev(hs)[0] < Lev(hs)[i]
    BY <1>4, <1>5
  <1> QED
    BY <1>1, <1>3, <1>4, <1>5, <1>6 DEF Leveled

\* EndOf is where the part of a heading ends.
LEMMA EndOfFacts ==
    ASSUME NEW hs \in Seq(Heading), NEW i \in 0 .. Len(hs)
    PROVE  /\ IsEnd(Lev(hs), Len(hs), i, EndOf(hs)[i])
           /\ EndOf(hs)[i] \in i .. Len(hs)
  <1>1. \E e : IsEnd(Lev(hs), Len(hs), i, e)
    BY LevFacts, EndExists
  <1>2. EndOf(hs)[i] = CHOOSE e : IsEnd(Lev(hs), Len(hs), i, e)
    BY DEF EndOf
  <1>3. IsEnd(Lev(hs), Len(hs), i, EndOf(hs)[i])
    BY <1>1, <1>2
  <1> QED
    BY <1>3 DEF IsEnd

\* Parent is the parent in the tree, and there is no other.
LEMMA ParentFacts ==
    ASSUME NEW hs \in Seq(Heading), NEW i \in 1 .. Len(hs)
    PROVE  /\ Parent(hs, i) \in 0 .. i - 1
           /\ IsParent(Lev(hs), Parent(hs, i), i)
           /\ \A p \in 0 .. Len(hs) : IsParent(Lev(hs), p, i) => p = Parent(hs, i)
  <1> DEFINE I == {j \in 1 .. i - 1 : hs[j].level < hs[i].level}
             P == Parent(hs, i)
             L == Lev(hs)
  <1>1. P = IF I # {} THEN CHOOSE x \in I : \A y \in I : x >= y ELSE 0
    BY DEF Parent, SelectLastInSubSeq, Max
  <1>2. Len(hs) \in Nat
    BY HeadingFacts
  <1>3. L[0] = -1 /\ \A j \in 1 .. Len(hs) : L[j] = hs[j].level /\ L[j] \in 0 .. 5
    BY LevFacts
  <1>4. I # {} => P \in I /\ \A y \in I : P >= y
    <2> SUFFICES ASSUME I # {} PROVE P \in I /\ \A y \in I : P >= y
      OBVIOUS
    <2>1. i - 1 \in Nat /\ I \subseteq 0 .. i - 1
      BY <1>2
    <2>2. \E x \in I : \A y \in I : x >= y
      <3> HIDE DEF I
      <3> QED
        BY <2>1, Greatest, Zenon
    <2>3. P = CHOOSE x \in I : \A y \in I : x >= y
      BY <1>1
    <2> HIDE DEF I, P
    <2> QED
      BY <2>2, <2>3
  <1>5. I = {} => P = 0
    BY <1>1
  <1> HIDE DEF P, L
  <1>6. \A j \in 1 .. i - 1 : j \in I <=> L[j] < L[i]
    BY <1>2, <1>3
  <1>7. \A j \in I : j \in 1 .. i - 1
    OBVIOUS
  <1>8. \A j \in 0 .. i : L[j] \in Int
    BY <1>2, <1>3
  <1> HIDE DEF I
  <1>9. P \in 0 .. i - 1
    BY <1>2, <1>4, <1>5, <1>7
  <1>10. L[P] < L[i]
    BY <1>2, <1>3, <1>4, <1>5, <1>6, <1>7
  <1>11. ASSUME NEW k \in P + 1 .. i - 1 PROVE L[k] >= L[i]
    <2>1. k \in 1 .. i - 1 /\ k \in 0 .. i /\ i \in 0 .. i /\ ~ (P >= k)
      BY <1>2, <1>9
    <2>2. k \notin I
      BY <1>4, <2>1
    <2>3. L[k] \in Int /\ L[i] \in Int
      BY <1>8, <2>1
    <2> QED
      BY <1>6, <2>1, <2>2, <2>3
  <1>12. IsParent(L, P, i)
    BY <1>2, <1>9, <1>10, <1>11 DEF IsParent
  <1>13. ASSUME NEW p \in 0 .. Len(hs), IsParent(L, p, i) PROVE p = P
    <2>1. p < i /\ L[p] < L[i] /\ \A k \in p + 1 .. i - 1 : L[k] >= L[i]
      BY <1>13 DEF IsParent
    <2>2. L[p] \in Int /\ L[P] \in Int /\ L[i] \in Int
      BY <1>2, <1>8, <1>9, <2>1
    <2>3. ~ (p < P)
      BY <1>2, <1>9, <1>10, <2>1, <2>2
    <2>4. ~ (P < p)
      BY <1>2, <1>9, <1>11, <2>1, <2>2
    <2> QED
      BY <1>2, <1>9, <2>3, <2>4
  <1> QED
    BY <1>9, <1>12, <1>13 DEF P, L

\* getSections lists the sections of which i is the parent.
LEMMA SectionsFacts ==
    ASSUME NEW hs \in Seq(Heading), NEW i \in 0 .. Len(hs)
    PROVE  LET s == getSections(hs, i)
           IN  /\ AreChildren(s, Len(s), Lev(hs), Len(hs), i)
               /\ DOMAIN s = 1 .. Len(s)
  <1> DEFINE C == {j \in DOMAIN hs : Parent(hs, j) = i}
             s == getSections(hs, i)
             m == Len(s)
  <1>1. Len(hs) \in Nat /\ DOMAIN hs = 1 .. Len(hs)
    BY HeadingFacts
  <1>2. s = InOrder(C) /\ C \in SUBSET (1 .. Len(hs))
    BY <1>1 DEF getSections
  <1>3. \A x \in 1 .. Len(hs) : x \in C <=> IsParent(Lev(hs), i, x)
    <2> SUFFICES ASSUME NEW x \in 1 .. Len(hs) PROVE x \in C <=> IsParent(Lev(hs), i, x)
      OBVIOUS
    <2>1. IsParent(Lev(hs), i, x) => i = Parent(hs, x)
      BY ParentFacts
    <2>2. IsParent(Lev(hs), Parent(hs, x), x)
      BY ParentFacts
    <2> QED
      BY <1>1, <2>1, <2>2
  <1> HIDE DEF C, s
  <1>4. /\ m \in Nat /\ s \in [1 .. m -> C]
        /\ \A j, k \in 1 .. m : j < k => s[j] < s[k]
        /\ \A x \in C : \E k \in 1 .. m : s[k] = x
    BY <1>1, <1>2, InOrderFacts
  <1> HIDE DEF m
  <1>5. DOMAIN s = 1 .. m /\ \A k \in 1 .. m : s[k] \in 1 .. Len(hs) /\ IsParent(Lev(hs), i, s[k])
    BY <1>2, <1>3, <1>4
  <1> QED
    BY <1>3, <1>4, <1>5 DEF s, m, AreChildren

\* So the sections in a section divide what follows its heading.
LEMMA SectionsDivide ==
    ASSUME NEW hs \in Seq(Heading), NEW i \in 0 .. Len(hs)
    PROVE  LET s == getSections(hs, i)
           IN  Divide(s, Len(s), EndOf(hs), i)
  <1>1. Leveled(Lev(hs), Len(hs))
    BY LevFacts
  <1>2. AreEnds(EndOf(hs), Lev(hs), Len(hs))
    BY EndOfFacts DEF AreEnds
  <1> DEFINE s == getSections(hs, i)
  <1>3. AreChildren(s, Len(s), Lev(hs), Len(hs), i)
    BY SectionsFacts
  <1> QED
    BY <1>1, <1>2, <1>3, ChildrenDivide

-----------------------------------------------------------------------------
(* Flattening. *)

\* w holds the first sequences of q, added up.
AddsUp(w, q, m) == w = [k \in 1 .. m |-> IF k = 1 THEN q[k] ELSE w[k - 1] \o q[k]]

\* FlattenSeq is any function that adds one sequence after the other.
LEMMA FlattenIs ==
    ASSUME NEW q, NEW m \in Nat \ {0}, Len(q) = m, NEW w, AddsUp(w, q, m)
    PROVE  FlattenSeq(q) = w[m]
  <1>0. w = [k \in 1 .. m |-> IF k = 1 THEN q[k] ELSE w[k - 1] \o q[k]]
    BY DEF AddsUp
  <1> DEFINE F == CHOOSE f : f = [k \in 1 .. Len(q) |-> IF k = 1 THEN q[k] ELSE f[k - 1] \o q[k]]
  <1>1. FlattenSeq(q) = F[m]
    BY DEF FlattenSeq
  <1>2. F = [k \in 1 .. m |-> IF k = 1 THEN q[k] ELSE F[k - 1] \o q[k]]
    <2>1. \E f : f = [k \in 1 .. m |-> IF k = 1 THEN q[k] ELSE f[k - 1] \o q[k]]
      BY <1>0, Zenon
    <2> QED
      BY <2>1
  <1> HIDE DEF F
  <1> DEFINE P == {k \in Nat : k + 1 \in 1 .. m => F[k + 1] = w[k + 1]}
  <1>3. 0 \in P
    <2>1. F[1] = q[1] /\ w[1] = q[1]
      BY <1>0, <1>2
    <2> QED
      BY <2>1
  <1>4. ASSUME NEW k \in Nat, k \in P PROVE k + 1 \in P
    <2> SUFFICES ASSUME (k + 1) + 1 \in 1 .. m PROVE F[(k + 1) + 1] = w[(k + 1) + 1]
      OBVIOUS
    <2>1. k + 1 \in 1 .. m /\ (k + 1) + 1 # 1 /\ ((k + 1) + 1) - 1 = k + 1
      OBVIOUS
    <2>2. F[k + 1] = w[k + 1]
      BY <1>4, <2>1
    <2>3. F[(k + 1) + 1] = F[k + 1] \o q[(k + 1) + 1]
      BY <1>2, <2>1
    <2>4. w[(k + 1) + 1] = w[k + 1] \o q[(k + 1) + 1]
      BY <1>0, <2>1
    <2> QED
      BY <2>2, <2>3, <2>4
  <1>5. Nat \subseteq P
    <2> HIDE DEF P
    <2> QED
      BY <1>3, <1>4, Induction
  <1>6. m - 1 \in Nat /\ (m - 1) + 1 = m /\ m \in 1 .. m
    OBVIOUS
  <1>7. m - 1 \in P
    BY <1>5, <1>6
  <1>8. F[m] = w[m]
    BY <1>6, <1>7
  <1> QED
    BY <1>1, <1>8

\* q has m pieces of g that follow each other from position a on.
Pieces(q, b, e, m, g, a) ==
    /\ q = [k \in 1 .. m |-> SubSeq(g, b[k], e[k])]
    /\ b[1] = a
    /\ \A k \in 1 .. m : b[k] \in a .. Len(g) /\ e[k] \in b[k] .. Len(g)
    /\ \A k \in 1 .. m - 1 : b[k + 1] = e[k] + 1

\* Pieces of a sequence that follow each other make up what they are pieces of.
LEMMA FlattenPieces ==
    ASSUME NEW S, NEW g \in Seq(S), NEW a \in 1 .. Len(g), NEW m \in Nat \ {0},
           NEW b, NEW e, NEW q, Pieces(q, b, e, m, g, a)
    PROVE  FlattenSeq(q) = SubSeq(g, a, e[m])
  <1> DEFINE w == [k \in 1 .. m |-> SubSeq(g, a, e[k])]
  <1>0. /\ q = [k \in 1 .. m |-> SubSeq(g, b[k], e[k])]
        /\ b[1] = a
        /\ \A k \in 1 .. m : b[k] \in a .. Len(g) /\ e[k] \in b[k] .. Len(g)
        /\ \A k \in 1 .. m - 1 : b[k + 1] = e[k] + 1
    BY DEF Pieces
  <1>1. Len(q) = m
    BY <1>0
  <1>2. ASSUME NEW k \in 1 .. m
        PROVE  w[k] = IF k = 1 THEN q[k] ELSE w[k - 1] \o q[k]
    <2>1. w[k] = SubSeq(g, a, e[k]) /\ q[k] = SubSeq(g, b[k], e[k])
      BY <1>0
    <2>2. CASE k = 1
      BY <1>0, <2>1, <2>2
    <2>3. CASE k # 1
      <3>1. k - 1 \in 1 .. m - 1 /\ k - 1 \in 1 .. m /\ (k - 1) + 1 = k
        BY <2>3
      <3>2. b[k] = e[k - 1] + 1
        BY <1>0, <3>1
      <3>3. /\ Len(g) \in Nat /\ b[k - 1] \in a .. Len(g)
            /\ e[k - 1] \in b[k - 1] .. Len(g) /\ e[k] \in b[k] .. Len(g)
        BY <1>0, <3>1
      <3> DEFINE c == e[k - 1]
                 d == e[k]
      <3>4. c \in a - 1 .. Len(g) /\ d \in c .. Len(g) /\ a \in 1 .. Len(g) + 1
        BY <3>2, <3>3
      <3> HIDE DEF c, d
      <3>5. SubSeq(g, a, c) \o SubSeq(g, c + 1, d) = SubSeq(g, a, d)
        BY <3>4, ConcatAdjacentSubSeq
      <3>6. w[k - 1] = SubSeq(g, a, c)
        BY <3>1 DEF c
      <3> HIDE DEF w
      <3> QED
        BY <2>1, <2>3, <3>2, <3>5, <3>6 DEF c, d
    <2> QED
      BY <2>2, <2>3
  <1>3. w[m] = SubSeq(g, a, e[m])
    <2>1. m \in 1 .. m
      OBVIOUS
    <2> QED
      BY <2>1
  <1>4. w = [k \in 1 .. m |-> IF k = 1 THEN q[k] ELSE w[k - 1] \o q[k]]
    <2>1. w = [k \in 1 .. m |-> w[k]]
      OBVIOUS
    <2> HIDE DEF w
    <2> QED
      BY <1>2, <2>1
  <1> HIDE DEF w
  <1>5. AddsUp(w, q, m) /\ m \in Nat \ {0}
    <2>1. AddsUp(w, q, m)
      BY <1>4, Zenon DEF AddsUp
    <2> QED
      BY <2>1
  <1>7. FlattenSeq(q) = w[m]
    BY <1>1, <1>5, FlattenIs
  <1> QED
    BY <1>3, <1>7

-----------------------------------------------------------------------------
(* The sections of a parsed document. *)

\* The entry of each heading.
Entries(hs) == [i \in DOMAIN hs |-> entry(hs, i)]

\* Everything from heading i to the end of its section.
Branch(hs, i) == SubSeq(Entries(hs), i, EndOf(hs)[i])

\* Entries is a sequence, one entry to a heading.
LEMMA EntriesFacts ==
    ASSUME NEW hs \in Seq(Heading)
    PROVE  /\ Entries(hs) \in Seq({entry(hs, i) : i \in DOMAIN hs})
           /\ Len(Entries(hs)) = Len(hs)
           /\ \A i \in 1 .. Len(hs) : Entries(hs)[i] = entry(hs, i)
  <1>1. Len(hs) \in Nat /\ DOMAIN hs = 1 .. Len(hs)
    BY HeadingFacts
  <1> DEFINE S == {entry(hs, i) : i \in DOMAIN hs}
             n == Len(hs)
  <1>2. \A i \in 1 .. n : entry(hs, i) \in S
    BY <1>1
  <1> HIDE DEF S, n
  <1>3. Entries(hs) = [i \in 1 .. n |-> entry(hs, i)]
    BY <1>1 DEF Entries, n
  <1>4. n \in Nat
    BY <1>1 DEF n
  <1>5. Entries(hs) \in Seq(S)
    BY <1>2, <1>3, <1>4
  <1>6. Len(Entries(hs)) = n /\ \A i \in 1 .. n : Entries(hs)[i] = entry(hs, i)
    BY <1>3, <1>4
  <1> QED
    BY <1>5, <1>6 DEF S, n

\* When each section nested in i gives its branch, together they give what is nested.
LEMMA NestedBranches ==
    ASSUME NEW hs \in Seq(Heading), NEW i \in 0 .. Len(hs), NEW q,
           q = [k \in 1 .. Len(getSections(hs, i)) |-> Branch(hs, getSections(hs, i)[k])]
    PROVE  FlattenSeq(q) = SubSeq(Entries(hs), i + 1, EndOf(hs)[i])
  <1> DEFINE s == getSections(hs, i)
             m == Len(s)
             E == EndOf(hs)
             g == Entries(hs)
             S == {entry(hs, j) : j \in DOMAIN hs}
             e == [k \in 1 .. m |-> E[s[k]]]
             n == Len(hs)
  <1>1. Len(hs) \in Nat
    BY HeadingFacts
  <1>2. g \in Seq(S) /\ Len(g) = n
    BY EntriesFacts
  <1>3. m \in Nat /\ \A k \in 1 .. m : s[k] \in 1 .. n /\ IsParent(Lev(hs), i, s[k])
    BY SectionsFacts DEF AreChildren
  <1>4. /\ m = 0 => E[i] = i
        /\ m > 0 => s[1] = i + 1 /\ E[s[m]] = E[i]
        /\ \A k \in 1 .. m - 1 : s[k + 1] = E[s[k]] + 1
    BY SectionsDivide DEF Divide
  <1>5. \A j \in 0 .. n : E[j] \in j .. n
    BY EndOfFacts
  <1>6. q = [k \in 1 .. m |-> SubSeq(g, s[k], e[k])]
    BY DEF Branch
  <1>7. \A k \in 1 .. m : e[k] = E[s[k]]
    OBVIOUS
  <1>8. i \in 0 .. n /\ n \in Nat
    BY <1>1
  <1> HIDE DEF s, m, E, g, S, e, n
  <1>9. CASE m = 0
    <2>1. Len(q) = 0 /\ q = << >>
      BY <1>6, <1>9
    <2>2. FlattenSeq(q) = << >>
      BY <2>1 DEF FlattenSeq
    <2>3. E[i] < i + 1 /\ i + 1 \in Int /\ E[i] \in Int
      BY <1>4, <1>8, <1>9
    <2>4. SubSeq(g, i + 1, E[i]) = << >>
      BY <2>3, SubSeqEmpty
    <2> QED
      BY <2>2, <2>4 DEF E, g
  <1>10. CASE m # 0
    <2>1. m > 0 /\ 1 \in 1 .. m /\ m \in 1 .. m
      BY <1>3, <1>10
    <2>2. s[1] = i + 1 /\ i + 1 \in 1 .. Len(g)
      BY <1>2, <1>3, <1>4, <2>1
    <2>3. ASSUME NEW k \in 1 .. m PROVE s[k] \in i + 1 .. Len(g) /\ e[k] \in s[k] .. Len(g)
      <3>1. s[k] \in 1 .. n /\ i < s[k]
        BY <1>3 DEF IsParent
      <3>2. s[k] \in 0 .. n
        BY <3>1
      <3>3. e[k] \in s[k] .. n
        BY <1>5, <1>7, <3>2
      <3> QED
        BY <1>2, <1>8, <3>1, <3>3
    <2>4. \A k \in 1 .. m - 1 : s[k + 1] = e[k] + 1
      <3>1. \A k \in 1 .. m - 1 : k \in 1 .. m
        BY <1>3
      <3> QED
        BY <1>4, <1>7, <3>1
    <2>5. FlattenSeq(q) = SubSeq(g, i + 1, e[m])
      <3>1. Pieces(q, s, e, m, g, i + 1)
        BY <1>6, <2>2, <2>3, <2>4, Zenon DEF Pieces
      <3>2. m \in Nat \ {0}
        BY <1>3, <1>10
      <3> DEFINE a == i + 1
      <3>3. a \in 1 .. Len(g) /\ Pieces(q, s, e, m, g, a) /\ g \in Seq(S)
        BY <1>2, <2>2, <3>1
      <3> HIDE DEF a
      <3>4. FlattenSeq(q) = SubSeq(g, a, e[m])
        BY <3>2, <3>3, FlattenPieces, Zenon
      <3> QED
        BY <3>4 DEF a
    <2>6. e[m] = E[i]
      BY <1>4, <1>7, <2>1
    <2> QED
      BY <2>5, <2>6 DEF E, g
  <1> QED
    BY <1>9, <1>10

\* One step of formatSection.
LEMMA BranchStep ==
    ASSUME NEW hs \in Seq(Heading), NEW i \in 1 .. Len(hs), NEW q,
           q = [k \in 1 .. Len(getSections(hs, i)) |-> Branch(hs, getSections(hs, i)[k])]
    PROVE  <<entry(hs, i)>> \o FlattenSeq(q) = Branch(hs, i)
  <1> DEFINE E == EndOf(hs)
             g == Entries(hs)
             S == {entry(hs, j) : j \in DOMAIN hs}
  <1>1. Len(hs) \in Nat /\ i \in 0 .. Len(hs)
    BY HeadingFacts
  <1>2. FlattenSeq(q) = SubSeq(g, i + 1, E[i])
    BY <1>1, NestedBranches
  <1>3. g \in Seq(S) /\ Len(g) = Len(hs) /\ g[i] = entry(hs, i)
    BY EntriesFacts
  <1>4. E[i] \in i .. Len(hs)
    BY <1>1, EndOfFacts
  <1> HIDE DEF E, g, S
  <1> DEFINE e == E[i]
  <1>5. i \in 1 .. Len(g) /\ e \in i .. Len(g)
    BY <1>3, <1>4
  <1> HIDE DEF e
  <1>6. SubSeq(g, i, e) = << g[i] >> \o SubSeq(g, i + 1, e)
    BY <1>3, <1>5, SubSeqRecursiveFirst
  <1> QED
    BY <1>2, <1>3, <1>6 DEF Branch, E, g, e

\* A section is formatted as everything from its heading to its end: the recursion
\* goes to headings further on, so the branches are a solution, and the only one.
LEMMA FormatSection ==
    ASSUME NEW hs \in Seq(Heading), NEW i \in 1 .. Len(hs)
    PROVE  formatSection(hs, i) = Branch(hs, i)
  <1> DEFINE Step(f) == [j \in DOMAIN hs |->
                            <<entry(hs, j)>> \o FlattenSeq([k \in DOMAIN getSections(hs, j) |->
                                                               f[getSections(hs, j)[k]]])]
             F == CHOOSE f : f = Step(f)
             B == [j \in DOMAIN hs |-> Branch(hs, j)]
             n == Len(hs)
  <1>1. formatSection(hs, i) = F[i]
    BY DEF formatSection
  <1>2. n \in Nat /\ DOMAIN hs = 1 .. n
    BY HeadingFacts
  <1>3. ASSUME NEW j \in 0 .. n
        PROVE  /\ DOMAIN getSections(hs, j) = 1 .. Len(getSections(hs, j))
               /\ \A k \in 1 .. Len(getSections(hs, j)) :
                     getSections(hs, j)[k] \in 1 .. n /\ j < getSections(hs, j)[k]
    BY SectionsFacts DEF AreChildren, IsParent
  <1>4. ASSUME NEW f, NEW j \in 1 .. n,
               \A c \in 1 .. n : j < c => f[c] = Branch(hs, c)
        PROVE  <<entry(hs, j)>> \o FlattenSeq([k \in DOMAIN getSections(hs, j) |->
                                                  f[getSections(hs, j)[k]]]) = Branch(hs, j)
    <2> DEFINE q == [k \in DOMAIN getSections(hs, j) |-> f[getSections(hs, j)[k]]]
    <2>1. j \in 0 .. n
      BY <1>2
    <2>2. q = [k \in 1 .. Len(getSections(hs, j)) |-> Branch(hs, getSections(hs, j)[k])]
      BY <1>3, <1>4, <2>1
    <2> HIDE DEF q
    <2>3. <<entry(hs, j)>> \o FlattenSeq(q) = Branch(hs, j)
      BY <2>2, BranchStep
    <2> QED
      BY <2>3 DEF q
  <1>5. F = Step(F)
    <2>1. \A c \in 1 .. n : B[c] = Branch(hs, c)
      BY <1>2
    <2> HIDE DEF B
    <2>2. \A j \in 1 .. n : Step(B)[j] = Branch(hs, j)
      BY <1>2, <1>4, <2>1
    <2>3. Step(B) = [j \in DOMAIN hs |-> Step(B)[j]]
      OBVIOUS
    <2> HIDE DEF Step
    <2>4. Step(B) = B
      BY <1>2, <2>2, <2>3 DEF B
    <2>5. \E f : f = Step(f)
      BY <2>4
    <2> QED
      BY <2>5
  <1> HIDE DEF F
  <1> DEFINE P == {d \in Nat : n - d \in 1 .. n => F[n - d] = Branch(hs, n - d)}
  <1>6. ASSUME NEW d \in Nat, \A c \in Nat : c < d => c \in P PROVE d \in P
    <2> SUFFICES ASSUME n - d \in 1 .. n PROVE F[n - d] = Branch(hs, n - d)
      OBVIOUS
    <2>1. ASSUME NEW c \in 1 .. n, n - d < c PROVE F[c] = Branch(hs, c)
      <3>1. n - c \in Nat /\ n - c < d /\ n - (n - c) = c
        BY <1>2, <2>1
      <3> QED
        BY <1>6, <3>1
    <2> DEFINE j == n - d
    <2>2. j \in 1 .. n
      OBVIOUS
    <2>3. \A c \in 1 .. n : j < c => F[c] = Branch(hs, c)
      BY <2>1
    <2> HIDE DEF j, n
    <2>4. F[j] = <<entry(hs, j)>> \o FlattenSeq([k \in DOMAIN getSections(hs, j) |->
                                                    F[getSections(hs, j)[k]]])
      BY <1>2, <1>5, <2>2
    <2>5. F[j] = Branch(hs, j)
      BY <1>4, <2>2, <2>3, <2>4
    <2> QED
      BY <2>5 DEF j
  <1>7. Nat \subseteq P
    <2> HIDE DEF P
    <2> QED
      BY <1>6, StrongInduction
  <1>8. n - i \in Nat /\ n - (n - i) = i
    BY <1>2
  <1> HIDE DEF n
  <1>9. F[i] = Branch(hs, i)
    <2>1. n - i \in P
      BY <1>7, <1>8
    <2>2. i \in 1 .. n
      BY DEF n
    <2> QED
      BY <1>8, <2>1, <2>2
  <1> QED
    BY <1>1, <1>9

\* The parser prints the entries of the headings, one after the other.
LEMMA ParsedSections ==
    ASSUME NEW d \in Document
    PROVE  parse(d).sections = Entries(d.headings)
  <1> DEFINE hs == d.headings
             q == [k \in DOMAIN getSections(hs, 0) |-> formatSection(hs, getSections(hs, 0)[k])]
             g == Entries(hs)
             S == {entry(hs, j) : j \in DOMAIN hs}
  <1>1. hs \in Seq(Heading)
    BY DocumentAssumption DEF DocumentType
  <1>2. parse(d).sections = FlattenSeq(q)
    BY DEF parse
  <1> HIDE DEF hs
  <1>3. 0 \in 0 .. Len(hs) /\ Len(hs) \in Nat
    BY <1>1, HeadingFacts
  <1>4. /\ DOMAIN getSections(hs, 0) = 1 .. Len(getSections(hs, 0))
        /\ \A k \in 1 .. Len(getSections(hs, 0)) : getSections(hs, 0)[k] \in 1 .. Len(hs)
    BY <1>1, <1>3, SectionsFacts DEF AreChildren
  <1>5. \A j \in 1 .. Len(hs) : formatSection(hs, j) = Branch(hs, j)
    BY <1>1, FormatSection
  <1>6. q = [k \in 1 .. Len(getSections(hs, 0)) |-> Branch(hs, getSections(hs, 0)[k])]
    BY <1>4, <1>5
  <1> HIDE DEF q
  <1>7. FlattenSeq(q) = SubSeq(Entries(hs), 0 + 1, EndOf(hs)[0])
    BY <1>1, <1>3, <1>6, NestedBranches
  <1>8. EndOf(hs)[0] = Len(hs)
    <2>1. IsEnd(Lev(hs), Len(hs), 0, EndOf(hs)[0])
      BY <1>1, <1>3, EndOfFacts
    <2>2. Leveled(Lev(hs), Len(hs))
      BY <1>1, LevFacts
    <2> QED
      BY <2>1, <2>2, EndOfAll
  <1>9. g \in Seq(S) /\ Len(g) = Len(hs)
    BY <1>1, EntriesFacts
  <1> HIDE DEF S, g
  <1>10. SubSeq(g, 1, Len(g)) = g
    BY <1>9, SubSeqFull
  <1> QED
    BY <1>2, <1>7, <1>8, <1>9, <1>10 DEF g, hs

-----------------------------------------------------------------------------
(* The parents of a section. *)

\* One step of the walk.
UpStep(hs, c, l, f) ==
    IF l = 0 \/ c = 0 THEN <<>> ELSE <<hs[c].name>> \o f[Parent(hs, c)][l - 1]

\* The function that the walk is looked up in.
Up(hs) ==
    CHOOSE up : up = [curr \in 0 .. Len(hs) |-> [level \in Int |-> UpStep(hs, curr, level, up)]]

\* The walk is defined, by recursion over positions in the source: parents come first.
LEMMA UpFacts ==
    ASSUME NEW hs \in Seq(Heading)
    PROVE  /\ \A s : walk(hs, s) = Up(hs)[Parent(hs, s)][hs[s].level - 1]
           /\ \A c \in 0 .. Len(hs), l \in Int :
                 /\ Up(hs)[c][l] \in Seq(Name)
                 /\ Up(hs)[c][l] = UpStep(hs, c, l, Up(hs))
  <1> DEFINE n == Len(hs)
             D == 0 .. n
             S == [Int -> Seq(Name)]
             step == [x \in D \X [D -> S] |-> [l \in Int |-> UpStep(hs, x[1], l, x[2])]]
             rank == [c \in D |-> c]
             Body(up) == [curr \in D |-> [level \in Int |-> UpStep(hs, curr, level, up)]]
  <1>1. n \in Nat
    BY HeadingFacts
  <1>2. \A s : walk(hs, s) = Up(hs)[Parent(hs, s)][hs[s].level - 1]
    BY DEF walk, Up, UpStep
  <1>3. ASSUME NEW c \in D, c # 0
        PROVE  hs[c].name \in Name /\ Parent(hs, c) \in D /\ Parent(hs, c) < c
    <2>1. c \in 1 .. n
      BY <1>1, <1>3
    <2>2. hs[c].name \in Name /\ Parent(hs, c) \in 0 .. c - 1
      BY <2>1, HeadingFacts, ParentFacts
    <2> QED
      BY <1>1, <2>1, <2>2
  <1>4. ASSUME NEW c \in D, NEW f \in [D -> S], NEW l \in Int
        PROVE  UpStep(hs, c, l, f) \in Seq(Name)
    <2>1. CASE l = 0 \/ c = 0
      BY <2>1 DEF UpStep
    <2>2. CASE ~ (l = 0 \/ c = 0)
      <3>1. hs[c].name \in Name /\ Parent(hs, c) \in D
        BY <1>3, <2>2
      <3>2. f[Parent(hs, c)] \in S
        BY <3>1
      <3>3. f[Parent(hs, c)][l - 1] \in Seq(Name)
        BY <3>2
      <3>4. UpStep(hs, c, l, f) = <<hs[c].name>> \o f[Parent(hs, c)][l - 1]
        BY <2>2 DEF UpStep
      <3> HIDE DEF D, S
      <3> QED
        BY <3>1, <3>3, <3>4
    <2> QED
      BY <2>1, <2>2
  <1>5. step \in [D \X [D -> S] -> S]
    <2>1. ASSUME NEW x \in D \X [D -> S]
          PROVE  [l \in Int |-> UpStep(hs, x[1], l, x[2])] \in S
      <3>1. x[1] \in D /\ x[2] \in [D -> S]
        BY <2>1
      <3>2. \A l \in Int : UpStep(hs, x[1], l, x[2]) \in Seq(Name)
        BY <1>4, <3>1
      <3> QED
        BY <3>2
    <2> HIDE DEF D, S
    <2> QED
      BY <2>1
  <1>6. rank \in [D -> Nat] /\ (\A c \in D : rank[c] = c) /\ \A c \in D : rank[c] < n + 1
    BY <1>1
  <1>7. S # {}
    <2>1. [l \in Int |-> <<>>] \in S
      OBVIOUS
    <2> QED
      BY <2>1
  <1>8. \A c \in D : \A f \in [D -> S] : step[<<c, f>>] = [l \in Int |-> UpStep(hs, c, l, f)]
    OBVIOUS
  <1> HIDE DEF step, rank
  <1>9. ASSUME NEW c \in D, NEW g \in [D -> S], NEW h \in [D -> S],
               \A j \in D : rank[j] < rank[c] => g[j] = h[j]
        PROVE  step[<<c, g>>] = step[<<c, h>>]
    <2>1. ASSUME NEW l \in Int PROVE UpStep(hs, c, l, g) = UpStep(hs, c, l, h)
      <3>1. CASE l = 0 \/ c = 0
        BY <3>1 DEF UpStep
      <3>2. CASE ~ (l = 0 \/ c = 0)
        <4>1. Parent(hs, c) \in D /\ Parent(hs, c) < c
          BY <1>3, <3>2
        <4>2. g[Parent(hs, c)] = h[Parent(hs, c)]
          <5> HIDE DEF D, S
          <5> QED
            BY <1>6, <1>9, <4>1
        <4> QED
          BY <4>2 DEF UpStep
      <3> QED
        BY <3>1, <3>2
    <2>2. [l \in Int |-> UpStep(hs, c, l, g)] = [l \in Int |-> UpStep(hs, c, l, h)]
      BY <2>1
    <2>3. /\ step[<<c, g>>] = [l \in Int |-> UpStep(hs, c, l, g)]
          /\ step[<<c, h>>] = [l \in Int |-> UpStep(hs, c, l, h)]
      BY <1>8, Zenon
    <2> QED
      BY <2>2, <2>3, Zenon
  <1>10. n + 1 \in Nat
    BY <1>1
  <1>11. PICK f \in [D -> S] : \A c \in D : f[c] = step[<<c, f>>]
    <2> HIDE DEF D, S
    <2> DEFINE b == n + 1
    <2>1. rank \in [D -> Nat] /\ b \in Nat /\ \A c \in D : rank[c] < b
      BY <1>6, <1>10
    <2> HIDE DEF b
    <2>2. GoesDown(step, rank, b, D, S)
      BY <1>5, <1>7, <1>9, <2>1, Zenon DEF GoesDown
    <2> QED
      BY <2>2, Recursion, SMT
  <1>12. f = Body(f)
    BY <1>8, <1>11
  <1>13. Up(hs) = Body(Up(hs))
    <2>1. Up(hs) = CHOOSE up : up = Body(up)
      BY DEF Up
    <2> HIDE DEF Body
    <2> QED
      BY <1>12, <2>1
  <1> DEFINE u == Up(hs)
  <1>14. \A c \in D, l \in Int : u[c][l] = UpStep(hs, c, l, u)
    <2> HIDE DEF u
    <2>1. u = Body(u)
      BY <1>13 DEF u
    <2>2. \A c \in D : Body(u)[c] = [level \in Int |-> UpStep(hs, c, level, u)]
      OBVIOUS
    <2> HIDE DEF Body
    <2>3. \A c \in D : u[c] = [level \in Int |-> UpStep(hs, c, level, u)]
      BY <2>1, <2>2, Zenon
    <2> SUFFICES ASSUME NEW c \in D, NEW l \in Int PROVE u[c][l] = UpStep(hs, c, l, u)
      OBVIOUS
    <2>4. [level \in Int |-> UpStep(hs, c, level, u)][l] = UpStep(hs, c, l, u)
      OBVIOUS
    <2> QED
      BY <2>3, <2>4, Zenon
  <1> HIDE DEF u
  <1> DEFINE P == {d \in Nat : d \in D => \A l \in Int : u[d][l] \in Seq(Name)}
  <1>15. ASSUME NEW d \in Nat, \A c \in Nat : c < d => c \in P PROVE d \in P
    <2> SUFFICES ASSUME d \in D, NEW l \in Int PROVE u[d][l] \in Seq(Name)
      OBVIOUS
    <2>1. u[d][l] = UpStep(hs, d, l, u)
      BY <1>14
    <2>2. CASE l = 0 \/ d = 0
      BY <2>1, <2>2 DEF UpStep
    <2>3. CASE ~ (l = 0 \/ d = 0)
      <3>1. hs[d].name \in Name /\ Parent(hs, d) \in D /\ Parent(hs, d) < d
        BY <1>3, <2>3
      <3>2. Parent(hs, d) \in Nat /\ l - 1 \in Int
        BY <1>1, <3>1
      <3>3. u[Parent(hs, d)][l - 1] \in Seq(Name)
        BY <1>15, <3>1, <3>2
      <3>4. u[d][l] = <<hs[d].name>> \o u[Parent(hs, d)][l - 1]
        BY <2>1, <2>3 DEF UpStep
      <3> HIDE DEF D, P
      <3> QED
        BY <3>1, <3>3, <3>4
    <2> QED
      BY <2>2, <2>3
  <1>16. Nat \subseteq P
    <2> HIDE DEF P
    <2> QED
      BY <1>15, StrongInduction
  <1>17. \A c \in D, l \in Int : u[c][l] \in Seq(Name)
    BY <1>1, <1>16
  <1> QED
    BY <1>2, <1>14, <1>17 DEF u

\* The headings around heading i that are not parts.
Above(hs, i) ==
    {j \in 1 .. i : /\ j < i
                    /\ \A k \in j + 1 .. i : hs[k].level > hs[j].level
                    /\ hs[j].level > 0}

\* The names of a set of headings, the last heading first.
NamesOf(hs, S) ==
    [k \in DOMAIN Reverse(InOrder(S)) |-> hs[Reverse(InOrder(S))[k]].name]

\* What Asciidoctor has checked of any document when it logs nothing.
InSteps(hs) ==
    \A i \in 1 .. Len(hs) :
        Parent(hs, i) # 0 => hs[i].level = hs[Parent(hs, i)].level + 1

\* Heading i is a part, or one with nothing but a part around it.
OpensBranch(hs, i) ==
    \/ hs[i].level = 0
    \/ Parent(hs, i) = 0
    \/ hs[Parent(hs, i)].level = 0

\* How a sequence with one more element in front is made up.
LEMMA ConsIs ==
    ASSUME NEW S, NEW t \in Seq(S), NEW a \in S, NEW u \in [1 .. Len(t) + 1 -> S],
           u[1] = a, \A k \in 1 .. Len(t) : u[k + 1] = t[k]
    PROVE  u = <<a>> \o t
  <1> DEFINE v == <<a>> \o t
             m == Len(t)
  <1>1. m \in Nat
    OBVIOUS
  <1>2. v \in Seq(S) /\ Len(v) = m + 1 /\ v[1] = a /\ \A k \in 2 .. m + 1 : v[k] = t[k - 1]
    OBVIOUS
  <1>3. u \in Seq(S) /\ Len(u) = m + 1
    BY <1>1
  <1>4. ASSUME NEW k \in 1 .. m + 1 PROVE u[k] = v[k]
    <2>1. CASE k = 1
      BY <1>2, <2>1
    <2>2. CASE k # 1
      <3>1. k \in 2 .. m + 1 /\ k - 1 \in 1 .. m /\ (k - 1) + 1 = k
        BY <1>1, <2>2
      <3>2. u[k] = t[k - 1]
        BY <3>1
      <3> QED
        BY <1>2, <3>1, <3>2
    <2> QED
      BY <2>1, <2>2
  <1> HIDE DEF v
  <1>5. u = v
    BY <1>2, <1>3, <1>4, SeqEqual
  <1> QED
    BY <1>5 DEF v

\* What is around a heading comes before it; nothing is around one that opens a branch.
LEMMA AboveFacts ==
    ASSUME NEW hs \in Seq(Heading), InSteps(hs), NEW i \in 1 .. Len(hs)
    PROVE  /\ Above(hs, i) \in SUBSET (1 .. Len(hs))
           /\ \A x \in Above(hs, i) : x < i /\ hs[x].level > 0
           /\ OpensBranch(hs, i) => Above(hs, i) = {}
  <1>1. Len(hs) \in Nat /\ \A j \in 1 .. i : j \in 1 .. Len(hs)
    BY HeadingFacts
  <1>2. ASSUME NEW j \in Above(hs, i) PROVE ~ OpensBranch(hs, i)
    <2> DEFINE p == Parent(hs, i)
    <2>1. /\ j \in 1 .. Len(hs) /\ j \in 1 .. i - 1
          /\ hs[i].level > hs[j].level /\ hs[j].level > 0
      BY <1>1 DEF Above
    <2>2. hs[j].level \in 0 .. 5 /\ hs[i].level \in 0 .. 5
      BY <2>1, HeadingFacts
    <2>3. p \in 0 .. i - 1 /\ IsParent(Lev(hs), p, i)
      BY ParentFacts
    <2>4. Lev(hs)[j] = hs[j].level /\ Lev(hs)[i] = hs[i].level
      BY <2>1, LevFacts
    <2>5. p # 0 => hs[i].level = hs[p].level + 1
      BY DEF InSteps
    <2> HIDE DEF p
    <2>6. ~ (p < j)
      BY <2>1, <2>2, <2>3, <2>4 DEF IsParent
    <2>7. p # 0
      BY <2>1, <2>6
    <2>8. hs[p].level \in 0 .. 5
      BY <1>1, <2>3, <2>7, HeadingFacts
    <2>9. hs[p].level # 0
      BY <2>1, <2>2, <2>5, <2>7, <2>8
    <2> QED
      BY <2>1, <2>2, <2>7, <2>9 DEF OpensBranch, p
  <1>3. Above(hs, i) \in SUBSET (1 .. Len(hs)) /\ \A x \in Above(hs, i) : x < i /\ hs[x].level > 0
    BY <1>1 DEF Above
  <1> QED
    BY <1>2, <1>3

\* The names of headings, from the last of them to the first.
LEMMA NamesOfFacts ==
    ASSUME NEW hs \in Seq(Heading), NEW S \in SUBSET (1 .. Len(hs))
    PROVE  /\ NamesOf(hs, S) \in Seq(Name)
           /\ Len(NamesOf(hs, S)) = Len(InOrder(S))
           /\ \A k \in 1 .. Len(InOrder(S)) :
                 NamesOf(hs, S)[k] = hs[InOrder(S)[Len(InOrder(S)) - k + 1]].name
           /\ S = {} => NamesOf(hs, S) = <<>>
  <1> DEFINE c == InOrder(S)
             m == Len(c)
             r == Reverse(c)
  <1>1. Len(hs) \in Nat
    BY HeadingFacts
  <1>2. m \in Nat /\ c \in [1 .. m -> S]
    BY <1>1, InOrderFacts
  <1>3. r = [k \in 1 .. m |-> c[m - k + 1]]
    BY DEF Reverse
  <1>4. NamesOf(hs, S) = [k \in DOMAIN r |-> hs[r[k]].name]
    BY DEF NamesOf
  <1> HIDE DEF c, m, r
  <1>5. DOMAIN r = 1 .. m /\ \A k \in 1 .. m : r[k] = c[m - k + 1]
    BY <1>3
  <1>6. NamesOf(hs, S) = [k \in 1 .. m |-> hs[c[m - k + 1]].name]
    BY <1>4, <1>5
  <1>7. ASSUME NEW k \in 1 .. m PROVE hs[c[m - k + 1]].name \in Name
    <2>1. m - k + 1 \in 1 .. m
      BY <1>2
    <2>2. c[m - k + 1] \in S
      BY <1>2, <2>1
    <2>3. c[m - k + 1] \in 1 .. Len(hs)
      BY <2>2
    <2> QED
      BY <2>3, HeadingFacts
  <1>8. NamesOf(hs, S) \in [1 .. m -> Name]
    BY <1>6, <1>7
  <1>9. NamesOf(hs, S) \in Seq(Name) /\ Len(NamesOf(hs, S)) = m
    BY <1>2, <1>8
  <1>10. \A k \in 1 .. m : NamesOf(hs, S)[k] = hs[c[m - k + 1]].name
    BY <1>6
  <1>11. S = {} => m = 0
    BY <1>2
  <1>12. m = 0 => NamesOf(hs, S) = <<>>
    BY <1>9
  <1> QED
    BY <1>9, <1>10, <1>11, <1>12 DEF c, m

\* One heading more below all others is one name more in front.
LEMMA NamesOfStep ==
    ASSUME NEW hs \in Seq(Heading), NEW S \in SUBSET (1 .. Len(hs)), NEW p \in 1 .. Len(hs),
           \A x \in S : x < p
    PROVE  NamesOf(hs, S \cup {p}) = <<hs[p].name>> \o NamesOf(hs, S)
  <1> DEFINE T == S \cup {p}
             c == InOrder(S)
             d == InOrder(T)
             m == Len(c)
             t == NamesOf(hs, S)
             u == NamesOf(hs, T)
  <1>1. Len(hs) \in Nat /\ T \in SUBSET (1 .. Len(hs)) /\ hs[p].name \in Name
    BY HeadingFacts
  <1>2. m \in Nat /\ Len(d) = m + 1 /\ (\A k \in 1 .. m : d[k] = c[k]) /\ d[m + 1] = p
    <2>1. m \in Nat
      BY <1>1, InOrderFacts
    <2> HIDE DEF m
    <2>2. Len(d) = Len(c) + 1 /\ (\A k \in 1 .. Len(c) : d[k] = c[k]) /\ d[Len(c) + 1] = p
      BY <1>1, InOrderAppend
    <2> QED
      BY <2>1, <2>2 DEF m
  <1>3. t \in Seq(Name) /\ Len(t) = m /\ \A k \in 1 .. m : t[k] = hs[c[m - k + 1]].name
    BY NamesOfFacts
  <1>4. /\ u \in Seq(Name) /\ Len(u) = Len(d)
        /\ \A k \in 1 .. Len(d) : u[k] = hs[d[Len(d) - k + 1]].name
    <2> HIDE DEF T
    <2> QED
      BY <1>1, NamesOfFacts
  <1> HIDE DEF T, c, d, m, t, u
  <1>5. u \in [1 .. Len(t) + 1 -> Name]
    BY <1>2, <1>3, <1>4
  <1>6. u[1] = hs[p].name
    <2>1. 1 \in 1 .. Len(d) /\ Len(d) - 1 + 1 = m + 1
      BY <1>2
    <2> QED
      BY <1>2, <1>4, <2>1
  <1>7. ASSUME NEW k \in 1 .. Len(t) PROVE u[k + 1] = t[k]
    <2>1. /\ k \in 1 .. m /\ k + 1 \in 1 .. Len(d)
          /\ Len(d) - (k + 1) + 1 = m - k + 1 /\ m - k + 1 \in 1 .. m
      BY <1>2, <1>3
    <2>2. u[k + 1] = hs[d[m - k + 1]].name
      BY <1>4, <2>1
    <2>3. d[m - k + 1] = c[m - k + 1]
      BY <1>2, <2>1
    <2> QED
      BY <1>3, <2>1, <2>2, <2>3
  <1>8. u = <<hs[p].name>> \o t
    BY <1>1, <1>3, <1>5, <1>6, <1>7, ConsIs
  <1> QED
    BY <1>8 DEF u, t, T

\* Heading t is the one at the top of the branch that i is on.
IsTop(hs, t, i) ==
    /\ OpensBranch(hs, t)
    /\ t \in Above(hs, i) \cup {i}
    /\ \A k \in Above(hs, i) \cup {i} : t <= k

\* The walk from i finds the headings around i, the last one is at the top, and their
\* number fits the levels.
WalkIsRight(hs, i) ==
    /\ walk(hs, i) \in Seq(Name)
    /\ walk(hs, i) = NamesOf(hs, Above(hs, i))
    /\ \E t \in 1 .. i : /\ IsTop(hs, t, i)
                         /\ Len(walk(hs, i)) = hs[i].level - hs[t].level
                         /\ IF walk(hs, i) = <<>> THEN t = i ELSE Last(walk(hs, i)) = hs[t].name

\* The parent of a heading that opens no branch, in a document without warnings.
LEMMA ParentInSteps ==
    ASSUME NEW hs \in Seq(Heading), InSteps(hs), NEW i \in 1 .. Len(hs), ~ OpensBranch(hs, i),
           NEW p, p = Parent(hs, i)
    PROVE  /\ p \in 1 .. Len(hs) /\ p < i
           /\ hs[p].level = hs[i].level - 1 /\ hs[p].level # 0
           /\ \A k \in p + 1 .. i - 1 : hs[k].level >= hs[i].level
  <1>1. Len(hs) \in Nat /\ hs[i].level \in 0 .. 5
    BY HeadingFacts
  <1>2. p \in 0 .. i - 1 /\ IsParent(Lev(hs), p, i)
    BY ParentFacts
  <1>3. p # 0 => hs[i].level = hs[p].level + 1
    BY DEF InSteps
  <1>4. p # 0 /\ hs[p].level # 0
    BY DEF OpensBranch
  <1>5. p \in 1 .. Len(hs) /\ p < i
    BY <1>1, <1>2, <1>4
  <1>6. hs[p].level \in 0 .. 5
    BY <1>5, HeadingFacts
  <1>7. hs[p].level = hs[i].level - 1 /\ hs[p].level # 0
    BY <1>1, <1>3, <1>4, <1>6
  <1>8. ASSUME NEW k \in p + 1 .. i - 1 PROVE hs[k].level >= hs[i].level
    <2>1. k \in 1 .. Len(hs)
      BY <1>1, <1>5
    <2>2. Lev(hs)[k] = hs[k].level /\ Lev(hs)[i] = hs[i].level
      BY <2>1, LevFacts
    <2> QED
      BY <1>2, <2>2 DEF IsParent
  <1> QED
    BY <1>5, <1>7, <1>8

\* What is around a heading is around its parent, or is the parent.
LEMMA AboveStep ==
    ASSUME NEW hs \in Seq(Heading), InSteps(hs), NEW i \in 1 .. Len(hs), ~ OpensBranch(hs, i),
           NEW p, p = Parent(hs, i)
    PROVE  Above(hs, i) = Above(hs, p) \cup {p}
  <1>1. /\ p \in 1 .. Len(hs) /\ p < i
        /\ hs[p].level = hs[i].level - 1 /\ hs[p].level # 0
        /\ \A k \in p + 1 .. i - 1 : hs[k].level >= hs[i].level
    BY ParentInSteps
  <1>2. Len(hs) \in Nat /\ \A k \in 1 .. Len(hs) : hs[k].level \in 0 .. 5
    BY HeadingFacts
  <1>3. \A k \in p + 1 .. i : k \in 1 .. Len(hs) /\ hs[k].level > hs[p].level
    <2> SUFFICES ASSUME NEW k \in p + 1 .. i PROVE k \in 1 .. Len(hs) /\ hs[k].level > hs[p].level
      OBVIOUS
    <2>1. k \in 1 .. Len(hs)
      BY <1>1, <1>2
    <2>2. k = i \/ k \in p + 1 .. i - 1
      BY <1>1
    <2>3. hs[k].level >= hs[i].level
      <3>1. hs[i].level >= hs[i].level
        BY <1>2
      <3> QED
        BY <1>1, <2>2, <3>1
    <2>4. hs[k].level \in Int /\ hs[i].level \in Int /\ hs[p].level = hs[i].level - 1
      <3>1. hs[k].level \in 0 .. 5
        BY ONLY <1>2, <2>1
      <3>2. hs[i].level \in 0 .. 5
        BY ONLY <1>2, i \in 1 .. Len(hs)
      <3> QED
        BY ONLY <1>1, <3>1, <3>2
    <2>5. hs[k].level > hs[p].level
      BY <2>3, <2>4
    <2> QED
      BY <2>1, <2>5
  <1>4. p \in Above(hs, i)
    <2>1. p \in 1 .. i /\ hs[p].level > 0
      BY <1>1, <1>2
    <2> QED
      BY <1>1, <1>3, <2>1 DEF Above
  <1>5. ASSUME NEW j \in Above(hs, p) PROVE j \in Above(hs, i)
    <2>1. /\ j \in 1 .. p /\ j < p /\ hs[j].level > 0
          /\ \A k \in j + 1 .. p : hs[k].level > hs[j].level
      BY DEF Above
    <2>2. j \in 1 .. i /\ j < i /\ j \in 1 .. Len(hs) /\ p \in j + 1 .. p
      BY <1>1, <1>2, <2>1
    <2>3. ASSUME NEW k \in j + 1 .. i PROVE hs[k].level > hs[j].level
      <3>1. CASE k \in j + 1 .. p
        BY <2>1, <3>1
      <3>2. CASE k \in p + 1 .. i
        <4>1. k \in 1 .. Len(hs) /\ hs[k].level > hs[p].level /\ hs[p].level > hs[j].level
          BY <1>3, <2>1, <2>2, <3>2
        <4>2. hs[k].level \in Int /\ hs[p].level \in Int /\ hs[j].level \in Int
          BY <1>1, <1>2, <2>2, <4>1
        <4> QED
          BY <4>1, <4>2
      <3> QED
        BY <1>1, <2>2, <3>1, <3>2
    <2> QED
      BY <2>1, <2>2, <2>3 DEF Above
  <1>6. ASSUME NEW j \in Above(hs, i), j # p PROVE j \in Above(hs, p)
    <2>1. /\ j \in 1 .. i /\ j < i /\ hs[j].level > 0
          /\ \A k \in j + 1 .. i : hs[k].level > hs[j].level
      BY DEF Above
    <2>2. j \in 1 .. Len(hs) /\ i \in j + 1 .. i
      BY <1>2, <2>1
    <2>3. ~ (p < j)
      <3> SUFFICES ASSUME p < j PROVE FALSE
        OBVIOUS
      <3>1. j \in p + 1 .. i - 1
        BY <1>1, <2>1
      <3>2. hs[j].level >= hs[i].level /\ hs[i].level > hs[j].level
        BY <1>1, <2>1, <2>2, <3>1
      <3> QED
        BY <1>2, <2>2, <3>2
    <2>4. j < p /\ j \in 1 .. p /\ \A k \in j + 1 .. p : k \in j + 1 .. i
      BY <1>1, <1>6, <2>1, <2>3
    <2> QED
      BY <2>1, <2>4 DEF Above
  <1> QED
    BY <1>4, <1>5, <1>6

\* The walk goes to the parent, and from there one level less far.
LEMMA WalkStep ==
    ASSUME NEW hs \in Seq(Heading), InSteps(hs), NEW i \in 1 .. Len(hs), ~ OpensBranch(hs, i),
           NEW p, p = Parent(hs, i)
    PROVE  walk(hs, i) = <<hs[p].name>> \o walk(hs, p)
  <1>1. p \in 1 .. Len(hs) /\ hs[p].level = hs[i].level - 1 /\ hs[p].level # 0
    BY ParentInSteps
  <1>2. Len(hs) \in Nat /\ hs[i].level \in 0 .. 5
    BY HeadingFacts
  <1> DEFINE l == hs[i].level - 1
  <1>3. walk(hs, i) = Up(hs)[p][l]
    BY UpFacts
  <1>4. walk(hs, p) = Up(hs)[Parent(hs, p)][l - 1]
    BY <1>1, UpFacts
  <1>5. l \in Int /\ l # 0 /\ p \in 0 .. Len(hs) /\ p # 0
    BY <1>1, <1>2
  <1> HIDE DEF l
  <1>6. Up(hs)[p][l] = UpStep(hs, p, l, Up(hs))
    BY <1>5, UpFacts
  <1> QED
    BY <1>3, <1>4, <1>5, <1>6 DEF UpStep

\* A heading that opens a branch has no parents.
LEMMA WalkOfTop ==
    ASSUME NEW hs \in Seq(Heading), InSteps(hs), NEW i \in 1 .. Len(hs), OpensBranch(hs, i)
    PROVE  walk(hs, i) = <<>>
  <1>1. Len(hs) \in Nat /\ hs[i].level \in 0 .. 5
    BY HeadingFacts
  <1>2. Parent(hs, i) \in 0 .. i - 1 /\ IsParent(Lev(hs), Parent(hs, i), i)
    BY ParentFacts
  <1> DEFINE p == Parent(hs, i)
             l == hs[i].level - 1
  <1>3. walk(hs, i) = Up(hs)[p][l]
    BY UpFacts
  <1>4. p \in 0 .. Len(hs) /\ l \in Int
    BY <1>1, <1>2
  <1>5. l = 0 \/ p = 0
    <2>1. CASE p # 0 /\ hs[p].level = 0
      BY <2>1 DEF InSteps
    <2>2. CASE hs[i].level = 0
      <3>1. ASSUME p # 0 PROVE FALSE
        <4>1. p \in 1 .. Len(hs)
          BY <1>4, <3>1
        <4>2. Lev(hs)[p] \in 0 .. 5 /\ Lev(hs)[i] = 0
          BY <2>2, <4>1, LevFacts
        <4>3. Lev(hs)[p] < Lev(hs)[i]
          BY <1>2 DEF IsParent
        <4> QED
          BY <4>2, <4>3
      <3> QED
        BY <3>1
    <2> QED
      BY <2>1, <2>2 DEF OpensBranch
  <1> HIDE DEF p, l
  <1>6. Up(hs)[p][l] = UpStep(hs, p, l, Up(hs))
    BY <1>4, UpFacts
  <1> QED
    BY <1>3, <1>5, <1>6 DEF UpStep

\* By induction over the source: the walk is right for every heading.
LEMMA WalkOfDocument ==
    ASSUME NEW hs \in Seq(Heading), InSteps(hs)
    PROVE  \A i \in 1 .. Len(hs) : WalkIsRight(hs, i)
  <1> DEFINE P == {d \in Nat : d \in 1 .. Len(hs) => WalkIsRight(hs, d)}
  <1>1. Len(hs) \in Nat /\ \A k \in 1 .. Len(hs) : hs[k].level \in 0 .. 5 /\ hs[k].name \in Name
    BY HeadingFacts
  <1>2. ASSUME NEW i \in Nat, \A c \in Nat : c < i => c \in P PROVE i \in P
    <2> SUFFICES ASSUME i \in 1 .. Len(hs) PROVE WalkIsRight(hs, i)
      OBVIOUS
    <2>1. CASE OpensBranch(hs, i)
      <3>1. walk(hs, i) = <<>> /\ Above(hs, i) = {}
        BY <2>1, WalkOfTop, AboveFacts
      <3>2. NamesOf(hs, Above(hs, i)) = <<>>
        BY <3>1, NamesOfFacts
      <3>3. walk(hs, i) \in Seq(Name) /\ Len(walk(hs, i)) = 0
        BY <3>1
      <3>4. Len(walk(hs, i)) = hs[i].level - hs[i].level
        BY <1>1, <3>3
      <3>5. i \in 1 .. i /\ IsTop(hs, i, i)
        BY <2>1, <3>1 DEF IsTop
      <3> QED
        BY <3>1, <3>2, <3>3, <3>4, <3>5 DEF WalkIsRight
    <2>2. CASE ~ OpensBranch(hs, i)
      <3> DEFINE p == Parent(hs, i)
                 u == walk(hs, p)
                 w == walk(hs, i)
      <3>1. /\ p \in 1 .. Len(hs) /\ p < i
            /\ hs[p].level = hs[i].level - 1 /\ hs[p].level # 0
            /\ \A k \in p + 1 .. i - 1 : hs[k].level >= hs[i].level
        BY <2>2, ParentInSteps
      <3>2. Above(hs, i) = Above(hs, p) \cup {p}
        BY <2>2, AboveStep
      <3>3. w = <<hs[p].name>> \o u
        BY <2>2, WalkStep
      <3> HIDE DEF p
      <3>4. WalkIsRight(hs, p)
        <4>1. p \in Nat
          BY <3>1
        <4> QED
          BY <1>2, <3>1, <4>1
      <3>5. u \in Seq(Name) /\ u = NamesOf(hs, Above(hs, p))
        BY <3>4 DEF WalkIsRight
      <3>6. NamesOf(hs, Above(hs, i)) = <<hs[p].name>> \o NamesOf(hs, Above(hs, p))
        <4>1. Above(hs, p) \in SUBSET (1 .. Len(hs)) /\ \A x \in Above(hs, p) : x < p
          BY <3>1, AboveFacts
        <4> QED
          BY <3>1, <3>2, <4>1, NamesOfStep
      <3>7. PICK t \in 1 .. p : /\ IsTop(hs, t, p)
                                /\ Len(u) = hs[p].level - hs[t].level
                                /\ IF u = <<>> THEN t = p ELSE Last(u) = hs[t].name
        BY <3>4 DEF WalkIsRight
      <3> HIDE DEF u, w
      <3>8. /\ hs[p].name \in Name /\ hs[p].level \in 0 .. 5 /\ hs[i].level \in 0 .. 5
            /\ hs[t].level \in 0 .. 5
        BY <1>1, <3>1
      <3>9. w \in Seq(Name) /\ Len(w) = Len(u) + 1 /\ w # <<>>
        BY <3>3, <3>5, <3>8
      <3>10. Len(w) = hs[i].level - hs[t].level
        BY <3>1, <3>7, <3>8, <3>9
      <3>11. t \in 1 .. i /\ IsTop(hs, t, i)
        <4>1. /\ OpensBranch(hs, t) /\ t \in Above(hs, p) \cup {p}
              /\ \A k \in Above(hs, p) \cup {p} : t <= k
          BY <3>7 DEF IsTop
        <4>2. Above(hs, i) \cup {i} = (Above(hs, p) \cup {p}) \cup {i}
          BY <3>2
        <4>3. t <= i /\ t \in 1 .. i
          BY <3>1
        <4> QED
          BY <4>1, <4>2, <4>3 DEF IsTop
      <3>12. Last(w) = hs[t].name
        <4>1. CASE u = <<>>
          <5>1. Len(w) = 1 /\ w[1] = hs[p].name /\ t = p
            BY <3>3, <3>7, <3>8, <4>1
          <5> QED
            BY <5>1 DEF Last
        <4>2. CASE u # <<>>
          <5>1. Len(u) \in Nat /\ Len(u) # 0
            BY <3>5, <4>2
          <5>2. w[Len(u) + 1] = u[Len(u)]
            <6> DEFINE a == <<hs[p].name>>
            <6>1. a \in Seq(Name) /\ Len(a) = 1
              BY <3>8
            <6>2. w = a \o u /\ u \in Seq(Name)
              BY <3>3, <3>5
            <6>3. /\ Len(u) + 1 \in 1 .. Len(a) + Len(u) /\ ~ (Len(u) + 1 <= Len(a))
                  /\ Len(u) + 1 - Len(a) = Len(u)
              BY <5>1, <6>1
            <6> HIDE DEF a
            <6>4. \A k \in 1 .. Len(a) + Len(u) : w[k] = IF k <= Len(a) THEN a[k] ELSE u[k - Len(a)]
              BY <6>1, <6>2, ConcatProperties
            <6> QED
              BY <6>3, <6>4
          <5> QED
            BY <3>7, <3>9, <4>2, <5>2 DEF Last
        <4> QED
          BY <4>1, <4>2
      <3> QED
        BY <3>3, <3>5, <3>6, <3>9, <3>10, <3>11, <3>12 DEF WalkIsRight, w
    <2> QED
      BY <2>1, <2>2
  <1>3. Nat \subseteq P
    <2> HIDE DEF P
    <2> QED
      BY <1>2, StrongInduction
  <1> QED
    BY <1>1, <1>3

-----------------------------------------------------------------------------
(* The title. *)

\* An element below all of a set is its minimum.
LEMMA MinimumIs ==
    ASSUME NEW I, NEW x \in I, I \subseteq Int, \A y \in I : x <= y
    PROVE  Min(I) = x
  <1> DEFINE m == CHOOSE z \in I : \A y \in I : z <= y
  <1>1. m \in I /\ \A y \in I : m <= y
    OBVIOUS
  <1>2. m \in Int /\ x \in Int /\ m <= x /\ x <= m
    BY <1>1
  <1>3. m = x
    BY <1>2
  <1> QED
    BY <1>3 DEF Min

\* An element above all of a set is its maximum.
LEMMA MaximumIs ==
    ASSUME NEW I, NEW x \in I, I \subseteq Int, \A y \in I : x >= y
    PROVE  Max(I) = x
  <1> DEFINE m == CHOOSE z \in I : \A y \in I : z >= y
  <1>1. m \in I /\ \A y \in I : m >= y
    OBVIOUS
  <1>2. m \in Int /\ x \in Int /\ m >= x /\ x >= m
    BY <1>1
  <1>3. m = x
    BY <1>2
  <1> QED
    BY <1>3 DEF Max

\* The types of names.
LEMMA NameFacts ==
    ASSUME NEW t \in Name
    PROVE  /\ t \in Seq(Atom) /\ DOMAIN t = 1 .. Len(t) /\ Len(t) \in Nat
           /\ \A k \in 1 .. Len(t) : t[k] \in Atom
  <1>1. t \in Seq(Atom)
    BY DEF Name
  <1> QED
    BY <1>1, LenProperties, ElementOfSeq

\* The name without atoms.
LEMMA EmptyName == <<>> \in Name
  <1>1. <<>> \in Seq(Atom)
    BY EmptySeq
  <1> QED
    BY <1>1 DEF Name

\* trim keeps what is between the first and the last atom that is not a space.
LEMMA TrimIs ==
    ASSUME NEW t \in Name, NEW a \in 1 .. Len(t), NEW b \in 1 .. Len(t),
           IsText(t[a]), IsText(t[b]),
           \A k \in 1 .. Len(t) : IsText(t[k]) => a <= k /\ k <= b
    PROVE  trim(t) = SubSeq(t, a, b)
  <1> DEFINE I == {k \in 1 .. Len(t) : IsText(t[k])}
  <1>1. DOMAIN t = 1 .. Len(t) /\ Len(t) \in Nat
    BY NameFacts
  <1>2. \E k \in DOMAIN t : IsText(t[k])
    BY <1>1
  <1>3. a \in I /\ b \in I /\ I \subseteq Int /\ (\A y \in I : a <= y) /\ (\A y \in I : b >= y)
    OBVIOUS
  <1>4. SelectInSeq(t, IsText) = Min(I)
    <2>1. SelectInSeq(t, IsText) = IF I # {} THEN Min(I) ELSE 0
      BY DEF SelectInSeq
    <2> HIDE DEF I
    <2> QED
      BY <1>3, <2>1
  <1>5. SelectLastInSubSeq(t, 1, Len(t), IsText) = Max(I)
    <2>1. SelectLastInSubSeq(t, 1, Len(t), IsText) = IF I # {} THEN Max(I) ELSE 0
      BY DEF SelectLastInSubSeq
    <2> HIDE DEF I
    <2> QED
      BY <1>3, <2>1
  <1> HIDE DEF I
  <1>6. Min(I) = a /\ Max(I) = b
    BY <1>3, MinimumIs, MaximumIs
  <1>7. trim(t) = SubSeq(t, SelectInSeq(t, IsText), SelectLastInSubSeq(t, 1, Len(t), IsText))
    BY <1>2 DEF trim
  <1> QED
    BY <1>4, <1>5, <1>6, <1>7

\* trim returns a name.
LEMMA TrimType ==
    ASSUME NEW t \in Name
    PROVE  trim(t) \in Name
  <1> DEFINE I == {k \in 1 .. Len(t) : IsText(t[k])}
  <1>1. DOMAIN t = 1 .. Len(t) /\ Len(t) \in Nat /\ (\A k \in 1 .. Len(t) : t[k] \in Atom)
    BY NameFacts
  <1>2. CASE I = {}
    <2>1. ~ \E k \in DOMAIN t : IsText(t[k])
      BY <1>1, <1>2
    <2> QED
      BY <2>1, EmptyName DEF trim
  <1>3. CASE I # {}
    <2>1. I \subseteq Nat /\ I \subseteq 0 .. Len(t)
      OBVIOUS
    <2>2. PICK a \in I : \A y \in I : a <= y
      <3> HIDE DEF I
      <3> QED
        BY <1>3, <2>1, Least
    <2>3. PICK b \in I : \A y \in I : b >= y
      <3> HIDE DEF I
      <3> QED
        BY <1>1, <1>3, <2>1, Greatest
    <2>4. a \in 1 .. Len(t) /\ b \in 1 .. Len(t) /\ IsText(t[a]) /\ IsText(t[b])
      OBVIOUS
    <2>5. \A k \in 1 .. Len(t) : IsText(t[k]) => a <= k /\ k <= b
      BY <2>2, <2>3
    <2>6. trim(t) = SubSeq(t, a, b)
      BY <2>4, <2>5, TrimIs
    <2>7. \A k \in a .. b : t[k] \in Atom
      BY <1>1, <2>4
    <2>8. SubSeq(t, a, b) \in Seq(Atom)
      BY <2>4, <2>7, SubSeqProperties
    <2> QED
      BY <2>6, <2>8 DEF Name
  <1> QED
    BY <1>2, <1>3

\* What is returned begins after the first space, which is at c.
LEMMA AfterFirstSpaceIs ==
    ASSUME NEW t \in Name, NEW c \in 1 .. Len(t), IsSpace(t[c]),
           \A k \in 1 .. Len(t) : IsSpace(t[k]) => c <= k
    PROVE  afterFirstSpace(t) = SubSeq(t, c + 1, Len(t))
  <1> DEFINE I == {k \in 1 .. Len(t) : IsSpace(t[k])}
  <1>1. Contains(t, " ")
    BY DEF Contains, IsSpace
  <1>2. c \in I /\ I \subseteq Int /\ \A y \in I : c <= y
    OBVIOUS
  <1>3. SelectInSeq(t, IsSpace) = Min(I)
    <2>1. SelectInSeq(t, IsSpace) = IF I # {} THEN Min(I) ELSE 0
      BY DEF SelectInSeq
    <2> HIDE DEF I
    <2> QED
      BY <1>2, <2>1
  <1> HIDE DEF I
  <1>4. Min(I) = c
    BY <1>2, MinimumIs
  <1> QED
    BY <1>1, <1>3, <1>4 DEF afterFirstSpace

\* A name after its first space is a name.
LEMMA AfterFirstSpaceType ==
    ASSUME NEW t \in Name
    PROVE  afterFirstSpace(t) \in Name
  <1> DEFINE I == {k \in 1 .. Len(t) : IsSpace(t[k])}
  <1>1. DOMAIN t = 1 .. Len(t) /\ Len(t) \in Nat /\ (\A k \in 1 .. Len(t) : t[k] \in Atom)
    BY NameFacts
  <1>2. CASE I = {}
    <2>1. ~ Contains(t, " ")
      BY <1>2 DEF Contains, IsSpace
    <2> QED
      BY <2>1, EmptyName DEF afterFirstSpace
  <1>3. CASE I # {}
    <2>1. I \subseteq Nat
      OBVIOUS
    <2>2. PICK c \in I : \A y \in I : c <= y
      <3> HIDE DEF I
      <3> QED
        BY <1>3, <2>1, Least
    <2>3. c \in 1 .. Len(t) /\ IsSpace(t[c]) /\ \A k \in 1 .. Len(t) : IsSpace(t[k]) => c <= k
      BY <2>2
    <2>4. afterFirstSpace(t) = SubSeq(t, c + 1, Len(t))
      BY <2>3, AfterFirstSpaceIs
    <2>5. \A k \in c + 1 .. Len(t) : t[k] \in Atom
      BY <1>1, <2>3
    <2>6. SubSeq(t, c + 1, Len(t)) \in Seq(Atom)
      <3> DEFINE a == c + 1
                 b == Len(t)
      <3>1. a \in Int /\ b \in Int /\ \A k \in a .. b : t[k] \in Atom
        BY <1>1, <2>3, <2>5
      <3> HIDE DEF a, b
      <3>2. SubSeq(t, a, b) \in Seq(Atom)
        BY <3>1, SubSeqProperties
      <3> QED
        BY <3>2 DEF a, b
    <2> QED
      BY <2>4, <2>6 DEF Name
  <1> QED
    BY <1>2, <1>3

\* A sequence is within another one only if its first element is.
LEMMA NotWithin ==
    ASSUME NEW t \in Name, NEW s, NEW a, s[1] = a, Len(s) \in Nat \ {0},
           \A k \in 1 .. Len(t) : t[k] # a
    PROVE  s \notin SubSeqs(t)
  <1> SUFFICES ASSUME s \in SubSeqs(t) PROVE FALSE
    OBVIOUS
  <1>1. PICK i \in 0 .. Len(t), j \in 0 .. Len(t) : s = SubSeq(t, i + 1, j)
    BY DEF SubSeqs
  <1>2. Len(t) \in Nat /\ \A k \in 1 .. Len(t) : t[k] \in Atom
    BY NameFacts
  <1> DEFINE m == i + 1
  <1>3. m \in Int /\ j \in Int /\ \A k \in m .. j : t[k] \in Atom
    BY <1>2
  <1>4. m \in 1 .. Len(t) + 1 /\ (m <= j => m \in 1 .. Len(t)) /\ s = SubSeq(t, m, j)
    BY <1>1, <1>2
  <1> HIDE DEF m
  <1>5. /\ Len(SubSeq(t, m, j)) = IF m <= j THEN j - m + 1 ELSE 0
        /\ \A k \in 1 .. j - m + 1 : SubSeq(t, m, j)[k] = t[m + k - 1]
    BY <1>3, SubSeqProperties
  <1>6. m <= j
    BY <1>4, <1>5
  <1>7. 1 \in 1 .. j - m + 1 /\ m + 1 - 1 = m
    BY <1>3, <1>6
  <1>8. s[1] = t[m] /\ m \in 1 .. Len(t)
    BY <1>4, <1>5, <1>6, <1>7
  <1> QED
    BY <1>8

\* Sequences of one and the same element are equal.
LEMMA SameOneElement ==
    ASSUME NEW S, NEW u \in Seq(S), NEW v \in Seq(S), Len(u) = 1, Len(v) = 1, u[1] = v[1]
    PROVE  u = v
  <1>1. Len(u) = Len(v)
    OBVIOUS
  <1>2. ASSUME NEW k \in 1 .. Len(u) PROVE u[k] = v[k]
    <2>1. k = 1
      OBVIOUS
    <2> QED
      BY <2>1
  <1> QED
    BY <1>1, <1>2, SeqEqual

\* Every sequence is a part of itself.
LEMMA WithinItself ==
    ASSUME NEW t \in Name
    PROVE  t \in SubSeqs(t)
  <1>1. t \in Seq(Atom) /\ Len(t) \in Nat
    BY NameFacts
  <1>2. SubSeq(t, 1, Len(t)) = t
    BY <1>1, SubSeqFull
  <1> DEFINE n == Len(t)
             m == 0 + 1
  <1>3. 0 \in 0 .. n /\ n \in 0 .. n /\ m = 1
    BY <1>1
  <1> HIDE DEF n, m
  <1>4. SubSeq(t, m, n) = t
    BY <1>2, <1>3 DEF n
  <1>5. SubSeq(t, 0 + 1, n) = t
    BY <1>4 DEF m
  <1> QED
    BY <1>3, <1>5 DEF SubSeqs, n

\* Where the first occurrence of s ends.
EndsBy(s, t) == {i \in 0 .. Len(t) : s \in SubSeqs(SubSeq(t, 1, i))}

\* What is left when the first occurrence of s is taken out of t: what comes before
\* and what comes after it.
LEMMA RemoveFirstOccurrence ==
    ASSUME NEW t \in Name, NEW s, Len(s) \in Nat, s \in SubSeqs(t)
    PROVE  \E i \in EndsBy(s, t) :
              /\ \A j \in EndsBy(s, t) : i <= j
              /\ ReplaceFirstSubSeq(<<>>, s, t)
                     = SubSeq(t, 1, (i - (Len(s) - 1)) - 1) \o <<>>
                           \o SubSeq(t, (i - (Len(s) - 1)) + Len(s), Len(t))
  <1> DEFINE I == EndsBy(s, t)
             last == CHOOSE i \in 0 .. Len(t) :
                         /\ s \in SubSeqs(SubSeq(t, 1, i))
                         /\ \A j \in 0 .. i - 1 : s \notin SubSeqs(SubSeq(t, 1, j))
  <1>1. t \in Seq(Atom) /\ Len(t) \in Nat
    BY NameFacts
  <1>2. SubSeq(t, 1, Len(t)) = t
    BY <1>1, SubSeqFull
  <1>3. Len(t) \in I /\ I \subseteq Nat
    <2>1. s \in SubSeqs(SubSeq(t, 1, Len(t)))
      BY <1>2
    <2>2. Len(t) \in 0 .. Len(t)
      BY <1>1
    <2>3. I \subseteq 0 .. Len(t)
      BY DEF EndsBy
    <2>4. Len(t) \in I
      BY <2>1, <2>2 DEF EndsBy
    <2> HIDE DEF I
    <2> QED
      BY <2>3, <2>4
  <1>4. PICK x \in I : \A y \in I : x <= y
    <2> HIDE DEF I
    <2> QED
      BY <1>3, Least
  <1>5. /\ x \in 0 .. Len(t) /\ s \in SubSeqs(SubSeq(t, 1, x))
        /\ \A j \in 0 .. x - 1 : s \notin SubSeqs(SubSeq(t, 1, j))
    <2>1. x \in 0 .. Len(t) /\ s \in SubSeqs(SubSeq(t, 1, x))
      BY <1>4 DEF EndsBy
    <2>2. ASSUME NEW j \in 0 .. x - 1 PROVE s \notin SubSeqs(SubSeq(t, 1, j))
      <3>1. j \in 0 .. Len(t) /\ ~ (x <= j)
        BY <1>1, <2>1
      <3>2. j \notin I
        <4> HIDE DEF I
        <4> QED
          BY <1>4, <3>1
      <3> QED
        BY <3>1, <3>2 DEF EndsBy
    <2> QED
      BY <2>1, <2>2
  <1>6. /\ last \in 0 .. Len(t) /\ s \in SubSeqs(SubSeq(t, 1, last))
        /\ \A j \in 0 .. last - 1 : s \notin SubSeqs(SubSeq(t, 1, j))
    BY <1>5
  <1>7. IndexFirstSubSeq(s, t) = last - (Len(s) - 1)
    BY DEF IndexFirstSubSeq
  <1> HIDE DEF last
  <1>8. last \in I
    BY <1>6 DEF EndsBy
  <1>9. \A j \in I : last <= j
    <2> SUFFICES ASSUME NEW j \in I, ~ (last <= j) PROVE FALSE
      OBVIOUS
    <2>1. j \in 0 .. Len(t) /\ s \in SubSeqs(SubSeq(t, 1, j))
      BY DEF EndsBy
    <2>2. j \in 0 .. last - 1
      BY <1>1, <1>6, <2>1
    <2> QED
      BY <1>6, <2>1, <2>2
  <1>10. ReplaceFirstSubSeq(<<>>, s, t)
            = SubSeq(t, 1, (last - (Len(s) - 1)) - 1) \o <<>>
                 \o SubSeq(t, (last - (Len(s) - 1)) + Len(s), Len(t))
    BY <1>7 DEF ReplaceFirstSubSeq, ReplaceSubSeqAt
  <1> QED
    BY <1>8, <1>9, <1>10

\* A part of a name is a name.
LEMMA SubSeqOfName ==
    ASSUME NEW t \in Name, NEW a \in Int, NEW b \in Int, 1 <= a, b <= Len(t)
    PROVE  SubSeq(t, a, b) \in Name
  <1>1. Len(t) \in Nat /\ \A k \in 1 .. Len(t) : t[k] \in Atom
    BY NameFacts
  <1>2. \A k \in a .. b : t[k] \in Atom
    BY <1>1
  <1>3. SubSeq(t, a, b) \in Seq(Atom)
    BY <1>2, SubSeqProperties
  <1> QED
    BY <1>3 DEF Name

\* A name from which something is removed is a name.
LEMMA RemoveType ==
    ASSUME NEW t \in Name, NEW s, Len(s) \in Nat
    PROVE  ReplaceFirstSubSeq(<<>>, s, t) \in Name
  <1>1. CASE s \notin SubSeqs(t)
    BY <1>1 DEF ReplaceFirstSubSeq
  <1>2. CASE s \in SubSeqs(t)
    <2>1. PICK i \in EndsBy(s, t) :
              ReplaceFirstSubSeq(<<>>, s, t)
                  = SubSeq(t, 1, (i - (Len(s) - 1)) - 1) \o <<>>
                        \o SubSeq(t, (i - (Len(s) - 1)) + Len(s), Len(t))
      BY <1>2, RemoveFirstOccurrence
    <2>2. Len(t) \in Nat /\ i \in 0 .. Len(t)
      BY NameFacts DEF EndsBy
    <2> DEFINE a == (i - (Len(s) - 1)) - 1
               b == (i - (Len(s) - 1)) + Len(s)
               n == Len(t)
    <2>3. a \in Int /\ b \in Int /\ n \in Int /\ 1 \in Int /\ a <= Len(t) /\ 1 <= b /\ n <= Len(t)
      BY <2>2
    <2>4. ReplaceFirstSubSeq(<<>>, s, t) = SubSeq(t, 1, a) \o <<>> \o SubSeq(t, b, n)
      BY <2>1
    <2> HIDE DEF a, b, n
    <2>5. SubSeq(t, 1, a) \in Name /\ SubSeq(t, b, n) \in Name
      <3>1. 1 <= 1
        OBVIOUS
      <3> QED
        BY <2>3, <3>1, SubSeqOfName
    <2>6. SubSeq(t, 1, a) \o <<>> \o SubSeq(t, b, n) \in Seq(Atom)
      BY <2>5 DEF Name
    <2> QED
      BY <2>4, <2>6 DEF Name
  <1> QED
    BY <1>1, <1>2

\* An atom at the beginning is removed there.
LEMMA RemoveFromStart ==
    ASSUME NEW t \in Name, t # <<>>, NEW s, s = <<t[1]>>
    PROVE  ReplaceFirstSubSeq(<<>>, s, t) = SubSeq(t, 2, Len(t))
  <1>1. t \in Seq(Atom) /\ Len(t) \in Nat \ {0} /\ t[1] \in Atom
    <2>1. t \in Seq(Atom) /\ Len(t) \in Nat /\ \A k \in 1 .. Len(t) : t[k] \in Atom
      BY NameFacts
    <2> QED
      BY <2>1
  <1>2. Len(s) = 1 /\ s[1] = t[1] /\ s # <<>>
    OBVIOUS
  <1>3. SubSeq(t, 1, 1) = s
    <2>1. /\ SubSeq(t, 1, 1) \in Seq(Atom) /\ Len(SubSeq(t, 1, 1)) = 1
          /\ SubSeq(t, 1, 1)[1] = t[1]
      <3>1. \A k \in 1 .. 1 : t[k] \in Atom
        BY <1>1
      <3>2. /\ SubSeq(t, 1, 1) \in Seq(Atom)
            /\ Len(SubSeq(t, 1, 1)) = IF 1 <= 1 THEN 1 - 1 + 1 ELSE 0
            /\ \A i \in 1 .. 1 - 1 + 1 : SubSeq(t, 1, 1)[i] = t[1 + i - 1]
        BY <3>1, SubSeqProperties
      <3> QED
        BY <3>2
    <2>2. s \in Seq(Atom)
      BY <1>1
    <2> QED
      BY <1>2, <2>1, <2>2, SameOneElement
  <1>4. s \in Name
    BY <1>1 DEF Name
  <1>5. s \in SubSeqs(s)
    BY <1>4, WithinItself
  <1>6. 1 \in EndsBy(s, t)
    <2>1. s \in SubSeqs(SubSeq(t, 1, 1))
      BY <1>3, <1>5
    <2>2. 1 \in 0 .. Len(t)
      BY <1>1
    <2> QED
      BY <2>1, <2>2 DEF EndsBy
  <1>7. 0 \notin EndsBy(s, t)
    <2>1. SubSeq(t, 1, 0) = <<>>
      BY SubSeqEmpty
    <2>2. \A k \in 1 .. Len(<<>>) : <<>>[k] # t[1]
      OBVIOUS
    <2>3. s \notin SubSeqs(<<>>)
      BY <1>2, <2>2, EmptyName, NotWithin
    <2> QED
      BY <2>1, <2>3 DEF EndsBy
  <1>8. s \in SubSeqs(t)
    <2>1. 0 \in 0 .. Len(t) /\ 1 \in 0 .. Len(t) /\ SubSeq(t, 0 + 1, 1) = s
      BY <1>1, <1>3
    <2> QED
      BY <2>1 DEF SubSeqs
  <1>9. PICK i \in EndsBy(s, t) :
            /\ \A j \in EndsBy(s, t) : i <= j
            /\ ReplaceFirstSubSeq(<<>>, s, t)
                  = SubSeq(t, 1, (i - (Len(s) - 1)) - 1) \o <<>>
                        \o SubSeq(t, (i - (Len(s) - 1)) + Len(s), Len(t))
    BY <1>2, <1>8, RemoveFirstOccurrence
  <1>10. i = 1
    <2>1. i \in 0 .. Len(t) /\ i <= 1 /\ i # 0
      BY <1>6, <1>7, <1>9 DEF EndsBy
    <2> QED
      BY <2>1
  <1>11. (i - (Len(s) - 1)) - 1 = 0 /\ (i - (Len(s) - 1)) + Len(s) = 2
    BY <1>2, <1>10
  <1>12. ReplaceFirstSubSeq(<<>>, s, t) = SubSeq(t, 1, 0) \o <<>> \o SubSeq(t, 2, Len(t))
    BY <1>9, <1>11
  <1>13. SubSeq(t, 1, 0) = <<>>
    BY SubSeqEmpty
  <1>14. SubSeq(t, 2, Len(t)) \in Seq(Atom)
    BY <1>1, SubSeqOfName DEF Name
  <1> QED
    BY <1>12, <1>13, <1>14, ConcatEmptySeq

\* s is what t has from position m on.
IsTail(s, t, m) ==
    /\ s \in Name /\ Len(s) = Len(t) - m + 1
    /\ \A k \in 1 .. Len(s) : s[k] = t[m + k - 1]

\* What is left of a name from a position on.
LEMMA TailOf ==
    ASSUME NEW t \in Name, NEW m \in 1 .. Len(t), NEW s, s = SubSeq(t, m, Len(t))
    PROVE  IsTail(s, t, m)
  <1>1. Len(t) \in Nat /\ \A k \in 1 .. Len(t) : t[k] \in Atom
    BY NameFacts
  <1> DEFINE n == Len(t)
  <1>2. m \in Int /\ n \in Int /\ m <= n /\ \A k \in m .. n : t[k] \in Atom
    BY <1>1
  <1>3. s = SubSeq(t, m, n)
    OBVIOUS
  <1> HIDE DEF n
  <1>4. /\ s \in Seq(Atom) /\ Len(s) = n - m + 1
        /\ \A k \in 1 .. n - m + 1 : s[k] = t[m + k - 1]
    BY <1>2, <1>3, SubSeqProperties
  <1> QED
    BY <1>4 DEF Name, n, IsTail

\* The tail of a tail is a tail.
LEMMA TailOfTail ==
    ASSUME NEW t \in Name, NEW m \in 1 .. Len(t), NEW s, s = SubSeq(t, m, Len(t)),
           NEW a \in 1 .. Len(s), NEW e, e = m + a - 1
    PROVE  SubSeq(s, a, Len(s)) = SubSeq(t, e, Len(t))
  <1> DEFINE u == SubSeq(s, a, Len(s))
             v == SubSeq(t, e, Len(t))
             n == Len(t)
             l == Len(s)
  <1>1. /\ s \in Name /\ l = n - m + 1 /\ n \in Nat
        /\ \A k \in 1 .. l : s[k] = t[m + k - 1]
    BY TailOf, NameFacts DEF IsTail
  <1>2. l \in Nat /\ m \in 1 .. n /\ a \in 1 .. l /\ e \in 1 .. n
    <2> HIDE DEF l, n
    <2>1. m \in 1 .. n /\ a \in 1 .. l
      BY DEF l, n
    <2> QED
      BY <1>1, <2>1
  <1>3. u \in Name /\ Len(u) = l - a + 1 /\ \A k \in 1 .. Len(u) : u[k] = s[a + k - 1]
    <2>1. IsTail(u, s, a)
      BY <1>1, <1>2, TailOf
    <2> HIDE DEF u
    <2> QED
      BY <2>1 DEF IsTail
  <1>4. v \in Name /\ Len(v) = n - e + 1 /\ \A k \in 1 .. Len(v) : v[k] = t[e + k - 1]
    <2>1. IsTail(v, t, e)
      BY <1>2, TailOf
    <2> HIDE DEF v
    <2> QED
      BY <2>1 DEF IsTail
  <1> HIDE DEF u, v, n, l
  <1>5. Len(u) = Len(v)
    BY <1>1, <1>2, <1>3, <1>4
  <1>6. ASSUME NEW k \in 1 .. Len(u) PROVE u[k] = v[k]
    <2> DEFINE c == a + k - 1
    <2>1. c \in 1 .. l /\ m + c - 1 = e + k - 1 /\ k \in 1 .. Len(v)
      BY <1>1, <1>2, <1>3, <1>5
    <2>2. u[k] = s[c]
      BY <1>3
    <2> HIDE DEF c
    <2>3. s[c] = t[m + c - 1]
      BY <1>1, <2>1
    <2> QED
      BY <1>4, <2>1, <2>2, <2>3
  <1>7. u \in Seq(Atom) /\ v \in Seq(Atom)
    BY <1>3, <1>4 DEF Name
  <1>8. u = v
    BY <1>5, <1>6, <1>7, SeqEqual
  <1> QED
    BY <1>8 DEF u, v

\* What getTitle returns is a name.
LEMMA GetTitleType ==
    ASSUME NEW d \in Document
    PROVE  d.title \in Name /\ getTitle(d) \in Name
  <1>1. d.title \in Name /\ d.headings \in Seq(Heading)
    BY DocumentAssumption DEF DocumentType
  <1>2. ASSUME d.headings # <<>> PROVE d.headings[1].name \in Name
    <2>1. Len(d.headings) \in Nat /\ Len(d.headings) # 0
      BY <1>1, <1>2, LenProperties, EmptySeq
    <2>2. 1 \in 1 .. Len(d.headings)
      BY <2>1
    <2>3. d.headings[1] \in Heading
      BY <1>1, <2>2, ElementOfSeq
    <2> QED
      BY <2>3 DEF Heading
  <1> QED
    BY <1>1, <1>2 DEF getTitle

\* The title is a name.
LEMMA TitleType ==
    ASSUME NEW d \in Document
    PROVE  title(d) \in Name
  <1> DEFINE a == ReplaceFirstSubSeq(<<>>, <<"RFD">>, getTitle(d))
             b == ReplaceFirstSubSeq(<<>>, <<"#", " ">>, a)
             c == ReplaceFirstSubSeq(<<>>, <<"=", " ">>, b)
  <1>0. Len(<<"RFD">>) \in Nat /\ Len(<<"#", " ">>) \in Nat /\ Len(<<"=", " ">>) \in Nat
    OBVIOUS
  <1>1. a \in Name
    BY <1>0, GetTitleType, RemoveType
  <1>2. b \in Name
    <2> HIDE DEF a
    <2> QED
      BY <1>0, <1>1, RemoveType
  <1>3. c \in Name
    <2> HIDE DEF b
    <2> QED
      BY <1>0, <1>2, RemoveType
  <1>4. afterFirstSpace(trim(c)) \in Name
    <2> HIDE DEF c
    <2> QED
      BY <1>3, TrimType, AfterFirstSpaceType
  <1> QED
    BY <1>4 DEF title

\* What TitleIsRest asks of a title.
IsNumbered(t) ==
    /\ Len(t) > 4
    /\ t[1] = "RFD" /\ t[2] = " " /\ t[3] \in Word /\ t[4] = " "
    /\ t[5] # " " /\ t[Len(t)] # " "
    /\ \A k \in 5 .. Len(t) : t[k] \notin {"#", "="}

\* The three removals take away "RFD" only, and the words before and after the first
\* space inside are the number and the rest.
LEMMA TitleOfNumbered ==
    ASSUME NEW d \in Document, NEW t, t = d.title, IsNumbered(t)
    PROVE  title(d) = SubSeq(t, 5, Len(t))
  <1> DEFINE n == Len(t)
             u == SubSeq(t, 2, Len(t))
             v == SubSeq(t, 3, Len(t))
  <1>1. t \in Name /\ n \in Nat /\ n > 4
    BY GetTitleType, NameFacts DEF IsNumbered
  <1>2. t # <<>>
    BY <1>1
  <1>3. getTitle(d) = t
    BY <1>2 DEF getTitle
  <1>4. t[3] # "#" /\ t[3] # "=" /\ t[3] # " "
    BY WordAssumption DEF IsNumbered
  <1>5. ReplaceFirstSubSeq(<<>>, <<"RFD">>, t) = u
    <2>1. <<"RFD">> = <<t[1]>>
      BY DEF IsNumbered
    <2> QED
      BY <1>1, <1>2, <2>1, RemoveFromStart
  <1>6. 2 \in 1 .. Len(t) /\ 3 \in 1 .. Len(t) /\ 5 \in 1 .. Len(t)
    BY <1>1
  <1>7. u \in Name /\ Len(u) = n - 1 /\ \A k \in 1 .. Len(u) : u[k] = t[k + 1]
    <2>1. u \in Name /\ Len(u) = n - 2 + 1 /\ \A k \in 1 .. Len(u) : u[k] = t[2 + k - 1]
      <3>1. IsTail(u, t, 2)
        BY <1>1, <1>6, TailOf
      <3> HIDE DEF u
      <3> QED
        BY <3>1 DEF IsTail
    <2> HIDE DEF u, n
    <2>2. Len(u) = n - 1
      BY <1>1, <2>1
    <2>3. ASSUME NEW k \in 1 .. Len(u) PROVE u[k] = t[k + 1]
      <3>1. k \in Int /\ 2 + k - 1 = k + 1
        BY <1>1, <2>2
      <3> QED
        BY <2>1, <3>1
    <2> QED
      BY <2>1, <2>2, <2>3
  <1>8. ASSUME NEW k \in 1 .. Len(u) PROVE u[k] # "#" /\ u[k] # "="
    <2> HIDE DEF u, n
    <2> DEFINE c == k + 1
    <2>1. c \in Int /\ (c = 2 \/ c = 3 \/ c = 4 \/ c \in 5 .. n) /\ u[k] = t[c]
      BY <1>1, <1>7
    <2> HIDE DEF c
    <2>2. t[c] # "#" /\ t[c] # "="
      BY <1>4, <2>1 DEF n, IsNumbered
    <2> QED
      BY <2>1, <2>2
  <1>9. ReplaceFirstSubSeq(<<>>, <<"#", " ">>, u) = u
    <2> DEFINE s == <<"#", " ">>
    <2>1. s[1] = "#" /\ Len(s) \in Nat \ {0}
      OBVIOUS
    <2> HIDE DEF s, u
    <2>2. s \notin SubSeqs(u)
      BY <1>7, <1>8, <2>1, NotWithin
    <2>3. ReplaceFirstSubSeq(<<>>, s, u) = u
      BY <2>2 DEF ReplaceFirstSubSeq
    <2> QED
      BY <2>3 DEF s
  <1>10. ReplaceFirstSubSeq(<<>>, <<"=", " ">>, u) = u
    <2> DEFINE s == <<"=", " ">>
    <2>1. s[1] = "=" /\ Len(s) \in Nat \ {0}
      OBVIOUS
    <2> HIDE DEF s, u
    <2>2. s \notin SubSeqs(u)
      BY <1>7, <1>8, <2>1, NotWithin
    <2>3. ReplaceFirstSubSeq(<<>>, s, u) = u
      BY <2>2 DEF ReplaceFirstSubSeq
    <2> QED
      BY <2>3 DEF s
  <1>11. title(d) = afterFirstSpace(trim(u))
    <2>1. title(d) = afterFirstSpace(trim(
              ReplaceFirstSubSeq(<<>>, <<"=", " ">>,
                  ReplaceFirstSubSeq(<<>>, <<"#", " ">>,
                      ReplaceFirstSubSeq(<<>>, <<"RFD">>, t)))))
      BY <1>3 DEF title
    <2> HIDE DEF u
    <2> QED
      BY <1>5, <1>9, <1>10, <2>1
  <1>12. trim(u) = v
    <2> DEFINE b == Len(u)
    <2>1. 2 \in 1 .. b /\ b \in 1 .. b /\ b + 1 = n /\ 1 \in 1 .. b
      <3> HIDE DEF n, u
      <3> QED
        BY <1>1, <1>7
    <2>2. u[1] = " " /\ u[2] = t[3] /\ u[b] = t[n]
      <3>1. u[1] = t[1 + 1] /\ u[2] = t[2 + 1] /\ u[b] = t[b + 1]
        BY <1>7, <2>1
      <3>2. t[2] = " "
        BY DEF IsNumbered
      <3> HIDE DEF u, b, n
      <3>3. 1 + 1 = 2 /\ 2 + 1 = 3
        OBVIOUS
      <3> QED
        BY <2>1, <3>1, <3>2, <3>3
    <2>3. IsText(u[2]) /\ IsText(u[b]) /\ ~ IsText(u[1])
      BY <1>4, <2>2 DEF IsText, IsNumbered
    <2>4. ASSUME NEW k \in 1 .. b, IsText(u[k]) PROVE 2 <= k /\ k <= b
      <3>1. k # 1
        BY <2>3, <2>4
      <3> HIDE DEF n, b
      <3> QED
        BY <2>1, <3>1
    <2>5. trim(u) = SubSeq(u, 2, b)
      BY <1>7, <2>1, <2>3, <2>4, TrimIs
    <2>6. 3 = 2 + 2 - 1
      OBVIOUS
    <2>7. SubSeq(u, 2, Len(u)) = SubSeq(t, 3, Len(t))
      BY <1>1, <1>6, <2>1, <2>6, TailOfTail
    <2> QED
      BY <2>5, <2>7
  <1>13. v \in Name /\ Len(v) = n - 2 /\ v[1] = t[3] /\ v[2] = " " /\ Len(v) > 2
    <2>1. v \in Name /\ Len(v) = n - 3 + 1 /\ \A k \in 1 .. Len(v) : v[k] = t[3 + k - 1]
      <3>1. IsTail(v, t, 3)
        BY <1>1, <1>6, TailOf
      <3> HIDE DEF v
      <3> QED
        BY <3>1 DEF IsTail
    <2>2. Len(v) = n - 2 /\ 1 \in 1 .. Len(v) /\ 2 \in 1 .. Len(v) /\ Len(v) > 2
      <3> HIDE DEF n, v
      <3> QED
        BY <1>1, <2>1
    <2>3. v[1] = t[3 + 1 - 1] /\ v[2] = t[3 + 2 - 1]
      BY <2>1, <2>2
    <2>4. t[4] = " "
      BY DEF IsNumbered
    <2> HIDE DEF v, n
    <2>5. 3 + 1 - 1 = 3 /\ 3 + 2 - 1 = 4
      OBVIOUS
    <2> QED
      BY <2>1, <2>2, <2>3, <2>4, <2>5
  <1>14. Len(v) \in Nat /\ Len(v) > 2
    <2> HIDE DEF n, v
    <2>1. Len(v) = n - 2
      BY <1>13
    <2> QED
      BY <1>1, <2>1
  <1>15. afterFirstSpace(v) = SubSeq(v, 3, Len(v))
    <2>1. IsSpace(v[2]) /\ ~ IsSpace(v[1])
      BY <1>4, <1>13 DEF IsSpace
    <2>2. 2 \in 1 .. Len(v) /\ 2 + 1 = 3
      <3> HIDE DEF n, v
      <3> QED
        BY <1>14
    <2>3. ASSUME NEW k \in 1 .. Len(v), IsSpace(v[k]) PROVE 2 <= k
      <3>1. k # 1
        BY <2>1, <2>3
      <3> HIDE DEF n, v
      <3> QED
        BY <1>14, <3>1
    <2>4. afterFirstSpace(v) = SubSeq(v, 2 + 1, Len(v))
      <3> HIDE DEF v
      <3> QED
        BY <1>13, <2>1, <2>2, <2>3, AfterFirstSpaceIs
    <2> QED
      BY <2>2, <2>4
  <1>16. SubSeq(v, 3, Len(v)) = SubSeq(t, 5, Len(t))
    <2>1. 3 \in 1 .. Len(v) /\ 5 = 3 + 3 - 1
      <3> HIDE DEF n, v
      <3> QED
        BY <1>14
    <2> QED
      BY <1>1, <1>6, <2>1, TailOfTail
  <1> QED
    <2> HIDE DEF u, v
    <2> QED
      BY <1>11, <1>12, <1>15, <1>16

-----------------------------------------------------------------------------
(* The invariant, and what it says of an indexed document. *)

\* Nothing is printed or indexed but what the parser makes of a document without
\* warnings.
Inv ==
    /\ doc \in Document
    /\ outcome \in {"unread", "failed", "refused", "indexed"}
    /\ outcome # "indexed" => parsed = Nothing /\ documents = <<>>
    /\ outcome = "indexed" =>
           /\ ~ Warned(doc)
           /\ parsed = parse(doc)
           /\ documents = [i \in DOMAIN parsed.sections |->
                              IndexDocument(parsed.sections[i], parsed.title)]

\* Below a document that checks its headings they are parts or on the first level.
TopInSteps(d) ==
    TopIsChecked(d) => \A i \in 1 .. Len(d.headings) :
                           Parent(d.headings, i) = 0 => d.headings[i].level \in {0, 1}

\* A document without warnings has levels that rise one at a time, and each id once.
LEMMA NotWarned ==
    ASSUME NEW d \in Document, ~ Warned(d), NEW hs, hs = d.headings
    PROVE  /\ hs \in Seq(Heading)
           /\ InSteps(hs) /\ TopInSteps(d)
           /\ \A i, j \in 1 .. Len(hs) : hs[i].id = hs[j].id => i = j
  <1>1. hs \in Seq(Heading)
    BY DocumentAssumption DEF DocumentType
  <1>2. Len(hs) \in Nat /\ DOMAIN hs = 1 .. Len(hs)
    BY <1>1, HeadingFacts
  <1>3. \A i \in 1 .. Len(hs) : InSequence(d, i)
    BY <1>2 DEF Warned
  <1>4. InSteps(hs) /\ TopInSteps(d)
    BY <1>3 DEF InSequence, InSteps, TopInSteps
  <1>5. \A i \in 1 .. Len(hs) : \A j \in 1 .. i - 1 : hs[j].id # hs[i].id
    BY <1>2 DEF Warned
  <1>6. ASSUME NEW i \in 1 .. Len(hs), NEW j \in 1 .. Len(hs), hs[i].id = hs[j].id PROVE i = j
    <2>1. ~ (j \in 1 .. i - 1) /\ ~ (i \in 1 .. j - 1)
      BY <1>5, <1>6
    <2> QED
      BY <1>2, <2>1
  <1> QED
    BY <1>1, <1>4, <1>6

\* What was printed and indexed of a document, heading by heading.
LEMMA IndexedFacts ==
    ASSUME Inv, outcome = "indexed", NEW hs, hs = doc.headings
    PROVE  /\ hs \in Seq(Heading) /\ InSteps(hs) /\ Len(hs) \in Nat /\ DOMAIN hs = 1 .. Len(hs)
           /\ TopInSteps(doc)
           /\ \A i, j \in 1 .. Len(hs) : hs[i].id = hs[j].id => i = j
           /\ parsed = [title |-> title(doc), sections |-> Entries(hs)]
           /\ parsed.title = title(doc) /\ parsed.sections = Entries(hs)
           /\ parsed.sections = [i \in 1 .. Len(hs) |-> entry(hs, i)]
           /\ documents = [i \in 1 .. Len(hs) |-> IndexDocument(entry(hs, i), title(doc))]
  <1>1. /\ doc \in Document /\ ~ Warned(doc) /\ parsed = parse(doc)
        /\ documents = [i \in DOMAIN parsed.sections |->
                              IndexDocument(parsed.sections[i], parsed.title)]
    BY DEF Inv
  <1>2. /\ hs \in Seq(Heading) /\ InSteps(hs) /\ TopInSteps(doc)
        /\ \A i, j \in 1 .. Len(hs) : hs[i].id = hs[j].id => i = j
    BY <1>1, NotWarned
  <1>3. Len(hs) \in Nat /\ DOMAIN hs = 1 .. Len(hs)
    BY <1>2, HeadingFacts
  <1>4. parse(doc).sections = Entries(hs)
    BY <1>1, ParsedSections
  <1>5. parse(doc) = [title |-> title(doc), sections |-> parse(doc).sections]
    BY DEF parse
  <1>6. Entries(hs) = [i \in 1 .. Len(hs) |-> entry(hs, i)]
    BY <1>3 DEF Entries
  <1>7. parsed.title = title(doc) /\ parsed.sections = Entries(hs)
    BY <1>1, <1>4, <1>5
  <1>8. documents = [i \in 1 .. Len(hs) |-> IndexDocument(entry(hs, i), title(doc))]
    <2>1. documents = [i \in DOMAIN Entries(hs) |-> IndexDocument(Entries(hs)[i], title(doc))]
      BY <1>1, <1>7
    <2>2. DOMAIN Entries(hs) = 1 .. Len(hs) /\ \A i \in 1 .. Len(hs) : Entries(hs)[i] = entry(hs, i)
      BY <1>6
    <2> QED
      BY <2>1, <2>2
  <1> QED
    BY <1>1, <1>2, <1>3, <1>4, <1>5, <1>6, <1>7, <1>8

\* The invariant holds initially, and every step keeps it.
LEMMA Invariance == Spec => []Inv
  <1>1. Init => Inv
    BY DEF Init, Inv
  <1>2. Inv /\ [Next]_vars => Inv'
    <2> SUFFICES ASSUME Inv, [Next]_vars PROVE Inv'
      OBVIOUS
    <2>1. CASE parse_document
      <3>1. CASE Warned(doc)
        BY <2>1, <3>1 DEF Inv, parse_document
      <3>2. CASE ~ Warned(doc)
        <4>1. /\ outcome' = "indexed" /\ doc' = doc /\ parsed' = parse(doc)
              /\ documents' = [i \in DOMAIN parsed'.sections |->
                                  IndexDocument(parsed'.sections[i], parsed'.title)]
          BY <2>1, <3>2 DEF parse_document
        <4>2. doc \in Document
          BY DEF Inv
        <4>3. Warned(doc)' = Warned(doc) /\ parse(doc)' = parse(doc)
          BY <4>1
        <4> QED
          BY <3>2, <4>1, <4>2, <4>3 DEF Inv
      <3> QED
        BY <3>1, <3>2
    <2>2. CASE ParserFails
      BY <2>2 DEF Inv, ParserFails
    <2>3. CASE UNCHANGED vars
      BY <2>3 DEF Inv, vars
    <2> QED
      BY <2>1, <2>2, <2>3 DEF Next
  <1> QED
    BY <1>1, <1>2, PTL DEF Spec

-----------------------------------------------------------------------------
(* The theorems. *)

\* The entry of a heading is well formed, and so is its search document.
LEMMA EntryType ==
    ASSUME NEW hs \in Seq(Heading), InSteps(hs), NEW i \in 1 .. Len(hs)
    PROVE  /\ entry(hs, i) \in Section
           /\ entry(hs, i).section_id = hs[i].id /\ entry(hs, i).name = hs[i].name
           /\ entry(hs, i).content = hs[i].blocks /\ entry(hs, i).parents = walk(hs, i)
           /\ Len(walk(hs, i)) \in 0 .. 4 /\ walk(hs, i) \in Seq(Name)
  <1>1. /\ hs[i].level \in 0 .. 5 /\ hs[i].id \in Id
        /\ hs[i].name \in Name /\ hs[i].blocks \in Seq(Block)
    BY HeadingFacts
  <1>2. walk(hs, i) \in Seq(Name)
    BY WalkOfDocument DEF WalkIsRight
  <1>3. Len(walk(hs, i)) \in 0 .. 4
    <2>1. PICK t \in 1 .. i : /\ IsTop(hs, t, i)
                              /\ Len(walk(hs, i)) = hs[i].level - hs[t].level
                              /\ IF walk(hs, i) = <<>> THEN t = i ELSE Last(walk(hs, i)) = hs[t].name
      BY WalkOfDocument DEF WalkIsRight
    <2>2. t = i \/ (t \in Above(hs, i) /\ hs[t].level > 0)
      BY <2>1, AboveFacts DEF IsTop
    <2>3. t \in 1 .. Len(hs)
      BY HeadingFacts
    <2>4. hs[t].level \in 0 .. 5
      BY <2>3, HeadingFacts
    <2> DEFINE n == Len(walk(hs, i))
    <2>5. n \in Nat /\ n = hs[i].level - hs[t].level
      BY <1>2, <2>1
    <2> HIDE DEF n
    <2>6. n \in 0 .. 4
      BY <1>1, <2>2, <2>4, <2>5
    <2> QED
      BY <2>6 DEF n
  <1>4. entry(hs, i) = [section_id |-> hs[i].id, name |-> hs[i].name,
                        content |-> hs[i].blocks, parents |-> walk(hs, i)]
    BY DEF entry, content
  <1> QED
    BY <1>1, <1>2, <1>3, <1>4 DEF Section

\* A section with at most four parents makes a search document of the right type.
LEMMA IndexDocumentOfSection ==
    ASSUME NEW s \in Section, Len(s.parents) \in 0 .. 4, NEW t \in Name
    PROVE  IndexDocument(s, t) \in IndexDocumentType
  <1>1. /\ s.section_id \in Id /\ s.name \in Name
        /\ s.content \in Seq(Block) /\ s.parents \in Seq(Name)
    BY DEF Section
  <1>2. Level(s) \in 1 .. 5
    <2> DEFINE l == Len(s.parents)
    <2>1. l \in 0 .. 4 /\ Level(s) = l + 1
      BY DEF Level
    <2> HIDE DEF l
    <2> QED
      BY <2>1
  <1>3. ObjectId(s) \in {rfd_number} \X Id
    BY <1>1 DEF ObjectId
  <1>4. <<s.name>> \o s.parents \in Seq(Name)
    BY <1>1
  <1>5. Radio(s) \in Name
    <2>1. CASE s.parents = <<>>
      BY <1>1, <2>1 DEF Radio
    <2>2. CASE s.parents # <<>>
      <3> DEFINE p == s.parents
      <3>1. p \in Seq(Name) /\ p # <<>>
        BY <1>1, <2>2
      <3> HIDE DEF p
      <3>2. Len(p) \in 1 .. Len(p)
        BY <3>1, LenProperties, EmptySeq
      <3>3. p[Len(p)] \in Name
        BY <3>1, <3>2, ElementOfSeq
      <3> QED
        BY <2>2, <3>3 DEF Radio, Last, p
    <2> QED
      BY <2>1, <2>2
  <1>6. Level(s) \in 1 .. 6 /\ (IF Level(s) > 5 THEN 5 ELSE Level(s)) \in 1 .. 5
    BY <1>2
  <1> QED
    BY <1>1, <1>3, <1>4, <1>5, <1>6 DEF IndexDocument, IndexDocumentType

\* Every state is well formed: the walk gives every section a list of names, and no
\* search document is below level five (IndexDocument::new).
THEOREM Types == Spec => []TypeOK
  <1>1. Inv => TypeOK
    <2> SUFFICES ASSUME Inv PROVE TypeOK
      OBVIOUS
    <2>1. doc \in Document /\ outcome \in {"unread", "failed", "refused", "indexed"}
      BY DEF Inv
    <2>2. CASE outcome # "indexed"
      <3>1. parsed = [title |-> <<>>, sections |-> <<>>] /\ documents = <<>>
        BY <2>2 DEF Inv, Nothing
      <3>2. <<>> \in Seq(Section) /\ <<>> \in Seq(IndexDocumentType) /\ <<>> \in Name
        BY EmptySeq, EmptyName
      <3> QED
        BY <2>1, <3>1, <3>2 DEF TypeOK
    <2>3. CASE outcome = "indexed"
      <3> DEFINE hs == doc.headings
      <3>1. /\ hs \in Seq(Heading) /\ InSteps(hs) /\ Len(hs) \in Nat
            /\ parsed = [title |-> title(doc), sections |-> parsed.sections]
            /\ parsed.sections = [i \in 1 .. Len(hs) |-> entry(hs, i)]
            /\ documents = [i \in 1 .. Len(hs) |-> IndexDocument(entry(hs, i), title(doc))]
        BY <2>3, IndexedFacts
      <3>2. title(doc) \in Name
        BY <2>1, TitleType
      <3> HIDE DEF hs
      <3>3. \A i \in 1 .. Len(hs) : entry(hs, i) \in Section
        BY <3>1, EntryType
      <3>4. \A i \in 1 .. Len(hs) : IndexDocument(entry(hs, i), title(doc)) \in IndexDocumentType
        BY <3>1, <3>2, EntryType, IndexDocumentOfSection
      <3>5. parsed.sections \in Seq(Section)
        BY <3>1, <3>3
      <3>6. documents \in Seq(IndexDocumentType)
        BY <3>1, <3>4
      <3> QED
        BY <2>1, <3>1, <3>2, <3>5, <3>6 DEF TypeOK
    <2> QED
      BY <2>2, <2>3
  <1> QED
    BY <1>1, Invariance, PTL

\* Whatever the shape of the tree, the parser prints every section once and in the
\* order of the source (formatSection, parse).
THEOREM SectionOrder == Spec => []SectionsInDocumentOrder
  <1>1. Inv => SectionsInDocumentOrder
    <2> SUFFICES ASSUME Inv, outcome = "indexed"
                 PROVE  [i \in DOMAIN parsed.sections |-> parsed.sections[i].section_id]
                            = [i \in DOMAIN doc.headings |-> doc.headings[i].id]
      BY DEF SectionsInDocumentOrder, Indexed
    <2> DEFINE hs == doc.headings
    <2>1. /\ DOMAIN hs = 1 .. Len(hs) /\ hs \in Seq(Heading) /\ InSteps(hs)
          /\ parsed.sections = [i \in 1 .. Len(hs) |-> entry(hs, i)]
      BY IndexedFacts
    <2> HIDE DEF hs
    <2>2. \A i \in 1 .. Len(hs) : entry(hs, i).section_id = hs[i].id
      BY <2>1, EntryType
    <2>3. [i \in DOMAIN parsed.sections |-> parsed.sections[i].section_id]
              = [i \in DOMAIN hs |-> hs[i].id]
      BY <2>1, <2>2
    <2> QED
      BY <2>3 DEF hs
  <1> QED
    BY <1>1, Invariance, PTL

\* The walk by level finds the headings that enclose a section in the source, in a
\* document about which Asciidoctor logs nothing (formatSection).
THEOREM Parents == Spec => []ParentsAreEnclosing
  <1>1. Inv => ParentsAreEnclosing
    <2> SUFFICES ASSUME Inv, outcome = "indexed", NEW i \in DOMAIN doc.headings
                 PROVE  \E s \in DOMAIN parsed.sections :
                            /\ parsed.sections[s].section_id = doc.headings[i].id
                            /\ parsed.sections[s].parents
                                   = [n \in DOMAIN Around(i) |-> doc.headings[Around(i)[n]].name]
      BY DEF ParentsAreEnclosing, Indexed
    <2> DEFINE hs == doc.headings
    <2>1. /\ i \in 1 .. Len(hs) /\ hs \in Seq(Heading) /\ InSteps(hs)
          /\ parsed.sections = [j \in 1 .. Len(hs) |-> entry(hs, j)]
      BY IndexedFacts
    <2>2. Around(i) = Reverse(InOrder(Above(hs, i)))
      <3>1. Enclosing(i) = Above(hs, i)
        BY DEF Enclosing, Encloses, Above
      <3> QED
        BY <3>1 DEF Around
    <2>3. [n \in DOMAIN Around(i) |-> hs[Around(i)[n]].name] = NamesOf(hs, Above(hs, i))
      BY <2>2 DEF NamesOf
    <2> HIDE DEF hs
    <2>4. entry(hs, i).section_id = hs[i].id /\ entry(hs, i).parents = walk(hs, i)
      BY <2>1, EntryType
    <2>5. walk(hs, i) = NamesOf(hs, Above(hs, i))
      BY <2>1, WalkOfDocument DEF WalkIsRight
    <2>6. i \in DOMAIN parsed.sections /\ parsed.sections[i] = entry(hs, i)
      BY <2>1
    <2> QED
      BY <2>3, <2>4, <2>5, <2>6 DEF hs
  <1> QED
    BY <1>1, Invariance, PTL

\* All text is in one search document and no other, in order (formatSection).
THEOREM TextOnce == Spec => []TextIsIndexedOnce
  <1>1. Inv => TextIsIndexedOnce
    <2> SUFFICES ASSUME Inv, outcome = "indexed"
                 PROVE  [i \in DOMAIN documents |-> documents[i].content]
                            = [i \in DOMAIN doc.headings |-> doc.headings[i].blocks]
      BY DEF TextIsIndexedOnce, Indexed
    <2> DEFINE hs == doc.headings
    <2>1. /\ DOMAIN hs = 1 .. Len(hs) /\ hs \in Seq(Heading) /\ InSteps(hs)
          /\ documents = [i \in 1 .. Len(hs) |-> IndexDocument(entry(hs, i), title(doc))]
      BY IndexedFacts
    <2> HIDE DEF hs
    <2>2. \A i \in 1 .. Len(hs) : entry(hs, i).content = hs[i].blocks
      BY <2>1, EntryType
    <2>3. \A s, t : IndexDocument(s, t).content = s.content
      BY DEF IndexDocument
    <2>4. [i \in DOMAIN documents |-> documents[i].content] = [i \in DOMAIN hs |-> hs[i].blocks]
      BY <2>1, <2>2, <2>3
    <2> QED
      BY <2>4 DEF hs
  <1> QED
    BY <1>1, Invariance, PTL

\* No two search documents of an RFD have the same object id, since Asciidoctor logs
\* an id that is used twice (IndexDocument::new).
THEOREM Distinct == Spec => []DocumentsAreDistinct
  <1>1. Inv => DocumentsAreDistinct
    <2> SUFFICES ASSUME Inv, NEW i \in DOMAIN documents, NEW j \in DOMAIN documents,
                        documents[i].object_id = documents[j].object_id
                 PROVE  i = j
      BY DEF DocumentsAreDistinct
    <2>1. outcome = "indexed"
      BY DEF Inv
    <2> DEFINE hs == doc.headings
    <2>2. /\ hs \in Seq(Heading) /\ InSteps(hs)
          /\ \A x, y \in 1 .. Len(hs) : hs[x].id = hs[y].id => x = y
          /\ documents = [x \in 1 .. Len(hs) |-> IndexDocument(entry(hs, x), title(doc))]
      BY <2>1, IndexedFacts
    <2> HIDE DEF hs
    <2>3. i \in 1 .. Len(hs) /\ j \in 1 .. Len(hs)
      BY <2>2
    <2>4. \A s, t : IndexDocument(s, t).object_id = <<rfd_number, s.section_id>>
      BY DEF IndexDocument, ObjectId
    <2>5. /\ documents[i].object_id = <<rfd_number, entry(hs, i).section_id>>
          /\ documents[j].object_id = <<rfd_number, entry(hs, j).section_id>>
      BY <2>2, <2>3, <2>4
    <2>6. entry(hs, i).section_id = hs[i].id /\ entry(hs, j).section_id = hs[j].id
      BY <2>2, <2>3, EntryType
    <2>7. hs[i].id = hs[j].id
      <3>1. <<rfd_number, hs[i].id>> = <<rfd_number, hs[j].id>>
        BY <2>5, <2>6
      <3>2. \A x, y, z : <<x, y>> = <<x, z>> => y = z
        OBVIOUS
      <3> QED
        BY <3>1, <3>2
    <2> QED
      BY <2>2, <2>3, <2>7
  <1> QED
    BY <1>1, Invariance, PTL

\* The atoms of the rest are those of the title from the fifth on.
LEMMA RestFacts ==
    ASSUME NEW t \in Name, Len(t) > 4, NEW rest, rest = SubSeq(t, 5, Len(t))
    PROVE  \A k \in 5 .. Len(t) : k - 4 \in DOMAIN rest /\ rest[k - 4] = t[k]
  <1>1. Len(t) \in Nat /\ 5 \in 1 .. Len(t)
    BY NameFacts
  <1>2. IsTail(rest, t, 5)
    BY <1>1, TailOf
  <1>3. Len(rest) = Len(t) - 4 /\ \A k \in 1 .. Len(rest) : rest[k] = t[5 + k - 1]
    BY <1>1, <1>2 DEF IsTail
  <1>4. DOMAIN rest = 1 .. Len(rest)
    BY <1>2, NameFacts DEF IsTail
  <1> SUFFICES ASSUME NEW k \in 5 .. Len(t) PROVE k - 4 \in DOMAIN rest /\ rest[k - 4] = t[k]
    OBVIOUS
  <1>5. k - 4 \in 1 .. Len(rest) /\ 5 + (k - 4) - 1 = k
    BY <1>1, <1>3
  <1> QED
    BY <1>3, <1>4, <1>5

\* Of a title that begins with "RFD" and a number, the removals of the parser leave
\* the rest, however long it is (parse).
THEOREM Titles == Spec => []TitleIsRest
  <1>1. Inv => TitleIsRest
    <2> DEFINE t == doc.title
               rest == SubSeq(t, 5, Len(t))
    <2> SUFFICES ASSUME Inv, outcome = "indexed", Len(t) > 4, t[1] = "RFD", t[2] = " ",
                        t[3] \in Word, t[4] = " ", t[5] # " ", Last(t) # " ",
                        \A k \in DOMAIN rest : rest[k] \notin {"#", "="},
                        NEW i \in DOMAIN documents
                 PROVE  documents[i].hierarchy_lvl0 = rest
      BY DEF TitleIsRest, Indexed
    <2>1. doc \in Document
      BY DEF Inv
    <2>2. documents[i].hierarchy_lvl0 = title(doc)
      <3>1. documents = [x \in 1 .. Len(doc.headings) |->
                            IndexDocument(entry(doc.headings, x), title(doc))]
        BY IndexedFacts
      <3>2. \A s, u : IndexDocument(s, u).hierarchy_lvl0 = u
        BY DEF IndexDocument
      <3> QED
        BY <3>1, <3>2
    <2>3. \A k \in 5 .. Len(t) : t[k] \notin {"#", "="}
      <3>1. t \in Name /\ Len(t) \in Nat
        BY <2>1, GetTitleType, NameFacts
      <3>2. \A k \in 5 .. Len(t) : k - 4 \in DOMAIN rest /\ rest[k - 4] = t[k]
        BY <3>1, RestFacts
      <3> QED
        BY <3>2
    <2>4. IsNumbered(t)
      BY <2>3 DEF IsNumbered, Last
    <2>5. title(doc) = rest
      BY <2>1, <2>4, TitleOfNumbered
    <2> QED
      BY <2>2, <2>5
  <1> QED
    BY <1>1, Invariance, PTL

\* The radio entry of a search document is the heading at the top of the branch, and its
\* level is counted from there: it is that of the heading, unless the document has no
\* title and begins with a heading (IndexDocument::new).
THEOREM Levels == Spec => []LevelsAreOfHeadings
  <1>1. Inv => LevelsAreOfHeadings
    <2> DEFINE hs == doc.headings
    <2> SUFFICES ASSUME Inv, outcome = "indexed", NEW i \in DOMAIN hs, hs[i].level > 0
                 PROVE  /\ documents[i].radio = hs[Outermost(i)].name
                        /\ documents[i].level = hs[i].level - hs[Outermost(i)].level + 1
                        /\ TopIsChecked(doc) => documents[i].level = hs[i].level
      BY DEF LevelsAreOfHeadings, Indexed, TopIsChecked
    <2>1. /\ DOMAIN hs = 1 .. Len(hs) /\ hs \in Seq(Heading) /\ InSteps(hs) /\ Len(hs) \in Nat
          /\ documents = [x \in 1 .. Len(hs) |-> IndexDocument(entry(hs, x), title(doc))]
      BY IndexedFacts
    <2>2. TopIsChecked(doc) => \A x \in 1 .. Len(hs) : Parent(hs, x) = 0 => hs[x].level \in {0, 1}
      BY IndexedFacts DEF TopInSteps
    <2>3. Enclosing(i) = Above(hs, i)
      BY DEF Enclosing, Encloses, Above
    <2> HIDE DEF hs
    <2> DEFINE w == walk(hs, i)
               s == entry(hs, i)
               B == Above(hs, i) \cup {i}
    <2>4. i \in 1 .. Len(hs) /\ documents[i] = IndexDocument(s, title(doc))
      BY <2>1
    <2>5. w \in Seq(Name)
      BY <2>1, <2>4, WalkOfDocument DEF WalkIsRight
    <2>6. PICK t \in 1 .. i : /\ IsTop(hs, t, i)
                              /\ Len(w) = hs[i].level - hs[t].level
                              /\ IF w = <<>> THEN t = i ELSE Last(w) = hs[t].name
      BY <2>1, <2>4, WalkOfDocument DEF WalkIsRight
    <2>7. s.parents = w /\ s.name = hs[i].name
      BY <2>1, <2>4, EntryType
    <2>8. Outermost(i) = t
      <3>1. t \in B /\ \A k \in B : t <= k
        BY <2>6 DEF IsTop
      <3>2. B \subseteq Int
        BY <2>1, <2>4, AboveFacts
      <3>3. Outermost(i) = Min(B)
        BY <2>3 DEF Outermost
      <3> HIDE DEF B
      <3> QED
        BY <3>1, <3>2, <3>3, MinimumIs
    <2>9. documents[i].radio = hs[t].name
      <3>1. documents[i].radio = IF w = <<>> THEN hs[i].name ELSE Last(w)
        BY <2>4, <2>7 DEF IndexDocument, Radio
      <3> QED
        BY <2>6, <3>1
    <2>10. documents[i].level = hs[i].level - hs[t].level + 1
      <3>1. documents[i].level = Len(w) + 1
        BY <2>4, <2>7 DEF IndexDocument, Level
      <3> QED
        BY <2>6, <3>1
    <2>11. /\ t \in 1 .. Len(hs) /\ hs[t].level \in 0 .. 5 /\ hs[t].level > 0
           /\ hs[i].level \in 0 .. 5
      <3>1. t = i \/ hs[t].level > 0
        BY <2>1, <2>4, <2>6, AboveFacts DEF IsTop
      <3>2. t \in 1 .. Len(hs)
        BY <2>1, <2>4
      <3> QED
        BY <2>1, <2>4, <3>1, <3>2, HeadingFacts
    <2>12. ASSUME TopIsChecked(doc) PROVE hs[t].level = 1
      <3>1. CASE Parent(hs, t) = 0
        BY <2>2, <2>11, <2>12, <3>1
      <3>2. CASE Parent(hs, t) # 0
        <4>1. hs[Parent(hs, t)].level = 0
          BY <2>6, <2>11, <3>2 DEF IsTop, OpensBranch
        <4>2. hs[t].level = hs[Parent(hs, t)].level + 1
          BY <2>1, <2>11, <3>2 DEF InSteps
        <4> QED
          BY <4>1, <4>2
      <3> QED
        BY <3>1, <3>2
    <2>13. TopIsChecked(doc) => documents[i].level = hs[i].level
      BY <2>10, <2>11, <2>12
    <2> QED
      BY <2>8, <2>9, <2>10, <2>13 DEF hs
  <1> QED
    BY <1>1, Invariance, PTL

===============================================================================
