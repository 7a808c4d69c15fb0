----------------------------- MODULE Sums_proofs -----------------------------
(***************************************************************************)
(* What proofs need to know of natural numbers and of finite sums. An      *)
(* induction is on a set of numbers, not on a predicate: the library's     *)
(* well-foundedness of < gives every set of naturals a least element.      *)
(***************************************************************************)
EXTENDS Sums, FiniteSetTheorems, WellFoundedInduction, TLAPS

\* Every set of natural numbers has a least element.
LEMMA LeastElement ==
    ASSUME NEW T \in SUBSET Nat, T # {}
    PROVE  \E n \in T : \A m \in T : n <= m
<1>1. PICK n \in T : \A m \in T : <<m, n>> \notin OpToRel(<, Nat)
  BY NatLessThanWellFounded, WFMin
<1>2. \A m \in T : ~ (m < n)
  BY <1>1 DEF OpToRel
<1>3. QED
  BY <1>2

\* A set with 0 and the successor of each of its numbers holds them all.
LEMMA Induction ==
    ASSUME NEW T, 0 \in T, \A n \in Nat : n \in T => n + 1 \in T
    PROVE  \A n \in Nat : n \in T
<1> SUFFICES ASSUME Nat \ T # {} PROVE FALSE
  OBVIOUS
<1>1. PICK n \in Nat \ T : \A m \in Nat \ T : n <= m
  BY LeastElement
<1>2. n - 1 \in Nat /\ (n - 1) + 1 = n
  OBVIOUS
<1>3. n - 1 \in T
  BY <1>1, <1>2
<1>4. QED
  BY <1>2, <1>3

----------------------------------------------------------------------------
(* Sums up to a number *)

\* The function SumTo takes its values from; a recursive definition is a
\* CHOOSE, so that such a function exists has to be proved.
SumsOf(s, g) == s = [n \in Nat |-> IF n = 0 THEN 0 ELSE s[n - 1] + g[n]]

LEMMA SumsExist == ASSUME NEW g PROVE \E s : SumsOf(s, g)
<1> DEFINE Upto(s, k) ==
             \A n \in 0..k : s[n] = IF n = 0 THEN 0 ELSE s[n - 1] + g[n]
           T == {k \in Nat : \E s : Upto(s, k)}
<1>1. 0 \in T
  <2>1. Upto([n \in 0..0 |-> 0], 0)
    OBVIOUS
  <2>2. QED
    BY <2>1
<1>2. ASSUME NEW k \in Nat, k \in T PROVE k + 1 \in T
  <2>1. PICK s : Upto(s, k)
    BY <1>2
  <2> DEFINE t == [n \in 0..(k + 1) |-> IF n = k + 1 THEN s[k] + g[k + 1] ELSE s[n]]
  <2>2. ASSUME NEW n \in 0..(k + 1)
        PROVE  t[n] = IF n = 0 THEN 0 ELSE t[n - 1] + g[n]
    <3>1. CASE n = k + 1
      BY <3>1
    <3>2. CASE n \in 0..k
      BY <2>1, <3>2
    <3>3. QED
      BY <3>1, <3>2
  <2>3. Upto(t, k + 1)
    BY <2>2
  <2> HIDE DEF t, Upto
  <2>4. QED
    BY <2>3
<1>3. \A k \in Nat : k \in T
  BY <1>1, <1>2, Induction
\* Two such functions agree as far as both go.
<1>4. ASSUME NEW k \in Nat, NEW l \in Nat, k <= l,
             NEW s, NEW t, Upto(s, k), Upto(t, l)
      PROVE  s[k] = t[k]
  <2> DEFINE U == {n \in Nat : n <= k => s[n] = t[n]}
  <2>1. 0 \in U
    BY <1>4
  <2>2. ASSUME NEW n \in Nat, n \in U PROVE n + 1 \in U
    <3> SUFFICES ASSUME n + 1 <= k PROVE s[n + 1] = t[n + 1]
      OBVIOUS
    <3>1. s[n] = t[n]
      BY <2>2
    <3>2. s[n + 1] = s[n] + g[n + 1]
      BY <1>4
    <3>3. t[n + 1] = t[n] + g[n + 1]
      BY <1>4
    <3>4. QED
      BY <3>1, <3>2, <3>3
  <2>3. \A n \in Nat : n \in U
    BY <2>1, <2>2, Induction
  <2>4. QED
    BY <2>3
<1> DEFINE S(k) == CHOOSE s : Upto(s, k)
           f == [n \in Nat |-> S(n)[n]]
<1>5. ASSUME NEW k \in Nat PROVE Upto(S(k), k)
  <2>1. \E s : Upto(s, k)
    BY <1>3
  <2> HIDE DEF Upto
  <2>2. QED
    BY <2>1
<1>6. ASSUME NEW n \in Nat
      PROVE  f[n] = IF n = 0 THEN 0 ELSE f[n - 1] + g[n]
  <2>1. CASE n = 0
    BY <1>5, <2>1
  <2>2. CASE n # 0
    <3>1. n - 1 \in Nat /\ n - 1 <= n
      BY <2>2
    <3>2. S(n)[n] = S(n)[n - 1] + g[n]
      BY <1>5, <2>2
    <3>3. Upto(S(n - 1), n - 1) /\ Upto(S(n), n - 1)
      BY <1>5, <3>1
    <3> HIDE DEF Upto, S
    <3>4. S(n - 1)[n - 1] = S(n)[n - 1]
      BY <1>4, <3>1, <3>3
    <3>5. QED
      BY <2>2, <3>1, <3>2, <3>4
  <2>3. QED
    BY <2>1, <2>2
<1> HIDE DEF S
<1>7. SumsOf(f, g)
  <2>1. f = [n \in Nat |-> IF n = 0 THEN 0 ELSE f[n - 1] + g[n]]
    <3> DEFINE h == [n \in Nat |-> IF n = 0 THEN 0 ELSE f[n - 1] + g[n]]
    <3>1. \A n \in Nat : f[n] = h[n]
      BY <1>6
    <3>2. DOMAIN f = Nat /\ DOMAIN h = Nat
      OBVIOUS
    <3>3. f = [n \in Nat |-> f[n]] /\ h = [n \in Nat |-> h[n]]
      OBVIOUS
    <3> HIDE DEF f, h
    <3>4. f = h
      BY <3>1, <3>3
    <3>5. QED
      BY <3>4 DEF h
  <2> HIDE DEF f
  <2>2. QED
    BY <2>1 DEF SumsOf
<1>8. QED
  BY <1>7

\* The equations of SumTo.
LEMMA SumToStep ==
    ASSUME NEW g
    PROVE  /\ SumTo(g, 0) = 0
           /\ \A n \in Nat : SumTo(g, n + 1) = SumTo(g, n) + g[n + 1]
<1> DEFINE s == CHOOSE s : SumsOf(s, g)
<1>1. \A n \in Nat : SumTo(g, n) = s[n]
  BY DEF SumTo, SumsOf
<1>2. SumsOf(s, g)
  BY SumsExist
<1> HIDE DEF s
<1>3. \A n \in Nat : s[n] = IF n = 0 THEN 0 ELSE s[n - 1] + g[n]
  BY <1>2 DEF SumsOf
<1>4. \A n \in Nat : s[n + 1] = s[n] + g[n + 1]
  BY <1>3
<1>5. QED
  BY <1>1, <1>3, <1>4

\* A sum of natural numbers is one, and depends on what it adds only.
LEMMA SumToNat ==
    ASSUME NEW g, NEW n \in Nat, \A i \in 1..n : g[i] \in Nat
    PROVE  SumTo(g, n) \in Nat
<1> DEFINE T == {k \in Nat : k <= n => SumTo(g, k) \in Nat}
<1>1. 0 \in T
  BY SumToStep
<1>2. ASSUME NEW k \in Nat, k \in T PROVE k + 1 \in T
  <2> SUFFICES ASSUME k + 1 <= n PROVE SumTo(g, k + 1) \in Nat
    OBVIOUS
  <2>1. SumTo(g, k) \in Nat /\ g[k + 1] \in Nat
    BY <1>2
  <2>2. SumTo(g, k + 1) = SumTo(g, k) + g[k + 1]
    BY SumToStep
  <2>3. QED
    BY <2>1, <2>2
<1>3. \A k \in Nat : k \in T
  BY <1>1, <1>2, Induction
<1>4. QED
  BY <1>3

LEMMA SumToSame ==
    ASSUME NEW g, NEW h, NEW n \in Nat, \A i \in 1..n : g[i] = h[i]
    PROVE  SumTo(g, n) = SumTo(h, n)
<1> DEFINE T == {k \in Nat : k <= n => SumTo(g, k) = SumTo(h, k)}
<1>1. 0 \in T
  BY SumToStep
<1>2. ASSUME NEW k \in Nat, k \in T PROVE k + 1 \in T
  <2> SUFFICES ASSUME k + 1 <= n PROVE SumTo(g, k + 1) = SumTo(h, k + 1)
    OBVIOUS
  <2>1. SumTo(g, k) = SumTo(h, k) /\ g[k + 1] = h[k + 1]
    BY <1>2
  <2>2. /\ SumTo(g, k + 1) = SumTo(g, k) + g[k + 1]
        /\ SumTo(h, k + 1) = SumTo(h, k) + h[k + 1]
    BY SumToStep
  <2>3. QED
    BY <2>1, <2>2
<1>3. \A k \in Nat : k \in T
  BY <1>1, <1>2, Induction
<1>4. QED
  BY <1>3

----------------------------------------------------------------------------
(* Sums over a finite set *)

\* The equation of the function SumOver takes its value from.
SumsOverSets(s, g) ==
    s = [S \in SUBSET DOMAIN g |->
            IF S = {} THEN 0
            ELSE LET x == CHOOSE x \in S : TRUE IN g[x] + s[S \ {x}]]

\* Removing an element from a set of n + 1 leaves n.
LEMMA OneLess ==
    ASSUME NEW S, IsFiniteSet(S), NEW x \in S, NEW n \in Nat,
           Cardinality(S) = n + 1
    PROVE  IsFiniteSet(S \ {x}) /\ Cardinality(S \ {x}) = n
<1>1. IsFiniteSet(S \ {x}) /\ Cardinality(S \ {x}) = Cardinality(S) - 1
  BY FS_RemoveElement
<1>2. QED
  BY <1>1

LEMMA SumsOverSetsExist ==
    ASSUME NEW g, IsFiniteSet(DOMAIN g)
    PROVE  \E s : SumsOverSets(s, g)
<1> DEFINE D == DOMAIN g
           Any(S) == CHOOSE x \in S : TRUE
           Upto(s, k) ==
             \A S \in SUBSET D : Cardinality(S) <= k =>
                s[S] = IF S = {} THEN 0 ELSE g[Any(S)] + s[S \ {Any(S)}]
           T == {k \in Nat : \E s : Upto(s, k)}
<1>1. ASSUME NEW S \in SUBSET D
      PROVE  /\ IsFiniteSet(S) /\ Cardinality(S) \in Nat
             /\ Cardinality(S) = 0 <=> S = {}
  BY FS_Subset, FS_CardinalityType, FS_EmptySet
<1>2. ASSUME NEW S \in SUBSET D, S # {}
      PROVE  /\ Any(S) \in S /\ S \ {Any(S)} \in SUBSET D
             /\ Cardinality(S) - 1 \in Nat
             /\ Cardinality(S \ {Any(S)}) = Cardinality(S) - 1
  <2>1. Any(S) \in S
    BY <1>2
  <2> HIDE DEF Any
  <2>2. Cardinality(S) - 1 \in Nat
    BY <1>1, <1>2
  <2>3. Cardinality(S \ {Any(S)}) = Cardinality(S) - 1
    BY <1>1, <2>1, FS_RemoveElement
  <2>4. QED
    BY <2>1, <2>2, <2>3
<1> HIDE DEF Any
<1>3. 0 \in T
  <2>1. Upto([S \in SUBSET D |-> 0], 0)
    BY <1>1
  <2> HIDE DEF Upto
  <2>2. QED
    BY <2>1
<1>4. ASSUME NEW k \in Nat, k \in T PROVE k + 1 \in T
  <2>1. PICK s : Upto(s, k)
    BY <1>4
  <2> DEFINE t == [S \in SUBSET D |->
                     IF Cardinality(S) = k + 1
                     THEN g[Any(S)] + s[S \ {Any(S)}] ELSE s[S]]
  <2>2. ASSUME NEW S \in SUBSET D, Cardinality(S) <= k + 1
        PROVE  t[S] = IF S = {} THEN 0 ELSE g[Any(S)] + t[S \ {Any(S)}]
    <3>1. CASE S = {}
      <4>1. Cardinality(S) = 0 /\ 0 # k + 1
        BY <1>1, <3>1
      <4>2. QED
        BY <2>1, <3>1, <4>1
    <3>2. CASE S # {}
      <4> DEFINE R == S \ {Any(S)}
      <4>1. R \in SUBSET D /\ Cardinality(R) = Cardinality(S) - 1
        BY <1>2, <3>2
      <4>2. Cardinality(R) # k + 1
        BY <1>1, <2>2, <4>1
      <4>3. t[R] = s[R]
        BY <4>1, <4>2
      <4>4. CASE Cardinality(S) = k + 1
        BY <3>2, <4>3, <4>4
      <4>5. CASE Cardinality(S) # k + 1
        <5>1. Cardinality(S) <= k
          BY <1>1, <2>2, <4>5
        <5>2. s[S] = g[Any(S)] + s[R]
          BY <2>1, <3>2, <5>1
        <5>3. QED
          BY <3>2, <4>3, <4>5, <5>2
      <4>6. QED
        BY <4>4, <4>5
    <3>3. QED
      BY <3>1, <3>2
  <2>3. Upto(t, k + 1)
    <3> HIDE DEF t
    <3>1. QED
      BY <2>2
  <2> HIDE DEF t, Upto
  <2>4. QED
    BY <2>3
<1>5. PICK s : Upto(s, Cardinality(D))
  <2>1. Cardinality(D) \in Nat
    BY FS_CardinalityType
  <2>2. \A k \in Nat : k \in T
    <3> HIDE DEF T
    <3>1. QED
      BY <1>3, <1>4, Induction
  <2>3. QED
    BY <2>1, <2>2
<1> DEFINE f == [S \in SUBSET D |-> s[S]]
<1>6. ASSUME NEW S \in SUBSET D
      PROVE  f[S] = IF S = {} THEN 0 ELSE g[Any(S)] + f[S \ {Any(S)}]
  <2>1. Cardinality(S) <= Cardinality(D)
    BY FS_Subset
  <2>2. QED
    BY <1>5, <2>1
<1>7. f = [S \in SUBSET D |->
             IF S = {} THEN 0 ELSE g[Any(S)] + f[S \ {Any(S)}]]
  <2> DEFINE h == [S \in SUBSET D |->
                     IF S = {} THEN 0 ELSE g[Any(S)] + f[S \ {Any(S)}]]
  <2>1. \A S \in SUBSET D : f[S] = h[S]
    BY <1>6
  <2>2. f = [S \in SUBSET D |-> f[S]] /\ h = [S \in SUBSET D |-> h[S]]
    OBVIOUS
  <2> HIDE DEF f, h
  <2>3. f = h
    BY <2>1, <2>2
  <2>4. QED
    BY <2>3 DEF h
<1> HIDE DEF f
<1>8. SumsOverSets(f, g)
  BY <1>7 DEF SumsOverSets, Any
<1>9. QED
  BY <1>8

\* The order in which a sum of natural numbers takes its terms is no matter.
LEMMA AnyTermFirst ==
    ASSUME NEW g, IsFiniteSet(DOMAIN g), \A x \in DOMAIN g : g[x] \in Nat,
           NEW s, SumsOverSets(s, g)
    PROVE  \A S \in SUBSET DOMAIN g :
              /\ s[S] \in Nat
              /\ S = {} => s[S] = 0
              /\ \A x \in S : s[S] = g[x] + s[S \ {x}]
<1> DEFINE D == DOMAIN g
           Any(S) == CHOOSE x \in S : TRUE
           Good(S) == s[S] \in Nat /\ \A x \in S : s[S] = g[x] + s[S \ {x}]
           T == {n \in Nat : \A S \in SUBSET D : Cardinality(S) <= n => Good(S)}
<1>1. \A S \in SUBSET D : s[S] = IF S = {} THEN 0 ELSE g[Any(S)] + s[S \ {Any(S)}]
  BY DEF SumsOverSets
<1>2. \A S \in SUBSET D : /\ IsFiniteSet(S) /\ Cardinality(S) \in Nat
                          /\ Cardinality(S) = 0 <=> S = {}
  BY FS_Subset, FS_CardinalityType, FS_EmptySet
<1>3. \A S : S # {} => Any(S) \in S
  OBVIOUS
<1> HIDE DEF Any
<1>4. 0 \in T
  <2>1. \A S \in SUBSET D : Cardinality(S) <= 0 => S = {}
    BY <1>2
  <2>2. s[{}] = 0
    BY <1>1
  <2>3. Good({})
    BY <2>2
  <2> HIDE DEF Good
  <2>4. QED
    BY <2>1, <2>3
<1>5. ASSUME NEW n \in Nat, n \in T PROVE n + 1 \in T
  <2> SUFFICES ASSUME NEW S \in SUBSET D, Cardinality(S) = n + 1 PROVE Good(S)
    <3> HIDE DEF Good
    <3>1. \A S \in SUBSET D : Cardinality(S) <= n + 1 =>
             Cardinality(S) <= n \/ Cardinality(S) = n + 1
      BY <1>2
    <3>2. QED
      BY <1>5, <3>1
  <2> DEFINE y == Any(S)
  <2>1. S # {} /\ y \in S /\ g[y] \in Nat
    BY <1>2, <1>3
  <2>2. ASSUME NEW x \in S
        PROVE  S \ {x} \in SUBSET D /\ Cardinality(S \ {x}) = n
    BY <1>2, OneLess
  <2>3. ASSUME NEW x \in S
        PROVE  /\ s[S \ {x}] \in Nat
               /\ \A z \in S \ {x} : s[S \ {x}] = g[z] + s[(S \ {x}) \ {z}]
    <3>1. Good(S \ {x})
      BY <1>5, <2>2
    <3>2. QED
      BY <3>1
  <2>4. s[S] = g[y] + s[S \ {y}] /\ s[S \ {y}] \in Nat
    BY <1>1, <2>1, <2>3
  <2> HIDE DEF y
  <2>5. s[S] \in Nat
    BY <2>1, <2>4
  <2>6. ASSUME NEW x \in S PROVE s[S] = g[x] + s[S \ {x}]
    <3>1. CASE x = y
      BY <2>4, <3>1
    <3>2. CASE x # y
      <4> DEFINE R == (S \ {x}) \ {y}
      <4>1. R = (S \ {y}) \ {x} /\ y \in S \ {x} /\ x \in S \ {y}
        BY <2>1, <3>2
      <4>2. s[S \ {x}] = g[y] + s[R] /\ s[S \ {y}] = g[x] + s[R]
        BY <2>1, <2>3, <4>1
      <4>3. s[R] \in Nat
        <5>1. IsFiniteSet(S \ {x}) /\ Cardinality(S \ {x}) = n
          BY <1>2, <2>2
        <5>2. Cardinality(R) = n - 1
          BY <4>1, <5>1, FS_RemoveElement
        <5>3. R \in SUBSET D /\ Cardinality(R) <= n
          BY <5>2
        <5> HIDE DEF R
        <5>4. Good(R)
          BY <1>5, <5>3
        <5>5. QED
          BY <5>4
      <4> HIDE DEF R
      <4>4. g[x] \in Nat
        OBVIOUS
      <4>5. QED
        BY <2>1, <2>4, <4>2, <4>3, <4>4
    <3>3. QED
      BY <3>1, <3>2
  <2>7. QED
    BY <2>5, <2>6
<1>6. \A n \in Nat : n \in T
  <2> HIDE DEF T
  <2>1. QED
    BY <1>4, <1>5, Induction
<1>7. ASSUME NEW S \in SUBSET D PROVE Good(S)
  <2> HIDE DEF Good
  <2>1. QED
    BY <1>2, <1>6
<1>8. s[{}] = 0
  BY <1>1
<1>9. QED
  BY <1>7, <1>8

\* The values of g over numbered elements of its domain, taken by number.
LEMMA SumByNumber ==
    ASSUME NEW g, IsFiniteSet(DOMAIN g), \A x \in DOMAIN g : g[x] \in Nat,
           NEW n \in Nat, NEW at, NEW h,
           DOMAIN g = {at[i] : i \in 1..n},
           \A i, j \in 1..n : at[i] = at[j] => i = j,
           \A i \in 1..n : h[i] = g[at[i]]
    PROVE  SumOver(g) = SumTo(h, n)
<1> DEFINE s == CHOOSE s : SumsOverSets(s, g)
           First(k) == {at[i] : i \in 1..k}
           T == {k \in Nat : k <= n => s[First(k)] = SumTo(h, k)}
<1>1. SumOver(g) = s[DOMAIN g]
  BY DEF SumOver, SumsOverSets
<1>2. SumsOverSets(s, g)
  BY SumsOverSetsExist
<1> HIDE DEF s
<1>3. \A S \in SUBSET DOMAIN g : /\ S = {} => s[S] = 0
                                 /\ \A x \in S : s[S] = g[x] + s[S \ {x}]
                                 /\ s[S] \in Nat
  BY <1>2, AnyTermFirst
<1>4. 0 \in T
  <2>1. First(0) = {} /\ SumTo(h, 0) = 0
    BY SumToStep
  <2>2. QED
    BY <1>3, <2>1
<1>5. ASSUME NEW k \in Nat, k \in T PROVE k + 1 \in T
  <2> SUFFICES ASSUME k + 1 <= n PROVE s[First(k + 1)] = SumTo(h, k + 1)
    OBVIOUS
  <2> DEFINE x == at[k + 1]
  <2>1. /\ First(k + 1) \in SUBSET DOMAIN g /\ First(k) \in SUBSET DOMAIN g
        /\ x \in First(k + 1) /\ First(k + 1) \ {x} = First(k)
    OBVIOUS
  <2>2. s[First(k)] = SumTo(h, k) /\ s[First(k)] \in Nat
    BY <1>3, <1>5, <2>1
  <2>3. h[k + 1] = g[x] /\ g[x] \in Nat
    BY <2>1
  <2>4. SumTo(h, k + 1) = SumTo(h, k) + h[k + 1]
    BY SumToStep
  <2> HIDE DEF First, x
  <2>5. s[First(k + 1)] = g[x] + s[First(k)]
    BY <1>3, <2>1
  <2>6. QED
    BY <2>2, <2>3, <2>4, <2>5
<1>6. \A k \in Nat : k \in T
  <2> HIDE DEF T
  <2>1. QED
    BY <1>4, <1>5, Induction
<1>7. s[First(n)] = SumTo(h, n)
  BY <1>6
<1>8. QED
  BY <1>1, <1>7
=============================================================================
