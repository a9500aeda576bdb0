----------------------------- MODULE Portal_proofs -----------------------------
(***************************************************************************)
(* Proofs about the portal, for any rows, filters, page size and number of *)
(* writes: what a walk over the queue may miss, that the dashboard and the *)
(* charts add up, and that the pages agree about a table.  The walk rests  *)
(* on an inductive invariant (PortalInv: the queue keeps what the walk     *)
(* began with, and what of it is behind the walk has been shown), orders   *)
(* on the ranks of their elements (OrderedIs), and sums on a recursion     *)
(* over subsets that has least counterexamples (SumOfParts).               *)
(***************************************************************************)
EXTENDS Portal, FiniteSetTheorems, SequenceTheorems, WellFoundedInduction, NaturalsInduction, TLAPS

-----------------------------------------------------------------------------
(* Orders of numbers.                                                      *)

\* A set of natural numbers has a least one.
LEMMA LeastOf ==
  ASSUME NEW S \in SUBSET Nat, S # {}
  PROVE  \E m \in S : \A k \in S : m <= k
<1>1. PICK m \in S : \A k \in S : ~(<<k, m>> \in OpToRel(<, Nat))
  BY NatLessThanWellFounded, WFMin, Zenon
<1>2. \A k \in S : ~(k < m)
  BY <1>1, Zenon DEF OpToRel
<1>3. QED
  BY <1>2

\* Keys of one length are ordered: none precedes itself,
LEMMA PrecedesIrreflexive ==
  ASSUME NEW L \in Nat, NEW j \in [1 .. L -> Int]
  PROVE  ~Precedes(j, j)
BY DEF Precedes

\* what precedes one that precedes a third precedes it,
LEMMA PrecedesTransitive ==
  ASSUME NEW L \in Nat, NEW j \in [1 .. L -> Int], NEW k \in [1 .. L -> Int], NEW l \in [1 .. L -> Int],
         Precedes(j, k), Precedes(k, l)
  PROVE  Precedes(j, l)
<1>1. PICK m \in 1 .. L : j[m] > k[m] /\ \A i \in 1 .. m - 1 : j[i] = k[i]
  BY DEF Precedes
<1>2. PICK n \in 1 .. L : k[n] > l[n] /\ \A i \in 1 .. n - 1 : k[i] = l[i]
  BY DEF Precedes
<1>3. CASE m <= n
  <2>1. j[m] > l[m] /\ \A i \in 1 .. m - 1 : j[i] = l[i]
    BY <1>1, <1>2, <1>3
  <2>2. QED
    BY <2>1 DEF Precedes
<1>4. CASE n < m
  <2>1. j[n] > l[n] /\ \A i \in 1 .. n - 1 : j[i] = l[i]
    BY <1>1, <1>2, <1>4
  <2>2. QED
    BY <2>1 DEF Precedes
<1>5. QED
  BY <1>3, <1>4

\* and of two that differ one precedes the other.
LEMMA PrecedesTotal ==
  ASSUME NEW L \in Nat, NEW j \in [1 .. L -> Int], NEW k \in [1 .. L -> Int], j # k
  PROVE  Precedes(j, k) \/ Precedes(k, j)
<1> DEFINE D == {n \in 1 .. L : j[n] # k[n]}
<1>1. D \in SUBSET Nat /\ D # {}
  OBVIOUS
<1>2. PICK n \in D : \A m \in D : n <= m
  BY <1>1, LeastOf, Zenon
<1>3. n \in 1 .. L /\ j[n] # k[n] /\ \A m \in 1 .. n - 1 : j[m] = k[m]
  BY <1>2
<1>4. DOMAIN j = 1 .. L /\ DOMAIN k = 1 .. L /\ (j[n] > k[n] \/ k[n] > j[n])
  BY <1>3
<1>5. CASE j[n] > k[n]
  BY <1>3, <1>4, <1>5, Zenon DEF Precedes
<1>6. CASE k[n] > j[n]
  <2>1. \A m \in 1 .. n - 1 : k[m] = j[m]
    BY <1>3
  <2>2. QED
    BY <1>3, <1>4, <1>6, <2>1, Zenon DEF Precedes
<1>7. QED
  BY <1>4, <1>5, <1>6

\* Keys that can be compared.
Keyed(S, key) == \E L \in Nat : \A x \in S : key[x] \in [1 .. L -> Int]

\* With the identifier as the last resort, the elements are ordered.
LEMMA SoonerOrders ==
  ASSUME NEW S \in SUBSET Int, NEW key, Keyed(S, key)
  PROVE  /\ \A x \in S : ~Sooner(key, x, x)
         /\ \A x, y, z \in S : Sooner(key, x, y) /\ Sooner(key, y, z) => Sooner(key, x, z)
         /\ \A x, y \in S : x # y => Sooner(key, x, y) \/ Sooner(key, y, x)
<1>1. PICK L \in Nat : \A x \in S : key[x] \in [1 .. L -> Int]
  BY DEF Keyed
<1>2. ASSUME NEW x \in S
      PROVE  ~Sooner(key, x, x)
  <2>1. ~Precedes(key[x], key[x])
    BY <1>1, PrecedesIrreflexive
  <2>2. QED
    BY <2>1 DEF Sooner
<1>3. ASSUME NEW x \in S, NEW y \in S, NEW z \in S, Sooner(key, x, y), Sooner(key, y, z)
      PROVE  Sooner(key, x, z)
  <2>1. Precedes(key[x], key[y]) /\ Precedes(key[y], key[z]) => Precedes(key[x], key[z])
    BY <1>1, PrecedesTransitive
  <2>2. \/ Precedes(key[x], key[y])
        \/ key[x] = key[y] /\ x > y
    BY <1>3 DEF Sooner
  <2>3. \/ Precedes(key[y], key[z])
        \/ key[y] = key[z] /\ y > z
    BY <1>3 DEF Sooner
  <2>4. CASE Precedes(key[x], key[y])
    <3>1. Precedes(key[x], key[z])
      BY <2>1, <2>3, <2>4
    <3>2. QED
      BY <3>1 DEF Sooner
  <2>5. CASE key[x] = key[y] /\ x > y
    <3>1. Precedes(key[x], key[z]) \/ (key[x] = key[z] /\ x > z)
      BY <2>3, <2>5
    <3>2. QED
      BY <3>1 DEF Sooner
  <2>6. QED
    BY <2>2, <2>4, <2>5
<1>4. ASSUME NEW x \in S, NEW y \in S, x # y
      PROVE  Sooner(key, x, y) \/ Sooner(key, y, x)
  <2>1. CASE key[x] = key[y]
    BY <1>4, <2>1 DEF Sooner
  <2>2. CASE key[x] # key[y]
    <3>1. Precedes(key[x], key[y]) \/ Precedes(key[y], key[x])
      BY <1>1, <2>2, PrecedesTotal
    <3>2. QED
      BY <3>1 DEF Sooner
  <2>3. QED
    BY <2>1, <2>2
<1>5. QED
  BY <1>2, <1>3, <1>4

\* How many come sooner than x.
Sooners(S, key, x) == {y \in S : Sooner(key, y, x)}

\* An element has fewer sooner ones than any that comes after it.
LEMMA SoonersCount ==
  ASSUME NEW S \in SUBSET Int, NEW key, Keyed(S, key), IsFiniteSet(S), NEW x \in S, NEW y \in S
  PROVE  /\ Cardinality(Sooners(S, key, x)) \in 0 .. Cardinality(S) - 1
         /\ Sooner(key, x, y) => Cardinality(Sooners(S, key, x)) < Cardinality(Sooners(S, key, y))
<1>1. \A z \in S : IsFiniteSet(Sooners(S, key, z)) /\ Cardinality(Sooners(S, key, z)) \in Nat
  BY FS_Subset, FS_CardinalityType DEF Sooners
<1>2. Cardinality(Sooners(S, key, x)) <= Cardinality(S) - 1
  <2>1. x \notin Sooners(S, key, x)
    BY SoonerOrders DEF Sooners
  <2>2. Sooners(S, key, x) \in SUBSET (S \ {x})
    BY <2>1 DEF Sooners
  <2>3. IsFiniteSet(S \ {x}) /\ Cardinality(S \ {x}) = Cardinality(S) - 1
    BY FS_RemoveElement
  <2>4. QED
    BY <2>2, <2>3, FS_Subset
<1>3. Cardinality(S) \in Nat
  BY FS_CardinalityType
<1>4. ASSUME Sooner(key, x, y)
      PROVE  Cardinality(Sooners(S, key, x)) < Cardinality(Sooners(S, key, y))
  <2>1. x \notin Sooners(S, key, x) /\ x \in Sooners(S, key, y)
    BY <1>4, SoonerOrders DEF Sooners
  <2>2. Sooners(S, key, x) \in SUBSET Sooners(S, key, y)
    <3>1. ASSUME NEW z \in S, Sooner(key, z, x)
          PROVE  Sooner(key, z, y)
      BY <1>4, <3>1, SoonerOrders
    <3>2. QED
      BY <3>1 DEF Sooners
  <2>3. Cardinality(Sooners(S, key, x)) # Cardinality(Sooners(S, key, y))
    BY <2>1, <2>2, <1>1, FS_Subset
  <2>4. Cardinality(Sooners(S, key, x)) <= Cardinality(Sooners(S, key, y))
    BY <2>2, <1>1, FS_Subset
  <2>5. QED
    BY <1>1, <2>3, <2>4
<1>5. QED
  BY <1>1, <1>2, <1>3, <1>4

\* What Ordered returns: every element once, and the sooner ones first.
LEMMA OrderedIs ==
  ASSUME NEW S \in SUBSET Int, NEW key, Keyed(S, key), IsFiniteSet(S)
  PROVE  /\ Cardinality(S) \in Nat
         /\ Ordered(S, key) \in [1 .. Cardinality(S) -> S]
         /\ \A x \in S : \E n \in 1 .. Cardinality(S) : Ordered(S, key)[n] = x
         /\ \A m, n \in 1 .. Cardinality(S) : m < n <=> Sooner(key, Ordered(S, key)[m], Ordered(S, key)[n])
<1> DEFINE c == Cardinality(S)
           r == [x \in S |-> Cardinality({y \in S : Sooner(key, y, x)})]
           o == Ordered(S, key)
<1>1. \A x \in S : r[x] = Cardinality(Sooners(S, key, x))
  BY DEF Sooners
<1>2. c \in Nat /\ r \in [S -> 0 .. c - 1]
  BY <1>1, FS_CardinalityType, SoonersCount
<1>3. \A x, y \in S : Sooner(key, x, y) => r[x] < r[y]
  BY <1>1, SoonersCount
<1>4. \A x, y \in S : x # y => r[x] # r[y]
  BY <1>2, <1>3, SoonerOrders
<1>5. o = [n \in 1 .. c |-> CHOOSE x \in S : r[x] = n - 1]
  BY DEF Ordered
<1>c. c = Cardinality(S)
  OBVIOUS
<1> HIDE DEF r, o, c
<1>6. r \in Injection(S, 0 .. c - 1)
  BY <1>2, <1>4 DEF Injection, IsInjective
<1>7. r \in Surjection(S, 0 .. c - 1)
  <2>1. IsFiniteSet(0 .. c - 1) /\ Cardinality(0 .. c - 1) = c
    BY <1>2, FS_Interval
  <2>2. QED
    BY <1>6, <1>c, <2>1, FS_Injection, Zenon
<1>8. \A n \in 1 .. c : o[n] \in S /\ r[o[n]] = n - 1
  <2>1. ASSUME NEW n \in 1 .. c
        PROVE  o[n] \in S /\ r[o[n]] = n - 1
    <3>1. n - 1 \in 0 .. c - 1
      BY <1>2
    <3>2. PICK x \in S : r[x] = n - 1
      BY <1>7, <3>1 DEF Surjection
    <3>3. o[n] = CHOOSE z \in S : r[z] = n - 1
      BY <1>5
    <3>4. QED
      BY <3>2, <3>3, Zenon
  <2>2. QED
    BY <2>1
<1>9. \A x \in S : r[x] + 1 \in 1 .. c /\ o[r[x] + 1] = x
  <2>1. ASSUME NEW x \in S
        PROVE  r[x] + 1 \in 1 .. c /\ o[r[x] + 1] = x
    <3>1. r[x] + 1 \in 1 .. c /\ (r[x] + 1) - 1 = r[x]
      BY <1>2
    <3>2. o[r[x] + 1] \in S /\ r[o[r[x] + 1]] = r[x]
      BY <1>8, <3>1
    <3>3. QED
      BY <1>4, <3>1, <3>2
  <2>2. QED
    BY <2>1
<1>10. \A m, n \in 1 .. c : m < n => Sooner(key, o[m], o[n])
  <2>1. ASSUME NEW m \in 1 .. c, NEW n \in 1 .. c, m < n
        PROVE  Sooner(key, o[m], o[n])
    <3>1. o[m] # o[n] /\ ~(r[o[n]] < r[o[m]])
      BY <1>8, <2>1
    <3>2. QED
      BY <1>3, <1>8, <3>1, SoonerOrders
  <2>2. QED
    BY <2>1
<1>11. \A m, n \in 1 .. c : Sooner(key, o[m], o[n]) => m < n
  <2>1. ASSUME NEW m \in 1 .. c, NEW n \in 1 .. c, Sooner(key, o[m], o[n])
        PROVE  m < n
    <3>1. r[o[m]] < r[o[n]]
      BY <1>3, <1>8, <2>1
    <3>2. QED
      BY <1>2, <1>8, <3>1
  <2>2. QED
    BY <2>1
<1>12. o \in [1 .. c -> S]
  BY <1>5, <1>8
<1>13. \A x \in S : \E n \in 1 .. c : o[n] = x
  BY <1>9
<1>14. QED
  BY <1>2, <1>10, <1>11, <1>12, <1>13 DEF o, c

-----------------------------------------------------------------------------
(* Lists and their pages.                                                  *)

\* Sequences without repetition: a lists X in some order.
Lists(s, X) ==
  \E n \in Nat :
    /\ s \in [1 .. n -> X]
    /\ \A i, j \in 1 .. n : s[i] = s[j] => i = j

\* A list keeps itself,
LEMMA KeptReflexive ==
  ASSUME NEW X, NEW s, Lists(s, X)
  PROVE  Kept(s, s)
BY DEF Kept, Lists, Range

\* and what one keeps that a third keeps is kept.
LEMMA KeptTransitive ==
  ASSUME NEW r, NEW s, NEW t, Kept(r, s), Kept(s, t)
  PROVE  Kept(r, t)
<1>1. Range(r) \subseteq Range(t)
  BY DEF Kept
<1>2. ASSUME NEW m \in DOMAIN r, NEW n \in DOMAIN r, m < n
      PROVE  \E k, l \in DOMAIN t : k < l /\ t[k] = r[m] /\ t[l] = r[n]
  <2>1. PICK k \in DOMAIN s, l \in DOMAIN s : k < l /\ s[k] = r[m] /\ s[l] = r[n]
    BY <1>2, Zenon DEF Kept
  <2>2. PICK i \in DOMAIN t, j \in DOMAIN t : i < j /\ t[i] = s[k] /\ t[j] = s[l]
    BY <2>1, Zenon DEF Kept
  <2>3. QED
    BY <2>1, <2>2
<1>3. QED
  BY <1>1, <1>2, Zenon DEF Kept

\* What is kept has as much before it, or more: it only moves to the right.
LEMMA KeptMovesRight ==
  ASSUME NEW X, NEW s, NEW t, Lists(s, X), Lists(t, X), Kept(s, t),
         NEW m \in DOMAIN s, NEW k \in DOMAIN t, t[k] = s[m]
  PROVE  m <= k
<1>1. PICK a \in Nat : s \in [1 .. a -> X] /\ \A i, j \in 1 .. a : s[i] = s[j] => i = j
  BY DEF Lists
<1>2. PICK b \in Nat : t \in [1 .. b -> X] /\ \A i, j \in 1 .. b : t[i] = t[j] => i = j
  BY DEF Lists
<1>3. ASSUME NEW i \in 1 .. m
      PROVE  \E j \in 1 .. k : t[j] = s[i]
  <2>1. CASE i = m
    BY <1>1, <1>2, <2>1
  <2>2. CASE i < m
    <3>1. i \in DOMAIN s
      BY <1>1, <2>2
    <3>2. PICK j \in DOMAIN t, l \in DOMAIN t : j < l /\ t[j] = s[i] /\ t[l] = s[m]
      BY <2>2, <3>1, Zenon DEF Kept
    <3>3. l = k
      BY <1>2, <3>2
    <3>4. QED
      BY <1>2, <3>2, <3>3
  <2>3. QED
    BY <1>1, <2>1, <2>2
<1> DEFINE f == [i \in 1 .. m |-> CHOOSE j \in 1 .. k : t[j] = s[i]]
<1>4. \A i \in 1 .. m : f[i] \in 1 .. k /\ t[f[i]] = s[i]
  <2>1. ASSUME NEW i \in 1 .. m
        PROVE  f[i] \in 1 .. k /\ t[f[i]] = s[i]
    <3>1. f[i] = CHOOSE j \in 1 .. k : t[j] = s[i]
      OBVIOUS
    <3>2. QED
      BY <1>3, <3>1, Zenon
  <2>2. QED
    BY <2>1
<1>5. f \in [1 .. m -> 1 .. k]
  BY <1>4
<1> HIDE DEF f
<1>6. f \in Injection(1 .. m, 1 .. k)
  <2>1. ASSUME NEW i \in 1 .. m, NEW j \in 1 .. m, f[i] = f[j]
        PROVE  i = j
    BY <1>1, <1>4, <2>1
  <2>2. QED
    BY <1>5, <2>1 DEF Injection, IsInjective
<1>7. m \in Nat /\ k \in Nat
  BY <1>1, <1>2
<1>8. QED
  <2>1. \A n \in Nat : IsFiniteSet(1 .. n) /\ Cardinality(1 .. n) = n
    <3>1. ASSUME NEW n \in Nat
          PROVE  IsFiniteSet(1 .. n) /\ Cardinality(1 .. n) = IF 1 > n THEN 0 ELSE n - 1 + 1
      BY FS_Interval
    <3>2. QED
      BY <3>1
  <2>2. Cardinality(1 .. m) <= Cardinality(1 .. k)
    BY <1>6, <1>7, <2>1, FS_Injection, Zenon
  <2>3. QED
    BY <1>7, <2>1, <2>2

\* Where nothing came either, nothing changed.
LEMMA KeptSame ==
  ASSUME NEW X, NEW s, NEW t, Lists(s, X), Lists(t, X), Kept(s, t), Range(t) \subseteq Range(s)
  PROVE  t = s
<1>1. PICK a \in Nat : s \in [1 .. a -> X] /\ \A i, j \in 1 .. a : s[i] = s[j] => i = j
  BY DEF Lists
<1>2. PICK b \in Nat : t \in [1 .. b -> X] /\ \A i, j \in 1 .. b : t[i] = t[j] => i = j
  BY DEF Lists
<1>3. Kept(t, s)
  <2>1. ASSUME NEW k \in DOMAIN t, NEW l \in DOMAIN t, k < l
        PROVE  \E m, n \in DOMAIN s : m < n /\ s[m] = t[k] /\ s[n] = t[l]
    <3>1. PICK m \in DOMAIN s : s[m] = t[k]
      BY DEF Range
    <3>2. PICK n \in DOMAIN s : s[n] = t[l]
      BY DEF Range
    <3>3. m # n
      BY <1>2, <2>1, <3>1, <3>2
    <3>4. ~(n < m)
      <4>1. SUFFICES ASSUME n < m
                     PROVE  FALSE
        OBVIOUS
      <4>2. PICK i \in DOMAIN t, j \in DOMAIN t : i < j /\ t[i] = s[n] /\ t[j] = s[m]
        BY <4>1, Zenon DEF Kept
      <4>3. i = l /\ j = k
        BY <1>2, <3>1, <3>2, <4>2
      <4>4. QED
        BY <1>2, <2>1, <4>2, <4>3
    <3>5. m < n
      BY <1>1, <3>3, <3>4
    <3>6. QED
      BY <3>1, <3>2, <3>5
  <2>2. QED
    BY <2>1, Zenon DEF Kept
<1>4. \A m \in DOMAIN s : m \in DOMAIN t /\ t[m] = s[m]
  <2>1. ASSUME NEW m \in DOMAIN s
        PROVE  m \in DOMAIN t /\ t[m] = s[m]
    <3>1. PICK k \in DOMAIN t : t[k] = s[m]
      BY DEF Kept, Range
    <3>2. m <= k /\ k <= m
      BY <1>3, <3>1, KeptMovesRight
    <3>3. m = k
      BY <1>1, <1>2, <3>2
    <3>4. QED
      BY <3>1, <3>3
  <2>2. QED
    BY <2>1
<1>5. \A k \in DOMAIN t : k \in DOMAIN s
  <2>1. ASSUME NEW k \in DOMAIN t
        PROVE  k \in DOMAIN s
    <3>1. PICK m \in DOMAIN s : s[m] = t[k]
      BY DEF Range
    <3>2. m \in DOMAIN t /\ t[m] = s[m]
      BY <1>4
    <3>3. m = k
      BY <1>2, <3>1, <3>2
    <3>4. QED
      BY <3>3
  <2>2. QED
    BY <2>1
<1>6. DOMAIN s = DOMAIN t
  BY <1>4, <1>5
<1>7. QED
  BY <1>1, <1>2, <1>4, <1>6

\* The products of the pages.
LEMMA NextPage ==
  ASSUME NEW p \in Nat, NEW z \in Nat
  PROVE  p * z \in Nat /\ (p + 1) * z = p * z + z
OBVIOUS

\* More pages hold no fewer places.
LEMMA Times ==
  ASSUME NEW p \in Nat, NEW q \in Nat, NEW z \in Nat, q <= p
  PROVE  q * z <= p * z
<1>1. PICK d \in Nat : p = q + d
  <2>1. p - q \in Nat /\ p = q + (p - q)
    OBVIOUS
  <2>2. QED
    BY <2>1
<1>2. (q + d) * z = q * z + d * z /\ d * z \in Nat /\ q * z \in Nat
  OBVIOUS
<1>3. QED
  BY <1>1, <1>2

\* What the quotient of places and page size is.
LEMMA Quotient ==
  ASSUME NEW n \in Nat, NEW z \in Nat \ {0}
  PROVE  n \div z \in Nat /\ (n \div z) * z <= n /\ n < (n \div z) * z + z
OBVIOUS

\* Where there is no next page, the list has been shown.
LEMMA LastPageReached ==
  ASSUME NEW n \in Nat, NEW z \in Nat \ {0}, NEW p \in Nat \ {0}, ~(p < TotalPages(n, z))
  PROVE  n <= p * z
<1> DEFINE d == (n + z - 1) \div z
<1>0. n + z - 1 \in Nat
  OBVIOUS
<1>1. d \in Nat /\ d * z <= n + z - 1 /\ n + z - 1 < d * z + z
  BY <1>0, Quotient
<1>2. CASE n > 0
  <2>1. d <= p
    BY <1>1, <1>2 DEF TotalPages
  <2>2. d * z <= p * z
    BY <1>1, <2>1, Times
  <2>3. d * z \in Nat /\ p * z \in Nat
    BY <1>1, NextPage
  <2> HIDE DEF d
  <2>4. QED
    BY <1>1, <2>2, <2>3
<1>3. CASE n = 0
  BY <1>3, NextPage
<1>4. QED
  BY <1>2, <1>3

\* The first pages of a sequence and the next one.
Shorter(m, n) == IF m < n THEN m ELSE n

\* The page that shows the list from where the first p - 1 end.
Follow(items, q, X, p, z) ==
  /\ items \in Seq(X)
  /\ \A k \in DOMAIN q : p * z - z < k /\ k <= p * z => q[k] \in Range(items)
  /\ SubSeq(q, 1, Shorter(p * z - z, Len(q))) \o items = SubSeq(q, 1, Shorter(p * z, Len(q)))

\* Showing a page after the ones before it shows the list that far.
LEMMA OnePageMore ==
  ASSUME NEW X, NEW q \in Seq(X), NEW n, NEW p \in Nat \ {0}, NEW z \in Nat \ {0}
  PROVE  Follow(Page(q, n, p, z).items, q, X, p, z)
<1>1. PICK e \in Nat : e = p * z - z
  <2>1. p - 1 \in Nat /\ p = (p - 1) + 1
    OBVIOUS
  <2>2. (p - 1) * z \in Nat /\ p * z = (p - 1) * z + z
    BY <2>1, NextPage
  <2>3. QED
    BY <2>2
<1>2. p * z = e + z
  BY <1>1, NextPage
<1>3. PICK l \in Nat : l = Shorter(e + z, Len(q))
  BY DEF Shorter
<1>4. Page(q, n, p, z).items = SubSeq(q, e + 1, l)
  BY <1>1, <1>2, <1>3 DEF Page, Shorter
<1>5. SubSeq(q, e + 1, l) \in Seq(X)
  BY <1>3 DEF Shorter
<1>6. \A k \in DOMAIN q : e < k /\ k <= e + z => q[k] \in Range(SubSeq(q, e + 1, l))
  <2>1. ASSUME NEW k \in DOMAIN q, e < k, k <= e + z
        PROVE  q[k] \in Range(SubSeq(q, e + 1, l))
    <3>1. k - e \in DOMAIN SubSeq(q, e + 1, l) /\ SubSeq(q, e + 1, l)[k - e] = q[k]
      BY <1>3, <2>1 DEF Shorter
    <3>2. QED
      BY <3>1 DEF Range
  <2>2. QED
    BY <2>1
<1>7. SubSeq(q, 1, Shorter(e, Len(q))) \o SubSeq(q, e + 1, l) = SubSeq(q, 1, l)
  <2>1. CASE e <= Len(q)
    <3>1. Shorter(e, Len(q)) = e /\ e <= l /\ l <= Len(q)
      BY <1>3, <2>1 DEF Shorter
    <3>2. QED
      BY <3>1
  <2>2. CASE Len(q) < e
    <3>1. Shorter(e, Len(q)) = Len(q) /\ l = Len(q)
      BY <1>3, <2>2 DEF Shorter
    <3>2. SubSeq(q, e + 1, l) = <<>> /\ SubSeq(q, 1, l) \in Seq(X)
      BY <2>2, <3>1
    <3>3. Shorter(e, Len(q)) = l
      BY <3>1
    <3>4. SubSeq(q, 1, l) \o <<>> = SubSeq(q, 1, l)
      BY <3>2
    <3>5. QED
      BY <3>2, <3>3, <3>4, Zenon
  <2>3. e <= Len(q) \/ Len(q) < e
    OBVIOUS
  <2>4. QED
    BY <2>1, <2>2, <2>3, Zenon
<1>8. p * z - z = e
  BY <1>1
<1>9. QED
  BY <1>2, <1>3, <1>4, <1>5, <1>6, <1>7, <1>8 DEF Follow

\* What page k of those that show h holds.
PageOf(shown, h, n, k, z) ==
  /\ DOMAIN shown = 1 .. Shorter(k * z, n) - (k * z - z)
  /\ \A m \in DOMAIN shown : shown[m] = h[k * z - z + m]

\* A sequence shown in pages is shown once and whole.
LEMMA PagesShow ==
  ASSUME NEW n \in Nat, NEW z \in Nat \ {0}, NEW h, DOMAIN h = 1 .. n,
         NEW pages, DOMAIN pages = 1 .. TotalPages(n, z),
         \A k \in DOMAIN pages : PageOf(pages[k], h, n, k, z)
  PROVE  Range(OnPages(pages)) = Range(h) /\ (IsInjective(h) => IsInjective(OnPages(pages)))
<1> DEFINE places == UNION {{<<k, m>> : m \in DOMAIN pages[k]} : k \in DOMAIN pages}
           o == OnPages(pages)
           at(k, m) == k * z - z + m
<1>0. \A k \in DOMAIN pages :
        /\ DOMAIN pages[k] = 1 .. Shorter(k * z, n) - (k * z - z)
        /\ \A m \in DOMAIN pages[k] : pages[k][m] = h[k * z - z + m]
  BY Zenon DEF PageOf
<1>1. DOMAIN o = places /\ \A p \in places : o[p] = pages[p[1]][p[2]]
  BY DEF OnPages
<1>2. ASSUME NEW k \in DOMAIN pages, NEW m \in DOMAIN pages[k]
      PROVE  /\ <<k, m>> \in places /\ k \in Nat \ {0} /\ m \in 1 .. z /\ at(k, m) \in 1 .. n
             /\ o[<<k, m>>] = h[at(k, m)]
  <2>1. <<k, m>> \in places /\ o[<<k, m>>] = pages[k][m]
    BY <1>1
  <2>0. pages[k][m] = h[at(k, m)]
    BY <1>0
  <2>2. k \in Nat \ {0}
    BY DEF TotalPages
  <2>3. PICK a \in Nat : a = k * z
    BY <2>2, NextPage
  <2>4. PICK b \in Nat : b = k * z - z
    <3>1. k - 1 \in Nat /\ k = (k - 1) + 1
      BY <2>2
    <3>2. (k - 1) * z \in Nat /\ k * z = (k - 1) * z + z
      BY <3>1, NextPage
    <3>3. QED
      BY <3>2
  <2>5. b = a - z
    BY <2>3, <2>4
  <2>6. m \in 1 .. Shorter(a, n) - b
    BY <1>0, <2>3, <2>4
  <2>7. m \in 1 .. z /\ b + m \in 1 .. n
    BY <2>5, <2>6 DEF Shorter
  <2>8. at(k, m) \in 1 .. n
    BY <2>4, <2>7
  <2>9. QED
    BY <2>0, <2>1, <2>2, <2>7, <2>8
<1>3. \A p \in places : \E k \in DOMAIN pages : \E m \in DOMAIN pages[k] : p = <<k, m>>
  OBVIOUS
<1>4. ASSUME NEW j \in 1 .. n
      PROVE  \E k \in DOMAIN pages : \E m \in DOMAIN pages[k] : at(k, m) = j
  <2> DEFINE q == (j - 1) \div z
             d == TotalPages(n, z)
  <2>1. q \in Nat /\ q * z <= j - 1 /\ j - 1 < q * z + z /\ q * z \in Nat
    <3>1. j - 1 \in Nat
      OBVIOUS
    <3>2. q \in Nat /\ q * z <= j - 1 /\ j - 1 < q * z + z
      BY <3>1, Quotient
    <3>3. QED
      BY <3>2, NextPage
  <2>2. d \in Nat /\ n <= d * z /\ d * z \in Nat
    <3>1. n + z - 1 \in Nat /\ d = (n + z - 1) \div z
      BY DEF TotalPages
    <3>2. d \in Nat /\ n + z - 1 < d * z + z
      BY <3>1, Quotient
    <3>3. d * z \in Nat
      BY <3>2, NextPage
    <3>4. QED
      BY <3>2, <3>3
  <2> HIDE DEF q, d
  <2>3. q < d
    <3>1. SUFFICES ASSUME d <= q
                   PROVE  FALSE
      BY <2>1, <2>2
    <3>2. d * z <= q * z
      BY <2>1, <2>2, <3>1, Times
    <3>3. QED
      BY <2>1, <2>2, <3>2
  <2>4. (q + 1) * z = q * z + z
    BY <2>1, NextPage
  <2>5. PICK k \in Nat : k = q + 1
    BY <2>1
  <2>6. k \in DOMAIN pages
    BY <2>1, <2>2, <2>3, <2>5 DEF d
  <2>7. PICK a \in Nat : a = q * z
    BY <2>1
  <2>8. k * z = a + z /\ k * z - z = a
    BY <2>4, <2>5, <2>7
  <2>9. j - a \in DOMAIN pages[k]
    <3>1. DOMAIN pages[k] = 1 .. Shorter(a + z, n) - a
      BY <1>0, <2>6, <2>8
    <3>2. j - a \in 1 .. Shorter(a + z, n) - a
      BY <2>1, <2>7 DEF Shorter
    <3>3. QED
      BY <3>1, <3>2
  <2>10. at(k, j - a) = j
    BY <2>7, <2>8
  <2>11. QED
    BY <2>6, <2>9, <2>10
<1>5. ASSUME NEW k \in Nat \ {0}, NEW m \in 1 .. z, NEW l \in Nat \ {0}, NEW i \in 1 .. z, at(k, m) = at(l, i)
      PROVE  k = l /\ m = i
  <2>1. \A a, b \in Nat \ {0} : a < b => a * z + z <= b * z
    <3>1. ASSUME NEW a \in Nat \ {0}, NEW b \in Nat \ {0}, a < b
          PROVE  a * z + z <= b * z
      <4>1. (a + 1) * z <= b * z
        BY <3>1, Times
      <4>2. (a + 1) * z = a * z + z
        BY NextPage
      <4>3. QED
        BY <4>1, <4>2
    <3>2. QED
      BY <3>1
  <2>2. PICK a \in Nat, b \in Nat : a = k * z /\ b = l * z
    BY NextPage
  <2>3. a - z + m = b - z + i
    BY <1>5, <2>2
  <2>4. (k < l => a + z <= b) /\ (l < k => b + z <= a)
    BY <2>1, <2>2
  <2>5. ~(k < l) /\ ~(l < k)
    BY <2>3, <2>4
  <2>6. k = l
    BY <2>5
  <2>7. QED
    BY <2>2, <2>3, <2>6
<1> HIDE DEF o, places, at
<1>6. Range(o) = Range(h)
  <2>1. ASSUME NEW x \in Range(o)
        PROVE  x \in Range(h)
    <3>1. PICK p \in places : x = o[p]
      BY <1>1 DEF Range
    <3>2. PICK k, m : k \in DOMAIN pages /\ m \in DOMAIN pages[k] /\ p = <<k, m>>
      BY <1>3
    <3>3. QED
      BY <1>2, <3>1, <3>2 DEF Range
  <2>2. ASSUME NEW x \in Range(h)
        PROVE  x \in Range(o)
    <3>1. PICK j \in 1 .. n : x = h[j]
      BY DEF Range
    <3>2. PICK k, m : k \in DOMAIN pages /\ m \in DOMAIN pages[k] /\ at(k, m) = j
      BY <1>4
    <3>3. QED
      BY <1>1, <1>2, <3>1, <3>2 DEF Range
  <2>3. QED
    BY <2>1, <2>2
<1>7. IsInjective(h) => IsInjective(o)
  <2>1. ASSUME IsInjective(h), NEW p \in places, NEW r \in places, o[p] = o[r]
        PROVE  p = r
    <3>1. PICK k, m : k \in DOMAIN pages /\ m \in DOMAIN pages[k] /\ p = <<k, m>>
      BY <1>3
    <3>2. PICK l, i : l \in DOMAIN pages /\ i \in DOMAIN pages[l] /\ r = <<l, i>>
      BY <1>3
    <3>3. k \in Nat \ {0} /\ m \in 1 .. z /\ at(k, m) \in 1 .. n /\ o[p] = h[at(k, m)]
      BY <1>2, <3>1
    <3>4. l \in Nat \ {0} /\ i \in 1 .. z /\ at(l, i) \in 1 .. n /\ o[r] = h[at(l, i)]
      BY <1>2, <3>2
    <3>5. at(k, m) = at(l, i)
      BY <2>1, <3>3, <3>4 DEF IsInjective
    <3>6. QED
      BY <1>5, <3>1, <3>2, <3>3, <3>4, <3>5
  <2>2. QED
    BY <1>1, <2>1 DEF IsInjective
<1>8. QED
  BY <1>6, <1>7 DEF o

\* The pages of an ordered set of reports.
LEMMA ListIs ==
  ASSUME NEW S \in SUBSET Int, IsFiniteSet(S), NEW key, Keyed(S, key)
  PROVE  \E n \in Nat : /\ n = Cardinality(S) /\ Ordered(S, key) \in [1 .. n -> S] /\ Ordered(S, key) \in Seq(S)
                        /\ Len(Ordered(S, key)) = n
                        /\ Range(Ordered(S, key)) = S /\ IsInjective(Ordered(S, key))
<1> DEFINE o == Ordered(S, key)
<1>1. PICK n \in Nat : n = Cardinality(S)
  BY OrderedIs
<1>2. /\ o \in [1 .. n -> S] /\ (\A x \in S : \E k \in 1 .. n : o[k] = x)
      /\ \A k, l \in 1 .. n : k < l <=> Sooner(key, o[k], o[l])
  BY <1>1, OrderedIs
<1> HIDE DEF o
<1>3. \A i, j \in 1 .. n : o[i] = o[j] => i = j
  <2>1. ASSUME NEW i \in 1 .. n, NEW j \in 1 .. n, o[i] = o[j]
        PROVE  i = j
    <3>1. ~Sooner(key, o[i], o[j]) /\ ~Sooner(key, o[j], o[i])
      BY <1>2, <2>1, SoonerOrders
    <3>2. QED
      BY <1>2, <3>1
  <2>2. QED
    BY <2>1
<1>4. IsInjective(o) /\ Range(o) = S
  <2>1. DOMAIN o = 1 .. n /\ \A k \in 1 .. n : o[k] \in S
    BY <1>2
  <2>2. IsInjective(o)
    BY <1>3, <2>1, Zenon DEF IsInjective
  <2>3. Range(o) = S
    BY <1>2, <2>1, Zenon DEF Range
  <2>4. QED
    BY <2>2, <2>3
<1>5. o \in Seq(S) /\ Len(o) = n
  BY <1>2
<1>6. QED
  BY <1>1, <1>2, <1>4, <1>5 DEF o

\* Pages that say g of each of the elements of a list.
Tell(pages, o, n, z, g) ==
  /\ DOMAIN pages = 1 .. TotalPages(n, z)
  /\ \A k \in DOMAIN pages :
       pages[k] = [m \in DOMAIN Page(o, n, k, z).items |-> g[Page(o, n, k, z).items[m]]]

\* One such page tells what the list has at its places.
LEMMA PageTells ==
  ASSUME NEW n \in Nat, NEW X, NEW o \in [1 .. n -> X], NEW z \in Nat \ {0}, NEW g, NEW pages,
         Tell(pages, o, n, z, g), NEW k \in DOMAIN pages, NEW h, h = [j \in 1 .. n |-> g[o[j]]]
  PROVE  PageOf(pages[k], h, n, k, z)
<1>1. PICK items : items = Page(o, n, k, z).items
  OBVIOUS
<1>2. pages[k] = [m \in DOMAIN items |-> g[items[m]]]
  BY <1>1, Zenon DEF Tell
<1>3. k \in Nat \ {0}
  <2>1. k \in 1 .. TotalPages(n, z)
    BY Zenon DEF Tell
  <2>2. QED
    BY <2>1
<1>4. PICK e \in Nat : e = k * z - z
  <2>1. k - 1 \in Nat /\ k = (k - 1) + 1
    BY <1>3
  <2>2. (k - 1) * z \in Nat /\ k * z = (k - 1) * z + z
    BY <2>1, NextPage
  <2>3. QED
    BY <2>2
<1>5. k * z = e + z
  BY <1>3, <1>4, NextPage
<1>6. PICK l \in Nat : l = Shorter(e + z, n)
  BY DEF Shorter
<1>7. DOMAIN items = 1 .. l - e /\ \A m \in DOMAIN items : items[m] = o[e + m]
  <2>1. o \in Seq(X) /\ Len(o) = n
    OBVIOUS
  <2>2. items = SubSeq(o, e + 1, l)
    BY <1>1, <1>4, <1>5, <1>6, <2>1 DEF Page, Shorter
  <2>3. /\ DOMAIN SubSeq(o, e + 1, l) = 1 .. l - e
        /\ \A m \in DOMAIN SubSeq(o, e + 1, l) : SubSeq(o, e + 1, l)[m] = o[e + m]
    BY <1>6, <2>1 DEF Shorter
  <2>4. QED
    BY <2>2, <2>3, Zenon
<1>8. \A m \in DOMAIN items : e + m \in 1 .. n
  BY <1>6, <1>7 DEF Shorter
<1>9. \A m \in DOMAIN items : h[e + m] = g[o[e + m]]
  BY <1>8
<1>10. DOMAIN pages[k] = 1 .. l - e /\ \A m \in DOMAIN pages[k] : pages[k][m] = h[e + m]
  BY <1>2, <1>7, <1>9
<1>11. QED
  <2>1. k * z - z = e /\ Shorter(k * z, n) = l
    BY <1>4, <1>5, <1>6, Zenon
  <2>2. QED
    BY <1>10, <2>1, Zenon DEF PageOf

\* What the pages of a set say of each of its elements.
LEMMA PagesTellAll ==
  ASSUME NEW S \in SUBSET Int, IsFiniteSet(S), NEW key, Keyed(S, key), NEW z \in Nat \ {0}, NEW g, DOMAIN g = S,
         NEW pages, Tell(pages, Ordered(S, key), Cardinality(S), z, g)
  PROVE  /\ Range(OnPages(pages)) = {g[x] : x \in S}
         /\ IsInjective(g) => IsInjective(OnPages(pages))
<1> DEFINE o == Ordered(S, key)
<1>1. PICK n \in Nat : n = Cardinality(S) /\ o \in [1 .. n -> S] /\ Range(o) = S /\ IsInjective(o)
  BY ListIs
<1> HIDE DEF o
<1>2. PICK h : h = [j \in 1 .. n |-> g[o[j]]]
  OBVIOUS
<1>3. Tell(pages, o, n, z, g)
  BY <1>1 DEF o
<1>4. ASSUME NEW k \in DOMAIN pages
      PROVE  PageOf(pages[k], h, n, k, z)
  BY <1>1, <1>2, <1>3, PageTells, Zenon
<1>5. DOMAIN h = 1 .. n /\ DOMAIN pages = 1 .. TotalPages(n, z)
  BY <1>2, <1>3 DEF Tell
<1>6. Range(OnPages(pages)) = Range(h) /\ (IsInjective(h) => IsInjective(OnPages(pages)))
  BY <1>4, <1>5, PagesShow, Zenon
<1>7. Range(h) = {g[x] : x \in S}
  <2>1. \A x \in S : \E j \in 1 .. n : o[j] = x
    BY <1>1 DEF Range
  <2>2. DOMAIN h = 1 .. n /\ \A j \in 1 .. n : h[j] = g[o[j]] /\ o[j] \in S
    BY <1>1, <1>2
  <2>3. Range(h) \subseteq {g[x] : x \in S}
    <3>1. ASSUME NEW y \in Range(h)
          PROVE  y \in {g[x] : x \in S}
      <4>1. PICK j \in 1 .. n : y = h[j]
        BY <2>2 DEF Range
      <4>2. o[j] \in S /\ y = g[o[j]]
        BY <2>2, <4>1
      <4>3. QED
        BY <4>2
    <3>2. QED
      BY <3>1
  <2>4. {g[x] : x \in S} \subseteq Range(h)
    <3>1. ASSUME NEW x \in S
          PROVE  g[x] \in Range(h)
      <4>1. PICK j \in 1 .. n : o[j] = x
        BY <2>1
      <4>2. h[j] = g[x] /\ j \in DOMAIN h
        BY <2>2, <4>1
      <4>3. QED
        BY <4>2, Zenon DEF Range
    <3>2. QED
      BY <3>1
  <2>5. QED
    BY <2>3, <2>4
<1>8. IsInjective(g) => IsInjective(h)
  BY <1>1, <1>2 DEF IsInjective
<1>9. QED
  BY <1>6, <1>7, <1>8

-----------------------------------------------------------------------------
(* Tables of reports, and the queue.                                       *)

\* A table of the reports that may be stored.
Table(t) == DOMAIN t \subseteq DOMAIN Rows /\ \A i \in DOMAIN t : Row(t[i])

\* The columns of a row, with the bound on times kept as a name.
LEMMA RowIs ==
  ASSUME NEW r, Row(r)
  PROVE  /\ r.score \in Int /\ r.occurred \in Nat /\ r.occurred <= Forever /\ r.created \in Nat
         /\ r.severity \in {"LOW", "MODERATE", "HIGH", "SEVERE"}
         /\ r.status \in {"PENDING", "UNDER_REVIEW", "VERIFIED", "REJECTED", "DUPLICATE"}
<1>1. Forever \in Int
  BY DEF Forever, Day
<1>2. QED
  BY <1>1 DEF Row

\* A severity has a rank.
LEMMA RankIs ==
  ASSUME NEW s \in {"LOW", "MODERATE", "HIGH", "SEVERE"}
  PROVE  SeverityRank(s) \in Int
<1>1. CASE s = "SEVERE"
  BY <1>1 DEF SeverityRank
<1>2. CASE s = "HIGH"
  BY <1>2 DEF SeverityRank
<1>3. CASE s = "MODERATE"
  BY <1>3 DEF SeverityRank
<1>4. CASE s = "LOW"
  BY <1>4 DEF SeverityRank
<1>5. QED
  BY <1>1, <1>2, <1>3, <1>4

\* The columns that the queue is ordered by.
LEMMA ColumnsAre ==
  ASSUME NEW t, Table(t), NEW i \in DOMAIN t
  PROVE  /\ t[i].score \in Int /\ t[i].occurred \in Int
         /\ t[i].severity \in {"LOW", "MODERATE", "HIGH", "SEVERE"}
<1>1. Row(t[i])
  BY DEF Table
<1>2. t[i].score \in Int /\ t[i].occurred \in Nat /\ t[i].severity \in {"LOW", "MODERATE", "HIGH", "SEVERE"}
  BY <1>1, RowIs, Zenon
<1>3. QED
  BY <1>2

\* The queue is a list of the reports to verify, each once.
LEMMA QueueIs ==
  ASSUME NEW t, Table(t), PortalAssumption
  PROVE  /\ Queue(t) \in Seq(DOMAIN Rows) /\ Lists(Queue(t), DOMAIN Rows)
         /\ Len(Queue(t)) = Cardinality(Queued(t, "", ""))
<1> DEFINE S == Queued(t, "", "")
           key == [i \in DOMAIN t |-> <<SeverityRank(t[i].severity), t[i].score, t[i].occurred, i>>]
<1>1. S \subseteq DOMAIN t /\ S \in SUBSET DOMAIN Rows
  BY DEF Queued, Table
<1>2. IsFiniteSet(S) /\ S \in SUBSET Int
  <2>1. IsFiniteSet(DOMAIN Rows) /\ DOMAIN Rows \subseteq Nat
    BY DEF PortalAssumption
  <2> HIDE DEF S
  <2>2. QED
    BY <1>1, <2>1, FS_Subset
<1>3. Keyed(S, key)
  <2>1. ASSUME NEW i \in S
        PROVE  key[i] \in [1 .. 4 -> Int]
    <3>1. i \in DOMAIN t /\ i \in Int /\ Row(t[i])
      BY <1>1, <1>2 DEF Table
    <3>2. t[i].score \in Int /\ t[i].occurred \in Int /\ t[i].severity \in {"LOW", "MODERATE", "HIGH", "SEVERE"}
      BY <3>1, ColumnsAre
    <3>3. SeverityRank(t[i].severity) \in Int
      <4>1. PICK s \in {"LOW", "MODERATE", "HIGH", "SEVERE"} : s = t[i].severity
        BY <3>2
      <4>2. QED
        BY <4>1, RankIs
    <3>4. key[i] = <<SeverityRank(t[i].severity), t[i].score, t[i].occurred, i>>
      BY <3>1
    <3> HIDE DEF S, key
    <3>5. QED
      BY <3>1, <3>2, <3>3, <3>4
  <2>2. QED
    BY <2>1, Zenon DEF Keyed
<1>4. Queue(t) = Ordered(S, key)
  BY DEF Queue, QueueOrder
<1> HIDE DEF S, key
<1>5. PICK n \in Nat : n = Cardinality(S)
  BY <1>2, <1>3, OrderedIs
<1>6. /\ Queue(t) \in [1 .. n -> S]
      /\ \A i, j \in 1 .. n : i < j <=> Sooner(key, Queue(t)[i], Queue(t)[j])
  BY <1>2, <1>3, <1>4, <1>5, OrderedIs
<1>7. \A i, j \in 1 .. n : Queue(t)[i] = Queue(t)[j] => i = j
  <2>1. ASSUME NEW i \in 1 .. n, NEW j \in 1 .. n, Queue(t)[i] = Queue(t)[j]
        PROVE  i = j
    <3>1. ~Sooner(key, Queue(t)[i], Queue(t)[j]) /\ ~Sooner(key, Queue(t)[j], Queue(t)[i])
      BY <1>2, <1>3, <1>6, <2>1, SoonerOrders
    <3>2. QED
      BY <1>6, <3>1
  <2>2. QED
    BY <2>1
<1>8. Queue(t) \in [1 .. n -> DOMAIN Rows]
  BY <1>1, <1>6
<1>9. Queue(t) \in Seq(DOMAIN Rows) /\ Len(Queue(t)) = n
  BY <1>8
<1>10. Lists(Queue(t), DOMAIN Rows)
  BY <1>7, <1>8 DEF Lists
<1>11. QED
  BY <1>5, <1>9, <1>10 DEF S

\* Where a walk is, and the shape of the state.
Walks == {"none", "count", "page", "done"}

WalkShape ==
  /\ Table(table)
  /\ walk \in Walks /\ page \in Nat \ {0} /\ total \in Nat
  /\ seen \in Seq(DOMAIN Rows) /\ begun \in Seq(DOMAIN Rows) /\ Lists(begun, DOMAIN Rows)
  /\ arrived \in BOOLEAN /\ overtaken \in BOOLEAN /\ disturbed \in BOOLEAN
  /\ overtaken => arrived

\* What the walk has shown of the queue as it is.
FirstPages == page * PageSize - PageSize
WalkInv ==
  walk \in {"count", "page"} /\ ~disturbed =>
    /\ Kept(begun, Queue(table))
    /\ \A k \in DOMAIN Queue(table) :
         k <= FirstPages /\ Queue(table)[k] \in Range(begun) => Queue(table)[k] \in Range(seen)
    /\ walk = "page" /\ ~overtaken => total = Len(Queue(table))
    /\ ~arrived => Queue(table) = begun /\ seen = SubSeq(begun, 1, Shorter(FirstPages, Len(begun)))

\* The inductive invariant of the walk.
PortalInv == WalkShape /\ WalkInv /\ WalkExplained

\* A report is stored, decided on or assessed.
LEMMA CommitKeeps ==
  ASSUME PortalInv, PortalAssumption, NEW t, Table(t), Commit(t)
  PROVE  PortalInv'
<1>1. table' = t /\ UNCHANGED <<walk, page, total, seen, begun>>
  BY DEF Commit, walking
<1>2. WalkShape'
  <2>1. arrived' \in BOOLEAN /\ overtaken' \in BOOLEAN /\ disturbed' \in BOOLEAN /\ (overtaken' => arrived')
    BY DEF Commit, PortalInv, WalkShape
  <2>2. QED
    BY <1>1, <2>1 DEF PortalInv, WalkShape, Table, Lists
<1>3. /\ walk \in {"count", "page"} /\ ~disturbed' => ~disturbed /\ Kept(Queue(table), Queue(t))
      /\ walk \in {"count", "page"} /\ ~arrived' => ~arrived /\ Range(Queue(t)) \subseteq Range(Queue(table))
      /\ walk = "page" /\ ~overtaken' => ~overtaken /\ Range(Queue(t)) \subseteq Range(Queue(table))
      /\ walk = "done" => disturbed' = disturbed /\ arrived' = arrived /\ overtaken' = overtaken
  <2> DEFINE came == ~(Range(Queue(t)) \subseteq Range(Queue(table)))
  <2>1. arrived' = (arrived \/ (walk \in {"count", "page"} /\ came))
    BY DEF Commit
  <2>2. overtaken' = (overtaken \/ (walk = "page" /\ came))
    BY DEF Commit
  <2>3. disturbed' = (disturbed \/ (walk \in {"count", "page"} /\ ~Kept(Queue(table), Queue(t))))
    BY DEF Commit
  <2>4. arrived \in BOOLEAN /\ overtaken \in BOOLEAN /\ disturbed \in BOOLEAN
    BY DEF PortalInv, WalkShape
  <2> HIDE DEF came
  <2>5. walk = "done" => disturbed' = disturbed /\ arrived' = arrived /\ overtaken' = overtaken
    BY <2>1, <2>2, <2>3, <2>4
  <2>6. walk \in {"count", "page"} /\ ~arrived' => ~arrived /\ ~came
    BY <2>1, Zenon
  <2>7. walk = "page" /\ ~overtaken' => ~overtaken /\ ~came
    BY <2>2, Zenon
  <2>8. walk \in {"count", "page"} /\ ~disturbed' => ~disturbed /\ Kept(Queue(table), Queue(t))
    BY <2>3, Zenon
  <2>9. QED
    BY <2>5, <2>6, <2>7, <2>8, Zenon DEF came
<1>4. WalkInv'
  <2>1. SUFFICES ASSUME walk \in {"count", "page"}, ~disturbed'
                 PROVE  /\ Kept(begun, Queue(t))
                        /\ \A k \in DOMAIN Queue(t) :
                             k <= FirstPages /\ Queue(t)[k] \in Range(begun) => Queue(t)[k] \in Range(seen)
                        /\ walk = "page" /\ ~overtaken' => total = Len(Queue(t))
                        /\ ~arrived' => Queue(t) = begun /\ seen = SubSeq(begun, 1, Shorter(FirstPages, Len(begun)))
    BY <1>1 DEF WalkInv, FirstPages
  <2>2. /\ ~disturbed /\ Kept(Queue(table), Queue(t)) /\ Kept(begun, Queue(table))
        /\ \A k \in DOMAIN Queue(table) :
             k <= FirstPages /\ Queue(table)[k] \in Range(begun) => Queue(table)[k] \in Range(seen)
        /\ walk = "page" /\ ~overtaken => total = Len(Queue(table))
        /\ ~arrived => Queue(table) = begun /\ seen = SubSeq(begun, 1, Shorter(FirstPages, Len(begun)))
    BY <1>3, <2>1 DEF PortalInv, WalkInv
  <2>3. /\ Lists(Queue(table), DOMAIN Rows) /\ Lists(Queue(t), DOMAIN Rows)
        /\ Queue(table) \in Seq(DOMAIN Rows) /\ Queue(t) \in Seq(DOMAIN Rows)
    BY QueueIs DEF PortalInv, WalkShape
  <2>4. Kept(begun, Queue(t))
    BY <2>2, KeptTransitive
  <2>5. ASSUME NEW k \in DOMAIN Queue(t), k <= FirstPages, Queue(t)[k] \in Range(begun)
        PROVE  Queue(t)[k] \in Range(seen)
    <3>1. Queue(t)[k] \in Range(Queue(table))
      BY <2>2, <2>5 DEF Kept
    <3>2. PICK m \in DOMAIN Queue(table) : Queue(table)[m] = Queue(t)[k]
      BY <3>1 DEF Range
    <3>3. m <= k
      BY <2>2, <2>3, <3>2, KeptMovesRight
    <3>4. m \in Nat /\ k \in Nat /\ FirstPages \in Int
      BY <2>3 DEF FirstPages, PortalInv, WalkShape, PortalAssumption
    <3>5. m <= FirstPages
      BY <2>5, <3>3, <3>4
    <3>6. QED
      BY <2>2, <2>5, <3>2, <3>5
  <2>6. Range(Queue(t)) \subseteq Range(Queue(table)) => Queue(t) = Queue(table)
    BY <2>2, <2>3, KeptSame
  <2>7. walk = "page" /\ ~overtaken' => total = Len(Queue(t))
    BY <1>3, <2>2, <2>6
  <2>8. ~arrived' => Queue(t) = begun /\ seen = SubSeq(begun, 1, Shorter(FirstPages, Len(begun)))
    BY <1>3, <2>1, <2>2, <2>6
  <2>9. QED
    BY <2>4, <2>5, <2>7, <2>8
<1>5. WalkExplained'
  BY <1>1, <1>3 DEF PortalInv, WalkExplained
<1>6. QED
  BY <1>2, <1>4, <1>5 DEF PortalInv

-----------------------------------------------------------------------------
(* The steps.                                                              *)

\* A walk begins with the queue as it is.
LEMMA BeginKeeps ==
  ASSUME PortalInv, PortalAssumption, Begin
  PROVE  PortalInv'
<1>1. /\ table' = table /\ walk' = "count" /\ page' = 1 /\ total' = 0 /\ seen' = <<>> /\ begun' = Queue(table)
      /\ arrived' = FALSE /\ overtaken' = FALSE /\ disturbed' = FALSE
  BY DEF Begin
<1>2. Queue(table) \in Seq(DOMAIN Rows) /\ Lists(Queue(table), DOMAIN Rows)
  BY QueueIs DEF PortalInv, WalkShape
<1>3. WalkShape'
  <2>1. Table(table)' /\ Lists(begun, DOMAIN Rows)'
    BY <1>1, <1>2 DEF PortalInv, WalkShape
  <2>2. seen' \in Seq(DOMAIN Rows) /\ page' \in Nat \ {0} /\ total' \in Nat /\ walk' \in Walks
    BY <1>1 DEF Walks
  <2>3. QED
    BY <1>1, <1>2, <2>1, <2>2 DEF WalkShape
<1>4. FirstPages' = 0
  <2>1. FirstPages' = 1 * PageSize - PageSize
    BY <1>1 DEF FirstPages
  <2>2. QED
    BY <2>1 DEF PortalAssumption
<1>5. WalkInv'
  <2>1. Kept(Queue(table), Queue(table))
    BY <1>2, KeptReflexive
  <2>2. \A k \in DOMAIN Queue(table) : ~(k <= 0)
    BY <1>2
  <2>3. <<>> = SubSeq(Queue(table), 1, Shorter(0, Len(Queue(table))))
    BY <1>2 DEF Shorter
  <2>4. Queue(table)' = Queue(table)
    BY <1>1
  <2>5. QED
    BY <1>1, <1>4, <2>1, <2>2, <2>3, <2>4 DEF WalkInv
<1>6. WalkExplained'
  BY <1>1 DEF WalkExplained
<1>7. QED
  BY <1>3, <1>5, <1>6 DEF PortalInv

\* The count of a page is the length of the queue.
LEMMA CountKeeps ==
  ASSUME PortalInv, PortalAssumption, CountQueue
  PROVE  PortalInv'
<1>1. /\ UNCHANGED <<table, page, seen, begun, arrived, overtaken, disturbed>>
      /\ walk = "count" /\ walk' = "page" /\ total' = Cardinality(Queued(table, "", ""))
  BY DEF CountQueue, causes
<1>2. /\ Len(Queue(table)) = Cardinality(Queued(table, "", ""))
      /\ Queue(table) \in Seq(DOMAIN Rows)
  BY QueueIs DEF PortalInv, WalkShape
<1>3. total' \in Nat
  BY <1>1, <1>2, LenProperties
<1>4. WalkShape'
  <2>1. Table(table)' /\ Lists(begun, DOMAIN Rows)'
    BY <1>1, <1>2 DEF PortalInv, WalkShape
  <2>2. QED
    BY <1>1, <1>3, <2>1 DEF PortalInv, WalkShape, Walks
<1>5. WalkInv'
  <2>1. FirstPages' = FirstPages /\ Queue(table)' = Queue(table)
    BY <1>1 DEF FirstPages
  <2>2. QED
    BY <1>1, <1>2, <2>1 DEF PortalInv, WalkInv
<1>6. WalkExplained'
  BY <1>1 DEF WalkExplained
<1>7. QED
  BY <1>4, <1>5, <1>6 DEF PortalInv

\* A page is shown, and is the last one or not.
LEMMA FetchKeeps ==
  ASSUME PortalInv, PortalAssumption, FetchPage
  PROVE  PortalInv'
<1> DEFINE q == Queue(table)
           items == Page(q, total, page, PageSize).items
<1>1. /\ UNCHANGED <<table, total, begun, arrived, overtaken, disturbed>>
      /\ walk = "page" /\ seen' = seen \o items
  BY DEF FetchPage, causes
<1>2. \/ page < TotalPages(total, PageSize) /\ walk' = "count" /\ page' = page + 1
      \/ ~(page < TotalPages(total, PageSize)) /\ walk' = "done" /\ page' = page
  BY DEF FetchPage, Page
<1>3. WalkShape /\ page \in Nat \ {0} /\ PageSize \in Nat \ {0}
  BY DEF PortalInv, WalkShape, PortalAssumption
<1>4. q \in Seq(DOMAIN Rows) /\ Lists(q, DOMAIN Rows)
  BY <1>3, QueueIs DEF WalkShape
<1> HIDE DEF q, items
<1>5. /\ items \in Seq(DOMAIN Rows)
      /\ \A k \in DOMAIN q : FirstPages < k /\ k <= page * PageSize => q[k] \in Range(items)
      /\ SubSeq(q, 1, Shorter(FirstPages, Len(q))) \o items = SubSeq(q, 1, Shorter(page * PageSize, Len(q)))
  <2>1. PICK n \in Nat, p \in Nat \ {0}, z \in Nat \ {0} : n = total /\ p = page /\ z = PageSize
    BY <1>3 DEF WalkShape
  <2>2. items = Page(q, n, p, z).items /\ FirstPages = p * z - z
    BY <2>1 DEF items, FirstPages
  <2>3. /\ items \in Seq(DOMAIN Rows)
        /\ \A k \in DOMAIN q : p * z - z < k /\ k <= p * z => q[k] \in Range(items)
        /\ SubSeq(q, 1, Shorter(p * z - z, Len(q))) \o items = SubSeq(q, 1, Shorter(p * z, Len(q)))
    <3>1. Follow(Page(q, n, p, z).items, q, DOMAIN Rows, p, z)
      BY <1>4, <2>1, OnePageMore
    <3>2. QED
      BY <2>2, <3>1, Zenon DEF Follow
  <2>4. QED
    BY <2>1, <2>2, <2>3
<1>6. WalkShape'
  <2>1. seen' \in Seq(DOMAIN Rows)
    BY <1>1, <1>3, <1>5 DEF WalkShape
  <2>2. page' \in Nat \ {0} /\ walk' \in Walks
    BY <1>2, <1>3 DEF Walks
  <2>3. QED
    BY <1>1, <1>3, <2>1, <2>2 DEF WalkShape
<1>7. Range(seen') = Range(seen) \cup Range(items)
  BY <1>1, <1>3, <1>5, RangeConcatenation DEF WalkShape
<1>8. page * PageSize \in Nat /\ FirstPages \in Int
  BY <1>3 DEF FirstPages
<1>9. ASSUME ~disturbed
      PROVE  \A k \in DOMAIN q : k <= page * PageSize /\ q[k] \in Range(begun) => q[k] \in Range(seen')
  <2>1. ASSUME NEW k \in DOMAIN q, k <= page * PageSize, q[k] \in Range(begun)
        PROVE  q[k] \in Range(seen')
    <3>1. CASE k <= FirstPages
      BY <1>1, <1>7, <1>9, <2>1, <3>1 DEF PortalInv, WalkInv, q
    <3>2. CASE FirstPages < k
      BY <1>5, <1>7, <2>1, <3>2
    <3>3. k \in Nat
      BY <1>4
    <3>4. QED
      BY <1>8, <3>1, <3>2, <3>3
  <2>2. QED
    BY <2>1
<1>10. ASSUME ~disturbed, ~arrived
       PROVE  q = begun /\ seen' = SubSeq(begun, 1, Shorter(page * PageSize, Len(begun)))
  <2>1. q = begun /\ seen = SubSeq(begun, 1, Shorter(FirstPages, Len(begun)))
    BY <1>1, <1>10 DEF PortalInv, WalkInv, q
  <2>2. QED
    BY <1>1, <1>5, <2>1
<1>11. Queue(table)' = q
  BY <1>1 DEF q
<1>12. CASE walk' = "count"
  <2>1. page' = page + 1
    BY <1>2, <1>12
  <2>2. FirstPages' = page * PageSize
    <3>1. FirstPages' = (page + 1) * PageSize - PageSize
      BY <2>1 DEF FirstPages
    <3>2. (page + 1) * PageSize = page * PageSize + PageSize
      BY <1>3, NextPage
    <3>3. QED
      BY <1>3, <1>8, <3>1, <3>2
  <2>3. ~disturbed => Kept(begun, q)
    BY <1>1 DEF PortalInv, WalkInv, q
  <2>4. WalkInv'
    BY <1>1, <1>9, <1>10, <1>11, <1>12, <2>2, <2>3 DEF WalkInv
  <2>5. WalkExplained'
    BY <1>12 DEF WalkExplained
  <2>6. QED
    BY <1>6, <2>4, <2>5 DEF PortalInv
<1>13. CASE walk' = "done"
  <2>1. total \in Nat /\ total <= page * PageSize
    BY <1>2, <1>3, <1>13, LastPageReached DEF WalkShape
  <2>2. ~disturbed /\ ~overtaken => Len(q) <= page * PageSize /\ Kept(begun, q)
    BY <1>1, <2>1 DEF PortalInv, WalkInv, q
  <2>3. ASSUME ~disturbed, ~overtaken
        PROVE  Range(begun) \subseteq Range(seen')
    <3>1. ASSUME NEW i \in Range(begun)
          PROVE  i \in Range(seen')
      <4>1. PICK k \in DOMAIN q : q[k] = i
        BY <2>2, <2>3, <3>1 DEF Kept, Range
      <4>2. k <= page * PageSize
        BY <1>4, <1>8, <2>2, <2>3
      <4>3. QED
        BY <1>9, <2>3, <3>1, <4>1, <4>2
    <3>2. QED
      BY <3>1
  <2>4. ASSUME ~disturbed, ~arrived
        PROVE  seen' = begun
    <3>1. ~overtaken
      BY <1>3, <2>4 DEF WalkShape
    <3>2. q = begun /\ seen' = SubSeq(begun, 1, Shorter(page * PageSize, Len(begun)))
      BY <1>10, <2>4
    <3>3. Shorter(page * PageSize, Len(begun)) = Len(begun)
      BY <1>4, <1>8, <2>2, <2>4, <3>1, <3>2 DEF Shorter
    <3>4. SubSeq(begun, 1, Len(begun)) = begun
      BY <1>3 DEF WalkShape
    <3>5. QED
      BY <3>2, <3>3, <3>4
  <2>5. WalkExplained'
    BY <1>1, <2>3, <2>4 DEF WalkExplained
  <2>6. WalkInv'
    BY <1>13 DEF WalkInv
  <2>7. QED
    BY <1>6, <2>5, <2>6 DEF PortalInv
<1>14. QED
  BY <1>2, <1>12, <1>13

\* Each writer leaves a table of rows.
LEMMA WritersKeep ==
  ASSUME PortalInv, PortalAssumption, Writers
  PROVE  PortalInv'
<1>1. PICK i \in DOMAIN Rows : IngestReport(i) \/ Decide(i) \/ Assess(i)
  BY DEF Writers
<1>2. Table(table) /\ \A j \in DOMAIN Rows : Row(Rows[j])
  BY DEF PortalInv, WalkShape, PortalAssumption
<1>3. CASE IngestReport(i)
  <2>1. PICK t : t = [j \in DOMAIN table \cup {i} |-> IF j = i THEN Rows[i] ELSE table[j]]
    OBVIOUS
  <2>2. Commit(t)
    BY <1>3, <2>1, Zenon DEF IngestReport
  <2>3. Table(t)
    BY <1>2, <2>1 DEF Table
  <2>4. QED
    BY <2>2, <2>3, CommitKeeps
<1>4. CASE Decide(i)
  <2>1. PICK s \in {"VERIFIED", "REJECTED"} : Commit([table EXCEPT ![i].status = s]) /\ i \in DOMAIN table
    BY <1>4, Zenon DEF Decide
  <2>2. PICK t : t = [table EXCEPT ![i].status = s]
    OBVIOUS
  <2>3. Commit(t)
    BY <2>1, <2>2, Zenon
  <2>4. Table(t)
    <3>1. t = [table EXCEPT ![i] = [table[i] EXCEPT !.status = s]] /\ DOMAIN t = DOMAIN table
      BY <2>2
    <3>2. \A j \in DOMAIN t : t[j] = IF j = i THEN [table[i] EXCEPT !.status = s] ELSE table[j]
      BY <3>1
    <3>3. Row([table[i] EXCEPT !.status = s])
      BY <1>2, <2>1 DEF Table, Row
    <3>4. QED
      BY <1>2, <3>1, <3>2, <3>3 DEF Table
  <2>5. QED
    BY <2>3, <2>4, CommitKeeps
<1>5. CASE Assess(i)
  <2>1. PICK s \in Scores : Commit([table EXCEPT ![i].score = s]) /\ i \in DOMAIN table
    BY <1>5, Zenon DEF Assess
  <2>2. PICK t : t = [table EXCEPT ![i].score = s]
    OBVIOUS
  <2>3. Commit(t)
    BY <2>1, <2>2, Zenon
  <2>4. Table(t)
    <3>1. t = [table EXCEPT ![i] = [table[i] EXCEPT !.score = s]] /\ DOMAIN t = DOMAIN table
      BY <2>2
    <3>2. \A j \in DOMAIN t : t[j] = IF j = i THEN [table[i] EXCEPT !.score = s] ELSE table[j]
      BY <3>1
    <3>3. Row([table[i] EXCEPT !.score = s])
      BY <1>2, <2>1 DEF Table, Row, PortalAssumption
    <3>4. QED
      BY <1>2, <3>1, <3>2, <3>3 DEF Table
  <2>5. QED
    BY <2>3, <2>4, CommitKeeps
<1>6. QED
  BY <1>1, <1>3, <1>4, <1>5

\* Nothing else touches the walk.
LEMMA WalkUntouched ==
  ASSUME PortalInv, UNCHANGED <<table, walking, causes>>
  PROVE  PortalInv'
<1>1. UNCHANGED <<table, walk, page, total, seen, begun, arrived, overtaken, disturbed>>
  BY DEF walking, causes
<1>2. WalkShape'
  BY <1>1 DEF PortalInv, WalkShape
<1>3. Queue(table)' = Queue(table) /\ FirstPages' = FirstPages
  BY <1>1 DEF FirstPages
<1>4. WalkInv'
  BY <1>1, <1>3 DEF PortalInv, WalkInv
<1>5. WalkExplained'
  BY <1>1 DEF PortalInv, WalkExplained
<1>6. QED
  BY <1>2, <1>4, <1>5 DEF PortalInv

\* The invariant holds throughout.
LEMMA PortalInvHolds ==
  ASSUME PortalAssumption
  PROVE  PortalSpec => []PortalInv
<1>1. PortalInit => PortalInv
  <2>1. SUFFICES ASSUME PortalInit
                 PROVE  PortalInv
    OBVIOUS
  <2>2. Table(table)
    BY <2>1 DEF PortalInit, Table, PortalAssumption
  <2>3. walk = "none" /\ page = 1 /\ total = 0 /\ seen = <<>> /\ begun = <<>> /\ ~arrived /\ ~overtaken /\ ~disturbed
        /\ arrived \in BOOLEAN /\ overtaken \in BOOLEAN /\ disturbed \in BOOLEAN
    BY <2>1 DEF PortalInit
  <2>4. Lists(begun, DOMAIN Rows)
    <3>1. 0 \in Nat /\ begun \in [1 .. 0 -> DOMAIN Rows] /\ \A i, j \in 1 .. 0 : begun[i] = begun[j] => i = j
      BY <2>3
    <3>2. QED
      BY <3>1, Zenon DEF Lists
  <2>5. WalkShape
    BY <2>2, <2>3, <2>4 DEF WalkShape, Walks
  <2>6. QED
    BY <2>3, <2>5 DEF PortalInv, WalkInv, WalkExplained
<1>2. PortalInv /\ [PortalNext]_portalVars => PortalInv'
  <2>1. SUFFICES ASSUME PortalInv, [PortalNext]_portalVars
                 PROVE  PortalInv'
    OBVIOUS
  <2>2. CASE Writers
    BY <2>1, <2>2, WritersKeep
  <2>3. CASE Begin
    BY <2>1, <2>3, BeginKeeps
  <2>4. CASE CountQueue
    BY <2>1, <2>4, CountKeeps
  <2>5. CASE FetchPage
    BY <2>1, <2>5, FetchKeeps
  <2>6. CASE Dashboard
    <3>1. UNCHANGED <<table, walking, causes>>
      BY <2>6 DEF Dashboard, Summarise, Categorise, Distribute
    <3>2. QED
      BY <2>1, <3>1, WalkUntouched
  <2>7. CASE UNCHANGED portalVars
    <3>1. UNCHANGED <<table, walking, causes>>
      BY <2>7 DEF portalVars
    <3>2. QED
      BY <2>1, <3>1, WalkUntouched
  <2>8. QED
    BY <2>1, <2>2, <2>3, <2>4, <2>5, <2>6, <2>7 DEF PortalNext, Walk
<1>3. QED
  BY <1>1, <1>2, PTL DEF PortalSpec

(* Whoever walks over the pages of the queue misses a report only when one *)
(* left it or changed its place meanwhile, or arrived between a count and  *)
(* its page, and sees it unchanged when nothing arrived either: for any    *)
(* rows, page size and number of writes.                                   *)
THEOREM WalksAreExplained ==
  ASSUME PortalAssumption
  PROVE  PortalSpec => []WalkExplained
<1>1. PortalInv => WalkExplained
  BY DEF PortalInv
<1>2. QED
  BY <1>1, PortalInvHolds, PTL

-----------------------------------------------------------------------------
(* Sums over sets.                                                         *)

\* A minimal one of some sets.
LEMMA SmallestOf ==
  ASSUME NEW D, IsFiniteSet(D), NEW S \in SUBSET SUBSET D, S # {}
  PROVE  \E m \in S : \A k \in S : k \subseteq m => k = m
<1> DEFINE N == {Cardinality(s) : s \in S}
<1>1. \A s \in S : IsFiniteSet(s) /\ Cardinality(s) \in Nat
  BY FS_Subset, FS_CardinalityType
<1>2. N \in SUBSET Nat /\ N # {}
  BY <1>1
<1>3. PICK n \in N : \A k \in N : n <= k
  BY <1>2, LeastOf, Zenon
<1>4. PICK m \in S : n = Cardinality(m)
  OBVIOUS
<1>5. ASSUME NEW k \in S, k \subseteq m
      PROVE  k = m
  <2>1. Cardinality(m) <= Cardinality(k) /\ Cardinality(k) <= Cardinality(m)
    BY <1>1, <1>3, <1>4, <1>5, FS_Subset
  <2>2. Cardinality(k) = Cardinality(m)
    BY <1>1, <2>1
  <2>3. QED
    BY <1>1, <1>5, <2>2, FS_Subset
<1>6. QED
  BY <1>5

\* The recursion by which the values of a function are added.
Chosen(s) == CHOOSE x \in s : TRUE
Adds(g, f, U) == g = [s \in SUBSET U |-> IF s = {} THEN 0 ELSE f[Chosen(s)] + g[s \ {Chosen(s)}]]

\* The recursion says the same over every set it is defined on,
LEMMA AddsAgree ==
  ASSUME NEW D, IsFiniteSet(D), NEW f, NEW g, NEW h, NEW U \in SUBSET D, NEW V \in SUBSET D,
         Adds(g, f, U), Adds(h, f, V), NEW s \in SUBSET (U \cap V)
  PROVE  g[s] = h[s]
<1> DEFINE B == {t \in SUBSET (U \cap V) : g[t] # h[t]}
<1>1. SUFFICES ASSUME B # {}
               PROVE  FALSE
  OBVIOUS
<1>2. PICK m \in B : \A k \in B : k \subseteq m => k = m
  <2>1. B \in SUBSET SUBSET D
    OBVIOUS
  <2> HIDE DEF B
  <2>2. QED
    BY <1>1, <2>1, SmallestOf
<1>3. m \in SUBSET U /\ m \in SUBSET V /\ g[m] # h[m]
  OBVIOUS
<1>4. g[m] = IF m = {} THEN 0 ELSE f[Chosen(m)] + g[m \ {Chosen(m)}]
  BY <1>3, Zenon DEF Adds
<1>5. h[m] = IF m = {} THEN 0 ELSE f[Chosen(m)] + h[m \ {Chosen(m)}]
  BY <1>3, Zenon DEF Adds
<1>6. m # {}
  BY <1>3, <1>4, <1>5
<1>7. Chosen(m) \in m
  BY <1>6 DEF Chosen
<1>8. g[m \ {Chosen(m)}] = h[m \ {Chosen(m)}]
  BY <1>2, <1>3, <1>7
<1>9. QED
  BY <1>3, <1>4, <1>5, <1>6, <1>8

\* and there is a function that it describes.
LEMMA AddsExists ==
  ASSUME NEW D, IsFiniteSet(D), NEW f
  PROVE  \E g : Adds(g, f, D)
<1> DEFINE B == {U \in SUBSET D : ~\E g : Adds(g, f, U)}
<1>1. SUFFICES ASSUME B # {}
               PROVE  FALSE
  OBVIOUS
<1>2. PICK T \in B : \A U \in B : U \subseteq T => U = T
  <2>1. B \in SUBSET SUBSET D
    OBVIOUS
  <2> HIDE DEF B
  <2>2. QED
    BY <1>1, <2>1, SmallestOf
<1> DEFINE part(U) == CHOOSE g : Adds(g, f, U)
           less(s) == s \ {Chosen(s)}
           h == [s \in SUBSET T |-> IF s = {} THEN 0 ELSE f[Chosen(s)] + part(less(s))[less(s)]]
<1>3. \A U : U \subseteq T /\ U # T => Adds(part(U), f, U)
  <2>1. ASSUME NEW U, U \subseteq T, U # T
        PROVE  Adds(part(U), f, U)
    <3>1. \E g : Adds(g, f, U)
      BY <1>2, <2>1
    <3>2. QED
      BY <3>1, Zenon
  <2>2. QED
    BY <2>1, Zenon
<1>4. ASSUME NEW s \in SUBSET T, s # {}
      PROVE  less(s) \subseteq T /\ less(s) # T /\ less(s) \subseteq s /\ less(s) # s
  <2>1. Chosen(s) \in s
    BY <1>4 DEF Chosen
  <2>2. QED
    BY <2>1
<1> HIDE DEF part, less
<1>5. ASSUME NEW u \in SUBSET T, u # T
      PROVE  h[u] = part(u)[u]
  <2>1. Adds(part(u), f, u)
    BY <1>3, <1>5
  <2>2. part(u)[u] = IF u = {} THEN 0 ELSE f[Chosen(u)] + part(u)[less(u)]
    BY <2>1, Zenon DEF Adds, less
  <2>3. h[u] = IF u = {} THEN 0 ELSE f[Chosen(u)] + part(less(u))[less(u)]
    OBVIOUS
  <2>4. ASSUME u # {}
        PROVE  part(u)[less(u)] = part(less(u))[less(u)]
    <3>1. less(u) \subseteq u /\ less(u) \subseteq T /\ less(u) # T
      BY <1>4, <2>4
    <3>2. Adds(part(less(u)), f, less(u))
      BY <1>3, <3>1
    <3>3. u \in SUBSET D /\ less(u) \in SUBSET D /\ less(u) \in SUBSET (u \cap less(u))
      BY <3>1
    <3>4. QED
      BY <2>1, <3>2, <3>3, AddsAgree
  <2>5. QED
    BY <2>2, <2>3, <2>4
<1>6. Adds(h, f, T)
  <2>1. ASSUME NEW s \in SUBSET T, s # {}
        PROVE  h[less(s)] = part(less(s))[less(s)]
    BY <1>4, <1>5, <2>1
  <2>2. h = [s \in SUBSET T |-> IF s = {} THEN 0 ELSE f[Chosen(s)] + h[less(s)]]
    BY <2>1
  <2>3. QED
    BY <2>2, Zenon DEF Adds, less
<1>7. QED
  BY <1>6

\* The sum of a finite function is what the recursion says.
LEMMA SumAdds ==
  ASSUME NEW f, IsFiniteSet(DOMAIN f)
  PROVE  \E g : Adds(g, f, DOMAIN f) /\ SumFunction(f) = g[DOMAIN f]
<1>1. \E g : Adds(g, f, DOMAIN f)
  BY AddsExists
<1> DEFINE c == CHOOSE g : Adds(g, f, DOMAIN f)
<1>2. Adds(c, f, DOMAIN f)
  BY <1>1, Zenon
<1>3. SumFunction(f) = c[DOMAIN f]
  BY DEF SumFunction, SumFunctionOnSet, FoldFunctionOnSet, MapThenFoldSet, Adds, Chosen
<1>4. QED
  BY <1>2, <1>3

\* Sets that do not meet have as many elements together as one after the other.
LEMMA SumOfParts ==
  ASSUME NEW S, IsFiniteSet(S), NEW f, IsFiniteSet(DOMAIN f), NEW A \in [DOMAIN f -> SUBSET S],
         \A c \in DOMAIN f : f[c] = Cardinality(A[c]),
         \A c, d \in DOMAIN f : c # d => A[c] \cap A[d] = {}
  PROVE  SumFunction(f) = Cardinality(UNION {A[c] : c \in DOMAIN f})
<1> DEFINE D == DOMAIN f
           U(X) == UNION {A[c] : c \in X}
<1>1. PICK g : Adds(g, f, D) /\ SumFunction(f) = g[D]
  BY SumAdds
<1> DEFINE B == {X \in SUBSET D : g[X] # Cardinality(U(X))}
<1>2. SUFFICES ASSUME B # {}
               PROVE  FALSE
  BY <1>1
<1>3. PICK m \in B : \A k \in B : k \subseteq m => k = m
  <2>1. B \in SUBSET SUBSET D
    OBVIOUS
  <2> HIDE DEF B
  <2>2. QED
    BY <1>2, <2>1, SmallestOf
<1>4. m \in SUBSET D /\ g[m] # Cardinality(U(m))
  OBVIOUS
<1>5. g[m] = IF m = {} THEN 0 ELSE f[Chosen(m)] + g[m \ {Chosen(m)}]
  BY <1>1, <1>4, Zenon DEF Adds
<1>6. m # {}
  <2>1. ASSUME m = {}
        PROVE  FALSE
    <3>1. U(m) = {}
      BY <2>1
    <3>2. QED
      BY <1>4, <1>5, <2>1, <3>1, FS_EmptySet
  <2>2. QED
    BY <2>1
<1>7. PICK c \in m : c = Chosen(m)
  BY <1>6 DEF Chosen
<1> DEFINE r == m \ {c}
<1>8. g[m] = f[c] + g[r]
  BY <1>5, <1>6, <1>7
<1>9. g[r] = Cardinality(U(r))
  <2>1. r \in SUBSET D /\ r \subseteq m /\ r # m
    BY <1>4, <1>7
  <2>2. r \notin B
    BY <1>3, <2>1
  <2>3. QED
    BY <2>1, <2>2
<1>10. U(m) = A[c] \cup U(r) /\ A[c] \cap U(r) = {}
  <2>1. \A d \in r : A[c] \cap A[d] = {}
    BY <1>4, <1>7
  <2>2. U(m) = A[c] \cup U(r)
    BY <1>7
  <2>3. QED
    BY <2>1, <2>2
<1>11. IsFiniteSet(A[c]) /\ IsFiniteSet(U(r))
  <2>1. A[c] \in SUBSET S /\ U(r) \in SUBSET S
    BY <1>4, <1>7
  <2>2. QED
    BY <2>1, FS_Subset
<1>12. Cardinality(U(m)) = Cardinality(A[c]) + Cardinality(U(r))
  <2>1. Cardinality(A[c] \cup U(r)) = Cardinality(A[c]) + Cardinality(U(r)) - Cardinality(A[c] \cap U(r))
    BY <1>11, FS_Union
  <2>2. Cardinality(A[c] \cap U(r)) = 0
    BY <1>10, FS_EmptySet
  <2>3. Cardinality(A[c]) \in Nat /\ Cardinality(U(r)) \in Nat
    BY <1>11, FS_CardinalityType
  <2> HIDE DEF U, r
  <2>4. QED
    BY <1>10, <2>1, <2>2, <2>3
<1>13. f[c] = Cardinality(A[c])
  BY <1>4, <1>7
<1>14. QED
  BY <1>4, <1>8, <1>9, <1>12, <1>13

\* A chart that counts each of S in one bar adds up to S.
LEMMA SumOfClasses ==
  ASSUME NEW S, IsFiniteSet(S), NEW f, IsFiniteSet(DOMAIN f), NEW A \in [DOMAIN f -> SUBSET S],
         \A c \in DOMAIN f : f[c] = Cardinality(A[c]),
         \A i \in S : \E c \in DOMAIN f : i \in A[c] /\ \A d \in DOMAIN f : i \in A[d] => d = c
  PROVE  SumFunction(f) = Cardinality(S)
<1>1. \A c, d \in DOMAIN f : c # d => A[c] \cap A[d] = {}
  <2>1. ASSUME NEW c \in DOMAIN f, NEW d \in DOMAIN f, NEW i \in A[c] \cap A[d]
        PROVE  c = d
    <3>1. i \in S
      OBVIOUS
    <3>2. PICK e \in DOMAIN f : \A k \in DOMAIN f : i \in A[k] => k = e
      BY <3>1
    <3>3. QED
      BY <3>2
  <2>2. QED
    BY <2>1
<1>2. UNION {A[c] : c \in DOMAIN f} = S
  OBVIOUS
<1>3. QED
  BY <1>1, <1>2, SumOfParts

-----------------------------------------------------------------------------
(* The charts.                                                             *)

\* What a chart counts.
LEMMA AggregatedIs ==
  ASSUME NEW t, Table(t), PortalAssumption, NEW f
  PROVE  IsFiniteSet(Aggregated(t, f)) /\ \A i \in Aggregated(t, f) : Row(t[i])
<1>1. Aggregated(t, f) \subseteq DOMAIN t
  BY DEF Aggregated
<1>2. IsFiniteSet(DOMAIN Rows) /\ DOMAIN t \subseteq DOMAIN Rows
  BY DEF Table, PortalAssumption
<1>3. QED
  BY <1>1, <1>2, FS_Subset DEF Table

\* Each class that occurs is counted once.
LEMMA CategoriesAdd ==
  ASSUME NEW t, Table(t), PortalAssumption, NEW f
  PROVE  SumFunction(CategoryCounts(t, f)) = Cardinality(Aggregated(t, f))
<1> DEFINE S == Aggregated(t, f)
           C == {ExtractCategory(t[i]) : i \in S}
           A == [c \in C |-> {i \in S : ExtractCategory(t[i]) = c}]
           h == CategoryCounts(t, f)
<1>1. IsFiniteSet(S)
  BY AggregatedIs
<1>2. h = [c \in C |-> Cardinality({i \in S : ExtractCategory(t[i]) = c})]
  BY DEF CategoryCounts, Count
<1>3. DOMAIN h = C /\ A \in [C -> SUBSET S] /\ \A c \in C : h[c] = Cardinality(A[c])
  BY <1>2
<1>4. IsFiniteSet(C)
  <2>1. [i \in S |-> ExtractCategory(t[i])] \in Surjection(S, C)
    BY DEF Surjection
  <2>2. QED
    BY <1>1, <2>1, FS_Surjection
<1>5. \A i \in S : \E c \in C : i \in A[c] /\ \A d \in C : i \in A[d] => d = c
  <2>1. ASSUME NEW i \in S
        PROVE  \E c \in C : i \in A[c] /\ \A d \in C : i \in A[d] => d = c
    <3>1. ExtractCategory(t[i]) \in C
      OBVIOUS
    <3>2. QED
      BY <3>1
  <2>2. QED
    BY <2>1
<1> HIDE DEF S, C, A, h
<1>6. SumFunction(h) = Cardinality(S)
  BY <1>1, <1>3, <1>4, <1>5, SumOfClasses
<1>7. QED
  BY <1>6 DEF h, S

\* Each state that occurs is counted once.
LEMMA RegionsAdd ==
  ASSUME NEW t, Table(t), PortalAssumption, NEW f
  PROVE  SumFunction(RegionalCounts(t, f)) = Cardinality(Aggregated(t, f))
<1> DEFINE S == Aggregated(t, f)
           C == {RegionOf(t[i]) : i \in S}
           A == [c \in C |-> {i \in S : RegionOf(t[i]) = c}]
           h == RegionalCounts(t, f)
<1>1. IsFiniteSet(S)
  BY AggregatedIs
<1>2. h = [c \in C |-> Cardinality({i \in S : RegionOf(t[i]) = c})]
  BY DEF RegionalCounts, Count
<1>3. DOMAIN h = C /\ A \in [C -> SUBSET S] /\ \A c \in C : h[c] = Cardinality(A[c])
  BY <1>2
<1>4. IsFiniteSet(C)
  <2>1. [i \in S |-> RegionOf(t[i])] \in Surjection(S, C)
    BY DEF Surjection
  <2>2. QED
    BY <1>1, <2>1, FS_Surjection
<1>5. \A i \in S : \E c \in C : i \in A[c] /\ \A d \in C : i \in A[d] => d = c
  <2>1. ASSUME NEW i \in S
        PROVE  \E c \in C : i \in A[c] /\ \A d \in C : i \in A[d] => d = c
    <3>1. RegionOf(t[i]) \in C
      OBVIOUS
    <3>2. QED
      BY <3>1
  <2>2. QED
    BY <2>1
<1> HIDE DEF S, C, A, h
<1>6. SumFunction(h) = Cardinality(S)
  BY <1>1, <1>3, <1>4, <1>5, SumOfClasses
<1>7. QED
  BY <1>6 DEF h, S

\* An hour of the day in India.
LEMMA HoursAre ==
  ASSUME NEW r, Row(r)
  PROVE  HourInKolkata(r.occurred) \in 0 .. 23
<1>1. PICK n \in Nat : n = r.occurred
  BY RowIs
<1>2. (n + 11) % 48 \in 0 .. 47
  OBVIOUS
<1>3. ((n + 11) % 48) \div 2 \in 0 .. 23
  BY <1>2
<1>4. QED
  BY <1>1, <1>3 DEF HourInKolkata, Day, Hour

\* The windows divide the day.
LEMMA QuartersAdd ==
  ASSUME NEW t, Table(t), PortalAssumption, NEW f
  PROVE  SumFunction(DiurnalCounts(t, f)) = Cardinality(Aggregated(t, f))
<1> DEFINE S == Aggregated(t, f)
           C == {0, 6, 12, 18}
           hour(i) == HourInKolkata(t[i].occurred)
           A == [w \in C |-> {i \in S : w <= hour(i) /\ hour(i) < w + 6}]
           h == DiurnalCounts(t, f)
<1>1. IsFiniteSet(S) /\ \A i \in S : hour(i) \in 0 .. 23
  BY AggregatedIs, HoursAre
<1>2. h = [w \in C |-> Cardinality({i \in S : w <= hour(i) /\ hour(i) < w + 6})]
  BY DEF DiurnalCounts, Count
<1>3. DOMAIN h = C /\ A \in [C -> SUBSET S] /\ \A c \in C : h[c] = Cardinality(A[c])
  BY <1>2
<1>4. IsFiniteSet(C)
  <2>1. IsFiniteSet(0 .. 18)
    <3>1. PICK a \in Int, b \in Int : a = 0 /\ b = 18
      OBVIOUS
    <3>2. QED
      BY <3>1, FS_Interval
  <2>2. C \in SUBSET (0 .. 18)
    OBVIOUS
  <2>3. QED
    BY <2>1, <2>2, FS_Subset
<1> HIDE DEF S, hour
<1>5. \A i \in S : \E c \in C : i \in A[c] /\ \A d \in C : i \in A[d] => d = c
  <2>1. ASSUME NEW i \in S
        PROVE  \E c \in C : i \in A[c] /\ \A d \in C : i \in A[d] => d = c
    <3>1. \A w \in C : i \in A[w] <=> w <= hour(i) /\ hour(i) < w + 6
      OBVIOUS
    <3>2. PICK n \in 0 .. 23 : n = hour(i)
      BY <1>1
    <3> HIDE DEF A
    <3>3. CASE n \in 0 .. 5
      <4>1. i \in A[0] /\ \A d \in C : i \in A[d] => d = 0
        BY <3>1, <3>2, <3>3
      <4>2. QED
        BY <4>1
    <3>4. CASE n \in 6 .. 11
      <4>1. i \in A[6] /\ \A d \in C : i \in A[d] => d = 6
        BY <3>1, <3>2, <3>4
      <4>2. QED
        BY <4>1
    <3>5. CASE n \in 12 .. 17
      <4>1. i \in A[12] /\ \A d \in C : i \in A[d] => d = 12
        BY <3>1, <3>2, <3>5
      <4>2. QED
        BY <4>1
    <3>6. CASE n \in 18 .. 23
      <4>1. i \in A[18] /\ \A d \in C : i \in A[d] => d = 18
        BY <3>1, <3>2, <3>6
      <4>2. QED
        BY <4>1
    <3>7. QED
      BY <3>3, <3>4, <3>5, <3>6
  <2>2. QED
    BY <2>1
<1> HIDE DEF C, A, h
<1>6. SumFunction(h) = Cardinality(S)
  BY <1>1, <1>3, <1>4, <1>5, SumOfClasses
<1>7. QED
  BY <1>6 DEF h, S

\* Each hour of the day is in one window of four.
LEMMA FourHours ==
  ASSUME NEW n \in 0 .. 23
  PROVE  \E w \in {0, 4, 8, 12, 16, 20} :
           /\ w <= n /\ n < w + 4
           /\ \A v \in {0, 4, 8, 12, 16, 20} : v <= n /\ n < v + 4 => v = w
<1>1. CASE n \in 0 .. 3
  BY <1>1
<1>2. CASE n \in 4 .. 7
  BY <1>2
<1>3. CASE n \in 8 .. 11
  BY <1>3
<1>4. CASE n \in 12 .. 15
  BY <1>4
<1>5. CASE n \in 16 .. 19
  BY <1>5
<1>6. CASE n \in 20 .. 23
  BY <1>6
<1>7. QED
  BY <1>1, <1>2, <1>3, <1>4, <1>5, <1>6

\* The windows of the chart by hour, and what is in one.
Windows == {0, 4, 8, 12, 16, 20}
InWindow(S, hour, w) == {i \in S : w <= hour[i] /\ hour[i] < w + 4}

\* What the windows of the day say of those of S that are in P.
LEMMA WindowsAdd ==
  ASSUME NEW S, IsFiniteSet(S), NEW hour \in [S -> 0 .. 23], NEW P \in SUBSET S,
         NEW h, DOMAIN h = Windows, \A w \in Windows : h[w] = Cardinality(InWindow(S, hour, w) \cap P)
  PROVE  SumFunction(h) = Cardinality(P)
<1> DEFINE A == [w \in Windows |-> InWindow(S, hour, w) \cap P]
<1>1. IsFiniteSet(P)
  BY FS_Subset
<1>2. A \in [Windows -> SUBSET P] /\ \A c \in Windows : h[c] = Cardinality(A[c])
  OBVIOUS
<1>3. IsFiniteSet(Windows)
  <2>1. IsFiniteSet(0 .. 20)
    <3>1. PICK a \in Int, b \in Int : a = 0 /\ b = 20
      OBVIOUS
    <3>2. QED
      BY <3>1, FS_Interval
  <2>2. Windows \in SUBSET (0 .. 20)
    BY DEF Windows
  <2>3. QED
    BY <2>1, <2>2, FS_Subset
<1>4. \A i \in P : \E c \in Windows : i \in A[c] /\ \A d \in Windows : i \in A[d] => d = c
  <2>1. ASSUME NEW i \in P
        PROVE  \E c \in Windows : i \in A[c] /\ \A d \in Windows : i \in A[d] => d = c
    <3>1. \A w \in Windows : i \in A[w] <=> w <= hour[i] /\ hour[i] < w + 4
      BY DEF InWindow
    <3>2. PICK n \in 0 .. 23 : n = hour[i]
      OBVIOUS
    <3>3. PICK w \in Windows : w <= n /\ n < w + 4 /\ \A v \in Windows : v <= n /\ n < v + 4 => v = w
      BY FourHours DEF Windows
    <3> HIDE DEF A
    <3>4. QED
      BY <3>1, <3>2, <3>3
  <2>2. QED
    BY <2>1
<1> HIDE DEF A
<1>5. QED
  BY <1>1, <1>2, <1>3, <1>4, SumOfClasses

\* The chart by hour shows each report, and each verified one, once.
LEMMA HoursAdd ==
  ASSUME NEW t, Table(t), PortalAssumption, NEW f
  PROVE  /\ Totals(HourlyTrends(t, f)) = Cardinality(Aggregated(t, f))
         /\ Verified(HourlyTrends(t, f)) = Cardinality({i \in Aggregated(t, f) : t[i].status = "VERIFIED"})
<1> DEFINE S == Aggregated(t, f)
           V == {i \in S : t[i].status = "VERIFIED"}
           hour == [i \in S |-> HourInKolkata(t[i].occurred)]
           h == HourlyTrends(t, f)
           all == [k \in DOMAIN h |-> h[k].total]
           some == [k \in DOMAIN h |-> h[k].verified]
<1>1. IsFiniteSet(S) /\ hour \in [S -> 0 .. 23]
  BY AggregatedIs, HoursAre
<1>2. h = [w \in {0, 4, 8, 12, 16, 20} |->
             [total |-> Cardinality({i \in S : w <= HourInKolkata(t[i].occurred) /\ HourInKolkata(t[i].occurred) < w + 4}),
              verified |-> Cardinality({i \in S : (w <= HourInKolkata(t[i].occurred) /\ HourInKolkata(t[i].occurred) < w + 4)
                                                    /\ t[i].status = "VERIFIED"})]]
  BY DEF HourlyTrends, Count
<1>3. ASSUME NEW w \in Windows
      PROVE  /\ h[w].total = Cardinality(InWindow(S, hour, w) \cap S)
             /\ h[w].verified = Cardinality(InWindow(S, hour, w) \cap V)
  <2>1. {i \in S : w <= HourInKolkata(t[i].occurred) /\ HourInKolkata(t[i].occurred) < w + 4}
          = InWindow(S, hour, w) \cap S
    BY DEF InWindow
  <2>2. {i \in S : (w <= HourInKolkata(t[i].occurred) /\ HourInKolkata(t[i].occurred) < w + 4) /\ t[i].status = "VERIFIED"}
          = InWindow(S, hour, w) \cap V
    BY DEF InWindow
  <2>3. /\ h[w].total = Cardinality({i \in S : w <= HourInKolkata(t[i].occurred) /\ HourInKolkata(t[i].occurred) < w + 4})
        /\ h[w].verified = Cardinality({i \in S : (w <= HourInKolkata(t[i].occurred) /\ HourInKolkata(t[i].occurred) < w + 4)
                                                    /\ t[i].status = "VERIFIED"})
    BY <1>2 DEF Windows
  <2>4. QED
    BY <2>1, <2>2, <2>3, Zenon
<1>4. DOMAIN h = Windows
  BY <1>2 DEF Windows
<1>5. V \in SUBSET S /\ S \in SUBSET S
  OBVIOUS
<1>6. DOMAIN all = Windows /\ \A w \in Windows : all[w] = Cardinality(InWindow(S, hour, w) \cap S)
  BY <1>3, <1>4
<1>7. DOMAIN some = Windows /\ \A w \in Windows : some[w] = Cardinality(InWindow(S, hour, w) \cap V)
  BY <1>3, <1>4
<1>8. Totals(h) = SumFunction(all) /\ Verified(h) = SumFunction(some)
  BY DEF Totals, Verified
<1> HIDE DEF h, all, some, V, S, hour
<1>9. SumFunction(all) = Cardinality(S)
  BY <1>1, <1>5, <1>6, WindowsAdd
<1>10. SumFunction(some) = Cardinality(V)
  BY <1>1, <1>5, <1>7, WindowsAdd
<1>11. QED
  BY <1>8, <1>9, <1>10 DEF h, S, V

\* The chart by day shows each report of its days once.
LEMMA DaysAdd ==
  ASSUME NEW t, Table(t), PortalAssumption, NEW f, NEW range
  PROVE  Totals(DailyTrends(t, f, range, Now)) =
           Cardinality({i \in Aggregated(t, f) :
                          t[i].occurred \div Day \in Now \div Day - TrendDays(range) + 1 .. Now \div Day})
<1> DEFINE S == Aggregated(t, f)
           D == Now \div Day - TrendDays(range) + 1 .. Now \div Day
           V == {i \in S : t[i].occurred \div Day \in D}
           A == [d \in D |-> {i \in V : t[i].occurred \div Day = d}]
           h == DailyTrends(t, f, range, Now)
           all == [k \in DOMAIN h |-> h[k].total]
<1>1. IsFiniteSet(S) /\ IsFiniteSet(V)
  <2>1. IsFiniteSet(S)
    BY AggregatedIs
  <2>2. V \in SUBSET S
    OBVIOUS
  <2> HIDE DEF V, S
  <2>3. QED
    BY <2>1, <2>2, FS_Subset
<1>2. IsFiniteSet(D)
  <2>1. Now \div Day - TrendDays(range) + 1 \in Int /\ Now \div Day \in Int
    BY DEF PortalAssumption, TrendDays, Day
  <2>2. QED
    BY <2>1, FS_Interval
<1>3. h = [d \in D |->
             [total |-> Cardinality({i \in S : t[i].occurred \div Day = d}),
              verified |-> Cardinality({i \in S : t[i].occurred \div Day = d /\ t[i].status = "VERIFIED"})]]
  BY DEF DailyTrends, Count
<1> HIDE DEF D
<1>4. ASSUME NEW d \in D
      PROVE  h[d].total = Cardinality(A[d])
  <2>1. {i \in S : t[i].occurred \div Day = d} = A[d]
    OBVIOUS
  <2>2. h[d].total = Cardinality({i \in S : t[i].occurred \div Day = d})
    BY <1>3
  <2>3. QED
    BY <2>1, <2>2, Zenon
<1>5. DOMAIN h = D /\ A \in [D -> SUBSET V]
  BY <1>3
<1>6. \A i \in V : \E c \in D : i \in A[c] /\ \A d \in D : i \in A[d] => d = c
  <2>1. ASSUME NEW i \in V
        PROVE  \E c \in D : i \in A[c] /\ \A d \in D : i \in A[d] => d = c
    <3>1. t[i].occurred \div Day \in D
      OBVIOUS
    <3>2. QED
      BY <3>1
  <2>2. QED
    BY <2>1
<1> HIDE DEF h, V, S, A
<1>7. DOMAIN all = D /\ \A d \in D : all[d] = Cardinality(A[d])
  BY <1>4, <1>5
<1>8. Totals(h) = SumFunction(all)
  BY DEF Totals
<1> HIDE DEF all
<1>9. SumFunction(all) = Cardinality(V)
  BY <1>1, <1>2, <1>5, <1>6, <1>7, SumOfClasses
<1>10. QED
  BY <1>8, <1>9 DEF h, V, S, D

\* Counting the parts of a set.
LEMMA TwoParts ==
  ASSUME NEW S, IsFiniteSet(S), NEW A, NEW B, S = A \cup B, A \cap B = {}
  PROVE  Cardinality(S) = Cardinality(A) + Cardinality(B) /\ Cardinality(A) \in Nat /\ Cardinality(B) \in Nat
<1>1. A \in SUBSET S /\ B \in SUBSET S
  OBVIOUS
<1>2. IsFiniteSet(A) /\ IsFiniteSet(B)
  BY <1>1, FS_Subset
<1>3. Cardinality(S) = Cardinality(A) + Cardinality(B) - Cardinality(A \cap B)
  BY <1>2, FS_Union
<1>4. Cardinality(A \cap B) = 0
  BY FS_EmptySet
<1>5. Cardinality(A) \in Nat /\ Cardinality(B) \in Nat
  BY <1>2, FS_CardinalityType
<1>6. QED
  BY <1>3, <1>4, <1>5

\* The same of four parts.
LEMMA FourParts ==
  ASSUME NEW S, IsFiniteSet(S), NEW A, NEW B, NEW C, NEW D, S = A \cup B \cup C \cup D,
         A \cap B = {}, A \cap C = {}, A \cap D = {}, B \cap C = {}, B \cap D = {}, C \cap D = {}
  PROVE  Cardinality(S) = Cardinality(A) + Cardinality(B) + Cardinality(C) + Cardinality(D)
<1>1. A \cup B \in SUBSET S /\ C \cup D \in SUBSET S /\ S = (A \cup B) \cup (C \cup D) /\ (A \cup B) \cap (C \cup D) = {}
  OBVIOUS
<1>2. IsFiniteSet(A \cup B) /\ IsFiniteSet(C \cup D)
  BY <1>1, FS_Subset
<1>3. Cardinality(S) = Cardinality(A \cup B) + Cardinality(C \cup D)
  BY <1>1, TwoParts
<1>4. Cardinality(A \cup B) = Cardinality(A) + Cardinality(B) /\ Cardinality(A) \in Nat /\ Cardinality(B) \in Nat
  <2>1. PICK E : E = A \cup B
    OBVIOUS
  <2>2. Cardinality(E) = Cardinality(A) + Cardinality(B) /\ Cardinality(A) \in Nat /\ Cardinality(B) \in Nat
    BY <1>2, <2>1, TwoParts
  <2>3. QED
    BY <2>1, <2>2
<1>5. Cardinality(C \cup D) = Cardinality(C) + Cardinality(D) /\ Cardinality(C) \in Nat /\ Cardinality(D) \in Nat
  <2>1. PICK E : E = C \cup D
    OBVIOUS
  <2>2. Cardinality(E) = Cardinality(C) + Cardinality(D) /\ Cardinality(C) \in Nat /\ Cardinality(D) \in Nat
    BY <1>2, <2>1, TwoParts
  <2>3. QED
    BY <2>1, <2>2
<1>6. QED
  BY <1>3, <1>4, <1>5

\* What a summary says of the reports it counts.
SummaryIs(n, t, f) ==
  /\ n.total = Cardinality(Aggregated(t, f))
  /\ n.verified = Cardinality({i \in Aggregated(t, f) : t[i].status = "VERIFIED"})
  /\ n.last24 = Cardinality({i \in Aggregated(t, f) : t[i].occurred >= Now - Day})
  /\ n.total = n.verified + n.pending + n.rejected + n.duplicate
  /\ n.total = n.severeHigh + n.moderate + n.low /\ n.severeHigh = n.severe + n.high

\* The statuses and the severities divide the reports.
LEMMA SummaryAdds ==
  ASSUME NEW t, Table(t), PortalAssumption, NEW f
  PROVE  SummaryIs(SummaryCounts(t, f, Now), t, f)
<1>0. PICK n : n = SummaryCounts(t, f, Now)
  OBVIOUS
<1> DEFINE S == Aggregated(t, f)
           st(Q) == {i \in S : t[i].status \in Q}
           sv(Q) == {i \in S : t[i].severity \in Q}
<1>1. IsFiniteSet(S) /\ \A i \in S : Row(t[i])
  BY AggregatedIs
<1>2. \A i \in S : /\ t[i].status \in {"PENDING", "UNDER_REVIEW", "VERIFIED", "REJECTED", "DUPLICATE"}
                   /\ t[i].severity \in {"LOW", "MODERATE", "HIGH", "SEVERE"}
  BY <1>1 DEF Row
<1>3. /\ n.total = Cardinality(S) /\ n.last24 = Cardinality({i \in S : t[i].occurred >= Now - Day})
      /\ n.verified = Cardinality(st({"VERIFIED"})) /\ n.pending = Cardinality(st({"PENDING", "UNDER_REVIEW"}))
      /\ n.rejected = Cardinality(st({"REJECTED"})) /\ n.duplicate = Cardinality(st({"DUPLICATE"}))
      /\ n.severeHigh = Cardinality(sv({"SEVERE", "HIGH"})) /\ n.severe = Cardinality(sv({"SEVERE"}))
      /\ n.high = Cardinality(sv({"HIGH"})) /\ n.moderate = Cardinality(sv({"MODERATE"})) /\ n.low = Cardinality(sv({"LOW"}))
  BY <1>0 DEF SummaryCounts, Count
<1>4. Cardinality(S) = Cardinality(st({"VERIFIED"})) + Cardinality(st({"PENDING", "UNDER_REVIEW"}))
                       + Cardinality(st({"REJECTED"})) + Cardinality(st({"DUPLICATE"}))
  <2>1. S = st({"VERIFIED"}) \cup st({"PENDING", "UNDER_REVIEW"}) \cup st({"REJECTED"}) \cup st({"DUPLICATE"})
    BY <1>2
  <2>2. /\ st({"VERIFIED"}) \cap st({"PENDING", "UNDER_REVIEW"}) = {} /\ st({"VERIFIED"}) \cap st({"REJECTED"}) = {}
        /\ st({"VERIFIED"}) \cap st({"DUPLICATE"}) = {} /\ st({"PENDING", "UNDER_REVIEW"}) \cap st({"REJECTED"}) = {}
        /\ st({"PENDING", "UNDER_REVIEW"}) \cap st({"DUPLICATE"}) = {} /\ st({"REJECTED"}) \cap st({"DUPLICATE"}) = {}
    OBVIOUS
  <2> HIDE DEF st
  <2>3. QED
    BY <1>1, <2>1, <2>2, FourParts
<1>5. /\ Cardinality(S) = Cardinality(sv({"SEVERE", "HIGH"})) + Cardinality(sv({"MODERATE"})) + Cardinality(sv({"LOW"}))
      /\ Cardinality(sv({"SEVERE", "HIGH"})) = Cardinality(sv({"SEVERE"})) + Cardinality(sv({"HIGH"}))
  <2>1. PICK A, B, C, D, E : A = sv({"SEVERE"}) /\ B = sv({"HIGH"}) /\ C = sv({"MODERATE"}) /\ D = sv({"LOW"})
                             /\ E = sv({"SEVERE", "HIGH"})
    OBVIOUS
  <2>2. /\ S = E \cup C \cup D \cup {} /\ E = A \cup B /\ A \cap B = {} /\ E \cap C = {} /\ E \cap D = {} /\ C \cap D = {}
        /\ E \in SUBSET S
    BY <1>2, <2>1
  <2> HIDE DEF sv, S
  <2>3. Cardinality(S) = Cardinality(E) + Cardinality(C) + Cardinality(D) + Cardinality({})
    BY <1>1, <2>2, FourParts
  <2>4. IsFiniteSet(E) /\ IsFiniteSet(C) /\ IsFiniteSet(D)
    BY <1>1, <2>2, FS_Subset
  <2>5. Cardinality(E) = Cardinality(A) + Cardinality(B)
    BY <2>2, <2>4, TwoParts
  <2>6. Cardinality({}) = 0 /\ Cardinality(E) \in Nat /\ Cardinality(C) \in Nat /\ Cardinality(D) \in Nat
    BY <2>4, FS_EmptySet, FS_CardinalityType
  <2>7. QED
    BY <2>1, <2>3, <2>5, <2>6
<1>6. st({"VERIFIED"}) = {i \in S : t[i].status = "VERIFIED"}
  OBVIOUS
<1> HIDE DEF st, sv, S
<1>7. QED
  BY <1>0, <1>3, <1>4, <1>5, <1>6 DEF S, SummaryIs

\* All charts of a table agree.
LEMMA ChartsAgree ==
  ASSUME Table(table), PortalAssumption, NEW f
  PROVE  ChartsAdd(f)
<1>0. PICK n : n = SummaryCounts(table, f, Now)
  OBVIOUS
<1>1. /\ n.total = Cardinality(Aggregated(table, f))
      /\ n.verified = Cardinality({i \in Aggregated(table, f) : table[i].status = "VERIFIED"})
      /\ n.total = n.verified + n.pending + n.rejected + n.duplicate
      /\ n.total = n.severeHigh + n.moderate + n.low /\ n.severeHigh = n.severe + n.high
  <2>1. SummaryIs(n, table, f)
    BY <1>0, SummaryAdds, Zenon
  <2>2. QED
    BY <2>1, Zenon DEF SummaryIs
<1>2. n.total = Totals(HourlyTrends(table, f)) /\ n.verified = Verified(HourlyTrends(table, f))
  BY <1>1, HoursAdd
<1>3. n.total = SumFunction(RegionalCounts(table, f))
  BY <1>1, RegionsAdd
<1>4. \A range \in {"d7", "d30"} :
        Totals(DailyTrends(table, f, range, Now)) =
          Cardinality({i \in Aggregated(table, f) :
                         table[i].occurred \div Day \in Now \div Day - TrendDays(range) + 1 .. Now \div Day})
  BY DaysAdd, Zenon
<1>5. QED
  BY <1>0, <1>1, <1>2, <1>3, <1>4, Zenon DEF ChartsAdd

\* Each named range reaches back at least a day.
LEMMA RangesHaveADay ==
  ASSUME NEW range \in {"h24", "h48", "d7", "d30"}, PortalAssumption
  PROVE  TimeRange(range, 0, Now) \in Int /\ TimeRange(range, 0, Now) <= Now - Day
<1>1. Now \in Nat /\ Hour = 2 /\ Day = 48
  BY DEF PortalAssumption, Hour, Day
<1>2. PICK n \in {24, 48, 168, 720} : TimeRange(range, 0, Now) = Now - n * Hour
  <2>1. CASE range = "h24"
    BY <2>1 DEF TimeRange
  <2>2. CASE range = "h48"
    BY <2>2 DEF TimeRange
  <2>3. CASE range = "d7"
    BY <2>3 DEF TimeRange
  <2>4. CASE range = "d30"
    BY <2>4 DEF TimeRange
  <2>5. QED
    BY <2>1, <2>2, <2>3, <2>4
<1>3. QED
  BY <1>1, <1>2

\* The count of the last day is the same in every named range.
LEMMA Last24Agree ==
  ASSUME Table(table), PortalAssumption, NEW range \in {"h24", "h48", "d7", "d30"}
  PROVE  SummaryCounts(table, [Everything EXCEPT !.from = TimeRange(range, 0, Now)], Now).last24
           = SummaryCounts(table, Everything, Now).last24
<1>1. PICK g \in Int : g = TimeRange(range, 0, Now) /\ g <= Now - Day
  BY RangesHaveADay
<1>2. PICK e : e = Everything
  OBVIOUS
<1>3. PICK f : f = [e EXCEPT !.from = g]
  OBVIOUS
<1>4. PICK forever : forever = Forever
  OBVIOUS
<1>5. e = [category |-> "", severity |-> "", statuses |-> {}, readiness |-> "", least |-> 0, most |-> 100,
           from |-> 0, to |-> forever, box |-> <<>>, hideDemo |-> FALSE]
  BY <1>2, <1>4, Zenon DEF Everything
<1>6. /\ f.category = e.category /\ f.severity = e.severity /\ f.statuses = e.statuses /\ f.to = e.to
      /\ f.box = e.box /\ f.hideDemo = e.hideDemo /\ f.from = g /\ e.from = 0 /\ e.to = forever
  BY <1>3, <1>5
<1>7. Now \in Nat /\ Day \in Nat
  BY DEF PortalAssumption, Day
<1>8. \A i \in DOMAIN table :
        table[i].occurred >= Now - Day =>
          (AggregationFilter(table[i], f) <=> AggregationFilter(table[i], e))
  <2>1. ASSUME NEW i \in DOMAIN table, table[i].occurred >= Now - Day
        PROVE  AggregationFilter(table[i], f) <=> AggregationFilter(table[i], e)
    <3>1. table[i].occurred \in Nat /\ table[i].occurred <= forever
      BY <1>4, RowIs, Zenon DEF Table
    <3>2. f.from <= table[i].occurred /\ e.from <= table[i].occurred
      BY <1>1, <1>6, <1>7, <2>1, <3>1
    <3>3. QED
      BY <1>6, <3>2, Zenon DEF AggregationFilter
  <2>2. QED
    BY <2>1
<1>9. {i \in Aggregated(table, f) : table[i].occurred >= Now - Day}
        = {i \in Aggregated(table, e) : table[i].occurred >= Now - Day}
  BY <1>8 DEF Aggregated
<1>10. SummaryCounts(table, f, Now).last24 = SummaryCounts(table, e, Now).last24
  <2>1. PICK n, m : n = SummaryCounts(table, f, Now) /\ m = SummaryCounts(table, e, Now)
    OBVIOUS
  <2>2. n.last24 = Cardinality({i \in Aggregated(table, f) : table[i].occurred >= Now - Day})
    BY <2>1, SummaryAdds, Zenon DEF SummaryIs
  <2>3. m.last24 = Cardinality({i \in Aggregated(table, e) : table[i].occurred >= Now - Day})
    BY <2>1, SummaryAdds, Zenon DEF SummaryIs
  <2>4. QED
    BY <1>9, <2>1, <2>2, <2>3, Zenon
<1>11. QED
  BY <1>1, <1>2, <1>3, <1>10, Zenon

\* What the dashboard holds of the table, unless it was written since.
DashInv ==
  ~wrote =>
    /\ dash = "categories" => counts.total = Cardinality(Aggregated(table, Everything))
    /\ dash = "diurnal" => /\ counts.total = Cardinality(Aggregated(table, Everything))
                           /\ counts.total = SumFunction(categories)
    /\ dash = "done" => counts.total = SumFunction(categories) /\ counts.total = SumFunction(diurnal)

\* What the statements found holds of the table until it is written.
LEMMA DashInvHolds ==
  ASSUME PortalAssumption
  PROVE  PortalSpec => [](DashInv /\ Table(table))
<1>1. PortalInit => DashInv
  BY DEF PortalInit, DashInv
<1>2. PortalInv => Table(table)
  BY DEF PortalInv, WalkShape
<1>3. PortalInv /\ DashInv /\ [PortalNext]_portalVars => DashInv'
  <2>1. SUFFICES ASSUME PortalInv, DashInv, [PortalNext]_portalVars
                 PROVE  DashInv'
    OBVIOUS
  <2> DEFINE all(t) == Cardinality(Aggregated(t, Everything))
  <2>2. CASE \E t : Commit(t)
    <3>1. PICK t : Commit(t)
      BY <2>2
    <3>2. UNCHANGED <<dash, counts, categories, diurnal>> /\ wrote' = (wrote \/ dash \in {"categories", "diurnal"})
      BY <3>1, Zenon DEF Commit, dashboard
    <3>3. ~wrote' => ~wrote /\ dash \notin {"categories", "diurnal"}
      BY <3>2, Zenon
    <3>4. QED
      BY <2>1, <3>2, <3>3 DEF DashInv
  <2>3. CASE Summarise
    <3>1. dash' = "categories" /\ counts' = SummaryCounts(table, Everything, Now) /\ table' = table
      BY <2>3 DEF Summarise
    <3>2. counts'.total = all(table)
      <4>1. SummaryIs(counts', table, Everything)
        BY <1>2, <2>1, <3>1, SummaryAdds, Zenon
      <4>2. QED
        BY <4>1, Zenon DEF SummaryIs
    <3>3. all(table)' = all(table)
      BY <3>1
    <3> HIDE DEF all
    <3>4. QED
      BY <3>1, <3>2, <3>3 DEF DashInv, all
  <2>4. CASE Categorise
    <3>1. /\ dash = "categories" /\ dash' = "diurnal" /\ counts' = counts /\ table' = table /\ wrote' = wrote
          /\ categories' = CategoryCounts(table, Everything)
      BY <2>4 DEF Categorise
    <3>2. SumFunction(categories') = all(table)
      BY <1>2, <2>1, <3>1, CategoriesAdd, Zenon
    <3>3. all(table)' = all(table)
      BY <3>1
    <3>4. ~wrote => counts.total = all(table)
      BY <2>1, <3>1 DEF DashInv
    <3> HIDE DEF all
    <3>5. QED
      BY <3>1, <3>2, <3>3, <3>4 DEF DashInv, all
  <2>5. CASE Distribute
    <3>1. /\ dash = "diurnal" /\ dash' = "done" /\ counts' = counts /\ table' = table /\ wrote' = wrote
          /\ categories' = categories /\ diurnal' = DiurnalCounts(table, Everything)
      BY <2>5 DEF Distribute
    <3>2. SumFunction(diurnal') = all(table)
      BY <1>2, <2>1, <3>1, QuartersAdd, Zenon
    <3>3. ~wrote => counts.total = all(table) /\ counts.total = SumFunction(categories)
      BY <2>1, <3>1 DEF DashInv
    <3> HIDE DEF all
    <3>4. QED
      BY <3>1, <3>2, <3>3 DEF DashInv
  <2>6. CASE UNCHANGED <<table, dashboard, wrote>>
    <3>1. UNCHANGED <<table, dash, counts, categories, diurnal, wrote>>
      BY <2>6 DEF dashboard
    <3>2. QED
      BY <2>1, <3>1 DEF DashInv
  <2>7. Writers => \E t : Commit(t)
    BY Zenon DEF Writers, IngestReport, Decide, Assess
  <2>8. Walk \/ UNCHANGED portalVars => UNCHANGED <<table, dashboard, wrote>>
    BY Zenon DEF Walk, Begin, CountQueue, FetchPage, portalVars
  <2>9. QED
    BY <2>1, <2>2, <2>3, <2>4, <2>5, <2>6, <2>7, <2>8, Zenon DEF PortalNext, Dashboard
<1>4. QED
  BY <1>1, <1>2, <1>3, PortalInvHolds, PTL DEF PortalSpec

(* The numbers of a dashboard add up unless the table was written between  *)
(* its statements, and all charts of a table agree, for any rows, filters  *)
(* and time.                                                               *)
THEOREM DashboardsAdd ==
  ASSUME PortalAssumption
  PROVE  PortalSpec => []BreakdownsAdd
<1>1. ASSUME DashInv, Table(table)
      PROVE  BreakdownsAdd
  <2>1. \A f \in Filters : ChartsAdd(f)
    BY <1>1, ChartsAgree
  <2>2. dash = "done" /\ ~wrote => counts.total = SumFunction(categories) /\ counts.total = SumFunction(diurnal)
    BY <1>1 DEF DashInv
  <2>3. \A range \in {"h24", "h48", "d7", "d30"} :
          SummaryCounts(table, [Everything EXCEPT !.from = TimeRange(range, 0, Now)], Now).last24
            = SummaryCounts(table, Everything, Now).last24
    BY <1>1, Last24Agree
  <2>4. QED
    BY <2>1, <2>2, <2>3, Zenon DEF BreakdownsAdd
<1>2. QED
  BY <1>1, DashInvHolds, PTL

-----------------------------------------------------------------------------
(* The pages.                                                              *)

\* Each listed report is on one page, once.
LEMMA ListsAreWhole ==
  ASSUME Table(table), PortalAssumption, NEW f
  PROVE  ListsWhole(f)
<1> DEFINE S == Listed(table, f)
<1>1. S \in SUBSET DOMAIN table /\ S \in SUBSET Int /\ IsFiniteSet(S)
  <2>1. IsFiniteSet(DOMAIN Rows) /\ DOMAIN Rows \subseteq Nat /\ S \subseteq DOMAIN table /\ DOMAIN table \subseteq DOMAIN Rows
    BY DEF PortalAssumption, Listed, Table
  <2> HIDE DEF S
  <2>2. QED
    BY <2>1, FS_Subset
<1>2. ASSUME NEW column \in {"occurred_at", "credibility_score", "created_at"}, NEW up \in BOOLEAN
      PROVE  IsInjective(OnPages(ListPages(f, column, up))) /\ Range(OnPages(ListPages(f, column, up))) = S
  <2> DEFINE of(i) == CASE column = "credibility_score" -> table[i].score
                        [] column = "created_at" -> table[i].created
                        [] OTHER -> table[i].occurred
             key == [i \in DOMAIN table |-> <<IF up THEN -of(i) ELSE of(i), i>>]
             pages == ListPages(f, column, up)
             g == [i \in S |-> i]
  <2>1. \A i \in S : of(i) \in Int
    <3>1. ASSUME NEW i \in S
          PROVE  of(i) \in Int
      <4>1. PICK r : r = table[i] /\ Row(r)
        BY <1>1 DEF Table
      <4>2. r.score \in Int /\ r.occurred \in Int /\ r.created \in Int
        BY <4>1, RowIs
      <4>3. QED
        BY <4>1, <4>2
    <3>2. QED
      BY <3>1
  <2>2. Keyed(S, key)
    <3>1. ASSUME NEW i \in S
          PROVE  key[i] \in [1 .. 2 -> Int]
      <4>1. i \in Int /\ i \in DOMAIN table /\ of(i) \in Int
        BY <1>1, <2>1
      <4> HIDE DEF of, S
      <4>2. key[i] = <<IF up THEN -of(i) ELSE of(i), i>>
        BY <4>1
      <4>3. (IF up THEN -of(i) ELSE of(i)) \in Int
        BY <4>1
      <4> HIDE DEF key
      <4>4. QED
        BY <4>1, <4>2, <4>3
    <3>2. QED
      BY <3>1, Zenon DEF Keyed
  <2>3. ListOrder(table, f, column, up) = Ordered(S, key)
    BY Zenon DEF ListOrder
  <2>4. pages = [k \in 1 .. TotalPages(Cardinality(S), PageSize) |->
                   Page(Ordered(S, key), Cardinality(S), k, PageSize).items]
    BY <2>3, Zenon DEF ListPages, ListIncidents
  <2> HIDE DEF pages, key
  <2>5. PageSize \in Nat \ {0} /\ DOMAIN g = S
    BY DEF PortalAssumption
  <2>6. Tell(pages, Ordered(S, key), Cardinality(S), PageSize, g)
    <3>1. PICK n \in Nat : n = Cardinality(S) /\ Ordered(S, key) \in [1 .. n -> S] /\ Ordered(S, key) \in Seq(S)
                           /\ Len(Ordered(S, key)) = n
      BY <1>1, <2>2, ListIs
    <3>2. ASSUME NEW k \in DOMAIN pages
          PROVE  pages[k] = [m \in DOMAIN Page(Ordered(S, key), Cardinality(S), k, PageSize).items |->
                               g[Page(Ordered(S, key), Cardinality(S), k, PageSize).items[m]]]
      <4>1. PICK items : items = Page(Ordered(S, key), Cardinality(S), k, PageSize).items
        OBVIOUS
      <4>2. k \in Nat \ {0}
        BY <2>4 DEF TotalPages
      <4>3. items \in Seq(S)
        BY <2>5, <3>1, <4>1, <4>2, OnePageMore DEF Follow
      <4>4. pages[k] = items
        BY <2>4, <4>1, Zenon
      <4>5. items = [m \in DOMAIN items |-> g[items[m]]]
        BY <4>3
      <4>6. QED
        BY <4>1, <4>4, <4>5, Zenon
    <3>3. DOMAIN pages = 1 .. TotalPages(Cardinality(S), PageSize)
      BY <2>4
    <3>4. QED
      BY <3>2, <3>3, Zenon DEF Tell
  <2>7. Range(OnPages(pages)) = {g[x] : x \in S} /\ (IsInjective(g) => IsInjective(OnPages(pages)))
    BY <1>1, <2>2, <2>5, <2>6, PagesTellAll
  <2>8. {g[x] : x \in S} = S /\ IsInjective(g)
    BY DEF IsInjective
  <2>9. QED
    BY <2>7, <2>8 DEF pages
<1>3. QED
  BY <1>2, Zenon DEF ListsWhole

\* The pages of the links of a report, whatever the known roles.
LEMMA LinkPagesShown ==
  ASSUME PortalAssumption, NEW links \in Links, NEW known, NEW support,
         "CONTRADICTORY" \in known, support # "CONTRADICTORY"
  PROVE  LinksShown(links, [k \in 1 .. TotalPages(Cardinality(DOMAIN links), PageSize) |->
                              LinkPage(links, known, support, k, PageSize).items])
<1> DEFINE S == DOMAIN links
           key == [l \in S |-> <<links[l].score, l>>]
           e == [l \in S |-> [id |-> l, relationship |-> IF links[l].role \in known THEN links[l].role ELSE support]]
           count == Cardinality(S)
           order == Ordered(S, key)
           items(k) == Page(order, count, k, PageSize).items
           pages == [k \in 1 .. TotalPages(count, PageSize) |-> LinkPage(links, known, support, k, PageSize).items]
<1>1. IsFiniteSet(S) /\ S \in SUBSET Int /\ (\A l \in S : links[l].score \in Int) /\ PageSize \in Nat \ {0}
  BY DEF PortalAssumption
<1>2. Keyed(S, key)
  <2>1. \A l \in S : key[l] \in [1 .. 2 -> Int]
    BY <1>1
  <2>2. QED
    BY <2>1, Zenon DEF Keyed
<1> HIDE DEF key
<1>3. PICK n \in Nat : n = count /\ order \in Seq(S)
  BY <1>1, <1>2, ListIs
<1> HIDE DEF order, count
<1>4. \A k \in 1 .. TotalPages(count, PageSize) : items(k) \in Seq(S)
  <2>1. ASSUME NEW k \in 1 .. TotalPages(count, PageSize)
        PROVE  items(k) \in Seq(S)
    <3>1. k \in Nat \ {0}
      BY <1>3 DEF TotalPages
    <3>2. QED
      BY <1>1, <1>3, <3>1, OnePageMore DEF Follow
  <2>2. QED
    BY <2>1
<1>5. ASSUME NEW k \in 1 .. TotalPages(count, PageSize)
      PROVE  LinkPage(links, known, support, k, PageSize).items = [m \in DOMAIN items(k) |-> e[items(k)[m]]]
  <2>1. PICK i \in Seq(S) : i = items(k)
    BY <1>4
  <2>2. LinkPage(links, known, support, k, PageSize).items =
          [m \in DOMAIN i |-> [id |-> i[m], relationship |->
             IF links[i[m]].role \in known THEN links[i[m]].role ELSE support]]
    BY <2>1 DEF LinkPage, Page, order, count, key
  <2>3. \A m \in DOMAIN i : i[m] \in S
    BY <2>1
  <2> HIDE DEF items
  <2>4. QED
    BY <2>1, <2>2, <2>3
<1>6. Tell(pages, order, count, PageSize, e)
  <2>1. DOMAIN pages = 1 .. TotalPages(count, PageSize)
    OBVIOUS
  <2>2. \A k \in DOMAIN pages : pages[k] = [m \in DOMAIN items(k) |-> e[items(k)[m]]]
    BY <1>5
  <2> HIDE DEF pages, e
  <2>3. QED
    BY <2>1, <2>2, Zenon DEF Tell
<1>7. DOMAIN e = S /\ IsInjective(e)
  BY DEF IsInjective
<1>8. \A l \in S : /\ e[l].relationship = "CONTRADICTORY" <=> links[l].role = "CONTRADICTORY"
                   /\ e[l].id = l
  OBVIOUS
<1> HIDE DEF pages, e, S
<1>9. Range(OnPages(pages)) = {e[l] : l \in S} /\ IsInjective(OnPages(pages))
  BY <1>1, <1>2, <1>6, <1>7, PagesTellAll DEF order, count
<1>10. {x.id : x \in Range(OnPages(pages))} = S
  BY <1>8, <1>9
<1>11. {x.id : x \in {x \in Range(OnPages(pages)) : x.relationship = "CONTRADICTORY"}} =
         {l \in S : links[l].role = "CONTRADICTORY"}
  BY <1>8, <1>9
<1>12. LinksShown(links, pages)
  BY <1>9, <1>10, <1>11, Zenon DEF LinksShown, S
<1>13. QED
  BY <1>12, Zenon DEF pages, count, S

\* Both kinds of links know of contradictions and hide no other role as one.
LEMMA LinksAreWhole ==
  ASSUME PortalAssumption, NEW links \in Links
  PROVE  LinksWhole(links)
<1>1. LinksShown(links, [k \in 1 .. TotalPages(Cardinality(DOMAIN links), PageSize) |->
                           EvidencePage(links, k, PageSize).items])
  <2>1. "CONTRADICTORY" \in EvidenceRelationship /\ "SUPPORTING" # "CONTRADICTORY"
    BY DEF EvidenceRelationship
  <2>2. QED
    BY <2>1, LinkPagesShown, Zenon DEF EvidencePage
<1>2. LinksShown(links, [k \in 1 .. TotalPages(Cardinality(DOMAIN links), PageSize) |->
                           ObservationPage(links, k, PageSize).items])
  <2>1. "CONTRADICTORY" \in ObservationRelationship /\ "CORROBORATING" # "CONTRADICTORY"
    BY DEF ObservationRelationship
  <2>2. QED
    BY <2>1, LinkPagesShown, Zenon DEF ObservationPage
<1>3. QED
  BY <1>1, <1>2, Zenon DEF LinksWhole

\* The map and the list show the same.
LEMMA MapsShow ==
  ASSUME Table(table), PortalAssumption, NEW f, MapShows(f)
  PROVE  Range(GeoIncidents(table, f, 0, 500, Now)) = Listed(table, f)
<1> DEFINE G == {i \in DOMAIN table :
                   /\ f.hideDemo => ~table[i].demo
                   /\ f.box # <<>> => Intersects(f.box, table[i].at)
                   /\ f.statuses # {} => table[i].status \in f.statuses
                   /\ f.category # "" => table[i].reported = f.category
                   /\ 0 > 0 => table[i].occurred >= Now - 0 * Hour}
           key == [i \in G |-> <<table[i].occurred, table[i].created>>]
           o == Ordered(G, key)
<1>1. /\ IsFiniteSet(DOMAIN table) /\ DOMAIN table \subseteq Int
      /\ \A i \in DOMAIN table : Row(table[i])
  <2>1. IsFiniteSet(DOMAIN Rows) /\ DOMAIN Rows \subseteq Nat /\ DOMAIN table \subseteq DOMAIN Rows
    BY DEF PortalAssumption, Table
  <2>2. QED
    BY <2>1, FS_Subset DEF Table
<1>2. PICK forever \in Nat : forever = Forever
  BY DEF Forever, Day
<1>3. /\ f.category = "" /\ f.severity = "" /\ f.readiness = "" /\ f.least = 0 /\ f.most = 100
      /\ f.from = 0 /\ f.to = forever
  <2>1. PICK e : e = Everything
    OBVIOUS
  <2>2. e = [category |-> "", severity |-> "", statuses |-> {}, readiness |-> "", least |-> 0, most |-> 100,
             from |-> 0, to |-> forever, box |-> <<>>, hideDemo |-> FALSE]
    BY <1>2, <2>1, Zenon DEF Everything
  <2>3. f = [e EXCEPT !.statuses = f.statuses, !.box = f.box, !.hideDemo = f.hideDemo]
    BY <2>1, Zenon DEF MapShows
  <2>4. QED
    BY <2>2, <2>3
<1>4. G = Listed(table, f)
  <2>1. ASSUME NEW i \in DOMAIN table
        PROVE  i \in G <=> ListFilter(table[i], f)
    <3>1. PICK r : r = table[i] /\ Row(r)
      BY <1>1
    <3>2. r.score \in 0 .. 100 /\ r.occurred \in Nat /\ r.occurred <= forever
      <4>1. r.score \in 0 .. 100
        BY <3>1, Zenon DEF Row
      <4>2. QED
        BY <1>2, <3>1, <4>1, RowIs, Zenon
    <3>3. f.least <= r.score /\ r.score <= f.most /\ f.from <= r.occurred /\ r.occurred <= f.to
      <4>1. 0 <= r.score /\ r.score <= 100 /\ 0 <= r.occurred
        BY <3>2
      <4>2. QED
        BY <1>3, <3>2, <4>1, Zenon
    <3>4. ~(0 > 0)
      OBVIOUS
    <3>5. i \in G <=> /\ f.hideDemo => ~r.demo
                      /\ f.box # <<>> => Intersects(f.box, r.at)
                      /\ f.statuses # {} => r.status \in f.statuses
      BY <1>3, <3>1, <3>4
    <3> HIDE DEF G
    <3>6. QED
      BY <1>3, <3>1, <3>3, <3>5, Zenon DEF ListFilter
  <2>2. QED
    BY <2>1 DEF Listed
<1>5. G \in SUBSET Int /\ IsFiniteSet(G)
  <2>1. G \subseteq DOMAIN table
    OBVIOUS
  <2> HIDE DEF G
  <2>2. QED
    BY <1>1, <2>1, FS_Subset
<1>6. Keyed(G, key)
  <2>1. ASSUME NEW i \in G
        PROVE  key[i] \in [1 .. 2 -> Int]
    <3>1. PICK r : r = table[i] /\ Row(r)
      BY <1>1
    <3>2. r.occurred \in Nat /\ r.created \in Nat
      BY <3>1, RowIs, Zenon
    <3>3. key[i] = <<r.occurred, r.created>>
      BY <3>1
    <3> HIDE DEF key, G
    <3>4. QED
      BY <3>2, <3>3
  <2>2. QED
    BY <2>1, Zenon DEF Keyed
<1>7. GeoIncidents(table, f, 0, 500, Now) = SubSeq(o, 1, IF 500 < Len(o) THEN 500 ELSE Len(o))
  BY Zenon DEF GeoIncidents
<1>8. Cardinality(G) <= 500
  <2>1. Cardinality(DOMAIN table) <= 500 /\ Cardinality(DOMAIN table) \in Nat
    BY <1>1, FS_CardinalityType DEF MapShows
  <2>2. Cardinality(G) <= Cardinality(DOMAIN table) /\ Cardinality(G) \in Nat
    <3>1. G \subseteq DOMAIN table
      OBVIOUS
    <3> HIDE DEF G
    <3>2. QED
      BY <1>1, <1>5, <3>1, FS_Subset, FS_CardinalityType
  <2> HIDE DEF G
  <2>3. QED
    BY <2>1, <2>2
<1> HIDE DEF G, key
<1>9. PICK n \in Nat : n = Cardinality(G) /\ o \in Seq(G) /\ Len(o) = n /\ Range(o) = G
  BY <1>5, <1>6, ListIs
<1> HIDE DEF o
<1>10. SubSeq(o, 1, IF 500 < Len(o) THEN 500 ELSE Len(o)) = o
  BY <1>8, <1>9
<1>11. QED
  BY <1>4, <1>7, <1>9, <1>10

\* What is near a citizen.
LEMMA NearbyIsTrusted ==
  ASSUME Table(table), PortalAssumption
  PROVE  NearbyTrusted
<1> DEFINE d == [i \in DOMAIN table |-> i]
           N == {i \in DOMAIN table :
                   /\ d[i] <= 25
                   /\ IF {} # {} THEN table[i].status \in {}
                      ELSE \/ table[i].status = "VERIFIED"
                           \/ table[i].status = "UNDER_REVIEW" /\ table[i].score >= 70}
           key == [i \in N |-> <<-d[i], table[i].occurred>>]
           o == Ordered(N, key)
<1>1. /\ IsFiniteSet(DOMAIN table) /\ DOMAIN table \subseteq Int
      /\ \A i \in DOMAIN table : Row(table[i])
  <2>1. IsFiniteSet(DOMAIN Rows) /\ DOMAIN Rows \subseteq Nat /\ DOMAIN table \subseteq DOMAIN Rows
    BY DEF PortalAssumption, Table
  <2>2. QED
    BY <2>1, FS_Subset DEF Table
<1>2. N \in SUBSET Int /\ IsFiniteSet(N)
  <2>1. N \subseteq DOMAIN table
    OBVIOUS
  <2> HIDE DEF N
  <2>2. QED
    BY <1>1, <2>1, FS_Subset
<1>3. Keyed(N, key)
  <2>1. ASSUME NEW i \in N
        PROVE  key[i] \in [1 .. 2 -> Int]
    <3>1. PICK r : r = table[i] /\ Row(r)
      BY <1>1
    <3>2. r.occurred \in Int /\ i \in Int /\ i \in DOMAIN table
      BY <1>1, <3>1, RowIs
    <3>3. key[i] = <<-i, r.occurred>>
      BY <3>1, <3>2
    <3> HIDE DEF key, N
    <3>4. QED
      BY <3>2, <3>3
  <2>2. QED
    BY <2>1, Zenon DEF Keyed
<1>4. NearbyIncidents(table, d, 25, {}, 50) = SubSeq(o, 1, IF 50 < Len(o) THEN 50 ELSE Len(o))
  BY Zenon DEF NearbyIncidents
<1>5. \A i \in N : /\ table[i].status \in {"VERIFIED", "UNDER_REVIEW"}
                   /\ table[i].status # "VERIFIED" => table[i].score >= 70
  OBVIOUS
<1>6. N \subseteq DOMAIN table
  OBVIOUS
<1> HIDE DEF N, key, d
<1>7. PICK n \in Nat : o \in Seq(N) /\ Len(o) = n
  BY <1>2, <1>3, ListIs
<1> HIDE DEF o
<1>8. Range(SubSeq(o, 1, IF 50 < Len(o) THEN 50 ELSE Len(o))) \subseteq N
  <2>1. SubSeq(o, 1, IF 50 < Len(o) THEN 50 ELSE Len(o)) \in Seq(N)
    BY <1>7
  <2>2. QED
    BY <2>1 DEF Range
<1>9. ASSUME NEW i \in N
      PROVE  /\ table[i].status \notin {"PENDING", "REJECTED", "DUPLICATE"}
             /\ table[i].status # "VERIFIED" => Label(table[i].score) \in {"HIGH", "VERY_HIGH"}
  <2>1. PICK r : r = table[i] /\ Row(r)
    BY <1>1, <1>6
  <2>2. r.score \in Int /\ r.status \in {"VERIFIED", "UNDER_REVIEW"} /\ (r.status # "VERIFIED" => r.score >= 70)
    BY <1>5, <2>1, RowIs
  <2>3. r.status # "VERIFIED" => Label(r.score) \in {"HIGH", "VERY_HIGH"}
    BY <2>2 DEF Label
  <2>4. QED
    BY <2>1, <2>2, <2>3
<1>10. QED
  BY <1>4, <1>8, <1>9, Zenon DEF NearbyTrusted, d

\* The pages of one report.
LEMMA ClustersAreShown ==
  ASSUME PortalAssumption, NEW c \in Clusterings
  PROVE  ClusterShown(c)
<1>1. SUFFICES ASSUME NEW i \in DOMAIN table, NEW p \in ClusterPage(i, table, c.clusters, c.members)
               PROVE  DetailCounts(i, c.clusters, c.members) =
                        {[size |-> p.size, isRepresentative |-> p.representative = i]}
  BY Zenon DEF ClusterShown
<1> DEFINE M == Memberships(i, c.members)
<1>2. CASE M = {}
  <2>1. p = NoCluster(i)
    <3>1. ClusterPage(i, table, c.clusters, c.members) = {NoCluster(i)}
      <4>1. Cardinality(M) = 0 /\ 0 # 1
        BY <1>2, FS_EmptySet
      <4>2. Cardinality(M) # 1
        BY <4>1
      <4>3. QED
        BY <1>2, <4>2, Zenon DEF ClusterPage
    <3>2. QED
      BY <3>1
  <2>2. p.size = 1 /\ p.representative = i
    BY <2>1 DEF NoCluster
  <2>3. DetailCounts(i, c.clusters, c.members) = {[size |-> 1, isRepresentative |-> TRUE]}
    BY <1>2, Zenon DEF DetailCounts
  <2>4. QED
    BY <2>2, <2>3
<1>3. CASE M # {} /\ Cardinality(M) = 1
  <2>1. PICK m : M = {m}
    <3>1. Cardinality(M) = 1
      BY <1>3
    <3>2. IsFiniteSet(M)
      <4>1. IsFiniteSet(c.members)
        BY DEF PortalAssumption
      <4>2. M \in SUBSET c.members
        BY DEF Memberships
      <4> HIDE DEF M
      <4>3. QED
        BY <4>1, <4>2, FS_Subset
    <3> HIDE DEF M
    <3>3. QED
      BY <3>1, <3>2, FS_Singleton
  <2>2. (CHOOSE x \in M : TRUE) = m
    BY <2>1
  <2>3. p.size = c.clusters[m.cluster].count /\ p.representative = c.clusters[m.cluster].primary
    <3>1. PICK shown : ClusterPage(i, table, c.clusters, c.members) =
            {[size |-> c.clusters[m.cluster].count, representative |-> c.clusters[m.cluster].primary, members |-> shown]}
      BY <1>3, <2>2, Zenon DEF ClusterPage
    <3>2. QED
      BY <3>1
  <2>4. DetailCounts(i, c.clusters, c.members) =
          {[size |-> c.clusters[x.cluster].count, isRepresentative |-> c.clusters[x.cluster].primary = i] : x \in M}
    BY <1>3, Zenon DEF DetailCounts
  <2>5. QED
    BY <2>1, <2>3, <2>4
<1>4. CASE M # {} /\ Cardinality(M) # 1
  BY <1>4 DEF ClusterPage
<1>5. QED
  BY <1>2, <1>3, <1>4

\* The priorities of the queue.
LEMMA PrioritiesDivide ==
  ASSUME Table(table), PortalAssumption
  PROVE  /\ Queued(table, "HIGH", "") \cup Queued(table, "NORMAL", "") = Queued(table, "", "")
         /\ Queued(table, "HIGH", "") \cap Queued(table, "NORMAL", "") = {}
<1>1. \A i \in DOMAIN table : table[i].severity \in {"LOW", "MODERATE", "HIGH", "SEVERE"}
  BY ColumnsAre
<1>2. QED
  BY <1>1 DEF Queued

\* What precedes the rest in an order is in the order it has alone.
LEMMA FirstOnes ==
  ASSUME NEW S \in SUBSET Int, IsFiniteSet(S), NEW key, Keyed(S, key), NEW A \in SUBSET S,
         \A x \in A, y \in S : Sooner(key, y, x) => y \in A
  PROVE  \E a, n \in Nat :
           /\ a <= n /\ Ordered(A, key) \in [1 .. a -> A] /\ Ordered(S, key) \in [1 .. n -> S]
           /\ \A k \in 1 .. a : Ordered(A, key)[k] = Ordered(S, key)[k]
<1> DEFINE o == Ordered(S, key)
           p == Ordered(A, key)
<1>1. IsFiniteSet(A) /\ Cardinality(A) <= Cardinality(S) /\ A \in SUBSET Int
  BY FS_Subset
<1>2. Keyed(A, key)
  BY DEF Keyed
<1>3. PICK n \in Nat : n = Cardinality(S)
  BY OrderedIs
<1>4. PICK a \in Nat : a = Cardinality(A) /\ a <= n
  <2>1. Cardinality(A) \in Nat
    BY <1>1, FS_CardinalityType
  <2>2. QED
    BY <1>1, <1>3, <2>1
<1>5. /\ o \in [1 .. n -> S] /\ (\A x \in S : \E k \in 1 .. n : o[k] = x)
      /\ \A k, l \in 1 .. n : k < l <=> Sooner(key, o[k], o[l])
  BY <1>3, OrderedIs
<1>6. /\ p \in [1 .. a -> A] /\ (\A x \in A : \E k \in 1 .. a : p[k] = x)
      /\ \A k, l \in 1 .. a : k < l <=> Sooner(key, p[k], p[l])
  BY <1>1, <1>2, <1>4, OrderedIs
<1> HIDE DEF o, p
<1> DEFINE B == {k \in 1 .. a : p[k] # o[k]}
<1>7. B = {}
  <2>1. SUFFICES ASSUME B # {}
                 PROVE  FALSE
    OBVIOUS
  <2>2. PICK k \in B : \A l \in B : k <= l
    <3>1. B \in SUBSET Nat
      OBVIOUS
    <3> HIDE DEF B
    <3>2. QED
      BY <2>1, <3>1, LeastOf
  <2>3. k \in 1 .. a /\ k \in 1 .. n /\ p[k] # o[k] /\ \A l \in 1 .. k - 1 : p[l] = o[l]
    BY <1>4, <2>2
  <2>4. PICK m \in 1 .. n : o[m] = p[k]
    BY <1>5, <1>6, <2>3
  <2>5. m > k
    <3>1. m # k
      BY <2>3, <2>4
    <3>2. ASSUME m < k
          PROVE  FALSE
      <4>1. p[m] = o[m] /\ m \in 1 .. a
        BY <2>3, <3>2
      <4>2. Sooner(key, p[m], p[k])
        BY <1>6, <2>3, <3>2, <4>1
      <4>3. Sooner(key, o[m], o[m])
        BY <2>4, <4>1, <4>2
      <4>4. QED
        BY <1>5, <4>3
    <3>3. QED
      BY <2>3, <3>1, <3>2
  <2>6. Sooner(key, o[k], p[k])
    BY <1>5, <2>3, <2>4, <2>5
  <2>7. o[k] \in A /\ o[k] \in S /\ p[k] \in A
    BY <1>5, <1>6, <2>3, <2>6
  <2>8. PICK l \in 1 .. a : p[l] = o[k]
    BY <1>6, <2>7
  <2>9. l < k
    BY <1>6, <2>3, <2>6, <2>8
  <2>10. o[l] = o[k] /\ l \in 1 .. n
    BY <1>4, <2>3, <2>8, <2>9
  <2>11. Sooner(key, o[l], o[k])
    BY <1>5, <2>3, <2>9, <2>10
  <2>12. QED
    BY <1>5, <2>3, <2>10, <2>11
<1>8. QED
  BY <1>4, <1>5, <1>6, <1>7 DEF o, p

\* The order depends on the keys of the set alone.
LEMMA SameOrder ==
  ASSUME NEW S, NEW j, NEW k, \A x \in S : j[x] = k[x]
  PROVE  Ordered(S, j) = Ordered(S, k)
<1>1. \A x, y \in S : Sooner(j, y, x) <=> Sooner(k, y, x)
  BY DEF Sooner
<1>2. [x \in S |-> Cardinality({y \in S : Sooner(j, y, x)})] = [x \in S |-> Cardinality({y \in S : Sooner(k, y, x)})]
  <2>1. \A x \in S : {y \in S : Sooner(j, y, x)} = {y \in S : Sooner(k, y, x)}
    BY <1>1
  <2>2. QED
    BY <2>1
<1> DEFINE by(sooner) == [n \in 1 .. Cardinality(S) |-> CHOOSE x \in S : sooner[x] = n - 1]
<1>3. Ordered(S, j) = by([x \in S |-> Cardinality({y \in S : Sooner(j, y, x)})])
  BY Zenon DEF Ordered
<1>4. Ordered(S, k) = by([x \in S |-> Cardinality({y \in S : Sooner(k, y, x)})])
  BY Zenon DEF Ordered
<1> HIDE DEF by
<1>5. QED
  BY <1>2, <1>3, <1>4

\* Advisories in force come first.
LEMMA AdvisoriesInForce ==
  ASSUME PortalAssumption, NEW limit \in 1 .. 3
  PROVE  InForceFirst(limit)
<1> DEFINE S == {a \in DOMAIN Advisories : /\ FALSE => Advisories[a].until >= Now
                                           /\ "" # "" => Advisories[a].hazard = ""}
           A == {a \in DOMAIN Advisories : /\ TRUE => Advisories[a].until >= Now
                                           /\ "" # "" => Advisories[a].hazard = ""}
           key == [a \in DOMAIN Advisories |-> <<Advisories[a].until>>]
           o == Ordered(S, key)
           p == Ordered(A, key)
           first(q) == SubSeq(q, 1, IF limit < Len(q) THEN limit ELSE Len(q))
<1>1. IsFiniteSet(DOMAIN Advisories) /\ DOMAIN Advisories \in SUBSET Int /\ Now \in Int
      /\ \A a \in DOMAIN Advisories : Advisories[a].until \in Int
  <2>1. PICK forever : forever = Forever
    OBVIOUS
  <2>2. \A a \in DOMAIN Advisories : Advisories[a].until \in 0 .. forever
    BY <2>1, Zenon DEF PortalAssumption
  <2>3. \A a \in DOMAIN Advisories : Advisories[a].until \in Int
    BY <2>2
  <2>4. QED
    BY <2>3 DEF PortalAssumption
<1>2. S = DOMAIN Advisories /\ A = {a \in DOMAIN Advisories : Advisories[a].until >= Now}
  OBVIOUS
<1>3. Keyed(S, key)
  <2>1. \A a \in S : key[a] \in [1 .. 1 -> Int]
    BY <1>1
  <2>2. QED
    BY <2>1, Zenon DEF Keyed
<1>4. \A x \in A, y \in S : Sooner(key, y, x) => y \in A
  <2>1. ASSUME NEW x \in A, NEW y \in S, Sooner(key, y, x)
        PROVE  Advisories[y].until >= Advisories[x].until
    <3>1. key[x] = <<Advisories[x].until>> /\ key[y] = <<Advisories[y].until>>
      OBVIOUS
    <3>2. Precedes(key[y], key[x]) \/ key[y] = key[x]
      BY <2>1 DEF Sooner
    <3>3. CASE key[y] = key[x]
      BY <1>1, <3>1, <3>3
    <3>4. CASE Precedes(key[y], key[x])
      <4>1. PICK n \in DOMAIN key[y] : key[y][n] > key[x][n]
        BY <3>4 DEF Precedes
      <4>2. n = 1
        BY <3>1, <4>1
      <4>3. QED
        BY <1>1, <3>1, <4>1, <4>2
    <3>5. QED
      BY <3>2, <3>3, <3>4
  <2>2. QED
    BY <1>1, <1>2, <2>1
<1>5. ForecastAdvisories(Advisories, FALSE, "", limit, Now) = first(o)
  <2>1. ForecastAdvisories(Advisories, FALSE, "", limit, Now) = first(Ordered(S, [a \in S |-> <<Advisories[a].until>>]))
    BY Zenon DEF ForecastAdvisories
  <2>2. Ordered(S, [a \in S |-> <<Advisories[a].until>>]) = o
    <3>1. \A a \in S : [b \in S |-> <<Advisories[b].until>>][a] = key[a]
      OBVIOUS
    <3> HIDE DEF S, key
    <3>2. QED
      BY <3>1, SameOrder, Zenon
  <2>3. QED
    BY <2>1, <2>2, Zenon
<1>6. ForecastAdvisories(Advisories, TRUE, "", limit, Now) = first(p)
  <2>1. ForecastAdvisories(Advisories, TRUE, "", limit, Now) = first(Ordered(A, [a \in A |-> <<Advisories[a].until>>]))
    BY Zenon DEF ForecastAdvisories
  <2>2. Ordered(A, [a \in A |-> <<Advisories[a].until>>]) = p
    <3>1. \A a \in A : [b \in A |-> <<Advisories[b].until>>][a] = key[a]
      OBVIOUS
    <3> HIDE DEF A, key
    <3>2. QED
      BY <3>1, SameOrder, Zenon
  <2>3. QED
    BY <2>1, <2>2, Zenon
<1>7. A \in SUBSET S /\ S \in SUBSET Int /\ IsFiniteSet(S)
  BY <1>1, <1>2
<1> HIDE DEF S, A, key
<1>8. PICK a, n \in Nat : /\ a <= n /\ p \in [1 .. a -> A] /\ o \in [1 .. n -> S]
                          /\ \A k \in 1 .. a : p[k] = o[k]
  BY <1>3, <1>4, <1>7, FirstOnes
<1> HIDE DEF o, p
<1>9. o \in Seq(S) /\ p \in Seq(A) /\ Len(o) = n /\ Len(p) = a
  BY <1>8
<1>10. first(p) = SubSeq(first(o), 1, Len(first(p)))
  <2>1. PICK b \in Nat : b = (IF limit < a THEN limit ELSE a) /\ b <= a
    OBVIOUS
  <2>2. PICK m \in Nat : m = (IF limit < n THEN limit ELSE n) /\ m <= n
    OBVIOUS
  <2>3. b <= m
    BY <1>8, <2>1, <2>2
  <2>4. first(p) = SubSeq(p, 1, b) /\ first(o) = SubSeq(o, 1, m)
    BY <1>9, <2>1, <2>2
  <2>5. SubSeq(p, 1, b) = [k \in 1 .. b |-> p[k]] /\ Len(SubSeq(p, 1, b)) = b
    BY <1>9, <2>1
  <2>6. SubSeq(o, 1, m) = [k \in 1 .. m |-> o[k]] /\ SubSeq(o, 1, m) \in Seq(S) /\ Len(SubSeq(o, 1, m)) = m
    BY <1>9, <2>2
  <2>7. SubSeq(SubSeq(o, 1, m), 1, b) = [k \in 1 .. b |-> o[k]]
    BY <2>3, <2>6
  <2>8. [k \in 1 .. b |-> p[k]] = [k \in 1 .. b |-> o[k]]
    BY <1>8, <2>1
  <2>9. QED
    BY <2>4, <2>5, <2>7, <2>8
<1>11. QED
  BY <1>5, <1>6, <1>10, Zenon DEF InForceFirst

\* What a readiness finds is shown with it.
LEMMA ReadinessIsShown ==
  ASSUME NEW f, f.readiness # "", NEW i \in Listed(table, f)
  PROVE  ExtractReadiness(table[i]) = f.readiness
<1>1. table[i].readiness = f.readiness
  BY DEF Listed, ListFilter
<1>2. QED
  BY <1>1 DEF ExtractReadiness

(* The pages of the portal agree about every table: lists and the pages of *)
(* links are whole and show the contradictions and no others as such, the  *)
(* map shows what the list does, citizens see what is trusted, and no      *)
(* advisory that has ended displaces one in force.                         *)
THEOREM PagesAlwaysAgree ==
  ASSUME PortalAssumption
  PROVE  PortalSpec => [](PagesAgree /\ TablesAgree)
<1>1. ASSUME Table(table)
      PROVE  PagesAgree
  <2>1. \A f \in Filters : ListsWhole(f)
    BY <1>1, ListsAreWhole
  <2>2. \A f \in Filters : MapShows(f) => Range(GeoIncidents(table, f, 0, 500, Now)) = Listed(table, f)
    BY <1>1, MapsShow
  <2>3. \A f \in Filters : f.readiness # "" => \A i \in Listed(table, f) : ExtractReadiness(table[i]) = f.readiness
    BY ReadinessIsShown, Zenon
  <2>4. /\ Queued(table, "HIGH", "") \cup Queued(table, "NORMAL", "") = Queued(table, "", "")
        /\ Queued(table, "HIGH", "") \cap Queued(table, "NORMAL", "") = {}
    BY <1>1, PrioritiesDivide
  <2>5. NearbyTrusted
    BY <1>1, NearbyIsTrusted
  <2>6. \A links \in Links : LinksWhole(links)
    BY LinksAreWhole
  <2>7. \A limit \in 1 .. 3 : InForceFirst(limit)
    BY AdvisoriesInForce
  <2>8. \A c \in Clusterings : ClusterShown(c)
    BY ClustersAreShown
  <2>9. QED
    BY <2>1, <2>2, <2>3, <2>4, <2>5, <2>6, <2>7, <2>8, Zenon DEF PagesAgree
<1>2. PortalInv => PagesAgree /\ TablesAgree
  BY <1>1, Zenon DEF PortalInv, WalkShape, TablesAgree
<1>3. QED
  BY <1>2, PortalInvHolds, PTL
================================================================================
