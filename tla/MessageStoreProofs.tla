--------------------------- MODULE MessageStoreProofs --------------------------
(***************************************************************************)
(* What is proved of MessageStore, for any page size, caps and bounds.      *)
(*                                                                         *)
(* The invariants are about the client, and rest on what is under way to    *)
(* it: that a page in an answer is ascending and, if history and short, the  *)
(* end (Answers), that a deletion told has happened (Told), and that there   *)
(* is one history load or none (Loads).  First come the facts about lists,   *)
(* the binary search and sets of ids that the steps use.                     *)
(***************************************************************************)
EXTENDS MessageStore, FiniteSetTheorems, WellFoundedInduction, TLAPS

\* A set of naturals that is not empty has a least member, and one that has 0 and every
\* successor has them all: induction, as a fact about sets.
LEMMA LeastNatural ==
  ASSUME NEW T \in SUBSET Nat, T # {}
  PROVE  \E n \in T : \A m \in T : n <= m
<1>1. PICK n \in T : \A m \in T : <<m, n>> \notin OpToRel(<, Nat)
  BY WFMin, NatLessThanWellFounded
<1>2. \A m \in T : ~(m < n)
  BY <1>1, Zenon DEF OpToRel
<1> QED
  BY <1>2

LEMMA AllNaturals ==
  ASSUME NEW T \in SUBSET Nat, 0 \in T, \A k \in Nat : k \in T => k + 1 \in T
  PROVE  T = Nat
<1> SUFFICES ASSUME Nat \ T # {} PROVE FALSE
  OBVIOUS
<1>1. PICK n \in Nat \ T : \A m \in Nat \ T : n <= m
  BY LeastNatural
<1>2. n - 1 \in Nat
  BY <1>1
<1>3. n - 1 \in T
  BY <1>1, <1>2
<1> QED
  BY <1>1, <1>2, <1>3

\* Ascending, and without duplicates.
Rises(s) == \A i, j \in DOMAIN s : i < j => s[i] < s[j]

\* Counting the smaller members numbers a finite set in ascending order.
LEMMA AscendingExists ==
  ASSUME NEW S \in SUBSET Nat, IsFiniteSet(S)
  PROVE  \E s \in [1..Cardinality(S) -> S] : Rises(s)
<1> DEFINE n == Cardinality(S)
           under(x) == {y \in S : y < x}
           rank == [x \in S |-> Cardinality(under(x)) + 1]
<1>0. \A x \in S : x \in Nat
  OBVIOUS
<1>1. n \in Nat
  BY FS_CardinalityType
<1>2. \A x \in S : IsFiniteSet(under(x)) /\ Cardinality(under(x)) \in Nat /\ Cardinality(under(x)) < n
  <2> TAKE x \in S
  <2>1. under(x) \in SUBSET S /\ x \in S /\ x \notin under(x)
    OBVIOUS
  <2>2. IsFiniteSet(under(x)) /\ Cardinality(under(x)) <= n /\ (n = Cardinality(under(x)) => S = under(x))
    BY <2>1, FS_Subset
  <2>3. Cardinality(under(x)) \in Nat
    BY <2>2, FS_CardinalityType
  <2> QED
    BY <1>1, <2>1, <2>2, <2>3
<1>3. \A x, y \in S : x < y => Cardinality(under(x)) < Cardinality(under(y))
  <2> SUFFICES ASSUME NEW x \in S, NEW y \in S, x < y
               PROVE  Cardinality(under(x)) < Cardinality(under(y))
    OBVIOUS
  <2>0. x \in Nat /\ y \in Nat /\ \A z \in S : z < x => z < y
    BY <1>0
  <2>1. under(x) \in SUBSET under(y) /\ x \in under(y) /\ x \notin under(x)
    <3>1. ~(x < x)
      BY <2>0
    <3>2. under(x) \subseteq under(y)
      BY <2>0
    <3> QED
      BY <3>1, <3>2
  <2>2. Cardinality(under(x)) <= Cardinality(under(y))
        /\ (Cardinality(under(y)) = Cardinality(under(x)) => under(y) = under(x))
    BY <1>2, <2>1, FS_Subset
  <2> QED
    BY <1>2, <2>1, <2>2
<1>4. rank \in [S -> 1..n]
  BY <1>1, <1>2
<1>5. \A x, y \in S : x < y => rank[x] < rank[y]
  BY <1>2, <1>3
<1>6. rank \in Injection(S, 1..n)
  <2>1. ASSUME NEW x \in S, NEW y \in S, rank[x] = rank[y] PROVE x = y
    <3>1. x \in Nat /\ y \in Nat /\ ~(x < y) /\ ~(y < x)
      BY <1>0, <1>1, <1>4, <1>5, <2>1
    <3> QED
      BY <3>1
  <2> HIDE DEF rank, n
  <2> QED
    BY <1>4, <2>1 DEF Injection, IsInjective
<1>7. IsFiniteSet(1..n) /\ Cardinality(1..n) = n
  BY <1>1, FS_Interval
<1>8. rank \in Surjection(S, 1..n)
  BY <1>6, <1>7, FS_Injection
<1> HIDE DEF n, rank
<1> DEFINE s == [i \in 1..n |-> CHOOSE x \in S : rank[x] = i]
<1>9. \A i \in 1..n : s[i] \in S /\ rank[s[i]] = i
  BY <1>8 DEF Surjection
<1>10. s \in [1..n -> S]
  BY <1>9
<1> HIDE DEF s
<1>11. \A i, j \in 1..n : i < j => s[i] < s[j]
  <2> SUFFICES ASSUME NEW i \in 1..n, NEW j \in 1..n, i < j, ~(s[i] < s[j])
               PROVE  FALSE
    OBVIOUS
  <2>1. s[i] \in Nat /\ s[j] \in Nat
    BY <1>0, <1>9
  <2>2. rank[s[j]] <= rank[s[i]]
    BY <1>1, <1>4, <1>5, <1>9, <2>1
  <2> QED
    BY <1>1, <1>9, <2>2
<1> QED
  BY <1>10, <1>11 DEF Rises, n

\* Ascending(S) has every member of S once.
LEMMA AscendingIs ==
  ASSUME NEW S \in SUBSET Nat, IsFiniteSet(S)
  PROVE  /\ Ascending(S) \in Seq(S) /\ Len(Ascending(S)) = Cardinality(S)
         /\ Rises(Ascending(S)) /\ Range(Ascending(S)) = S
<1> DEFINE n == Cardinality(S)
           s == Ascending(S)
<1>1. n \in Nat
  BY FS_CardinalityType
<1>2. s \in [1..n -> S] /\ Rises(s)
  BY AscendingExists DEF Ascending, Rises
<1>3. s \in Injection(1..n, S)
  <2>1. ASSUME NEW i \in 1..n, NEW j \in 1..n, s[i] = s[j] PROVE i = j
    <3> SUFFICES ASSUME i # j PROVE FALSE
      OBVIOUS
    <3>1. s[i] \in Nat /\ DOMAIN s = 1..n
      BY <1>2
    <3>2. i < j \/ j < i
      BY <1>1
    <3> QED
      BY <1>2, <2>1, <3>1, <3>2 DEF Rises
  <2> HIDE DEF s, n
  <2> QED
    BY <1>2, <2>1 DEF Injection, IsInjective
<1>4. IsFiniteSet(1..n) /\ Cardinality(1..n) = n
  BY <1>1, FS_Interval
<1>5. s \in Surjection(1..n, S)
  BY <1>3, <1>4, FS_Injection
<1>6. Range(s) = S
  BY <1>2, <1>5 DEF Surjection, Range
<1>7. s \in Seq(S) /\ Len(s) = n
  BY <1>1, <1>2
<1> QED
  BY <1>2, <1>6, <1>7

\* The binary search on the positions from r[1] to r[2].
Middle(r) == r[1] + (r[2] - r[1]) \div 2

Spots(s) == (1..Len(s) + 1) \X (1..Len(s) + 1)

Probe(s, id, f, r) ==
  IF r[1] >= r[2] THEN r[1]
  ELSE IF s[Middle(r)] < id THEN f[<<Middle(r) + 1, r[2]>>] ELSE f[<<r[1], Middle(r)>>]

\* The recursion of the binary search has a solution, and all its values are positions.
LEMMA SearchIs ==
  ASSUME NEW s, Len(s) \in Nat, NEW id
  PROVE  \E f \in [Spots(s) -> 1..Len(s) + 1] : /\ LowerBound(s, id) = f[<<1, Len(s) + 1>>]
                                               /\ \A r \in Spots(s) : f[r] = Probe(s, id, f, r)
<1> DEFINE n == Len(s) + 1
           D == (1..n) \X (1..n)
           At(f, r) == IF r[1] >= r[2] THEN r[1]
                       ELSE IF s[Middle(r)] < id THEN f[<<Middle(r) + 1, r[2]>>] ELSE f[<<r[1], Middle(r)>>]
           Body(f) == [r \in D |-> At(f, r)]
<1>1. LowerBound(s, id) = (CHOOSE f : f = Body(f))[<<1, n>>]
  BY Zenon DEF LowerBound, Middle
<1>2. n \in Nat \ {0}
  OBVIOUS
<1>3. \A r \in D : /\ r[1] \in 1..n /\ r[2] \in 1..n
                   /\ r[1] < r[2] => Middle(r) \in r[1]..r[2] - 1
  BY <1>2 DEF Middle
<1> DEFINE Solves(f, k) == \A r \in D : r[2] - r[1] <= k => f[r] = At(f, r)
           Reached == {k \in Nat : \E f \in [D -> 1..n] : Solves(f, k)}
<1>4. 0 \in Reached
  <2> DEFINE f == [r \in D |-> r[1]]
  <2>1. f \in [D -> 1..n]
    BY <1>3
  <2>2. Solves(f, 0)
    BY <1>3
  <2> HIDE DEF f, Solves, D, n
  <2> QED
    BY <2>1, <2>2
<1>5. ASSUME NEW k \in Nat, k \in Reached PROVE k + 1 \in Reached
  <2>1. PICK f \in [D -> 1..n] : Solves(f, k)
    BY <1>5
  <2> DEFINE g == [r \in D |-> IF r[2] - r[1] = k + 1 THEN At(f, r) ELSE f[r]]
  <2>2. \A r \in D : At(f, r) \in 1..n
    <3> TAKE r \in D
    <3>1. CASE r[1] >= r[2]
      BY <1>3, <3>1
    <3>2. CASE r[1] < r[2]
      <4>1. Middle(r) \in r[1]..r[2] - 1
        BY <1>3, <3>2
      <4>2. <<Middle(r) + 1, r[2]>> \in D /\ <<r[1], Middle(r)>> \in D
        BY <1>2, <1>3, <4>1
      <4> HIDE DEF D, n
      <4> QED
        BY <2>1, <3>2, <4>2, <1>3
    <3> QED
      BY <1>3, <3>1, <3>2
  <2>3. g \in [D -> 1..n]
    BY <2>1, <2>2
  <2>4. \A r \in D : r[2] - r[1] <= k => g[r] = f[r]
    BY <1>3
  <2>5. ASSUME NEW r \in D, r[2] - r[1] <= k + 1 PROVE g[r] = At(g, r)
    <3>1. r[1] \in 1..n /\ r[2] \in 1..n /\ k \in Nat
      BY <1>3, <1>5
    <3>2. g[r] = At(f, r)
      <4>1. CASE r[2] - r[1] = k + 1
        BY <4>1
      <4>2. CASE r[2] - r[1] # k + 1
        <5>1. r[2] - r[1] <= k
          BY <2>5, <3>1, <4>2
        <5>2. g[r] = f[r]
          BY <2>4, <5>1
        <5> HIDE DEF g, At, D
        <5> QED
          BY <2>1, <5>1, <5>2
      <4> QED
        BY <4>1, <4>2
    <3>3. CASE r[1] >= r[2]
      BY <3>2, <3>3
    <3>4. CASE r[1] < r[2]
      <4>1. Middle(r) \in r[1]..r[2] - 1
        BY <1>3, <3>4
      <4>2. <<Middle(r) + 1, r[2]>> \in D /\ <<r[1], Middle(r)>> \in D
        BY <1>2, <3>1, <4>1
      <4>3. r[2] - (Middle(r) + 1) <= k /\ Middle(r) - r[1] <= k
        BY <2>5, <3>1, <4>1
      <4> HIDE DEF D, n, g
      <4>4. g[<<Middle(r) + 1, r[2]>>] = f[<<Middle(r) + 1, r[2]>>] /\ g[<<r[1], Middle(r)>>] = f[<<r[1], Middle(r)>>]
        BY <2>4, <4>2, <4>3
      <4> QED
        BY <3>2, <4>4
    <3> QED
      BY <3>1, <3>3, <3>4
  <2> HIDE DEF g, At, D
  <2> QED
    BY <2>3, <2>5
<1>6. Nat = Reached
  BY <1>4, <1>5, AllNaturals
<1>7. PICK f \in [D -> 1..n] : \A r \in D : f[r] = At(f, r)
  <2>1. PICK f \in [D -> 1..n] : Solves(f, n)
    BY <1>2, <1>6
  <2> HIDE DEF At
  <2> QED
   BY <1>2, <1>3, <2>1
<1>8. f = Body(f)
  BY <1>7
<1>9. \E g : g = Body(g)
  BY <1>8
<1> DEFINE F == CHOOSE g : g = Body(g)
<1>10. F = Body(F)
  BY <1>9
<1> HIDE DEF F
<1>11. \A r \in D : F[r] = At(F, r)
  BY <1>10
<1>12. F = [r \in D |-> F[r]]
  BY <1>10
<1> DEFINE Bounded == {k \in Nat : \A r \in D : r[2] - r[1] <= k => F[r] \in 1..n}
<1>13. 0 \in Bounded
  <2>1. ASSUME NEW r \in D, r[2] - r[1] <= 0 PROVE F[r] \in 1..n
    <3>1. r[1] \in 1..n /\ r[2] \in 1..n
      BY <1>3
    <3>2. r[1] >= r[2]
      BY <2>1, <3>1
    <3>3. F[r] = At(F, r)
      BY <1>11
    <3> QED
      BY <3>1, <3>2, <3>3
  <2> QED
    BY <2>1
<1>14. ASSUME NEW k \in Nat, k \in Bounded PROVE k + 1 \in Bounded
  <2>1. ASSUME NEW r \in D, r[2] - r[1] <= k + 1 PROVE F[r] \in 1..n
    <3>1. r[1] \in 1..n /\ r[2] \in 1..n
      BY <1>3
    <3>2. F[r] = At(F, r)
      BY <1>11
    <3>3. CASE r[1] >= r[2]
      BY <3>1, <3>2, <3>3
    <3>4. CASE r[1] < r[2]
      <4>1. Middle(r) \in r[1]..r[2] - 1
        BY <1>3, <3>4
      <4>2. <<Middle(r) + 1, r[2]>> \in D /\ <<r[1], Middle(r)>> \in D
        BY <1>2, <3>1, <4>1
      <4>3. r[2] - (Middle(r) + 1) <= k /\ Middle(r) - r[1] <= k
        BY <2>1, <3>1, <4>1
      <4> HIDE DEF D, n
      <4>4. F[<<Middle(r) + 1, r[2]>>] \in 1..n /\ F[<<r[1], Middle(r)>>] \in 1..n
        BY <1>14, <4>2, <4>3
      <4> QED
        BY <3>1, <3>2, <3>4, <4>4
    <3> QED
      BY <3>1, <3>3, <3>4
  <2> QED
    BY <2>1
<1>15. Nat = Bounded
  BY <1>13, <1>14, AllNaturals
<1>16. \A r \in D : F[r] \in 1..n
  <2>1. n \in Bounded
    BY <1>2, <1>15
  <2> QED
    BY <1>2, <1>3, <2>1
<1>17. F \in [D -> 1..n]
  BY <1>12, <1>16
<1>18. LowerBound(s, id) = F[<<1, n>>]
  BY <1>1 DEF F
<1> QED
  BY <1>11, <1>17, <1>18 DEF Spots, Probe

\* In any list, ascending or not, the search ends at a position where a message can be inserted.
LEMMA LowerBoundInside ==
  ASSUME NEW S, NEW s \in Seq(S), NEW id
  PROVE  LowerBound(s, id) \in 1..Len(s) + 1
<1>1. PICK f \in [Spots(s) -> 1..Len(s) + 1] :
        LowerBound(s, id) = f[<<1, Len(s) + 1>>]
  <2>1. Len(s) \in Nat
    OBVIOUS
  <2> QED
    BY <2>1, SearchIs DEF Spots
<1>2. 1 \in 1..Len(s) + 1 /\ Len(s) + 1 \in 1..Len(s) + 1
  OBVIOUS
<1> QED
  BY <1>1, <1>2 DEF Spots

\* std::lower_bound, as MessageManager and ChatModel use it: in an ascending list all that
\* comes before the position is smaller, and nothing from it on is.
THEOREM LowerBoundSplits ==
  ASSUME NEW s \in Seq(Nat), Rises(s), NEW id \in Nat
  PROVE  /\ \A i \in 1..LowerBound(s, id) - 1 : s[i] < id
         /\ \A i \in LowerBound(s, id)..Len(s) : s[i] >= id
<1> DEFINE n == Len(s) + 1
           D == (1..n) \X (1..n)
           Go(f, r) == Probe(s, id, f, r)
<1>1. PICK f \in [D -> 1..n] : LowerBound(s, id) = f[<<1, n>>] /\ \A r \in D : f[r] = Go(f, r)
  <2>1. Len(s) \in Nat
    OBVIOUS
  <2> QED
    BY <2>1, SearchIs DEF Spots
<1>2. n \in Nat \ {0} /\ \A i \in 1..Len(s) : s[i] \in Nat
  OBVIOUS
<1>3. \A r \in D : /\ r[1] \in 1..n /\ r[2] \in 1..n
                   /\ r[1] < r[2] => Middle(r) \in r[1]..r[2] - 1
  BY <1>2 DEF Middle
<1>8. \A lo, hi \in 1..n : <<lo, hi>> \in D /\ <<lo, hi>>[1] = lo /\ <<lo, hi>>[2] = hi
  OBVIOUS
<1> HIDE DEF D
<1> DEFINE Split(r) == /\ f[r] \in r[1]..r[2]
                       /\ \A i \in r[1]..f[r] - 1 : s[i] < id
                       /\ \A i \in f[r]..r[2] - 1 : s[i] >= id
           Done == {k \in Nat : \A r \in D : r[1] <= r[2] /\ r[2] - r[1] <= k => Split(r)}
<1>4. 0 \in Done
  <2>1. ASSUME NEW r \in D, r[1] <= r[2], r[2] - r[1] <= 0 PROVE Split(r)
    <3>1. r[1] \in 1..n /\ r[2] = r[1]
      BY <1>3, <2>1
    <3>2. f[r] = Go(f, r)
      BY <1>1
    <3> QED
      BY <3>1, <3>2 DEF Probe
  <2> QED
    BY <2>1
<1>5. ASSUME NEW k \in Nat, k \in Done PROVE k + 1 \in Done
  <2>1. ASSUME NEW r \in D, r[1] <= r[2], r[2] - r[1] <= k + 1 PROVE Split(r)
    <3>1. r[1] \in 1..n /\ r[2] \in 1..n
      BY <1>3
    <3>2. CASE r[1] = r[2]
      <4>1. f[r] = Go(f, r)
        BY <1>1
      <4> QED
        BY <3>1, <3>2, <4>1 DEF Probe
    <3>3. CASE r[1] < r[2]
      <4> DEFINE mid == Middle(r)
                 up == <<mid + 1, r[2]>>
                 down == <<r[1], mid>>
      <4>1. mid \in r[1]..r[2] - 1
        BY <1>3, <3>3
      <4>2. /\ up \in D /\ up[1] = mid + 1 /\ up[2] = r[2] /\ up[1] <= up[2] /\ up[2] - up[1] <= k
            /\ down \in D /\ down[1] = r[1] /\ down[2] = mid /\ down[1] <= down[2] /\ down[2] - down[1] <= k
        <5>1. mid \in 1..n /\ mid + 1 \in 1..n
          BY <1>2, <3>1, <4>1
        <5>2. up \in D /\ up[1] = mid + 1 /\ up[2] = r[2] /\ down \in D /\ down[1] = r[1] /\ down[2] = mid
          BY <1>8, <3>1, <5>1
        <5>3. mid + 1 <= r[2] /\ r[2] - (mid + 1) <= k /\ r[1] <= mid /\ mid - r[1] <= k
          <6>1. \A a, b, m \in Int : m \in a..b - 1 /\ b - a <= k + 1 =>
                  m + 1 <= b /\ b - (m + 1) <= k /\ a <= m /\ m - a <= k
            OBVIOUS
          <6>2. r[1] \in Int /\ r[2] \in Int /\ mid \in Int
            BY <3>1, <5>1
          <6> HIDE DEF mid
          <6> QED
            BY <2>1, <4>1, <6>1, <6>2
        <5> HIDE DEF mid, up, down
        <5> QED
          BY <5>2, <5>3
      <4>3. Split(up) /\ Split(down)
        BY <1>5, <4>2
      <4>4. f[r] = IF s[mid] < id THEN f[up] ELSE f[down]
        BY <1>1, <3>1, <3>3 DEF Probe
      <4>5. mid \in 1..Len(s) /\ s[mid] \in Nat
        BY <1>2, <3>1, <4>1
      <4> HIDE DEF mid, up, down
      <4>6. \A i \in 1..mid - 1 : s[i] < s[mid]
        BY <4>5 DEF Rises
      <4>7. \A i \in mid + 1..Len(s) : s[mid] < s[i]
        BY <4>5 DEF Rises
      <4>8. CASE s[mid] < id
        <5>1. f[r] = f[up] /\ f[r] \in mid + 1..r[2]
          BY <4>2, <4>3, <4>4, <4>8
        <5>2. \A i \in r[1]..mid : s[i] < id
          BY <1>2, <3>1, <4>5, <4>6, <4>8
        <5> QED
          BY <3>1, <4>1, <4>2, <4>3, <5>1, <5>2
      <4>9. CASE ~(s[mid] < id)
        <5>1. f[r] = f[down] /\ f[r] \in r[1]..mid
          BY <4>2, <4>3, <4>4, <4>9
        <5>2. \A i \in mid..r[2] - 1 : s[i] >= id
          <6> SUFFICES ASSUME NEW i \in mid..r[2] - 1 PROVE s[i] >= id
            OBVIOUS
          <6>1. i \in 1..Len(s) /\ s[i] \in Nat
            BY <1>2, <3>1, <4>5
          <6>2. i = mid \/ i \in mid + 1..Len(s)
            BY <4>5, <6>1
          <6> QED
            BY <4>5, <4>7, <4>9, <6>1, <6>2
        <5> QED
          BY <3>1, <4>1, <4>2, <4>3, <5>1, <5>2
      <4> QED
        BY <4>8, <4>9
    <3> QED
      BY <2>1, <3>1, <3>2, <3>3
  <2> QED
    BY <2>1
<1>6. n \in Done
  BY <1>2, <1>4, <1>5, AllNaturals
<1>7. PICK p \in D : p = <<1, n>> /\ p[1] = 1 /\ p[2] = n
  <2>1. <<1, n>> \in D
    BY <1>2, <1>8
  <2> QED
    BY <2>1
<1>9. Split(p)
  <2>1. p[1] <= p[2] /\ p[2] - p[1] <= n
    BY <1>2, <1>7
  <2> HIDE DEF Split
  <2> QED
    BY <1>2, <1>6, <2>1
<1>10. LowerBound(s, id) = f[p]
  BY <1>1, <1>7
<1>11. p[1] = 1 /\ p[2] - 1 = Len(s)
  BY <1>7
<1> QED
  BY <1>9, <1>10, <1>11

OnceEach(s) == \A i, j \in DOMAIN s : s[i] = s[j] => i = j

\* Lists: what LastOf, Without, SubSeq and \o keep of an ascending list and of one without
\* duplicates.
LEMMA RisingOnce ==
  ASSUME NEW s \in Seq(Nat), Rises(s)
  PROVE  OnceEach(s)
<1> SUFFICES ASSUME NEW i \in DOMAIN s, NEW j \in DOMAIN s, s[i] = s[j], i # j PROVE FALSE
  BY DEF OnceEach
<1>1. s[i] \in Nat /\ (i < j \/ j < i)
  OBVIOUS
<1> QED
  BY <1>1 DEF Rises

LEMMA LastOfIs ==
  ASSUME NEW S, NEW s \in Seq(S), NEW n \in Nat
  PROVE  /\ LastOf(s, n) \in Seq(S) /\ Len(LastOf(s, n)) <= Len(s)
         /\ n # 0 => Len(LastOf(s, n)) <= n
         /\ \E d \in Nat : \A i \in 1..Len(LastOf(s, n)) : i + d \in 1..Len(s) /\ LastOf(s, n)[i] = s[i + d]
         /\ Rises(s) => Rises(LastOf(s, n))
         /\ OnceEach(s) => OnceEach(LastOf(s, n))
<1> DEFINE first == IF Len(s) > n THEN Len(s) - n + 1 ELSE 1
           t == LastOf(s, n)
<1>1. Len(s) \in Nat /\ first \in 1..Len(s) + 1 /\ (n # 0 => Len(s) - first + 1 <= n)
  OBVIOUS
<1>2. t = SubSeq(s, first, Len(s))
  BY DEF LastOf
<1> HIDE DEF first, t
<1>3. t \in Seq(S) /\ Len(t) = Len(s) - first + 1 /\ \A i \in 1..Len(t) : i + (first - 1) \in 1..Len(s) /\ t[i] = s[i + (first - 1)]
  BY <1>1, <1>2
<1>9. DOMAIN s = 1..Len(s) /\ DOMAIN t = 1..Len(t) /\ first - 1 \in Nat /\ Len(t) \in Nat
  BY <1>1, <1>3
<1> DEFINE at(i) == i + (first - 1)
<1>10. \A i, j \in 1..Len(t) : (i < j => at(i) < at(j)) /\ (at(i) = at(j) => i = j)
  BY <1>9
<1>11. \A i \in 1..Len(t) : at(i) \in 1..Len(s) /\ t[i] = s[at(i)]
  BY <1>3
<1> HIDE DEF at
<1>4. Rises(s) => Rises(t)
  BY <1>9, <1>10, <1>11 DEF Rises
<1>5. OnceEach(s) => OnceEach(t)
  BY <1>9, <1>10, <1>11 DEF OnceEach
<1>6. first - 1 \in Nat
  BY <1>1
<1>7. \E d \in Nat : \A i \in 1..Len(t) : i + d \in 1..Len(s) /\ t[i] = s[i + d]
  BY <1>3, <1>6
<1>8. Len(t) <= Len(s) /\ (n # 0 => Len(t) <= n)
  BY <1>1, <1>3
<1> QED
  BY <1>3, <1>4, <1>5, <1>7, <1>8 DEF t

LEMMA IndexSet ==
  ASSUME NEW S, NEW s \in Seq(S), NEW T
  PROVE  LET kept == {i \in DOMAIN s : s[i] \notin T} IN
         kept \in SUBSET Nat /\ IsFiniteSet(kept) /\ Cardinality(kept) \in Nat /\ Cardinality(kept) <= Len(s)
<1>1. IsFiniteSet(1..Len(s)) /\ Cardinality(1..Len(s)) = Len(s)
  <2>1. Len(s) \in Nat
    OBVIOUS
  <2> QED
    BY <2>1, FS_Interval
<1>2. {i \in DOMAIN s : s[i] \notin T} \in SUBSET (1..Len(s))
  OBVIOUS
<1> QED
  BY <1>1, <1>2, FS_Subset, FS_CardinalityType

LEMMA WithoutIs ==
  ASSUME NEW S, NEW s \in Seq(S), NEW T
  PROVE  /\ Without(s, T) \in Seq(S \ T) /\ Len(Without(s, T)) <= Len(s)
         /\ Range(Without(s, T)) = Range(s) \ T
         /\ Rises(s) => Rises(Without(s, T))
         /\ OnceEach(s) => OnceEach(Without(s, T))
<1> DEFINE K == {i \in DOMAIN s : s[i] \notin T}
           kept == Ascending(K)
           w == Without(s, T)
<1>1. K \in SUBSET Nat /\ IsFiniteSet(K) /\ Cardinality(K) \in Nat /\ Cardinality(K) <= Len(s)
  BY IndexSet
<1>2. kept \in Seq(K) /\ Len(kept) = Cardinality(K) /\ Rises(kept) /\ Range(kept) = K
  BY <1>1, AscendingIs
<1>3. K \subseteq 1..Len(s) /\ \A i \in K : s[i] \in S \ T
  OBVIOUS
<1>4. w = [i \in DOMAIN kept |-> s[kept[i]]]
  BY DEF Without
<1>5. \A i \in 1..Len(s) : s[i] \notin T => i \in K
  OBVIOUS
<1> HIDE DEF K, kept, w
<1>6. DOMAIN kept = 1..Len(kept) /\ Len(kept) \in Nat /\ \A i \in 1..Len(kept) : kept[i] \in K
  BY <1>2
<1>7. w \in Seq(S \ T) /\ Len(w) = Len(kept) /\ \A i \in 1..Len(kept) : w[i] = s[kept[i]]
  <2>1. w \in [1..Len(kept) -> S \ T]
    BY <1>3, <1>4, <1>6
  <2> QED
    BY <1>4, <1>6, <2>1
<1>8. \A k \in K : \E i \in 1..Len(kept) : kept[i] = k
  BY <1>2, <1>6 DEF Range
<1>9. Range(w) = Range(s) \ T
  <2>1. ASSUME NEW x \in Range(w) PROVE x \in Range(s) \ T
    <3>1. PICK i \in 1..Len(kept) : x = w[i]
      BY <1>7 DEF Range
    <3>2. kept[i] \in 1..Len(s) /\ x = s[kept[i]] /\ x \notin T
      BY <1>3, <1>6, <1>7, <3>1
    <3> QED
      BY <3>2 DEF Range
  <2>2. ASSUME NEW x \in Range(s) \ T PROVE x \in Range(w)
    <3>1. PICK k \in 1..Len(s) : s[k] = x
      BY DEF Range
    <3>2. PICK i \in 1..Len(kept) : kept[i] = k
      BY <1>5, <1>8, <3>1
    <3> QED
      BY <1>6, <1>7, <3>1, <3>2 DEF Range
  <2> QED
    BY <2>1, <2>2
<1>12. DOMAIN s = 1..Len(s) /\ DOMAIN w = 1..Len(kept) /\ \A i \in 1..Len(kept) : kept[i] \in 1..Len(s)
  <2>1. DOMAIN w = 1..Len(w)
    BY <1>7
  <2>2. DOMAIN s = 1..Len(s)
    OBVIOUS
  <2>3. DOMAIN w = 1..Len(kept)
    BY <1>7, <2>1
  <2> QED
    BY <1>3, <1>6, <2>2, <2>3
<1>13. \A i, j \in 1..Len(kept) : i < j => kept[i] < kept[j]
  BY <1>2, <1>6 DEF Rises
<1>10. Rises(s) => Rises(w)
  BY <1>7, <1>12, <1>13 DEF Rises
<1>11. OnceEach(s) => OnceEach(w)
  <2> SUFFICES ASSUME OnceEach(s), NEW i \in 1..Len(kept), NEW j \in 1..Len(kept), w[i] = w[j], i # j PROVE FALSE
    BY <1>12 DEF OnceEach
  <2>1. kept[i] = kept[j] /\ kept[i] \in Nat
    BY <1>7, <1>12 DEF OnceEach
  <2> QED
    BY <1>6, <1>13, <2>1
<1> QED
  BY <1>1, <1>2, <1>7, <1>9, <1>10, <1>11 DEF w

\* Largest(S, n) has at most n members, and is all of S if it has fewer.
LEMMA GreatestNatural ==
  ASSUME NEW T \in SUBSET Nat, IsFiniteSet(T), T # {}
  PROVE  \E n \in T : \A m \in T : m <= n
<1> DEFINE s == Ascending(T)
<1>1. s \in Seq(T) /\ Len(s) = Cardinality(T) /\ Rises(s) /\ Range(s) = T
  BY AscendingIs
<1>2. Len(s) \in Nat /\ Len(s) # 0 /\ DOMAIN s = 1..Len(s)
  BY <1>1, FS_EmptySet
<1> HIDE DEF s
<1>3. s[Len(s)] \in T
  BY <1>1, <1>2
<1>4. ASSUME NEW m \in T PROVE m <= s[Len(s)]
  <2>1. PICK i \in 1..Len(s) : s[i] = m
    BY <1>1, <1>2 DEF Range
  <2>2. s[i] \in Nat /\ s[Len(s)] \in Nat
    BY <1>3, <2>1
  <2>3. i = Len(s) \/ s[i] < s[Len(s)]
    BY <1>1, <1>2 DEF Rises
  <2> QED
    BY <2>1, <2>2, <2>3
<1> QED
  BY <1>3, <1>4

LEMMA LargestIs ==
  ASSUME NEW S \in SUBSET Nat, IsFiniteSet(S), NEW n \in Nat
  PROVE  /\ Largest(S, n) \subseteq S /\ IsFiniteSet(Largest(S, n))
         /\ Cardinality(Largest(S, n)) \in Nat /\ Cardinality(Largest(S, n)) <= n
         /\ Cardinality(Largest(S, n)) < n => Largest(S, n) = S
<1> DEFINE above(m) == {k \in S : k > m}
           L == Largest(S, n)
<1>1. L = {m \in S : Cardinality(above(m)) < n}
  BY DEF Largest
<1>2. \A m \in S : m \in Nat
  OBVIOUS
<1> HIDE DEF L
<1>3. L \in SUBSET S /\ IsFiniteSet(L) /\ Cardinality(L) \in Nat
  BY <1>1, FS_Subset, FS_CardinalityType
<1>4. \A m \in S : IsFiniteSet(above(m)) /\ Cardinality(above(m)) \in Nat
  <2> TAKE m \in S
  <2>1. above(m) \in SUBSET S
    OBVIOUS
  <2> HIDE DEF above
  <2> QED
    BY <2>1, FS_Subset, FS_CardinalityType
<1>5. Cardinality(L) <= n
  <2>1. CASE L = {}
    BY <2>1, FS_EmptySet
  <2>2. CASE L # {}
    <3>0. L \in SUBSET Nat
      BY <1>2, <1>3
    <3>1. PICK m \in L : \A k \in L : m <= k
      BY <2>2, <3>0, LeastNatural
    <3>2. m \in S /\ Cardinality(above(m)) < n /\ m \notin above(m)
      BY <1>1, <1>2, <3>1
    <3>3. L \in SUBSET (above(m) \cup {m})
      <4> SUFFICES ASSUME NEW k \in L, k # m PROVE k > m /\ k \in S
        OBVIOUS
      <4>1. m <= k /\ m \in Nat /\ k \in Nat
        BY <3>0, <3>1
      <4> QED
        BY <1>3, <4>1
    <3> HIDE DEF above
    <3>4. IsFiniteSet(above(m) \cup {m}) /\ Cardinality(above(m) \cup {m}) = Cardinality(above(m)) + 1
      BY <1>4, <3>2, FS_AddElement
    <3>5. Cardinality(L) <= Cardinality(above(m)) + 1
      BY <3>3, <3>4, FS_Subset
    <3>6. Cardinality(above(m)) \in Nat
      BY <1>4, <3>2
    <3> QED
      BY <1>3, <3>2, <3>5, <3>6
  <2> QED
    BY <2>1, <2>2
<1>6. ASSUME Cardinality(L) < n, L # S PROVE FALSE
  <2>1. S \ L \in SUBSET Nat /\ S \ L # {} /\ IsFiniteSet(S \ L)
    BY <1>2, <1>3, <1>6, FS_Subset
  <2>2. PICK x \in S \ L : \A m \in S \ L : m <= x
    BY <2>1, GreatestNatural
  <2>3. above(x) \in SUBSET L
    <3> SUFFICES ASSUME NEW k \in S, k > x, k \notin L PROVE FALSE
      OBVIOUS
    <3>1. k <= x /\ k \in Nat /\ x \in Nat
      BY <1>2, <2>2
    <3> QED
      BY <3>1
  <2>4. Cardinality(above(x)) <= Cardinality(L)
    BY <1>3, <2>3, FS_Subset
  <2>5. Cardinality(above(x)) < n
    BY <1>3, <1>4, <1>6, <2>4
  <2> QED
    BY <1>1, <2>2, <2>5
<1> QED
  BY <1>3, <1>5, <1>6 DEF L

\* An append keeps the list ascending if the page is newer than all of it.
LEMMA JoinedRises ==
  ASSUME NEW s \in Seq(Nat), NEW t \in Seq(Nat), Rises(s), Rises(t),
         s = <<>> \/ t = <<>> \/ Last(s) < Head(t)
  PROVE  s \o t \in Seq(Nat) /\ Rises(s \o t)
<1> DEFINE u == s \o t
<1>1. u \in Seq(Nat) /\ Len(u) = Len(s) + Len(t) /\ Len(s) \in Nat /\ Len(t) \in Nat
  OBVIOUS
<1>2. /\ \A i \in 1..Len(s) : u[i] = s[i] /\ s[i] \in Nat
      /\ \A i \in Len(s) + 1..Len(u) : i - Len(s) \in 1..Len(t) /\ u[i] = t[i - Len(s)] /\ t[i - Len(s)] \in Nat
  <2>1. ASSUME NEW i \in Len(s) + 1..Len(u) PROVE i - Len(s) \in 1..Len(t) /\ u[i] = t[i - Len(s)]
    <3>1. i \in Int /\ i - Len(s) \in 1..Len(t) /\ i \in 1..Len(s) + Len(t) /\ i > Len(s)
      BY <1>1
    <3> QED
      BY <3>1
  <2> QED
    BY <2>1
<1>3. DOMAIN u = 1..Len(u) /\ DOMAIN s = 1..Len(s) /\ DOMAIN t = 1..Len(t)
  BY <1>1
<1>4. ASSUME NEW i \in 1..Len(s) PROVE s[i] <= s[Len(s)]
  <2>0. Len(s) \in 1..Len(s) /\ (i = Len(s) \/ i < Len(s))
    BY <1>1
  <2>1. i = Len(s) \/ s[i] < s[Len(s)]
    BY <1>3, <2>0 DEF Rises
  <2> QED
    BY <1>2, <2>1
<1>5. ASSUME NEW i \in 1..Len(t) PROVE t[1] <= t[i]
  <2>1. i = 1 \/ t[1] < t[i]
    BY <1>3 DEF Rises
  <2>2. t[1] \in Nat /\ t[i] \in Nat
    OBVIOUS
  <2> QED
    BY <2>1, <2>2
<1>6. ASSUME NEW i \in 1..Len(s), NEW j \in 1..Len(t) PROVE s[i] < t[j]
  <2>1. s[Len(s)] < t[1] /\ s[Len(s)] \in Nat /\ t[1] \in Nat /\ s[i] \in Nat /\ t[j] \in Nat
    BY <1>1 DEF Last
  <2> QED
    BY <1>4, <1>5, <2>1
<1> HIDE DEF u
<1>7. Rises(u)
  <2> SUFFICES ASSUME NEW i \in 1..Len(u), NEW j \in 1..Len(u), i < j PROVE u[i] < u[j]
    BY <1>3 DEF Rises
  <2>1. CASE j <= Len(s)
    <3>1. i \in 1..Len(s) /\ j \in 1..Len(s)
      BY <1>1, <2>1
    <3> QED
      BY <1>2, <1>3, <3>1 DEF Rises
  <2>2. CASE i > Len(s)
    <3>1. i \in Len(s) + 1..Len(u) /\ j \in Len(s) + 1..Len(u) /\ i - Len(s) < j - Len(s)
      <4>1. i \in Int /\ j \in Int /\ Len(u) \in Nat /\ i < j /\ j <= Len(u)
        BY <1>1
      <4>2. Len(s) \in Nat /\ i > Len(s)
        BY <1>1, <2>2
      <4>3. \A a, b, n, l \in Int : n < a /\ a < b /\ b <= l => a \in n + 1..l /\ b \in n + 1..l /\ a - n < b - n
        OBVIOUS
      <4> QED
        BY <4>1, <4>2, <4>3
    <3> QED
      BY <1>2, <1>3, <3>1 DEF Rises
  <2>3. CASE i <= Len(s) /\ j > Len(s)
    <3>1. i \in 1..Len(s) /\ j \in Len(s) + 1..Len(u)
      BY <1>1, <2>3
    <3> QED
      BY <1>2, <1>6, <3>1
  <2> QED
    BY <1>1, <2>1, <2>2, <2>3
<1> QED
  BY <1>1, <1>7 DEF u

LEMMA SubSeqIs ==
  ASSUME NEW S, NEW s \in Seq(S), NEW m \in Nat \ {0}, NEW n \in Nat, n <= Len(s)
  PROVE  /\ SubSeq(s, m, n) \in Seq(S) /\ Len(SubSeq(s, m, n)) <= Len(s)
         /\ Range(SubSeq(s, m, n)) \subseteq Range(s)
         /\ Rises(s) => Rises(SubSeq(s, m, n))
<1> DEFINE t == SubSeq(s, m, n)
           at(i) == i + (m - 1)
<1>1. t \in Seq(S) /\ Len(t) = IF m <= n THEN n - m + 1 ELSE 0
  OBVIOUS
<1>2. \A i \in 1..Len(t) : at(i) \in 1..Len(s) /\ t[i] = s[at(i)]
  OBVIOUS
<1>3. Len(t) <= Len(s)
  BY <1>1
<1> HIDE DEF t
<1>4. DOMAIN s = 1..Len(s) /\ DOMAIN t = 1..Len(t)
  BY <1>1
<1>5. \A i, j \in 1..Len(t) : i < j => at(i) < at(j)
  BY <1>1
<1> HIDE DEF at
<1> QED
  BY <1>1, <1>2, <1>3, <1>4, <1>5 DEF Rises, Range, t

LEMMA JoinedOnce ==
  ASSUME NEW S, NEW s \in Seq(S), NEW t \in Seq(S), OnceEach(s), OnceEach(t), Range(s) \cap Range(t) = {}
  PROVE  s \o t \in Seq(S) /\ OnceEach(s \o t) /\ Range(s \o t) = Range(s) \cup Range(t)
<1> DEFINE u == s \o t
           at(i) == i - Len(s)
<1>1. u \in Seq(S) /\ Len(u) = Len(s) + Len(t) /\ Len(s) \in Nat /\ Len(t) \in Nat
  OBVIOUS
<1>2. \A i \in 1..Len(s) : i \in 1..Len(u) /\ u[i] = s[i]
  OBVIOUS
<1>3. \A i \in 1..Len(u) : i \notin 1..Len(s) => at(i) \in 1..Len(t) /\ u[i] = t[at(i)]
  OBVIOUS
<1>4. \A i, j \in 1..Len(u) : at(i) = at(j) => i = j
  BY <1>1
<1>5. \A j \in 1..Len(t) : Len(s) + j \in 1..Len(u) /\ u[Len(s) + j] = t[j]
  OBVIOUS
<1>6. DOMAIN u = 1..Len(u) /\ DOMAIN s = 1..Len(s) /\ DOMAIN t = 1..Len(t)
  BY <1>1
<1> HIDE DEF u, at
<1>7. ASSUME NEW i \in 1..Len(u), NEW j \in 1..Len(u), u[i] = u[j] PROVE i = j
  <2>1. CASE i \in 1..Len(s) /\ j \in 1..Len(s)
    BY <1>2, <1>6, <1>7, <2>1 DEF OnceEach
  <2>2. CASE i \notin 1..Len(s) /\ j \notin 1..Len(s)
    <3>1. at(i) = at(j)
      BY <1>3, <1>6, <1>7, <2>2 DEF OnceEach
    <3> QED
      BY <1>4, <3>1
  <2>3. CASE i \in 1..Len(s) /\ j \notin 1..Len(s)
    BY <1>2, <1>3, <1>6, <1>7, <2>3 DEF Range
  <2>4. CASE i \notin 1..Len(s) /\ j \in 1..Len(s)
    BY <1>2, <1>3, <1>6, <1>7, <2>4 DEF Range
  <2> QED
    BY <2>1, <2>2, <2>3, <2>4
<1>8. Range(u) = Range(s) \cup Range(t)
  <2>1. ASSUME NEW x \in Range(u) PROVE x \in Range(s) \cup Range(t)
    <3>1. PICK i \in 1..Len(u) : x = u[i]
      BY <1>6 DEF Range
    <3> QED
      BY <1>2, <1>3, <1>6, <3>1 DEF Range
  <2>2. ASSUME NEW x \in Range(s) \cup Range(t) PROVE x \in Range(u)
    BY <1>2, <1>5, <1>6 DEF Range
  <2> QED
    BY <2>1, <2>2
<1> QED
  BY <1>1, <1>6, <1>7, <1>8 DEF OnceEach, u

LEMMA OneOnce ==
  ASSUME NEW S, NEW s \in Seq(S), Len(s) = 1
  PROVE  OnceEach(s) /\ Range(s) = {s[1]} /\ s[1] \in S
<1>1. DOMAIN s = {1} /\ s[1] \in S
  OBVIOUS
<1> QED
  BY <1>1 DEF OnceEach, Range

LEMMA InsertedOnce ==
  ASSUME NEW S, NEW s \in Seq(S), NEW t \in Seq(S), OnceEach(s), Len(t) = 1, t[1] \notin Range(s),
         NEW p \in 1..Len(s) + 1
  PROVE  SubSeq(s, 1, p - 1) \o t \o SubSeq(s, p, Len(s)) \in Seq(S)
         /\ OnceEach(SubSeq(s, 1, p - 1) \o t \o SubSeq(s, p, Len(s)))
<1> DEFINE a == SubSeq(s, 1, p - 1)
           b == SubSeq(s, p, Len(s))
<1>1. /\ a \in Seq(S) /\ Len(a) = p - 1
      /\ b \in Seq(S) /\ Len(b) = Len(s) - p + 1
  OBVIOUS
<1>2. \A i \in 1..Len(a) : i \in 1..Len(s) /\ i < p /\ a[i] = s[i]
  OBVIOUS
<1>3. \A i \in 1..Len(b) : i + p - 1 \in 1..Len(s) /\ i + p - 1 >= p /\ b[i] = s[i + p - 1]
  OBVIOUS
<1> HIDE DEF a, b
<1>4. DOMAIN s = 1..Len(s) /\ DOMAIN a = 1..Len(a) /\ DOMAIN b = 1..Len(b) /\ Len(a) \in Nat /\ Len(b) \in Nat
  BY <1>1
<1>5. OnceEach(a)
  BY <1>2, <1>4 DEF OnceEach
<1>6. OnceEach(b)
  <2> SUFFICES ASSUME NEW i \in 1..Len(b), NEW j \in 1..Len(b), b[i] = b[j] PROVE i = j
    BY <1>4 DEF OnceEach
  <2>1. i + p - 1 = j + p - 1
    BY <1>3, <1>4 DEF OnceEach
  <2> QED
    BY <1>4, <2>1
<1>7. Range(a) \subseteq Range(s) /\ Range(b) \subseteq Range(s)
  <2> DEFINE at(i) == i + p - 1
  <2>1. \A i \in 1..Len(b) : at(i) \in 1..Len(s) /\ b[i] = s[at(i)]
    BY <1>3
  <2> HIDE DEF at
  <2> QED
    BY <1>2, <1>4, <2>1 DEF Range
<1>8. Range(a) \cap Range(b) = {}
  <2> SUFFICES ASSUME NEW i \in 1..Len(a), NEW j \in 1..Len(b), a[i] = b[j] PROVE FALSE
    BY <1>4 DEF Range
  <2>1. i \in 1..Len(s) /\ j + p - 1 \in 1..Len(s) /\ s[i] = s[j + p - 1] /\ i < p /\ j + p - 1 >= p
    BY <1>2, <1>3
  <2>2. i = j + p - 1
    BY <1>4, <2>1 DEF OnceEach
  <2> QED
    BY <2>1, <2>2
<1>9. OnceEach(t) /\ Range(t) = {t[1]}
  BY OneOnce
<1>10. a \o t \in Seq(S) /\ OnceEach(a \o t) /\ Range(a \o t) = Range(a) \cup Range(t)
  BY <1>1, <1>5, <1>7, <1>9, JoinedOnce
<1>11. Range(a \o t) \cap Range(b) = {}
  BY <1>7, <1>8, <1>9, <1>10
<1>12. (a \o t) \o b \in Seq(S) /\ OnceEach((a \o t) \o b)
  BY <1>1, <1>6, <1>10, <1>11, JoinedOnce
<1> QED
  BY <1>12 DEF a, b

Memory ==
  order \in Seq(Id) /\ Len(order) <= OrderCap /\ Rises(order)

LEMMA LimitsHold == Limit \in Nat \ {0} /\ ViewCap \in Nat \ {0} /\ OrderCap \in Nat \ {0} /\ DiskCap \in Nat \ {0} /\ MaxMessages \in Nat
BY MessageStoreAssumption

LEMMA IdsAre == Id \subseteq Nat /\ IsFiniteSet(Id) /\ \A s : s \in Seq(Id) => s \in Seq(Nat)
<1>1. Id \subseteq Nat /\ IsFiniteSet(Id)
  BY LimitsHold, FS_Interval DEF Id
<1>2. ASSUME NEW s \in Seq(Id) PROVE s \in Seq(Nat)
  <2>2. \A i \in 1..Len(s) : s[i] \in Id
    OBVIOUS
  <2>1. \A i \in 1..Len(s) : s[i] \in Nat
    BY <1>1, <2>2
  <2> QED
    BY <2>1
<1> QED
  BY <1>1, <1>2

LEMMA WiderSeq ==
  ASSUME NEW S, NEW T, S \subseteq T, NEW s \in Seq(S)
  PROVE  s \in Seq(T)
<1>1. \A i \in 1..Len(s) : s[i] \in S
  OBVIOUS
<1>2. \A i \in 1..Len(s) : s[i] \in T
  BY <1>1
<1> QED
  BY <1>2

LEMMA SomeIds ==
  ASSUME NEW S \in SUBSET Id
  PROVE  S \in SUBSET Nat /\ IsFiniteSet(S)
BY IdsAre, FS_Subset

LEMMA Mentioned ==
  ASSUME NEW S, NEW s \in Seq(S)
  PROVE  Range(s) \subseteq S /\ (s # <<>> => Head(s) \in Range(s) /\ Last(s) \in Range(s))
<1>1. DOMAIN s = 1..Len(s) /\ Len(s) \in Nat
  OBVIOUS
<1>2. s # <<>> => Head(s) = s[1] /\ Last(s) = s[Len(s)] /\ 1 \in 1..Len(s) /\ Len(s) \in 1..Len(s)
  BY <1>1 DEF Last
<1> QED
  BY <1>1, <1>2 DEF Range

\* cacheMessages keeps the list ascending and within its cap.
LEMMA CachedIs ==
  ASSUME NEW held \in Seq(Id), Rises(held), Len(held) <= OrderCap, NEW page \in Seq(Id), Rises(page)
  PROVE  Cached(held, page) \in Seq(Id) /\ Rises(Cached(held, page)) /\ Len(Cached(held, page)) <= OrderCap
<1>1. CASE page = <<>>
  BY <1>1 DEF Cached
<1>2. CASE page # <<>>
  <2> DEFINE joined == IF held = <<>> \/ Head(page) > Last(held) THEN held \o page
                       ELSE Ascending(Range(held) \cup Range(page))
  <2>1. joined \in Seq(Id) /\ Rises(joined)
    <3>1. CASE held = <<>> \/ Head(page) > Last(held)
      <4>1. held \in Seq(Nat) /\ page \in Seq(Nat)
        BY IdsAre
      <4>2. held = <<>> \/ Last(held) < Head(page)
        <5>1. held # <<>> => Last(held) \in Nat /\ Head(page) \in Nat
          BY <1>2, <4>1, Mentioned
        <5> QED
          BY <3>1, <5>1
      <4>3. Rises(held \o page)
        BY <4>1, <4>2, JoinedRises
      <4> QED
        BY <3>1, <4>3
    <3>2. CASE ~(held = <<>> \/ Head(page) > Last(held))
      <4>1. Range(held) \cup Range(page) \in SUBSET Id
        BY Mentioned
      <4>2. /\ Ascending(Range(held) \cup Range(page)) \in Seq(Range(held) \cup Range(page))
            /\ Rises(Ascending(Range(held) \cup Range(page)))
        BY <4>1, SomeIds, AscendingIs
      <4> QED
        BY <3>2, <4>1, <4>2
    <3> QED
      BY <3>1, <3>2
  <2>2. Cached(held, page) = LastOf(joined, OrderCap)
    BY <1>2 DEF Cached
  <2> HIDE DEF joined
  <2>3. OrderCap \in Nat /\ OrderCap # 0
    BY LimitsHold
  <2> QED
    BY <2>1, <2>2, <2>3, LastOfIs
<1> QED
  BY <1>1, <1>2

\* So does what a full fetch drops.
LEMMA KeptIs ==
  ASSUME Memory, NEW type, NEW page
  PROVE  Kept(type, page) \in Seq(Id) /\ Rises(Kept(type, page)) /\ Len(Kept(type, page)) <= OrderCap
<1> DEFINE p == LowerBound(order, Head(page))
<1>1. order \in Seq(Id) /\ Len(order) <= OrderCap /\ Rises(order) /\ OrderCap \in Nat /\ Len(order) \in Nat
  BY LimitsHold DEF Memory
<1>2. p \in 1..Len(order) + 1
  BY <1>1, LowerBoundInside
<1> HIDE DEF p
<1>3. p - 1 \in Nat /\ p - 1 <= Len(order)
  BY <1>1, <1>2
<1>4. SubSeq(order, 1, p - 1) \in Seq(Id) /\ Rises(SubSeq(order, 1, p - 1)) /\ Len(SubSeq(order, 1, p - 1)) <= OrderCap
  <2>1. SubSeq(order, 1, p - 1) \in Seq(Id) /\ Rises(SubSeq(order, 1, p - 1)) /\ Len(SubSeq(order, 1, p - 1)) <= Len(order)
    BY <1>1, <1>3, SubSeqIs
  <2> QED
    BY <1>1, <2>1
<1> QED
  BY <1>1, <1>4 DEF Kept, p

\* A save adds only what the page has and no mark forbids, and keeps the cap.
LEMMA SavedIs ==
  ASSUME disk \subseteq Id, NEW page \in Seq(Id)
  PROVE  /\ Saved(page) \subseteq disk \cup (Range(page) \ tombs) /\ Saved(page) \subseteq Id
         /\ Cardinality(Saved(page)) <= DiskCap
<1>1. disk \cup (Range(page) \ tombs) \in SUBSET Id
  BY Mentioned
<1> QED
  BY <1>1, SomeIds, LimitsHold, LargestIs DEF Saved

LEMMA FreshIs ==
  ASSUME view \in Seq(Id), NEW page \in Seq(Id), Rises(page)
  PROVE  /\ Fresh(page) \in Seq(Id) /\ OnceEach(Fresh(page)) /\ Range(Fresh(page)) = Range(page) \ Range(view)
<1>1. OnceEach(page)
  BY IdsAre, RisingOnce
<1>2. Fresh(page) \in Seq(Id \ Range(view))
  BY WithoutIs DEF Fresh
<1> QED
  BY <1>1, <1>2, WithoutIs DEF Fresh

LEMMA TrimIs ==
  ASSUME NEW v \in Seq(Id), OnceEach(v)
  PROVE  Trim(v) \in Seq(Id) /\ OnceEach(Trim(v))
BY LimitsHold, LastOfIs DEF Trim

\* Whatever a page is shown as, no message is shown twice.
LEMMA ShowIs ==
  ASSUME view \in Seq(Id), OnceEach(view), NEW page \in Seq(Id), Rises(page),
         NEW type \in {"latest", "history", "jump", "create"}, type \in {"jump", "create"} => Len(page) = 1
  PROVE  Show(type, page) \in Seq(Id) /\ OnceEach(Show(type, page))
<1>1. OnceEach(page)
  BY IdsAre, RisingOnce
<1>2. ShowLatest(page) \in Seq(Id) /\ OnceEach(ShowLatest(page))
  BY <1>1, TrimIs DEF ShowLatest
<1>3. ShowHistory(page) \in Seq(Id) /\ OnceEach(ShowHistory(page))
  <2>1. Fresh(page) \in Seq(Id) /\ OnceEach(Fresh(page)) /\ Range(Fresh(page)) \cap Range(view) = {}
    BY FreshIs
  <2>2. Fresh(page) \o view \in Seq(Id) /\ OnceEach(Fresh(page) \o view)
    BY <2>1, JoinedOnce
  <2> QED
    BY <1>1, <2>2 DEF ShowHistory
<1>4. ASSUME Len(page) = 1, Fresh(page) # <<>> PROVE page[1] \notin Range(view)
  <2>1. Range(page) = {page[1]}
    BY <1>4, OneOnce
  <2>2. Range(Fresh(page)) # {}
    BY <1>4, FreshIs, Mentioned
  <2> QED
    BY <2>1, <2>2, FreshIs
<1>5. ASSUME type = "jump" PROVE ShowJump(page) \in Seq(Id) /\ OnceEach(ShowJump(page))
  <2>1. CASE Fresh(page) = <<>>
    BY <2>1 DEF ShowJump
  <2>2. CASE Fresh(page) # <<>>
    <3> DEFINE p == LowerBound(view, Head(page))
               v == SubSeq(view, 1, p - 1) \o page \o SubSeq(view, p, Len(view))
    <3>1. p \in 1..Len(view) + 1
      BY LowerBoundInside
    <3>2. ShowJump(page) = Trim(v)
      BY <2>2 DEF ShowJump
    <3> HIDE DEF p
    <3>3. v \in Seq(Id) /\ OnceEach(v)
      BY <1>4, <1>5, <2>2, <3>1, InsertedOnce
    <3> HIDE DEF v
    <3> QED
      BY <3>2, <3>3, TrimIs
  <2> QED
    BY <2>1, <2>2
<1>6. ASSUME type = "create" PROVE ShowCreated(page) \in Seq(Id) /\ OnceEach(ShowCreated(page))
  <2>1. CASE Fresh(page) = <<>>
    BY <2>1 DEF ShowCreated
  <2>2. CASE Fresh(page) # <<>>
    <3>1. Range(page) = {page[1]} /\ page[1] \notin Range(view)
      BY <1>4, <1>6, <2>2, OneOnce
    <3>2. view \o page \in Seq(Id) /\ OnceEach(view \o page)
      BY <1>1, <3>1, JoinedOnce
    <3> QED
      BY <2>2, <3>2, TrimIs DEF ShowCreated
  <2> QED
    BY <2>1, <2>2
<1> QED
  BY <1>2, <1>3, <1>5, <1>6 DEF Show

\* The fetches under way: an answered one has an ascending page of messages the channel has had,
\* a jump one message, and a page of history that is short the end of the channel.
IsPage(page) == page \in Seq(1..newest) /\ Rises(page)

Answers ==
  \A f \in fetches : f.answered =>
    /\ IsPage(f.page)
    /\ f.type = "jump" => Len(f.page) = 1
    /\ f.type = "history" /\ f.page # <<>> /\ Len(f.page) < Limit => Below(Existing, Head(f.page)) = {}

\* A deletion the client is told of has happened.
Told == \A i \in 1..Len(events) : events[i].type = "delete" => events[i].id \in deleted
\* What is marked deleted on disk is not also saved there.
Marks == disk \cap tombs = {}
\* The end the client knows is a message the channel has had, with nothing below.
EndKnown == lowest \in Id => lowest <= newest /\ Below(Existing, lowest) = {}
\* The view waits only while the debounce is set, which is while the one history load is under way.
Loads ==
  /\ gate => debounce
  /\ debounce = (\E f \in fetches : f.type = "history")
  /\ \A f, g \in fetches : f.type = "history" /\ g.type = "history" => f = g

Sorted == Rises(order) /\ OnceEach(view)
IInv == TypeOK /\ Sorted /\ Answers /\ Told /\ Marks /\ EndKnown /\ Loads

LEMMA IInvAtFirst == Init => IInv
<1> SUFFICES ASSUME Init PROVE IInv
  OBVIOUS
<1>1. TypeOK
  <2>1. /\ newest \in 0..MaxMessages /\ deleted \subseteq 1..newest /\ losses \in 0..MaxLosses
        /\ events \in Seq([type : {"create", "delete"}, id : Id]) /\ Len(events) <= MaxEvents
        /\ fetches \subseteq Fetch
    BY MessageStoreAssumption DEF Init
  <2>2. order \in Seq(Id) /\ Len(order) <= OrderCap /\ evicted \subseteq Range(order) /\ view \in Seq(Id)
    BY LimitsHold DEF Init
  <2>3. {listed, fetched, debounce, open, gate} \subseteq BOOLEAN
    BY Zenon DEF Init
  <2>4. lowest \in Id \cup {Unknown, NoneBelow}
    BY DEF Init
  <2>5. disk \subseteq Id /\ Cardinality(disk) <= DiskCap /\ tombs \subseteq deleted
    BY LimitsHold, FS_EmptySet DEF Init
  <2> QED
    BY <2>1, <2>2, <2>3, <2>4, <2>5, Zenon DEF TypeOK
<1>2. Sorted
  BY DEF Init, Sorted, Rises, OnceEach
<1>3. Answers /\ Told /\ Marks
  BY DEF Init, Answers, Told, Marks
<1>5. Loads
  BY DEF Init, Loads
<1>4. EndKnown
  BY LimitsHold DEF Init, EndKnown, Unknown, Id
<1> QED
  BY <1>1, <1>2, <1>3, <1>4, <1>5 DEF IInv

Types == {"latest", "history", "jump", "create"}

\* onApiMessagesReceived: what it does to memory, disk and view, for a page of any kind.
LEMMA ReceiveKeeps ==
  ASSUME IInv, NEW type \in Types, NEW page \in Seq(Id), Rises(page),
         type \in {"jump", "create"} => Len(page) = 1, Receive(type, page)
  PROVE  /\ order' \in Seq(Id) /\ Len(order') <= OrderCap /\ evicted' \subseteq Range(order') /\ Sorted'
         /\ listed' \in BOOLEAN /\ fetched' \in BOOLEAN /\ gate' \in BOOLEAN
         /\ view' \in Seq(Id)
         /\ disk' \subseteq Id /\ Cardinality(disk') <= DiskCap /\ tombs' = tombs /\ Marks'
         /\ lowest' = Exhausted(type, page)
         /\ gate' = Waits(type, page)
<1>1. /\ order \in Seq(Id) /\ Len(order) <= OrderCap /\ Rises(order) /\ Memory
      /\ view \in Seq(Id) /\ OnceEach(view) /\ disk \subseteq Id
      /\ listed \in BOOLEAN /\ fetched \in BOOLEAN /\ gate \in BOOLEAN /\ disk \cap tombs = {}
  <2>1. listed \in BOOLEAN /\ fetched \in BOOLEAN /\ gate \in BOOLEAN
    BY Zenon DEF IInv, TypeOK
  <2>2. TypeOK /\ Sorted /\ Marks
    BY DEF IInv
  <2> QED
    BY <2>1, <2>2 DEF TypeOK, Sorted, Marks, Memory
<1>2. order' \in Seq(Id) /\ Len(order') <= OrderCap /\ Rises(order')
  BY <1>1, KeptIs, CachedIs DEF Receive
<1>3. view' \in Seq(Id) /\ OnceEach(view')
  BY <1>1, ShowIs DEF Receive, Types
<1>4. disk' \subseteq disk \cup (Range(page) \ tombs) /\ disk' \subseteq Id /\ Cardinality(disk') <= DiskCap /\ tombs' = tombs \ disk'
  BY <1>1, SavedIs DEF Receive, Save
<1>5. tombs' = tombs /\ disk' \cap tombs' = {}
  BY <1>1, <1>4
<1>6. /\ evicted' \subseteq Range(order') /\ listed' \in BOOLEAN /\ fetched' \in BOOLEAN
      /\ lowest' = Exhausted(type, page) /\ gate' = Waits(type, page)
  BY <1>1 DEF Receive
<1>7. gate' \in BOOLEAN
  BY <1>1, <1>6 DEF Waits
<1>8. Sorted' /\ Marks'
  BY <1>2, <1>3, <1>5 DEF Sorted, Marks
<1> QED
  BY <1>2, <1>3, <1>4, <1>5, <1>6, <1>7, <1>8, Zenon

LEMMA ExistingAre ==
  ASSUME TypeOK
  PROVE  Existing \subseteq 1..newest /\ 1..newest \subseteq Id /\ newest \in Nat
BY LimitsHold DEF TypeOK, Existing, Id

\* What the server answers: an ascending page of what exists; and a short page of history has
\* all there is below.
LEMMA PageIs ==
  ASSUME TypeOK, NEW f \in Fetch
  PROVE  /\ IsPage(Page(f))
         /\ f.type = "jump" => Len(Page(f)) <= 1
         /\ f.type = "history" /\ Page(f) # <<>> /\ Len(Page(f)) < Limit => Below(Existing, Head(Page(f))) = {}
<1> DEFINE B == Below(Existing, f.at)
           S == CASE f.type = "latest" -> Largest(Existing, Limit)
                  [] f.type = "history" -> Largest(B, Limit)
                  [] f.type = "jump" -> Existing \cap {f.at}
<1>1. Page(f) = Ascending(S)
  BY DEF Page
<1>2. Existing \in SUBSET Id /\ B \in SUBSET Id /\ B \subseteq Existing /\ Existing \subseteq 1..newest
  BY ExistingAre DEF Below
<1>3. Limit \in Nat
  BY LimitsHold
<1>4. S \in SUBSET (1..newest) /\ S \in SUBSET Id
  <2>1. Largest(Existing, Limit) \subseteq Existing /\ Largest(B, Limit) \subseteq B
    BY <1>2, <1>3, SomeIds, LargestIs
  <2> HIDE DEF B
  <2> QED
    BY <1>2, <2>1 DEF Fetch
<1> HIDE DEF S
<1>5. Ascending(S) \in Seq(S) /\ Len(Ascending(S)) = Cardinality(S) /\ Rises(Ascending(S)) /\ Range(Ascending(S)) = S
  BY <1>4, SomeIds, AscendingIs
<1>6. IsPage(Page(f))
  BY <1>1, <1>4, <1>5, WiderSeq DEF IsPage
<1>7. f.type = "jump" => Len(Page(f)) <= 1
  <2>1. f.type = "jump" => S \in SUBSET {f.at}
    BY DEF S
  <2>2. IsFiniteSet({f.at}) /\ Cardinality({f.at}) = 1
    BY FS_Singleton
  <2> QED
    BY <1>1, <1>5, <2>1, <2>2, FS_Subset
<1>8. ASSUME f.type = "history", Page(f) # <<>>, Len(Page(f)) < Limit, NEW m \in Existing, m < Head(Page(f))
      PROVE  FALSE
  <2> DEFINE s == Page(f)
  <2>1. s \in Seq(S) /\ Rises(s) /\ Range(s) = S /\ s # <<>> /\ DOMAIN s = 1..Len(s)
    BY <1>1, <1>5, <1>8
  <2>2. S = B
    BY <1>1, <1>2, <1>3, <1>5, <1>8, SomeIds, LargestIs DEF S
  <2> HIDE DEF s
  <2>3. Head(s) \in S /\ Head(s) = s[1] /\ 1 \in DOMAIN s
    BY <2>1
  <2>4. m < f.at
    <3>1. Head(s) < f.at /\ Head(s) \in Nat /\ m \in Nat /\ f.at \in Nat
      BY <1>2, <1>4, <2>2, <2>3, LimitsHold, IdsAre DEF Below, Fetch
    <3> QED
      BY <1>8, <3>1 DEF s
  <2>5. m \in S
    BY <2>2, <2>4 DEF Below
  <2>6. PICK i \in 1..Len(s) : s[i] = m
    BY <2>1, <2>5 DEF Range
  <2>7. i = 1 \/ s[1] < s[i]
    BY <2>1, <2>3 DEF Rises
  <2>8. s[1] \in Nat /\ m \in Nat
    BY <1>4, <2>3, <2>5, IdsAre
  <2> QED
    BY <1>8, <2>3, <2>6, <2>7, <2>8 DEF s
<1> QED
  BY <1>6, <1>7, <1>8 DEF Below

\* Parts of the invariant that a step leaves alone.
LEMMA AnswersStay ==
  ASSUME Answers, \A f \in fetches' : f.answered => f \in fetches, UNCHANGED <<newest, deleted>>
  PROVE  Answers'
BY DEF Answers, IsPage, Existing, Below

LEMMA ToldStays ==
  ASSUME Told, deleted \subseteq deleted', events' = events \/ events' = <<>>
  PROVE  Told'
BY DEF Told

LEMMA EndStays ==
  ASSUME EndKnown, UNCHANGED <<newest, deleted, lowest>>
  PROVE  EndKnown'
BY DEF EndKnown, Existing, Below

LEMMA SortedStays ==
  ASSUME Sorted, UNCHANGED <<order, view>>
  PROVE  Sorted'
BY DEF Sorted

\* The type invariant, by whose variables they are.
Event == [type : {"create", "delete"}, id : Id]

ServerOK ==
  /\ newest \in 0..MaxMessages /\ deleted \subseteq 1..newest /\ losses \in 0..MaxLosses
  /\ events \in Seq(Event) /\ Len(events) <= MaxEvents
  /\ tombs \subseteq deleted

MemoryOK ==
  /\ order \in Seq(Id) /\ Len(order) <= OrderCap /\ evicted \subseteq Range(order)
  /\ {listed, fetched, debounce} \subseteq BOOLEAN
  /\ lowest \in Id \cup {Unknown, NoneBelow}

DiskOK == disk \subseteq Id /\ Cardinality(disk) <= DiskCap

ViewOK == {open, gate} \subseteq BOOLEAN /\ view \in Seq(Id)

LEMMA TypeParts == TypeOK <=> ServerOK /\ fetches \subseteq Fetch /\ MemoryOK /\ DiskOK /\ ViewOK
BY Zenon DEF TypeOK, ServerOK, MemoryOK, DiskOK, ViewOK, Event

LEMMA TypePartsNext == TypeOK' <=> ServerOK' /\ (fetches' \subseteq Fetch) /\ MemoryOK' /\ DiskOK' /\ ViewOK'
BY Zenon DEF TypeOK, ServerOK, MemoryOK, DiskOK, ViewOK, Event

\* The steps of the server.
LEMMA SrvCreateStep == IInv /\ SrvCreate => IInv'
<1> SUFFICES ASSUME IInv, SrvCreate PROVE IInv'
  OBVIOUS
<1>1. /\ newest' = newest + 1 /\ newest < MaxMessages /\ Len(events) < MaxEvents
      /\ events' = Append(events, [type |-> "create", id |-> newest + 1])
      /\ UNCHANGED <<deleted, losses, fetches, memoryVars, diskVars, viewVars>>
  BY DEF SrvCreate, Sends
<1>2. TypeOK /\ Sorted /\ Answers /\ Told /\ Marks /\ EndKnown /\ Loads
  BY DEF IInv
<1>3. newest \in Nat /\ newest + 1 \in Id /\ newest' \in 0..MaxMessages /\ 1..newest \subseteq 1..newest'
  BY <1>1, <1>2, LimitsHold DEF TypeOK, Id
<1>4. Existing' = Existing \cup {newest + 1}
  BY <1>1, <1>2, <1>3 DEF Existing, TypeOK
<1>5. TypeOK'
  <2> DEFINE E == [type : {"create", "delete"}, id : Id]
             e == [type |-> "create", id |-> newest + 1]
  <2>1. events \in Seq(E) /\ e \in E
    BY <1>2, <1>3 DEF TypeOK
  <2> HIDE DEF E, e
  <2>2. events' \in Seq(E) /\ Len(events') <= MaxEvents
    <3>1. Len(Append(events, e)) = Len(events) + 1 /\ Append(events, e) \in Seq(E) /\ Len(events) \in Nat
      BY <2>1
    <3> QED
      BY <1>1, <3>1, MessageStoreAssumption DEF e
  <2>3. deleted' \subseteq 1..newest'
    BY <1>1, <1>2, <1>3 DEF TypeOK
  <2> QED
    BY <1>1, <1>2, <1>3, <2>2, <2>3, Zenon DEF TypeOK, memoryVars, diskVars, viewVars, E, Id, Unknown, NoneBelow
<1>6. Sorted' /\ Marks' /\ Loads'
  BY <1>1, <1>2 DEF Sorted, Marks, Loads, memoryVars, diskVars, viewVars, Rises, OnceEach
<1>7. Answers'
  <2> SUFFICES ASSUME NEW f \in fetches, f.answered
               PROVE  /\ IsPage(f.page)'
                      /\ f.type = "jump" => Len(f.page) = 1
                      /\ f.type = "history" /\ f.page # <<>> /\ Len(f.page) < Limit => Below(Existing', Head(f.page)) = {}
    BY <1>1 DEF Answers, Below
  <2>1. /\ IsPage(f.page)
        /\ f.type = "jump" => Len(f.page) = 1
        /\ f.type = "history" /\ f.page # <<>> /\ Len(f.page) < Limit => Below(Existing, Head(f.page)) = {}
    BY <1>2 DEF Answers
  <2>2. IsPage(f.page)'
    BY <1>3, <2>1, WiderSeq DEF IsPage, Rises
  <2>3. f.page # <<>> => Head(f.page) \in 1..newest
    BY <2>1, Mentioned DEF IsPage
  <2>4. f.page # <<>> => Below(Existing', Head(f.page)) = Below(Existing, Head(f.page))
    BY <1>3, <1>4, <2>3 DEF Below
  <2> QED
    BY <2>1, <2>2, <2>4
<1>8. Told'
  <2> SUFFICES ASSUME NEW i \in 1..Len(events'), events'[i].type = "delete" PROVE events'[i].id \in deleted
    BY <1>1 DEF Told
  <2>1. events \in Seq([type : {"create", "delete"}, id : Id]) /\ Len(events) \in Nat
    BY <1>2 DEF TypeOK
  <2>2. (i \in 1..Len(events) /\ events'[i] = events[i]) \/ events'[i] = [type |-> "create", id |-> newest + 1]
    BY <1>1, <2>1
  <2> QED
    BY <1>2, <2>2 DEF Told
<1>9. EndKnown'
  <2>1. lowest' = lowest
    BY <1>1 DEF memoryVars
  <2>2. ASSUME lowest \in Id PROVE lowest <= newest' /\ Below(Existing', lowest) = {}
    <3>1. lowest <= newest /\ Below(Existing, lowest) = {} /\ lowest \in Nat
      BY <1>2, <2>2, IdsAre DEF EndKnown
    <3> QED
      BY <1>1, <1>3, <1>4, <3>1 DEF Below
  <2> QED
    BY <2>1, <2>2 DEF EndKnown, Below, Id
<1> QED
  BY <1>5, <1>6, <1>7, <1>8, <1>9 DEF IInv

LEMMA SrvDeleteStep == IInv /\ (\E m \in Id : SrvDelete(m)) => IInv'
<1> SUFFICES ASSUME IInv, NEW m \in Id, SrvDelete(m) PROVE IInv'
  OBVIOUS
<1>1. /\ m \in Existing /\ deleted' = deleted \cup {m} /\ Len(events) < MaxEvents
      /\ events' = Append(events, [type |-> "delete", id |-> m])
      /\ UNCHANGED <<newest, losses, fetches, memoryVars, diskVars, viewVars>>
  BY DEF SrvDelete, Sends
<1>2. ServerOK /\ fetches \subseteq Fetch /\ MemoryOK /\ DiskOK /\ ViewOK
      /\ Sorted /\ Answers /\ Told /\ Marks /\ EndKnown /\ Loads /\ TypeOK
  BY TypeParts DEF IInv
<1>3. Existing' \subseteq Existing
  BY <1>1 DEF Existing
<1>4. ServerOK'
  <2> DEFINE e == [type |-> "delete", id |-> m]
  <2>1. events \in Seq(Event) /\ e \in Event
    BY <1>2 DEF ServerOK, Event
  <2> HIDE DEF e
  <2>2. events' \in Seq(Event) /\ Len(events') <= MaxEvents
    <3>1. Len(Append(events, e)) = Len(events) + 1 /\ Append(events, e) \in Seq(Event) /\ Len(events) \in Nat
      BY <2>1
    <3> QED
      BY <1>1, <3>1, MessageStoreAssumption DEF e
  <2>3. deleted' \subseteq 1..newest'
    BY <1>1, <1>2, ExistingAre DEF ServerOK
  <2>4. tombs' \subseteq deleted'
    BY <1>1, <1>2 DEF ServerOK, diskVars
  <2> QED
    BY <1>1, <1>2, <2>2, <2>3, <2>4 DEF ServerOK
<1>5. fetches' \subseteq Fetch /\ MemoryOK' /\ DiskOK' /\ ViewOK' /\ Sorted' /\ Marks' /\ Loads'
  BY <1>1, <1>2 DEF MemoryOK, DiskOK, ViewOK, memoryVars, diskVars, viewVars, Sorted, Marks, Loads
<1>6. Answers'
  <2> SUFFICES ASSUME NEW f \in fetches, f.answered
               PROVE  /\ IsPage(f.page)'
                      /\ f.type = "jump" => Len(f.page) = 1
                      /\ f.type = "history" /\ f.page # <<>> /\ Len(f.page) < Limit => Below(Existing', Head(f.page)) = {}
    BY <1>1 DEF Answers, Below
  <2>1. /\ IsPage(f.page)
        /\ f.type = "jump" => Len(f.page) = 1
        /\ f.type = "history" /\ f.page # <<>> /\ Len(f.page) < Limit => Below(Existing, Head(f.page)) = {}
    BY <1>2 DEF Answers
  <2>2. IsPage(f.page)'
    BY <1>1, <2>1 DEF IsPage, Rises
  <2> QED
    BY <1>3, <2>1, <2>2 DEF Below
<1>7. Told'
  <2> SUFFICES ASSUME NEW i \in 1..Len(events'), events'[i].type = "delete" PROVE events'[i].id \in deleted'
    BY DEF Told
  <2>1. events \in Seq(Event) /\ Len(events) \in Nat
    BY <1>2 DEF ServerOK
  <2>2. (i \in 1..Len(events) /\ events'[i] = events[i]) \/ events'[i] = [type |-> "delete", id |-> m]
    BY <1>1, <2>1
  <2> QED
    BY <1>1, <1>2, <2>2 DEF Told
<1>8. EndKnown'
  BY <1>1, <1>2, <1>3 DEF EndKnown, Below, memoryVars, Id
<1> QED
  BY <1>4, <1>5, <1>6, <1>7, <1>8, TypePartsNext DEF IInv

LEMMA SrvAnswerStep == IInv /\ (\E f \in fetches : SrvAnswer(f)) => IInv'
<1> SUFFICES ASSUME IInv, NEW f \in fetches, SrvAnswer(f) PROVE IInv'
  OBVIOUS
<1> DEFINE g == [f EXCEPT !.answered = TRUE, !.page = Page(f)]
<1>1. /\ ~f.answered /\ fetches' = (fetches \ {f}) \cup {g}
      /\ f.type = "jump" => Page(f) # <<>>
      /\ UNCHANGED <<serverVars, events, memoryVars, diskVars, viewVars>>
  BY DEF SrvAnswer
<1>2. ServerOK /\ fetches \subseteq Fetch /\ MemoryOK /\ DiskOK /\ ViewOK
      /\ Sorted /\ Answers /\ Told /\ Marks /\ EndKnown /\ Loads /\ TypeOK
  BY TypeParts DEF IInv
<1>3. f \in Fetch
  BY <1>2
<1>4. /\ IsPage(Page(f))
      /\ f.type = "jump" => Len(Page(f)) = 1
      /\ f.type = "history" /\ Page(f) # <<>> /\ Len(Page(f)) < Limit => Below(Existing, Head(Page(f))) = {}
  <2>1. IsPage(Page(f)) /\ (f.type = "jump" => Len(Page(f)) <= 1)
    BY <1>2, <1>3, PageIs
  <2>2. Page(f) # <<>> => Len(Page(f)) # 0
    BY <2>1 DEF IsPage
  <2>3. Len(Page(f)) \in Nat
    BY <2>1 DEF IsPage
  <2>4. f.type = "jump" => Len(Page(f)) = 1
    <3>1. f.type = "jump" => Len(Page(f)) <= 1 /\ Len(Page(f)) # 0
      BY <1>1, <2>1, <2>2, Zenon
    <3> QED
      BY <2>3, <3>1
  <2>5. f.type = "history" /\ Page(f) # <<>> /\ Len(Page(f)) < Limit => Below(Existing, Head(Page(f))) = {}
    BY <1>2, <1>3, PageIs
  <2> QED
    BY <2>1, <2>4, <2>5
<1>5. g \in Fetch /\ g.type = f.type /\ g.answered /\ g.page = Page(f)
  <2>1. Page(f) \in Seq(Id)
    BY <1>2, <1>4, ExistingAre, WiderSeq DEF IsPage
  <2> QED
    BY <1>3, <2>1 DEF Fetch
<1> HIDE DEF g
<1>6. newest' = newest /\ deleted' = deleted /\ Existing' = Existing
  BY <1>1 DEF serverVars, Existing
<1>7. Answers'
  <2> SUFFICES ASSUME NEW h \in fetches', h.answered
               PROVE  /\ IsPage(h.page)
                      /\ h.type = "jump" => Len(h.page) = 1
                      /\ h.type = "history" /\ h.page # <<>> /\ Len(h.page) < Limit => Below(Existing, Head(h.page)) = {}
    BY <1>6 DEF Answers, Below, IsPage
  <2>1. CASE h = g
    BY <1>4, <1>5, <2>1
  <2>2. CASE h \in fetches
    BY <1>2, <2>2 DEF Answers
  <2> QED
    BY <1>1, <2>1, <2>2
<1>8. Loads'
  BY <1>1, <1>2, <1>5 DEF Loads, memoryVars, viewVars
<1>9. ServerOK' /\ fetches' \subseteq Fetch /\ MemoryOK' /\ DiskOK' /\ ViewOK' /\ Sorted' /\ Marks'
  BY <1>1, <1>2, <1>5 DEF ServerOK, MemoryOK, DiskOK, ViewOK, serverVars, memoryVars, diskVars, viewVars, Sorted, Marks
<1>10. Told' /\ EndKnown'
  BY <1>1, <1>2, <1>6, ToldStays, EndStays DEF memoryVars
<1> QED
  BY <1>7, <1>8, <1>9, <1>10, TypePartsNext DEF IInv

LEMMA SrvLoseStep == IInv /\ SrvLose => IInv'
<1> SUFFICES ASSUME IInv, SrvLose PROVE IInv'
  OBVIOUS
<1>1. /\ events' = <<>> /\ losses < MaxLosses /\ losses' = losses + 1
      /\ UNCHANGED <<newest, deleted, fetches, memoryVars, diskVars, viewVars>>
  BY DEF SrvLose
<1>2. ServerOK /\ fetches \subseteq Fetch /\ MemoryOK /\ DiskOK /\ ViewOK
      /\ Sorted /\ Answers /\ Told /\ Marks /\ EndKnown /\ Loads
  BY TypeParts DEF IInv
<1>3. ServerOK'
  BY <1>1, <1>2, MessageStoreAssumption DEF ServerOK, diskVars
<1>4. fetches' \subseteq Fetch /\ MemoryOK' /\ DiskOK' /\ ViewOK' /\ Sorted' /\ Marks' /\ Loads'
  BY <1>1, <1>2 DEF MemoryOK, DiskOK, ViewOK, memoryVars, diskVars, viewVars, Sorted, Marks, Loads
<1>5. Answers' /\ Told' /\ EndKnown'
  BY <1>1, <1>2, AnswersStay, ToldStays, EndStays DEF memoryVars
<1> QED
  BY <1>3, <1>4, <1>5, TypePartsNext DEF IInv

\* The steps of the client.
LEMMA ToldTail ==
  ASSUME Told, ServerOK, events # <<>>, events' = Tail(events), deleted \subseteq deleted', UNCHANGED <<newest, losses>>
  PROVE  Told' /\ events' \in Seq(Event) /\ Len(events') <= MaxEvents
<1>1. events \in Seq(Event) /\ Len(events) \in Nat /\ Len(events) <= MaxEvents
  BY DEF ServerOK
<1>2. events' \in Seq(Event) /\ Len(events') = Len(events) - 1
  BY <1>1
<1>3. \A i \in 1..Len(events') : i + 1 \in 1..Len(events) /\ events'[i] = events[i + 1]
  BY <1>1, <1>2
<1>4. Told'
  BY <1>3 DEF Told
<1> QED
  BY <1>1, <1>2, <1>4, MessageStoreAssumption

LEMMA OnCreateStep == IInv /\ OnCreate => IInv' /\ tombs' = tombs
<1> SUFFICES ASSUME IInv, OnCreate PROVE IInv' /\ tombs' = tombs
  OBVIOUS
<1> DEFINE page == <<Head(events).id>>
<1>1. /\ events # <<>> /\ events' = Tail(events) /\ Receive("create", page)
      /\ UNCHANGED <<serverVars, fetches, debounce, open>>
  BY DEF OnCreate, Receives
<1>2. ServerOK /\ fetches \subseteq Fetch /\ MemoryOK /\ DiskOK /\ ViewOK
      /\ Sorted /\ Answers /\ Told /\ Marks /\ EndKnown /\ Loads
  BY TypeParts DEF IInv
<1>3. Head(events) \in Event
  BY <1>1, <1>2, Mentioned DEF ServerOK
<1>4. page \in Seq(Id) /\ Len(page) = 1 /\ Rises(page)
  BY <1>3 DEF Event, Rises
<1> HIDE DEF page
<1>5. /\ order' \in Seq(Id) /\ Len(order') <= OrderCap /\ evicted' \subseteq Range(order') /\ Sorted'
      /\ listed' \in BOOLEAN /\ fetched' \in BOOLEAN /\ gate' \in BOOLEAN
      /\ view' \in Seq(Id)
      /\ disk' \subseteq Id /\ Cardinality(disk') <= DiskCap /\ tombs' = tombs /\ Marks'
      /\ lowest' = lowest
      /\ gate' = Waits("create", page)
  BY <1>1, <1>4, ReceiveKeeps DEF Types, Exhausted
<1>6. Told' /\ events' \in Seq(Event) /\ Len(events') <= MaxEvents
  BY <1>1, <1>2, ToldTail DEF serverVars
<1>7. ServerOK'
  BY <1>1, <1>2, <1>5, <1>6 DEF ServerOK, serverVars
<1>8. MemoryOK' /\ ViewOK'
  <2>1. debounce' \in BOOLEAN /\ open' \in BOOLEAN
    BY <1>1, <1>2, Zenon DEF MemoryOK, ViewOK
  <2>2. lowest' \in Id \cup {Unknown, NoneBelow}
    BY <1>2, <1>5 DEF MemoryOK
  <2> QED
    BY <1>5, <2>1, <2>2, Zenon DEF MemoryOK, ViewOK, Id, Unknown, NoneBelow
<1>9. DiskOK' /\ fetches' \subseteq Fetch
  BY <1>1, <1>2, <1>5 DEF DiskOK
<1>10. Loads'
  BY <1>1, <1>2, <1>5 DEF Loads, Waits
<1>11. Answers' /\ EndKnown'
  BY <1>1, <1>2, <1>5, AnswersStay, EndStays DEF serverVars
<1> QED
  BY <1>5, <1>6, <1>7, <1>8, <1>9, <1>10, <1>11, TypePartsNext DEF IInv

LEMMA OnFetchedStep == IInv /\ (\E f \in fetches : OnFetched(f)) => IInv' /\ tombs' = tombs
<1> SUFFICES ASSUME IInv, NEW f \in fetches, OnFetched(f) PROVE IInv' /\ tombs' = tombs
  OBVIOUS
<1>1. /\ f.answered /\ fetches' = fetches \ {f} /\ Receive(f.type, f.page)
      /\ debounce' = (debounce /\ f.type # "history")
      /\ UNCHANGED <<serverVars, events, open>>
  BY DEF OnFetched
<1>2. ServerOK /\ fetches \subseteq Fetch /\ MemoryOK /\ DiskOK /\ ViewOK
      /\ Sorted /\ Answers /\ Told /\ Marks /\ EndKnown /\ Loads /\ TypeOK
  BY TypeParts DEF IInv
<1>3. /\ IsPage(f.page) /\ f.type \in {"latest", "history", "jump"}
      /\ f.type = "jump" => Len(f.page) = 1
      /\ f.type = "history" /\ f.page # <<>> /\ Len(f.page) < Limit => Below(Existing, Head(f.page)) = {}
  BY <1>1, <1>2 DEF Answers, Fetch
<1>4. f.page \in Seq(Id) /\ Rises(f.page)
  BY <1>2, <1>3, ExistingAre, WiderSeq DEF IsPage
<1>5. /\ order' \in Seq(Id) /\ Len(order') <= OrderCap /\ evicted' \subseteq Range(order') /\ Sorted'
      /\ listed' \in BOOLEAN /\ fetched' \in BOOLEAN /\ gate' \in BOOLEAN
      /\ view' \in Seq(Id)
      /\ disk' \subseteq Id /\ Cardinality(disk') <= DiskCap /\ tombs' = tombs /\ Marks'
      /\ lowest' = Exhausted(f.type, f.page)
      /\ gate' = Waits(f.type, f.page)
  BY <1>1, <1>3, <1>4, ReceiveKeeps DEF Types
<1>6. f.page # <<>> => Head(f.page) \in 1..newest /\ Head(f.page) \in Id
  BY <1>3, <1>4, Mentioned DEF IsPage
<1>7. lowest' \in Id \cup {Unknown, NoneBelow}
  BY <1>2, <1>5, <1>6 DEF Exhausted, MemoryOK
<1>8. ServerOK'
  BY <1>1, <1>2, <1>5 DEF ServerOK, serverVars
<1>9. MemoryOK' /\ ViewOK'
  <2>1. debounce' \in BOOLEAN /\ open' \in BOOLEAN
    BY <1>1, <1>2, Zenon DEF MemoryOK, ViewOK
  <2> QED
    BY <1>5, <1>7, <2>1, Zenon DEF MemoryOK, ViewOK, Id, Unknown, NoneBelow
<1>10. DiskOK' /\ fetches' \subseteq Fetch
  BY <1>1, <1>2, <1>5 DEF DiskOK
<1>11. Loads'
  BY <1>1, <1>2, <1>5 DEF Loads, Waits
<1>12. Answers' /\ Told'
  BY <1>1, <1>2, AnswersStay, ToldStays DEF serverVars
<1>13. EndKnown'
  <2>1. newest' = newest /\ Existing' = Existing
    BY <1>1 DEF serverVars, Existing
  <2>2. CASE lowest' = lowest
    BY <1>1, <1>2, <2>2, EndStays DEF serverVars
  <2>3. CASE f.type = "history" /\ Len(f.page) < Limit /\ f.page = <<>>
    BY <1>5, <2>3, IdsAre, LimitsHold DEF Exhausted, EndKnown, Id, NoneBelow
  <2>4. CASE f.type = "history" /\ Len(f.page) < Limit /\ f.page # <<>>
    <3>1. lowest' = Head(f.page) /\ Below(Existing, Head(f.page)) = {} /\ Head(f.page) <= newest
      BY <1>2, <1>3, <1>5, <1>6, <2>4, ExistingAre, LimitsHold DEF Exhausted
    <3> QED
      BY <2>1, <3>1 DEF EndKnown, Below
  <2> QED
    <3>1. Len(f.page) \in Nat /\ Limit \in Nat
      BY <1>4, LimitsHold
    <3> QED
      BY <1>5, <2>2, <2>3, <2>4, <3>1 DEF Exhausted
<1> QED
  BY <1>5, <1>8, <1>9, <1>10, <1>11, <1>12, <1>13, TypePartsNext DEF IInv

LEMMA OnFailedStep == IInv /\ (\E f \in fetches : OnFailed(f)) => IInv'
<1> SUFFICES ASSUME IInv, NEW f \in fetches, OnFailed(f) PROVE IInv'
  OBVIOUS
<1>1. /\ ~f.answered /\ fetches' = fetches \ {f}
      /\ debounce' = (debounce /\ f.type # "history") /\ gate' = (gate /\ f.type # "history")
      /\ UNCHANGED <<serverVars, events, order, evicted, listed, fetched, lowest, diskVars, open, view>>
  BY DEF OnFailed
<1>2. ServerOK /\ fetches \subseteq Fetch /\ MemoryOK /\ DiskOK /\ ViewOK
      /\ Sorted /\ Answers /\ Told /\ Marks /\ EndKnown /\ Loads
  BY TypeParts DEF IInv
<1>3. ServerOK' /\ fetches' \subseteq Fetch /\ DiskOK' /\ Sorted' /\ Marks'
  BY <1>1, <1>2 DEF ServerOK, DiskOK, serverVars, diskVars, Sorted, Marks
<1>4. MemoryOK' /\ ViewOK'
  <2>1. debounce' \in BOOLEAN /\ gate' \in BOOLEAN
    BY <1>1, <1>2, Zenon DEF MemoryOK, ViewOK
  <2> QED
    BY <1>1, <1>2, <2>1, Zenon DEF MemoryOK, ViewOK, Id, Unknown, NoneBelow
<1>5. Loads'
  BY <1>1, <1>2 DEF Loads
<1>6. Answers' /\ Told' /\ EndKnown'
  BY <1>1, <1>2, AnswersStay, ToldStays, EndStays DEF serverVars
<1> QED
  BY <1>3, <1>4, <1>5, <1>6, TypePartsNext DEF IInv

LEMMA OnDeleteStep == IInv /\ OnDelete => IInv'
<1> SUFFICES ASSUME IInv, OnDelete PROVE IInv'
  OBVIOUS
<1> DEFINE m == Head(events).id
<1>1. /\ events # <<>> /\ Head(events).type = "delete" /\ events' = Tail(events)
      /\ order' = Without(order, {m}) /\ evicted' = evicted \ {m}
      /\ disk' = disk \ {m} /\ tombs' = tombs \cup (disk \cap {m})
      /\ view' = Without(view, {m})
      /\ UNCHANGED <<serverVars, fetches, listed, fetched, lowest, debounce, open, gate>>
  BY DEF OnDelete, Receives
<1>2. ServerOK /\ fetches \subseteq Fetch /\ MemoryOK /\ DiskOK /\ ViewOK
      /\ Sorted /\ Answers /\ Told /\ Marks /\ EndKnown /\ Loads
  BY TypeParts DEF IInv
<1>3. m \in deleted
  <2>1. Head(events) = events[1] /\ 1 \in 1..Len(events)
    BY <1>1, <1>2 DEF ServerOK
  <2> QED
    BY <1>1, <1>2, <2>1 DEF Told
<1> HIDE DEF m
<1>4. Told' /\ events' \in Seq(Event) /\ Len(events') <= MaxEvents
  BY <1>1, <1>2, ToldTail DEF serverVars
<1>5. ServerOK'
  BY <1>1, <1>2, <1>3, <1>4 DEF ServerOK, serverVars
<1>6. /\ order' \in Seq(Id) /\ Len(order') <= OrderCap /\ Rises(order') /\ Range(order') = Range(order) \ {m}
      /\ view' \in Seq(Id) /\ OnceEach(view')
  <2>1. order \in Seq(Id) /\ view \in Seq(Id) /\ Rises(order) /\ OnceEach(view) /\ Len(order) <= OrderCap
    BY <1>2 DEF MemoryOK, ViewOK, Sorted
  <2>2. /\ order' \in Seq(Id \ {m}) /\ Len(order') <= Len(order) /\ Rises(order') /\ Range(order') = Range(order) \ {m}
        /\ view' \in Seq(Id \ {m}) /\ OnceEach(view')
    BY <1>1, <2>1, WithoutIs
  <2>3. order' \in Seq(Id) /\ view' \in Seq(Id)
    BY <2>2, WiderSeq
  <2>4. Len(order') \in Nat /\ Len(order) \in Nat
    BY <2>1, <2>3
  <2> QED
    BY <2>1, <2>2, <2>3, <2>4, LimitsHold
<1>7. MemoryOK' /\ ViewOK'
  <2>1. evicted' \subseteq Range(order')
    BY <1>1, <1>2, <1>6 DEF MemoryOK
  <2> QED
    BY <1>1, <1>2, <1>6, <2>1, Zenon DEF MemoryOK, ViewOK, Id, Unknown, NoneBelow
<1>8. DiskOK' /\ Marks'
  <2>1. IsFiniteSet(disk) /\ disk \in SUBSET Id
    BY <1>2, SomeIds DEF DiskOK
  <2>2. Cardinality(disk') <= Cardinality(disk) /\ Cardinality(disk') \in Nat /\ Cardinality(disk) \in Nat
    BY <1>1, <2>1, FS_Subset, FS_CardinalityType
  <2> QED
    BY <1>1, <1>2, <2>2, LimitsHold DEF DiskOK, Marks
<1>9. Sorted' /\ Loads' /\ fetches' \subseteq Fetch
  BY <1>1, <1>2, <1>6 DEF Sorted, Loads
<1>10. Answers' /\ EndKnown'
  BY <1>1, <1>2, AnswersStay, EndStays DEF serverVars
<1> QED
  BY <1>4, <1>5, <1>7, <1>8, <1>9, <1>10, TypePartsNext DEF IInv

LEMMA OnDisk ==
  ASSUME TypeOK, NEW S \in SUBSET disk
  PROVE  Ascending(Largest(S, Limit)) \in Seq(Id) /\ Rises(Ascending(Largest(S, Limit)))
<1>1. S \in SUBSET Id
  BY DEF TypeOK
<1>2. Largest(S, Limit) \in SUBSET Id
  BY <1>1, SomeIds, LargestIs, LimitsHold
<1> QED
  BY <1>2, SomeIds, AscendingIs, WiderSeq

LEMMA LatestPageIs ==
  ASSUME TypeOK, Sorted
  PROVE  LatestPage \in Seq(Id) /\ Rises(LatestPage)
BY OnDisk DEF LatestPage, TypeOK, Sorted

LEMMA HistoryPageIs ==
  ASSUME TypeOK, Sorted, NEW before
  PROVE  HistoryPage(before) \in Seq(Id) /\ Rises(HistoryPage(before))
<1> DEFINE p == LowerBound(order, before)
           s == SubSeq(order, 1, p - 1)
<1>1. order \in Seq(Id) /\ Rises(order) /\ p \in 1..Len(order) + 1 /\ Len(order) \in Nat
  BY LowerBoundInside DEF TypeOK, Sorted
<1>2. s \in Seq(Id) /\ Rises(s)
  <2>1. p - 1 \in Nat /\ p - 1 <= Len(order)
    BY <1>1
  <2> HIDE DEF p
  <2> QED
    BY <1>1, <2>1, SubSeqIs
<1> HIDE DEF s
<1>3. LastOf(s, Limit) \in Seq(Id) /\ Rises(LastOf(s, Limit))
  BY <1>2, LastOfIs, LimitsHold
<1>4. Below(disk, before) \in SUBSET disk
  BY DEF Below
<1>5. /\ Ascending(Largest(Below(disk, before), Limit)) \in Seq(Id)
      /\ Rises(Ascending(Largest(Below(disk, before), Limit)))
  BY <1>4, OnDisk
<1> QED
  BY <1>3, <1>5 DEF HistoryPage, s

LEMMA AskIs ==
  ASSUME fetches \subseteq Fetch, NEW type \in {"latest", "history", "jump"}, NEW at \in 0..MaxMessages, Ask(type, at)
  PROVE  \E f \in Fetch : f.type = type /\ ~f.answered /\ fetches' = fetches \cup {f}
<1> DEFINE f == [type |-> type, at |-> at, answered |-> FALSE, page |-> <<>>]
<1>1. f \in Fetch
  BY DEF Fetch
<1> QED
  BY <1>1 DEF Ask

LEMMA OpenStep == IInv /\ Open => IInv'
<1> SUFFICES ASSUME IInv, Open PROVE IInv'
  OBVIOUS
<1>2. ServerOK /\ fetches \subseteq Fetch /\ MemoryOK /\ DiskOK /\ ViewOK
      /\ Sorted /\ Answers /\ Told /\ Marks /\ EndKnown /\ Loads /\ TypeOK
  BY TypeParts DEF IInv
<1>3. open' = TRUE /\ UNCHANGED <<serverVars, events, memoryVars, diskVars>>
  BY DEF Open
<1>4. \/ view' = ShowLatest(LatestPage) /\ gate' = (gate /\ LatestPage = <<>>) /\ fetches' = fetches
      \/ Ask("latest", 0) /\ UNCHANGED <<view, gate>>
  BY DEF Open
<1>5. view' \in Seq(Id) /\ OnceEach(view')
  <2>1. ShowLatest(LatestPage) \in Seq(Id) /\ OnceEach(ShowLatest(LatestPage))
    <3>1. LatestPage \in Seq(Id) /\ Rises(LatestPage)
      BY <1>2, LatestPageIs
    <3>2. OnceEach(LatestPage)
      BY <3>1, IdsAre, RisingOnce
    <3> QED
      BY <1>2, <3>1, <3>2, TrimIs DEF ShowLatest, ViewOK, Sorted
  <2> QED
    BY <1>2, <1>4, <2>1 DEF ViewOK, Sorted
<1>6. fetches' = fetches \/ \E f \in Fetch : f.type = "latest" /\ ~f.answered /\ fetches' = fetches \cup {f}
  BY <1>2, <1>4, AskIs, LimitsHold
<1>7. fetches' \subseteq Fetch /\ \A f \in fetches' : f.answered => f \in fetches
  BY <1>2, <1>6
<1>8. gate' \in BOOLEAN /\ (gate' => gate)
  <2>1. gate \in BOOLEAN
    BY <1>2, Zenon DEF ViewOK
  <2>2. gate' = gate \/ gate' = (gate /\ LatestPage = <<>>)
    BY <1>4
  <2>3. CASE gate' = gate
    BY <2>1, <2>3, Zenon
  <2>4. CASE gate' = (gate /\ LatestPage = <<>>)
    BY <2>1, <2>4, Zenon
  <2> QED
    BY <2>2, <2>3, <2>4, Zenon
<1>9. Loads'
  BY <1>2, <1>3, <1>6, <1>8 DEF Loads, memoryVars
<1>10. ServerOK' /\ MemoryOK' /\ DiskOK' /\ Marks'
  BY <1>2, <1>3 DEF ServerOK, MemoryOK, DiskOK, Marks, serverVars, memoryVars, diskVars
<1>11. ViewOK'
  BY <1>3, <1>5, <1>8, Zenon DEF ViewOK, Id
<1>12. Sorted'
  BY <1>2, <1>3, <1>5 DEF Sorted, memoryVars
<1>13. Answers' /\ Told' /\ EndKnown'
  BY <1>2, <1>3, <1>7, AnswersStay, ToldStays, EndStays DEF serverVars, memoryVars
<1> QED
  BY <1>7, <1>9, <1>10, <1>11, <1>12, <1>13, TypePartsNext DEF IInv

LEMMA LeaveStep == IInv /\ Leave => IInv'
<1> SUFFICES ASSUME IInv, Leave PROVE IInv'
  OBVIOUS
<1>1. open' = FALSE /\ view' = <<>> /\ gate' = FALSE /\ UNCHANGED <<serverVars, events, fetches, memoryVars, diskVars>>
  BY DEF Leave
<1>2. ServerOK /\ fetches \subseteq Fetch /\ MemoryOK /\ DiskOK /\ ViewOK
      /\ Sorted /\ Answers /\ Told /\ Marks /\ EndKnown /\ Loads
  BY TypeParts DEF IInv
<1>3. ServerOK' /\ fetches' \subseteq Fetch /\ MemoryOK' /\ DiskOK' /\ Marks'
  BY <1>1, <1>2 DEF ServerOK, MemoryOK, DiskOK, Marks, serverVars, memoryVars, diskVars
<1>4. ViewOK' /\ Sorted' /\ Loads'
  <2>1. view' \in Seq(Id) /\ OnceEach(view')
    BY <1>1 DEF OnceEach
  <2>2. ViewOK'
    BY <1>1, <2>1, Zenon DEF ViewOK, Id
  <2> QED
    BY <1>1, <1>2, <2>1, <2>2 DEF Sorted, Loads, memoryVars
<1>5. Answers' /\ Told' /\ EndKnown'
  BY <1>1, <1>2, AnswersStay, ToldStays, EndStays DEF serverVars, memoryVars
<1> QED
  BY <1>3, <1>4, <1>5, TypePartsNext DEF IInv

LEMMA ScrollUpStep == IInv /\ ScrollUp => IInv'
<1> SUFFICES ASSUME IInv, ScrollUp PROVE IInv'
  OBVIOUS
<1> DEFINE before == Head(view)
<1>1. ServerOK /\ fetches \subseteq Fetch /\ MemoryOK /\ DiskOK /\ ViewOK
      /\ Sorted /\ Answers /\ Told /\ Marks /\ EndKnown /\ Loads /\ TypeOK
  BY TypeParts DEF IInv
<1>2. view # <<>> /\ UNCHANGED <<serverVars, events, order, evicted, fetched, lowest, diskVars, open>>
  BY DEF ScrollUp
<1>3. before \in Id
  BY <1>1, <1>2, Mentioned DEF ViewOK
<1> HIDE DEF before
<1>4. \/ debounce /\ gate' = TRUE /\ UNCHANGED <<fetches, debounce, listed, view>>
      \/ /\ ~debounce /\ listed' = (listed \/ fetched)
         /\ \/ view' = ShowHistory(HistoryPage(before)) /\ UNCHANGED <<fetches, debounce, gate>>
            \/ Ask("history", before) /\ debounce' = TRUE /\ gate' = TRUE /\ UNCHANGED view
  BY DEF ScrollUp, before
<1>5. view' \in Seq(Id) /\ OnceEach(view')
  <2>1. ShowHistory(HistoryPage(before)) \in Seq(Id) /\ OnceEach(ShowHistory(HistoryPage(before)))
    <3> DEFINE page == HistoryPage(before)
    <3>1. page \in Seq(Id) /\ Rises(page)
      BY <1>1, HistoryPageIs
    <3> HIDE DEF page
    <3>2. OnceEach(page)
      BY <3>1, IdsAre, RisingOnce
    <3>3. Fresh(page) \in Seq(Id) /\ OnceEach(Fresh(page)) /\ Range(Fresh(page)) \cap Range(view) = {}
      BY <1>1, <3>1, FreshIs DEF ViewOK
    <3>4. Fresh(page) \o view \in Seq(Id) /\ OnceEach(Fresh(page) \o view)
      BY <1>1, <3>3, JoinedOnce DEF ViewOK, Sorted
    <3> QED
      BY <3>1, <3>2, <3>4 DEF ShowHistory, page
  <2> QED
    BY <1>1, <1>4, <2>1 DEF ViewOK, Sorted
<1>6. \/ fetches' = fetches /\ debounce' = debounce /\ (gate' => debounce)
      \/ /\ ~debounce /\ debounce' = TRUE /\ gate' = TRUE
         /\ \E f \in Fetch : f.type = "history" /\ ~f.answered /\ fetches' = fetches \cup {f}
  <2>1. before \in 0..MaxMessages
    BY <1>3, LimitsHold DEF Id
  <2> QED
    BY <1>1, <1>4, <2>1, AskIs DEF Loads
<1>7. fetches' \subseteq Fetch /\ \A f \in fetches' : f.answered => f \in fetches
  BY <1>1, <1>6
<1>8. Loads'
  BY <1>1, <1>6 DEF Loads
<1>9. listed' \in BOOLEAN /\ debounce' \in BOOLEAN /\ gate' \in BOOLEAN
  <2>1. listed \in BOOLEAN /\ fetched \in BOOLEAN /\ debounce \in BOOLEAN /\ gate \in BOOLEAN
    BY <1>1, Zenon DEF MemoryOK, ViewOK
  <2> QED
    BY <1>4, <2>1, Zenon
<1>10. ServerOK' /\ DiskOK' /\ Marks'
  BY <1>1, <1>2 DEF ServerOK, DiskOK, Marks, serverVars, diskVars
<1>11. MemoryOK' /\ ViewOK'
  BY <1>1, <1>2, <1>5, <1>9, Zenon DEF MemoryOK, ViewOK, Id, Unknown, NoneBelow
<1>12. Sorted'
  BY <1>1, <1>2, <1>5 DEF Sorted
<1>13. Answers' /\ Told' /\ EndKnown'
  BY <1>1, <1>2, <1>7, AnswersStay, ToldStays, EndStays DEF serverVars
<1> QED
  BY <1>7, <1>8, <1>10, <1>11, <1>12, <1>13, TypePartsNext DEF IInv

LEMMA JumpToStep == IInv /\ (\E m \in Id : JumpTo(m)) => IInv'
<1> SUFFICES ASSUME IInv, NEW m \in Id, JumpTo(m) PROVE IInv'
  OBVIOUS
<1>1. ServerOK /\ fetches \subseteq Fetch /\ MemoryOK /\ DiskOK /\ ViewOK
      /\ Sorted /\ Answers /\ Told /\ Marks /\ EndKnown /\ Loads
  BY TypeParts DEF IInv
<1>2. Ask("jump", m) /\ UNCHANGED <<serverVars, events, memoryVars, diskVars, viewVars>>
  BY DEF JumpTo
<1>3. \E f \in Fetch : f.type = "jump" /\ ~f.answered /\ fetches' = fetches \cup {f}
  <2>1. m \in 0..MaxMessages
    BY LimitsHold DEF Id
  <2> QED
    BY <1>1, <1>2, <2>1, AskIs
<1>4. fetches' \subseteq Fetch /\ \A f \in fetches' : f.answered => f \in fetches
  BY <1>1, <1>3
<1>5. Loads'
  BY <1>1, <1>2, <1>3 DEF Loads, memoryVars, viewVars
<1>6. ServerOK' /\ MemoryOK' /\ DiskOK' /\ ViewOK' /\ Sorted' /\ Marks'
  BY <1>1, <1>2 DEF ServerOK, MemoryOK, DiskOK, ViewOK, Sorted, Marks, serverVars, memoryVars, diskVars, viewVars
<1>7. Answers' /\ Told' /\ EndKnown'
  BY <1>1, <1>2, <1>4, AnswersStay, ToldStays, EndStays DEF serverVars, memoryVars
<1> QED
  BY <1>4, <1>5, <1>6, <1>7, TypePartsNext DEF IInv

LEMMA EvictStep == IInv /\ (\E m \in Id : Evict(m)) => IInv'
<1> SUFFICES ASSUME IInv, NEW m \in Id, Evict(m) PROVE IInv'
  OBVIOUS
<1>1. ServerOK /\ fetches \subseteq Fetch /\ MemoryOK /\ DiskOK /\ ViewOK
      /\ Sorted /\ Answers /\ Told /\ Marks /\ EndKnown /\ Loads
  BY TypeParts DEF IInv
<1>2. /\ m \in Range(order) /\ evicted' = evicted \cup {m}
      /\ UNCHANGED <<serverVars, events, fetches, order, listed, fetched, lowest, debounce, diskVars, viewVars>>
  BY DEF Evict
<1>3. MemoryOK'
  BY <1>1, <1>2 DEF MemoryOK
<1>4. ServerOK' /\ fetches' \subseteq Fetch /\ DiskOK' /\ ViewOK' /\ Sorted' /\ Marks' /\ Loads'
  BY <1>1, <1>2 DEF ServerOK, DiskOK, ViewOK, Sorted, Marks, Loads, serverVars, diskVars, viewVars
<1>5. Answers' /\ Told' /\ EndKnown'
  BY <1>1, <1>2, AnswersStay, ToldStays, EndStays DEF serverVars
<1> QED
  BY <1>3, <1>4, <1>5, TypePartsNext DEF IInv

LEMMA RestartStep == IInv /\ Restart => IInv'
<1> SUFFICES ASSUME IInv, Restart PROVE IInv'
  OBVIOUS
<1>1. ServerOK /\ fetches \subseteq Fetch /\ MemoryOK /\ DiskOK /\ ViewOK
      /\ Sorted /\ Answers /\ Told /\ Marks /\ EndKnown /\ Loads
  BY TypeParts DEF IInv
<1>2. /\ losses < MaxLosses /\ losses' = losses + 1 /\ events' = <<>> /\ fetches' = {}
      /\ order' = <<>> /\ evicted' = {} /\ listed' = FALSE /\ fetched' = FALSE
      /\ lowest' = Unknown /\ debounce' = FALSE /\ open' = FALSE /\ view' = <<>> /\ gate' = FALSE
      /\ UNCHANGED <<newest, deleted, diskVars>>
  BY DEF Restart
<1>3. ServerOK'
  BY <1>1, <1>2, MessageStoreAssumption DEF ServerOK, diskVars
<1>4. MemoryOK' /\ ViewOK'
  <2>1. order' \in Seq(Id) /\ Len(order') <= OrderCap /\ evicted' \subseteq Range(order') /\ view' \in Seq(Id)
    BY <1>2, LimitsHold
  <2> QED
    BY <1>2, <2>1, Zenon DEF MemoryOK, ViewOK, Id, Unknown, NoneBelow
<1>5. Sorted' /\ Answers' /\ Loads'
  <2>1. Sorted'
    BY <1>2 DEF Sorted, Rises, OnceEach
  <2>2. Answers'
    BY <1>2 DEF Answers
  <2>3. Loads'
    BY <1>2 DEF Loads
  <2> QED
    BY <2>1, <2>2, <2>3
<1>6. DiskOK' /\ Marks' /\ fetches' \subseteq Fetch
  BY <1>1, <1>2 DEF DiskOK, Marks, diskVars
<1>7. Told'
  BY <1>1, <1>2, ToldStays
<1>8. EndKnown'
  BY <1>2, LimitsHold DEF EndKnown, Unknown, Id
<1> QED
  BY <1>3, <1>4, <1>5, <1>6, <1>7, <1>8, TypePartsNext DEF IInv

LEMMA IdleStep == IInv /\ UNCHANGED vars => IInv'
<1> SUFFICES ASSUME IInv, UNCHANGED vars PROVE IInv'
  OBVIOUS
<1>1. ServerOK /\ fetches \subseteq Fetch /\ MemoryOK /\ DiskOK /\ ViewOK
      /\ Sorted /\ Answers /\ Told /\ Marks /\ EndKnown /\ Loads
  BY TypeParts DEF IInv
<1>2. UNCHANGED <<serverVars, events, fetches, memoryVars, diskVars, viewVars>>
  BY DEF vars
<1>3. ServerOK' /\ fetches' \subseteq Fetch /\ MemoryOK' /\ DiskOK' /\ ViewOK' /\ Sorted' /\ Marks' /\ Loads'
  BY <1>1, <1>2 DEF ServerOK, MemoryOK, DiskOK, ViewOK, Sorted, Marks, Loads, serverVars, memoryVars, diskVars, viewVars
<1>4. Answers' /\ Told' /\ EndKnown'
  BY <1>1, <1>2, AnswersStay, ToldStays, EndStays DEF serverVars, memoryVars
<1> QED
  BY <1>3, <1>4, TypePartsNext DEF IInv

\* Every step keeps the invariant.
LEMMA IInvKept == IInv /\ [Next]_vars => IInv'
BY SrvCreateStep, SrvDeleteStep, SrvAnswerStep, SrvLoseStep, OnCreateStep, OnDeleteStep, OnFetchedStep,
   OnFailedStep, OpenStep, LeaveStep, ScrollUpStep, JumpToStep, EvictStep, RestartStep, IdleStep DEF Next

\* The inductive invariant holds throughout.
THEOREM Invariance == Spec => []IInv
BY IInvAtFirst, IInvKept, PTL DEF Spec

LEMMA IInvSuffices == IInv => Inv /\ EndIsProven
<1> SUFFICES ASSUME IInv PROVE Inv /\ EndIsProven
  OBVIOUS
<1>1. TypeOK /\ Sorted /\ Loads /\ EndKnown
  BY DEF IInv
<1>2. OrderAscending
  <2> SUFFICES ASSUME NEW i \in 1..Len(order), NEW j \in 1..i - 1 PROVE order[j] < order[i]
    BY DEF OrderAscending
  <2>1. order \in Seq(Id) /\ Len(order) \in Nat /\ DOMAIN order = 1..Len(order)
    BY <1>1 DEF TypeOK
  <2>2. j \in 1..Len(order) /\ j < i
    BY <2>1
  <2> QED
    BY <1>1, <2>1, <2>2 DEF Sorted, Rises
<1>3. ShownOnce
  <2>1. DOMAIN view = 1..Len(view)
    BY <1>1 DEF TypeOK
  <2> QED
    BY <1>1, <2>1 DEF ShownOnce, Sorted, OnceEach
<1>4. WaitEnds
  <2> DEFINE loads == {f \in fetches : f.type = "history"}
  <2>1. loads = {} \/ \E f : loads = {f}
    BY <1>1 DEF Loads
  <2>2. Cardinality(loads) <= 1
    <3> HIDE DEF loads
    <3>1. Cardinality(loads) = 0 \/ Cardinality(loads) = 1
      BY <2>1, FS_EmptySet, FS_Singleton, Zenon
    <3> QED
      BY <3>1
  <2>3. (loads # {}) <=> \E f \in fetches : f.type = "history"
    OBVIOUS
  <2> QED
    BY <1>1, <2>2, <2>3 DEF WaitEnds, Loads
<1> QED
  BY <1>1, <1>2, <1>3, <1>4 DEF Inv, EndIsProven, EndKnown

\* The list in memory is ascending, whatever order pages and events come in, no message is
\* shown twice, and the view waits only for a history load that is under way.
THEOREM MessagesSafe == Spec => []Inv
BY Invariance, IInvSuffices, PTL

\* A channel whose end MessageManager believes to know has nothing older on the server.
THEOREM EndProven == Spec => []EndIsProven
BY Invariance, IInvSuffices, PTL

\* A mark on disk is never cleared.
LEMMA TombstonesKept == IInv /\ [Next]_vars => tombs \subseteq tombs'
<1> SUFFICES ASSUME IInv, [Next]_vars PROVE tombs \subseteq tombs'
  OBVIOUS
<1> USE DEF diskVars
<1>1. CASE OnCreate
  BY <1>1, OnCreateStep
<1>2. CASE \E f \in fetches : OnFetched(f)
  BY <1>2, OnFetchedStep
<1>3. CASE OnDelete
  BY <1>3 DEF OnDelete
<1>4. CASE SrvCreate \/ SrvLose \/ Open \/ Leave \/ ScrollUp \/ Restart \/ UNCHANGED vars
  BY <1>4 DEF SrvCreate, SrvLose, Open, Leave, ScrollUp, Restart, vars
<1>5. CASE \E m \in Id : SrvDelete(m) \/ JumpTo(m) \/ Evict(m)
  BY <1>5 DEF SrvDelete, JumpTo, Evict
<1>6. CASE \E f \in fetches : SrvAnswer(f) \/ OnFailed(f)
  BY <1>6 DEF SrvAnswer, OnFailed
<1> QED
  BY <1>1, <1>2, <1>3, <1>4, <1>5, <1>6 DEF Next

LEMMA TombstonesStep == IInv /\ [Next]_vars => [tombs \subseteq tombs' /\ tombs \cap disk' = {}]_vars
<1> SUFFICES ASSUME IInv, [Next]_vars PROVE tombs \subseteq tombs' /\ tombs \cap disk' = {}
  OBVIOUS
<1>1. tombs \subseteq tombs' /\ Marks'
  BY IInvKept, TombstonesKept DEF IInv
<1> QED
  BY <1>1 DEF Marks

\* A deletion the disk recorded is not undone by a page computed before it or by any save.
THEOREM MarksStay == Spec => TombstonesStay
<1>1. Spec => [][tombs \subseteq tombs' /\ tombs \cap disk' = {}]_vars
  BY Invariance, TombstonesStep, PTL DEF Spec
<1> QED
  BY <1>1 DEF TombstonesStay

=============================================================================
