------------------------------ MODULE ListProofs ------------------------------
(***************************************************************************)
(* What is proved of two stores that a scrolling view fills by asking the   *)
(* gateway for parts of a list: ForumUnreads, whose batches ask for the       *)
(* unread counts of posts, and MemberList, which keeps the rows of the        *)
(* blocks it subscribes to.                                                  *)
(*                                                                         *)
(* Both fold over sequences, of threads or of operations, so the facts about  *)
(* folds come first: a fold over finitely many elements exists, and a         *)
(* property of its start that every element keeps holds of its result.        *)
(***************************************************************************)
EXTENDS ForumUnreads, MemberList, FiniteSetTheorems, WellFoundedInduction, TLAPS

\* Every set of naturals that is not empty has a least member.
LEMMA LeastNatural ==
  ASSUME NEW T \in SUBSET Nat, T # {}
  PROVE  \E n \in T : \A m \in T : n <= m
  <1>1. PICK n \in T : \A m \in T : <<m, n>> \notin OpToRel(<, Nat)
    BY WFMin, NatLessThanWellFounded
  <1>2. \A m \in T : ~(m < n)
    BY <1>1, Zenon DEF OpToRel
  <1> QED
    BY <1>2

\* Induction, over a set.
LEMMA AllNaturals ==
  ASSUME NEW T \in SUBSET Nat, 0 \in T, \A k \in Nat : k \in T => k + 1 \in T
  PROVE  T = Nat
  <1> SUFFICES ASSUME Nat \ T # {} PROVE FALSE
    OBVIOUS
  <1>1. PICK n \in Nat \ T : \A m \in Nat \ T : n <= m
    BY LeastNatural
  <1>2. n - 1 \in Nat /\ n - 1 \in T
    BY <1>1
  <1> QED
    BY <1>1, <1>2
-----------------------------------------------------------------------------
(* Folds.  MapThenFoldSet takes a finite set apart, one chosen element at a time. *)

\* c chooses an element of every set of elements of S but the empty one.
Chooses(c, S) == \A I \in SUBSET S : I # {} => c[I] \in I

\* What is left of a set without the chosen element is smaller.
LEMMA Smaller ==
  ASSUME NEW S, IsFiniteSet(S), NEW c, Chooses(c, S), NEW I \in SUBSET S
  PROVE  /\ Cardinality(I) \in Nat /\ (Cardinality(I) = 0 <=> I = {})
         /\ I # {} => /\ c[I] \in S /\ I \ {c[I]} \in SUBSET S
                      /\ Cardinality(I \ {c[I]}) = Cardinality(I) - 1
<1>1. IsFiniteSet(I)
  BY FS_Subset
<1>2. Cardinality(I) \in Nat /\ (Cardinality(I) = 0 <=> I = {})
  BY <1>1, FS_CardinalityType, FS_EmptySet
<1>3. I # {} => c[I] \in I
  BY DEF Chooses
<1>4. I # {} => Cardinality(I \ {c[I]}) = Cardinality(I) - 1
  BY <1>1, <1>3, FS_RemoveElement
<1> QED
  BY <1>2, <1>3, <1>4

\* What holds of the empty set, and of every other if it does without the chosen element.
LEMMA BySubsets ==
  ASSUME NEW S, IsFiniteSet(S), NEW c, Chooses(c, S), NEW G, {} \in G,
         \A I \in SUBSET S : I # {} /\ I \ {c[I]} \in G => I \in G
  PROVE  \A I \in SUBSET S : I \in G
<1> DEFINE T == {k \in Nat : \A I \in SUBSET S : Cardinality(I) = k => I \in G}
<1>1. 0 \in T
  <2>1. ASSUME NEW I \in SUBSET S, Cardinality(I) = 0 PROVE I \in G
    <3>1. I = {}
      BY <2>1, Smaller
    <3> QED
      BY <3>1
  <2> QED
    BY <2>1
<1>2. ASSUME NEW k \in Nat, k \in T PROVE k + 1 \in T
  <2>1. ASSUME NEW I \in SUBSET S, Cardinality(I) = k + 1 PROVE I \in G
    <3>1. I # {} /\ I \ {c[I]} \in SUBSET S /\ Cardinality(I \ {c[I]}) = k
      BY <2>1, Smaller
    <3>2. I \ {c[I]} \in G
      BY <1>2, <3>1
    <3> QED
      BY <3>1, <3>2
  <2> QED
    BY <2>1
<1>3. T = Nat
  <2>1. T \in SUBSET Nat
    OBVIOUS
  <2> HIDE DEF T
  <2> QED
    BY <1>1, <1>2, <2>1, AllNaturals
<1> QED
  BY <1>3, Smaller

\* How a fold goes on with an element, and the functions it may recurse by.
Steps(S, A) == [S \X A -> A]
Folding(S, A, c, base, F) ==
  {f \in [SUBSET S -> A] : \A I \in SUBSET S : f[I] = IF I = {} THEN base ELSE F[<<c[I], f[I \ {c[I]}]>>]}

\* There is one.
LEMMA FoldExists ==
  ASSUME NEW S, IsFiniteSet(S), NEW c, Chooses(c, S),
         NEW A, NEW base \in A, NEW F \in Steps(S, A)
  PROVE  Folding(S, A, c, base, F) # {}
<1> DEFINE Layer(k) == {I \in SUBSET S : Cardinality(I) <= k}
           Rec(f, I) == IF I = {} THEN base ELSE F[<<c[I], f[I \ {c[I]}]>>]
           Good(k) == \E f \in [Layer(k) -> A] : \A I \in Layer(k) : f[I] = Rec(f, I)
           T == {k \in Nat : Good(k)}
<1> USE DEF Steps
<1>1. 0 \in T
  <2>1. Layer(0) = {{}}
    <3>1. ASSUME NEW I \in SUBSET S PROVE Cardinality(I) <= 0 <=> I = {}
      <4>1. Cardinality(I) \in Nat /\ (Cardinality(I) = 0 <=> I = {})
        BY Smaller
      <4> QED
        BY <4>1
    <3> QED
      BY <3>1
  <2> DEFINE f == [I \in {{}} |-> base]
  <2>2. f \in [{{}} -> A] /\ f[{}] = base
    OBVIOUS
  <2> QED
    BY <2>1, <2>2
<1>2. ASSUME NEW k \in Nat, k \in T PROVE k + 1 \in T
  <2>1. PICK f \in [Layer(k) -> A] : \A I \in Layer(k) : f[I] = Rec(f, I)
    BY <1>2
  <2> DEFINE g == [I \in Layer(k + 1) |-> Rec(f, I)]
  <2>2. ASSUME NEW I \in Layer(k + 1), I # {}
        PROVE  I \ {c[I]} \in Layer(k) /\ c[I] \in S
    <3>1. I \in SUBSET S /\ Cardinality(I) <= k + 1
      OBVIOUS
    <3>2. /\ Cardinality(I) \in Nat /\ I \ {c[I]} \in SUBSET S /\ c[I] \in S
          /\ Cardinality(I \ {c[I]}) = Cardinality(I) - 1
      BY <2>2, <3>1, Smaller
    <3> QED
      BY <3>1, <3>2
  <2>3. Layer(k) \subseteq Layer(k + 1)
    <3>1. ASSUME NEW I \in SUBSET S, Cardinality(I) <= k PROVE Cardinality(I) <= k + 1
      <4>1. Cardinality(I) \in Nat
        BY Smaller
      <4> QED
        BY <3>1, <4>1
    <3> QED
      BY <3>1
  <2> HIDE DEF Layer
  <2>4. g \in [Layer(k + 1) -> A]
    <3>1. ASSUME NEW I \in Layer(k + 1) PROVE Rec(f, I) \in A
      <4>1. CASE I = {}
        BY <4>1
      <4>2. CASE I # {}
        <5>1. f[I \ {c[I]}] \in A /\ c[I] \in S
          BY <2>2, <4>2
        <5> QED
          BY <4>2, <5>1
      <4> QED
        BY <4>1, <4>2
    <3> QED
      BY <3>1
  <2>5. \A I \in Layer(k) : g[I] = f[I]
    BY <2>1, <2>3
  <2>6. ASSUME NEW I \in Layer(k + 1) PROVE g[I] = Rec(g, I)
    <3>1. g[I] = Rec(f, I)
      OBVIOUS
    <3> HIDE DEF g
    <3> QED
      BY <2>2, <2>5, <3>1
  <2> HIDE DEF g, Rec
  <2> QED
    BY <2>4, <2>6
<1>3. T = Nat
  <2>1. T \in SUBSET Nat
    OBVIOUS
  <2> HIDE DEF T
  <2> QED
    BY <1>1, <1>2, <2>1, AllNaturals
<1>4. Cardinality(S) \in Nat /\ \A I \in SUBSET S : Cardinality(I) <= Cardinality(S)
  BY FS_CardinalityType, FS_Subset
<1>5. Layer(Cardinality(S)) = SUBSET S
  BY <1>4
<1>6. Good(Cardinality(S))
  BY <1>3, <1>4
<1> QED
  BY <1>5, <1>6 DEF Folding
-----------------------------------------------------------------------------
(* Sequences of threads.                                                    *)

\* A sequence, by its places.
LEMMA SeqIs ==
  ASSUME NEW S, NEW s \in Seq(S)
  PROVE  /\ Len(s) \in Nat /\ DOMAIN s = 1..Len(s) /\ \A i \in 1..Len(s) : s[i] \in S
         /\ \A t : t \in ToSet(s) <=> \E i \in 1..Len(s) : s[i] = t
         /\ ToSet(s) \subseteq S /\ (s = <<>> <=> ToSet(s) = {}) /\ (s = <<>> <=> Len(s) = 0)
<1>1. Len(s) \in Nat /\ DOMAIN s = 1..Len(s) /\ \A i \in 1..Len(s) : s[i] \in S
  OBVIOUS
<1>2. \A t : t \in ToSet(s) <=> \E i \in 1..Len(s) : s[i] = t
  BY <1>1 DEF ToSet
<1>3. s = <<>> <=> Len(s) = 0
  OBVIOUS
<1>4. Len(s) # 0 => s[1] \in ToSet(s)
  BY <1>1, <1>2
<1>5. Len(s) = 0 => ToSet(s) = {}
  BY <1>1, <1>2
<1> QED
  BY <1>1, <1>2, <1>3, <1>4, <1>5

\* It has finitely many members.
LEMMA FiniteSeq ==
  ASSUME NEW S, NEW s \in Seq(S)
  PROVE  IsFiniteSet(ToSet(s))
<1>1. s \in Surjection(1..Len(s), ToSet(s))
  BY SeqIs DEF Surjection
<1>2. IsFiniteSet(1..Len(s))
  BY SeqIs, FS_Interval
<1> QED
  BY <1>1, <1>2, FS_Surjection

\* One more at its end.
LEMMA Appended ==
  ASSUME NEW S, NEW s \in Seq(S), NEW t \in S
  PROVE  Append(s, t) \in Seq(S) /\ ToSet(Append(s, t)) = ToSet(s) \cup {t} /\ Append(s, t) # <<>>
<1>1. /\ Append(s, t) \in Seq(S) /\ Len(Append(s, t)) = Len(s) + 1 /\ Len(s) \in Nat
      /\ \A i \in 1..Len(s) : Append(s, t)[i] = s[i]
      /\ Append(s, t)[Len(s) + 1] = t
  OBVIOUS
<1> DEFINE a == Append(s, t)
<1> HIDE DEF a
<1>2. a \in Seq(S) /\ Len(a) = Len(s) + 1 /\ (\A i \in 1..Len(s) : a[i] = s[i]) /\ a[Len(s) + 1] = t /\ Len(s) \in Nat
  BY <1>1 DEF a
<1>3. ToSet(a) = {a[i] : i \in 1..Len(s) + 1} /\ ToSet(s) = {s[i] : i \in 1..Len(s)}
  BY <1>2 DEF ToSet
<1>4. 1..Len(s) + 1 = 1..Len(s) \cup {Len(s) + 1}
  BY <1>2
<1>5. ToSet(a) = ToSet(s) \cup {t}
  BY <1>2, <1>3, <1>4
<1>6. a # <<>>
  BY <1>2
<1> QED
  BY <1>2, <1>5, <1>6 DEF a

\* The fold over a sequence takes the last of the places left.
LEMMA LastChosen ==
  ASSUME NEW n \in Nat
  PROVE  /\ IsFiniteSet(1..n)
         /\ Chooses([I \in SUBSET (1..n) |-> Max(I)], 1..n)
<1>1. IsFiniteSet(1..n)
  BY FS_Interval
<1>2. ASSUME NEW I \in SUBSET (1..n), I # {} PROVE Max(I) \in I
  <2> DEFINE J == {n - i : i \in I}
  <2>1. J \in SUBSET Nat /\ J # {}
    <3>1. ASSUME NEW i \in I PROVE n - i \in Nat
      OBVIOUS
    <3>2. PICK i \in I : TRUE
      BY <1>2
    <3>3. n - i \in J
      OBVIOUS
    <3> QED
      BY <3>1, <3>3
  <2>2. PICK m \in J : \A j \in J : m <= j
    <3> HIDE DEF J
    <3> QED
      BY <2>1, LeastNatural
  <2>3. PICK i \in I : m = n - i
    OBVIOUS
  <2>4. \A k \in I : i >= k
    <3>1. ASSUME NEW k \in I PROVE i >= k
      <4>1. n - k \in J
        OBVIOUS
      <4> QED
        BY <2>2, <2>3, <4>1
    <3> QED
      BY <3>1
  <2> QED
    BY <2>4 DEF Max
<1> QED
  BY <1>1, <1>2 DEF Chooses
-----------------------------------------------------------------------------
(* The batch.                                                               *)

\* A batch whose markers stand for threads that wait in it or are in T, all of one forum.
BatchOK(b, T) ==
  /\ b \in Batches(Threads) /\ b.requested \subseteq ToSet(b.pending) \cup T
  /\ \A t \in ToSet(b.pending) : Forum(t) = b.forum

\* add: what holds of the batch still does, and no thread asked for is dropped.
LEMMA AddIs ==
  ASSUME NEW T, NEW b, BatchOK(b, T), NEW t \in Threads
  PROVE  /\ BatchOK(Add(b, t), T)
         /\ b.requested \subseteq Add(b, t).requested
         /\ ToSet(b.overflow) \subseteq ToSet(Add(b, t).overflow)
         /\ t \in Add(b, t).requested \/ t \in ToSet(Add(b, t).overflow)
         /\ T = {} => Add(b, t).pending # <<>>
<1> DEFINE a == Add(b, t)
<1>1. b \in Batches(Threads) /\ b.pending \in Seq(Threads) /\ b.overflow \in Seq(Threads)
  BY DEF BatchOK, Batches
<1>2. CASE t \in b.requested
  <2>1. a = b
    BY <1>2 DEF Add
  <2>2. T = {} => ToSet(b.pending) # {}
    BY <1>2 DEF BatchOK
  <2> QED
    BY <1>1, <1>2, <2>1, <2>2, SeqIs
<1>3. CASE t \notin b.requested /\ b.pending # <<>> /\ b.forum # Forum(t)
  <2>1. a = [b EXCEPT !.overflow = Append(@, t)]
    BY <1>3 DEF Add
  <2>2. a \in Batches(Threads)
    <3>1. Append(b.overflow, t) \in Seq(Threads)
      BY <1>1
    <3> HIDE DEF a
    <3> QED
      BY <1>1, <2>1, <3>1 DEF Batches
  <2>3. a.requested = b.requested /\ a.pending = b.pending /\ a.forum = b.forum /\ a.overflow = Append(b.overflow, t)
    BY <1>1, <2>1 DEF Batches
  <2>4. ToSet(a.overflow) = ToSet(b.overflow) \cup {t}
    BY <1>1, <2>3, Appended
  <2> HIDE DEF a
  <2> QED
    BY <1>3, <2>2, <2>3, <2>4 DEF BatchOK, a
<1>4. CASE t \notin b.requested /\ ~(b.pending # <<>> /\ b.forum # Forum(t))
  <2>1. a = [b EXCEPT !.requested = @ \cup {t}, !.pending = Append(@, t), !.forum = Forum(t),
                   !.flushScheduled = TRUE]
    BY <1>4 DEF Add
  <2>5. Forum(t) \in {Forum(u) : u \in Threads}
    OBVIOUS
  <2>2. a \in Batches(Threads)
    <3>1. Append(b.pending, t) \in Seq(Threads)
      BY <1>1
    <3> HIDE DEF a
    <3> QED
      BY <1>1, <2>1, <2>5, <3>1 DEF Batches
  <2>3. a.requested = b.requested \cup {t} /\ a.pending = Append(b.pending, t) /\ a.forum = Forum(t) /\ a.overflow = b.overflow
    BY <1>1, <2>1 DEF Batches
  <2>4. ToSet(a.pending) = ToSet(b.pending) \cup {t} /\ a.pending # <<>>
    BY <1>1, <2>3, Appended
  <2>6. b.pending = <<>> => ToSet(b.pending) = {}
    BY <1>1, SeqIs
  <2> HIDE DEF a
  <2> QED
    BY <1>4, <2>2, <2>3, <2>4, <2>6 DEF BatchOK, a
<1> QED
  BY <1>2, <1>3, <1>4

\* The recursion of the fold in take, over the places of the parked threads.
LEMMA TakenFold ==
  ASSUME NEW b \in Batches(Threads)
  PROVE  LET n == Len(b.overflow)
             base == [b EXCEPT !.flushScheduled = FALSE, !.pending = <<>>, !.overflow = <<>>]
         IN \E f : /\ f[{}] = base
                   /\ \A I \in SUBSET (1..n) : I # {} => f[I] = Add(f[I \ {Max(I)}], b.overflow[Max(I)])
                   /\ Taken(b) = f[1..n]
<1> DEFINE n == Len(b.overflow)
           base == [b EXCEPT !.flushScheduled = FALSE, !.pending = <<>>, !.overflow = <<>>]
           c == [I \in SUBSET (1..n) |-> Max(I)]
           B == Batches(Threads)
           F == [p \in (1..n) \X B |-> Add(p[2], b.overflow[p[1]])]
           Body(f) == [I \in SUBSET (1..n) |-> IF I = {} THEN base ELSE Add(f[I \ {Max(I)}], b.overflow[Max(I)])]
<1>1. b.overflow \in Seq(Threads) /\ n \in Nat /\ DOMAIN b.overflow = 1..n /\ \A i \in 1..n : b.overflow[i] \in Threads
  BY SeqIs DEF Batches
<1>2. base \in B
  <2>1. <<>> \in Seq(Threads)
    OBVIOUS
  <2> QED
    BY <2>1 DEF Batches
<1>3. F \in [(1..n) \X B -> B]
  <2>1. ASSUME NEW a \in B, NEW t \in Threads PROVE Add(a, t) \in B
    <3>1. a.pending \in Seq(Threads) /\ a.overflow \in Seq(Threads)
      BY DEF Batches
    <3>2. Append(a.pending, t) \in Seq(Threads) /\ Append(a.overflow, t) \in Seq(Threads) /\ Forum(t) \in {Forum(u) : u \in Threads}
      BY <3>1
    <3> QED
      BY <3>2 DEF Add, Batches
  <2> HIDE DEF B
  <2> QED
    BY <1>1, <2>1
<1>4. IsFiniteSet(1..n) /\ Chooses(c, 1..n)
  BY <1>1, LastChosen
<1> HIDE DEF B, F, base, n
<1>5. PICK f \in [SUBSET (1..n) -> B] :
         \A I \in SUBSET (1..n) : f[I] = IF I = {} THEN base ELSE F[<<c[I], f[I \ {c[I]}]>>]
  <2> DEFINE S == 1..n
  <2>1. IsFiniteSet(S) /\ Chooses(c, S) /\ F \in Steps(S, B)
    BY <1>3, <1>4 DEF Steps
  <2> HIDE DEF c, S
  <2>2. Folding(S, B, c, base, F) # {}
    BY <1>2, <2>1, FoldExists
  <2> QED
    BY <2>2 DEF S, Folding
<1>6. f = Body(f)
  <2>1. ASSUME NEW I \in SUBSET (1..n), I # {} PROVE f[I] = Add(f[I \ {Max(I)}], b.overflow[Max(I)])
    <3>1. Max(I) \in I /\ c[I] = Max(I)
      BY <1>4, <2>1 DEF Chooses
    <3>2. Max(I) \in 1..n /\ I \ {Max(I)} \in SUBSET (1..n) /\ f[I \ {Max(I)}] \in B
      BY <3>1
    <3>3. <<Max(I), f[I \ {Max(I)}]>> \in (1..n) \X B
      BY <3>2
    <3> QED
      BY <1>5, <2>1, <3>1, <3>3 DEF F
  <2>2. f[{}] = base
    BY <1>5
  <2>3. \A I \in SUBSET (1..n) : f[I] = IF I = {} THEN base ELSE Add(f[I \ {Max(I)}], b.overflow[Max(I)])
    BY <2>1, <2>2
  <2> QED
    BY <2>3
<1> DEFINE g == CHOOSE h : h = Body(h)
<1>7. g = Body(g)
  BY <1>6
<1>8. Taken(b) = g[1..n]
  <2>1. DOMAIN b.overflow = 1..n
    BY <1>1
  <2> QED
    BY <2>1 DEF Taken, FoldLeft, MapThenFoldSet, base
<1> HIDE DEF g
<1>9. g[{}] = base /\ \A I \in SUBSET (1..n) : I # {} => g[I] = Add(g[I \ {Max(I)}], b.overflow[Max(I)])
  <2>1. \A I \in SUBSET (1..n) : g[I] = IF I = {} THEN base ELSE Add(g[I \ {Max(I)}], b.overflow[Max(I)])
    BY <1>7
  <2> QED
    BY <2>1
<1> QED
  BY <1>8, <1>9 DEF n, base

\* take: the parked threads are marked or parked again.
LEMMA TakenIs ==
  ASSUME NEW T, NEW b \in Batches(Threads), b.requested \subseteq T
  PROVE  /\ BatchOK(Taken(b), T)
         /\ b.requested \subseteq Taken(b).requested
         /\ \A t \in ToSet(b.overflow) : t \in Taken(b).requested \/ t \in ToSet(Taken(b).overflow)
         /\ T = {} /\ b.overflow # <<>> => Taken(b).pending # <<>>
<1> DEFINE n == Len(b.overflow)
           base == [b EXCEPT !.flushScheduled = FALSE, !.pending = <<>>, !.overflow = <<>>]
<1>1. PICK f : /\ f[{}] = base
               /\ \A I \in SUBSET (1..n) : I # {} => f[I] = Add(f[I \ {Max(I)}], b.overflow[Max(I)])
               /\ Taken(b) = f[1..n]
  BY TakenFold
<1>2. b.overflow \in Seq(Threads) /\ n \in Nat /\ \A i \in 1..n : b.overflow[i] \in Threads
  BY SeqIs DEF Batches
<1>3. BatchOK(base, T) /\ base.requested = b.requested
  <2>1. <<>> \in Seq(Threads) /\ ToSet(<<>>) = {}
    BY DEF ToSet
  <2>2. base \in Batches(Threads) /\ base.requested = b.requested /\ base.pending = <<>>
    BY <2>1 DEF Batches
  <2> HIDE DEF base
  <2> QED
    BY <2>1, <2>2 DEF BatchOK
<1> DEFINE c == [I \in SUBSET (1..n) |-> Max(I)]
           Done(I) == /\ BatchOK(f[I], T) /\ b.requested \subseteq f[I].requested
                      /\ \A i \in I : b.overflow[i] \in f[I].requested \/ b.overflow[i] \in ToSet(f[I].overflow)
                      /\ T = {} /\ I # {} => f[I].pending # <<>>
           G == {I \in SUBSET (1..n) : Done(I)}
<1> HIDE DEF base, n
<1>4. {} \in G
  BY <1>1, <1>3
<1>5. IsFiniteSet(1..n) /\ Chooses(c, 1..n)
  BY <1>2, LastChosen
<1>6. ASSUME NEW I \in SUBSET (1..n), I # {}, I \ {c[I]} \in G PROVE I \in G
  <2> DEFINE m == Max(I)
             a == f[I \ {m}]
  <2>1. c[I] = m /\ m \in I /\ m \in 1..n
    BY <1>5, <1>6 DEF Chooses
  <2>2. Done(I \ {m})
    BY <1>6, <2>1
  <2>3. f[I] = Add(a, b.overflow[m]) /\ b.overflow[m] \in Threads
    BY <1>1, <1>2, <1>6, <2>1
  <2> HIDE DEF m
  <2>4. BatchOK(a, T) /\ b.requested \subseteq a.requested
        /\ \A i \in I \ {m} : b.overflow[i] \in a.requested \/ b.overflow[i] \in ToSet(a.overflow)
    BY <2>2
  <2> HIDE DEF a
  <2>5. /\ BatchOK(f[I], T) /\ a.requested \subseteq f[I].requested
        /\ ToSet(a.overflow) \subseteq ToSet(f[I].overflow)
        /\ b.overflow[m] \in f[I].requested \/ b.overflow[m] \in ToSet(f[I].overflow)
        /\ T = {} => f[I].pending # <<>>
    BY <2>3, <2>4, AddIs
  <2>6. \A i \in I : i = m \/ i \in I \ {m}
    OBVIOUS
  <2> QED
    BY <2>4, <2>5, <2>6
<1>7. 1..n \in G
  <2> DEFINE S == 1..n
  <2>1. IsFiniteSet(S) /\ Chooses(c, S) /\ \A I \in SUBSET S : I # {} /\ I \ {c[I]} \in G => I \in G
    BY <1>5, <1>6
  <2> HIDE DEF c, G, S
  <2>2. \A I \in SUBSET S : I \in G
    BY <1>4, <2>1, BySubsets
  <2>3. S \in G
    BY <2>2
  <2> QED
    BY <2>3 DEF S
<1>8. \A t \in ToSet(b.overflow) : \E i \in 1..n : b.overflow[i] = t
  BY <1>2, SeqIs DEF n
<1>9. b.overflow # <<>> => 1..n # {}
  <2>1. b.overflow # <<>> => n # 0
    BY <1>2, SeqIs DEF n
  <2>2. n # 0 => 1 \in 1..n
    BY <1>2
  <2> QED
    BY <2>1, <2>2
<1> QED
  BY <1>1, <1>7, <1>8, <1>9

\* What removeAll leaves of a sequence.
LEMMA UnparkedIs ==
  ASSUME NEW S, NEW ts \in Seq(S), NEW t
  PROVE  Unparked(ts, t) \in Seq(S) /\ ToSet(Unparked(ts, t)) = ToSet(ts) \ {t}
<1> DEFINE n == Len(ts)
           c == [I \in SUBSET (1..n) |-> Max(I)]
           Next(r, u) == IF u = t THEN r ELSE Append(r, u)
           F == [p \in (1..n) \X Seq(S) |-> Next(p[2], ts[p[1]])]
           Body(f) == [I \in SUBSET (1..n) |-> IF I = {} THEN <<>> ELSE Next(f[I \ {Max(I)}], ts[Max(I)])]
           g == CHOOSE h : h = Body(h)
           P == 1..n
<1>1. n \in Nat /\ DOMAIN ts = 1..n /\ \A i \in 1..n : ts[i] \in S
  BY SeqIs
<1>2. <<>> \in Seq(S)
  OBVIOUS
<1>3. F \in Steps(P, Seq(S))
  <2>1. ASSUME NEW r \in Seq(S), NEW u \in S PROVE Next(r, u) \in Seq(S)
    BY Appended
  <2> HIDE DEF Next, n
  <2> QED
    BY <1>1, <2>1 DEF Steps
<1>4. IsFiniteSet(P) /\ Chooses(c, P)
  BY <1>1, LastChosen
<1>8. Unparked(ts, t) = g[1..n]
  BY <1>1 DEF Unparked, FoldLeft, MapThenFoldSet
<1> HIDE DEF F, n, Next
<1>5. PICK f : f \in Folding(P, Seq(S), c, <<>>, F)
  <2> HIDE DEF c, P
  <2> QED
    BY <1>2, <1>3, <1>4, FoldExists
<1>6. f = Body(f)
  <2>1. ASSUME NEW I \in SUBSET (1..n), I # {} PROVE f[I] = Next(f[I \ {Max(I)}], ts[Max(I)])
    <3>1. Max(I) \in I /\ c[I] = Max(I)
      BY <1>4, <2>1 DEF Chooses
    <3>2. Max(I) \in 1..n /\ I \ {Max(I)} \in SUBSET (1..n) /\ f[I \ {Max(I)}] \in Seq(S)
      BY <1>5, <3>1 DEF Folding
    <3>3. <<Max(I), f[I \ {Max(I)}]>> \in (1..n) \X Seq(S)
      BY <3>2
    <3> QED
      BY <1>5, <2>1, <3>1, <3>3 DEF F, Folding
  <2>2. \A I \in SUBSET (1..n) : f[I] = IF I = {} THEN <<>> ELSE Next(f[I \ {Max(I)}], ts[Max(I)])
    BY <1>5, <2>1 DEF Folding
  <2> QED
    BY <1>5, <2>2 DEF Folding
<1>7. g = Body(g)
  BY <1>6
<1> HIDE DEF g
<1>9. g[{}] = <<>> /\ \A I \in SUBSET (1..n) : I # {} => g[I] = Next(g[I \ {Max(I)}], ts[Max(I)])
  <2>1. \A I \in SUBSET (1..n) : g[I] = IF I = {} THEN <<>> ELSE Next(g[I \ {Max(I)}], ts[Max(I)])
    BY <1>7
  <2> QED
    BY <2>1
<1> DEFINE G == {I \in SUBSET (1..n) : g[I] \in Seq(S) /\ ToSet(g[I]) = {ts[i] : i \in I} \ {t}}
<1>10. {} \in G
  <2>1. ToSet(<<>>) = {} /\ {ts[i] : i \in {}} = {}
    BY DEF ToSet
  <2> QED
    BY <1>2, <1>9, <2>1
<1>11. ASSUME NEW I \in SUBSET (1..n), I # {}, I \ {c[I]} \in G PROVE I \in G
  <2> DEFINE m == Max(I)
             a == g[I \ {m}]
  <2>1. c[I] = m /\ m \in I /\ m \in 1..n
    BY <1>4, <1>11 DEF Chooses
  <2>2. a \in Seq(S) /\ ToSet(a) = {ts[i] : i \in I \ {m}} \ {t}
    BY <1>11, <2>1
  <2>3. g[I] = Next(a, ts[m]) /\ ts[m] \in S
    BY <1>1, <1>9, <1>11, <2>1
  <2>4. {ts[i] : i \in I} = {ts[i] : i \in I \ {m}} \cup {ts[m]}
    BY <2>1
  <2> HIDE DEF m, a
  <2>5. CASE ts[m] = t
    BY <2>2, <2>3, <2>4, <2>5 DEF Next
  <2>6. CASE ts[m] # t
    <3>1. g[I] = Append(a, ts[m])
      BY <2>3, <2>6 DEF Next
    <3>2. Append(a, ts[m]) \in Seq(S) /\ ToSet(Append(a, ts[m])) = ToSet(a) \cup {ts[m]}
      BY <2>2, <2>3, Appended
    <3> QED
      BY <2>2, <2>4, <2>6, <3>1, <3>2
  <2> QED
    BY <2>5, <2>6
<1>12. P \in G
  <2>1. \A I \in SUBSET P : I # {} /\ I \ {c[I]} \in G => I \in G
    BY <1>11
  <2> HIDE DEF c, G, P
  <2>2. \A I \in SUBSET P : I \in G
    BY <1>4, <1>10, <2>1, BySubsets
  <2> QED
    BY <2>2
<1>13. ToSet(ts) = {ts[i] : i \in 1..n}
  BY <1>1 DEF ToSet
<1> QED
  BY <1>8, <1>12, <1>13

\* What removeOne leaves of a sequence.
LEMMA FirstRemoved ==
  ASSUME NEW S, NEW s \in Seq(S), NEW t
  PROVE  /\ RemoveFirst(s, t) \in Seq(S)
         /\ ToSet(s) \ {t} \subseteq ToSet(RemoveFirst(s, t)) /\ ToSet(RemoveFirst(s, t)) \subseteq ToSet(s)
<1>1. CASE \A i \in 1..Len(s) : s[i] # t
  BY <1>1 DEF RemoveFirst
<1>2. CASE \E i \in 1..Len(s) : s[i] = t
  <2> DEFINE I == {i \in 1..Len(s) : s[i] = t}
             p == SelectInSeq(s, LAMBDA v : v = t)
             a == SubSeq(s, 1, p - 1)
             b == SubSeq(s, p + 1, Len(s))
  <2>1. p = CHOOSE x \in I : \A y \in I : x <= y
    BY <1>2 DEF SelectInSeq, Min
  <2>2. I \in SUBSET Nat /\ I # {}
    BY <1>2
  <2>3. \E x \in I : \A y \in I : x <= y
    <3> HIDE DEF I
    <3> QED
      BY <2>2, LeastNatural
  <2>4. p \in I
    <3> HIDE DEF I, p
    <3> QED
      BY <2>1, <2>3
  <2>5. RemoveFirst(s, t) = a \o b
    BY <1>2 DEF RemoveFirst, RemoveAt
  <2>6. p \in 1..Len(s) /\ s[p] = t /\ Len(s) \in Nat
    BY <2>4
  <2> HIDE DEF p, I
  <2>7. a \in Seq(S) /\ Len(a) = p - 1 /\ \A i \in 1..p - 1 : a[i] = s[i]
    BY <2>6
  <2>8. b \in Seq(S) /\ Len(b) = Len(s) - p /\ \A i \in 1..Len(s) - p : b[i] = s[i + p]
    BY <2>6
  <2> HIDE DEF a, b
  <2>9. a \o b \in Seq(S) /\ Len(a \o b) = Len(s) - 1
    <3>1. a \in Seq(S) /\ b \in Seq(S)
      BY <2>7, <2>8
    <3>2. a \o b \in Seq(S) /\ Len(a \o b) = Len(a) + Len(b)
      BY <3>1
    <3> QED
      BY <2>6, <2>7, <2>8, <3>2
  <2>10. \A i \in 1..p - 1 : (a \o b)[i] = s[i]
    BY <2>6, <2>7, <2>8
  <2>11. ASSUME NEW i \in p + 1..Len(s) PROVE (a \o b)[i - 1] = s[i]
    <3>1. i - 1 - (p - 1) \in 1..Len(s) - p
      BY <2>6
    <3>2. (a \o b)[i - 1] = b[i - 1 - (p - 1)]
      BY <2>6, <2>7, <2>8, <3>1
    <3> QED
      BY <2>6, <2>8, <3>1, <3>2
  <2> DEFINE d == a \o b
  <2> HIDE DEF d
  <2>12. /\ d \in Seq(S) /\ Len(d) = Len(s) - 1
         /\ (\A i \in 1..p - 1 : d[i] = s[i]) /\ \A i \in p + 1..Len(s) : d[i - 1] = s[i]
    BY <2>9, <2>10, <2>11 DEF d
  <2>13. ASSUME NEW i \in 1..Len(s), s[i] # t PROVE s[i] \in ToSet(d)
    <3>1. i < p => i \in 1..Len(d) /\ d[i] = s[i]
      BY <2>6, <2>12
    <3>2. i > p => i - 1 \in 1..Len(d) /\ d[i - 1] = s[i]
      BY <2>6, <2>12
    <3>3. i # p
      BY <2>6, <2>13
    <3> QED
      BY <2>6, <2>12, <3>1, <3>2, <3>3, SeqIs
  <2>14. ASSUME NEW i \in 1..Len(d) PROVE d[i] \in ToSet(s)
    <3>1. i < p => i \in 1..Len(s) /\ d[i] = s[i]
      BY <2>6, <2>12
    <3>2. i >= p => i + 1 \in p + 1..Len(s) /\ d[(i + 1) - 1] = s[i + 1] /\ (i + 1) - 1 = i /\ i + 1 \in 1..Len(s)
      BY <2>6, <2>12
    <3> QED
      BY <2>6, <3>1, <3>2, SeqIs
  <2>15. \A u \in ToSet(s) \ {t} : u \in ToSet(d)
    BY <2>13, SeqIs
  <2>16. \A u \in ToSet(d) : u \in ToSet(s)
    BY <2>12, <2>14, SeqIs
  <2> QED
    BY <2>5, <2>12, <2>15, <2>16 DEF d
<1> QED
  BY <1>1, <1>2

\* forget: the thread is neither marked nor pending any more, and no other is dropped.
LEMMA ForgetIs ==
  ASSUME NEW T, NEW b, BatchOK(b, T), NEW t
  PROVE  /\ BatchOK(Forget(b, t), T)
         /\ Forget(b, t).requested = b.requested \ {t}
         /\ ToSet(Forget(b, t).overflow) = ToSet(b.overflow) \ {t}
<1> DEFINE a == Forget(b, t)
<1>1. b \in Batches(Threads) /\ b.pending \in Seq(Threads) /\ b.overflow \in Seq(Threads)
  BY DEF BatchOK, Batches
<1>2. /\ RemoveFirst(b.pending, t) \in Seq(Threads) /\ Unparked(b.overflow, t) \in Seq(Threads)
      /\ ToSet(b.pending) \ {t} \subseteq ToSet(RemoveFirst(b.pending, t))
      /\ ToSet(RemoveFirst(b.pending, t)) \subseteq ToSet(b.pending)
      /\ ToSet(Unparked(b.overflow, t)) = ToSet(b.overflow) \ {t}
  BY <1>1, FirstRemoved, UnparkedIs
<1>3. /\ a \in Batches(Threads) /\ a.requested = b.requested \ {t} /\ a.forum = b.forum
      /\ a.pending = RemoveFirst(b.pending, t) /\ a.overflow = Unparked(b.overflow, t)
  BY <1>1, <1>2 DEF Forget, Batches
<1> HIDE DEF a
<1> QED
  BY <1>2, <1>3 DEF BatchOK, a

\* onForumUnreads forgets the threads of a reply one by one.
LEMMA ForgetAll ==
  ASSUME NEW T, NEW b, BatchOK(b, T), NEW R, IsFiniteSet(R)
  PROVE  LET a == FoldSet(LAMBDA t, d : Forget(d, t), b, R)
         IN BatchOK(a, T) /\ ToSet(b.overflow) \subseteq ToSet(a.overflow) \cup R
<1> DEFINE a == FoldSet(LAMBDA t, d : Forget(d, t), b, R)
           c == [I \in SUBSET R |-> CHOOSE x \in I : TRUE]
           B == {d \in Batches(Threads) : BatchOK(d, T)}
           F == [p \in R \X B |-> Forget(p[2], p[1])]
           Body(f) == [I \in SUBSET R |-> IF I = {} THEN b
                         ELSE Forget(f[I \ {CHOOSE x \in I : TRUE}], CHOOSE x \in I : TRUE)]
           g == CHOOSE h : h = Body(h)
<1>2. b \in B
  BY DEF BatchOK
<1>3. F \in Steps(R, B)
  <2>1. ASSUME NEW d \in B, NEW t \in R PROVE Forget(d, t) \in B
    <3>1. BatchOK(Forget(d, t), T)
      BY ForgetIs
    <3> QED
      BY <3>1 DEF BatchOK
  <2> HIDE DEF B
  <2> QED
    BY <2>1 DEF Steps
<1>4. Chooses(c, R)
  BY DEF Chooses
<1>8. a = g[R]
  BY DEF FoldSet, MapThenFoldSet
<1> HIDE DEF F, B, a
<1>5. PICK f : f \in Folding(R, B, c, b, F)
  <2> HIDE DEF c
  <2> QED
    BY <1>2, <1>3, <1>4, FoldExists
<1>6. f = Body(f)
  <2>1. ASSUME NEW I \in SUBSET R, I # {} PROVE f[I] = Forget(f[I \ {c[I]}], c[I])
    <3>1. c[I] \in I
      BY <1>4, <2>1 DEF Chooses
    <3> HIDE DEF c
    <3>2. c[I] \in R /\ I \ {c[I]} \in SUBSET R /\ f[I \ {c[I]}] \in B
      BY <1>5, <3>1 DEF Folding
    <3>3. <<c[I], f[I \ {c[I]}]>> \in R \X B
      BY <3>2
    <3> QED
      BY <1>5, <2>1, <3>1, <3>3 DEF F, Folding
  <2>2. \A I \in SUBSET R : f[I] = IF I = {} THEN b ELSE Forget(f[I \ {c[I]}], c[I])
    <3> HIDE DEF c
    <3> QED
      BY <1>5, <2>1 DEF Folding
  <2>3. f = [I \in SUBSET R |-> f[I]]
    BY <1>5 DEF Folding
  <2> QED
    BY <2>2, <2>3
<1>7. g = Body(g)
  BY <1>6
<1> HIDE DEF g
<1>9. g[{}] = b /\ \A I \in SUBSET R : I # {} => g[I] = Forget(g[I \ {c[I]}], c[I])
  <2>1. \A I \in SUBSET R : g[I] = IF I = {} THEN b ELSE Forget(g[I \ {c[I]}], c[I])
    BY <1>7
  <2> QED
    BY <2>1
<1> DEFINE G == {I \in SUBSET R : BatchOK(g[I], T) /\ ToSet(b.overflow) \subseteq ToSet(g[I].overflow) \cup I}
<1> HIDE DEF c
<1>10. {} \in G
  BY <1>9
<1>11. ASSUME NEW I \in SUBSET R, I # {}, I \ {c[I]} \in G PROVE I \in G
  <2> DEFINE d == g[I \ {c[I]}]
  <2>1. c[I] \in I
    BY <1>4, <1>11 DEF Chooses
  <2>2. BatchOK(d, T) /\ ToSet(b.overflow) \subseteq ToSet(d.overflow) \cup (I \ {c[I]})
    BY <1>11
  <2>3. g[I] = Forget(d, c[I])
    BY <1>9, <1>11
  <2> DEFINE x == c[I]
             e == Forget(d, x)
  <2> HIDE DEF d, x
  <2>5. BatchOK(e, T) /\ ToSet(e.overflow) = ToSet(d.overflow) \ {x}
    BY <2>2, ForgetIs
  <2>4. BatchOK(g[I], T) /\ ToSet(g[I].overflow) = ToSet(d.overflow) \ {c[I]}
    BY <2>3, <2>5 DEF x
  <2> QED
    BY <2>1, <2>2, <2>4
<1>12. R \in G
  <2>1. \A I \in SUBSET R : I # {} /\ I \ {c[I]} \in G => I \in G
    BY <1>11
  <2> HIDE DEF G
  <2>3. IsFiniteSet(R)
    OBVIOUS
  <2>2. \A I \in SUBSET R : I \in G
    BY <1>4, <1>10, <2>1, <2>3, BySubsets
  <2> QED
    BY <2>2
<1> QED
  BY <1>8, <1>12 DEF a
-----------------------------------------------------------------------------
(* Requests, and what is handed out.                                        *)

\* A request under way, and what is kept of all of them.
Request == [threads : SUBSET Threads, late : BOOLEAN]
AllLate(rs) == \A i \in 1..Len(rs) : rs[i].late
AllFinite(rs) == \A i \in 1..Len(rs) : IsFiniteSet(rs[i].threads)
OneForum(T) == \A t, u \in T : Forum(t) = Forum(u)
Attributed(rs, T) ==
  \A i \in 1..Len(rs) : ~rs[i].late => rs[i].threads = T /\ i = Len(rs) /\ OneForum(T)

\* A request less, or one more.
LEMMA TailIs ==
  ASSUME NEW rs \in Seq(Request), rs # <<>>, AllFinite(rs)
  PROVE  /\ Tail(rs) \in Seq(Request) /\ AllFinite(Tail(rs))
         /\ AllLate(rs) => AllLate(Tail(rs))
         /\ \A T : Attributed(rs, T) => Attributed(Tail(rs), T)
         /\ \A T : Attributed(rs, T) /\ ~rs[1].late => Tail(rs) = <<>>
         /\ rs[1] \in Request /\ IsFiniteSet(rs[1].threads) /\ Head(rs) = rs[1]
<1> DEFINE r == Tail(rs)
<1>1. Len(rs) \in Nat /\ Len(rs) >= 1 /\ Head(rs) = rs[1] /\ rs[1] \in Request
  BY SeqIs
<1>2. r \in Seq(Request) /\ Len(r) = Len(rs) - 1 /\ \A i \in 1..Len(r) : r[i] = rs[i + 1]
  BY <1>1
<1> HIDE DEF r
<1>3. \A i \in 1..Len(r) : i + 1 \in 1..Len(rs) /\ r[i] = rs[i + 1]
  BY <1>1, <1>2
<1>4. AllFinite(r) /\ (AllLate(rs) => AllLate(r)) /\ IsFiniteSet(rs[1].threads)
  BY <1>1, <1>2, <1>3, SMTT(30) DEF AllFinite, AllLate
<1>5. ASSUME NEW T, Attributed(rs, T) PROVE Attributed(r, T)
  <2>1. ASSUME NEW i \in 1..Len(r), ~r[i].late PROVE r[i].threads = T /\ i = Len(r) /\ OneForum(T)
    <3>1. rs[i + 1].threads = T /\ i + 1 = Len(rs) /\ OneForum(T)
      BY <1>3, <1>5, <2>1 DEF Attributed
    <3> QED
      BY <1>1, <1>2, <1>3, <3>1
  <2> QED
    BY <2>1 DEF Attributed
<1>6. ASSUME NEW T, Attributed(rs, T), ~rs[1].late PROVE r = <<>>
  <2>1. Len(rs) = 1
    <3>1. 1 \in 1..Len(rs)
      BY <1>1
    <3> QED
      BY <1>6, <3>1 DEF Attributed
  <2> QED
    BY <1>2, <2>1, SeqIs
<1> QED
  BY <1>1, <1>2, <1>4, <1>5, <1>6 DEF r

\* What is kept of the requests is kept with one more.
LEMMA AppendIs ==
  ASSUME NEW rs \in Seq(Request), AllFinite(rs), NEW T \in SUBSET Threads, IsFiniteSet(T), OneForum(T)
  PROVE  LET r == Append(rs, [threads |-> T, late |-> FALSE])
         IN r \in Seq(Request) /\ AllFinite(r) /\ (AllLate(rs) => Attributed(r, T))
<1> DEFINE e == [threads |-> T, late |-> FALSE]
           r == Append(rs, e)
<1>1. e \in Request /\ e.threads = T
  BY DEF Request
<1> HIDE DEF e
<1>2. /\ r \in Seq(Request) /\ Len(r) = Len(rs) + 1 /\ Len(rs) \in Nat /\ r[Len(rs) + 1] = e
      /\ \A i \in 1..Len(rs) : r[i] = rs[i]
  BY <1>1
<1> HIDE DEF r
<1>3. \A i \in 1..Len(r) : i \in 1..Len(rs) \/ (i = Len(r) /\ r[i] = e)
  BY <1>2
<1>4. AllFinite(r)
  BY <1>1, <1>2, <1>3 DEF AllFinite
<1>5. AllLate(rs) => Attributed(r, T)
  BY <1>1, <1>2, <1>3 DEF AllLate, Attributed
<1> QED
  BY <1>2, <1>4, <1>5 DEF r, e

\* What releasing the threads taken leaves, and what is handed out of it.
LEMMA FlushedIs ==
  ASSUME NEW T, NEW b, BatchOK(b, T), NEW rs \in Seq(Request), AllFinite(rs)
  PROVE  LET r == Flushed(b, T, rs)
         IN /\ BatchOK(r.batch, r.taken) /\ r.taken \in SUBSET Threads
            /\ ToSet(b.overflow) \subseteq r.batch.requested \cup ToSet(r.batch.overflow)
            /\ r.requests \in Seq(Request) /\ AllFinite(r.requests)
            /\ AllLate(rs) => Attributed(r.requests, r.taken) /\ (r.taken = {} => AllLate(r.requests))
<1> DEFINE free == Release(b, T)
           next == IF free.pending = <<>> THEN Taken(free) ELSE free
           left == IF Len(rs) < MaxRequests THEN rs ELSE Tail(rs)
           r == Flushed(b, T, rs)
           P == ToSet(next.pending)
<1>1. b \in Batches(Threads) /\ b.pending \in Seq(Threads) /\ b.overflow \in Seq(Threads)
  BY DEF BatchOK, Batches
<1>2. /\ free \in Batches(Threads) /\ free.requested = b.requested \ T /\ free.pending = b.pending
      /\ free.overflow = b.overflow /\ free.forum = b.forum
  BY <1>1 DEF Release, Batches
<1>3. left \in Seq(Request) /\ AllFinite(left) /\ (AllLate(rs) => AllLate(left))
  <2>1. CASE Len(rs) < MaxRequests
    BY <2>1
  <2>2. CASE ~(Len(rs) < MaxRequests)
    <3>1. rs # <<>>
      BY <2>2, ForumUnreadsAssumption
    <3> QED
      BY <2>2, <3>1, TailIs
  <2> QED
    BY <2>1, <2>2
<1>4. r = IF HasPending(free)
          THEN [batch |-> Taken(next), taken |-> P, requests |-> Append(left, [threads |-> P, late |-> FALSE])]
          ELSE [batch |-> free, taken |-> {}, requests |-> left]
  BY DEF Flushed
<1> HIDE DEF free, left, r
<1>5. BatchOK(free, {})
  BY <1>2 DEF BatchOK
<1>6. CASE ~HasPending(free)
  <2>1. r.batch = free /\ r.taken = {} /\ r.requests = left
    BY <1>4, <1>6
  <2>2. ToSet(b.overflow) = {}
    BY <1>1, <1>2, <1>6, SeqIs DEF HasPending
  <2>3. AllLate(left) => Attributed(left, {})
    BY DEF AllLate, Attributed
  <2> QED
    BY <1>3, <1>5, <2>1, <2>2, <2>3 DEF r
<1>7. CASE HasPending(free)
  <2>1. /\ BatchOK(next, {}) /\ next.pending # <<>>
        /\ ToSet(b.overflow) \subseteq next.requested \cup ToSet(next.overflow)
    <3>1. CASE free.pending = <<>>
      <4>1. free.requested = {}
        BY <1>5, <3>1 DEF BatchOK, ToSet
      <4>2. free.overflow # <<>>
        BY <1>7, <3>1 DEF HasPending
      <4>3. /\ BatchOK(Taken(free), {}) /\ Taken(free).pending # <<>>
            /\ \A t \in ToSet(free.overflow) : t \in Taken(free).requested \/ t \in ToSet(Taken(free).overflow)
        BY <1>2, <4>1, <4>2, TakenIs
      <4> QED
        BY <1>2, <3>1, <4>3
    <3>2. CASE free.pending # <<>>
      BY <1>2, <1>5, <3>2
    <3> QED
      BY <3>1, <3>2
  <2> HIDE DEF next
  <2>2. next \in Batches(Threads) /\ next.requested \subseteq P /\ next.pending \in Seq(Threads) /\ \A t \in P : Forum(t) = next.forum
    BY <2>1 DEF BatchOK, Batches
  <2>3. P \in SUBSET Threads /\ IsFiniteSet(P) /\ P # {}
    BY <2>1, <2>2, SeqIs, FiniteSeq
  <2>4. OneForum(P)
    BY <2>2 DEF OneForum
  <2> HIDE DEF P
  <2>5. /\ BatchOK(Taken(next), P) /\ next.requested \subseteq Taken(next).requested
        /\ \A t \in ToSet(next.overflow) : t \in Taken(next).requested \/ t \in ToSet(Taken(next).overflow)
    BY <2>2, TakenIs
  <2> DEFINE e == Append(left, [threads |-> P, late |-> FALSE])
  <2>6. e \in Seq(Request) /\ AllFinite(e) /\ (AllLate(left) => Attributed(e, P))
    BY <1>3, <2>3, <2>4, AppendIs
  <2> HIDE DEF e
  <2>7. r.batch = Taken(next) /\ r.taken = P /\ r.requests = e
    BY <1>4, <1>7 DEF e
  <2> QED
    BY <1>3, <2>1, <2>3, <2>5, <2>6, <2>7 DEF r
<1> QED
  BY <1>6, <1>7

\* While no reply came after its time, a request that is not given up is of the threads taken.
GivenUp == ~mixed /\ (taken = {} \/ due) => AllLate(requests)

\* The inductive invariant: what the run checks, and what the batch and the requests are made of.
ForumIInv ==
  /\ ForumTypeOK /\ BatchOK(batch, taken) /\ AllFinite(requests)
  /\ ~mixed => Attributed(requests, taken)
  /\ GivenUp

\* A flush: the requests stay attributed, and the markers stand for what is asked.
LEMMA BecomesIs ==
  ASSUME ForumTypeOK, NEW T, NEW b, BatchOK(b, T), NEW rs \in Seq(Request), AllFinite(rs),
         ~mixed' => AllLate(rs), Becomes(Flushed(b, T, rs)),
         counts' \subseteq Threads, timers' \in 0..MaxTimers, mixed' \in BOOLEAN
  PROVE  /\ ForumIInv'
         /\ ToSet(b.overflow) \subseteq batch'.requested \cup ToSet(batch'.overflow)
<1> DEFINE r == Flushed(b, T, rs)
<1>1. /\ BatchOK(r.batch, r.taken) /\ r.taken \in SUBSET Threads
      /\ ToSet(b.overflow) \subseteq r.batch.requested \cup ToSet(r.batch.overflow)
      /\ r.requests \in Seq(Request) /\ AllFinite(r.requests)
      /\ AllLate(rs) => Attributed(r.requests, r.taken) /\ (r.taken = {} => AllLate(r.requests))
  BY FlushedIs
<1>2. /\ batch' = r.batch /\ taken' = r.taken /\ requests' = r.requests /\ due' = FALSE
      /\ jammed' = (jammed \/ (r.batch.flushScheduled /\ ~HasPending(r.batch) /\ timers' = 0))
  BY DEF Becomes
<1> HIDE DEF r
<1>3. jammed' \in BOOLEAN
  <2>1. r.batch.flushScheduled \in BOOLEAN
    BY <1>1 DEF BatchOK, Batches
  <2>2. jammed \in BOOLEAN
    BY DEF ForumTypeOK
  <2> QED
    BY <1>2, <2>1, <2>2, Zenon
<1>4. ForumTypeOK'
  <2>1. batch' \in Batches(Threads)
    BY <1>1, <1>2 DEF BatchOK
  <2> QED
    BY <1>1, <1>2, <1>3, <2>1 DEF ForumTypeOK, Request
<1>5. BatchOK(batch, taken)'
  BY <1>1, <1>2 DEF BatchOK
<1>6. AllFinite(requests)' /\ (~mixed' => Attributed(requests, taken)') /\ GivenUp'
  <2>1. AllFinite(requests')
    BY <1>1, <1>2
  <2>2. ~mixed' => Attributed(requests', taken') /\ (taken' = {} => AllLate(requests'))
    BY <1>1, <1>2
  <2> QED
    BY <1>2, <2>1, <2>2 DEF GivenUp, AllFinite, Attributed, AllLate
<1> QED
  BY <1>1, <1>2, <1>4, <1>5, <1>6 DEF ForumIInv

\* The first state.
LEMMA InitForum == ForumInit => ForumIInv
<1> SUFFICES ASSUME ForumInit PROVE ForumIInv
  OBVIOUS
<1>1. PICK t \in Threads : batch = EmptyBatch(Forum(t))
  BY DEF ForumInit
<1>2. Forum(t) \in {Forum(u) : u \in Threads} /\ <<>> \in Seq(Threads) /\ <<>> \in Seq(Request) /\ ToSet(<<>>) = {}
  BY DEF ToSet
<1>3. batch \in Batches(Threads) /\ batch.requested = {} /\ batch.pending = <<>>
  BY <1>1, <1>2 DEF EmptyBatch, Batches
<1>4. ForumTypeOK
  <2>1. 0 \in 0..MaxTimers
    BY ForumUnreadsAssumption
  <2> QED
    BY <1>2, <1>3, <2>1 DEF ForumTypeOK, ForumInit, Request
<1>5. BatchOK(batch, taken)
  BY <1>2, <1>3 DEF BatchOK
<1> QED
  BY <1>4, <1>5 DEF ForumIInv, ForumInit, AllFinite, Attributed, GivenUp, AllLate

\* What a step leaves of a parked thread.
Keeps == \A t \in ToSet(batch.overflow) \ ToSet(batch.overflow') :
           t \in batch'.requested \/ OnForget(t) \/ t \in counts'

\* Every step keeps the invariant and the parked threads.
LEMMA ForumStep == ForumIInv /\ [ForumNext]_forumVars => ForumIInv' /\ [Keeps]_forumVars
<1> SUFFICES ASSUME ForumIInv, [ForumNext]_forumVars PROVE ForumIInv' /\ [Keeps]_forumVars
  OBVIOUS
<1> USE DEF ForumIInv
<1>1. /\ counts \subseteq Threads /\ taken \subseteq Threads /\ due \in BOOLEAN /\ timers \in 0..MaxTimers
      /\ mixed \in BOOLEAN /\ jammed \in BOOLEAN /\ requests \in Seq(Request) /\ batch \in Batches(Threads)
      /\ DOMAIN requests = 1..Len(requests) /\ MaxTimers \in Nat
  BY SeqIs, ForumUnreadsAssumption DEF ForumTypeOK, Request
<1>2. batch.overflow \in Seq(Threads) /\ batch.pending \in Seq(Threads)
  BY <1>1 DEF Batches
<1>3. CASE FlushUnreadRequests
  <2>1. timers' \in 0..MaxTimers /\ counts' = counts /\ mixed' = mixed
    BY <1>1, <1>3 DEF FlushUnreadRequests
  <2>2. CASE Waits
    <3>1. UNCHANGED <<batch, taken, due, requests, jammed>>
      BY <1>3, <2>2 DEF FlushUnreadRequests
    <3> QED
      BY <2>1, <3>1 DEF ForumTypeOK, BatchOK, AllFinite, Attributed, GivenUp, AllLate, Keeps
  <2>3. CASE ~Waits
    <3>1. Becomes(Flushed(batch, taken, requests))
      BY <1>3, <2>3 DEF FlushUnreadRequests
    <3>2. ~mixed' => AllLate(requests)
      BY <2>1, <2>3 DEF Waits, GivenUp
    <3>3. ForumIInv' /\ ToSet(batch.overflow) \subseteq batch'.requested \cup ToSet(batch'.overflow)
      BY <1>1, <2>1, <3>1, <3>2, BecomesIs
    <3> QED
      BY <3>3 DEF Keeps
  <2> QED
    BY <2>2, <2>3
<1>4. CASE Elapse
  <2>1. /\ taken # {} /\ ~due /\ due' = TRUE /\ requests' = Late(requests)
        /\ UNCHANGED <<counts, batch, taken, timers, mixed, jammed>>
    BY <1>4 DEF Elapse
  <2> DEFINE rs == Late(requests)
  <2>2. /\ rs \in Seq(Request) /\ Len(rs) = Len(requests)
        /\ \A i \in 1..Len(requests) : rs[i].late /\ rs[i].threads = requests[i].threads
    <3>1. ASSUME NEW i \in 1..Len(requests) PROVE [requests[i] EXCEPT !.late = TRUE] \in Request
      <4>1. requests[i] \in Request
        BY <1>1, SeqIs
      <4> QED
        BY <4>1 DEF Request
    <3>2. rs = [i \in 1..Len(requests) |-> [requests[i] EXCEPT !.late = TRUE]]
      BY <1>1 DEF Late
    <3>3. \A i \in 1..Len(requests) : requests[i] \in Request
      BY <1>1, SeqIs
    <3> HIDE DEF rs
    <3>4. rs \in Seq(Request) /\ Len(rs) = Len(requests)
      BY <1>1, <3>1, <3>2
    <3> QED
      BY <3>2, <3>3, <3>4 DEF Request
  <2> HIDE DEF rs
  <2>3. requests' = rs
    BY <2>1 DEF rs
  <2>4. AllLate(rs) /\ AllFinite(rs) /\ Attributed(rs, taken)
    BY <2>2 DEF AllLate, AllFinite, Attributed
  <2>5. ForumTypeOK'
    BY <2>1, <2>2, <2>3 DEF ForumTypeOK, Request
  <2>6. BatchOK(batch, taken)' /\ Keeps
    BY <2>1 DEF BatchOK, Keeps
  <2>7. (AllFinite(requests) /\ AllLate(requests) /\ Attributed(requests, taken))'
    BY <2>1, <2>3, <2>4 DEF AllLate, AllFinite, Attributed
  <2> QED
    BY <2>5, <2>6, <2>7 DEF GivenUp
<1>5. CASE OnUnreadReplyTimeout
  <2>1. timers' = timers /\ counts' = counts /\ mixed' = mixed /\ due /\ Becomes(Flushed(batch, taken, requests))
    BY <1>5 DEF OnUnreadReplyTimeout
  <2>2. ~mixed' => AllLate(requests)
    BY <2>1 DEF GivenUp
  <2>3. ForumIInv' /\ ToSet(batch.overflow) \subseteq batch'.requested \cup ToSet(batch'.overflow)
    BY <1>1, <2>1, <2>2, BecomesIs
  <2> QED
    BY <2>3 DEF Keeps
<1>6. CASE SrvDrops
  <2>1. requests # <<>> /\ requests' = Tail(requests) /\ UNCHANGED <<counts, batch, taken, due, timers, mixed, jammed>>
    BY <1>6 DEF SrvDrops
  <2>2. /\ Tail(requests) \in Seq(Request) /\ AllFinite(Tail(requests))
        /\ AllLate(requests) => AllLate(Tail(requests))
        /\ Attributed(requests, taken) => Attributed(Tail(requests), taken)
    BY <1>1, <2>1, TailIs
  <2>3. ForumTypeOK'
    BY <2>1, <2>2 DEF ForumTypeOK, Request
  <2>4. BatchOK(batch, taken)' /\ Keeps
    BY <2>1 DEF BatchOK, Keeps
  <2>5. AllFinite(requests)' /\ (AllLate(requests) => AllLate(requests)') /\ (Attributed(requests, taken) => Attributed(requests, taken)')
    <3> DEFINE rs == Tail(requests)
    <3>1. requests' = rs /\ AllFinite(rs) /\ (AllLate(requests) => AllLate(rs)) /\ (Attributed(requests, taken) => Attributed(rs, taken))
      BY <2>1, <2>2
    <3> HIDE DEF rs
    <3> QED
      BY <2>1, <3>1 DEF AllLate, AllFinite, Attributed
  <2> QED
    BY <2>1, <2>3, <2>4, <2>5 DEF GivenUp
<1>7. ASSUME NEW t \in Threads, EnsureUnreadCount(t) PROVE ForumIInv' /\ [Keeps]_forumVars
  <2>1. /\ batch' = Add(batch, t)
        /\ timers' = (IF Schedules(batch, t) THEN timers + 1 ELSE timers) /\ (Schedules(batch, t) => timers < MaxTimers)
        /\ UNCHANGED <<counts, taken, due, requests, mixed, jammed>>
    BY <1>7 DEF EnsureUnreadCount
  <2>2. BatchOK(Add(batch, t), taken) /\ ToSet(batch.overflow) \subseteq ToSet(Add(batch, t).overflow)
    BY AddIs
  <2>3. timers' \in 0..MaxTimers
    BY <1>1, <2>1
  <2>4. BatchOK(batch, taken)' /\ Keeps
    <3> DEFINE b == Add(batch, t)
    <3>1. batch' = b /\ BatchOK(b, taken) /\ ToSet(batch.overflow) \subseteq ToSet(b.overflow)
      BY <2>1, <2>2
    <3> HIDE DEF b
    <3> QED
      BY <2>1, <3>1 DEF BatchOK, Keeps
  <2>5. ForumTypeOK'
    BY <2>1, <2>3, <2>4 DEF ForumTypeOK, BatchOK
  <2> QED
    BY <2>1, <2>4, <2>5 DEF GivenUp, AllFinite, AllLate, Attributed
<1>8. ASSUME NEW t \in Threads, OnForget(t) PROVE ForumIInv' /\ [Keeps]_forumVars
  <2>1. counts' = counts \ {t} /\ batch' = Forget(batch, t) /\ UNCHANGED <<taken, due, timers, requests, mixed, jammed>>
    BY <1>8 DEF OnForget
  <2>2. BatchOK(Forget(batch, t), taken) /\ ToSet(Forget(batch, t).overflow) = ToSet(batch.overflow) \ {t}
    BY ForgetIs
  <2>3. BatchOK(batch, taken)' /\ Keeps
    <3> DEFINE b == Forget(batch, t)
    <3>1. batch' = b /\ BatchOK(b, taken) /\ ToSet(b.overflow) = ToSet(batch.overflow) \ {t}
      BY <2>1, <2>2
    <3> HIDE DEF b
    <3>2. BatchOK(batch, taken)'
      BY <2>1, <3>1 DEF BatchOK
    <3>3. \A u \in ToSet(batch.overflow) \ ToSet(batch'.overflow) : u = t
      BY <3>1
    <3> QED
      BY <1>8, <3>2, <3>3 DEF Keeps
  <2>4. ForumTypeOK'
    BY <2>1, <2>3 DEF ForumTypeOK, BatchOK
  <2> QED
    BY <2>1, <2>3, <2>4 DEF GivenUp, AllFinite, AllLate, Attributed
<1>9. ASSUME NEW R \in SUBSET Threads, OnForumUnreads(R) PROVE ForumIInv' /\ [Keeps]_forumVars
  <2> DEFINE free == Release(batch, taken)
             b == FoldSet(LAMBDA t, c : Forget(c, t), free, R)
             rs == Tail(requests)
  <2>1. /\ requests # <<>> /\ R \subseteq Head(requests).threads /\ timers' = timers
        /\ Becomes(Flushed(b, {}, rs)) /\ counts' = counts \cup R /\ mixed' = (mixed \/ Head(requests).late)
    BY <1>9 DEF OnForumUnreads, Released
  <2>2. /\ rs \in Seq(Request) /\ AllFinite(rs) /\ Head(requests) \in Request /\ IsFiniteSet(Head(requests).threads)
        /\ Attributed(requests, taken) /\ ~Head(requests).late => rs = <<>>
    BY <1>1, <2>1, TailIs
  <2>3. IsFiniteSet(R)
    BY <2>1, <2>2, FS_Subset
  <2>4. BatchOK(free, {}) /\ free.overflow = batch.overflow
    BY <1>1 DEF Release, Batches, BatchOK
  <2> HIDE DEF free
  <2>5. BatchOK(b, {}) /\ ToSet(batch.overflow) \subseteq ToSet(b.overflow) \cup R
    BY <2>3, <2>4, ForgetAll
  <2>6. mixed' \in BOOLEAN
    <3>1. Head(requests).late \in BOOLEAN
      BY <2>2 DEF Request
    <3> QED
      BY <1>1, <2>1, <3>1, Zenon
  <2>7. ~mixed' => AllLate(rs)
    <3>1. ~mixed' => rs = <<>>
      BY <2>1, <2>2
    <3>2. AllLate(<<>>)
      BY DEF AllLate
    <3> QED
      BY <3>1, <3>2
  <2>8. counts' \subseteq Threads /\ timers' \in 0..MaxTimers
    BY <1>1, <2>1
  <2> HIDE DEF b, rs
  <2>9. ForumIInv' /\ ToSet(b.overflow) \subseteq batch'.requested \cup ToSet(batch'.overflow)
    BY <2>1, <2>2, <2>5, <2>6, <2>7, <2>8, BecomesIs
  <2>10. Keeps
    BY <2>1, <2>5, <2>9 DEF Keeps
  <2> QED
    BY <2>9, <2>10
<1>10. CASE UNCHANGED forumVars
  BY <1>10 DEF forumVars, ForumTypeOK, BatchOK, AllFinite, AllLate, Attributed, GivenUp
<1> QED
  BY <1>3, <1>4, <1>5, <1>6, <1>7, <1>8, <1>9, <1>10 DEF ForumNext

\* The types, the finite bounds of the batch and what its markers stand for (ForumIInv), for
\* any forums, threads and bounds.
THEOREM ForumInvariance == ForumSpec => []ForumIInv
BY InitForum, ForumStep, PTL DEF ForumSpec

\* The replies to an unread batch are attributed to its forum, whatever was added or timed
\* out meanwhile, and a thread is marked as asked for only while its answer is still to come:
\* none is left out for ever (the overflow queue and the timer of RequestBatch).
THEOREM MarkersKept == ForumSpec => []MarkersTrue
<1>1. ForumIInv => MarkersTrue
  <2> SUFFICES ASSUME ForumIInv PROVE MarkersTrue
    OBVIOUS
  <2>1. NoMarkerLeaks
    BY DEF ForumIInv, BatchOK, NoMarkerLeaks
  <2>2. requests \in Seq(Request) /\ DOMAIN requests = 1..Len(requests)
    BY SeqIs DEF ForumIInv, ForumTypeOK, Request
  <2>3. RepliesAttributed
    BY <2>2 DEF ForumIInv, RepliesAttributed, Attributed, OneForum
  <2> QED
    BY <2>1, <2>3 DEF MarkersTrue, ForumIInv
<1> QED
  BY <1>1, ForumInvariance, PTL

\* A thread parked in the overflow leaves it only for the batch, or because it was forgotten
\* or has its count.
THEOREM ParkedStay == ForumSpec => ParkedKept
<1>1. ForumIInv /\ [ForumNext]_forumVars => [Keeps]_forumVars
  BY ForumStep
<1>2. [Keeps]_forumVars <=> [\A t \in ToSet(batch.overflow) \ ToSet(batch.overflow') :
           t \in batch'.requested \/ OnForget(t) \/ t \in counts']_forumVars
  BY DEF Keeps
<1> QED
  BY <1>1, <1>2, ForumInvariance, PTL DEF ForumSpec, ParkedKept
-----------------------------------------------------------------------------
(* Folds over sequences.  The places are taken from the last to the first.  *)

\* The values a fold of F over n places goes through, a function that computes them by
\* recursion, and the result.
Chains(n, A, base, F) ==
  {h \in [0..n -> A] : h[0] = base /\ \A k \in 1..n : h[k] = F[<<k, h[k - 1]>>]}
Running(n, A, base, F) ==
  {f \in [SUBSET (1..n) -> A] :
     /\ f[{}] = base
     /\ \A I \in SUBSET (1..n) : I # {} =>
          /\ Max(I) \in 1..n /\ f[I \ {Max(I)}] \in A
          /\ f[I] = F[<<Max(I), f[I \ {Max(I)}]>>]}
SameSteps(n, A, F, G) == \A k \in 1..n : \A a \in A : F[<<k, a>>] = G[<<k, a>>]
FoldIs(n, A, base, F, x) == \E h \in Chains(n, A, base, F) : x = h[n]

\* There is a function for the recursion of FoldLeft.
LEMMA Runs ==
  ASSUME NEW n \in Nat, NEW A, NEW base \in A, NEW F \in Steps(1..n, A)
  PROVE  \E f : f \in Running(n, A, base, F)
<1> DEFINE S == 1..n
           c == [I \in SUBSET S |-> Max(I)]
<1>1. IsFiniteSet(S) /\ Chooses(c, S)
  BY LastChosen
<1>2. ASSUME NEW I \in SUBSET S, I # {} PROVE c[I] = Max(I) /\ Max(I) \in S
  BY <1>1, <1>2 DEF Chooses
<1> HIDE DEF c, S
<1>3. PICK f \in Folding(S, A, c, base, F) : TRUE
  <2>1. F \in Steps(S, A)
    BY DEF S
  <2> QED
    BY <1>1, <2>1, FoldExists
<1>4. f \in [SUBSET S -> A] /\ f[{}] = base
  BY <1>3 DEF Folding
<1>5. ASSUME NEW I \in SUBSET S, I # {}
      PROVE  /\ Max(I) \in S /\ f[I \ {Max(I)}] \in A
             /\ f[I] = F[<<Max(I), f[I \ {Max(I)}]>>]
  <2>1. I \ {Max(I)} \in SUBSET S
    OBVIOUS
  <2> QED
    BY <1>2, <1>3, <1>4, <1>5, <2>1 DEF Folding
<1> QED
  BY <1>4, <1>5 DEF S, Running

\* What the recursion computes is the last value of a chain.
LEMMA RunsToEnd ==
  ASSUME NEW n \in Nat, NEW A, NEW base \in A, NEW F \in Steps(1..n, A), NEW g, g[{}] = base,
         \A I \in SUBSET (1..n) : I # {} /\ Max(I) \in 1..n /\ g[I \ {Max(I)}] \in A =>
           g[I] = F[<<Max(I), g[I \ {Max(I)}]>>]
  PROVE  FoldIs(n, A, base, F, g[1..n])
<1> DEFINE h == [k \in 0..n |-> g[1..k]]
           T == {k \in Nat : k <= n => g[1..k] \in A}
<1>1. ASSUME NEW k \in 1..n, g[1..k - 1] \in A
      PROVE  g[1..k] = F[<<k, g[1..k - 1]>>] /\ g[1..k] \in A
  <2>1. 1..k \in SUBSET (1..n) /\ 1..k # {}
    OBVIOUS
  <2>2. Max(1..k) = k
    BY DEF Max
  <2>3. (1..k) \ {k} = 1..k - 1
    OBVIOUS
  <2>4. g[1..k] = F[<<k, g[1..k - 1]>>]
    BY <1>1, <2>1, <2>2, <2>3
  <2>5. <<k, g[1..k - 1]>> \in (1..n) \X A
    BY <1>1
  <2> QED
    BY <2>4, <2>5 DEF Steps
<1>2. 1..0 = {}
  OBVIOUS
<1>3. T = Nat
  <2>1. 0 \in T
    BY <1>2
  <2>2. ASSUME NEW k \in Nat, k \in T PROVE k + 1 \in T
    <3>1. CASE k + 1 <= n
      <4> DEFINE m == k + 1
      <4>1. m \in 1..n /\ m - 1 = k /\ g[1..k] \in A
        BY <2>2, <3>1
      <4>2. g[1..m - 1] \in A
        BY <4>1
      <4> HIDE DEF m
      <4>3. g[1..m] \in A
        BY <1>1, <4>1, <4>2
      <4> QED
        BY <4>3 DEF m
    <3>2. CASE ~(k + 1 <= n)
      BY <3>2
    <3> QED
      BY <3>1, <3>2
  <2>3. T \in SUBSET Nat
    OBVIOUS
  <2> HIDE DEF T
  <2> QED
    BY <2>1, <2>2, <2>3, AllNaturals
<1>4. h \in [0..n -> A]
  BY <1>3
<1>5. h[0] = base
  BY <1>2
<1>6. ASSUME NEW k \in 1..n PROVE h[k] = F[<<k, h[k - 1]>>]
  <2>1. k - 1 \in 0..n /\ k \in 0..n
    OBVIOUS
  <2>2. h[k] = g[1..k] /\ h[k - 1] = g[1..k - 1] /\ h[k - 1] \in A
    BY <1>4, <2>1
  <2> QED
    BY <1>1, <2>2
<1>7. h[n] = g[1..n]
  OBVIOUS
<1> HIDE DEF h
<1> QED
  BY <1>4, <1>5, <1>6, <1>7 DEF FoldIs, Chains

\* The fold over no place, and over one more.
LEMMA FoldNone ==
  ASSUME NEW A, NEW base, NEW F, NEW x, FoldIs(0, A, base, F, x)
  PROVE  x = base
BY DEF FoldIs, Chains

\* Its result is a value like those it goes through.
LEMMA FoldTyped ==
  ASSUME NEW n \in Nat, NEW A, NEW base, NEW F, NEW x, FoldIs(n, A, base, F, x)
  PROVE  x \in A
BY DEF FoldIs, Chains

\* A place more, when the others are taken as before.
LEMMA FoldMore ==
  ASSUME NEW n \in Nat, NEW A, NEW base \in A, NEW F, NEW G, NEW x, NEW y,
         FoldIs(n, A, base, F, x), FoldIs(n + 1, A, base, G, y),
         SameSteps(n, A, F, G)
  PROVE  y = G[<<n + 1, x>>] /\ x \in A
<1>1. PICK h \in Chains(n, A, base, F) : x = h[n]
  BY DEF FoldIs
<1>2. PICK d \in Chains(n + 1, A, base, G) : y = d[n + 1]
  BY DEF FoldIs
<1>3. h \in [0..n -> A] /\ h[0] = base /\ \A k \in 1..n : h[k] = F[<<k, h[k - 1]>>]
  BY <1>1 DEF Chains
<1>4. d \in [0..n + 1 -> A] /\ d[0] = base /\ \A k \in 1..n + 1 : d[k] = G[<<k, d[k - 1]>>]
  BY <1>2 DEF Chains
<1> DEFINE T == {k \in Nat : k <= n => h[k] = d[k]}
<1>5. 0 \in T
  BY <1>3, <1>4
<1>6. ASSUME NEW k \in Nat, k \in T PROVE k + 1 \in T
  <2>1. CASE k + 1 <= n
    <3>1. k + 1 \in 1..n /\ k + 1 \in 1..n + 1 /\ (k + 1) - 1 = k /\ h[k] = d[k] /\ h[k] \in A
      BY <1>3, <1>6, <2>1
    <3>2. h[k + 1] = F[<<k + 1, h[k]>>] /\ d[k + 1] = G[<<k + 1, d[k]>>]
      BY <1>3, <1>4, <3>1
    <3> QED
      BY <3>1, <3>2 DEF SameSteps
  <2>2. CASE ~(k + 1 <= n)
    BY <2>2
  <2> QED
    BY <2>1, <2>2
<1>7. T = Nat
  <2>1. T \in SUBSET Nat
    OBVIOUS
  <2> HIDE DEF T
  <2> QED
    BY <1>5, <1>6, <2>1, AllNaturals
<1>8. h[n] = d[n]
  BY <1>7
<1>9. n + 1 \in 1..n + 1 /\ (n + 1) - 1 = n
  OBVIOUS
<1>10. d[n + 1] = G[<<n + 1, d[n]>>]
  BY <1>4, <1>9
<1> QED
  BY <1>1, <1>2, <1>3, <1>8, <1>10
-----------------------------------------------------------------------------
(* Rows.                                                                    *)

RowMaps == UNION {[R -> Items] : R \in SUBSET Nat}

\* Rows with an item each, by their domain,
LEMMA RowMapIs ==
  ASSUME NEW f \in RowMaps
  PROVE  DOMAIN f \in SUBSET Nat /\ f \in [DOMAIN f -> Items] /\ \A r \in DOMAIN f : f[r] \in Items
BY DEF RowMaps

\* and a function that is one.
LEMMA IsRowMap ==
  ASSUME NEW R \in SUBSET Nat, NEW f \in [R -> Items]
  PROVE  f \in RowMaps /\ DOMAIN f = R
BY DEF RowMaps

\* Where the rows come from after an INSERT,
LEMMA InsertIs ==
  ASSUME NEW rows \in RowMaps, NEW op, op.at \in Nat, op.items[1] \in Items
  PROVE  /\ InsertRow(rows, op) \in RowMaps
         /\ \A r \in DOMAIN InsertRow(rows, op) :
              \/ r < op.at /\ r \in DOMAIN rows /\ InsertRow(rows, op)[r] = rows[r]
              \/ r = op.at /\ InsertRow(rows, op)[r] = op.items[1]
              \/ r > op.at /\ r - 1 \in DOMAIN rows /\ InsertRow(rows, op)[r] = rows[r - 1]
<1> DEFINE at == op.at
           x == op.items[1]
           D == DOMAIN rows
           R == {at} \cup {IF s < at THEN s ELSE s + 1 : s \in D}
           Val(r) == CASE r < at -> rows[r] [] r = at -> x [] r > at -> rows[r - 1]
           d == InsertRow(rows, op)
<1>1. D \in SUBSET Nat /\ \A r \in D : rows[r] \in Items
  BY RowMapIs
<1>2. d = [r \in R |-> Val(r)]
  BY DEF InsertRow
<1>3. at \in Nat /\ x \in Items
  OBVIOUS
<1> HIDE DEF at, x, D, d
<1>4. R \in SUBSET Nat
  BY <1>1, <1>3
<1>5. ASSUME NEW r \in R
      PROVE  \/ r < at /\ r \in D /\ Val(r) = rows[r]
             \/ r = at /\ Val(r) = x
             \/ r > at /\ r - 1 \in D /\ Val(r) = rows[r - 1]
  <2>1. CASE r = at
    BY <1>3, <2>1
  <2>2. CASE r # at
    <3>1. PICK s \in D : r = IF s < at THEN s ELSE s + 1
      BY <2>2
    <3>2. s \in Nat
      BY <1>1
    <3>3. CASE s < at
      BY <1>3, <3>1, <3>2, <3>3
    <3>4. CASE ~(s < at)
      <4>1. r = s + 1 /\ r > at /\ r - 1 = s /\ r \in Nat
        BY <1>3, <3>1, <3>2, <3>4
      <4>2. Val(r) = rows[r - 1]
        BY <1>3, <4>1
      <4> QED
        BY <4>1, <4>2
    <3> QED
      BY <3>3, <3>4
  <2> QED
    BY <2>1, <2>2
<1> HIDE DEF Val, R
<1>6. \A r \in R : Val(r) \in Items
  BY <1>1, <1>3, <1>5
<1>7. d \in [R -> Items]
  BY <1>2, <1>6
<1>8. d \in RowMaps /\ DOMAIN d = R
  BY <1>4, <1>7, IsRowMap
<1> QED
  BY <1>2, <1>5, <1>8 DEF d, at, x, D

\* and after a DELETE.
LEMMA DeleteIs ==
  ASSUME NEW rows \in RowMaps, NEW at \in Nat
  PROVE  /\ DeleteRow(rows, at) \in RowMaps
         /\ \A r \in DOMAIN DeleteRow(rows, at) :
              \/ r < at /\ r \in DOMAIN rows /\ DeleteRow(rows, at)[r] = rows[r]
              \/ r >= at /\ r + 1 \in DOMAIN rows /\ DeleteRow(rows, at)[r] = rows[r + 1]
<1> DEFINE D == DOMAIN rows
           R == {IF s < at THEN s ELSE s - 1 : s \in D \ {at}}
           Val(r) == IF r < at THEN rows[r] ELSE rows[r + 1]
           d == DeleteRow(rows, at)
<1>1. D \in SUBSET Nat /\ \A r \in D : rows[r] \in Items
  BY RowMapIs
<1>2. d = [r \in R |-> Val(r)]
  BY DEF DeleteRow
<1> HIDE DEF D, d
<1>3. R \in SUBSET Nat
  <2>1. ASSUME NEW s \in D \ {at} PROVE (IF s < at THEN s ELSE s - 1) \in Nat
    BY <1>1
  <2> QED
    BY <2>1
<1>4. ASSUME NEW r \in R
      PROVE  \/ r < at /\ r \in D /\ Val(r) = rows[r]
             \/ r >= at /\ r + 1 \in D /\ Val(r) = rows[r + 1]
  <2>1. PICK s \in D \ {at} : r = IF s < at THEN s ELSE s - 1
    OBVIOUS
  <2>2. s \in Nat
    BY <1>1
  <2>3. CASE s < at
    BY <2>1, <2>2, <2>3
  <2>4. CASE ~(s < at)
    <3>1. r = s - 1 /\ r >= at /\ r + 1 = s /\ r \in Nat
      BY <2>1, <2>2, <2>4
    <3>2. Val(r) = rows[r + 1]
      BY <3>1
    <3> QED
      BY <3>1, <3>2
  <2> QED
    BY <2>3, <2>4
<1> HIDE DEF Val, R
<1>5. \A r \in R : Val(r) \in Items
  BY <1>1, <1>4
<1>6. d \in [R -> Items]
  BY <1>2, <1>5
<1>7. d \in RowMaps /\ DOMAIN d = R
  BY <1>3, <1>6, IsRowMap
<1> QED
  BY <1>2, <1>4, <1>7 DEF d, D

\* Rows that are taken away.
LEMMA WithoutIs ==
  ASSUME NEW rows \in RowMaps, NEW S
  PROVE  /\ Without(rows, S) \in RowMaps
         /\ DOMAIN Without(rows, S) = DOMAIN rows \ S
         /\ \A r \in DOMAIN rows \ S : Without(rows, S)[r] = rows[r]
<1> DEFINE D == DOMAIN rows
           d == Without(rows, S)
<1>1. D \in SUBSET Nat /\ \A r \in D : rows[r] \in Items
  BY RowMapIs
<1>2. d = [r \in D \ S |-> rows[r]]
  BY DEF Without
<1> HIDE DEF D, d
<1>3. D \ S \in SUBSET Nat /\ d \in [D \ S -> Items]
  BY <1>1, <1>2
<1>4. d \in RowMaps /\ DOMAIN d = D \ S
  BY <1>3, IsRowMap
<1> QED
  BY <1>2, <1>4 DEF d, D

\* A SYNC or an UPDATE.
LEMMA SyncIs ==
  ASSUME NEW rows \in RowMaps, NEW op, op.at \in Nat, op.items \in Seq(Items)
  PROVE  LET d == Sync(rows, op)
             n == Len(op.items)
         IN /\ d \in RowMaps
            /\ op.items = <<>> => d = Without(rows, op.at..op.to)
            /\ op.items # <<>> =>
                 /\ \A r \in op.at..op.at + n - 1 : r \in DOMAIN d /\ d[r] = op.items[r - op.at + 1]
                 /\ \A r \in DOMAIN d : r \notin op.at..op.at + n - 1 => r \in DOMAIN rows /\ d[r] = rows[r]
<1> DEFINE at == op.at
           s == op.items
           n == Len(s)
           D == DOMAIN rows
           R == at..at + n - 1
           Val(r) == IF r \in R THEN s[r - at + 1] ELSE rows[r]
           d == Sync(rows, op)
<1>1. D \in SUBSET Nat /\ \A r \in D : rows[r] \in Items
  BY RowMapIs
<1>2. at \in Nat /\ n \in Nat /\ \A i \in 1..n : s[i] \in Items
  BY SeqIs
<1>3. CASE s = <<>>
  <2>1. d = Without(rows, op.at..op.to)
    BY <1>3 DEF Sync
  <2>2. \A S : Without(rows, S) \in RowMaps
    BY WithoutIs
  <2>3. d \in RowMaps
    BY <2>1, <2>2, Zenon
  <2> QED
    BY <1>3, <2>1, <2>3
<1>4. CASE s # <<>>
  <2>1. d = [r \in D \cup R |-> Val(r)]
    BY <1>4 DEF Sync
  <2> HIDE DEF D, d, at, n, s
  <2>2. D \cup R \in SUBSET Nat
    BY <1>1, <1>2
  <2>3. ASSUME NEW r \in D \cup R PROVE Val(r) \in Items
    <3>1. CASE r \in R
      <4>1. r - at + 1 \in 1..n
        BY <1>2, <3>1
      <4> QED
        BY <1>2, <3>1, <4>1
    <3>2. CASE r \notin R
      BY <1>1, <3>2
    <3> QED
      BY <3>1, <3>2
  <2>4. d \in [D \cup R -> Items]
    BY <2>1, <2>3
  <2>5. d \in RowMaps /\ DOMAIN d = D \cup R
    BY <2>2, <2>4, IsRowMap
  <2>6. \A r \in R : r \in DOMAIN d /\ d[r] = s[r - at + 1]
    BY <2>1, <2>5
  <2>7. \A r \in DOMAIN d : r \notin R => r \in D /\ d[r] = rows[r]
    BY <2>1, <2>5
  <2> QED
    BY <1>4, <2>5, <2>6, <2>7 DEF D, d, at, n, s
<1> QED
  BY <1>3, <1>4
-----------------------------------------------------------------------------
(* The folds of a batch.                                                    *)

Ops == {o \in [op : {"INSERT", "DELETE", "SYNC", "UPDATE", "INVALIDATE"}, at : Nat, to : Nat, items : Seq(Items)] :
          o.op \in {"INSERT", "UPDATE"} => o.items # <<>>}
Inserts == {o \in Ops : o.items # <<>>}

\* The parts of an operation.
LEMMA OpIs ==
  ASSUME NEW o \in Ops
  PROVE  /\ o.op \in {"INSERT", "DELETE", "SYNC", "UPDATE", "INVALIDATE"}
         /\ o.at \in Nat /\ o.to \in Nat /\ o.items \in Seq(Items)
         /\ o.op \in {"INSERT", "UPDATE"} => o \in Inserts
         /\ o.items # <<>> => o.items[1] \in Items
<1>1. o.items \in Seq(Items)
  BY DEF Ops
<1>2. o.items # <<>> => o.items[1] \in Items
  BY <1>1, SeqIs
<1> QED
  BY <1>1, <1>2 DEF Ops, Inserts

InsertBy(ops) == [p \in (1..Len(ops)) \X RowMaps |-> InsertRow(p[2], ops[p[1]])]
DeleteBy(ats) == [p \in (1..Len(ats)) \X RowMaps |-> DeleteRow(p[2], ats[p[1]])]

\* The fold of the INSERTs of a run, one at a time,
LEMMA InsertsSteps ==
  ASSUME NEW ops \in Seq(Inserts)
  PROVE  /\ InsertBy(ops) \in Steps(1..Len(ops), RowMaps)
         /\ \A k \in 1..Len(ops) : \A a \in RowMaps : InsertBy(ops)[<<k, a>>] = InsertRow(a, ops[k])
<1>1. ASSUME NEW k \in 1..Len(ops), NEW a \in RowMaps PROVE InsertRow(a, ops[k]) \in RowMaps
  <2>1. ops[k] \in Inserts
    BY SeqIs
  <2>2. ops[k].at \in Nat /\ ops[k].items[1] \in Items
    BY <2>1, OpIs DEF Inserts
  <2> QED
    BY <2>2, InsertIs
<1> QED
  BY <1>1 DEF InsertBy, Steps

\* its result by that fold,
LEMMA InsertsAre ==
  ASSUME NEW rows \in RowMaps, NEW ops \in Seq(Inserts)
  PROVE  FoldIs(Len(ops), RowMaps, rows, InsertBy(ops), FoldLeft(InsertRow, rows, ops))
<1> DEFINE n == Len(ops)
           F == InsertBy(ops)
           Body(g) == [I \in SUBSET (1..n) |-> IF I = {} THEN rows ELSE InsertRow(g[I \ {Max(I)}], ops[Max(I)])]
<1>1. n \in Nat /\ DOMAIN ops = 1..n
  BY SeqIs
<1>2. /\ F \in Steps(1..n, RowMaps) /\ rows \in RowMaps
      /\ \A k \in 1..n : \A a \in RowMaps : F[<<k, a>>] = InsertRow(a, ops[k])
  BY InsertsSteps
<1> HIDE DEF n, F
<1>3. PICK f : f \in Running(n, RowMaps, rows, F)
  BY <1>1, <1>2, Runs
<1>4. f = Body(f)
  <2>1. \A I \in SUBSET (1..n) : f[I] = IF I = {} THEN rows ELSE InsertRow(f[I \ {Max(I)}], ops[Max(I)])
    BY <1>2, <1>3 DEF Running
  <2>2. f \in [SUBSET (1..n) -> RowMaps]
    BY <1>3 DEF Running
  <2> QED
    BY <2>1, <2>2
<1> DEFINE g == CHOOSE h : h = Body(h)
<1>5. g = Body(g)
  BY <1>4
<1>6. FoldLeft(InsertRow, rows, ops) = g[1..n]
  BY <1>1 DEF FoldLeft, MapThenFoldSet
<1> HIDE DEF g
<1>7. g[{}] = rows /\ \A I \in SUBSET (1..n) : I # {} => g[I] = InsertRow(g[I \ {Max(I)}], ops[Max(I)])
  BY <1>5
<1>8. \A I \in SUBSET (1..n) : I # {} /\ Max(I) \in 1..n /\ g[I \ {Max(I)}] \in RowMaps =>
        g[I] = F[<<Max(I), g[I \ {Max(I)}]>>]
  BY <1>2, <1>7
<1>9. FoldIs(n, RowMaps, rows, F, g[1..n])
  BY <1>1, <1>2, <1>7, <1>8, RunsToEnd
<1> QED
  BY <1>6, <1>9 DEF n, F

\* and how it goes on.
LEMMA InsertsUnrolled ==
  ASSUME NEW rows \in RowMaps
  PROVE  /\ FoldLeft(InsertRow, rows, <<>>) = rows
         /\ \A ops \in Seq(Inserts) :
              /\ FoldLeft(InsertRow, rows, ops) \in RowMaps
              /\ \A x \in Inserts : FoldLeft(InsertRow, rows, Append(ops, x)) = InsertRow(FoldLeft(InsertRow, rows, ops), x)
<1>1. FoldLeft(InsertRow, rows, <<>>) = rows
  <2>1. <<>> \in Seq(Inserts) /\ Len(<<>>) = 0
    OBVIOUS
  <2>2. FoldIs(0, RowMaps, rows, InsertBy(<<>>), FoldLeft(InsertRow, rows, <<>>))
    BY <2>1, InsertsAre
  <2> QED
    BY <2>2, FoldNone
<1>2. ASSUME NEW ops \in Seq(Inserts)
      PROVE  /\ FoldLeft(InsertRow, rows, ops) \in RowMaps
             /\ \A x \in Inserts : FoldLeft(InsertRow, rows, Append(ops, x)) = InsertRow(FoldLeft(InsertRow, rows, ops), x)
  <2>1. FoldIs(Len(ops), RowMaps, rows, InsertBy(ops), FoldLeft(InsertRow, rows, ops)) /\ Len(ops) \in Nat
    BY InsertsAre, SeqIs
  <2>2. ASSUME NEW x \in Inserts PROVE FoldLeft(InsertRow, rows, Append(ops, x)) = InsertRow(FoldLeft(InsertRow, rows, ops), x)
    <3> DEFINE t == Append(ops, x)
               n == Len(ops)
               F == InsertBy(ops)
               G == InsertBy(t)
    <3>1. /\ t \in Seq(Inserts) /\ Len(t) = n + 1 /\ t[n + 1] = x /\ n \in Nat
          /\ \A k \in 1..n : t[k] = ops[k]
      BY <2>1
    <3> HIDE DEF t
    <3>2. FoldIs(n + 1, RowMaps, rows, G, FoldLeft(InsertRow, rows, t))
      BY <3>1, InsertsAre
    <3>3. rows \in RowMaps /\ \A k \in 1..n : \A a \in RowMaps : F[<<k, a>>] = InsertRow(a, ops[k])
      BY InsertsSteps
    <3>4. \A k \in 1..n + 1 : \A a \in RowMaps : G[<<k, a>>] = InsertRow(a, t[k])
      BY <3>1, InsertsSteps
    <3> HIDE DEF F, G, n
    <3>5. SameSteps(n, RowMaps, F, G)
      <4>1. ASSUME NEW k \in 1..n, NEW a \in RowMaps PROVE F[<<k, a>>] = G[<<k, a>>]
        <5>1. k \in 1..n + 1
          BY <3>1
        <5>2. G[<<k, a>>] = InsertRow(a, t[k])
          BY <3>4, <5>1
        <5>3. F[<<k, a>>] = InsertRow(a, ops[k])
          BY <3>3
        <5> QED
          BY <3>1, <5>2, <5>3
      <4> QED
        BY <4>1 DEF SameSteps
    <3>6. FoldIs(n, RowMaps, rows, F, FoldLeft(InsertRow, rows, ops))
      BY <2>1 DEF n, F
    <3>7. FoldLeft(InsertRow, rows, t) = G[<<n + 1, FoldLeft(InsertRow, rows, ops)>>] /\ FoldLeft(InsertRow, rows, ops) \in RowMaps
      BY <3>1, <3>2, <3>3, <3>5, <3>6, FoldMore
    <3>8. n + 1 \in 1..n + 1
      BY <3>1
    <3> QED
      BY <3>1, <3>4, <3>7, <3>8 DEF t
  <2>3. FoldLeft(InsertRow, rows, ops) \in RowMaps
    BY <2>1, FoldTyped
  <2> QED
    BY <2>2, <2>3
<1> QED
  BY <1>1, <1>2

\* The fold of the DELETEs of a run, one at a time,
LEMMA DeletesSteps ==
  ASSUME NEW ats \in Seq(Nat)
  PROVE  /\ DeleteBy(ats) \in Steps(1..Len(ats), RowMaps)
         /\ \A k \in 1..Len(ats) : \A a \in RowMaps : DeleteBy(ats)[<<k, a>>] = DeleteRow(a, ats[k])
<1>1. ASSUME NEW k \in 1..Len(ats), NEW a \in RowMaps PROVE DeleteRow(a, ats[k]) \in RowMaps
  <2>1. ats[k] \in Nat
    BY SeqIs
  <2> QED
    BY <2>1, DeleteIs
<1> QED
  BY <1>1 DEF DeleteBy, Steps

\* its result by that fold,
LEMMA DeletesAre ==
  ASSUME NEW rows \in RowMaps, NEW ats \in Seq(Nat)
  PROVE  FoldIs(Len(ats), RowMaps, rows, DeleteBy(ats), FoldLeft(DeleteRow, rows, ats))
<1> DEFINE n == Len(ats)
           F == DeleteBy(ats)
           Body(g) == [I \in SUBSET (1..n) |-> IF I = {} THEN rows ELSE DeleteRow(g[I \ {Max(I)}], ats[Max(I)])]
<1>1. n \in Nat /\ DOMAIN ats = 1..n
  BY SeqIs
<1>2. /\ F \in Steps(1..n, RowMaps) /\ rows \in RowMaps
      /\ \A k \in 1..n : \A a \in RowMaps : F[<<k, a>>] = DeleteRow(a, ats[k])
  BY DeletesSteps
<1> HIDE DEF n, F
<1>3. PICK f : f \in Running(n, RowMaps, rows, F)
  BY <1>1, <1>2, Runs
<1>4. f = Body(f)
  <2>1. \A I \in SUBSET (1..n) : f[I] = IF I = {} THEN rows ELSE DeleteRow(f[I \ {Max(I)}], ats[Max(I)])
    BY <1>2, <1>3 DEF Running
  <2>2. f \in [SUBSET (1..n) -> RowMaps]
    BY <1>3 DEF Running
  <2> QED
    BY <2>1, <2>2
<1> DEFINE g == CHOOSE h : h = Body(h)
<1>5. g = Body(g)
  BY <1>4
<1>6. FoldLeft(DeleteRow, rows, ats) = g[1..n]
  BY <1>1 DEF FoldLeft, MapThenFoldSet
<1> HIDE DEF g
<1>7. g[{}] = rows /\ \A I \in SUBSET (1..n) : I # {} => g[I] = DeleteRow(g[I \ {Max(I)}], ats[Max(I)])
  BY <1>5
<1>8. \A I \in SUBSET (1..n) : I # {} /\ Max(I) \in 1..n /\ g[I \ {Max(I)}] \in RowMaps =>
        g[I] = F[<<Max(I), g[I \ {Max(I)}]>>]
  BY <1>2, <1>7
<1>9. FoldIs(n, RowMaps, rows, F, g[1..n])
  BY <1>1, <1>2, <1>7, <1>8, RunsToEnd
<1> QED
  BY <1>6, <1>9 DEF n, F

\* and how it goes on.
LEMMA DeletesUnrolled ==
  ASSUME NEW rows \in RowMaps
  PROVE  /\ FoldLeft(DeleteRow, rows, <<>>) = rows
         /\ \A ats \in Seq(Nat) :
              /\ FoldLeft(DeleteRow, rows, ats) \in RowMaps
              /\ \A x \in Nat : FoldLeft(DeleteRow, rows, Append(ats, x)) = DeleteRow(FoldLeft(DeleteRow, rows, ats), x)
<1>1. FoldLeft(DeleteRow, rows, <<>>) = rows
  <2>1. <<>> \in Seq(Nat) /\ Len(<<>>) = 0
    OBVIOUS
  <2>2. FoldIs(0, RowMaps, rows, DeleteBy(<<>>), FoldLeft(DeleteRow, rows, <<>>))
    BY <2>1, DeletesAre
  <2> QED
    BY <2>2, FoldNone
<1>2. ASSUME NEW ats \in Seq(Nat)
      PROVE  /\ FoldLeft(DeleteRow, rows, ats) \in RowMaps
             /\ \A x \in Nat : FoldLeft(DeleteRow, rows, Append(ats, x)) = DeleteRow(FoldLeft(DeleteRow, rows, ats), x)
  <2>1. FoldIs(Len(ats), RowMaps, rows, DeleteBy(ats), FoldLeft(DeleteRow, rows, ats)) /\ Len(ats) \in Nat
    BY DeletesAre, SeqIs
  <2>2. ASSUME NEW x \in Nat PROVE FoldLeft(DeleteRow, rows, Append(ats, x)) = DeleteRow(FoldLeft(DeleteRow, rows, ats), x)
    <3> DEFINE t == Append(ats, x)
               n == Len(ats)
               F == DeleteBy(ats)
               G == DeleteBy(t)
    <3>1. /\ t \in Seq(Nat) /\ Len(t) = n + 1 /\ t[n + 1] = x /\ n \in Nat
          /\ \A k \in 1..n : t[k] = ats[k]
      BY <2>1
    <3> HIDE DEF t
    <3>2. FoldIs(n + 1, RowMaps, rows, G, FoldLeft(DeleteRow, rows, t))
      BY <3>1, DeletesAre
    <3>3. rows \in RowMaps /\ \A k \in 1..n : \A a \in RowMaps : F[<<k, a>>] = DeleteRow(a, ats[k])
      BY DeletesSteps
    <3>4. \A k \in 1..n + 1 : \A a \in RowMaps : G[<<k, a>>] = DeleteRow(a, t[k])
      BY <3>1, DeletesSteps
    <3> HIDE DEF F, G, n
    <3>5. SameSteps(n, RowMaps, F, G)
      <4>1. ASSUME NEW k \in 1..n, NEW a \in RowMaps PROVE F[<<k, a>>] = G[<<k, a>>]
        <5>1. k \in 1..n + 1
          BY <3>1
        <5>2. G[<<k, a>>] = DeleteRow(a, t[k])
          BY <3>4, <5>1
        <5>3. F[<<k, a>>] = DeleteRow(a, ats[k])
          BY <3>3
        <5> QED
          BY <3>1, <5>2, <5>3
      <4> QED
        BY <4>1 DEF SameSteps
    <3>6. FoldIs(n, RowMaps, rows, F, FoldLeft(DeleteRow, rows, ats))
      BY <2>1 DEF n, F
    <3>7. FoldLeft(DeleteRow, rows, t) = G[<<n + 1, FoldLeft(DeleteRow, rows, ats)>>] /\ FoldLeft(DeleteRow, rows, ats) \in RowMaps
      BY <3>1, <3>2, <3>3, <3>5, <3>6, FoldMore
    <3>8. n + 1 \in 1..n + 1
      BY <3>1
    <3> QED
      BY <3>1, <3>4, <3>7, <3>8 DEF t
  <2>3. FoldLeft(DeleteRow, rows, ats) \in RowMaps
    BY <2>1, FoldTyped
  <2> QED
    BY <2>2, <2>3
<1> QED
  BY <1>1, <1>2
-----------------------------------------------------------------------------
(* Sequences with an element put in, taken out or replaced.                  *)

\* The places of two sequences put together.
LEMMA Joined ==
  ASSUME NEW S, NEW a \in Seq(S), NEW b \in Seq(S)
  PROVE  /\ a \o b \in Seq(S) /\ Len(a \o b) = Len(a) + Len(b)
         /\ \A k \in 1..Len(a) : (a \o b)[k] = a[k]
         /\ \A k \in 1..Len(b) : (a \o b)[Len(a) + k] = b[k]
OBVIOUS

\* A list with a member more at a place,
LEMMA InsertAtIs ==
  ASSUME NEW S, NEW s \in Seq(S), NEW x \in S, NEW i \in 1..Len(s) + 1
  PROVE  /\ InsertAt(s, i, x) \in Seq(S) /\ Len(InsertAt(s, i, x)) = Len(s) + 1
         /\ \A k \in 1..Len(s) + 1 : InsertAt(s, i, x)[k] = IF k < i THEN s[k] ELSE IF k = i THEN x ELSE s[k - 1]
         /\ i = Len(s) + 1 => InsertAt(s, i, x) = Append(s, x)
<1> DEFINE a == SubSeq(s, 1, i - 1)
           b == SubSeq(s, i, Len(s))
           n == Len(s)
<1>1. n \in Nat /\ i \in 1..n + 1 /\ \A k \in 1..n : s[k] \in S
  BY SeqIs
<1>2. a \in Seq(S) /\ Len(a) = i - 1 /\ \A k \in 1..i - 1 : a[k] = s[k]
  BY <1>1
<1>3. b \in Seq(S) /\ Len(b) = n + 1 - i /\ \A k \in 1..n + 1 - i : b[k] = s[i + k - 1]
  BY <1>1
<1>4. <<x>> \in Seq(S) /\ Len(<<x>>) = 1 /\ <<x>>[1] = x
  OBVIOUS
<1>5. InsertAt(s, i, x) = (a \o <<x>>) \o b
  BY DEF InsertAt
<1> HIDE DEF a, b, n
<1> DEFINE c == a \o <<x>>
<1>6. /\ c \in Seq(S) /\ Len(c) = i /\ (\A k \in 1..i - 1 : c[k] = s[k]) /\ c[i] = x
  BY <1>2, <1>4
<1> HIDE DEF c
<1> DEFINE d == c \o b
<1>7. d \in Seq(S) /\ Len(d) = n + 1
  <2>1. d \in Seq(S) /\ Len(d) = Len(c) + Len(b)
    BY <1>3, <1>6, Joined
  <2> QED
    BY <1>1, <1>3, <1>6, <2>1
<1>8. ASSUME NEW k \in 1..n + 1 PROVE d[k] = IF k < i THEN s[k] ELSE IF k = i THEN x ELSE s[k - 1]
  <2>1. CASE k <= i
    <3>1. d[k] = c[k]
      BY <1>1, <1>3, <1>6, <2>1
    <3>2. k < i => k \in 1..i - 1
      BY <1>1
    <3> QED
      BY <1>1, <1>6, <2>1, <3>1, <3>2
  <2>2. CASE k > i
    <3>1. k - i \in 1..n + 1 - i /\ k = Len(c) + (k - i)
      BY <1>1, <1>6, <2>2
    <3>2. d[k] = b[k - i]
      BY <1>3, <1>6, <3>1, Joined
    <3>3. b[k - i] = s[i + (k - i) - 1]
      BY <1>3, <3>1
    <3>4. i + (k - i) - 1 = k - 1
      BY <1>1
    <3> QED
      BY <1>1, <2>2, <3>2, <3>3, <3>4
  <2>3. k <= i \/ k > i
    BY <1>1
  <2> QED
    BY <2>1, <2>2, <2>3, Zenon
<1>9. InsertAt(s, i, x) = d
  BY <1>5 DEF c
<1>10. i = Len(s) + 1 => d = Append(s, x)
  <2> SUFFICES ASSUME i = Len(s) + 1 PROVE d = Append(s, x)
    OBVIOUS
  <2> HIDE DEF d
  <2>1. /\ Append(s, x) \in Seq(S) /\ Len(Append(s, x)) = n + 1 /\ Append(s, x)[n + 1] = x
        /\ \A k \in 1..n : Append(s, x)[k] = s[k]
    BY DEF n
  <2>2. i = n + 1
    BY DEF n
  <2>3. \A k \in 1..n + 1 : d[k] = Append(s, x)[k]
    BY <1>1, <1>8, <2>1, <2>2
  <2> QED
    BY <1>1, <1>7, <2>1, <2>3
<1> HIDE DEF d
<1> QED
  BY <1>7, <1>8, <1>9, <1>10 DEF n

\* without the one at a place,
LEMMA RemoveAtIs ==
  ASSUME NEW S, NEW s \in Seq(S), NEW i \in 1..Len(s)
  PROVE  /\ RemoveAt(s, i) \in Seq(S) /\ Len(RemoveAt(s, i)) = Len(s) - 1
         /\ \A k \in 1..Len(s) - 1 : RemoveAt(s, i)[k] = IF k < i THEN s[k] ELSE s[k + 1]
<1> DEFINE a == SubSeq(s, 1, i - 1)
           b == SubSeq(s, i + 1, Len(s))
           n == Len(s)
<1>1. n \in Nat /\ \A k \in 1..n : s[k] \in S
  BY SeqIs
<1>2. a \in Seq(S) /\ Len(a) = i - 1 /\ \A k \in 1..i - 1 : a[k] = s[k]
  BY <1>1
<1>3. b \in Seq(S) /\ Len(b) = n - i /\ \A k \in 1..n - i : b[k] = s[i + 1 + k - 1]
  BY <1>1
<1>4. RemoveAt(s, i) = a \o b
  BY DEF RemoveAt
<1> HIDE DEF a, b, n
<1> DEFINE d == a \o b
<1>5. d \in Seq(S) /\ Len(d) = n - 1
  <2>1. d \in Seq(S) /\ Len(d) = Len(a) + Len(b)
    BY <1>2, <1>3, Joined
  <2> QED
    BY <1>1, <1>2, <1>3, <2>1
<1>6. ASSUME NEW k \in 1..n - 1 PROVE d[k] = IF k < i THEN s[k] ELSE s[k + 1]
  <2>1. CASE k < i
    BY <1>1, <1>2, <1>3, <2>1
  <2>2. CASE ~(k < i)
    <3>1. k - (i - 1) \in 1..n - i
      BY <1>1, <2>2
    <3>2. d[k] = b[k - (i - 1)]
      BY <1>1, <1>2, <1>3, <2>2, SMTT(30)
    <3>3. b[k - (i - 1)] = s[i + 1 + (k - (i - 1)) - 1]
      BY <1>3, <3>1
    <3>4. i + 1 + (k - (i - 1)) - 1 = k + 1
      BY <1>1
    <3> QED
      BY <1>1, <2>2, <3>2, <3>3, <3>4
  <2> QED
    BY <1>1, <2>1, <2>2
<1> QED
  BY <1>4, <1>5, <1>6 DEF n

\* and with another there.
LEMMA ReplaceAtIs ==
  ASSUME NEW S, NEW s \in Seq(S), NEW x \in S, NEW i \in 1..Len(s)
  PROVE  /\ ReplaceAt(s, i, x) \in Seq(S) /\ Len(ReplaceAt(s, i, x)) = Len(s)
         /\ \A k \in 1..Len(s) : ReplaceAt(s, i, x)[k] = IF k = i THEN x ELSE s[k]
BY DEF ReplaceAt
-----------------------------------------------------------------------------
(* The order of a run of DELETEs.                                           *)

PlaceBy(s) == [p \in (1..Len(s)) \X Seq(Nat) |-> Placed(p[2], s[p[1]])]
Rising(s) == \A i, j \in 1..Len(s) : i <= j => s[i] <= s[j]

\* A number that is no less than those in order goes last.
LEMMA PlacedIs ==
  ASSUME NEW t \in Seq(Nat), NEW x \in Nat
  PROVE  /\ Placed(t, x) \in Seq(Nat)
         /\ (\A i \in 1..Len(t) : t[i] <= x) => Placed(t, x) = Append(t, x)
<1> DEFINE R == {i \in DOMAIN t : t[i] <= x}
           c == Cardinality(R)
           n == Len(t)
<1>1. n \in Nat /\ DOMAIN t = 1..n
  BY SeqIs
<1>2. IsFiniteSet(1..n) /\ Cardinality(1..n) = n
  <2>1. IsFiniteSet(1..n) /\ Cardinality(1..n) = IF 1 > n THEN 0 ELSE n - 1 + 1
    BY <1>1, FS_Interval
  <2> QED
    BY <1>1, <2>1
<1>3. R \in SUBSET (1..n)
  BY <1>1
<1>4. IsFiniteSet(R) /\ c <= n
  BY <1>2, <1>3, FS_Subset
<1>5. c \in Nat
  BY <1>4, FS_CardinalityType
<1>6. (\A i \in 1..n : t[i] <= x) => c = n
  <2>1. (\A i \in 1..n : t[i] <= x) => R = 1..n
    BY <1>1
  <2> QED
    BY <1>2, <2>1
<1>7. Placed(t, x) = InsertAt(t, c + 1, x)
  BY DEF Placed
<1> HIDE DEF c
<1>8. c + 1 \in 1..n + 1
  BY <1>1, <1>4, <1>5
<1>9. Placed(t, x) \in Seq(Nat) /\ (c = n => Placed(t, x) = Append(t, x))
  <2> DEFINE i == c + 1
  <2>1. i \in 1..n + 1 /\ (c = n => i = n + 1) /\ Placed(t, x) = InsertAt(t, i, x)
    BY <1>1, <1>7, <1>8
  <2> HIDE DEF i
  <2>2. \A k \in 1..Len(t) + 1 : /\ InsertAt(t, k, x) \in Seq(Nat)
                                 /\ k = Len(t) + 1 => InsertAt(t, k, x) = Append(t, x)
    BY InsertAtIs, ZenonT(60)
  <2> QED
    BY <2>1, <2>2
<1> QED
  BY <1>6, <1>9

\* The sort, one number at a time,
LEMMA PlacesSteps ==
  ASSUME NEW s \in Seq(Nat)
  PROVE  /\ PlaceBy(s) \in Steps(1..Len(s), Seq(Nat)) /\ <<>> \in Seq(Nat)
         /\ \A k \in 1..Len(s) : \A a \in Seq(Nat) : PlaceBy(s)[<<k, a>>] = Placed(a, s[k])
<1>1. ASSUME NEW k \in 1..Len(s), NEW a \in Seq(Nat) PROVE Placed(a, s[k]) \in Seq(Nat)
  <2>1. s[k] \in Nat
    BY SeqIs
  <2> QED
    BY <2>1, PlacedIs
<1>2. <<>> \in Seq(Nat)
  OBVIOUS
<1> QED
  BY <1>1, <1>2 DEF PlaceBy, Steps

\* its result by that fold,
LEMMA PlacesAre ==
  ASSUME NEW s \in Seq(Nat)
  PROVE  FoldIs(Len(s), Seq(Nat), <<>>, PlaceBy(s), Ascending(s))
<1> DEFINE n == Len(s)
           F == PlaceBy(s)
           Body(g) == [I \in SUBSET (1..n) |-> IF I = {} THEN <<>> ELSE Placed(g[I \ {Max(I)}], s[Max(I)])]
<1>1. n \in Nat /\ DOMAIN s = 1..n
  BY SeqIs
<1>2. /\ F \in Steps(1..n, Seq(Nat)) /\ <<>> \in Seq(Nat)
      /\ \A k \in 1..n : \A a \in Seq(Nat) : F[<<k, a>>] = Placed(a, s[k])
  BY PlacesSteps
<1> HIDE DEF n, F
<1>3. PICK f : f \in Running(n, Seq(Nat), <<>>, F)
  BY <1>1, <1>2, Runs
<1>4. f = Body(f)
  <2>1. \A I \in SUBSET (1..n) : f[I] = IF I = {} THEN <<>> ELSE Placed(f[I \ {Max(I)}], s[Max(I)])
    BY <1>2, <1>3 DEF Running
  <2>2. f \in [SUBSET (1..n) -> Seq(Nat)]
    BY <1>3 DEF Running
  <2> QED
    BY <2>1, <2>2
<1> DEFINE g == CHOOSE h : h = Body(h)
<1>5. g = Body(g)
  BY <1>4
<1>6. Ascending(s) = g[1..n]
  BY <1>1 DEF Ascending, FoldLeft, MapThenFoldSet
<1> HIDE DEF g
<1>7. g[{}] = <<>> /\ \A I \in SUBSET (1..n) : I # {} => g[I] = Placed(g[I \ {Max(I)}], s[Max(I)])
  BY <1>5
<1>8. \A I \in SUBSET (1..n) : I # {} /\ Max(I) \in 1..n /\ g[I \ {Max(I)}] \in Seq(Nat) =>
        g[I] = F[<<Max(I), g[I \ {Max(I)}]>>]
  BY <1>2, <1>7
<1>9. FoldIs(n, Seq(Nat), <<>>, F, g[1..n])
  BY <1>1, <1>2, <1>7, <1>8, RunsToEnd
<1> QED
  BY <1>6, <1>9 DEF n, F

\* and how it goes on.
LEMMA PlacesUnrolled ==
  /\ Ascending(<<>>) = <<>>
  /\ \A s \in Seq(Nat) :
       /\ Ascending(s) \in Seq(Nat)
       /\ \A x \in Nat : Ascending(Append(s, x)) = Placed(Ascending(s), x)
<1>1. Ascending(<<>>) = <<>>
  <2>1. <<>> \in Seq(Nat) /\ Len(<<>>) = 0
    OBVIOUS
  <2>2. FoldIs(0, Seq(Nat), <<>>, PlaceBy(<<>>), Ascending(<<>>))
    BY <2>1, PlacesAre
  <2> QED
    BY <2>2, FoldNone
<1>2. ASSUME NEW s \in Seq(Nat)
      PROVE  /\ Ascending(s) \in Seq(Nat)
             /\ \A x \in Nat : Ascending(Append(s, x)) = Placed(Ascending(s), x)
  <2>1. FoldIs(Len(s), Seq(Nat), <<>>, PlaceBy(s), Ascending(s)) /\ Len(s) \in Nat
    BY PlacesAre, SeqIs
  <2>2. ASSUME NEW x \in Nat PROVE Ascending(Append(s, x)) = Placed(Ascending(s), x)
    <3> DEFINE t == Append(s, x)
               n == Len(s)
               F == PlaceBy(s)
               G == PlaceBy(t)
    <3>1. /\ t \in Seq(Nat) /\ Len(t) = n + 1 /\ t[n + 1] = x /\ n \in Nat
          /\ \A k \in 1..n : t[k] = s[k]
      BY <2>1
    <3> HIDE DEF t
    <3>2. FoldIs(n + 1, Seq(Nat), <<>>, G, Ascending(t))
      BY <3>1, PlacesAre
    <3>3. <<>> \in Seq(Nat) /\ \A k \in 1..n : \A a \in Seq(Nat) : F[<<k, a>>] = Placed(a, s[k])
      BY PlacesSteps
    <3>4. \A k \in 1..n + 1 : \A a \in Seq(Nat) : G[<<k, a>>] = Placed(a, t[k])
      BY <3>1, PlacesSteps
    <3> HIDE DEF F, G, n
    <3>5. SameSteps(n, Seq(Nat), F, G)
      <4>1. ASSUME NEW k \in 1..n, NEW a \in Seq(Nat) PROVE F[<<k, a>>] = G[<<k, a>>]
        <5>1. k \in 1..n + 1
          BY <3>1
        <5>2. G[<<k, a>>] = Placed(a, t[k])
          BY <3>4, <5>1
        <5>3. F[<<k, a>>] = Placed(a, s[k])
          BY <3>3
        <5> QED
          BY <3>1, <5>2, <5>3
      <4> QED
        BY <4>1 DEF SameSteps
    <3>6. FoldIs(n, Seq(Nat), <<>>, F, Ascending(s))
      BY <2>1 DEF n, F
    <3>7. Ascending(t) = G[<<n + 1, Ascending(s)>>] /\ Ascending(s) \in Seq(Nat)
      BY <3>1, <3>2, <3>3, <3>5, <3>6, FoldMore
    <3>8. n + 1 \in 1..n + 1
      BY <3>1
    <3> QED
      BY <3>1, <3>4, <3>7, <3>8 DEF t
  <2>3. Ascending(s) \in Seq(Nat)
    BY <2>1, FoldTyped
  <2> QED
    BY <2>2, <2>3
<1> QED
  BY <1>1, <1>2

\* Numbers that rise already stay as they are.
LEMMA RisingStays ==
  ASSUME NEW s \in Seq(Nat), Rising(s)
  PROVE  Ascending(s) = s
<1> DEFINE n == Len(s)
           T == {k \in Nat : k <= n => Ascending(SubSeq(s, 1, k)) = SubSeq(s, 1, k)}
<1>1. n \in Nat /\ \A k \in 1..n : s[k] \in Nat
  BY SeqIs
<1>2. 0 \in T
  <2>1. SubSeq(s, 1, 0) = <<>>
    BY <1>1
  <2> QED
    BY <2>1, PlacesUnrolled
<1>3. ASSUME NEW k \in Nat, k \in T PROVE k + 1 \in T
  <2> SUFFICES ASSUME k + 1 <= n
               PROVE  Ascending(SubSeq(s, 1, k + 1)) = SubSeq(s, 1, k + 1)
    OBVIOUS
  <2> DEFINE p == SubSeq(s, 1, k)
  <2>1. p \in Seq(Nat) /\ Len(p) = k /\ \A i \in 1..k : p[i] = s[i]
    BY <1>1
  <2>2. SubSeq(s, 1, k + 1) = Append(p, s[k + 1]) /\ s[k + 1] \in Nat
    BY <1>1
  <2>3. Ascending(p) = p
    BY <1>1, <1>3
  <2> HIDE DEF p
  <2>4. \A i \in 1..k : p[i] <= s[k + 1]
    <3>1. ASSUME NEW i \in 1..k PROVE p[i] <= s[k + 1]
      <4>1. i \in 1..n /\ k + 1 \in 1..n /\ i <= k + 1
        BY <1>1
      <4> QED
        BY <2>1, <4>1 DEF Rising
    <3> QED
      BY <3>1
  <2>5. Placed(p, s[k + 1]) = Append(p, s[k + 1])
    BY <2>1, <2>2, <2>4, PlacedIs
  <2>6. Ascending(Append(p, s[k + 1])) = Placed(Ascending(p), s[k + 1])
    BY <2>1, <2>2, PlacesUnrolled
  <2> QED
    BY <2>2, <2>3, <2>5, <2>6
<1>4. T = Nat
  <2>1. T \in SUBSET Nat
    OBVIOUS
  <2> HIDE DEF T
  <2> QED
    BY <1>2, <1>3, <2>1, AllNaturals
<1>5. Ascending(SubSeq(s, 1, n)) = SubSeq(s, 1, n)
  BY <1>1, <1>4
<1>6. SubSeq(s, 1, n) = s
  BY <1>1
<1> QED
  BY <1>5, <1>6
-----------------------------------------------------------------------------
(* A batch.                                                                 *)

Batch == [rows : RowMaps, inserts : Seq(Inserts), deletes : Seq(Nat)]
Fresh(rows) == [rows |-> rows, inserts |-> <<>>, deletes |-> <<>>]

\* An operation on the rows by itself.
Applied(rows, op) ==
  CASE op.op = "INSERT" -> InsertRow(rows, op)
    [] op.op = "DELETE" -> DeleteRow(rows, op.at)
    [] op.op \in {"SYNC", "UPDATE"} -> Sync(rows, op)
    [] op.op = "INVALIDATE" -> Without(rows, op.at..op.to)

\* processBatchInserts and processBatchDeletes leave no operation waiting.
LEMMA FlushIs ==
  ASSUME NEW b \in Batch
  PROVE  /\ Flush(b) \in Batch /\ Flush(b).inserts = <<>> /\ Flush(b).deletes = <<>>
         /\ b.deletes = <<>> => Flush(b).rows = FoldLeft(InsertRow, b.rows, b.inserts)
         /\ b.inserts = <<>> /\ Rising(b.deletes) => Flush(b).rows = FoldLeft(DeleteRow, b.rows, b.deletes)
         /\ b.inserts = <<>> /\ b.deletes = <<>> => Flush(b).rows = b.rows
<1> DEFINE r == FoldLeft(InsertRow, b.rows, b.inserts)
           a == Ascending(b.deletes)
           d == FoldLeft(DeleteRow, r, a)
<1>1. b.rows \in RowMaps /\ b.inserts \in Seq(Inserts) /\ b.deletes \in Seq(Nat)
  BY DEF Batch
<1>2. r \in RowMaps
  BY <1>1, InsertsUnrolled
<1>3. b.inserts = <<>> => r = b.rows
  BY <1>1, InsertsUnrolled
<1>4. a \in Seq(Nat)
  BY <1>1, PlacesUnrolled
<1>5. Rising(b.deletes) => a = b.deletes
  BY <1>1, RisingStays
<1>6. b.deletes = <<>> => a = <<>>
  BY PlacesUnrolled
<1>7. Flush(b) = [rows |-> d, inserts |-> <<>>, deletes |-> <<>>]
  BY DEF Flush
<1> HIDE DEF r, a
<1>8. d \in RowMaps /\ (a = <<>> => d = r)
  BY <1>2, <1>4, DeletesUnrolled
<1> HIDE DEF d
<1>9. Flush(b) \in Batch
  <2>1. <<>> \in Seq(Inserts) /\ <<>> \in Seq(Nat)
    OBVIOUS
  <2> QED
    BY <1>7, <1>8, <2>1 DEF Batch
<1> QED
  BY <1>3, <1>5, <1>6, <1>7, <1>8, <1>9 DEF r, a, d

\* An operation makes rows of rows.
LEMMA AppliedIs ==
  ASSUME NEW rows \in RowMaps, NEW op \in Ops
  PROVE  Applied(rows, op) \in RowMaps
<1>1. op.op = "INSERT" => InsertRow(rows, op) \in RowMaps
  BY OpIs, InsertIs DEF Inserts
<1>2. DeleteRow(rows, op.at) \in RowMaps
  BY OpIs, DeleteIs
<1>3. Sync(rows, op) \in RowMaps
  BY OpIs, SyncIs
<1>4. \A S : Without(rows, S) \in RowMaps
  BY WithoutIs
<1>5. op.op \in {"INSERT", "DELETE", "SYNC", "UPDATE", "INVALIDATE"}
  BY OpIs
<1> QED
  BY <1>1, <1>2, <1>3, <1>4, <1>5 DEF Applied

\* What a batch is before an operation is taken in: as it was, or flushed.
Opened(b, op) == IF EndsRun(b, op) THEN Flush(b) ELSE b

\* The run an operation does not belong to is processed, with the same rows after it.
LEMMA OpenedIs ==
  ASSUME NEW b \in Batch, NEW op \in Ops
  PROVE  /\ Opened(b, op) \in Batch
         /\ Flush(Opened(b, op)).rows = Flush(b).rows
         /\ Opened(b, op) = b \/ (Opened(b, op).inserts = <<>> /\ Opened(b, op).deletes = <<>>)
         /\ op.op = "INSERT" => Opened(b, op).deletes = <<>>
         /\ op.op = "DELETE" => Opened(b, op).inserts = <<>>
         /\ op.op \in {"SYNC", "UPDATE", "INVALIDATE"} =>
              Opened(b, op).inserts = <<>> /\ Opened(b, op).deletes = <<>>
<1>1. Flush(b) \in Batch /\ Flush(b).inserts = <<>> /\ Flush(b).deletes = <<>>
  BY FlushIs
<1>2. Flush(Flush(b)).rows = Flush(b).rows
  BY <1>1, FlushIs
<1> QED
  BY <1>1, <1>2 DEF Opened, EndsRun

\* A batch stays a batch.
LEMMA ProcessTyped ==
  ASSUME NEW b \in Batch, NEW op \in Ops
  PROVE  Process(b, op) \in Batch
<1> DEFINE c == Opened(b, op)
<1>1. c \in Batch
  BY OpenedIs
<1>2. /\ Process(b, op) = CASE op.op = "INSERT" -> [c EXCEPT !.inserts = Append(@, op)]
                            [] op.op = "DELETE" -> [c EXCEPT !.deletes = Append(@, op.at)]
                            [] op.op \in {"SYNC", "UPDATE"} -> [c EXCEPT !.rows = Sync(@, op)]
                            [] op.op = "INVALIDATE" -> [c EXCEPT !.rows = Without(@, op.at..op.to)]
  BY DEF Process, Opened
<1> HIDE DEF c
<1>3. c.rows \in RowMaps /\ c.inserts \in Seq(Inserts) /\ c.deletes \in Seq(Nat)
  BY <1>1 DEF Batch
<1>4. Sync(c.rows, op) \in RowMaps
  BY <1>3, OpIs, SyncIs
<1>5. \A S : Without(c.rows, S) \in RowMaps
  BY <1>3, WithoutIs
<1>6. Append(c.deletes, op.at) \in Seq(Nat)
  BY <1>3, OpIs
<1>7. op.op = "INSERT" => Append(c.inserts, op) \in Seq(Inserts)
  BY <1>3, OpIs
<1>8. op.op \in {"INSERT", "DELETE", "SYNC", "UPDATE", "INVALIDATE"}
  BY OpIs
<1> QED
  BY <1>1, <1>2, <1>4, <1>5, <1>6, <1>7, <1>8, ZenonT(60) DEF Batch

ProcessBy(ops) == [p \in (1..Len(ops)) \X Batch |-> Process(p[2], ops[p[1]])]
BatchOf(rows, ops) == FoldLeft(Process, Fresh(rows), ops)

\* The fold of the operations of an update, one at a time,
LEMMA OpsSteps ==
  ASSUME NEW rows \in RowMaps, NEW ops \in Seq(Ops)
  PROVE  /\ ProcessBy(ops) \in Steps(1..Len(ops), Batch) /\ Fresh(rows) \in Batch
         /\ \A k \in 1..Len(ops) : \A a \in Batch : ProcessBy(ops)[<<k, a>>] = Process(a, ops[k])
<1>1. ASSUME NEW k \in 1..Len(ops), NEW a \in Batch PROVE Process(a, ops[k]) \in Batch
  <2>1. ops[k] \in Ops
    BY SeqIs
  <2> QED
    BY <2>1, ProcessTyped
<1>2. Fresh(rows) \in Batch
  BY DEF Fresh, Batch
<1> QED
  BY <1>1, <1>2 DEF ProcessBy, Steps

\* its result by that fold,
LEMMA OpsAre ==
  ASSUME NEW rows \in RowMaps, NEW ops \in Seq(Ops)
  PROVE  FoldIs(Len(ops), Batch, Fresh(rows), ProcessBy(ops), BatchOf(rows, ops))
<1> DEFINE n == Len(ops)
           F == ProcessBy(ops)
           Body(g) == [I \in SUBSET (1..n) |-> IF I = {} THEN Fresh(rows) ELSE Process(g[I \ {Max(I)}], ops[Max(I)])]
<1>1. n \in Nat /\ DOMAIN ops = 1..n
  BY SeqIs
<1>2. /\ F \in Steps(1..n, Batch) /\ Fresh(rows) \in Batch
      /\ \A k \in 1..n : \A a \in Batch : F[<<k, a>>] = Process(a, ops[k])
  BY OpsSteps
<1> HIDE DEF n, F
<1>3. PICK f : f \in Running(n, Batch, Fresh(rows), F)
  BY <1>1, <1>2, Runs
<1>4. f = Body(f)
  <2>1. \A I \in SUBSET (1..n) : f[I] = IF I = {} THEN Fresh(rows) ELSE Process(f[I \ {Max(I)}], ops[Max(I)])
    BY <1>2, <1>3 DEF Running
  <2>2. f \in [SUBSET (1..n) -> Batch]
    BY <1>3 DEF Running
  <2> QED
    BY <2>1, <2>2
<1> DEFINE g == CHOOSE h : h = Body(h)
<1>5. g = Body(g)
  BY <1>4
<1>6. BatchOf(rows, ops) = g[1..n]
  BY <1>1 DEF BatchOf, FoldLeft, MapThenFoldSet
<1> HIDE DEF g
<1>7. g[{}] = Fresh(rows) /\ \A I \in SUBSET (1..n) : I # {} => g[I] = Process(g[I \ {Max(I)}], ops[Max(I)])
  BY <1>5
<1>8. \A I \in SUBSET (1..n) : I # {} /\ Max(I) \in 1..n /\ g[I \ {Max(I)}] \in Batch =>
        g[I] = F[<<Max(I), g[I \ {Max(I)}]>>]
  BY <1>2, <1>7
<1>9. FoldIs(n, Batch, Fresh(rows), F, g[1..n])
  BY <1>1, <1>2, <1>7, <1>8, RunsToEnd
<1> QED
  BY <1>6, <1>9 DEF n, F

\* and how it goes on.
LEMMA OpsUnrolled ==
  ASSUME NEW rows \in RowMaps
  PROVE  /\ BatchOf(rows, <<>>) = Fresh(rows)
         /\ \A ops \in Seq(Ops) :
              /\ BatchOf(rows, ops) \in Batch
              /\ \A x \in Ops : BatchOf(rows, Append(ops, x)) = Process(BatchOf(rows, ops), x)
<1>1. BatchOf(rows, <<>>) = Fresh(rows)
  <2>1. <<>> \in Seq(Ops) /\ Len(<<>>) = 0
    OBVIOUS
  <2>2. FoldIs(0, Batch, Fresh(rows), ProcessBy(<<>>), BatchOf(rows, <<>>))
    BY <2>1, OpsAre
  <2> QED
    BY <2>2, FoldNone
<1>2. ASSUME NEW ops \in Seq(Ops)
      PROVE  /\ BatchOf(rows, ops) \in Batch
             /\ \A x \in Ops : BatchOf(rows, Append(ops, x)) = Process(BatchOf(rows, ops), x)
  <2>1. FoldIs(Len(ops), Batch, Fresh(rows), ProcessBy(ops), BatchOf(rows, ops)) /\ Len(ops) \in Nat
    BY OpsAre, SeqIs
  <2>2. ASSUME NEW x \in Ops PROVE BatchOf(rows, Append(ops, x)) = Process(BatchOf(rows, ops), x)
    <3> DEFINE t == Append(ops, x)
               n == Len(ops)
               F == ProcessBy(ops)
               G == ProcessBy(t)
    <3>1. /\ t \in Seq(Ops) /\ Len(t) = n + 1 /\ t[n + 1] = x /\ n \in Nat
          /\ \A k \in 1..n : t[k] = ops[k]
      BY <2>1
    <3> HIDE DEF t
    <3>2. FoldIs(n + 1, Batch, Fresh(rows), G, BatchOf(rows, t))
      BY <3>1, OpsAre
    <3>3. Fresh(rows) \in Batch /\ \A k \in 1..n : \A a \in Batch : F[<<k, a>>] = Process(a, ops[k])
      BY OpsSteps
    <3>4. \A k \in 1..n + 1 : \A a \in Batch : G[<<k, a>>] = Process(a, t[k])
      BY <3>1, OpsSteps
    <3> HIDE DEF F, G, n
    <3>5. SameSteps(n, Batch, F, G)
      <4>1. ASSUME NEW k \in 1..n, NEW a \in Batch PROVE F[<<k, a>>] = G[<<k, a>>]
        <5>1. k \in 1..n + 1
          BY <3>1
        <5>2. G[<<k, a>>] = Process(a, t[k])
          BY <3>4, <5>1
        <5>3. F[<<k, a>>] = Process(a, ops[k])
          BY <3>3
        <5> QED
          BY <3>1, <5>2, <5>3
      <4> QED
        BY <4>1 DEF SameSteps
    <3>6. FoldIs(n, Batch, Fresh(rows), F, BatchOf(rows, ops))
      BY <2>1 DEF n, F
    <3>7. BatchOf(rows, t) = G[<<n + 1, BatchOf(rows, ops)>>] /\ BatchOf(rows, ops) \in Batch
      BY <3>1, <3>2, <3>3, <3>5, <3>6, FoldMore
    <3>8. n + 1 \in 1..n + 1
      BY <3>1
    <3> QED
      BY <3>1, <3>4, <3>7, <3>8 DEF t
  <2>3. BatchOf(rows, ops) \in Batch
    BY <2>1, FoldTyped
  <2> QED
    BY <2>2, <2>3
<1> QED
  BY <1>1, <1>2

\* An operation that goes up the list from the DELETE before it, if both are DELETEs.
Ascends(ops, op) ==
  ops # <<>> /\ op.op = "DELETE" /\ Last(ops).op = "DELETE" => op.at >= Last(ops).at

\* Operations in order have their last one in order, and those before it.
LEMMA OrderIs ==
  /\ InOrder(<<>>)
  /\ \A ops \in Seq(Ops) : \A op \in Ops :
       InOrder(Append(ops, op)) => InOrder(ops) /\ Ascends(ops, op)
<1>1. InOrder(<<>>)
  BY DEF InOrder
<1>2. ASSUME NEW ops \in Seq(Ops), NEW op \in Ops, InOrder(Append(ops, op))
      PROVE  InOrder(ops) /\ Ascends(ops, op)
  <2> DEFINE more == Append(ops, op)
             n == Len(ops)
  <2>1. n \in Nat /\ Len(more) = n + 1 /\ more[n + 1] = op /\ \A i \in 1..n : more[i] = ops[i]
    BY SeqIs
  <2>2. (ops # <<>> => n \in 1..n) /\ Last(ops) = ops[n] /\ \A i \in 1..n : ops[i].at \in Nat
    BY <2>1, SeqIs, OpIs DEF Last
  <2>3. \A i \in 1..(n + 1) - 1 :
          more[i].op = "DELETE" /\ more[i + 1].op = "DELETE" => more[i].at <= more[i + 1].at
    BY <1>2, <2>1 DEF InOrder
  <2>4. op.at \in Nat
    BY OpIs
  <2> HIDE DEF more, n
  <2>5. ASSUME NEW i \in 1..n - 1, ops[i].op = "DELETE", ops[i + 1].op = "DELETE"
        PROVE  ops[i].at <= ops[i + 1].at
    <3>1. i \in 1..n /\ i + 1 \in 1..n /\ i \in 1..(n + 1) - 1
      BY <2>1
    <3>2. more[i] = ops[i] /\ more[i + 1] = ops[i + 1]
      BY <2>1, <3>1
    <3> QED
      BY <2>3, <2>5, <3>1, <3>2
  <2>6. InOrder(ops)
    BY <2>5 DEF InOrder, n
  <2>7. ASSUME ops # <<>>, op.op = "DELETE", Last(ops).op = "DELETE"
        PROVE  op.at >= Last(ops).at
    <3>1. n \in 1..n /\ n \in 1..(n + 1) - 1 /\ more[n] = Last(ops) /\ more[n + 1] = op
      BY <2>1, <2>2, <2>7
    <3>2. Last(ops).at <= op.at
      BY <2>3, <2>7, <3>1
    <3>3. Last(ops).at \in Nat
      BY <2>2, <3>1
    <3> QED
      BY <2>4, <3>2, <3>3
  <2> QED
    BY <2>6, <2>7 DEF Ascends
<1> QED
  BY <1>1, <1>2

\* A batch holds one run at most, and the DELETEs of a run rise.
Kept(b, ops) ==
  /\ b.inserts = <<>> \/ b.deletes = <<>>
  /\ Rising(b.deletes)
  /\ b.deletes # <<>> => ops # <<>> /\ Last(ops).op = "DELETE" /\ Last(ops).at = Last(b.deletes)

\* To take in an operation is to apply it to what the batch stands for.
LEMMA ProcessIs ==
  ASSUME NEW b \in Batch, NEW ops \in Seq(Ops), NEW op \in Ops, Kept(b, ops), Ascends(ops, op)
  PROVE  /\ Kept(Process(b, op), Append(ops, op))
         /\ Flush(Process(b, op)).rows = Applied(Flush(b).rows, op)
<1> DEFINE c == Opened(b, op)
           p == Process(b, op)
           more == Append(ops, op)
<1>1. /\ c \in Batch /\ Flush(c).rows = Flush(b).rows
      /\ c = b \/ (c.inserts = <<>> /\ c.deletes = <<>>)
      /\ op.op = "INSERT" => c.deletes = <<>>
      /\ op.op = "DELETE" => c.inserts = <<>>
      /\ op.op \in {"SYNC", "UPDATE", "INVALIDATE"} => c.inserts = <<>> /\ c.deletes = <<>>
  BY OpenedIs
<1>2. /\ op.op = "INSERT" => p = [c EXCEPT !.inserts = Append(@, op)]
      /\ op.op = "DELETE" => p = [c EXCEPT !.deletes = Append(@, op.at)]
      /\ op.op \in {"SYNC", "UPDATE"} => p = [c EXCEPT !.rows = Sync(@, op)]
      /\ op.op = "INVALIDATE" => p = [c EXCEPT !.rows = Without(@, op.at..op.to)]
  BY DEF Process, Opened
<1>3. p \in Batch
  BY ProcessTyped
<1>4. more # <<>> /\ Last(more) = op
  BY DEF Last
<1>5. Rising(<<>>)
  BY DEF Rising
<1> HIDE DEF c, p, more
<1>6. c.rows \in RowMaps /\ c.inserts \in Seq(Inserts) /\ c.deletes \in Seq(Nat)
  BY <1>1 DEF Batch
<1>7. op.op \in {"INSERT", "DELETE", "SYNC", "UPDATE", "INVALIDATE"} /\ op.at \in Nat
  BY OpIs
<1>8. CASE op.op = "INSERT"
  <2>1. p.rows = c.rows /\ p.inserts = Append(c.inserts, op) /\ p.deletes = <<>> /\ op \in Inserts
    BY <1>1, <1>2, <1>8, OpIs DEF Batch
  <2>2. Flush(p).rows = FoldLeft(InsertRow, c.rows, Append(c.inserts, op))
    BY <1>3, <2>1, FlushIs
  <2>3. Flush(c).rows = FoldLeft(InsertRow, c.rows, c.inserts)
    BY <1>1, <1>8, FlushIs
  <2>4. FoldLeft(InsertRow, c.rows, Append(c.inserts, op)) = InsertRow(FoldLeft(InsertRow, c.rows, c.inserts), op)
    BY <1>6, <2>1, InsertsUnrolled
  <2>5. Flush(p).rows = Applied(Flush(b).rows, op)
    BY <1>1, <1>8, <2>2, <2>3, <2>4 DEF Applied
  <2>6. Kept(p, more)
    BY <1>5, <2>1 DEF Kept
  <2> QED
    BY <2>5, <2>6 DEF p, more
<1>9. CASE op.op = "DELETE"
  <2>1. p.rows = c.rows /\ p.deletes = Append(c.deletes, op.at) /\ p.inserts = <<>>
    BY <1>1, <1>2, <1>9 DEF Batch
  <2>2. Rising(c.deletes) /\ \A i \in 1..Len(c.deletes) : c.deletes[i] <= op.at
    <3>1. CASE c.deletes = <<>>
      BY <1>5, <3>1
    <3>2. CASE c.deletes # <<>>
      <4>1. Rising(c.deletes) /\ Last(c.deletes) <= op.at
        <5>1. /\ c = b /\ Rising(b.deletes) /\ ops # <<>> /\ Last(ops).op = "DELETE"
              /\ Last(ops).at = Last(b.deletes)
          BY <1>1, <3>2 DEF Kept
        <5> QED
          BY <1>9, <5>1 DEF Ascends
      <4>2. Len(c.deletes) \in 1..Len(c.deletes) /\ \A i \in 1..Len(c.deletes) : c.deletes[i] \in Nat
        BY <1>6, <3>2, SeqIs
      <4>3. ASSUME NEW i \in 1..Len(c.deletes) PROVE c.deletes[i] <= op.at
        <5>1. c.deletes[i] <= c.deletes[Len(c.deletes)]
          BY <4>1, <4>2 DEF Rising
        <5> QED
          BY <1>7, <4>1, <4>2, <5>1, SMTT(30) DEF Last
      <4> QED
        BY <4>1, <4>3
    <3> QED
      BY <3>1, <3>2
  <2>3. Rising(p.deletes) /\ Last(p.deletes) = op.at
    <3> DEFINE s == c.deletes
               t == Append(s, op.at)
               n == Len(s)
    <3>1. n \in Nat /\ Len(t) = n + 1 /\ t[n + 1] = op.at /\ \A i \in 1..n : t[i] = s[i] /\ s[i] \in Nat
      BY <1>6, <1>7
    <3> HIDE DEF s, t, n
    <3>2. ASSUME NEW i \in 1..n + 1, NEW j \in 1..n + 1, i <= j PROVE t[i] <= t[j]
      <4>1. CASE j \in 1..n
        <5>1. i \in 1..n
          BY <3>1, <3>2, <4>1
        <5>2. s[i] <= s[j]
          BY <2>2, <3>2, <4>1, <5>1 DEF Rising, s, n
        <5> QED
          BY <3>1, <4>1, <5>1, <5>2
      <4>2. CASE j = n + 1
        <5>1. CASE i \in 1..n
          BY <2>2, <3>1, <4>2, <5>1 DEF s, n
        <5>2. CASE i = n + 1
          BY <1>7, <3>1, <4>2, <5>2
        <5> QED
          BY <3>1, <5>1, <5>2
      <4> QED
        BY <3>1, <4>1, <4>2
    <3>3. Rising(t)
      BY <3>1, <3>2 DEF Rising
    <3>4. p.deletes = t
      BY <2>1 DEF t, s
    <3> QED
      BY <3>1, <3>3, <3>4 DEF Last
  <2>4. Flush(p).rows = FoldLeft(DeleteRow, c.rows, Append(c.deletes, op.at))
    BY <1>3, <2>1, <2>3, FlushIs
  <2>5. Flush(c).rows = FoldLeft(DeleteRow, c.rows, c.deletes)
    BY <1>1, <1>9, <2>2, FlushIs
  <2>6. FoldLeft(DeleteRow, c.rows, Append(c.deletes, op.at)) = DeleteRow(FoldLeft(DeleteRow, c.rows, c.deletes), op.at)
    BY <1>6, <1>7, DeletesUnrolled
  <2>7. Flush(p).rows = Applied(Flush(b).rows, op)
    BY <1>1, <1>9, <2>4, <2>5, <2>6 DEF Applied
  <2>8. Kept(p, more)
    BY <1>4, <1>9, <2>1, <2>3 DEF Kept
  <2> QED
    BY <2>7, <2>8 DEF p, more
<1>10. CASE op.op \in {"SYNC", "UPDATE", "INVALIDATE"}
  <2>1. c.inserts = <<>> /\ c.deletes = <<>>
    BY <1>1, <1>10
  <2>2. /\ p.inserts = <<>> /\ p.deletes = <<>>
        /\ p.rows = IF op.op = "INVALIDATE" THEN Without(c.rows, op.at..op.to) ELSE Sync(c.rows, op)
    BY <1>1, <1>2, <1>10, <2>1 DEF Batch
  <2>3. Flush(p).rows = p.rows
    BY <1>3, <2>2, FlushIs
  <2>4. Flush(c).rows = c.rows
    BY <1>1, <2>1, FlushIs
  <2>5. Flush(p).rows = Applied(Flush(b).rows, op)
    BY <1>1, <1>10, <2>2, <2>3, <2>4 DEF Applied
  <2>6. Kept(p, more)
    BY <1>5, <2>2 DEF Kept
  <2> QED
    BY <2>5, <2>6 DEF p, more
<1> QED
  BY <1>7, <1>8, <1>9, <1>10

\* handleMemberListUpdate applies the operations one after another.
LEMMA ProcessedIs ==
  ASSUME NEW rows \in RowMaps
  PROVE  /\ Processed(rows, <<>>) = rows /\ Kept(BatchOf(rows, <<>>), <<>>)
         /\ \A ops \in Seq(Ops) : Processed(rows, ops) \in RowMaps
         /\ \A ops \in Seq(Ops) : \A op \in Ops : Kept(BatchOf(rows, ops), ops) /\ Ascends(ops, op) =>
              /\ Kept(BatchOf(rows, Append(ops, op)), Append(ops, op))
              /\ Processed(rows, Append(ops, op)) = Applied(Processed(rows, ops), op)
<1>1. \A ops : Processed(rows, ops) = Flush(BatchOf(rows, ops)).rows
  BY DEF Processed, BatchOf, Fresh
<1>2. BatchOf(rows, <<>>) = Fresh(rows) /\ Fresh(rows) \in Batch
  <2>1. <<>> \in Seq(Ops)
    OBVIOUS
  <2> QED
    BY <2>1, OpsUnrolled, OpsSteps
<1>3. Processed(rows, <<>>) = rows
  BY <1>1, <1>2, FlushIs DEF Fresh
<1>4. Kept(BatchOf(rows, <<>>), <<>>)
  BY <1>2 DEF Kept, Fresh, Rising
<1>5. ASSUME NEW ops \in Seq(Ops) PROVE Processed(rows, ops) \in RowMaps
  <2>1. BatchOf(rows, ops) \in Batch
    BY OpsUnrolled
  <2>2. Flush(BatchOf(rows, ops)) \in Batch
    BY <2>1, FlushIs
  <2> QED
    BY <1>1, <2>2 DEF Batch
<1>6. ASSUME NEW ops \in Seq(Ops), NEW op \in Ops, Kept(BatchOf(rows, ops), ops), Ascends(ops, op)
      PROVE  /\ Kept(BatchOf(rows, Append(ops, op)), Append(ops, op))
             /\ Processed(rows, Append(ops, op)) = Applied(Processed(rows, ops), op)
  <2>1. BatchOf(rows, ops) \in Batch /\ BatchOf(rows, Append(ops, op)) = Process(BatchOf(rows, ops), op)
    BY OpsUnrolled
  <2> QED
    BY <1>1, <1>6, <2>1, ProcessIs
<1> QED
  BY <1>3, <1>4, <1>5, <1>6
-----------------------------------------------------------------------------
(* The gateway's list.                                                      *)

Agree(rows, s) == \A r \in DOMAIN rows : r < Len(s) => rows[r] = s[r + 1]

\* The lesser of two numbers.
LEMMA MinIs ==
  ASSUME NEW a \in Int, NEW b \in Int
  PROVE  Min({a, b}) \in {a, b} /\ Min({a, b}) <= a /\ Min({a, b}) <= b
<1>1. \E x \in {a, b} : \A y \in {a, b} : x <= y
  BY DEF Min
<1>2. Min({a, b}) \in {a, b} /\ \A y \in {a, b} : Min({a, b}) <= y
  BY <1>1 DEF Min
<1> QED
  BY <1>2

PutsOf(R, L, N) == {Puts("INSERT", r, x) : r \in R, x \in N} \cup {Puts("UPDATE", r, x) : r \in L, x \in N}
TakesOf(L) == {Takes("DELETE", r, r) : r \in L}
              \cup {Takes("INVALIDATE", Block * b, Block * b + Block - 1) : b \in Blocks}

\* The operations a list allows, one kind after another,
LEMMA OperationsAre ==
  ASSUME NEW s, NEW op \in Operations(s)
  PROVE  \/ \E r \in 0..Min({Len(s), MaxRow - 1}), x \in Items : op = Puts("INSERT", r, x)
         \/ \E r \in 0..Len(s) - 1, x \in Items : op = Puts("UPDATE", r, x)
         \/ \E r \in 0..Len(s) - 1 : op = Takes("DELETE", r, r)
         \/ \E b \in Blocks : op = Takes("INVALIDATE", Block * b, Block * b + Block - 1)
<1> DEFINE R == 0..Min({Len(s), MaxRow - 1})
           L == 0..Len(s) - 1
           N == Items \ ToSet(s)
<1>1. Operations(s) = PutsOf(R, L, N) \cup TakesOf(L)
  BY DEF Operations, PutsOf, TakesOf
<1>2. N \subseteq Items
  OBVIOUS
<1> HIDE DEF R, L, N
<1>3. ASSUME op \in PutsOf(R, L, N)
      PROVE  (\E r \in R, x \in N : op = Puts("INSERT", r, x)) \/ (\E r \in L, x \in N : op = Puts("UPDATE", r, x))
  BY <1>3 DEF PutsOf
<1>4. ASSUME op \in TakesOf(L)
      PROVE  \/ \E r \in L : op = Takes("DELETE", r, r)
             \/ \E b \in Blocks : op = Takes("INVALIDATE", Block * b, Block * b + Block - 1)
  BY <1>4 DEF TakesOf
<1>5. op \in PutsOf(R, L, N) \/ op \in TakesOf(L)
  BY <1>1
<1>6. CASE op \in PutsOf(R, L, N)
  BY <1>2, <1>3, <1>6, Zenon DEF R, L
<1>7. CASE op \in TakesOf(L)
  BY <1>4, <1>7, Zenon DEF L
<1> QED
  BY <1>5, <1>6, <1>7

\* and where they apply.
LEMMA OperationIs ==
  ASSUME NEW s \in Seq(Items), NEW op \in Operations(s)
  PROVE  /\ op \in Ops /\ op.op \in {"INSERT", "DELETE", "UPDATE", "INVALIDATE"}
         /\ op.op = "INSERT" => op.at \in 0..Len(s)
         /\ op.op \in {"UPDATE", "DELETE"} => op.at \in 0..Len(s) - 1
         /\ op.op \in {"INSERT", "UPDATE"} => Len(op.items) = 1 /\ op.items[1] \in Items
<1> DEFINE m == Min({Len(s), MaxRow - 1})
<1>1. Len(s) \in Nat
  BY SeqIs
<1>2. m \in Int /\ m <= Len(s)
  <2>1. Len(s) \in Int /\ MaxRow - 1 \in Int
    BY <1>1, MemberListAssumption
  <2> QED
    BY <2>1, MinIs
<1>3. ASSUME NEW o \in {"INSERT", "UPDATE"}, NEW r \in Nat, NEW x \in Items, op = Puts(o, r, x)
      PROVE  op \in Ops /\ op.op = o /\ op.at = r /\ Len(op.items) = 1 /\ op.items[1] \in Items
  <2>1. <<x>> \in Seq(Items) /\ Len(<<x>>) = 1 /\ <<x>>[1] = x /\ <<x>> # <<>>
    OBVIOUS
  <2>2. op = [op |-> o, at |-> r, to |-> r, items |-> <<x>>]
    BY <1>3 DEF Puts, Operation
  <2> QED
    BY <2>1, <2>2 DEF Ops
<1>4. ASSUME NEW o \in {"DELETE", "INVALIDATE"}, NEW r \in Nat, NEW e \in Nat, op = Takes(o, r, e)
      PROVE  op \in Ops /\ op.op = o /\ op.at = r
  <2>1. <<>> \in Seq(Items)
    OBVIOUS
  <2>2. op = [op |-> o, at |-> r, to |-> e, items |-> <<>>]
    BY <1>4 DEF Takes, Operation
  <2> QED
    BY <2>1, <2>2 DEF Ops
<1>5. ASSUME NEW b \in Blocks PROVE Block * b \in Nat /\ Block * b + Block - 1 \in Nat
  <2>1. b \in Nat /\ Block \in Nat \ {0}
    BY MemberListAssumption DEF Blocks
  <2> QED
    BY <2>1
<1>6. \/ \E r \in 0..m, x \in Items : op = Puts("INSERT", r, x)
      \/ \E r \in 0..Len(s) - 1, x \in Items : op = Puts("UPDATE", r, x)
      \/ \E r \in 0..Len(s) - 1 : op = Takes("DELETE", r, r)
      \/ \E b \in Blocks : op = Takes("INVALIDATE", Block * b, Block * b + Block - 1)
  BY OperationsAre
<1> HIDE DEF m
<1>7. CASE \E r \in 0..m, x \in Items : op = Puts("INSERT", r, x)
  <2>1. PICK r \in 0..m, x \in Items : op = Puts("INSERT", r, x)
    BY <1>7
  <2>2. r \in Nat /\ r <= Len(s)
    BY <1>1, <1>2
  <2> QED
    BY <1>1, <1>3, <2>1, <2>2
<1>8. CASE \E r \in 0..Len(s) - 1, x \in Items : op = Puts("UPDATE", r, x)
  BY <1>1, <1>3, <1>8
<1>9. CASE \E r \in 0..Len(s) - 1 : op = Takes("DELETE", r, r)
  BY <1>1, <1>4, <1>9
<1>10. CASE \E b \in Blocks : op = Takes("INVALIDATE", Block * b, Block * b + Block - 1)
  <2>1. PICK b \in Blocks : op = Takes("INVALIDATE", Block * b, Block * b + Block - 1)
    BY <1>10
  <2> DEFINE at == Block * b
             to == Block * b + Block - 1
  <2>2. op = Takes("INVALIDATE", at, to) /\ at \in Nat /\ to \in Nat
    BY <1>5, <2>1
  <2> HIDE DEF at, to
  <2>3. op \in Ops /\ op.op = "INVALIDATE"
    BY <1>4, <2>2
  <2> QED
    BY <2>3
<1> QED
  BY <1>6, <1>7, <1>8, <1>9, <1>10

\* The rows follow the list through an operation.
LEMMA OneApplied ==
  ASSUME NEW s \in Seq(Items), NEW op \in Operations(s), NEW rows \in RowMaps
  PROVE  /\ Shift(s, op) \in Seq(Items)
         /\ Agree(rows, s) => Agree(Applied(rows, op), Shift(s, op))
<1> DEFINE n == Len(s)
           at == op.at
           x == op.items[1]
           t == Shift(s, op)
           d == Applied(rows, op)
           D == DOMAIN rows
<1>1. /\ op \in Ops /\ op.op \in {"INSERT", "DELETE", "UPDATE", "INVALIDATE"}
      /\ op.op = "INSERT" => at \in 0..n
      /\ op.op \in {"UPDATE", "DELETE"} => at \in 0..n - 1
      /\ op.op \in {"INSERT", "UPDATE"} => Len(op.items) = 1 /\ x \in Items
  BY OperationIs
<1>2. n \in Nat /\ at \in Nat /\ D \in SUBSET Nat
  BY <1>1, SeqIs, OpIs, RowMapIs
<1>3. CASE op.op = "INSERT"
  <2>1. t = InsertAt(s, at + 1, x) /\ d = InsertRow(rows, op)
    BY <1>3 DEF Shift, Applied
  <2>2. /\ t \in Seq(Items) /\ Len(t) = n + 1
        /\ \A k \in 1..n + 1 : t[k] = IF k < at + 1 THEN s[k] ELSE IF k = at + 1 THEN x ELSE s[k - 1]
    <3>1. at + 1 \in 1..n + 1 /\ x \in Items
      BY <1>1, <1>2, <1>3
    <3> DEFINE i == at + 1
    <3> HIDE DEF i, x
    <3>2. i \in 1..Len(s) + 1
      BY <3>1 DEF i
    <3>3. /\ InsertAt(s, i, x) \in Seq(Items) /\ Len(InsertAt(s, i, x)) = Len(s) + 1
          /\ \A k \in 1..Len(s) + 1 : InsertAt(s, i, x)[k] = IF k < i THEN s[k] ELSE IF k = i THEN x ELSE s[k - 1]
      BY <3>1, <3>2, InsertAtIs
    <3> QED
      BY <2>1, <3>3 DEF i
  <2>3. \A r \in DOMAIN d :
          \/ r < at /\ r \in D /\ d[r] = rows[r]
          \/ r = at /\ d[r] = x
          \/ r > at /\ r - 1 \in D /\ d[r] = rows[r - 1]
    BY <1>1, <1>2, <1>3, <2>1, InsertIs
  <2>9. DOMAIN d \in SUBSET Nat
    BY <1>1, <1>2, <1>3, <2>1, InsertIs, RowMapIs
  <2> HIDE DEF t, d, x, at, n, D
  <2>4. ASSUME Agree(rows, s), NEW r \in DOMAIN d, r < n + 1 PROVE d[r] = t[r + 1]
    <3>1. CASE r < at /\ r \in D /\ d[r] = rows[r]
      <4>1. r \in Nat /\ r < n /\ r + 1 \in 1..n + 1 /\ r + 1 < at + 1
        BY <1>1, <1>2, <1>3, <3>1
      <4>2. rows[r] = s[r + 1]
        BY <2>4, <3>1, <4>1 DEF Agree, n, D
      <4> QED
        BY <2>2, <3>1, <4>1, <4>2
    <3>2. CASE r = at /\ d[r] = x
      BY <1>1, <1>2, <1>3, <2>2, <3>2
    <3>3. CASE r > at /\ r - 1 \in D /\ d[r] = rows[r - 1]
      <4>1. r \in Nat /\ r - 1 < n /\ r + 1 \in 1..n + 1 /\ ~(r + 1 < at + 1) /\ r + 1 # at + 1
        <5>1. r - 1 \in Nat
          BY <1>2, <3>3
        <5>2. r \in Nat
          BY <2>9
        <5> QED
          BY <1>2, <2>4, <3>3, <5>2
      <4>2. rows[r - 1] = s[(r - 1) + 1] /\ (r - 1) + 1 = r /\ (r + 1) - 1 = r
        BY <2>4, <3>3, <4>1 DEF Agree, n, D
      <4>3. t[r + 1] = s[(r + 1) - 1]
        BY <2>2, <4>1
      <4> QED
        BY <3>3, <4>2, <4>3
    <3> QED
      BY <2>3, <3>1, <3>2, <3>3
  <2>6. Agree(rows, s) => Agree(d, t)
    BY <2>2, <2>4 DEF Agree
  <2> QED
    BY <2>2, <2>6 DEF t, d
<1>4. CASE op.op = "DELETE"
  <2>1. t = RemoveAt(s, at + 1) /\ d = DeleteRow(rows, at)
    BY <1>4 DEF Shift, Applied
  <2>2. /\ t \in Seq(Items) /\ Len(t) = n - 1
        /\ \A k \in 1..n - 1 : t[k] = IF k < at + 1 THEN s[k] ELSE s[k + 1]
    <3> DEFINE i == at + 1
    <3>1. i \in 1..Len(s)
      BY <1>1, <1>2, <1>4
    <3> HIDE DEF i
    <3>2. /\ RemoveAt(s, i) \in Seq(Items) /\ Len(RemoveAt(s, i)) = Len(s) - 1
          /\ \A k \in 1..Len(s) - 1 : RemoveAt(s, i)[k] = IF k < i THEN s[k] ELSE s[k + 1]
      BY <3>1, RemoveAtIs
    <3> QED
      BY <2>1, <3>2 DEF i
  <2>3. \A r \in DOMAIN d :
          \/ r < at /\ r \in D /\ d[r] = rows[r]
          \/ r >= at /\ r + 1 \in D /\ d[r] = rows[r + 1]
    BY <1>2, <2>1, DeleteIs
  <2>4. DOMAIN d \in SUBSET Nat
    BY <1>2, <2>1, DeleteIs, RowMapIs
  <2> HIDE DEF t, d, x, at, n, D
  <2>5. ASSUME Agree(rows, s), NEW r \in DOMAIN d, r < n - 1 PROVE d[r] = t[r + 1]
    <3>1. r \in Nat /\ r + 1 \in 1..n - 1 /\ r < n /\ r + 1 < n
      BY <1>2, <2>4, <2>5
    <3>2. CASE r < at /\ r \in D /\ d[r] = rows[r]
      <4>1. rows[r] = s[r + 1] /\ r + 1 < at + 1
        BY <1>2, <2>5, <3>1, <3>2 DEF Agree, n, D
      <4> QED
        BY <2>2, <3>1, <3>2, <4>1
    <3>3. CASE r >= at /\ r + 1 \in D /\ d[r] = rows[r + 1]
      <4>1. rows[r + 1] = s[(r + 1) + 1] /\ ~(r + 1 < at + 1)
        BY <1>2, <2>5, <3>1, <3>3 DEF Agree, n, D
      <4> QED
        BY <2>2, <3>1, <3>3, <4>1
    <3> QED
      BY <2>3, <3>2, <3>3
  <2>7. Agree(rows, s) => Agree(d, t)
    BY <2>2, <2>5 DEF Agree
  <2> QED
    BY <2>2, <2>7 DEF t, d
<1>5. CASE op.op = "UPDATE"
  <2>1. t = ReplaceAt(s, at + 1, x) /\ d = Sync(rows, op)
    BY <1>5 DEF Shift, Applied
  <2>2. /\ t \in Seq(Items) /\ Len(t) = n
        /\ \A k \in 1..n : t[k] = IF k = at + 1 THEN x ELSE s[k]
    <3> DEFINE i == at + 1
    <3>1. i \in 1..Len(s) /\ x \in Items
      BY <1>1, <1>2, <1>5
    <3> HIDE DEF i, x
    <3>2. /\ ReplaceAt(s, i, x) \in Seq(Items) /\ Len(ReplaceAt(s, i, x)) = Len(s)
          /\ \A k \in 1..Len(s) : ReplaceAt(s, i, x)[k] = IF k = i THEN x ELSE s[k]
      BY <3>1, ReplaceAtIs
    <3> QED
      BY <2>1, <3>2 DEF i
  <2>3. op.items \in Seq(Items) /\ Len(op.items) = 1 /\ op.items # <<>> /\ at + 1 - 1 = at
    BY <1>1, <1>2, <1>5, OpIs
  <2>4. \A r \in DOMAIN d : r # at => r \in D /\ d[r] = rows[r]
    <3>1. ASSUME NEW r \in DOMAIN Sync(rows, op), r \notin op.at..op.at + Len(op.items) - 1
          PROVE  r \in DOMAIN rows /\ Sync(rows, op)[r] = rows[r]
      BY <1>2, <2>3, <3>1, SyncIs, ZenonT(60)
    <3>2. \A r : r # at => r \notin at..at + Len(op.items) - 1
      BY <1>2, <2>3
    <3> QED
      BY <2>1, <3>1, <3>2
  <2>5. d[at] = x
    <3>1. \A r \in at..at + Len(op.items) - 1 : d[r] = op.items[r - at + 1]
      BY <1>2, <2>1, <2>3, SyncIs
    <3>2. at \in at..at + Len(op.items) - 1 /\ at - at + 1 = 1
      BY <1>2, <2>3
    <3> QED
      BY <3>1, <3>2
  <2> HIDE DEF t, d, x, at, n, D
  <2>6. ASSUME Agree(rows, s), NEW r \in DOMAIN d, r < n PROVE d[r] = t[r + 1]
    <3>1. CASE r = at
      BY <1>1, <1>2, <1>5, <2>2, <2>5, <3>1
    <3>2. CASE r # at
      <4>1. r \in D /\ d[r] = rows[r] /\ r \in Nat /\ r + 1 \in 1..n /\ r + 1 # at + 1
        BY <1>2, <2>4, <2>6, <3>2
      <4>2. rows[r] = s[r + 1]
        BY <2>6, <4>1 DEF Agree, D, n
      <4> QED
        BY <2>2, <4>1, <4>2
    <3> QED
      BY <3>1, <3>2
  <2>8. Agree(rows, s) => Agree(d, t)
    BY <2>2, <2>6 DEF Agree
  <2> QED
    BY <2>2, <2>8 DEF t, d
<1>6. CASE op.op = "INVALIDATE"
  <2>1. t = s /\ d = Without(rows, op.at..op.to)
    BY <1>6 DEF Shift, Applied
  <2>2. ASSUME NEW S, NEW r \in DOMAIN Without(rows, S)
        PROVE  r \in DOMAIN rows /\ Without(rows, S)[r] = rows[r]
    <3>1. /\ DOMAIN Without(rows, S) = DOMAIN rows \ S
          /\ \A k \in DOMAIN rows \ S : Without(rows, S)[k] = rows[k]
      BY WithoutIs
    <3> QED
      BY <2>2, <3>1
  <2>3. \A r \in DOMAIN d : r \in D /\ d[r] = rows[r]
    BY <2>1, <2>2, Zenon
  <2> HIDE DEF t, d
  <2>4. Agree(rows, s) => Agree(d, s)
    BY <2>3 DEF Agree
  <2> QED
    BY <2>1, <2>4 DEF t, d
<1> QED
  BY <1>1, <1>3, <1>4, <1>5, <1>6
-----------------------------------------------------------------------------
(* What the gateway reports.                                                *)

\* Operations that were made of a list: the batch they end up in, and the rows after them.
Followed(s, u) ==
  /\ u[1] \in Seq(Ops) /\ u[2] \in Seq(Items)
  /\ InOrder(u[1]) => \A rows \in RowMaps :
       /\ Kept(BatchOf(rows, u[1]), u[1])
       /\ Agree(rows, s) => Agree(Processed(rows, u[1]), u[2])

\* No operation has been made yet,
LEMMA NoneFollowed ==
  ASSUME NEW s \in Seq(Items)
  PROVE  Followed(s, <<<<>>, s>>)
<1>1. <<>> \in Seq(Ops)
  OBVIOUS
<1> DEFINE u == <<<<>>, s>>
<1>2. u[1] = <<>> /\ u[2] = s
  OBVIOUS
<1> HIDE DEF u
<1>3. ASSUME NEW rows \in RowMaps
      PROVE  Kept(BatchOf(rows, <<>>), <<>>) /\ (Agree(rows, s) => Agree(Processed(rows, <<>>), s))
  BY ProcessedIs
<1>4. Followed(s, u)
  BY <1>1, <1>2, <1>3 DEF Followed
<1> QED
  BY <1>4 DEF u

\* or one more.
LEMMA NextFollowed ==
  ASSUME NEW s \in Seq(Items), NEW u, Followed(s, u), NEW op \in Operations(u[2])
  PROVE  Followed(s, Reported(u, op)) /\ Len(Reported(u, op)[1]) = Len(u[1]) + 1
<1> DEFINE ops == u[1]
           t == u[2]
           more == Append(ops, op)
           next == Shift(t, op)
           v == Reported(u, op)
<1>1. v[1] = more /\ v[2] = next
  BY DEF Reported
<1>2. ops \in Seq(Ops) /\ t \in Seq(Items)
  BY DEF Followed
<1>3. op \in Ops /\ op \in Operations(t)
  BY <1>2, OperationIs
<1>4. more \in Seq(Ops) /\ Len(more) = Len(ops) + 1 /\ Len(ops) \in Nat
  BY <1>2, <1>3
<1>5. InOrder(ops) => \A rows \in RowMaps :
        /\ Kept(BatchOf(rows, ops), ops)
        /\ Agree(rows, s) => Agree(Processed(rows, ops), t)
  BY DEF Followed
<1> HIDE DEF v, t, ops
<1>6. ASSUME InOrder(more), NEW rows \in RowMaps
      PROVE  /\ Kept(BatchOf(rows, more), more)
             /\ Agree(rows, s) => Agree(Processed(rows, more), next)
  <2>1. InOrder(ops) /\ Ascends(ops, op)
    BY <1>2, <1>3, <1>6, OrderIs
  <2>2. Kept(BatchOf(rows, ops), ops) /\ (Agree(rows, s) => Agree(Processed(rows, ops), t))
    BY <1>5, <2>1
  <2>3. /\ Processed(rows, ops) \in RowMaps
        /\ Kept(BatchOf(rows, more), more)
        /\ Processed(rows, more) = Applied(Processed(rows, ops), op)
    BY <1>2, <1>3, <2>1, <2>2, ProcessedIs
  <2> DEFINE p == Processed(rows, ops)
  <2> HIDE DEF p, next, more
  <2>4. Agree(p, t) => Agree(Applied(p, op), next)
    BY <1>2, <1>3, <2>3, OneApplied DEF p, next
  <2> QED
    BY <2>2, <2>3, <2>4 DEF p
<1>7. next \in Seq(Items)
  <2>1. \E rows : rows \in RowMaps
    <3> DEFINE f == [r \in {} |-> 0]
    <3>1. f \in [{} -> Items] /\ {} \in SUBSET Nat
      OBVIOUS
    <3> QED
      BY <3>1, IsRowMap
  <2> QED
    BY <1>2, <1>3, <2>1, OneApplied
<1> HIDE DEF next, more
<1>8. Followed(s, v)
  BY <1>1, <1>4, <1>6, <1>7 DEF Followed
<1> QED
  BY <1>1, <1>4, <1>8 DEF v, ops

\* Followed for no more than k operations.
Trails(s, k) == {u \in Seq(Ops) \X Seq(Items) : Followed(s, u) /\ Len(u[1]) <= k}

\* What may be reported after one more operation,
LEMMA MoreTrails ==
  ASSUME NEW s \in Seq(Items), NEW k \in Nat, NEW U \in SUBSET Trails(s, k)
  PROVE  MoreOps(U) \in SUBSET Trails(s, k + 1)
<1>1. ASSUME NEW v \in MoreOps(U)
      PROVE  v \in U \/ \E u \in U : \E op \in Operations(u[2]) : v = Reported(u, op)
  BY <1>1 DEF MoreOps
<1>2. ASSUME NEW u \in U
      PROVE  u \in Seq(Ops) \X Seq(Items) /\ Followed(s, u) /\ Len(u[1]) <= k /\ Len(u[1]) \in Nat
  BY DEF Trails
<1>3. ASSUME NEW u \in U PROVE u \in Trails(s, k + 1)
  BY <1>2 DEF Trails
<1>4. ASSUME NEW u \in U, NEW op \in Operations(u[2])
      PROVE  Reported(u, op) \in Trails(s, k + 1)
  <2>1. Followed(s, Reported(u, op)) /\ Len(Reported(u, op)[1]) = Len(u[1]) + 1
    BY <1>2, NextFollowed
  <2>2. Reported(u, op) = <<Reported(u, op)[1], Reported(u, op)[2]>>
    BY DEF Reported
  <2>3. Reported(u, op)[1] \in Seq(Ops) /\ Reported(u, op)[2] \in Seq(Items)
    BY <2>1 DEF Followed
  <2> HIDE DEF Reported
  <2>4. Len(Reported(u, op)[1]) <= k + 1
    BY <1>2, <2>1
  <2>5. Reported(u, op) \in Seq(Ops) \X Seq(Items)
    BY <2>2, <2>3
  <2> QED
    BY <2>1, <2>4, <2>5, Zenon DEF Trails
<1>5. ASSUME NEW v \in MoreOps(U) PROVE v \in Trails(s, k + 1)
  BY <1>1, <1>3, <1>4, Zenon
<1> QED
  BY <1>5

Told == SUBSET (Seq(Ops) \X Seq(Items))

\* whatever was reported before.
LEMMA MoreTold ==
  ASSUME NEW U \in Told
  PROVE  MoreOps(U) \in Told
<1>1. ASSUME NEW v \in MoreOps(U)
      PROVE  v \in U \/ \E u \in U : \E op \in Operations(u[2]) : v = Reported(u, op)
  BY <1>1 DEF MoreOps
<1>2. ASSUME NEW u \in U, NEW op \in Operations(u[2])
      PROVE  Reported(u, op) \in Seq(Ops) \X Seq(Items)
  <2>1. u[1] \in Seq(Ops) /\ u[2] \in Seq(Items)
    BY DEF Told
  <2>2. \E rows : rows \in RowMaps
    <3> DEFINE f == [r \in {} |-> 0]
    <3>1. f \in [{} -> Items] /\ {} \in SUBSET Nat
      OBVIOUS
    <3> QED
      BY <3>1, IsRowMap
  <2>3. op \in Ops /\ Shift(u[2], op) \in Seq(Items)
    BY <2>1, <2>2, OperationIs, OneApplied
  <2>4. Append(u[1], op) \in Seq(Ops)
    BY <2>1, <2>3
  <2> QED
    BY <2>3, <2>4 DEF Reported
<1>3. ASSUME NEW v \in MoreOps(U) PROVE v \in Seq(Ops) \X Seq(Items)
  <2>1. CASE v \in U
    BY <2>1 DEF Told
  <2>2. CASE v \notin U
    BY <1>1, <1>2, <2>2, Zenon
  <2> QED
    BY <2>1, <2>2
<1> QED
  BY <1>3 DEF Told

\* Every update the gateway may report was made operation by operation.
LEMMA UpdatesFollow ==
  ASSUME NEW s \in Seq(Items), NEW u \in Updates(s)
  PROVE  Followed(s, u) /\ Len(u[1]) <= MaxOps
<1> DEFINE n == MaxOps
           t == [i \in 1..MaxOps |-> i]
           base == {<<<<>>, s>>}
           F == [p \in (1..n) \X Told |-> MoreOps(p[2])]
           Body(g) == [I \in SUBSET (1..n) |-> IF I = {} THEN base ELSE MoreOps(g[I \ {Max(I)}])]
<1>1. n \in Nat /\ DOMAIN t = 1..n /\ Len(t) = n
  BY MemberListAssumption
<1>2. base \in Told /\ base \in SUBSET Trails(s, 0)
  <2>1. Followed(s, <<<<>>, s>>)
    BY NoneFollowed
  <2> DEFINE v == <<<<>>, s>>
  <2>2. v[1] = <<>> /\ <<>> \in Seq(Ops) /\ Len(<<>>) = 0
    OBVIOUS
  <2>3. v \in Seq(Ops) \X Seq(Items)
    BY <2>2
  <2>4. base = {v}
    OBVIOUS
  <2> HIDE DEF v, base
  <2>5. Followed(s, v)
    BY <2>1 DEF v
  <2>6. v \in Trails(s, 0)
    BY <2>2, <2>3, <2>5 DEF Trails
  <2> QED
    BY <2>3, <2>4, <2>6 DEF Told
<1>3. \A k \in 1..n : \A a \in Told : F[<<k, a>>] = MoreOps(a)
  OBVIOUS
<1>4. F \in Steps(1..n, Told)
  <2>1. ASSUME NEW p \in (1..n) \X Told PROVE MoreOps(p[2]) \in Told
    BY MoreTold
  <2> QED
    BY <2>1 DEF Steps
<1> HIDE DEF F, base
<1>5. PICK f : f \in Running(n, Told, base, F)
  <2> HIDE DEF n
  <2> QED
    BY <1>1, <1>2, <1>4, Runs
<1>6. f = Body(f)
  <2>1. \A I \in SUBSET (1..n) : f[I] = IF I = {} THEN base ELSE MoreOps(f[I \ {Max(I)}])
    BY <1>3, <1>5 DEF Running
  <2>2. f \in [SUBSET (1..n) -> Told]
    BY <1>5 DEF Running
  <2> QED
    BY <2>1, <2>2
<1> DEFINE g == CHOOSE h : h = Body(h)
<1>7. g = Body(g)
  BY <1>6
<1>8. Updates(s) = g[1..n]
  BY <1>1 DEF Updates, FoldLeft, MapThenFoldSet, base
<1> HIDE DEF g
<1>9. g[{}] = base /\ \A I \in SUBSET (1..n) : I # {} => g[I] = MoreOps(g[I \ {Max(I)}])
  BY <1>7
<1>10. \A I \in SUBSET (1..n) : I # {} /\ Max(I) \in 1..n /\ g[I \ {Max(I)}] \in Told =>
         g[I] = F[<<Max(I), g[I \ {Max(I)}]>>]
  BY <1>3, <1>9
<1> HIDE DEF n
<1>11. FoldIs(n, Told, base, F, g[1..n])
  BY <1>1, <1>2, <1>4, <1>9, <1>10, RunsToEnd
<1>12. PICK h \in Chains(n, Told, base, F) : Updates(s) = h[n]
  BY <1>8, <1>11 DEF FoldIs
<1>13. /\ h \in [0..n -> Told] /\ h[0] = base
       /\ \A k \in 1..n : h[k] = F[<<k, h[k - 1]>>]
  BY <1>12 DEF Chains
<1> DEFINE T == {k \in Nat : k <= n => h[k] \in SUBSET Trails(s, k)}
<1>14. 0 \in T
  BY <1>2, <1>13
<1>15. ASSUME NEW k \in Nat, k \in T PROVE k + 1 \in T
  <2>1. CASE k + 1 <= n
    <3>1. h[k + 1] = F[<<k + 1, h[(k + 1) - 1]>>] /\ (k + 1) - 1 = k /\ k + 1 \in 1..n
      BY <1>1, <1>13, <2>1
    <3>2. h[k] \in Told /\ h[k] \in SUBSET Trails(s, k)
      BY <1>1, <1>13, <1>15, <2>1
    <3>3. h[k + 1] = MoreOps(h[k])
      BY <1>3, <3>1, <3>2
    <3>4. MoreOps(h[k]) \in SUBSET Trails(s, k + 1)
      BY <3>2, MoreTrails
    <3> QED
      BY <3>3, <3>4
  <2>2. CASE ~(k + 1 <= n)
    BY <2>2
  <2> QED
    BY <2>1, <2>2
<1>16. T = Nat
  <2>1. T \in SUBSET Nat
    OBVIOUS
  <2> HIDE DEF T
  <2> QED
    BY <1>14, <1>15, <2>1, AllNaturals
<1>17. Updates(s) \in SUBSET Trails(s, n)
  <2>1. n \in T /\ n <= n
    BY <1>1, <1>16
  <2> QED
    BY <1>12, <2>1
<1> QED
  BY <1>17 DEF Trails, n
-----------------------------------------------------------------------------
(* The rows of whole blocks.                                                *)

\* The block of a row.
LEMMA DivIs ==
  ASSUME NEW B \in Nat \ {0}, NEW r \in Nat
  PROVE  r \div B \in Nat /\ B * (r \div B) <= r /\ r <= B * (r \div B) + B - 1
OBVIOUS

\* The blocks of rows in order are in order.
LEMMA DivRises ==
  ASSUME NEW B \in Nat \ {0}, NEW r \in Nat, NEW q \in Nat, r <= q
  PROVE  r \div B <= q \div B
<1> DEFINE x == r \div B
           y == q \div B
<1>1. x \in Nat /\ y \in Nat /\ B * x <= r /\ q <= B * y + B - 1
  BY DivIs
<1> HIDE DEF x, y
<1>2. SUFFICES ASSUME x >= y + 1 PROVE FALSE
  BY <1>1 DEF x, y
<1>3. B * x >= B * (y + 1)
  BY <1>1, <1>2
<1>4. B * (y + 1) = B * y + B
  BY <1>1
<1>5. B * x \in Nat /\ B * y \in Nat /\ B * (y + 1) \in Nat
  BY <1>1
<1> QED
  BY <1>1, <1>3, <1>4, <1>5

SyncBy(s, b) ==
  Operation("SYNC", Block * b, Block * b + Block - 1, SubSeq(s, Block * b + 1, Min({Len(s), Block * b + Block})))

Wrong(rows, s) == {r \in DOMAIN rows : r < Len(s) /\ rows[r] # s[r + 1]}

\* Part of a sequence.
LEMMA PartIs ==
  ASSUME NEW S, NEW s \in Seq(S), NEW p \in Nat \ {0}, NEW m \in Nat, m <= Len(s)
  PROVE  /\ SubSeq(s, p, m) \in Seq(S)
         /\ m < p => SubSeq(s, p, m) = <<>>
         /\ m >= p => SubSeq(s, p, m) # <<>> /\ Len(SubSeq(s, p, m)) = m - p + 1
         /\ \A i \in 1..m - p + 1 : SubSeq(s, p, m)[i] = s[p + i - 1]
<1>1. SubSeq(s, p, m) \in Seq(S)
  OBVIOUS
<1>2. m < p => SubSeq(s, p, m) = <<>>
  OBVIOUS
<1>3. m >= p => Len(SubSeq(s, p, m)) = m - p + 1
  OBVIOUS
<1>4. m >= p => SubSeq(s, p, m) # <<>>
  <2> DEFINE t == SubSeq(s, p, m)
  <2>1. m >= p => Len(t) = m - p + 1
    BY <1>3
  <2> HIDE DEF t
  <2>2. m >= p => t # <<>>
    BY <2>1
  <2> QED
    BY <2>2 DEF t
<1>5. ASSUME NEW i \in 1..m - p + 1 PROVE SubSeq(s, p, m)[i] = s[p + i - 1]
  <2>1. m >= p
    OBVIOUS
  <2> QED
    BY <2>1
<1> QED
  BY <1>1, <1>2, <1>3, <1>4, <1>5

\* A SYNC of a block rights its rows, and adds none beyond the list.
LEMMA SyncByIs ==
  ASSUME NEW s \in Seq(Items), NEW b \in Nat
  PROVE  /\ SyncBy(s, b) \in Ops /\ SyncBy(s, b).op = "SYNC"
         /\ \A rows \in RowMaps :
              /\ Applied(rows, SyncBy(s, b)) \in RowMaps
              /\ Wrong(Applied(rows, SyncBy(s, b)), s) \subseteq {r \in Wrong(rows, s) : r \div Block # b}
              /\ DOMAIN Applied(rows, SyncBy(s, b)) \subseteq DOMAIN rows \cup (0..Len(s) - 1)
<1> DEFINE at == Block * b
           to == Block * b + Block - 1
           e == Block * b + Block
           m == Min({Len(s), e})
           t == SubSeq(s, at + 1, m)
           op == SyncBy(s, b)
<1>1. op = [op |-> "SYNC", at |-> at, to |-> to, items |-> t]
  BY DEF SyncBy, Operation
<1>2. at \in Nat /\ to \in Nat /\ e \in Nat /\ to = e - 1 /\ Block \in Nat \ {0}
  BY MemberListAssumption
<1>5. Len(s) \in Nat
  BY SeqIs
<1>3. /\ t \in Seq(Items) /\ m \in Nat /\ m <= Len(s) /\ m <= e /\ (m = Len(s) \/ m = e)
      /\ t = <<>> <=> m <= at
      /\ m > at => Len(t) = m - at /\ \A i \in 1..m - at : t[i] = s[at + i]
  <2>1. Len(s) \in Int /\ e \in Int
    BY <1>2, <1>5
  <2> HIDE DEF at, e
  <2>2. m \in Nat /\ m <= Len(s) /\ m <= e /\ (m = Len(s) \/ m = e)
    BY <1>2, <1>5, <2>1, MinIs
  <2> DEFINE p == at + 1
  <2>3. p \in Nat \ {0} /\ (m <= at <=> m < p) /\ (m >= p <=> m > at) /\ m - p + 1 = m - at /\ \A i \in Int : p + i - 1 = at + i
    BY <1>2, <2>2
  <2>4. t = SubSeq(s, p, m)
    OBVIOUS
  <2> HIDE DEF m, p, t
  <2>5. /\ t \in Seq(Items)
        /\ m < p => t = <<>>
        /\ m >= p => t # <<>> /\ Len(t) = m - p + 1
        /\ \A i \in 1..m - p + 1 : t[i] = s[p + i - 1]
    <3>1. p \in Nat \ {0} /\ m \in Nat /\ m <= Len(s)
      BY <2>2, <2>3
    <3>2. /\ SubSeq(s, p, m) \in Seq(Items)
          /\ m < p => SubSeq(s, p, m) = <<>>
          /\ m >= p => SubSeq(s, p, m) # <<>> /\ Len(SubSeq(s, p, m)) = m - p + 1
          /\ \A i \in 1..m - p + 1 : SubSeq(s, p, m)[i] = s[p + i - 1]
      BY <3>1, PartIs, ZenonT(30)
    <3> QED
      BY <2>4, <3>2, Zenon
  <2>6. ASSUME NEW i \in 1..m - at PROVE t[i] = s[at + i]
    <3>1. i \in 1..m - p + 1 /\ i \in Int
      BY <2>3
    <3>2. t[i] = s[p + i - 1] /\ p + i - 1 = at + i
      BY <2>3, <2>5, <3>1
    <3> QED
      BY <3>2
  <2> QED
    BY <1>2, <2>2, <2>3, <2>5, <2>6, SMTT(30)
<1>4. \A r \in Nat : r \div Block = b => at <= r /\ r <= to
  BY <1>2, DivIs
<1> HIDE DEF op, at, to, e, m, t
<1>6. op \in Ops /\ op.op = "SYNC" /\ op.at = at /\ op.to = to /\ op.items = t
  BY <1>1, <1>2, <1>3 DEF Ops
<1>7. ASSUME NEW rows \in RowMaps
      PROVE  /\ Applied(rows, op) \in RowMaps
             /\ Wrong(Applied(rows, op), s) \subseteq {r \in Wrong(rows, s) : r \div Block # b}
             /\ DOMAIN Applied(rows, op) \subseteq DOMAIN rows \cup (0..Len(s) - 1)
  <2> DEFINE d == Applied(rows, op)
  <2>1. d = Sync(rows, op) /\ d \in RowMaps
    BY <1>6, AppliedIs DEF Applied
  <2>2. DOMAIN d \in SUBSET Nat /\ DOMAIN rows \in SUBSET Nat
    BY <2>1, RowMapIs
  <2>0. /\ op.items = <<>> => Sync(rows, op) = Without(rows, op.at..op.to)
        /\ op.items # <<>> =>
             /\ \A r \in op.at..op.at + Len(op.items) - 1 :
                  r \in DOMAIN Sync(rows, op) /\ Sync(rows, op)[r] = op.items[r - op.at + 1]
             /\ \A r \in DOMAIN Sync(rows, op) : r \notin op.at..op.at + Len(op.items) - 1 =>
                  r \in DOMAIN rows /\ Sync(rows, op)[r] = rows[r]
    <3>1. op.at \in Nat /\ op.items \in Seq(Items)
      BY <1>6, OpIs
    <3> QED
      BY <3>1, SyncIs
  <2>3. CASE t = <<>>
    <3>1. d = Without(rows, at..to) /\ m <= at
      BY <1>2, <1>3, <1>6, <2>1, <2>3, <2>0
    <3>2. /\ DOMAIN Without(rows, at..to) = DOMAIN rows \ (at..to)
          /\ \A r \in DOMAIN rows \ (at..to) : Without(rows, at..to)[r] = rows[r]
      BY WithoutIs
    <3> HIDE DEF d
    <3>3. DOMAIN d = DOMAIN rows \ (at..to) /\ \A r \in DOMAIN d : d[r] = rows[r]
      BY <3>1, <3>2
    <3>4. ASSUME NEW r \in DOMAIN d PROVE r \div Block # b
      <4>1. r \in Nat /\ r \notin at..to
        BY <2>2, <3>3
      <4>2. r \div Block = b => at <= r /\ r <= to
        BY <1>4, <4>1
      <4>3. ~(at <= r /\ r <= to)
        BY <1>2, <4>1
      <4> QED
        BY <4>2, <4>3
    <3>5. Wrong(d, s) \subseteq {r \in Wrong(rows, s) : r \div Block # b}
      BY <3>3, <3>4 DEF Wrong
    <3> QED
      BY <2>1, <3>3, <3>5 DEF d
  <2>4. CASE t # <<>>
    <3>1. /\ \A r \in at..at + Len(t) - 1 : r \in DOMAIN d /\ d[r] = t[r - at + 1]
          /\ \A r \in DOMAIN d : r \notin at..at + Len(t) - 1 => r \in DOMAIN rows /\ d[r] = rows[r]
      BY <1>2, <1>3, <1>6, <2>1, <2>4, <2>0
    <3>2. m > at /\ Len(t) = m - at /\ \A i \in 1..m - at : t[i] = s[at + i]
      BY <1>2, <1>3, <2>4
    <3>3. at + Len(t) - 1 = m - 1
      BY <1>2, <1>3, <3>2
    <3> HIDE DEF d
    <3>4. ASSUME NEW r \in DOMAIN d, r \in at..m - 1 PROVE d[r] = s[r + 1] /\ r \in 0..Len(s) - 1
      <4>1. d[r] = t[r - at + 1] /\ r - at + 1 \in 1..m - at /\ at + (r - at + 1) = r + 1
        <5>1. d[r] = t[r - at + 1]
          BY <3>1, <3>3, <3>4
        <5>2. r - at + 1 \in 1..m - at /\ at + (r - at + 1) = r + 1
          BY <1>2, <1>3, <3>4
        <5> QED
          BY <5>1, <5>2
      <4>2. r \in 0..Len(s) - 1
        BY <1>2, <1>3, <1>5, <3>4
      <4> QED
        BY <3>2, <4>1, <4>2
    <3>5. ASSUME NEW r \in DOMAIN d, r \notin at..m - 1
          PROVE  r \in DOMAIN rows /\ d[r] = rows[r] /\ (r < Len(s) => r \div Block # b)
      <4>1. r \in DOMAIN rows /\ d[r] = rows[r]
        BY <3>1, <3>3, <3>5
      <4>2. r \in Nat /\ (r < at \/ r >= m)
        BY <1>2, <1>3, <2>2, <3>5
      <4>3. r < Len(s) /\ r >= m => r > to
        BY <1>2, <1>3, <1>5, <4>2
      <4>4. r < Len(s) => r \div Block # b
        BY <1>2, <1>4, <4>2, <4>3, SMTT(30)
      <4> QED
        BY <4>1, <4>4
    <3>6. Wrong(d, s) \subseteq {r \in Wrong(rows, s) : r \div Block # b}
      BY <3>4, <3>5 DEF Wrong
    <3>7. DOMAIN d \subseteq DOMAIN rows \cup (0..Len(s) - 1)
      BY <3>4, <3>5
    <3> QED
      BY <2>1, <3>6, <3>7 DEF d
  <2> QED
    BY <2>3, <2>4
<1> QED
  BY <1>6, <1>7 DEF op

\* SYNCs of blocks right the rows of all of them, in any order.
LEMMA SyncsRight ==
  ASSUME NEW s \in Seq(Items), NEW rows \in RowMaps, NEW ops \in Seq(Ops),
         \A i \in 1..Len(ops) : \E b \in Nat : ops[i] = SyncBy(s, b)
  PROVE  /\ Processed(rows, ops) \in RowMaps
         /\ DOMAIN Processed(rows, ops) \subseteq DOMAIN rows \cup (0..Len(s) - 1)
         /\ \A r \in Wrong(Processed(rows, ops), s) :
              r \in Wrong(rows, s) /\ \A i \in 1..Len(ops) : ops[i] # SyncBy(s, r \div Block)
<1> DEFINE n == Len(ops)
           p(k) == SubSeq(ops, 1, k)
           Good(k) ==
             /\ Kept(BatchOf(rows, p(k)), p(k))
             /\ DOMAIN Processed(rows, p(k)) \subseteq DOMAIN rows \cup (0..Len(s) - 1)
             /\ \A r \in Wrong(Processed(rows, p(k)), s) :
                  r \in Wrong(rows, s) /\ \A i \in 1..k : ops[i] # SyncBy(s, r \div Block)
           T == {k \in Nat : k <= n => Good(k)}
<1>1. n \in Nat /\ \A k \in 1..n : ops[k] \in Ops
  BY SeqIs
<1>2. 0 \in T
  <2>1. p(0) = <<>>
    BY <1>1
  <2>2. Kept(BatchOf(rows, <<>>), <<>>) /\ Processed(rows, <<>>) = rows
    BY ProcessedIs
  <2> HIDE DEF p
  <2>3. Good(0)
    BY <2>1, <2>2
  <2> QED
    BY <2>3
<1>3. ASSUME NEW k \in Nat, k \in T PROVE k + 1 \in T
  <2> SUFFICES ASSUME k + 1 <= n PROVE Good(k + 1)
    OBVIOUS
  <2> DEFINE op == ops[k + 1]
  <2>1. p(k) \in Seq(Ops) /\ p(k + 1) = Append(p(k), op)
    BY <1>1
  <2>2. op \in Ops /\ k + 1 \in 1..n /\ Good(k)
    BY <1>1, <1>3
  <2> HIDE DEF p
  <2> DEFINE old == Processed(rows, p(k))
             new == Processed(rows, p(k + 1))
  <2>3. PICK b \in Nat : op = SyncBy(s, b)
    BY <2>2
  <2>4. Ascends(p(k), op)
    BY <2>3, SyncByIs DEF Ascends
  <2> HIDE DEF op
  <2>5. Kept(BatchOf(rows, p(k + 1)), p(k + 1)) /\ new = Applied(old, op) /\ old \in RowMaps
    <3>1. Kept(BatchOf(rows, p(k)), p(k)) /\ p(k) \in Seq(Ops) /\ op \in Ops /\ Ascends(p(k), op)
      BY <2>1, <2>2, <2>4 DEF op
    <3>2. /\ Processed(rows, p(k)) \in RowMaps
          /\ Kept(BatchOf(rows, Append(p(k), op)), Append(p(k), op))
          /\ Processed(rows, Append(p(k), op)) = Applied(Processed(rows, p(k)), op)
      BY <3>1, ProcessedIs, Zenon
    <3>3. p(k + 1) = Append(p(k), op)
      BY <2>1 DEF op
    <3> QED
      BY <3>2, <3>3, Zenon
  <2> HIDE DEF old, new
  <2>6. DOMAIN new \subseteq DOMAIN old \cup (0..Len(s) - 1)
    BY <2>3, <2>5, SyncByIs
  <2>7. ASSUME NEW r \in Wrong(new, s)
        PROVE  r \in Wrong(old, s) /\ op # SyncBy(s, r \div Block)
    <3>1. r \in Wrong(old, s)
      BY <2>3, <2>5, SyncByIs
    <3>2. r \div Block \in Nat
      <4>1. r \in Nat
        BY <2>5, <3>1, RowMapIs DEF Wrong
      <4> QED
        BY <4>1, DivIs, MemberListAssumption
    <3> DEFINE c == r \div Block
    <3>3. \A q \in Wrong(Applied(old, SyncBy(s, c)), s) : q \div Block # c
      <4> HIDE DEF c
      <4>1. Wrong(Applied(old, SyncBy(s, c)), s) \subseteq {q \in Wrong(old, s) : q \div Block # c}
        BY <2>5, <3>2, SyncByIs DEF c
      <4> QED
        BY <4>1
    <3>4. op # SyncBy(s, c)
      BY <2>5, <3>3
    <3> QED
      BY <3>1, <3>4
  <2>8. ASSUME NEW r \in Wrong(new, s)
        PROVE  r \in Wrong(rows, s) /\ \A i \in 1..k + 1 : ops[i] # SyncBy(s, r \div Block)
    <3>1. r \in Wrong(rows, s) /\ \A i \in 1..k : ops[i] # SyncBy(s, r \div Block)
      BY <2>2, <2>7 DEF old
    <3>2. ops[k + 1] # SyncBy(s, r \div Block)
      BY <2>7 DEF op
    <3> QED
      BY <3>1, <3>2
  <2>9. DOMAIN new \subseteq DOMAIN rows \cup (0..Len(s) - 1)
    BY <2>2, <2>6 DEF old
  <2> QED
    BY <2>5, <2>8, <2>9 DEF new
<1>4. T = Nat
  <2>1. T \in SUBSET Nat
    OBVIOUS
  <2> HIDE DEF T
  <2> QED
    BY <1>2, <1>3, <2>1, AllNaturals
<1>5. p(n) = ops
  BY <1>1
<1>6. Good(n)
  BY <1>1, <1>4
<1>7. Processed(rows, ops) \in RowMaps
  BY ProcessedIs
<1> HIDE DEF p
<1> QED
  BY <1>5, <1>6, <1>7

\* The members of a finite set, in some order.
LEMMA EachHasAPlace ==
  ASSUME NEW S, IsFiniteSet(S)
  PROVE  SetToSeq(S) \in Seq(S) /\ \A x \in S : \E i \in 1..Len(SetToSeq(S)) : SetToSeq(S)[i] = x
<1> DEFINE n == Cardinality(S)
           f == SetToSeq(S)
<1>1. n \in Nat
  BY FS_CardinalityType
<1>2. ExistsBijection(1..n, S)
  <2>1. PICK m \in Nat : ExistsBijection(1..m, S)
    BY FS_NatBijection
  <2>2. m = n
    BY <2>1, FS_CountingElements
  <2> QED
    BY <2>1, <2>2
<1>3. PICK g \in Injection(1..n, S) : TRUE
  BY <1>2 DEF ExistsBijection, Bijection
<1>4. g \in [1..n -> S] /\ IsInjective(g)
  BY <1>3 DEF Injection, IsInjective
<1>5. f \in [1..n -> S] /\ IsInjective(f)
  BY <1>4 DEF SetToSeq
<1> HIDE DEF f
<1>6. f \in Injection(1..n, S)
  BY <1>5 DEF Injection, IsInjective
<1>7. Cardinality(1..n) = n
  BY <1>1, FS_Interval
<1>8. f \in Surjection(1..n, S)
  BY <1>6, <1>7, FS_Injection
<1>9. f \in Seq(S) /\ Len(f) = n
  BY <1>1, <1>5
<1> QED
  BY <1>8, <1>9 DEF Surjection, f

\* What a reply does to the rows of a list.
LEMMA ReplyIs ==
  ASSUME NEW s \in Seq(Items), NEW rows \in RowMaps, NEW bs \in SUBSET Nat, IsFiniteSet(bs)
  PROVE  LET ops == SetToSeq({SyncBy(s, b) : b \in bs})
         IN /\ Processed(rows, ops) \in RowMaps
            /\ DOMAIN Processed(rows, ops) \subseteq DOMAIN rows \cup (0..Len(s) - 1)
            /\ \A r \in Wrong(Processed(rows, ops), s) : r \in Wrong(rows, s) /\ r \div Block \notin bs
<1> DEFINE S == {SyncBy(s, b) : b \in bs}
           ops == SetToSeq(S)
           f == [b \in bs |-> SyncBy(s, b)]
<1>1. f \in Surjection(bs, S)
  BY DEF Surjection
<1>2. IsFiniteSet(S)
  BY <1>1, FS_Surjection
<1>3. S \subseteq Ops /\ \A x \in S : \E b \in Nat : x = SyncBy(s, b)
  BY SyncByIs
<1>4. \A b \in bs : SyncBy(s, b) \in S
  OBVIOUS
<1> HIDE DEF S
<1>5. ops \in Seq(S) /\ \A x \in S : \E i \in 1..Len(ops) : ops[i] = x
  BY <1>2, EachHasAPlace
<1> HIDE DEF ops
<1>6. ops \in Seq(Ops) /\ \A i \in 1..Len(ops) : \E b \in Nat : ops[i] = SyncBy(s, b)
  BY <1>3, <1>5
<1>7. /\ Processed(rows, ops) \in RowMaps
      /\ DOMAIN Processed(rows, ops) \subseteq DOMAIN rows \cup (0..Len(s) - 1)
      /\ \A r \in Wrong(Processed(rows, ops), s) :
           r \in Wrong(rows, s) /\ \A i \in 1..Len(ops) : ops[i] # SyncBy(s, r \div Block)
  BY <1>6, SyncsRight
<1>8. ASSUME NEW r \in Wrong(Processed(rows, ops), s) PROVE r \div Block \notin bs
  <2>1. ASSUME r \div Block \in bs PROVE FALSE
    <3>1. SyncBy(s, r \div Block) \in S
      BY <1>4, <2>1
    <3> QED
      BY <1>5, <1>7, <3>1
  <2> QED
    BY <2>1
<1> QED
  BY <1>7, <1>8 DEF ops, S

\* A member that a sequence without repetitions did not have.
LEMMA InjectiveAppend ==
  ASSUME NEW S, NEW s \in Seq(S), NEW t \in S, IsInjective(s), t \notin ToSet(s)
  PROVE  IsInjective(Append(s, t))
<1> DEFINE a == Append(s, t)
           n == Len(s)
<1>1. n \in Nat /\ DOMAIN s = 1..n /\ \A i \in 1..n : s[i] # t
  BY SeqIs
<1>2. DOMAIN a = 1..n + 1 /\ (\A i \in 1..n : a[i] = s[i]) /\ a[n + 1] = t
  BY <1>1
<1> HIDE DEF a, n
<1>3. \A i, j \in 1..n : s[i] = s[j] => i = j
  BY <1>1 DEF IsInjective
<1>4. ASSUME NEW i \in 1..n + 1, NEW j \in 1..n + 1, a[i] = a[j] PROVE i = j
  <2>1. (i \in 1..n \/ i = n + 1) /\ (j \in 1..n \/ j = n + 1)
    BY <1>1
  <2> QED
    BY <1>1, <1>2, <1>3, <1>4, <2>1
<1>5. IsInjective(a)
  BY <1>2, <1>4 DEF IsInjective
<1> QED
  BY <1>5 DEF a
-----------------------------------------------------------------------------
(* The order of use.                                                        *)

Chosen(S, r, l) == IF l \in S THEN Append(r, l) ELSE r
ChooseBy(S, s) == [p \in (1..Len(s)) \X Seq(Lists) |-> Chosen(S, p[2], s[p[1]])]

\* The fold of Only, one list at a time,
LEMMA OnlySteps ==
  ASSUME NEW S, NEW s \in Seq(Lists)
  PROVE  /\ ChooseBy(S, s) \in Steps(1..Len(s), Seq(Lists)) /\ <<>> \in Seq(Lists)
         /\ \A k \in 1..Len(s) : \A a \in Seq(Lists) : ChooseBy(S, s)[<<k, a>>] = Chosen(S, a, s[k])
<1>1. ASSUME NEW k \in 1..Len(s), NEW a \in Seq(Lists) PROVE Chosen(S, a, s[k]) \in Seq(Lists)
  <2>1. s[k] \in Lists
    BY SeqIs
  <2> QED
    BY <2>1 DEF Chosen
<1>2. <<>> \in Seq(Lists)
  OBVIOUS
<1> QED
  BY <1>1, <1>2 DEF ChooseBy, Steps

\* its result by that fold,
LEMMA OnlyAre ==
  ASSUME NEW S, NEW s \in Seq(Lists)
  PROVE  FoldIs(Len(s), Seq(Lists), <<>>, ChooseBy(S, s), Only(s, S))
<1> DEFINE n == Len(s)
           F == ChooseBy(S, s)
           Body(g) == [I \in SUBSET (1..n) |-> IF I = {} THEN <<>> ELSE Chosen(S, g[I \ {Max(I)}], s[Max(I)])]
<1>1. n \in Nat /\ DOMAIN s = 1..n
  BY SeqIs
<1>2. /\ F \in Steps(1..n, Seq(Lists)) /\ <<>> \in Seq(Lists)
      /\ \A k \in 1..n : \A a \in Seq(Lists) : F[<<k, a>>] = Chosen(S, a, s[k])
  BY OnlySteps
<1> HIDE DEF n, F
<1>3. PICK f : f \in Running(n, Seq(Lists), <<>>, F)
  BY <1>1, <1>2, Runs
<1>4. f = Body(f)
  <2>1. \A I \in SUBSET (1..n) : f[I] = IF I = {} THEN <<>> ELSE Chosen(S, f[I \ {Max(I)}], s[Max(I)])
    BY <1>2, <1>3 DEF Running
  <2>2. f \in [SUBSET (1..n) -> Seq(Lists)]
    BY <1>3 DEF Running
  <2> QED
    BY <2>1, <2>2
<1> DEFINE g == CHOOSE h : h = Body(h)
<1>5. g = Body(g)
  BY <1>4
<1>6. Only(s, S) = g[1..n]
  BY <1>1 DEF Only, Chosen, FoldLeft, MapThenFoldSet
<1> HIDE DEF g
<1>7. g[{}] = <<>> /\ \A I \in SUBSET (1..n) : I # {} => g[I] = Chosen(S, g[I \ {Max(I)}], s[Max(I)])
  BY <1>5
<1>8. \A I \in SUBSET (1..n) : I # {} /\ Max(I) \in 1..n /\ g[I \ {Max(I)}] \in Seq(Lists) =>
        g[I] = F[<<Max(I), g[I \ {Max(I)}]>>]
  BY <1>2, <1>7
<1>9. FoldIs(n, Seq(Lists), <<>>, F, g[1..n])
  BY <1>1, <1>2, <1>7, <1>8, RunsToEnd
<1> QED
  BY <1>6, <1>9 DEF n, F

\* and how it goes on.
LEMMA OnlyUnrolled ==
  ASSUME NEW S
  PROVE  /\ Only(<<>>, S) = <<>>
         /\ \A s \in Seq(Lists) :
              /\ Only(s, S) \in Seq(Lists)
              /\ \A x \in Lists : Only(Append(s, x), S) = Chosen(S, Only(s, S), x)
<1>1. Only(<<>>, S) = <<>>
  <2>1. <<>> \in Seq(Lists) /\ Len(<<>>) = 0
    OBVIOUS
  <2>2. FoldIs(0, Seq(Lists), <<>>, ChooseBy(S, <<>>), Only(<<>>, S))
    BY <2>1, OnlyAre
  <2> QED
    BY <2>2, FoldNone
<1>2. ASSUME NEW s \in Seq(Lists)
      PROVE  /\ Only(s, S) \in Seq(Lists)
             /\ \A x \in Lists : Only(Append(s, x), S) = Chosen(S, Only(s, S), x)
  <2>1. FoldIs(Len(s), Seq(Lists), <<>>, ChooseBy(S, s), Only(s, S)) /\ Len(s) \in Nat
    BY OnlyAre, SeqIs
  <2>2. ASSUME NEW x \in Lists PROVE Only(Append(s, x), S) = Chosen(S, Only(s, S), x)
    <3> DEFINE t == Append(s, x)
               n == Len(s)
               F == ChooseBy(S, s)
               G == ChooseBy(S, t)
    <3>1. /\ t \in Seq(Lists) /\ Len(t) = n + 1 /\ t[n + 1] = x /\ n \in Nat
          /\ \A k \in 1..n : t[k] = s[k]
      BY <2>1
    <3> HIDE DEF t
    <3>2. FoldIs(n + 1, Seq(Lists), <<>>, G, Only(t, S))
      BY <3>1, OnlyAre
    <3>3. <<>> \in Seq(Lists) /\ \A k \in 1..n : \A a \in Seq(Lists) : F[<<k, a>>] = Chosen(S, a, s[k])
      BY OnlySteps
    <3>4. \A k \in 1..n + 1 : \A a \in Seq(Lists) : G[<<k, a>>] = Chosen(S, a, t[k])
      <4>1. \A k \in 1..Len(t) : \A a \in Seq(Lists) : G[<<k, a>>] = Chosen(S, a, t[k])
        BY <3>1, OnlySteps, Zenon
      <4> QED
        BY <3>1, <4>1
    <3> HIDE DEF F, G, n
    <3>5. SameSteps(n, Seq(Lists), F, G)
      <4>1. ASSUME NEW k \in 1..n, NEW a \in Seq(Lists) PROVE F[<<k, a>>] = G[<<k, a>>]
        <5>1. k \in 1..n + 1
          BY <3>1
        <5>2. G[<<k, a>>] = Chosen(S, a, t[k])
          BY <3>4, <5>1
        <5>3. F[<<k, a>>] = Chosen(S, a, s[k])
          BY <3>3
        <5> QED
          BY <3>1, <5>2, <5>3
      <4> QED
        BY <4>1 DEF SameSteps
    <3>6. FoldIs(n, Seq(Lists), <<>>, F, Only(s, S))
      BY <2>1 DEF n, F
    <3>7. Only(t, S) = G[<<n + 1, Only(s, S)>>] /\ Only(s, S) \in Seq(Lists)
      BY <3>1, <3>2, <3>3, <3>5, <3>6, FoldMore
    <3>8. n + 1 \in 1..n + 1
      BY <3>1
    <3> QED
      BY <3>1, <3>4, <3>7, <3>8 DEF t
  <2>3. Only(s, S) \in Seq(Lists)
    BY <2>1, FoldTyped
  <2> QED
    BY <2>2, <2>3
<1> QED
  BY <1>1, <1>2

\* Only keeps the lists of S, once each.
LEMMA OnlyIs ==
  ASSUME NEW S, NEW s \in Seq(Lists)
  PROVE  /\ Only(s, S) \in Seq(Lists) /\ ToSet(Only(s, S)) = ToSet(s) \cap S
         /\ IsInjective(s) => IsInjective(Only(s, S))
<1> DEFINE n == Len(s)
           p(k) == SubSeq(s, 1, k)
           Good(k) == /\ ToSet(Only(p(k), S)) = ToSet(p(k)) \cap S
                      /\ IsInjective(s) => IsInjective(Only(p(k), S))
           T == {k \in Nat : k <= n => Good(k)}
<1>1. n \in Nat /\ \A k \in 1..n : s[k] \in Lists
  BY SeqIs
<1>2. 0 \in T
  <2>1. p(0) = <<>> /\ ToSet(<<>>) = {} /\ IsInjective(<<>>)
    BY <1>1 DEF ToSet, IsInjective
  <2>2. Only(<<>>, S) = <<>>
    BY OnlyUnrolled
  <2> HIDE DEF p
  <2> QED
    BY <2>1, <2>2
<1>3. ASSUME NEW k \in Nat, k \in T PROVE k + 1 \in T
  <2> SUFFICES ASSUME k + 1 <= n PROVE Good(k + 1)
    OBVIOUS
  <2> DEFINE l == s[k + 1]
             a == Only(p(k), S)
  <2>1. /\ p(k) \in Seq(Lists) /\ p(k + 1) = Append(p(k), l) /\ l \in Lists
        /\ Len(p(k)) = k /\ \A i \in 1..k : p(k)[i] = s[i]
    BY <1>1
  <2>2. Good(k)
    BY <1>1, <1>3
  <2> HIDE DEF p, l
  <2>3. a \in Seq(Lists) /\ Only(p(k + 1), S) = Chosen(S, a, l)
    BY <2>1, OnlyUnrolled
  <2>4. ToSet(p(k + 1)) = ToSet(p(k)) \cup {l}
    <3> DEFINE q == p(k)
    <3>1. q \in Seq(Lists) /\ l \in Lists /\ p(k + 1) = Append(q, l)
      BY <2>1
    <3> HIDE DEF q
    <3>2. ToSet(Append(q, l)) = ToSet(q) \cup {l}
      BY <3>1, Appended
    <3>3. ToSet(p(k + 1)) = ToSet(q) \cup {l}
      BY <3>1, <3>2
    <3> QED
      BY <3>3 DEF q
  <2>5. IsInjective(s) => l \notin ToSet(p(k))
    <3>1. ASSUME NEW i \in 1..k, s[i] = s[k + 1], IsInjective(s) PROVE FALSE
      <4>1. i \in DOMAIN s /\ k + 1 \in DOMAIN s /\ i # k + 1
        BY <1>1
      <4> QED
        BY <3>1, <4>1 DEF IsInjective
    <3> QED
      BY <2>1, <3>1, SeqIs DEF l
  <2> HIDE DEF a
  <2>6. CASE l \in S
    <3>1. Only(p(k + 1), S) = Append(a, l)
      BY <2>3, <2>6 DEF Chosen
    <3>2. ToSet(Append(a, l)) = ToSet(a) \cup {l}
      BY <2>1, <2>3, Appended
    <3>3. IsInjective(s) => IsInjective(a) /\ l \notin ToSet(a)
      BY <2>2, <2>5 DEF a
    <3>4. IsInjective(s) => IsInjective(Append(a, l))
      BY <2>1, <2>3, <3>3, InjectiveAppend
    <3> QED
      BY <2>2, <2>4, <2>6, <3>1, <3>2, <3>4 DEF a
  <2>7. CASE l \notin S
    <3>1. Only(p(k + 1), S) = a
      BY <2>3, <2>7 DEF Chosen
    <3> QED
      BY <2>2, <2>4, <2>7, <3>1 DEF a
  <2> QED
    BY <2>6, <2>7
<1>4. T = Nat
  <2>1. T \in SUBSET Nat
    OBVIOUS
  <2> HIDE DEF T
  <2> QED
    BY <1>2, <1>3, <2>1, AllNaturals
<1>5. p(n) = s
  BY <1>1
<1>6. Good(n)
  BY <1>1, <1>4
<1> HIDE DEF p
<1> QED
  BY <1>5, <1>6, OnlyUnrolled

\* The list used last comes last.
LEMMA UsedIs ==
  ASSUME NEW l \in Lists, recent \in Seq(Lists), IsInjective(recent)
  PROVE  /\ LastUsed(l) \in Seq(Lists) /\ IsInjective(LastUsed(l))
         /\ ToSet(LastUsed(l)) = ToSet(recent) \cup {l}
<1> DEFINE a == Only(recent, Lists \ {l})
<1>1. a \in Seq(Lists) /\ ToSet(a) = ToSet(recent) \cap (Lists \ {l}) /\ IsInjective(a)
  BY OnlyIs
<1>2. ToSet(recent) \subseteq Lists
  BY SeqIs
<1> HIDE DEF a
<1>3. ToSet(Append(a, l)) = ToSet(a) \cup {l} /\ Append(a, l) \in Seq(Lists)
  BY <1>1, Appended
<1>4. IsInjective(Append(a, l))
  BY <1>1, InjectiveAppend
<1>5. LastUsed(l) = Append(a, l)
  BY DEF LastUsed, a
<1> QED
  BY <1>1, <1>2, <1>3, <1>4, <1>5
-----------------------------------------------------------------------------
(* The invariant.                                                           *)

ListData == [rows : PartialRows, count : Nat]
ListMaps == UNION {[D -> ListData] : D \in SUBSET Lists}
Requests == [list : Lists, blocks : SUBSET Blocks]

\* The lists kept, and the order they were used in.
ListsKept ==
  /\ lists \in ListMaps /\ recent \in Seq(Lists)
  /\ ToSet(recent) = DOMAIN lists /\ IsInjective(recent)

\* What is subscribed to, parked and asked.
AskingOK ==
  /\ active \in Channels \cup {None}
  /\ ranges \subseteq Blocks /\ (active # None => 0 \in ranges)
  /\ pending \subseteq Blocks /\ (pending # {} => 0 \in pending /\ awaiting)
  /\ awaiting \in BOOLEAN /\ (awaiting => active # None)
  /\ asked \in Seq(Requests) /\ Len(asked) <= MaxAsked

\* The gateway's lists, no longer than their rows.
GatewayOK ==
  /\ srv \in [Lists -> Seq(Items)] /\ \A l \in Lists : Len(srv[l]) <= MaxRow + 1
  /\ subscribed \in Lists \cup {None}

\* The request that goes out last is for the list shown.
EndsWith(asks, l) == asks # <<>> => asks[Len(asks)].list = l
LastAsked == active # None => EndsWith(asked, activeList)

MemberIInv == ListsKept /\ AskingOK /\ LastAsked /\ GatewayOK /\ ActiveKept /\ AskedAgain /\ RowsTrue

\* Lists with their data, by their domain,
LEMMA ListMapIs ==
  ASSUME NEW f \in ListMaps
  PROVE  DOMAIN f \in SUBSET Lists /\ f \in [DOMAIN f -> ListData]
BY DEF ListMaps

\* and a function that is one.
LEMMA IsListMap ==
  ASSUME NEW D \in SUBSET Lists, NEW f \in [D -> ListData]
  PROVE  f \in ListMaps /\ DOMAIN f = D
BY DEF ListMaps

\* The rows kept are rows up to the bound.
LEMMA PartialIs ==
  /\ \A f \in PartialRows : f \in RowMaps /\ DOMAIN f \in SUBSET Rows
  /\ \A f \in RowMaps : DOMAIN f \in SUBSET Rows => f \in PartialRows
<1>1. Rows \in SUBSET Nat
  BY MemberListAssumption DEF Rows
<1>2. ASSUME NEW f \in PartialRows PROVE f \in RowMaps /\ DOMAIN f \in SUBSET Rows
  <2>1. PICK R \in SUBSET Rows : f \in [R -> Items]
    BY DEF PartialRows
  <2> QED
    BY <1>1, <2>1, IsRowMap
<1>3. ASSUME NEW f \in RowMaps, DOMAIN f \in SUBSET Rows PROVE f \in PartialRows
  <2>1. f \in [DOMAIN f -> Items]
    BY RowMapIs
  <2> QED
    BY <1>3, <2>1 DEF PartialRows
<1> QED
  BY <1>2, <1>3

\* The empty function is one, and a list that has no rows yet.
LEMMA NothingIs ==
  <<>> \in PartialRows /\ EmptyList \in ListData /\ <<>> \in ListMaps /\ DOMAIN <<>> = {}
<1> DEFINE f == [x \in {} |-> 0]
<1>1. <<>> = f
  OBVIOUS
<1>2. f \in [{} -> Items] /\ f \in [{} -> ListData] /\ DOMAIN f = {}
  OBVIOUS
<1> HIDE DEF f
<1>3. f \in PartialRows
  BY <1>2 DEF PartialRows
<1>4. f \in ListMaps
  BY <1>2, IsListMap
<1>5. [rows |-> f, count |-> 0] \in ListData
  BY <1>3 DEF ListData
<1> QED
  BY <1>1, <1>2, <1>3, <1>4, <1>5 DEF EmptyList

\* A list, or an empty one.
LEMMA KnownIs ==
  ASSUME ListsKept, NEW l \in Lists
  PROVE  /\ Known(l) \in ListData /\ Known(l).rows \in PartialRows /\ Known(l).count \in Nat
         /\ l \in DOMAIN lists => Known(l) = lists[l]
         /\ l \notin DOMAIN lists => DOMAIN Known(l).rows = {}
<1>1. l \in DOMAIN lists => lists[l] \in ListData
  BY ListMapIs DEF ListsKept
<1>2. Known(l) \in ListData
  BY <1>1, NothingIs DEF Known
<1>3. l \notin DOMAIN lists => Known(l).rows = <<>>
  BY DEF Known, EmptyList
<1> QED
  BY <1>2, <1>3, NothingIs DEF Known, ListData

\* A list that is added, or changed.
LEMMA WithIs ==
  ASSUME NEW f \in ListMaps, NEW l \in Lists, NEW y \in ListData
  PROVE  /\ With(f, l, y) \in ListMaps /\ DOMAIN With(f, l, y) = DOMAIN f \cup {l}
         /\ With(f, l, y)[l] = y
         /\ \A m \in DOMAIN f : m # l => With(f, l, y)[m] = f[m]
<1>1. DOMAIN f \in SUBSET Lists /\ f \in [DOMAIN f -> ListData]
  BY ListMapIs
<1> DEFINE g == With(f, l, y)
           D == DOMAIN f \cup {l}
<1>2. g = [z \in D |-> IF z = l THEN y ELSE f[z]]
  BY DEF With
<1>3. g \in [D -> ListData] /\ D \in SUBSET Lists
  BY <1>1, <1>2
<1>4. g[l] = y /\ \A m \in DOMAIN f : m # l => g[m] = f[m]
  BY <1>2
<1> HIDE DEF g, D
<1>5. g \in ListMaps /\ DOMAIN g = D
  BY <1>3, IsListMap
<1> QED
  BY <1>4, <1>5 DEF g, D

\* A list without the rows of other blocks.
LEMMA EvictedIs ==
  ASSUME NEW ld \in ListData, NEW bs
  PROVE  /\ Evicted(ld, bs) \in ListData /\ Evicted(ld, bs).count = ld.count
         /\ DOMAIN Evicted(ld, bs).rows \subseteq DOMAIN ld.rows
         /\ \A r \in DOMAIN Evicted(ld, bs).rows : Evicted(ld, bs).rows[r] = ld.rows[r]
<1> DEFINE S == DOMAIN ld.rows \ RowsOf(bs)
           w == Without(ld.rows, S)
<1>1. ld = [rows |-> ld.rows, count |-> ld.count] /\ ld.rows \in PartialRows /\ ld.count \in Nat
  BY DEF ListData
<1>2. Evicted(ld, bs) = [rows |-> w, count |-> ld.count]
  BY <1>1 DEF Evicted
<1>3. ld.rows \in RowMaps /\ DOMAIN ld.rows \in SUBSET Rows
  BY <1>1, PartialIs
<1> HIDE DEF S
<1>4. w \in RowMaps /\ DOMAIN w = DOMAIN ld.rows \ S /\ \A r \in DOMAIN ld.rows \ S : w[r] = ld.rows[r]
  BY <1>3, WithoutIs
<1> HIDE DEF w
<1>5. w \in PartialRows
  BY <1>3, <1>4, PartialIs
<1> QED
  BY <1>1, <1>2, <1>4, <1>5 DEF ListData

\* A request goes out.
LEMMA AskIs ==
  ASSUME NEW asks \in Seq(Requests), Len(asks) <= MaxAsked,
         NEW c \in Channels, NEW bs \in SUBSET Blocks, Ask(asks, c, bs)
  PROVE  /\ awaiting' = TRUE /\ asked' \in Seq(Requests) /\ Len(asked') <= MaxAsked
         /\ EndsWith(asked', ListOf[c])
<1> DEFINE q == [list |-> ListOf[c], blocks |-> bs]
           kept == IF Len(asks) < MaxAsked THEN asks ELSE Tail(asks)
<1>1. q \in Requests /\ q.list = ListOf[c]
  BY DEF Requests, Lists
<1>2. kept \in Seq(Requests) /\ Len(kept) < MaxAsked /\ Len(kept) \in Nat
  BY MemberListAssumption
<1>3. asked' = Append(kept, q) /\ awaiting' = TRUE
  BY DEF Ask
<1> HIDE DEF q, kept
<1>4. asked' \in Seq(Requests) /\ Len(asked') = Len(kept) + 1 /\ asked'[Len(kept) + 1] = q
  BY <1>1, <1>2, <1>3
<1>5. Len(asked') <= MaxAsked
  BY <1>2, <1>4, MemberListAssumption
<1> QED
  BY <1>1, <1>3, <1>4, <1>5 DEF EndsWith

\* The invariant is stronger than what is wanted of it.
LEMMA InvIs == MemberIInv => ListHeld /\ RowsTrue /\ MemberTypeOK /\ ParkedWaits
<1> SUFFICES ASSUME MemberIInv PROVE ListHeld /\ MemberTypeOK /\ ParkedWaits
  BY DEF MemberIInv
<1>1. DOMAIN lists \subseteq Lists /\ \A l \in DOMAIN lists : lists[l].rows \in PartialRows /\ lists[l].count \in Nat
  BY ListMapIs DEF MemberIInv, ListsKept, ListData
<1>2. MemberTypeOK
  BY <1>1 DEF MemberIInv, ListsKept, AskingOK, MemberTypeOK, Requests
<1>3. ParkedWaits
  BY DEF MemberIInv, AskingOK, ParkedWaits
<1> QED
  BY <1>2, <1>3 DEF ListHeld, MemberIInv

\* At the start nothing is known, active or asked.
LEMMA InitMember == MemberInit => MemberIInv
<1> SUFFICES ASSUME MemberInit PROVE MemberIInv
  OBVIOUS
<1>1. lists = <<>> /\ recent = <<>> /\ asked = <<>>
  BY DEF MemberInit
<1>2. ListsKept
  <2>1. <<>> \in Seq(Lists) /\ ToSet(<<>>) = {} /\ IsInjective(<<>>)
    BY DEF ToSet, IsInjective
  <2> QED
    BY <1>1, <2>1, NothingIs DEF ListsKept
<1>3. AskingOK
  <2>1. <<>> \in Seq(Requests) /\ Len(<<>>) <= MaxAsked
    BY MemberListAssumption
  <2> QED
    BY <1>1, <2>1 DEF MemberInit, AskingOK
<1>4. GatewayOK
  <2>1. PICK x \in Items : srv = [l \in Lists |-> <<x>>]
    BY DEF MemberInit
  <2>2. <<x>> \in Seq(Items) /\ Len(<<x>>) <= MaxRow + 1
    BY MemberListAssumption
  <2> QED
    BY <2>1, <2>2 DEF GatewayOK, MemberInit
<1>5. ActiveKept /\ AskedAgain /\ LastAsked
  BY DEF MemberInit, ActiveKept, AskedAgain, LastAsked
<1>6. RowsTrue
  BY <1>1, NothingIs DEF RowsTrue
<1> QED
  BY <1>2, <1>3, <1>4, <1>5, <1>6 DEF MemberIInv
-----------------------------------------------------------------------------
(* The steps.                                                               *)

SubRows(a, b) == \A r \in DOMAIN a : r \in DOMAIN b /\ a[r] = b[r]
ParkedStep == pending # {} /\ pending' = {} => ranges' = pending \/ active' # active \/ Reconnect

\* Rows that are left out do not go wrong.
LEMMA FewerRows ==
  ASSUME RowsTrue, srv' = srv, strayed' = strayed,
         \A l \in DOMAIN lists' : DOMAIN lists'[l].rows = {}
                                  \/ (l \in DOMAIN lists /\ SubRows(lists'[l].rows, lists[l].rows))
  PROVE  RowsTrue'
<1> SUFFICES ASSUME NEW l \in DOMAIN lists', l \notin strayed, NEW r \in DOMAIN lists'[l].rows, r < Len(srv[l])
             PROVE  lists'[l].rows[r] = srv[l][r + 1]
  BY DEF RowsTrue
<1>1. l \in DOMAIN lists /\ r \in DOMAIN lists[l].rows /\ lists'[l].rows[r] = lists[l].rows[r]
  BY DEF SubRows
<1> QED
  BY <1>1 DEF RowsTrue

\* The active list is the list of the active channel.
LEMMA ActiveIs ==
  ASSUME AskingOK
  PROVE  /\ active # None => active \in Channels /\ activeList = ListOf[active] /\ activeList \in Lists
         /\ active = None => activeList = None /\ activeList \notin Lists
  BY MemberListAssumption DEF AskingOK, activeList, Lists

\* The blocks of rows, and those between two rows.
LEMMA BlocksAre ==
  /\ 0 \in Blocks /\ \A r \in Rows : r \div Block \in Blocks
  /\ \A first, last \in Rows : (first \div Block)..(last \div Block) \subseteq Blocks
  /\ IsFiniteSet(Blocks) /\ Blocks \subseteq Nat
<1>1. MaxRow \in Nat /\ Block \in Nat \ {0} /\ MaxRow \div Block \in Nat
  BY MemberListAssumption, DivIs
<1>2. ASSUME NEW r \in Rows PROVE r \div Block \in Nat /\ r \div Block <= MaxRow \div Block
  BY <1>1, DivIs, DivRises DEF Rows
<1>3. IsFiniteSet(0..(MaxRow \div Block))
  BY <1>1, FS_Interval
<1>4. ASSUME NEW first \in Rows, NEW last \in Rows, NEW b \in (first \div Block)..(last \div Block)
      PROVE  b \in Blocks
  <2> DEFINE x == first \div Block
             y == last \div Block
             z == MaxRow \div Block
  <2>1. x \in Nat /\ y \in Nat /\ z \in Nat /\ y <= z /\ b \in x..y
    BY <1>1, <1>2
  <2> HIDE DEF x, y, z
  <2>2. b \in 0..z
    BY <2>1
  <2> QED
    BY <2>2 DEF z, Blocks
<1> QED
  BY <1>1, <1>2, <1>3, <1>4 DEF Blocks

\* setActiveChannel asks for block 0 of the list, kept or new.
LEMMA SetActiveStep ==
  ASSUME MemberIInv, NEW c \in Channels, SetActiveChannel(c)
  PROVE  MemberIInv' /\ ParkedStep
<1> DEFINE l == ListOf[c]
<1> USE DEF MemberIInv
<1>1. l \in Lists /\ c # None
  BY MemberListAssumption DEF Lists
<1>2. active' = c /\ activeList' = l
  BY <1>1 DEF SetActiveChannel, activeList
<1>3. /\ lists' = With(lists, l, Known(l)) /\ recent' = LastUsed(l) /\ total' = Known(l).count
      /\ ranges' = {0} /\ pending' = {} /\ Ask(asked, c, {0})
      /\ srv' = srv /\ subscribed' = subscribed /\ strayed' = strayed /\ active # c
  BY DEF SetActiveChannel
<1> HIDE DEF l
<1>4. /\ Known(l) \in ListData
      /\ l \in DOMAIN lists => Known(l) = lists[l]
      /\ l \notin DOMAIN lists => DOMAIN Known(l).rows = {}
  BY <1>1, KnownIs
<1>5. /\ lists' \in ListMaps /\ DOMAIN lists' = DOMAIN lists \cup {l} /\ lists'[l] = Known(l)
      /\ \A m \in DOMAIN lists : m # l => lists'[m] = lists[m]
  <2>1. lists \in ListMaps
    BY DEF ListsKept
  <2> DEFINE y == Known(l)
  <2>2. y \in ListData /\ lists' = With(lists, l, y)
    BY <1>3, <1>4
  <2> HIDE DEF y
  <2>3. /\ lists' \in ListMaps /\ DOMAIN lists' = DOMAIN lists \cup {l} /\ lists'[l] = y
        /\ \A m \in DOMAIN lists : m # l => lists'[m] = lists[m]
    BY <1>1, <2>1, <2>2, WithIs
  <2> QED
    BY <2>3 DEF y
<1>6. ListsKept'
  BY <1>1, <1>3, <1>5, UsedIs DEF ListsKept
<1>7. awaiting' = TRUE /\ asked' \in Seq(Requests) /\ Len(asked') <= MaxAsked /\ EndsWith(asked', ListOf[active'])
  BY <1>2, <1>3, AskIs, BlocksAre DEF AskingOK, l
<1>8. AskingOK'
  BY <1>1, <1>2, <1>3, <1>7, BlocksAre DEF AskingOK
<1>9. GatewayOK'
  BY <1>3 DEF GatewayOK
<1>10. ActiveKept'
  BY <1>2, <1>3, <1>5 DEF ActiveKept
<1>11. AskedAgain' /\ LastAsked'
  BY <1>2, <1>7 DEF AskedAgain, LastAsked, l
<1>12. RowsTrue'
  <2>1. ASSUME NEW m \in DOMAIN lists'
        PROVE  DOMAIN lists'[m].rows = {} \/ (m \in DOMAIN lists /\ SubRows(lists'[m].rows, lists[m].rows))
    BY <1>4, <1>5 DEF SubRows
  <2> QED
    BY <1>3, <2>1, FewerRows
<1>13. ParkedStep
  BY <1>2, <1>3 DEF ParkedStep
<1> QED
  BY <1>6, <1>8, <1>9, <1>10, <1>11, <1>12, <1>13

\* clear leaves no channel active.
LEMMA ClearStep ==
  ASSUME MemberIInv, Clear
  PROVE  MemberIInv' /\ ParkedStep
<1> USE DEF MemberIInv
<1>1. ListsKept'
  BY DEF Clear, ListsKept
<1>2. AskingOK'
  BY DEF Clear, AskingOK
<1>3. GatewayOK' /\ ActiveKept' /\ AskedAgain' /\ LastAsked'
  BY DEF Clear, GatewayOK, ActiveKept, AskedAgain, LastAsked
<1>4. RowsTrue'
  BY DEF Clear, RowsTrue
<1>5. ParkedStep
  BY DEF Clear, ParkedStep
<1> QED
  BY <1>1, <1>2, <1>3, <1>4, <1>5

\* clearGuild leaves nothing.
LEMMA ClearGuildStep ==
  ASSUME MemberIInv, ClearGuild
  PROVE  MemberIInv' /\ ParkedStep
<1> USE DEF MemberIInv
<1>1. ListsKept'
  <2>1. <<>> \in Seq(Lists) /\ ToSet(<<>>) = {} /\ IsInjective(<<>>)
    BY DEF ToSet, IsInjective
  <2> QED
    BY <2>1, NothingIs DEF ClearGuild, ListsKept
<1>2. AskingOK'
  <2>1. <<>> \in Seq(Requests) /\ Len(<<>>) <= MaxAsked
    BY MemberListAssumption
  <2> QED
    BY <2>1 DEF ClearGuild, AskingOK
<1>3. GatewayOK' /\ ActiveKept' /\ AskedAgain' /\ LastAsked'
  BY DEF ClearGuild, GatewayOK, ActiveKept, AskedAgain, LastAsked
<1>4. RowsTrue'
  BY NothingIs DEF ClearGuild, RowsTrue
<1>5. ParkedStep
  BY DEF ClearGuild, ParkedStep, AskingOK
<1> QED
  BY <1>1, <1>2, <1>3, <1>4, <1>5

\* The active list loses rows of other blocks, or nothing is changed.
LEMMA EvictStep ==
  ASSUME MemberIInv, NEW bs, active # None, UNCHANGED <<active, recent, total, srv, strayed>>,
         lists' = lists \/ lists' = [lists EXCEPT ![activeList] = Evicted(@, bs)]
  PROVE  ListsKept' /\ ActiveKept' /\ RowsTrue'
<1> USE DEF MemberIInv
<1> DEFINE a == activeList
<1>1. a \in DOMAIN lists /\ total = lists[a].count /\ activeList' = a
  BY DEF ActiveKept, activeList
<1>2. DOMAIN lists \in SUBSET Lists /\ lists \in [DOMAIN lists -> ListData]
  BY ListMapIs DEF ListsKept
<1> HIDE DEF a
<1>3. /\ Evicted(lists[a], bs) \in ListData /\ Evicted(lists[a], bs).count = lists[a].count
      /\ SubRows(Evicted(lists[a], bs).rows, lists[a].rows)
  <2>1. lists[a] \in ListData
    BY <1>1, <1>2
  <2> QED
    BY <2>1, EvictedIs DEF SubRows
<1>4. /\ lists' \in [DOMAIN lists -> ListData] /\ lists'[a].count = lists[a].count
      /\ \A m \in DOMAIN lists : SubRows(lists'[m].rows, lists[m].rows)
  <2>1. CASE lists' = lists
    BY <1>2, <2>1 DEF SubRows
  <2>2. CASE lists' = [lists EXCEPT ![activeList] = Evicted(@, bs)]
    <3>1. lists' = [lists EXCEPT ![a] = Evicted(lists[a], bs)]
      BY <2>2 DEF a
    <3>2. lists' \in [DOMAIN lists -> ListData] /\ lists'[a] = Evicted(lists[a], bs)
          /\ \A m \in DOMAIN lists : m # a => lists'[m] = lists[m]
      BY <1>1, <1>2, <1>3, <3>1
    <3> QED
      BY <1>3, <3>2 DEF SubRows
  <2> QED
    BY <2>1, <2>2
<1>5. lists' \in ListMaps /\ DOMAIN lists' = DOMAIN lists
  BY <1>2, <1>4, IsListMap
<1>6. ListsKept'
  BY <1>5 DEF ListsKept
<1>7. ActiveKept'
  BY <1>1, <1>4, <1>5 DEF ActiveKept
<1>8. RowsTrue'
  BY <1>4, <1>5, FewerRows
<1> QED
  BY <1>6, <1>7, <1>8

\* updateSubscriptionRange parks the blocks or asks for them.
LEMMA RangeStep ==
  ASSUME MemberIInv, NEW first \in Rows, NEW last \in Rows, UpdateSubscriptionRange(first, last)
  PROVE  MemberIInv' /\ ParkedStep
<1> DEFINE wanted == {0} \cup ((first \div Block)..(last \div Block))
<1>1. wanted \in SUBSET Blocks /\ 0 \in wanted
  BY BlocksAre
<1>2. /\ active # None /\ UNCHANGED <<active, recent, total, srv, subscribed, strayed, untimed>>
      /\ \/ /\ awaiting /\ pending' = wanted /\ UNCHANGED <<lists, ranges, awaiting, asked>>
         \/ /\ ~awaiting /\ ranges' = wanted /\ pending' = {} /\ Ask(asked, active, wanted)
            /\ lists' = [lists EXCEPT ![activeList] = Evicted(@, wanted)]
  BY DEF UpdateSubscriptionRange
<1> HIDE DEF wanted
<1> USE DEF MemberIInv
<1>3. ListsKept' /\ ActiveKept' /\ RowsTrue'
  BY <1>2, EvictStep
<1>4. GatewayOK'
  BY <1>2 DEF GatewayOK
<1>5. CASE awaiting /\ pending' = wanted /\ UNCHANGED <<lists, ranges, awaiting, asked>>
  <2>1. AskingOK'
    BY <1>1, <1>2, <1>5 DEF AskingOK
  <2>2. AskedAgain' /\ LastAsked'
    BY <1>2, <1>5 DEF AskedAgain, LastAsked, activeList
  <2>3. ParkedStep
    BY <1>1, <1>5 DEF ParkedStep
  <2> QED
    BY <1>3, <1>4, <2>1, <2>2, <2>3
<1>6. CASE ~awaiting /\ ranges' = wanted /\ pending' = {} /\ Ask(asked, active, wanted)
  <2>1. active \in Channels
    BY <1>2, ActiveIs
  <2>2. awaiting' = TRUE /\ asked' \in Seq(Requests) /\ Len(asked') <= MaxAsked /\ EndsWith(asked', ListOf[active'])
    BY <1>1, <1>2, <1>6, <2>1, AskIs DEF AskingOK
  <2>3. AskingOK'
    BY <1>1, <1>2, <1>6, <2>2 DEF AskingOK
  <2>4. AskedAgain' /\ LastAsked'
    BY <1>2, <2>2 DEF AskedAgain, LastAsked, activeList
  <2>5. ParkedStep
    BY <1>6 DEF ParkedStep, AskingOK
  <2> QED
    BY <1>3, <1>4, <2>3, <2>4, <2>5
<1> QED
  BY <1>2, <1>5, <1>6

\* flushPendingRanges asks for the parked blocks, or the same again.
LEMMA FlushStep ==
  ASSUME MemberIInv, FlushPendingRanges
  PROVE  MemberIInv' /\ ParkedStep
<1> DEFINE next == IF pending = {} THEN ranges ELSE pending
<1> USE DEF MemberIInv
<1>1. /\ awaiting /\ ranges' = next /\ pending' = {} /\ Ask(asked, active, next)
      /\ lists' = lists \/ lists' = [lists EXCEPT ![activeList] = Evicted(@, next)]
      /\ UNCHANGED <<active, recent, total, srv, subscribed, strayed, untimed>>
  BY DEF FlushPendingRanges
<1>2. active # None /\ next \in SUBSET Blocks /\ 0 \in next
  BY <1>1 DEF AskingOK
<1>3. ParkedStep
  BY <1>1 DEF ParkedStep
<1> HIDE DEF next
<1>4. ListsKept' /\ ActiveKept' /\ RowsTrue'
  BY <1>1, <1>2, EvictStep
<1>5. GatewayOK'
  BY <1>1 DEF GatewayOK
<1>6. active \in Channels
  BY <1>2, ActiveIs
<1>7. awaiting' = TRUE /\ asked' \in Seq(Requests) /\ Len(asked') <= MaxAsked /\ EndsWith(asked', ListOf[active'])
  BY <1>1, <1>2, <1>6, AskIs DEF AskingOK
<1>8. AskingOK'
  BY <1>1, <1>2, <1>6, <1>7 DEF AskingOK
<1>9. AskedAgain' /\ LastAsked'
  BY <1>7 DEF AskedAgain, LastAsked, activeList
<1> QED
  BY <1>3, <1>4, <1>5, <1>8, <1>9

\* A new session asks for the active list again.
LEMMA ReconnectStep ==
  ASSUME MemberIInv, Reconnect
  PROVE  MemberIInv' /\ ParkedStep
<1> USE DEF MemberIInv
<1>1. /\ subscribed' = None /\ UNCHANGED <<active, lists, recent, total, ranges, srv, strayed, untimed>>
      /\ active = None => asked' = <<>> /\ UNCHANGED <<pending, awaiting>>
      /\ active # None => pending' = {} /\ Ask(asked, active, ranges)
  BY DEF Reconnect
<1>2. ListsKept' /\ GatewayOK' /\ ActiveKept' /\ RowsTrue'
  BY <1>1 DEF ListsKept, GatewayOK, ActiveKept, RowsTrue, activeList
<1>3. active # None => awaiting' = TRUE /\ asked' \in Seq(Requests) /\ Len(asked') <= MaxAsked /\ EndsWith(asked', ListOf[active'])
  BY <1>1, AskIs, ActiveIs DEF AskingOK
<1>4. AskingOK'
  <2>1. <<>> \in Seq(Requests) /\ Len(<<>>) <= MaxAsked
    BY MemberListAssumption
  <2> QED
    <3>1. CASE active = None
      BY <1>1, <2>1, <3>1 DEF AskingOK
    <3>2. CASE active # None
      BY <1>1, <1>3, <3>2 DEF AskingOK
    <3> QED
      BY <3>1, <3>2
<1>5. AskedAgain' /\ LastAsked'
  BY <1>1, <1>3 DEF AskedAgain, LastAsked, activeList
<1> QED
  BY <1>2, <1>4, <1>5 DEF ParkedStep

\* An update of list l; rows are its rows after the operations.
LEMMA UpdateStep ==
  ASSUME ListsKept, AskingOK, ActiveKept,
         NEW l \in Lists, NEW ops, NEW count \in Nat, NEW asks \in Seq(Requests),
         Len(asks) <= MaxAsked, active # None => EndsWith(asks, activeList),
         NEW rows \in PartialRows, rows = Processed(Known(l).rows, ops),
         HandleMemberListUpdate(l, ops, count, asks)
  PROVE  /\ ListsKept' /\ AskingOK' /\ LastAsked' /\ ActiveKept' /\ ParkedStep
         /\ active' = active /\ untimed' = untimed
         /\ awaiting' \/ (asked' = asks /\ (l = activeList \/ ~awaiting))
         /\ \A m \in DOMAIN lists' : m # l => m \in DOMAIN lists /\ lists'[m] = lists[m]
         /\ l \in DOMAIN lists' => SubRows(lists'[l].rows, rows)
<1> DEFINE isActive == l = activeList
           applies == isActive /\ pending \notin {{}, ranges}
           ld == [rows |-> rows, count |-> count]
           new == IF applies THEN Evicted(ld, pending) ELSE ld
           all == With(lists, l, new)
           surplus == Cardinality(DOMAIN all) - MaxLists
           victims == Victims(LastUsed(l))
           gone == {victims[i] : i \in 1..surplus \cap DOMAIN victims}
<1>1. /\ lists' = [m \in DOMAIN all \ gone |-> all[m]]
      /\ recent' = Only(LastUsed(l), Lists \ gone)
      /\ total' = (IF isActive THEN count ELSE total)
      /\ ranges' = (IF applies THEN pending ELSE ranges)
      /\ pending' = (IF isActive THEN {} ELSE pending)
      /\ applies => Ask(asks, active, pending)
      /\ ~applies => awaiting' = (awaiting /\ ~isActive) /\ asked' = asks
      /\ active' = active /\ untimed' = untimed
  BY DEF HandleMemberListUpdate, Parked
<1>2. ld \in ListData /\ ld.rows = rows /\ ld.count = count
  BY DEF ListData
<1> HIDE DEF ld
<1>3. new \in ListData /\ new.count = count /\ SubRows(new.rows, rows)
  BY <1>2, EvictedIs DEF SubRows
<1>4. lists \in ListMaps /\ recent \in Seq(Lists) /\ ToSet(recent) = DOMAIN lists /\ IsInjective(recent)
  BY DEF ListsKept
<1>5. /\ LastUsed(l) \in Seq(Lists) /\ IsInjective(LastUsed(l))
      /\ ToSet(LastUsed(l)) = DOMAIN lists \cup {l}
  BY <1>4, UsedIs
<1>6. victims \in Seq(Lists) /\ activeList \notin ToSet(victims)
  <2>1. ToSet(Only(LastUsed(l), Lists \ {activeList})) = ToSet(LastUsed(l)) \cap (Lists \ {activeList})
    BY <1>5, OnlyIs
  <2>2. Only(LastUsed(l), Lists \ {activeList}) \in Seq(Lists)
    BY <1>5, OnlyIs
  <2> QED
    BY <2>1, <2>2 DEF Victims
<1> HIDE DEF new, victims
<1>7. /\ all \in ListMaps /\ DOMAIN all = DOMAIN lists \cup {l} /\ all[l] = new
      /\ \A m \in DOMAIN lists : m # l => all[m] = lists[m]
  BY <1>3, <1>4, WithIs
<1>8. activeList \notin gone
  <2>1. gone \subseteq ToSet(victims)
    BY DEF ToSet
  <2> QED
    BY <1>6, <2>1
<1> HIDE DEF all, gone, surplus
<1> DEFINE D == DOMAIN all \ gone
<1>9. lists' \in ListMaps /\ DOMAIN lists' = D /\ \A m \in D : lists'[m] = all[m]
  <2>1. DOMAIN all \in SUBSET Lists /\ all \in [DOMAIN all -> ListData]
    BY <1>7, ListMapIs
  <2>2. lists' = [m \in D |-> all[m]]
    BY <1>1
  <2> HIDE DEF D
  <2>3. D \in SUBSET Lists /\ lists' \in [D -> ListData]
    BY <2>1, <2>2 DEF D
  <2>4. \A m \in D : lists'[m] = all[m]
    BY <2>2
  <2> QED
    BY <2>3, <2>4, IsListMap
<1>10. recent' \in Seq(Lists) /\ ToSet(recent') = D /\ IsInjective(recent')
  <2>1. ToSet(LastUsed(l)) = DOMAIN all /\ DOMAIN all \subseteq Lists
    BY <1>5, <1>7, ListMapIs
  <2>2. /\ recent' \in Seq(Lists) /\ IsInjective(recent')
        /\ ToSet(recent') = ToSet(LastUsed(l)) \cap (Lists \ gone)
    BY <1>1, <1>5, OnlyIs
  <2> QED
    BY <2>1, <2>2
<1>11. ListsKept'
  BY <1>9, <1>10 DEF ListsKept
<1>12. isActive => active \in Channels /\ active # None /\ activeList = ListOf[active]
  BY ActiveIs
<1> DEFINE Asking == /\ AskingOK' /\ LastAsked' /\ ParkedStep
                     /\ awaiting' \/ (asked' = asks /\ (isActive \/ ~awaiting))
<1>13. ASSUME applies PROVE Asking
  <2>1. pending \in SUBSET Blocks /\ 0 \in pending /\ pending # {}
    BY <1>13 DEF AskingOK
  <2>2. awaiting' = TRUE /\ asked' \in Seq(Requests) /\ Len(asked') <= MaxAsked /\ EndsWith(asked', ListOf[active])
    BY <1>1, <1>12, <1>13, <2>1, AskIs
  <2>3. AskingOK'
    BY <1>1, <1>12, <1>13, <2>1, <2>2 DEF AskingOK
  <2>4. LastAsked'
    BY <1>1, <2>2 DEF LastAsked, activeList
  <2>5. ParkedStep
    BY <1>1, <1>13 DEF ParkedStep
  <2> QED
    BY <2>2, <2>3, <2>4, <2>5
<1>14. ASSUME ~applies PROVE Asking
  <2>1. awaiting' = (awaiting /\ ~isActive) /\ asked' = asks /\ ranges' = ranges
    BY <1>1, <1>14
  <2>2. AskingOK'
    BY <1>1, <2>1 DEF AskingOK
  <2>3. LastAsked'
    BY <1>1, <2>1 DEF LastAsked, activeList
  <2>4. ParkedStep
    BY <1>1, <1>14, <2>1 DEF ParkedStep
  <2> QED
    BY <2>1, <2>2, <2>3, <2>4
<1>15. activeList' = activeList
  BY <1>1 DEF activeList
<1>16. ActiveKept'
  <2> SUFFICES ASSUME active # None PROVE activeList \in DOMAIN lists' /\ total' = lists'[activeList].count
    BY <1>1, <1>15 DEF ActiveKept
  <2>1. activeList \in DOMAIN lists /\ total = lists[activeList].count
    BY DEF ActiveKept
  <2>2. activeList \in D
    BY <1>7, <1>8, <2>1
  <2>3. CASE isActive
    BY <1>1, <1>3, <1>7, <1>9, <2>2, <2>3
  <2>4. CASE ~isActive
    BY <1>1, <1>7, <1>9, <2>1, <2>2, <2>4
  <2> QED
    BY <2>2, <2>3, <2>4
<1>17. \A m \in DOMAIN lists' : m # l => m \in DOMAIN lists /\ lists'[m] = lists[m]
  BY <1>7, <1>9
<1>18. l \in DOMAIN lists' => SubRows(lists'[l].rows, rows)
  BY <1>3, <1>7, <1>9
<1> QED
  BY <1>1, <1>11, <1>13, <1>14, <1>16, <1>17, <1>18, Zenon

\* The rows of a list are its, as far as it is known.
LEMMA KnownTrue ==
  ASSUME ListsKept, RowsTrue, NEW l \in Lists, l \notin strayed
  PROVE  Agree(Known(l).rows, srv[l])
<1>1. CASE l \in DOMAIN lists
  BY <1>1, KnownIs DEF RowsTrue, Agree
<1>2. CASE l \notin DOMAIN lists
  BY <1>2, KnownIs DEF Agree
<1> QED
  BY <1>1, <1>2

\* The rows stay true when those of one list are made new.
LEMMA OneList ==
  ASSUME RowsTrue, NEW l \in Lists, NEW rows,
         \A m \in DOMAIN lists' : m # l => m \in DOMAIN lists /\ lists'[m] = lists[m],
         l \in DOMAIN lists' => SubRows(lists'[l].rows, rows),
         \A m \in DOMAIN lists' : m # l => srv'[m] = srv[m] /\ (m \in strayed => m \in strayed'),
         l \notin strayed' => Agree(rows, srv'[l])
  PROVE  RowsTrue'
<1> SUFFICES ASSUME NEW m \in DOMAIN lists', m \notin strayed', NEW r \in DOMAIN lists'[m].rows, r < Len(srv'[m])
             PROVE  lists'[m].rows[r] = srv'[m][r + 1]
  BY DEF RowsTrue
<1>1. CASE m = l
  BY <1>1 DEF SubRows, Agree
<1>2. CASE m # l
  BY <1>2 DEF RowsTrue
<1> QED
  BY <1>1, <1>2

\* A change of a list, told by the operations that made it or not told.
LEMMA ChangeStep ==
  ASSUME MemberIInv, NEW l \in Lists, SrvChange(l)
  PROVE  MemberIInv' /\ ParkedStep
<1> USE DEF MemberIInv
<1>1. PICK u \in Updates(srv[l]) :
        /\ srv' = [srv EXCEPT ![l] = u[2]] /\ Len(u[2]) <= MaxRow
        /\ subscribed = l =>
             /\ DOMAIN Processed(Known(l).rows, u[1]) \subseteq Rows
             /\ HandleMemberListUpdate(l, u[1], Len(u[2]), asked)
             /\ strayed' = IF InOrder(u[1]) THEN strayed ELSE strayed \cup {l}
        /\ subscribed # l =>
             /\ strayed' = strayed \cup {l}
             /\ UNCHANGED <<active, lists, recent, total, ranges, pending, awaiting, asked, lost, untimed>>
        /\ subscribed' = subscribed
  BY DEF SrvChange
<1>2. srv[l] \in Seq(Items) /\ srv \in [Lists -> Seq(Items)] /\ MaxRow \in Nat
  BY MemberListAssumption DEF GatewayOK
<1>3. Followed(srv[l], u)
  BY <1>2, UpdatesFollow
<1> DEFINE s == srv[l]
           t == u[2]
           ops == u[1]
           known == Known(l).rows
           rows == Processed(known, ops)
<1>4. /\ t \in Seq(Items) /\ ops \in Seq(Ops) /\ Len(t) \in Nat
      /\ InOrder(ops) => \A k \in RowMaps : Agree(k, s) => Agree(Processed(k, ops), t)
  BY <1>3 DEF Followed
<1>5. srv'[l] = t /\ \A m \in Lists : m # l => srv'[m] = srv[m]
  BY <1>1, <1>2
<1>6. GatewayOK'
  <2>1. srv' \in [Lists -> Seq(Items)]
    BY <1>1, <1>2, <1>4
  <2> HIDE DEF t
  <2>2. Len(t) <= MaxRow
    BY <1>1 DEF t
  <2>3. Len(t) <= MaxRow + 1
    BY <1>2, <1>4, <2>2
  <2>4. ASSUME NEW m \in Lists PROVE Len(srv'[m]) <= MaxRow + 1
    BY <1>5, <2>3 DEF GatewayOK
  <2> QED
    BY <1>1, <2>1, <2>4 DEF GatewayOK
<1>7. CASE subscribed # l
  <2>1. ListsKept' /\ AskingOK' /\ LastAsked' /\ ActiveKept' /\ AskedAgain'
    BY <1>1, <1>7 DEF ListsKept, AskingOK, LastAsked, ActiveKept, AskedAgain, activeList
  <2>2. RowsTrue'
    <3>1. DOMAIN lists \subseteq Lists
      BY ListMapIs DEF ListsKept
    <3> QED
      BY <1>1, <1>5, <1>7, <3>1 DEF RowsTrue
  <2>3. ParkedStep
    BY <1>1, <1>7 DEF ParkedStep
  <2> QED
    BY <1>6, <2>1, <2>2, <2>3
<1>8. CASE subscribed = l
  <2>1. /\ HandleMemberListUpdate(l, ops, Len(t), asked) /\ DOMAIN rows \subseteq Rows
        /\ strayed' = IF InOrder(ops) THEN strayed ELSE strayed \cup {l}
    BY <1>1, <1>8
  <2>2. known \in RowMaps
    BY KnownIs, PartialIs
  <2> HIDE DEF s, t, ops, known
  <2>5. rows \in RowMaps
    BY <1>4, <2>2, ProcessedIs
  <2>7. rows \in PartialRows
    <3> HIDE DEF rows
    <3> QED
      BY <2>1, <2>5, PartialIs
  <2> HIDE DEF rows
  <2>8. asked \in Seq(Requests) /\ Len(asked) <= MaxAsked /\ (active # None => EndsWith(asked, activeList))
    BY DEF AskingOK, LastAsked
  <2>9. /\ ListsKept' /\ AskingOK' /\ LastAsked' /\ ActiveKept' /\ ParkedStep
        /\ active' = active /\ untimed' = untimed
        /\ awaiting' \/ (asked' = asked /\ (l = activeList \/ ~awaiting))
        /\ \A m \in DOMAIN lists' : m # l => m \in DOMAIN lists /\ lists'[m] = lists[m]
        /\ l \in DOMAIN lists' => SubRows(lists'[l].rows, rows)
    <3>1. rows = Processed(Known(l).rows, ops)
      BY DEF rows, known
    <3> QED
      BY <1>4, <2>1, <2>7, <2>8, <3>1, UpdateStep
  <2>10. AskedAgain'
    BY <1>1, <1>8, <2>9 DEF AskedAgain, activeList
  <2>11. RowsTrue'
    <3>1. l \notin strayed' => Agree(rows, t)
      BY <1>4, <2>1, <2>2, KnownTrue DEF known, rows, s
    <3>2. \A m \in DOMAIN lists' : m # l => srv'[m] = srv[m] /\ (m \in strayed => m \in strayed')
      <4>1. DOMAIN lists' \subseteq Lists
        BY <2>9, ListMapIs DEF ListsKept
      <4> QED
        BY <1>5, <2>1, <4>1
    <3> QED
      BY <1>5, <2>1, <2>9, <3>1, <3>2, OneList DEF t
  <2> QED
    BY <1>6, <2>9, <2>10, <2>11
<1> QED
  BY <1>7, <1>8

\* The reply to the oldest request.
LEMMA SyncStep ==
  ASSUME MemberIInv, SrvSync
  PROVE  MemberIInv' /\ ParkedStep
<1> DEFINE l == Head(asked).list
           bs == Head(asked).blocks
           s == srv[l]
           known == Known(l).rows
           ops == SetToSeq({SyncOf(l, b) : b \in bs})
           rows == Processed(known, ops)
<1> USE DEF MemberIInv
<1>1. /\ asked # <<>> /\ HandleMemberListUpdate(l, ops, Len(s), Tail(asked))
      /\ subscribed' = l /\ srv' = srv
      /\ strayed' = IF \A r \in DOMAIN known : r < Len(s) => r \in RowsOf(bs) THEN strayed \ {l} ELSE strayed
  BY DEF SrvSync
<1>2. asked \in Seq(Requests) /\ Len(asked) <= MaxAsked
  BY DEF AskingOK
<1>3. l \in Lists /\ bs \in SUBSET Blocks
  <2>1. Head(asked) \in Requests
    BY <1>1, <1>2
  <2> QED
    BY <2>1 DEF Requests
<1>4. Tail(asked) \in Seq(Requests) /\ Len(Tail(asked)) <= MaxAsked
  BY <1>1, <1>2, MemberListAssumption
<1>5. active # None => EndsWith(Tail(asked), activeList) /\ (l # activeList => Tail(asked) # <<>>)
  <2> DEFINE t == Tail(asked)
             n == Len(asked)
  <2>1. n \in Nat \ {0} /\ Len(t) = n - 1 /\ (n > 1 => t[n - 1] = asked[n]) /\ Head(asked) = asked[1]
    BY <1>1, <1>2
  <2>2. active # None => asked[n].list = activeList
    BY <1>1 DEF LastAsked, EndsWith
  <2>3. t # <<>> => n > 1
    BY <1>1, <1>2
  <2> HIDE DEF t, n
  <2>4. n > 1 => t # <<>>
    BY <2>1
  <2> QED
    BY <2>1, <2>2, <2>3, <2>4 DEF EndsWith, t
<1>6. s \in Seq(Items) /\ Len(s) \in Nat /\ Len(s) <= MaxRow + 1
  BY <1>3 DEF GatewayOK
<1>7. known \in RowMaps /\ DOMAIN known \in SUBSET Rows
  BY <1>3, KnownIs, PartialIs
<1>8. bs \in SUBSET Nat /\ IsFiniteSet(bs)
  BY <1>3, BlocksAre, FS_Subset
<1>9. ops = SetToSeq({SyncBy(s, b) : b \in bs})
  BY DEF SyncOf, SyncBy
<1> HIDE DEF bs, s, known, ops
<1>10. /\ rows \in RowMaps /\ DOMAIN rows \subseteq DOMAIN known \cup (0..Len(s) - 1)
       /\ \A r \in Wrong(rows, s) : r \in Wrong(known, s) /\ r \div Block \notin bs
  BY <1>6, <1>7, <1>8, <1>9, ReplyIs
<1> HIDE DEF rows
<1>11. rows \in PartialRows
  <2>1. 0..Len(s) - 1 \subseteq Rows
    BY <1>6, MemberListAssumption DEF Rows
  <2> QED
    BY <1>7, <1>10, <2>1, PartialIs
<1> HIDE DEF l
<1>12. /\ ListsKept' /\ AskingOK' /\ LastAsked' /\ ActiveKept' /\ ParkedStep
       /\ active' = active /\ untimed' = untimed
       /\ awaiting' \/ (asked' = Tail(asked) /\ (l = activeList \/ ~awaiting))
       /\ \A m \in DOMAIN lists' : m # l => m \in DOMAIN lists /\ lists'[m] = lists[m]
       /\ l \in DOMAIN lists' => SubRows(lists'[l].rows, rows)
  <2>1. rows = Processed(Known(l).rows, ops)
    BY DEF rows, known
  <2> QED
    BY <1>1, <1>3, <1>4, <1>5, <1>6, <1>11, <2>1, UpdateStep
<1>13. GatewayOK'
  BY <1>1, <1>3 DEF GatewayOK
<1>14. AskedAgain'
  <2> SUFFICES ASSUME active # None, l # activeList, ~awaiting'
               PROVE  \E i \in DOMAIN asked' : asked'[i].list = activeList
    BY <1>1, <1>12 DEF AskedAgain, activeList
  <2> DEFINE t == Tail(asked)
  <2>1. asked' = t /\ t # <<>> /\ t \in Seq(Requests) /\ EndsWith(t, activeList)
    BY <1>4, <1>5, <1>12
  <2> HIDE DEF t
  <2>2. Len(t) \in DOMAIN t /\ t[Len(t)].list = activeList
    BY <2>1 DEF EndsWith
  <2> QED
    BY <2>1, <2>2
<1>15. l \notin strayed' => Agree(rows, s)
  <2>1. CASE l \notin strayed
    <3>1. Wrong(known, s) = {}
      BY <1>3, <2>1, KnownTrue DEF Agree, Wrong, known, s
    <3> QED
      BY <1>10, <3>1 DEF Agree, Wrong
  <2>2. CASE l \in strayed
    <3> SUFFICES ASSUME l \notin strayed' PROVE Agree(rows, s)
      OBVIOUS
    <3>1. \A r \in DOMAIN known : r < Len(s) => r \in RowsOf(bs)
      BY <1>1, <2>2
    <3>2. \A r \in Wrong(known, s) : r \div Block \in bs
      BY <3>1 DEF Wrong, RowsOf
    <3>3. Wrong(rows, s) = {}
      BY <1>10, <3>2
    <3> QED
      BY <3>3 DEF Agree, Wrong
  <2> QED
    BY <2>1, <2>2
<1>16. RowsTrue'
  <2>1. srv'[l] = s /\ \A m \in DOMAIN lists' : m # l => srv'[m] = srv[m] /\ (m \in strayed => m \in strayed')
    BY <1>1 DEF s
  <2> QED
    BY <1>3, <1>12, <1>15, <2>1, OneList
<1> QED
  BY <1>12, <1>13, <1>14, <1>16

\* A request lost.
LEMMA LossStep ==
  ASSUME MemberIInv, SrvLoses
  PROVE  MemberIInv' /\ ParkedStep
<1> USE DEF MemberIInv
<1>1. /\ asked # <<>> /\ asked' = Tail(asked) /\ untimed' = (untimed \/ ~awaiting)
      /\ UNCHANGED <<active, lists, recent, total, ranges, pending, awaiting, srv, subscribed, strayed>>
  BY DEF SrvLoses
<1>2. asked \in Seq(Requests) /\ Len(asked) <= MaxAsked
  BY DEF AskingOK
<1>3. asked' \in Seq(Requests) /\ Len(asked') <= MaxAsked
  BY <1>1, <1>2, MemberListAssumption
<1>4. AskingOK'
  BY <1>1, <1>3 DEF AskingOK
<1>5. LastAsked'
  <2> DEFINE t == Tail(asked)
             n == Len(asked)
  <2>1. n \in Nat /\ Len(t) = n - 1 /\ (t # <<>> => t[n - 1] = asked[n])
    BY <1>1, <1>2
  <2>2. active # None => asked[n].list = activeList
    BY <1>1 DEF LastAsked, EndsWith
  <2> HIDE DEF t, n
  <2>3. active # None => EndsWith(t, activeList)
    BY <2>1, <2>2 DEF EndsWith
  <2> QED
    BY <1>1, <2>3 DEF LastAsked, activeList, t
<1>6. ListsKept' /\ GatewayOK' /\ ActiveKept' /\ RowsTrue'
  BY <1>1 DEF ListsKept, GatewayOK, ActiveKept, RowsTrue, activeList
<1>7. AskedAgain'
  BY <1>1 DEF AskedAgain, AskingOK
<1> QED
  BY <1>1, <1>4, <1>5, <1>6, <1>7 DEF ParkedStep

\* handleMemberRemoved takes rows away and adds none.
LEMMA RemovedStep ==
  ASSUME MemberIInv, NEW x \in Items, HandleMemberRemoved(x)
  PROVE  MemberIInv' /\ ParkedStep
<1> USE DEF MemberIInv
<1> DEFINE Gone(l) == {r \in DOMAIN lists[l].rows : lists[l].rows[r] = x}
           Less(l) == [lists[l] EXCEPT !.rows = Without(@, Gone(l))]
<1>1. /\ lists' = [l \in DOMAIN lists |-> Less(l)]
      /\ UNCHANGED <<active, recent, total, ranges, pending, awaiting, asked, srv, subscribed, strayed, lost, untimed>>
  BY DEF HandleMemberRemoved
<1>2. DOMAIN lists \in SUBSET Lists /\ lists \in [DOMAIN lists -> ListData]
  BY ListMapIs DEF ListsKept
<1>3. ASSUME NEW l \in DOMAIN lists
      PROVE  Less(l) \in ListData /\ Less(l).count = lists[l].count /\ SubRows(Less(l).rows, lists[l].rows)
  <2> DEFINE ld == lists[l]
             S == Gone(l)
             w == Without(ld.rows, S)
  <2>1. ld \in ListData /\ ld.rows \in PartialRows /\ ld.count \in Nat
    BY <1>2 DEF ListData
  <2>2. Less(l) = [rows |-> w, count |-> ld.count]
    BY <2>1 DEF ListData
  <2>3. ld.rows \in RowMaps /\ DOMAIN ld.rows \in SUBSET Rows
    BY <2>1, PartialIs
  <2> HIDE DEF S, ld
  <2>4. w \in RowMaps /\ DOMAIN w = DOMAIN ld.rows \ S /\ \A r \in DOMAIN ld.rows \ S : w[r] = ld.rows[r]
    BY <2>3, WithoutIs
  <2> HIDE DEF w, Less
  <2>5. w \in PartialRows
    BY <2>3, <2>4, PartialIs
  <2>6. SubRows(w, ld.rows)
    BY <2>4 DEF SubRows
  <2> QED
    BY <2>1, <2>2, <2>5, <2>6 DEF ListData, ld
<1> HIDE DEF Less
<1>4. /\ lists' \in [DOMAIN lists -> ListData]
      /\ \A l \in DOMAIN lists : lists'[l].count = lists[l].count /\ SubRows(lists'[l].rows, lists[l].rows)
  BY <1>1, <1>3
<1>5. lists' \in ListMaps /\ DOMAIN lists' = DOMAIN lists
  BY <1>2, <1>4, IsListMap
<1>6. ListsKept'
  BY <1>1, <1>5 DEF ListsKept
<1>7. AskingOK' /\ LastAsked' /\ GatewayOK' /\ AskedAgain' /\ ParkedStep
  BY <1>1 DEF AskingOK, LastAsked, GatewayOK, AskedAgain, activeList, ParkedStep
<1>8. ActiveKept'
  BY <1>1, <1>4, <1>5 DEF ActiveKept, activeList
<1>9. RowsTrue'
  BY <1>1, <1>4, <1>5, FewerRows
<1> QED
  BY <1>6, <1>7, <1>8, <1>9

\* Every step keeps the invariant, and parked blocks until they are subscribed to.
LEMMA MemberStep == MemberIInv /\ [MemberNext]_memberVars => MemberIInv' /\ [ParkedStep]_memberVars
<1> SUFFICES ASSUME MemberIInv, [MemberNext]_memberVars PROVE MemberIInv' /\ [ParkedStep]_memberVars
  OBVIOUS
<1>1. CASE MemberNext
  BY <1>1, SetActiveStep, ClearStep, ClearGuildStep, RangeStep, FlushStep, ReconnectStep, ChangeStep,
     SyncStep, LossStep, RemovedStep DEF MemberNext
<1>2. CASE UNCHANGED memberVars
  BY <1>2 DEF memberVars, MemberIInv, ListsKept, AskingOK, LastAsked, GatewayOK, ActiveKept, AskedAgain,
     RowsTrue, activeList
<1> QED
  BY <1>1, <1>2

\* The types and the agreements of MemberIInv, for any channels, items, rows, blocks and
\* bounds.
THEOREM MemberInvariance == MemberSpec => []MemberIInv
<1>1. MemberInit => MemberIInv
  BY InitMember
<1>2. MemberIInv /\ [MemberNext]_memberVars => MemberIInv'
  BY MemberStep
<1> QED
  BY <1>1, <1>2, PTL DEF MemberSpec

\* The list the user looks at is never evicted and is counted right, blocks wait only for a
\* reply that has its timer, and the list shown is reported, asked for or asked again
\* (evictStaleLists, flushPendingRanges, the response timer).
THEOREM ListIsHeld == MemberSpec => []ListHeld
<1>1. MemberIInv => ListHeld
  BY InvIs
<1> QED
  BY <1>1, MemberInvariance, PTL

\* The rows shown are the gateway's, in whatever runs of INSERT and DELETE its operations
\* arrive and are batched, and whatever blocks are evicted or asked for again; unless the
\* list changed while it was not reported or by DELETEs that do not go up the list, which
\* processBatchDeletes sorts, and no SYNC covered its rows since.
THEOREM RowsStayTrue == MemberSpec => []RowsTrue
<1>1. MemberIInv => RowsTrue
  BY InvIs
<1> QED
  BY <1>1, MemberInvariance, PTL

\* A scroll parked while a reply is awaited is subscribed to when it is unparked, unless the
\* channel was left or the session is a new one.
THEOREM ParkedIsApplied == MemberSpec => ParkedApplied
<1>1. MemberIInv /\ [MemberNext]_memberVars =>
        [pending # {} /\ pending' = {} => ranges' = pending \/ active' # active \/ Reconnect]_memberVars
  BY MemberStep DEF ParkedStep
<1> QED
  BY <1>1, MemberInvariance, PTL DEF MemberSpec, ParkedApplied

===============================================================================
