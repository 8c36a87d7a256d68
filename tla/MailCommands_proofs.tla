-------------------------- MODULE MailCommands_proofs --------------------------
(***************************************************************************)
(* Theorems about MailCommands, for any messages, mailboxes, queries,      *)
(* counts and page limit.  The inductive invariant IInv says               *)
(*   TypeOK  the types, and what is cached for a mailbox is in its table;  *)
(*   Stages  which command can be at which of its steps;                   *)
(*   LsGetsThere  until ls prints, each message it could know has been     *)
(*           found, or as many newer ones as are wanted, or is cached for  *)
(*           a mailbox that is still to do, or the page of the mailbox     *)
(*           whose turn it is was full of newer ones, or it is beyond such *)
(*           a page that has no room for --count and for what was moved;   *)
(*   OnePlaceForAHome  until ls prints, each message is in the result at   *)
(*           most once for each mailbox that is done and that it is in;    *)
(*   SearchGetsThere  the same for search, which syncs all its mailboxes   *)
(*           before it looks into the first;                               *)
(* and the property of what ls has printed.  Listings, pages and the sort  *)
(* are made of ranks: the key at place i has fewer than i keys above it.   *)
(***************************************************************************)
EXTENDS MailCommands, FiniteSetTheorems, WellFoundedInduction, TLAPS

------------------------------------------------------------------------------
(* Ranks in a finite set of keys *)

\* Sets of keys are finite.
LEMMA KeySets ==
  /\ \A x \in Key : x \in Nat
  /\ \A S \in SUBSET Key : IsFiniteSet(S) /\ Cardinality(S) \in Nat
  /\ \A S \in SUBSET Key : \A T \in SUBSET S : Cardinality(T) <= Cardinality(S)
<1>1. \A S \in SUBSET Key : IsFiniteSet(S) /\ Cardinality(S) \in Nat
  BY MailAssumption, FS_Subset, FS_CardinalityType
<1>2. ASSUME NEW S \in SUBSET Key, NEW T \in SUBSET S
      PROVE  Cardinality(T) <= Cardinality(S)
  BY <1>1, FS_Subset
<1> QED BY <1>1, <1>2, MailAssumption

\* Sets of keys have a greatest and a least key.
LEMMA Greatest ==
  ASSUME NEW S \in SUBSET Key, S # {}
  PROVE  \E x \in S : \A y \in S : y <= x
<1> DEFINE Above(x) == {y \in S : y > x}
           Tails == {Above(x) : x \in S}
<1>1. \A T \in Tails : T \in FiniteSubsetsOf(S)
  BY KeySets, FS_Subset DEF FiniteSubsetsOf
<1>2. Tails \subseteq FiniteSubsetsOf(S) /\ Tails # {}
  BY <1>1
<1>3. \E T \in Tails : \A U \in Tails : ~ (<<U, T>> \in StrictSubsetOrdering(S))
  <2> HIDE DEF Tails
  <2>1. IsWellFoundedOn(StrictSubsetOrdering(S), FiniteSubsetsOf(S))
    BY FS_StrictSubsetOrderingWellFounded
  <2> QED BY <1>2, <2>1, WFMin, Zenon
<1>4. PICK x \in S : \A y \in S : ~ (<<Above(y), Above(x)>> \in StrictSubsetOrdering(S))
  BY <1>3
<1>5. ASSUME NEW y \in S, y > x PROVE FALSE
  <2>1. x \in Nat /\ y \in Nat /\ \A z \in S : z \in Nat
    BY KeySets
  <2>2. (\A z \in S : z > y => z > x) /\ ~ (y > y)
    BY <1>5, <2>1
  <2>3. Above(y) \subseteq Above(x) /\ y \in Above(x) /\ y \notin Above(y)
    BY <1>5, <2>2, Zenon
  <2>4. <<Above(y), Above(x)>> \in StrictSubsetOrdering(S)
    BY <2>3 DEF StrictSubsetOrdering
  <2> QED BY <1>4, <2>4
<1> QED BY <1>5, KeySets

LEMMA Least ==
  ASSUME NEW S \in SUBSET Key, S # {}
  PROVE  \E x \in S : \A y \in S : x <= y
<1> DEFINE Less == OpToRel(<, Nat)
<1>1. IsWellFoundedOn(Less, Nat)
  BY NatLessThanWellFounded
<1>2. \A x, y \in Nat : x < y => <<x, y>> \in Less
  BY DEF OpToRel
<1>3. S \in SUBSET Nat /\ S # {}
  BY KeySets
<1> HIDE DEF Less
<1>4. PICK x \in S : \A y \in S : ~ (<<y, x>> \in Less)
  BY <1>1, <1>3, WFMin, Zenon
<1>5. ASSUME NEW y \in S PROVE x <= y
  <2>1. x \in Nat /\ y \in Nat
    BY <1>3
  <2>2. ~ (y < x)
    BY <1>2, <1>4, <2>1, Zenon
  <2> QED BY <2>1, <2>2
<1> QED BY <1>5

\* Where key k stands among the values of v.
Above(v, k) == {d \in DOMAIN v : v[d] > k}
From(v, k) == {d \in DOMAIN v : v[d] >= k}
Stands(v, k, i) == Cardinality(Above(v, k)) < i /\ i <= Cardinality(From(v, k))

\* What stands lower has more above it.
LEMMA Standing ==
  ASSUME NEW D, IsFiniteSet(D), NEW v \in [D -> Key]
  PROVE  /\ \A k : Cardinality(Above(v, k)) \in Nat /\ Cardinality(From(v, k)) \in Nat
         /\ \A j, k \in Key : j < k => Cardinality(From(v, k)) <= Cardinality(Above(v, j))
         /\ \A j, k \in Key : j <= k => Cardinality(Above(v, k)) <= Cardinality(Above(v, j))
<1>1. \A S \in SUBSET D : IsFiniteSet(S) /\ Cardinality(S) \in Nat
  BY FS_Subset, FS_CardinalityType
<1>2. \A S \in SUBSET D : \A T \in SUBSET S : Cardinality(T) <= Cardinality(S)
  BY <1>1, FS_Subset
<1>3. \A k : Above(v, k) \in SUBSET D /\ From(v, k) \in SUBSET D
  BY DEF Above, From
<1>4. \A d \in D : v[d] \in Nat
  BY KeySets
<1>5. \A j, k \in Key : j < k => From(v, k) \in SUBSET Above(v, j)
  BY <1>4, KeySets DEF Above, From
<1>6. \A j, k \in Key : j <= k => Above(v, k) \in SUBSET Above(v, j)
  BY <1>4, KeySets DEF Above, From
<1> QED BY <1>1, <1>2, <1>3, <1>5, <1>6

\* There is a value at each place ...
LEMMA PlaceIsTaken ==
  ASSUME NEW D, IsFiniteSet(D), NEW v \in [D -> Key], NEW i \in 1 .. Cardinality(D)
  PROVE  \E k \in {v[d] : d \in D} : Stands(v, k, i)
<1> DEFINE V == {v[d] : d \in D}
           Far == {k \in V : i <= Cardinality(From(v, k))}
<1>1. V \in SUBSET Key
  OBVIOUS
<1>2. D # {} /\ Cardinality(D) \in Nat
  BY FS_EmptySet, FS_CardinalityType
<1>3. Far # {}
  <2>1. PICK k \in V : \A y \in V : k <= y
    <3>1. V # {}
      BY <1>2
    <3> HIDE DEF V
    <3> QED BY <1>1, <3>1, Least
  <2>2. From(v, k) = D
    BY <2>1, <1>1, KeySets DEF From
  <2> QED BY <2>2
<1>4. PICK k \in Far : \A y \in Far : y <= k
  <2>1. Far \in SUBSET Key
    BY <1>1
  <2> HIDE DEF Far
  <2> QED BY <1>3, <2>1, Greatest
<1>5. Cardinality(Above(v, k)) < i
  <2> SUFFICES ASSUME ~ (Cardinality(Above(v, k)) < i) PROVE FALSE
    OBVIOUS
  <2> DEFINE W == {v[d] : d \in Above(v, k)}
  <2>1. i <= Cardinality(Above(v, k))
    BY Standing
  <2>2. Above(v, k) # {}
    BY <2>1, FS_EmptySet
  <2>3. W \in SUBSET V /\ W # {} /\ \A y \in W : y > k
    BY <2>2 DEF Above
  <2>4. PICK y \in W : \A z \in W : y <= z
    <3> HIDE DEF W, V
    <3> QED BY <1>1, <2>3, Least
  <2>5. Above(v, k) \in SUBSET From(v, y)
    BY <2>4, <2>3, <1>1, KeySets DEF Above, From
  <2>6. Cardinality(Above(v, k)) <= Cardinality(From(v, y))
    <3>1. From(v, y) \in SUBSET D
      BY DEF From
    <3>2. IsFiniteSet(From(v, y))
      BY <3>1, FS_Subset
    <3> QED BY <2>5, <3>2, FS_Subset
  <2>7. y \in Far
    <3>1. i \in Int /\ Cardinality(Above(v, k)) \in Nat /\ Cardinality(From(v, y)) \in Nat
      BY Standing
    <3> QED BY <2>1, <2>3, <2>4, <2>6, <3>1
  <2>8. y <= k /\ y > k /\ y \in Nat /\ k \in Nat
    BY <1>1, <1>4, <2>3, <2>7, KeySets
  <2> QED BY <2>8
<1> QED BY <1>4, <1>5 DEF Stands

\* ... and only one.
LEMMA PlaceIsUnique ==
  ASSUME NEW D, IsFiniteSet(D), NEW v \in [D -> Key],
         NEW j \in Key, NEW k \in Key, NEW i \in Int, Stands(v, j, i), Stands(v, k, i)
  PROVE  j = k
<1>1. ASSUME NEW a \in Key, NEW b \in Key, a < b, Stands(v, a, i), Stands(v, b, i) PROVE FALSE
  BY <1>1, Standing DEF Stands
<1> QED BY <1>1, KeySets

------------------------------------------------------------------------------
(* What is listed *)

\* In a set, the key at place i has i - 1 keys above it.
LEMMA RankIsTaken ==
  ASSUME NEW S \in SUBSET Key, NEW i \in 1 .. Cardinality(S)
  PROVE  \E k \in S : Cardinality({j \in S : j > k}) = i - 1
<1> DEFINE v == [k \in S |-> k]
<1>1. IsFiniteSet(S) /\ v \in [S -> Key] /\ S = {v[d] : d \in S}
  BY KeySets
<1>2. PICK k \in S : Stands(v, k, i)
  <2> HIDE DEF v
  <2> QED BY <1>1, PlaceIsTaken
<1>3. Above(v, k) = {j \in S : j > k}
  BY DEF Above
<1>4. From(v, k) = Above(v, k) \cup {k} /\ k \notin Above(v, k)
  BY KeySets DEF Above, From
<1>5. IsFiniteSet(Above(v, k)) /\ Cardinality(Above(v, k)) \in Nat
  <2>1. Above(v, k) \in SUBSET Key
    BY <1>3
  <2> QED BY <2>1, KeySets
<1>6. Cardinality(From(v, k)) = Cardinality(Above(v, k)) + 1
  BY <1>4, <1>5, FS_AddElement
<1> HIDE DEF v
<1>7. Cardinality(Above(v, k)) = i - 1
  BY <1>2, <1>5, <1>6 DEF Stands
<1> QED BY <1>3, <1>7

LEMMA RankIsUnique ==
  ASSUME NEW S \in SUBSET Key, NEW j \in S, NEW k \in S, j < k
  PROVE  Cardinality({y \in S : y > k}) < Cardinality({y \in S : y > j})
<1> DEFINE U == {y \in S : y > k}
           T == {y \in S : y > j}
<1>1. U \in SUBSET T /\ k \in T \ U
  BY KeySets
<1>2. IsFiniteSet(T) /\ Cardinality(T) \in Nat /\ Cardinality(U) \in Nat /\ Cardinality(U) <= Cardinality(T)
  <2>1. T \in SUBSET Key /\ U \in SUBSET Key
    OBVIOUS
  <2> HIDE DEF T, U
  <2> QED BY <1>1, <2>1, KeySets
<1>3. Cardinality(U) # Cardinality(T)
  <2> HIDE DEF T, U
  <2> QED BY <1>1, <1>2, FS_Subset
<1> QED BY <1>2, <1>3

\* A listing holds what is found, each once.
LEMMA ListingIsComplete ==
  ASSUME NEW S \in SUBSET Key
  PROVE  /\ Listing(S) \in Seq(Key) /\ ToSet(Listing(S)) = S
         /\ \A i, j \in DOMAIN Listing(S) : Listing(S)[i] = Listing(S)[j] => i = j
<1> DEFINE n == Cardinality(S)
           Rank(k) == Cardinality({j \in S : j > k})
           L == Listing(S)
<1>1. n \in Nat /\ IsFiniteSet(S)
  BY KeySets
<1>2. L = [i \in 1 .. n |-> CHOOSE k \in S : Rank(k) = i - 1]
  BY DEF Listing
<1>3. \A i \in 1 .. n : L[i] \in S /\ Rank(L[i]) = i - 1
  <2>1. \A i \in 1 .. n : \E k \in S : Rank(k) = i - 1
    BY RankIsTaken
  <2> HIDE DEF Rank, L
  <2> QED BY <1>2, <2>1
<1>4. ASSUME NEW k \in S PROVE \E i \in 1 .. n : L[i] = k
  <2> DEFINE U == {j \in S : j > k}
  <2>1. Rank(k) \in Nat /\ Rank(k) < n
    <3>1. U \in SUBSET S /\ U # S
      BY KeySets
    <3>2. IsFiniteSet(U) /\ Cardinality(U) <= n /\ Cardinality(U) # n
      BY <1>1, <3>1, FS_Subset
    <3>3. Cardinality(U) \in Nat
      BY <3>2, FS_CardinalityType
    <3> QED BY <1>1, <3>2, <3>3
  <2> DEFINE i == Rank(k) + 1
  <2>2. i \in 1 .. n /\ i - 1 = Rank(k)
    <3> HIDE DEF Rank
    <3> QED BY <1>1, <2>1
  <2>3. L[i] \in S /\ Rank(L[i]) = Rank(k)
    <3> HIDE DEF Rank, L, i
    <3> QED BY <1>3, <2>2
  <2>4. ~ (L[i] < k) /\ ~ (k < L[i])
    <3> HIDE DEF L, i
    <3>1. ASSUME NEW x \in S, NEW y \in S, x < y PROVE Rank(y) < Rank(x)
      BY <3>1, RankIsUnique
    <3>2. \A x \in S : Rank(x) \in Nat
      BY KeySets
    <3> HIDE DEF Rank
    <3> QED BY <2>3, <3>1, <3>2
  <2>5. L[i] = k
    <3> HIDE DEF L, i
    <3> QED BY <2>3, <2>4, KeySets
  <2> QED BY <2>2, <2>5
<1>5. L \in Seq(Key) /\ DOMAIN L = 1 .. n
  <2> HIDE DEF Rank, L
  <2>1. L \in [1 .. n -> Key]
    BY <1>2, <1>3
  <2> QED BY <1>1, <2>1
<1>6. ToSet(L) = {L[i] : i \in 1 .. n}
  BY <1>5 DEF ToSet
<1> HIDE DEF L
<1>7. ToSet(L) = S
  BY <1>3, <1>4, <1>6
<1>8. \A i, j \in DOMAIN L : L[i] = L[j] => i = j
  <2> HIDE DEF Rank
  <2> QED BY <1>3, <1>5
<1> QED BY <1>5, <1>7, <1>8 DEF L

\* Of the newest n, at least n are above a key with n keys above it.
LEMMA NewestAreEnough ==
  ASSUME NEW S \in SUBSET Key, NEW n \in Int, NEW k \in Key,
         n <= Cardinality({x \in S : x > k})
  PROVE  n <= Cardinality({x \in Newest(S, n) : x > k})
<1> DEFINE Rank(x) == Cardinality({j \in S : j > x})
           T == {x \in Newest(S, n) : x > k}
           f == [i \in 1 .. n |-> CHOOSE x \in S : Rank(x) = i - 1]
<1>1. T \in SUBSET Key /\ IsFiniteSet(T) /\ Cardinality(T) \in Nat
  <2>1. T \in SUBSET Key
    BY DEF Newest
  <2> QED BY <2>1, KeySets
<1>2. CASE n <= 0
  BY <1>1, <1>2
<1>3. CASE n > 0
  <2>1. Cardinality(S) \in Nat /\ Rank(k) \in Nat /\ Rank(k) <= Cardinality(S) /\ n <= Rank(k)
    <3>1. {j \in S : j > k} \in SUBSET S
      OBVIOUS
    <3> QED BY <3>1, KeySets
  <2>2. \A i \in 1 .. n : f[i] \in S /\ Rank(f[i]) = i - 1
    <3>1. \A i \in 1 .. n : i \in 1 .. Cardinality(S)
      <4> HIDE DEF Rank
      <4> QED BY <2>1
    <3>2. \A i \in 1 .. n : \E x \in S : Rank(x) = i - 1
      BY <3>1, RankIsTaken
    <3> HIDE DEF Rank
    <3> QED BY <3>2
  <2>3. ASSUME NEW i \in 1 .. n PROVE f[i] \in T
    <3> DEFINE x == f[i]
    <3>1. x \in S /\ Rank(x) = i - 1
      BY <2>2
    <3> HIDE DEF x
    <3>2. x \in Newest(S, n)
      BY <3>1 DEF Newest
    <3>3. x > k
      <4> SUFFICES ASSUME ~ (x > k) PROVE FALSE
        OBVIOUS
      <4>1. {j \in S : j > k} \in SUBSET {j \in S : j > x}
        BY <3>1, KeySets
      <4>2. Rank(k) <= Rank(x)
        <5>1. {j \in S : j > x} \in SUBSET Key
          OBVIOUS
        <5> QED BY <4>1, <5>1, KeySets
      <4> HIDE DEF Rank
      <4> QED BY <2>1, <3>1, <4>2
    <3> QED BY <3>2, <3>3 DEF x
  <2>4. f \in Injection(1 .. n, T)
    <3>1. f \in [1 .. n -> T]
      <4> HIDE DEF Rank, T
      <4> QED BY <2>3
    <3>2. \A a, b \in 1 .. n : f[a] = f[b] => a = b
      <4> HIDE DEF Rank, f
      <4> QED BY <2>2
    <3> HIDE DEF f, T
    <3> QED BY <3>1, <3>2 DEF Injection, IsInjective
  <2>5. Cardinality(1 .. n) = n
    BY <1>3, FS_Interval
  <2>6. n <= Cardinality(T)
    <3> HIDE DEF f, T
    <3> QED BY <1>1, <2>4, <2>5, FS_Injection
  <2> QED BY <2>6
<1> QED BY <1>2, <1>3

\* The sorted result: at each place the key that stands there.
LEMMA SortedIsRanked ==
  ASSUME NEW s \in Seq(Key)
  PROVE  /\ NewestFirst(s) \in Seq(Key) /\ Len(NewestFirst(s)) = Len(s)
         /\ \A i \in 1 .. Len(s) :
              NewestFirst(s)[i] \in ToSet(s) /\ Stands(s, NewestFirst(s)[i], i)
<1> DEFINE t == NewestFirst(s)
           D == DOMAIN s
<1>1. D = 1 .. Len(s) /\ Len(s) \in Nat /\ s \in [D -> Key]
  OBVIOUS
<1>2. IsFiniteSet(D) /\ Cardinality(D) = Len(s)
  <2>1. IsFiniteSet(1 .. Len(s)) /\ Cardinality(1 .. Len(s)) = Len(s)
    <3>1. ASSUME NEW n \in Nat PROVE IsFiniteSet(1 .. n) /\ Cardinality(1 .. n) = n
      BY FS_Interval
    <3> QED BY <1>1, <3>1
  <2> QED BY <1>1, <2>1
<1>3. ToSet(s) = {s[d] : d \in D}
  BY DEF ToSet
<1>4. \A i \in D : \E k \in ToSet(s) : Stands(s, k, i)
  <2> HIDE DEF D
  <2> QED BY <1>1, <1>2, <1>3, PlaceIsTaken
<1>5. t = [i \in D |-> CHOOSE k \in ToSet(s) : Stands(s, k, i)]
  BY DEF NewestFirst, Stands, Above, From
<1> HIDE DEF t, D
<1>6. \A i \in D : t[i] \in ToSet(s) /\ Stands(s, t[i], i)
  BY <1>4, <1>5
<1>7. ToSet(s) \subseteq Key
  BY <1>1, <1>3
<1>8. t \in [1 .. Len(s) -> Key]
  BY <1>1, <1>5, <1>6, <1>7
<1> QED BY <1>1, <1>6, <1>8 DEF t

\* What stands before place n is above a key with n distinct keys above it ...
LEMMA FirstAreAbove ==
  ASSUME NEW s \in Seq(Key), NEW n \in Int, NEW k \in Key,
         n <= Cardinality({x \in ToSet(s) : x > k})
  PROVE  /\ n <= Len(s)
         /\ \A i \in 1 .. Len(s) : i <= n => NewestFirst(s)[i] > k
<1> DEFINE D == DOMAIN s
           t == NewestFirst(s)
           X == {x \in ToSet(s) : x > k}
           f == [d \in Above(s, k) |-> s[d]]
<1>1. D = 1 .. Len(s) /\ Len(s) \in Nat /\ s \in [D -> Key] /\ ToSet(s) \in SUBSET Key
  BY DEF ToSet
<1>2. IsFiniteSet(D) /\ Cardinality(D) = Len(s)
  <2>1. ASSUME NEW m \in Nat PROVE IsFiniteSet(1 .. m) /\ Cardinality(1 .. m) = m
    BY FS_Interval
  <2> QED BY <1>1, <2>1
<1>3. /\ Above(s, k) \in SUBSET D /\ IsFiniteSet(Above(s, k))
      /\ Cardinality(Above(s, k)) \in Nat /\ Cardinality(Above(s, k)) <= Len(s)
  <2>1. Above(s, k) \in SUBSET D
    BY DEF Above
  <2> QED BY <1>2, <2>1, FS_Subset, FS_CardinalityType
<1>4. Cardinality(X) <= Cardinality(Above(s, k)) /\ Cardinality(X) \in Nat
  <2>1. f \in Surjection(Above(s, k), X)
    <3>1. \A d \in Above(s, k) : f[d] \in X
      BY DEF Above, ToSet
    <3>2. \A x \in X : \E d \in Above(s, k) : f[d] = x
      BY DEF Above, ToSet
    <3> HIDE DEF X
    <3> QED BY <3>1, <3>2 DEF Surjection
  <2>2. X \in SUBSET Key
    BY <1>1
  <2> HIDE DEF X, f
  <2> QED BY <1>3, <2>1, <2>2, FS_Surjection, KeySets
<1>5. n <= Cardinality(Above(s, k))
  BY <1>3, <1>4
<1>6. ASSUME NEW i \in 1 .. Len(s), i <= n, ~ (t[i] > k) PROVE FALSE
  <2>1. Stands(s, t[i], i) /\ t[i] \in Key
    <3>1. t[i] \in ToSet(s) /\ Stands(s, t[i], i)
      BY SortedIsRanked
    <3> QED BY <1>1, <3>1
  <2> HIDE DEF t
  <2>2. t[i] <= k
    BY <1>6, <2>1, KeySets
  <2>3. Cardinality(Above(s, k)) <= Cardinality(Above(s, t[i])) /\ Cardinality(Above(s, t[i])) \in Nat
    BY <1>1, <1>2, <2>1, <2>2, Standing
  <2>4. Cardinality(Above(s, t[i])) < i
    BY <2>1 DEF Stands
  <2> QED BY <1>3, <1>5, <1>6, <2>3, <2>4
<1>7. \A i \in 1 .. Len(s) : i <= n => t[i] > k
  <2> HIDE DEF t
  <2> QED BY <1>6
<1> QED BY <1>3, <1>5, <1>7

\* ... and a key that is there has its place before those below it.
LEMMA EachHasItsPlace ==
  ASSUME NEW s \in Seq(Key), NEW k \in ToSet(s)
  PROVE  \E r \in 1 .. Len(s) :
           /\ NewestFirst(s)[r] = k
           /\ \A i \in 1 .. Len(s) : NewestFirst(s)[i] < k => r < i
<1> DEFINE D == DOMAIN s
           t == NewestFirst(s)
           r == Cardinality(From(s, k))
<1>1. D = 1 .. Len(s) /\ Len(s) \in Nat /\ s \in [D -> Key] /\ ToSet(s) \in SUBSET Key /\ k \in Key
  BY DEF ToSet
<1>2. IsFiniteSet(D) /\ Cardinality(D) = Len(s)
  <2>1. ASSUME NEW m \in Nat PROVE IsFiniteSet(1 .. m) /\ Cardinality(1 .. m) = m
    BY FS_Interval
  <2> QED BY <1>1, <2>1
<1>3. r \in Nat /\ r <= Len(s) /\ Cardinality(Above(s, k)) < r
  <2>1. From(s, k) \in SUBSET D /\ Above(s, k) \in SUBSET From(s, k)
    BY <1>1, KeySets DEF From, Above
  <2>2. Above(s, k) # From(s, k)
    <3>1. PICK d \in D : s[d] = k
      BY DEF ToSet
    <3>2. d \in From(s, k) /\ d \notin Above(s, k)
      BY <1>1, <3>1, KeySets DEF From, Above
    <3> QED BY <3>2
  <2>3. IsFiniteSet(From(s, k)) /\ r \in Nat /\ r <= Len(s)
    BY <1>2, <2>1, FS_Subset, FS_CardinalityType
  <2>4. IsFiniteSet(Above(s, k)) /\ Cardinality(Above(s, k)) <= r /\ Cardinality(Above(s, k)) # r
    BY <2>1, <2>2, <2>3, FS_Subset
  <2>5. Cardinality(Above(s, k)) \in Nat
    BY <2>4, FS_CardinalityType
  <2> QED BY <2>3, <2>4, <2>5
<1>4. r \in 1 .. Len(s) /\ Stands(s, k, r)
  <2>1. Cardinality(Above(s, k)) \in Nat
    BY <1>1, <1>2, Standing
  <2>2. r \in 1 .. Len(s)
    <3> HIDE DEF r
    <3> QED BY <1>1, <1>3, <2>1
  <2> QED BY <1>3, <2>2 DEF Stands
<1>5. \A i \in 1 .. Len(s) : t[i] \in Key /\ Stands(s, t[i], i)
  BY <1>1, SortedIsRanked
<1> HIDE DEF r, t
<1>6. t[r] = k
  BY <1>1, <1>2, <1>4, <1>5, PlaceIsUnique
<1>7. ASSUME NEW i \in 1 .. Len(s), t[i] < k PROVE r < i
  <2>1. t[i] \in Key /\ Stands(s, t[i], i)
    BY <1>5
  <2>2. r <= Cardinality(Above(s, t[i])) /\ Cardinality(Above(s, t[i])) \in Nat
    BY <1>1, <1>2, <1>7, <2>1, Standing DEF r
  <2> QED BY <1>3, <2>1, <2>2 DEF Stands
<1> QED BY <1>4, <1>6, <1>7 DEF t

LEMMA RangesAreFinite == \A n \in Int : IsFiniteSet(1 .. n)
<1>1. ASSUME NEW n \in Int PROVE IsFiniteSet(1 .. n)
  BY FS_Interval
<1> QED BY <1>1

\* Where key k is in s.
PlacesIn(s, k) == {i \in DOMAIN s : s[i] = k}

LEMMA PlacesAreFinite ==
  ASSUME NEW s \in Seq(Key), NEW k
  PROVE  IsFiniteSet(PlacesIn(s, k)) /\ Cardinality(PlacesIn(s, k)) \in Nat
<1>1. PlacesIn(s, k) \in SUBSET (1 .. Len(s)) /\ Len(s) \in Nat
  BY DEF PlacesIn
<1>2. IsFiniteSet(1 .. Len(s))
  BY <1>1, FS_Interval
<1> QED BY <1>1, <1>2, FS_Subset, FS_CardinalityType

\* What is found adds one place for each key.
LEMMA PlacesOnward ==
  ASSUME NEW a \in Seq(Key), NEW found \in SUBSET Key, NEW k
  PROVE  Cardinality(PlacesIn(a \o Listing(found), k))
           = Cardinality(PlacesIn(a, k)) + (IF k \in found THEN 1 ELSE 0)
<1> DEFINE L == Listing(found)
           P == PlacesIn(a, k)
<1>1. L \in Seq(Key) /\ ToSet(L) = found /\ \A i, j \in DOMAIN L : L[i] = L[j] => i = j
  BY ListingIsComplete
<1> HIDE DEF L
<1>2. /\ Len(a) \in Nat /\ Len(L) \in Nat /\ DOMAIN a = 1 .. Len(a) /\ DOMAIN L = 1 .. Len(L)
      /\ DOMAIN (a \o L) = 1 .. (Len(a) + Len(L))
      /\ \A i \in 1 .. (Len(a) + Len(L)) :
           (a \o L)[i] = IF i <= Len(a) THEN a[i] ELSE L[i - Len(a)]
  BY <1>1
<1>3. /\ \A i \in 1 .. Len(a) : i \in DOMAIN (a \o L) /\ (a \o L)[i] = a[i]
      /\ \A i \in DOMAIN (a \o L) : i \notin 1 .. Len(a) =>
           i - Len(a) \in DOMAIN L /\ (a \o L)[i] = L[i - Len(a)]
  BY <1>2
<1>4. CASE k \notin found
  <2>1. \A i \in DOMAIN L : L[i] # k
    BY <1>1, <1>4 DEF ToSet
  <2>2. PlacesIn(a \o L, k) = P
    BY <1>2, <1>3, <2>1 DEF PlacesIn
  <2>3. Cardinality(P) \in Nat
    BY PlacesAreFinite
  <2> HIDE DEF P
  <2> QED BY <1>4, <2>2, <2>3 DEF L, P
<1>5. CASE k \in found
  <2>1. PICK d \in DOMAIN L : L[d] = k
    BY <1>1, <1>5 DEF ToSet
  <2> DEFINE p == Len(a) + d
  <2>2. p \in DOMAIN (a \o L) /\ p \notin 1 .. Len(a) /\ p - Len(a) = d
    BY <1>2
  <2>3. \A i \in DOMAIN (a \o L) : i \notin 1 .. Len(a) /\ (a \o L)[i] = k => i = p
    <3>1. ASSUME NEW i \in DOMAIN (a \o L), i \notin 1 .. Len(a), (a \o L)[i] = k
          PROVE  i - Len(a) = d
      BY <1>1, <1>3, <2>1, <3>1
    <3> QED BY <1>2, <3>1
  <2> HIDE DEF p
  <2>4. PlacesIn(a \o L, k) = P \cup {p} /\ p \notin P
    BY <1>2, <1>3, <2>1, <2>2, <2>3 DEF PlacesIn
  <2>5. IsFiniteSet(P) /\ Cardinality(P) \in Nat
    BY PlacesAreFinite
  <2> HIDE DEF P
  <2>6. Cardinality(P \cup {p}) = Cardinality(P) + 1
    BY <2>4, <2>5, FS_AddElement
  <2> QED BY <1>5, <2>4, <2>6 DEF L, P
<1> QED BY <1>4, <1>5

\* The sorted result has each key in no more places.
LEMMA PlacesSorted ==
  ASSUME NEW s \in Seq(Key), NEW k \in Key
  PROVE  Cardinality(PlacesIn(NewestFirst(s), k)) <= Cardinality(PlacesIn(s, k))
<1> DEFINE t == NewestFirst(s)
           D == DOMAIN s
           A == Above(s, k)
           F == From(s, k)
           P == PlacesIn(s, k)
<1>1. D = 1 .. Len(s) /\ Len(s) \in Nat /\ s \in [D -> Key]
  OBVIOUS
<1>2. IsFiniteSet(D)
  <2>1. IsFiniteSet(1 .. Len(s))
    <3>1. Len(s) \in Int
      BY <1>1
    <3> QED BY <3>1, RangesAreFinite
  <2> QED BY <1>1, <2>1
<1>3. A \in SUBSET D /\ P \in SUBSET D /\ F = A \cup P /\ A \cap P = {}
  BY <1>1, KeySets DEF Above, From, PlacesIn
<1>4. /\ IsFiniteSet(A) /\ IsFiniteSet(P) /\ Cardinality(A) \in Nat /\ Cardinality(P) \in Nat
      /\ Cardinality(F) = Cardinality(A) + Cardinality(P)
  <2> HIDE DEF A, P, F, D
  <2>1. IsFiniteSet(A) /\ IsFiniteSet(P)
    BY <1>2, <1>3, FS_Subset
  <2>2. Cardinality(F) = Cardinality(A) + Cardinality(P) - Cardinality(A \cap P)
    BY <1>3, <2>1, FS_Union
  <2>3. Cardinality(A \cap P) = 0
    BY <1>3, FS_EmptySet
  <2>4. Cardinality(A) \in Nat /\ Cardinality(P) \in Nat
    BY <2>1, FS_CardinalityType
  <2> QED BY <2>1, <2>2, <2>3, <2>4
<1> DEFINE I == (Cardinality(A) + 1) .. Cardinality(F)
<1>5. PlacesIn(t, k) \in SUBSET I
  <2>1. t \in Seq(Key) /\ Len(t) = Len(s) /\ \A i \in 1 .. Len(s) : Stands(s, t[i], i)
    BY SortedIsRanked
  <2> HIDE DEF t
  <2>2. ASSUME NEW i \in PlacesIn(t, k) PROVE i \in I
    <3>1. i \in 1 .. Len(s) /\ t[i] = k
      BY <2>1 DEF PlacesIn
    <3>2. Cardinality(A) < i /\ i <= Cardinality(F) /\ i \in Int
      BY <2>1, <3>1 DEF Stands
    <3> HIDE DEF A, F, P
    <3> QED BY <1>4, <3>2
  <2> QED BY <2>2
<1> HIDE DEF A, F, P, D, t
<1>6. IsFiniteSet(I) /\ Cardinality(I) = Cardinality(P)
  <2>1. Cardinality(A) + 1 \in Int /\ Cardinality(F) \in Int
    BY <1>4
  <2>2. /\ IsFiniteSet(I)
        /\ Cardinality(I) = IF Cardinality(A) + 1 > Cardinality(F) THEN 0
                            ELSE Cardinality(F) - (Cardinality(A) + 1) + 1
    BY <2>1, FS_Interval
  <2> QED BY <1>4, <2>2
<1> HIDE DEF I
<1>7. Cardinality(PlacesIn(t, k)) <= Cardinality(I)
  BY <1>5, <1>6, FS_Subset
<1> QED BY <1>6, <1>7 DEF t, P

------------------------------------------------------------------------------
(* The invariant *)

Stages ==
  /\ cmd.at \in {"list", "fallback"} => cmd.name = "ls" /\ cmd.todo # <<>>
  /\ cmd.at = "search" => cmd.name = "search"
  /\ cmd.at = "live" => cmd.name # "search"
  /\ cmd.at = "sync" => cmd.name \in {"ls", "search"}
  /\ cmd.at = "sync" /\ cmd.name = "search" => cmd.todo # <<>>
  /\ cmd.at = "panicked" => cmd.name = "ls" /\ cmd.count < 0
  /\ cmd.at = "printed" => cmd.todo = <<>>
  /\ ToSet(cmd.todo) \subseteq ToSet(cmd.boxes)

\* ls has found k, or as many newer ones as are wanted; ...
Served(k) ==
  \/ k \in ToSet(cmd.all)
  \/ cmd.count <= Cardinality({x \in ToSet(cmd.all) : x > k})
\* ... or k is not on the page of the mailbox whose turn it is, and those on it that
\* are newer are cached or were moved.
PastPage(k) ==
  /\ cmd.at \in {"list", "fallback"} /\ <<Box, k>> \in then.index
  /\ PageLimit <= Cardinality({x \in Cached(Box) \cup then.moved : x > k})
  /\ BeyondThePage(k)
\* ... A page has a place for --count messages and for those that were moved.
Roomy == cmd.count + Cardinality(then.moved) <= PageLimit
Missed(k) == ~Roomy /\ BeyondThePage(k)
Fits == Int32(cmd.count) = cmd.count

LsGetsThere ==
  /\ cmd.name = "ls" /\ cmd.at \notin {"printed", "panicked"}
  /\ EveryMailboxAnswered /\ Fits
  => \A k \in Known :
       Served(k) \/ rows[k] \in ToSet(cmd.todo) \/ PastPage(k) \/ Missed(k)

\* Until ls prints, a message has a place in the result for each mailbox that is done
\* and that it is in, or fewer.
DoneSoFar == Len(cmd.boxes) - Len(cmd.todo)
HomesSoFar(k) == {j \in 1 .. DoneSoFar : <<cmd.boxes[j], k>> \in index}
OnePlaceForAHome ==
  cmd.name = "ls" /\ cmd.at \notin {"printed", "panicked"} =>
    /\ Len(cmd.todo) <= Len(cmd.boxes)
    /\ \A j \in 1 .. Len(cmd.todo) : cmd.todo[j] = cmd.boxes[DoneSoFar + j]
    /\ \A k \in Key : Cardinality(Places(k)) <= Cardinality(HomesSoFar(k))

\* A mailbox has as many matches as are wanted.
Full ==
  \E m \in ToSet(cmd.boxes) :
    cmd.count \in 0 .. Cardinality((Cached(m) \cup then.moved) \cap cmd.query)

SearchGetsThere ==
  cmd.name = "search" /\ EveryMailboxAnswered =>
    \A k \in Known \cap cmd.query :
      \/ BeyondThePage(k)
      \/ cmd.at = "sync" /\ rows[k] \in ToSet(cmd.boxes)
      \/ cmd.at # "sync" /\ (k \in ToSet(cmd.all) \/ rows[k] \in ToSet(cmd.todo) \/ Full)

IInv ==
  /\ TypeOK /\ Stages /\ LsGetsThere /\ OnePlaceForAHome /\ SearchGetsThere
  /\ LsShowsTheNewest

------------------------------------------------------------------------------
(* What the steps are made of *)

\* A command begins with at least one mailbox.
LEMMA BoxesTyped ==
  ASSUME NEW boxes \in Boxes \cup {<<inbox>>}
  PROVE  boxes \in Seq(Mailbox) /\ boxes # <<>>
<1>1. \A m \in Mailbox : <<m>> \in Seq(Mailbox) /\ <<m>> # <<>>
  OBVIOUS
<1>2. (boxes = Configured /\ boxes # <<>>) \/ \E m \in Mailbox : boxes = <<m>>
  BY MailAssumption DEF Boxes
<1> QED BY <1>1, <1>2, MailAssumption

\* The mailbox whose turn it is, and the rest.
LEMMA BoxAndRest ==
  ASSUME TypeOK, cmd.todo # <<>>
  PROVE  /\ Box \in Mailbox /\ Box \in ToSet(cmd.todo)
         /\ Tail(cmd.todo) \in Seq(Mailbox)
         /\ ToSet(Tail(cmd.todo)) \subseteq ToSet(cmd.todo)
         /\ \A m \in ToSet(cmd.todo) \ {Box} : m \in ToSet(Tail(cmd.todo))
         /\ Len(cmd.todo) > 1 => Tail(cmd.todo) # <<>>
<1> DEFINE w == cmd.todo
<1>1. w \in Seq(Mailbox) /\ w # <<>>
  BY DEF TypeOK
<1> HIDE DEF w
<1>2. Len(w) \in Nat /\ Len(w) > 0 /\ Head(w) = w[1] /\ DOMAIN w = 1 .. Len(w)
  BY <1>1
<1>3. /\ Tail(w) \in Seq(Mailbox) /\ Len(Tail(w)) = Len(w) - 1
      /\ DOMAIN Tail(w) = 1 .. (Len(w) - 1)
  BY <1>1
<1>4. \A j \in 1 .. (Len(w) - 1) : Tail(w)[j] = w[j + 1]
  BY <1>1, <1>2
<1>5. ToSet(Tail(w)) \subseteq ToSet(w)
  BY <1>2, <1>3, <1>4 DEF ToSet
<1>6. ASSUME NEW m \in ToSet(w), m # w[1] PROVE m \in ToSet(Tail(w))
  <2>1. PICK i \in 1 .. Len(w) : w[i] = m
    BY <1>2 DEF ToSet
  <2>2. i - 1 \in 1 .. (Len(w) - 1) /\ (i - 1) + 1 = i
    BY <1>2, <1>6, <2>1
  <2> QED BY <1>3, <1>4, <2>1, <2>2 DEF ToSet
<1>7. w[1] \in Mailbox /\ w[1] \in ToSet(w)
  BY <1>1, <1>2 DEF ToSet
<1>8. Len(w) > 1 => Tail(w) # <<>>
  <2>1. Len(w) > 1 => Len(Tail(w)) # 0
    BY <1>2, <1>3
  <2> QED BY <2>1
<1> QED BY <1>2, <1>3, <1>5, <1>6, <1>7, <1>8 DEF Box, w

\* What is found is added to the result, and the next mailbox takes its turn.
LEMMA OnwardHolds ==
  ASSUME TypeOK, cmd.todo # <<>>, NEW found \in SUBSET Key, cmd' = Onward(found)
  PROVE  /\ cmd'.name = cmd.name /\ cmd'.boxes = cmd.boxes
         /\ cmd'.count = cmd.count /\ cmd'.query = cmd.query
         /\ cmd'.todo = Tail(cmd.todo)
         /\ cmd'.at = IF cmd.at \in {"list", "fallback"} THEN "sync" ELSE cmd.at
         /\ cmd'.all \in Seq(Key) /\ ToSet(cmd'.all) = ToSet(cmd.all) \cup found
         /\ cmd' \in [name : {"none", "ls", "search", "status"},
              at : {"idle", "sync", "list", "live", "fallback", "search", "printed", "panicked"},
              boxes : Seq(Mailbox), todo : Seq(Mailbox), count : Int,
              query : SUBSET Key, all : Seq(Key)]
<1> DEFINE L == Listing(found)
           a == cmd.all
<1>1. L \in Seq(Key) /\ ToSet(L) = found /\ a \in Seq(Key)
  BY ListingIsComplete DEF TypeOK
<1>2. Tail(cmd.todo) \in Seq(Mailbox)
  BY BoxAndRest
<1>3. cmd' = [cmd EXCEPT !.all = a \o L, !.todo = Tail(cmd.todo),
                         !.at = IF @ \in {"list", "fallback"} THEN "sync" ELSE @]
  BY DEF Onward
<1> HIDE DEF L
<1>4. a \o L \in Seq(Key) /\ ToSet(a \o L) = ToSet(a) \cup found
  <2> HIDE DEF a
  <2>1. /\ a \o L \in Seq(Key) /\ Len(a \o L) = Len(a) + Len(L)
        /\ Len(a) \in Nat /\ Len(L) \in Nat
        /\ \A i \in 1 .. (Len(a) + Len(L)) :
             (a \o L)[i] = IF i <= Len(a) THEN a[i] ELSE L[i - Len(a)]
    BY <1>1
  <2>2. /\ ToSet(a \o L) = {(a \o L)[i] : i \in 1 .. (Len(a) + Len(L))}
        /\ ToSet(a) = {a[i] : i \in 1 .. Len(a)} /\ ToSet(L) = {L[i] : i \in 1 .. Len(L)}
    <3>1. /\ DOMAIN (a \o L) = 1 .. (Len(a) + Len(L))
          /\ DOMAIN a = 1 .. Len(a) /\ DOMAIN L = 1 .. Len(L)
      BY <1>1, <2>1
    <3> QED BY <3>1 DEF ToSet
  <2>3. \A i \in 1 .. (Len(a) + Len(L)) : (a \o L)[i] \in ToSet(a) \cup ToSet(L)
    BY <2>1, <2>2
  <2>4. \A i \in 1 .. Len(a) : a[i] \in ToSet(a \o L)
    BY <2>1, <2>2
  <2>5. ASSUME NEW i \in 1 .. Len(L) PROVE L[i] \in ToSet(a \o L)
    <3>1. i + Len(a) \in 1 .. (Len(a) + Len(L)) /\ (i + Len(a)) - Len(a) = i /\ ~ (i + Len(a) <= Len(a))
      BY <2>1
    <3> QED BY <2>1, <2>2, <3>1
  <2>6. ToSet(a \o L) \subseteq ToSet(a) \cup ToSet(L)
    BY <2>2, <2>3
  <2>7. ToSet(a) \subseteq ToSet(a \o L) /\ ToSet(L) \subseteq ToSet(a \o L)
    BY <2>2, <2>4, <2>5
  <2> QED BY <1>1, <2>1, <2>6, <2>7
<1> HIDE DEF a
<1> QED BY <1>2, <1>3, <1>4 DEF TypeOK, a

\* A larger set has no fewer keys above k.
LEMMA MoreAbove ==
  ASSUME NEW A \in SUBSET Key, NEW B \in SUBSET Key, A \subseteq B, NEW k, NEW n \in Int,
         n <= Cardinality({x \in A : x > k})
  PROVE  n <= Cardinality({x \in B : x > k})
<1> DEFINE U == {x \in A : x > k}
           V == {x \in B : x > k}
<1>1. U \in SUBSET V /\ V \in SUBSET Key /\ U \in SUBSET Key
  OBVIOUS
<1> HIDE DEF U, V
<1>2. Cardinality(U) <= Cardinality(V) /\ Cardinality(U) \in Nat /\ Cardinality(V) \in Nat
  BY <1>1, KeySets
<1>3. n <= Cardinality(V)
  BY <1>2 DEF U
<1> QED BY <1>3 DEF V

\* The newest n of S serve a key of S, and one that has n keys of S above it.
LEMMA NewestServe ==
  ASSUME NEW S \in SUBSET Key, NEW n \in Int, NEW k \in Key,
         k \in S \/ n <= Cardinality({x \in S : x > k})
  PROVE  k \in Newest(S, n) \/ n <= Cardinality({x \in Newest(S, n) : x > k})
<1>1. CASE n <= Cardinality({x \in S : x > k})
  BY <1>1, NewestAreEnough
<1>2. CASE ~ (n <= Cardinality({x \in S : x > k}))
  <2>1. Cardinality({x \in S : x > k}) \in Nat
    BY KeySets
  <2>2. Cardinality({x \in S : x > k}) < n
    BY <1>2, <2>1
  <2> QED BY <1>2, <2>2 DEF Newest
<1> QED BY <1>1, <1>2

\* A page is of messages of its mailbox, and one that was there and is not on it is
\* older than all of it.
LEMMA PageHolds ==
  ASSUME TypeOK, NEW before \in SUBSET index, NEW m \in Mailbox, NEW page \in Pages(before, m)
  PROVE  /\ page \in SUBSET Key
         /\ \A k \in page : <<m, k>> \in index
         /\ \A k \in Key : <<m, k>> \in before /\ k \notin page =>
              /\ PageLimit <= Cardinality({x \in page : x > k})
              /\ k \in InTable(index, m) \ Newest(InTable(index, m), PageLimit)
<1> DEFINE All == InTable(index, m)
<1>1. PICK T \in SUBSET index : before \subseteq T /\ page = Newest(InTable(T, m), PageLimit)
  BY DEF Pages, SyncSize
<1> DEFINE S == InTable(T, m)
<1>2. S \in SUBSET Key /\ All \in SUBSET Key /\ S \subseteq All
  BY DEF InTable
<1>3. page \subseteq S
  BY <1>1 DEF Newest
<1>4. \A k \in page : <<m, k>> \in index
  BY <1>3 DEF InTable
<1>5. PageLimit \in Int
  BY NumberAssumption
<1>6. ASSUME NEW k \in Key, <<m, k>> \in before, k \notin page
      PROVE  /\ PageLimit <= Cardinality({x \in page : x > k})
             /\ k \in All \ Newest(All, PageLimit)
  <2>1. k \in S
    BY <1>1, <1>6 DEF InTable
  <2> HIDE DEF S, All
  <2>2. PageLimit <= Cardinality({x \in page : x > k})
    BY <1>1, <1>2, <1>5, <1>6, <2>1, NewestServe DEF S
  <2>3. PageLimit <= Cardinality({x \in All : x > k})
    BY <1>2, <1>3, <1>5, <2>2, MoreAbove
  <2>4. Cardinality({x \in All : x > k}) \in Nat
    BY <1>2, KeySets
  <2>5. k \notin Newest(All, PageLimit)
    BY <1>5, <2>3, <2>4 DEF Newest
  <2> QED BY <1>2, <2>1, <2>2, <2>5
<1> QED BY <1>2, <1>3, <1>4, <1>6

LEMMA ListsAreOfKeys ==
  /\ \A m, n : ReaderList(m, n) \in SUBSET Key /\ CacheList(m, n) \in SUBSET Key
  /\ \A m : Cached(m) \in SUBSET Key /\ InTable(index, m) \in SUBSET Key
  /\ \A S \in SUBSET Key : \A n : \A R \in Limited(S, n) : R \in SUBSET S
BY DEF ReaderList, CacheList, Newest, Cached, InTable, Limited

\* A sync of mailbox m.
LEMMA InstalledTyped ==
  ASSUME TypeOK, NEW before \in SUBSET index, NEW m \in Mailbox, NEW page \in Pages(before, m),
         rows' = Installed(m, page), index' = index
  PROVE  /\ rows' \in [Key -> Mailbox \cup {None}]
         /\ \A k \in Key : rows'[k] = IF k \in page THEN m ELSE rows[k]
         /\ \A k \in Key : rows'[k] # None => <<rows'[k], k>> \in index'
<1>1. \A k \in Key : rows'[k] = IF k \in page THEN m ELSE rows[k]
  BY DEF Installed
<1> QED BY <1>1, PageHolds DEF Installed, TypeOK

\* A message does not come back to a page that it is too old for.
LEMMA OldStaysOld ==
  ASSUME TypeOK, TypeOK', index \subseteq index', cmd'.boxes = cmd.boxes, NEW k, BeyondThePage(k)
  PROVE  BeyondThePage(k)'
<1>1. PICK m \in ToSet(cmd.boxes) : k \in InTable(index, m) \ Newest(InTable(index, m), PageLimit)
  BY DEF BeyondThePage
<1> DEFINE S == InTable(index, m)
           T == InTable(index, m)'
<1>2. S \in SUBSET Key /\ T \in SUBSET Key /\ S \subseteq T /\ PageLimit \in Int /\ k \in S
  BY <1>1, NumberAssumption DEF InTable
<1>3. ~ (Cardinality({x \in S : x > k}) < PageLimit)
  BY <1>1 DEF Newest
<1>4. InTable(index', m) = T
  BY DEF InTable
<1> HIDE DEF S, T
<1>5. Cardinality({x \in S : x > k}) \in Nat /\ Cardinality({x \in T : x > k}) \in Nat
  BY <1>2, KeySets
<1>6. PageLimit <= Cardinality({x \in T : x > k})
  <2>1. PageLimit <= Cardinality({x \in S : x > k})
    BY <1>2, <1>3, <1>5
  <2> QED BY <1>2, <2>1, MoreAbove
<1>7. k \in T \ Newest(T, PageLimit)
  BY <1>2, <1>5, <1>6 DEF Newest
<1> QED BY <1>1, <1>4, <1>7 DEF BeyondThePage

------------------------------------------------------------------------------
(* The types and the stages *)

LEMMA StartTyped ==
  ASSUME TypeOK, NEW name \in {"ls", "search", "status"}, NEW boxes \in Boxes \cup {<<inbox>>},
         NEW query \in SUBSET Key, NEW first \in {"sync", "live", "search"},
         first = "sync" => name # "status", first = "search" => name = "search",
         first = "live" => name # "search", Start(name, boxes, query, first)
  PROVE  TypeOK' /\ Stages'
<1>1. boxes \in Seq(Mailbox) /\ boxes # <<>>
  BY BoxesTyped
<1>2. PICK count \in Count :
        cmd' = [name |-> name, at |-> first, boxes |-> boxes, todo |-> boxes,
                count |-> count, query |-> query, all |-> <<>>]
  BY DEF Start
<1>3. count \in Int /\ <<>> \in Seq(Key)
  BY NumberAssumption
<1>4. then' \in [index : SUBSET index, rows : [Key -> Mailbox \cup {None}],
                fresh : SUBSET Mailbox, silent : SUBSET Mailbox, moved : SUBSET Key]
  BY DEF Start, Started, Begins, TypeOK
<1>5. index' = index /\ rows' = rows
  BY DEF Start
<1>6. TypeOK'
  BY <1>1, <1>2, <1>3, <1>4, <1>5 DEF TypeOK
<1> QED BY <1>1, <1>2, <1>6 DEF Stages

LEMMA TypedStep ==
  ASSUME TypeOK, Stages, Next
  PROVE  TypeOK' /\ Stages'
<1>1. CASE Deliver
  <2>1. PICK k \in Key : \E m \in Recipients[k] : index' = index \cup {<<m, k>>}
    BY <1>1 DEF Deliver
  <2>2. PICK m \in Recipients[k] : index' = index \cup {<<m, k>>}
    BY <2>1
  <2>3. m \in Mailbox
    BY <2>2, MailAssumption
  <2>4. rows' = rows /\ cmd' = cmd /\ then' = then
    BY <1>1 DEF Deliver
  <2> QED BY <2>2, <2>3, <2>4 DEF TypeOK, Stages
<1>2. CASE OtherSync
  <2>1. PICK m \in Mailbox : \E page \in Pages({}, m) :
          /\ rows' = Installed(m, page)
          /\ then' = IF cmd = Idle THEN then
                     ELSE [then EXCEPT !.moved = @ \cup {k \in page : rows[k] \notin {None, m}}]
    BY <1>2 DEF OtherSync
  <2>2. PICK page \in Pages({}, m) :
          /\ rows' = Installed(m, page)
          /\ then' = IF cmd = Idle THEN then
                     ELSE [then EXCEPT !.moved = @ \cup {k \in page : rows[k] \notin {None, m}}]
    BY <2>1
  <2>3. index' = index /\ cmd' = cmd
    BY <1>2 DEF OtherSync
  <2>4. /\ rows' \in [Key -> Mailbox \cup {None}] /\ page \in SUBSET Key
        /\ \A k \in Key : rows'[k] # None => <<rows'[k], k>> \in index'
    BY <2>2, <2>3, InstalledTyped, PageHolds
  <2>5. then' \in [index : SUBSET index, rows : [Key -> Mailbox \cup {None}],
                  fresh : SUBSET Mailbox, silent : SUBSET Mailbox, moved : SUBSET Key]
    BY <2>2, <2>4 DEF TypeOK
  <2> QED BY <2>3, <2>4, <2>5 DEF TypeOK, Stages
<1>3. CASE StartLs
  BY <1>3, StartTyped DEF StartLs
<1>4. CASE StartSearch
  BY <1>4, StartTyped, NumberAssumption DEF StartSearch
<1>5. CASE StartStatus
  BY <1>5, StartTyped DEF StartStatus
<1>6. CASE SyncWorks
  <2>1. PICK page \in Pages(then.index, Box) : rows' = Installed(Box, page)
    BY <1>6 DEF SyncWorks
  <2>2. cmd.at = "sync" /\ cmd.todo # <<>> /\ index' = index
    BY <1>6 DEF SyncWorks, Running
  <2>3. Box \in Mailbox /\ then.index \in SUBSET index
    BY <2>2, BoxAndRest DEF TypeOK
  <2>4. /\ rows' \in [Key -> Mailbox \cup {None}]
        /\ \A k \in Key : rows'[k] # None => <<rows'[k], k>> \in index'
    BY <2>1, <2>2, <2>3, InstalledTyped
  <2>5. then' \in [index : SUBSET index, rows : [Key -> Mailbox \cup {None}],
                  fresh : SUBSET Mailbox, silent : SUBSET Mailbox, moved : SUBSET Key]
    BY <1>6, <2>3 DEF SyncWorks, TypeOK
  <2>6. cmd' = AfterSync
    BY <1>6 DEF SyncWorks
  <2> QED BY <2>2, <2>4, <2>5, <2>6, BoxAndRest DEF AfterSync, TypeOK, Stages
<1>7. CASE SyncFails
  <2>1. cmd.at = "sync" /\ cmd.todo # <<>> /\ index' = index /\ rows' = rows /\ then' = then
    BY <1>7 DEF SyncFails, Running
  <2>2. cmd' = AfterSync
    BY <1>7 DEF SyncFails
  <2> QED BY <2>1, <2>2, BoxAndRest DEF AfterSync, TypeOK, Stages
<1>8. ASSUME NEW found \in SUBSET Key, cmd' = Onward(found), cmd.todo # <<>>,
             cmd.at \in {"list", "live", "fallback", "search"},
             index' = index, rows' = rows,
             then' \in [index : SUBSET index, rows : [Key -> Mailbox \cup {None}],
                       fresh : SUBSET Mailbox, silent : SUBSET Mailbox, moved : SUBSET Key]
      PROVE  TypeOK' /\ Stages'
  <2>1. TypeOK'
    BY <1>8, OnwardHolds DEF TypeOK
  <2>2. ToSet(Tail(cmd.todo)) \subseteq ToSet(cmd.boxes)
    BY <1>8, BoxAndRest DEF Stages
  <2> QED BY <1>8, <2>1, <2>2, OnwardHolds DEF Stages
<1>9. CASE ListCached
  BY <1>8, <1>9, ListsAreOfKeys DEF ListCached, Running, TypeOK
<1>10. CASE ListCachedFails
  <2>1. /\ cmd.at = "list" /\ cmd' = [cmd EXCEPT !.at = "fallback"]
        /\ index' = index /\ rows' = rows /\ then' = then
    BY <1>10 DEF ListCachedFails, Running
  <2> QED BY <2>1 DEF TypeOK, Stages
<1>11. CASE ListLive
  <2>1. then' = [then EXCEPT !.fresh = @ \cup {Box}] /\ Box \in Mailbox
    BY <1>11, BoxAndRest DEF ListLive, Running
  <2>2. then' \in [index : SUBSET index, rows : [Key -> Mailbox \cup {None}],
                  fresh : SUBSET Mailbox, silent : SUBSET Mailbox, moved : SUBSET Key]
    BY <2>1 DEF TypeOK
  <2> QED BY <1>8, <1>11, <2>2, ListsAreOfKeys DEF ListLive, Running
<1>12. CASE ListLiveFails \/ SearchFails
  <2>1. then' = [then EXCEPT !.silent = @ \cup {Box}] /\ Box \in Mailbox
    BY <1>12, BoxAndRest DEF ListLiveFails, SearchFails, Running
  <2>2. then' \in [index : SUBSET index, rows : [Key -> Mailbox \cup {None}],
                  fresh : SUBSET Mailbox, silent : SUBSET Mailbox, moved : SUBSET Key]
    BY <2>1 DEF TypeOK
  <2> QED BY <1>8, <1>12, <2>2 DEF ListLiveFails, SearchFails, Running
<1>13. CASE SearchCached
  <2>1. PICK found \in Limited(Cached(Box) \cap cmd.query, cmd.count) : cmd' = Onward(found)
    BY <1>13 DEF SearchCached
  <2>2. found \in SUBSET Key
    BY ListsAreOfKeys
  <2> QED BY <1>8, <1>13, <2>1, <2>2 DEF SearchCached, Running, TypeOK
<1>14. CASE PrintList
  <2>1. /\ index' = index /\ rows' = rows /\ then' = then
        /\ cmd.todo = <<>> /\ cmd.name = "ls"
    BY <1>14 DEF PrintList, Done
  <2>2. cmd.all \in Seq(Key) /\ cmd.count \in Int /\ Len(cmd.all) \in Nat
    BY DEF TypeOK
  <2>3. Sorted \in Seq(Key) /\ Len(Sorted) = Len(cmd.all)
    BY <2>2, SortedIsRanked DEF Sorted
  <2>4. CASE ~TooMany
    <3>1. cmd' = [cmd EXCEPT !.at = "printed", !.all = Sorted]
      BY <1>14, <2>4 DEF PrintList
    <3> QED BY <2>1, <2>3, <3>1 DEF TypeOK, Stages
  <2>5. CASE TooMany /\ CutPanics
    <3>1. cmd' = [cmd EXCEPT !.at = "panicked"]
      BY <1>14, <2>5 DEF PrintList
    <3>2. cmd.count < 0
      BY <2>2, <2>5 DEF TooMany, CutPanics
    <3> QED BY <2>1, <3>1, <3>2 DEF TypeOK, Stages
  <2>6. CASE TooMany /\ ~CutPanics
    <3>1. cmd' = [cmd EXCEPT !.at = "printed", !.all = Cut]
      BY <1>14, <2>6 DEF PrintList
    <3>2. Cut \in Seq(Key)
      BY <2>2, <2>3, <2>6 DEF Cut, CutPanics
    <3> QED BY <2>1, <3>1, <3>2 DEF TypeOK, Stages
  <2> QED BY <2>4, <2>5, <2>6
<1>15. CASE PrintAll
  <2>1. /\ cmd' = [cmd EXCEPT !.at = "printed"] /\ cmd.todo = <<>>
        /\ index' = index /\ rows' = rows /\ then' = then
    BY <1>15 DEF PrintAll, Done
  <2> QED BY <2>1 DEF TypeOK, Stages
<1>16. CASE Exit
  <2>1. cmd' = Idle /\ then' = NotStarted /\ index' = index /\ rows' = rows
    BY <1>16 DEF Exit
  <2> QED BY <2>1 DEF Idle, NotStarted, Begins, TypeOK, Stages
<1> QED BY <1>1, <1>2, <1>3, <1>4, <1>5, <1>6, <1>7, <1>9, <1>10, <1>11, <1>12, <1>13,
           <1>14, <1>15, <1>16 DEF Next

------------------------------------------------------------------------------
(* `mail ls` *)

\* Who is served stays served, and is by what a mailbox gives.
LEMMA ServedOnward ==
  ASSUME TypeOK, cmd.todo # <<>>, NEW found \in SUBSET Key, cmd' = Onward(found), NEW k \in Key
  PROVE  /\ Served(k) => Served(k)'
         /\ k \in found \/ cmd.count <= Cardinality({x \in found : x > k}) => Served(k)'
<1>1. /\ ToSet(cmd'.all) = ToSet(cmd.all) \cup found /\ cmd'.count = cmd.count
      /\ cmd'.all \in Seq(Key) /\ cmd.count \in Int /\ cmd.all \in Seq(Key)
  BY OnwardHolds DEF TypeOK
<1>2. ToSet(cmd.all) \in SUBSET Key /\ ToSet(cmd'.all) \in SUBSET Key
  BY <1>1 DEF ToSet
<1>3. /\ cmd.count <= Cardinality({x \in ToSet(cmd.all) : x > k}) =>
           cmd'.count <= Cardinality({x \in ToSet(cmd'.all) : x > k})
      /\ cmd.count <= Cardinality({x \in found : x > k}) =>
           cmd'.count <= Cardinality({x \in ToSet(cmd'.all) : x > k})
  <2> DEFINE a == ToSet(cmd.all)
             b == ToSet(cmd'.all)
             n == cmd.count
  <2>1. a \in SUBSET Key /\ b \in SUBSET Key /\ a \subseteq b /\ found \subseteq b /\ n \in Int
        /\ cmd'.count = n
    BY <1>1, <1>2
  <2> HIDE DEF a, b, n
  <2>2. n <= Cardinality({x \in a : x > k}) => n <= Cardinality({x \in b : x > k})
    BY <2>1, MoreAbove
  <2>3. n <= Cardinality({x \in found : x > k}) => n <= Cardinality({x \in b : x > k})
    BY <2>1, MoreAbove
  <2> QED BY <2>1, <2>2, <2>3 DEF a, b, n
<1> QED BY <1>1, <1>3 DEF Served

\* Where there is room for --count and for what was moved, the cache has --count keys
\* above one that has a page of them above it.
LEMMA RoomIsEnough ==
  ASSUME TypeOK, Roomy, NEW m \in Mailbox, NEW k \in Key,
         PageLimit <= Cardinality({x \in Cached(m) \cup then.moved : x > k})
  PROVE  cmd.count <= Cardinality({x \in Cached(m) : x > k})
<1> DEFINE C == {x \in Cached(m) : x > k}
           M == {x \in then.moved : x > k}
           n == cmd.count
           moved == then.moved
<1>1. C \in SUBSET Key /\ M \in SUBSET moved /\ moved \in SUBSET Key /\ n \in Int
  BY DEF TypeOK, Cached
<1>2. {x \in Cached(m) \cup then.moved : x > k} = C \cup M
  OBVIOUS
<1>3. n + Cardinality(moved) <= PageLimit /\ PageLimit <= Cardinality(C \cup M)
  BY <1>2 DEF Roomy
<1> HIDE DEF C, M, n, moved
<1>4. /\ IsFiniteSet(C) /\ IsFiniteSet(M) /\ IsFiniteSet(moved)
      /\ Cardinality(C) \in Nat /\ Cardinality(M) \in Nat /\ Cardinality(moved) \in Nat
      /\ Cardinality(C \cap M) \in Nat /\ Cardinality(M) <= Cardinality(moved)
  <2>1. M \in SUBSET Key /\ C \cap M \in SUBSET Key
    BY <1>1
  <2> QED BY <1>1, <2>1, KeySets
<1>5. Cardinality(C \cup M) = Cardinality(C) + Cardinality(M) - Cardinality(C \cap M)
  BY <1>4, FS_Union
<1>6. PageLimit \in Nat
  BY NumberAssumption
<1>7. n <= Cardinality(C)
  BY <1>1, <1>3, <1>4, <1>5, <1>6
<1> QED BY <1>7 DEF n, C

\* Another process that syncs moves rows or leaves them where they are.
LEMMA OtherSyncMoves ==
  ASSUME TypeOK, OtherSync, cmd # Idle
  PROVE  /\ cmd' = cmd /\ index' = index
         /\ then'.silent = then.silent /\ then'.fresh = then.fresh
         /\ then'.index = then.index /\ then'.rows = then.rows
         /\ then.moved \subseteq then'.moved /\ then'.moved \in SUBSET Key
         /\ \A k \in Key : k \notin then'.moved /\ rows[k] # None => rows'[k] = rows[k]
         /\ \A b \in Mailbox : Cached(b) \cup then.moved \subseteq (Cached(b) \cup then.moved)'
<1>1. PICK m \in Mailbox : \E page \in Pages({}, m) :
        /\ rows' = Installed(m, page)
        /\ then' = [then EXCEPT !.moved = @ \cup {i \in page : rows[i] \notin {None, m}}]
  BY DEF OtherSync
<1>2. PICK page \in Pages({}, m) :
        /\ rows' = Installed(m, page)
        /\ then' = [then EXCEPT !.moved = @ \cup {i \in page : rows[i] \notin {None, m}}]
  BY <1>1
<1> DEFINE taken == {i \in page : rows[i] \notin {None, m}}
<1>3. cmd' = cmd /\ index' = index
  BY DEF OtherSync
<1>4. /\ then'.moved = then.moved \cup taken /\ then'.silent = then.silent
      /\ then'.fresh = then.fresh /\ then'.index = then.index /\ then'.rows = then.rows
      /\ then.moved \in SUBSET Key
  BY <1>2 DEF TypeOK
<1>5. /\ page \in SUBSET Key
      /\ \A i \in Key : rows'[i] = IF i \in page THEN m ELSE rows[i]
  BY <1>2, <1>3, PageHolds, InstalledTyped
<1>6. then.moved \subseteq then'.moved /\ then'.moved \in SUBSET Key
  BY <1>4, <1>5
<1>7. \A k \in Key : k \notin then'.moved /\ rows[k] # None => rows'[k] = rows[k]
  BY <1>4, <1>5
<1>8. ASSUME NEW b \in Mailbox, NEW x \in Cached(b) \cup then.moved
      PROVE  x \in (Cached(b) \cup then.moved)'
  <2>1. CASE x \in then'.moved
    BY <2>1
  <2>2. CASE x \notin then'.moved
    <3>1. x \in Key /\ rows[x] = b /\ b # None
      BY <1>6, <1>8, <2>2, MailAssumption DEF Cached
    <3>2. rows'[x] = b
      BY <1>7, <2>2, <3>1
    <3> QED BY <3>1, <3>2 DEF Cached
  <2> QED BY <2>1, <2>2
<1> QED BY <1>3, <1>4, <1>6, <1>7, <1>8

LEMMA RoomyBefore ==
  ASSUME TypeOK, Roomy', cmd' = cmd, then.moved \subseteq then'.moved, then'.moved \in SUBSET Key
  PROVE  Roomy
<1>1. Cardinality(then.moved) <= Cardinality(then'.moved)
      /\ Cardinality(then.moved) \in Nat /\ Cardinality(then'.moved) \in Nat
  <2>1. then'.moved \in SUBSET Key /\ then.moved \in SUBSET (then'.moved) /\ then.moved \in SUBSET Key
    OBVIOUS
  <2> QED BY <2>1, KeySets
<1>2. cmd.count \in Int /\ PageLimit \in Nat
  BY NumberAssumption DEF TypeOK
<1> QED BY <1>1, <1>2 DEF Roomy

LEMMA LsOtherSync ==
  ASSUME TypeOK, TypeOK', Stages, LsGetsThere, OtherSync
  PROVE  LsGetsThere'
<1> SUFFICES ASSUME cmd'.name = "ls", cmd'.at \notin {"printed", "panicked"},
                    EveryMailboxAnswered', Fits', NEW k \in Known'
             PROVE  (Served(k) \/ rows[k] \in ToSet(cmd.todo) \/ PastPage(k) \/ Missed(k))'
  BY DEF LsGetsThere
<1>1. cmd' = cmd /\ cmd # Idle
  BY DEF OtherSync, Idle
<1>2. /\ then'.silent = then.silent /\ then'.fresh = then.fresh
      /\ then'.index = then.index /\ then'.rows = then.rows
      /\ then.moved \subseteq then'.moved /\ then'.moved \in SUBSET Key
  BY <1>1, OtherSyncMoves
<1>3. k \in Known /\ k \in Key /\ k \notin then'.moved
  BY <1>1, <1>2 DEF Known
<1>4. EveryMailboxAnswered /\ Fits /\ (Roomy' => Roomy)
  BY <1>1, <1>2, RoomyBefore DEF EveryMailboxAnswered, Fits
<1>5. Served(k) \/ rows[k] \in ToSet(cmd.todo) \/ PastPage(k) \/ Missed(k)
  BY <1>1, <1>3, <1>4 DEF LsGetsThere
<1>6. CASE Served(k)
  BY <1>1, <1>6 DEF Served
<1>7. CASE rows[k] \in ToSet(cmd.todo)
  <2>1. rows[k] \in Mailbox
    BY <1>7 DEF ToSet, TypeOK
  <2>2. rows'[k] = rows[k]
    BY <1>1, <1>3, <2>1, OtherSyncMoves, MailAssumption
  <2> QED BY <1>1, <1>7, <2>2
<1>8. CASE PastPage(k)
  <2>1. cmd.todo # <<>> /\ Box \in Mailbox /\ Box' = Box
    BY <1>1, <1>8, BoxAndRest DEF PastPage, Stages, Box
  <2> DEFINE A == Cached(Box) \cup then.moved
             B == (Cached(Box) \cup then.moved)'
  <2>2. A \subseteq B
    BY <1>1, <2>1, OtherSyncMoves DEF Cached
  <2>3. A \in SUBSET Key /\ B \in SUBSET Key
    BY <1>2 DEF Cached, TypeOK
  <2>4. PageLimit \in Int /\ PageLimit <= Cardinality({x \in A : x > k})
    BY <1>8, NumberAssumption DEF PastPage
  <2>5. PageLimit <= Cardinality({x \in B : x > k})
    <3> HIDE DEF A, B
    <3> QED BY <2>2, <2>3, <2>4, MoreAbove
  <2>6. BeyondThePage(k)'
    BY <1>1, <1>8, OtherSyncMoves, OldStaysOld DEF PastPage
  <2> QED BY <1>1, <1>2, <1>8, <2>1, <2>5, <2>6 DEF PastPage
<1>9. CASE Missed(k)
  BY <1>1, <1>4, <1>9, OtherSyncMoves, OldStaysOld DEF Missed
<1> QED BY <1>5, <1>6, <1>7, <1>8, <1>9

LEMMA LsSyncWorks ==
  ASSUME TypeOK, TypeOK', Stages, LsGetsThere, SyncWorks
  PROVE  LsGetsThere'
<1> SUFFICES ASSUME cmd'.name = "ls", EveryMailboxAnswered', Fits', NEW k \in Known'
             PROVE  (Served(k) \/ rows[k] \in ToSet(cmd.todo) \/ PastPage(k) \/ Missed(k))'
  BY DEF LsGetsThere
<1>1. PICK page \in Pages(then.index, Box) : rows' = Installed(Box, page)
  BY DEF SyncWorks
<1>2. /\ cmd.at = "sync" /\ cmd.todo # <<>> /\ index' = index /\ cmd' = AfterSync
      /\ then' = [then EXCEPT !.fresh = @ \cup {Box}]
  BY DEF SyncWorks, Running
<1>3. Box \in Mailbox /\ Box \in ToSet(cmd.todo) /\ then.index \in SUBSET index
  BY <1>2, BoxAndRest DEF TypeOK
<1>4. /\ cmd.name = "ls" /\ cmd'.at = "list" /\ cmd'.todo = cmd.todo /\ cmd'.boxes = cmd.boxes
      /\ cmd'.all = cmd.all /\ cmd'.count = cmd.count
  <2>1. CASE cmd.name = "ls"
    BY <1>2, <2>1 DEF AfterSync, TypeOK
  <2>2. CASE cmd.name # "ls"
    <3>1. cmd' = [cmd EXCEPT !.todo = Tail(@)] \/ cmd' = [cmd EXCEPT !.at = "search", !.todo = cmd.boxes]
      BY <1>2, <2>2 DEF AfterSync
    <3>2. cmd'.name = cmd.name
      BY <3>1 DEF TypeOK
    <3> QED BY <2>2, <3>2
  <2> QED BY <2>1, <2>2
<1>5. /\ then'.moved = then.moved /\ then'.silent = then.silent
      /\ then'.fresh = then.fresh \cup {Box}
      /\ then'.index = then.index /\ then'.rows = then.rows
  BY <1>2 DEF TypeOK
<1>6. page \in SUBSET Key /\ \A i \in Key : rows'[i] = IF i \in page THEN Box ELSE rows[i]
  <2>1. page \in SUBSET Key
    BY <1>1, <1>3, PageHolds
  <2>2. \A i \in Key : rows'[i] = IF i \in page THEN Box ELSE rows[i]
    BY <1>1, <1>2 DEF Installed
  <2> QED BY <2>1, <2>2
<1>7. k \in Key /\ (k \in Known \/ <<Box, k>> \in then.index)
  BY <1>4, <1>5 DEF Known
<1>8. Box' = Box
  BY <1>4 DEF Box
<1>9. CASE <<Box, k>> \in then.index
  <2>1. CASE k \in page
    BY <1>3, <1>4, <1>6, <1>7, <2>1
  <2>2. CASE k \notin page
    <3>1. /\ PageLimit <= Cardinality({x \in page : x > k})
          /\ k \in InTable(index, Box) \ Newest(InTable(index, Box), PageLimit)
      BY <1>1, <1>3, <1>7, <1>9, <2>2, PageHolds
    <3> DEFINE B == (Cached(Box) \cup then.moved)'
    <3>2. page \subseteq B /\ B \in SUBSET Key
      BY <1>5, <1>6, <1>8 DEF Cached, TypeOK
    <3>3. PageLimit <= Cardinality({x \in B : x > k})
      <4> HIDE DEF B
      <4>1. PageLimit \in Int
        BY NumberAssumption
      <4> QED BY <1>6, <3>1, <3>2, <4>1, MoreAbove
    <3>4. BeyondThePage(k)
      BY <1>3, <3>1 DEF BeyondThePage, Stages
    <3>5. BeyondThePage(k)'
      BY <1>2, <1>4, <3>4, OldStaysOld
    <3> QED BY <1>4, <1>5, <1>8, <1>9, <3>3, <3>5 DEF PastPage
  <2> QED BY <2>1, <2>2
<1>10. CASE k \in Known
  <2>1. EveryMailboxAnswered /\ Fits /\ (Roomy' => Roomy)
    BY <1>4, <1>5 DEF EveryMailboxAnswered, Roomy, Fits
  <2>2. Served(k) \/ rows[k] \in ToSet(cmd.todo) \/ Missed(k)
    BY <1>2, <1>4, <1>10, <2>1 DEF LsGetsThere, PastPage
  <2>3. Served(k) => Served(k)'
    BY <1>4 DEF Served
  <2>4. rows[k] \in ToSet(cmd.todo) => rows'[k] \in ToSet(cmd'.todo)
    BY <1>3, <1>4, <1>6, <1>7
  <2>5. Missed(k) => Missed(k)'
    BY <1>2, <1>4, <2>1, OldStaysOld DEF Missed
  <2> QED BY <2>2, <2>3, <2>4, <2>5
<1> QED BY <1>7, <1>9, <1>10

\* A mailbox that gives what serves its own messages takes its turn.
LEMMA LsListed ==
  ASSUME TypeOK, Stages, LsGetsThere, NEW found \in SUBSET Key, cmd' = Onward(found),
         cmd.todo # <<>>, cmd.at \in {"list", "live", "fallback"}, rows' = rows,
         then'.moved = then.moved, then'.silent = then.silent,
         then'.index = then.index, then'.rows = then.rows,
         then'.fresh \subseteq then.fresh \cup {Box},
         index' = index, TypeOK',
         NEW k \in Known', cmd.name = "ls", EveryMailboxAnswered, Fits,
         \/ rows[k] = Box \/ PastPage(k) \/ k \notin Known
         => k \in found \/ cmd.count <= Cardinality({x \in found : x > k}) \/ Missed(k)
  PROVE  (Served(k) \/ rows[k] \in ToSet(cmd.todo) \/ Missed(k))'
<1>1. k \in Key
  BY DEF Known
<1>2. Missed(k) => Missed(k)'
  <2>1. cmd'.boxes = cmd.boxes /\ cmd'.count = cmd.count
    BY OnwardHolds
  <2>2. Roomy' = Roomy
    BY <2>1 DEF Roomy
  <2> QED BY <2>1, <2>2, OldStaysOld DEF Missed
<1>3. CASE rows[k] = Box \/ PastPage(k) \/ k \notin Known
  BY <1>1, <1>3, <1>2, ServedOnward
<1>4. CASE ~ (rows[k] = Box \/ PastPage(k) \/ k \notin Known)
  <2>1. Served(k) \/ rows[k] \in ToSet(cmd.todo) \/ Missed(k)
    BY <1>4 DEF LsGetsThere
  <2>2. Served(k) => Served(k)'
    BY <1>1, ServedOnward
  <2>3. rows[k] \in ToSet(cmd.todo) => rows'[k] \in ToSet(cmd'.todo)
    BY <1>4, BoxAndRest, OnwardHolds
  <2> QED BY <1>2, <2>1, <2>2, <2>3
<1> QED BY <1>3, <1>4

LEMMA LsListCached ==
  ASSUME TypeOK, TypeOK', Stages, LsGetsThere, ListCached
  PROVE  LsGetsThere'
<1> DEFINE found == CacheList(Box, cmd.count)
<1>1. /\ cmd.at = "list" /\ cmd.todo # <<>> /\ cmd' = Onward(found)
      /\ index' = index /\ rows' = rows /\ then' = then /\ Box \in Mailbox
  BY BoxAndRest DEF ListCached, Running
<1>2. found \in SUBSET Key /\ cmd.count \in Int
  BY ListsAreOfKeys DEF TypeOK
<1>3. cmd'.name = cmd.name /\ cmd'.boxes = cmd.boxes /\ cmd'.count = cmd.count
  BY <1>1, <1>2, OnwardHolds
<1> SUFFICES ASSUME cmd'.name = "ls", EveryMailboxAnswered', Fits', NEW k \in Known'
             PROVE  (Served(k) \/ rows[k] \in ToSet(cmd.todo) \/ Missed(k))'
  BY DEF LsGetsThere
<1>4. cmd.name = "ls" /\ EveryMailboxAnswered /\ Fits /\ k \in Known
  BY <1>1, <1>3 DEF EveryMailboxAnswered, Fits, Known
<1>5. ASSUME rows[k] = Box \/ PastPage(k), ~Missed(k)
      PROVE  k \in found \/ cmd.count <= Cardinality({x \in found : x > k})
  <2>1. k \in Key
    BY DEF Known
  <2>2. k \in Cached(Box) \/ cmd.count <= Cardinality({x \in Cached(Box) : x > k})
    BY <1>1, <1>4, <1>5, <2>1, RoomIsEnough DEF PastPage, Missed, Cached
  <2>3. CASE cmd.count < 0
    <3>1. Cardinality({x \in found : x > k}) \in Nat
      <4>1. {x \in found : x > k} \in SUBSET Key
        BY <1>2
      <4> QED BY <4>1, KeySets
    <3> QED BY <1>2, <2>3, <3>1
  <2>4. CASE ~ (cmd.count < 0)
    <3>1. found = Newest(Cached(Box), cmd.count) /\ Cached(Box) \in SUBSET Key
      BY <2>4, ListsAreOfKeys DEF CacheList
    <3> HIDE DEF found
    <3> QED BY <1>2, <2>1, <2>2, <3>1, NewestServe
  <2> QED BY <2>3, <2>4
<1> HIDE DEF found
<1> QED BY <1>1, <1>2, <1>4, <1>5, LsListed

LEMMA LsListLive ==
  ASSUME TypeOK, TypeOK', Stages, LsGetsThere, ListLive
  PROVE  LsGetsThere'
<1> DEFINE found == ReaderList(Box, cmd.count)
<1>1. /\ cmd.at \in {"live", "fallback"} /\ cmd.todo # <<>> /\ cmd' = Onward(found)
      /\ index' = index /\ rows' = rows /\ Box \in Mailbox
      /\ then' = [then EXCEPT !.fresh = @ \cup {Box}]
  BY BoxAndRest DEF ListLive, Running
<1>2. found \in SUBSET Key /\ cmd.count \in Int
  BY ListsAreOfKeys DEF TypeOK
<1>3. cmd'.name = cmd.name /\ cmd'.boxes = cmd.boxes /\ cmd'.count = cmd.count
  BY <1>1, <1>2, OnwardHolds
<1>4. /\ then'.moved = then.moved /\ then'.silent = then.silent
      /\ then'.index = then.index /\ then'.rows = then.rows
      /\ then'.fresh = then.fresh \cup {Box}
  BY <1>1 DEF TypeOK
<1> SUFFICES ASSUME cmd'.name = "ls", EveryMailboxAnswered', Fits', NEW k \in Known'
             PROVE  (Served(k) \/ rows[k] \in ToSet(cmd.todo) \/ Missed(k))'
  BY DEF LsGetsThere
<1>5. cmd.name = "ls" /\ EveryMailboxAnswered /\ Fits
  BY <1>3, <1>4 DEF EveryMailboxAnswered, Fits
<1>6. ASSUME rows[k] = Box \/ PastPage(k) \/ k \notin Known
      PROVE  k \in found \/ cmd.count <= Cardinality({x \in found : x > k})
  <2>1. k \in Key
    BY DEF Known
  <2>2. <<Box, k>> \in index
    <3>1. <<Box, k>> \in then.index => <<Box, k>> \in index
      BY DEF TypeOK
    <3>2. rows[k] = Box => <<Box, k>> \in index
      BY <1>1, <2>1, MailAssumption DEF TypeOK
    <3>3. k \notin Known => <<Box, k>> \in then.index
      BY <1>3, <1>4 DEF Known
    <3> QED BY <1>6, <3>1, <3>2, <3>3 DEF PastPage
  <2>3. k \in InTable(index, Box) /\ InTable(index, Box) \in SUBSET Key
    BY <2>1, <2>2 DEF InTable
  <2>4. found = Newest(InTable(index, Box), cmd.count)
    BY <1>5 DEF ReaderList, Fits
  <2> HIDE DEF found
  <2> QED BY <1>2, <2>1, <2>3, <2>4, NewestServe
<1> HIDE DEF found
<1> QED BY <1>1, <1>2, <1>4, <1>5, <1>6, LsListed

LEMMA LsStep ==
  ASSUME TypeOK, TypeOK', Stages, LsGetsThere, Next
  PROVE  LsGetsThere'
<1>1. CASE Deliver
  <2>1. rows' = rows /\ cmd' = cmd /\ then' = then /\ index \subseteq index'
    BY <1>1 DEF Deliver
  <2>2. \A k : BeyondThePage(k) => BeyondThePage(k)'
    BY <2>1, OldStaysOld
  <2>3. /\ EveryMailboxAnswered' = EveryMailboxAnswered /\ Fits' = Fits /\ Known' = Known
        /\ Roomy' = Roomy /\ Box' = Box /\ Cached(Box)' = Cached(Box)
    BY <2>1 DEF EveryMailboxAnswered, Fits, Roomy, Known, Box, Cached
  <2>4. /\ \A k : Served(k)' = Served(k)
        /\ \A k : PastPage(k) => PastPage(k)'
        /\ \A k : Missed(k) => Missed(k)'
    BY <2>1, <2>2, <2>3 DEF Served, PastPage, Missed
  <2> QED BY <2>1, <2>3, <2>4 DEF LsGetsThere
<1>2. CASE OtherSync
  BY <1>2, LsOtherSync
<1>3. ASSUME NEW name, NEW boxes, NEW query, NEW first, Start(name, boxes, query, first),
             first \in {"sync", "live", "search"}
      PROVE  LsGetsThere'
  <2>1. /\ cmd'.boxes = boxes /\ cmd'.todo = boxes /\ rows' = rows
        /\ then'.fresh = {} /\ then'.rows = rows
    BY <1>3 DEF Start, Started, Begins
  <2> QED BY <2>1 DEF LsGetsThere, Known
<1>4. CASE StartLs \/ StartSearch \/ StartStatus
  BY <1>3, <1>4 DEF StartLs, StartSearch, StartStatus
<1>5. CASE SyncWorks
  BY <1>5, LsSyncWorks
<1>6. CASE SyncFails
  <2>1. /\ cmd.at = "sync" /\ cmd' = AfterSync /\ rows' = rows /\ then' = then /\ index' = index
    BY <1>6 DEF SyncFails, Running
  <2>2. CASE cmd.name = "ls"
    <3>1. /\ cmd'.name = "ls" /\ cmd'.todo = cmd.todo /\ cmd'.boxes = cmd.boxes
          /\ cmd'.all = cmd.all /\ cmd'.count = cmd.count
      BY <2>1, <2>2 DEF AfterSync, TypeOK
    <3>2. \A k : ~PastPage(k)
      BY <2>1 DEF PastPage
    <3>3. /\ EveryMailboxAnswered' = EveryMailboxAnswered /\ Fits' = Fits /\ Known' = Known
          /\ \A k : Served(k)' = Served(k) /\ Missed(k)' = Missed(k)
      BY <2>1, <3>1 DEF EveryMailboxAnswered, Fits, Roomy, Known, Served, Missed,
                        BeyondThePage, InTable
    <3> QED BY <2>1, <2>2, <3>1, <3>2, <3>3 DEF LsGetsThere
  <2>3. CASE cmd.name # "ls"
    <3>1. cmd' = [cmd EXCEPT !.todo = Tail(@)] \/ cmd' = [cmd EXCEPT !.at = "search", !.todo = cmd.boxes]
      BY <2>1, <2>3 DEF AfterSync
    <3>2. cmd'.name = cmd.name
      BY <3>1 DEF TypeOK
    <3> QED BY <2>3, <3>2 DEF LsGetsThere
  <2> QED BY <2>2, <2>3
<1>7. CASE ListCached
  BY <1>7, LsListCached
<1>8. CASE ListCachedFails
  <2>1. /\ cmd.at = "list" /\ cmd' = [cmd EXCEPT !.at = "fallback"]
        /\ rows' = rows /\ then' = then /\ index' = index
    BY <1>8 DEF ListCachedFails, Running
  <2>2. /\ cmd'.name = cmd.name /\ cmd'.todo = cmd.todo /\ cmd'.boxes = cmd.boxes
        /\ cmd'.all = cmd.all /\ cmd'.count = cmd.count /\ cmd'.at = "fallback"
    BY <2>1 DEF TypeOK
  <2>3. /\ EveryMailboxAnswered' = EveryMailboxAnswered /\ Fits' = Fits /\ Known' = Known
        /\ Roomy' = Roomy /\ Box' = Box /\ Cached(Box)' = Cached(Box)
        /\ \A k : Served(k)' = Served(k) /\ BeyondThePage(k)' = BeyondThePage(k)
    BY <2>1, <2>2 DEF EveryMailboxAnswered, Fits, Roomy, Known, Served, BeyondThePage,
                      InTable, Box, Cached
  <2>4. \A k : (PastPage(k) => PastPage(k)') /\ Missed(k)' = Missed(k)
    BY <2>1, <2>2, <2>3 DEF PastPage, Missed
  <2> QED BY <2>1, <2>2, <2>3, <2>4 DEF LsGetsThere
<1>9. CASE ListLive
  BY <1>9, LsListLive
<1>10. CASE ListLiveFails \/ SearchFails
  <2>1. then'.silent # {}
    BY <1>10 DEF ListLiveFails, SearchFails, TypeOK
  <2> QED BY <2>1 DEF LsGetsThere, EveryMailboxAnswered
<1>11. CASE SearchCached
  <2>1. cmd.name = "search" /\ cmd.todo # <<>>
    BY <1>11 DEF SearchCached, Running, Stages
  <2>2. PICK found \in Limited(Cached(Box) \cap cmd.query, cmd.count) : cmd' = Onward(found)
    BY <1>11 DEF SearchCached
  <2>3. cmd'.name = cmd.name
    BY <2>2 DEF Onward, TypeOK
  <2> QED BY <2>1, <2>3 DEF LsGetsThere
<1>12. CASE PrintList
  <2>1. cmd'.at \in {"printed", "panicked"}
    BY <1>12 DEF PrintList, TypeOK
  <2> QED BY <2>1 DEF LsGetsThere
<1>13. CASE PrintAll
  <2>1. cmd'.at = "printed"
    BY <1>13 DEF PrintAll, TypeOK
  <2> QED BY <2>1 DEF LsGetsThere
<1>14. CASE Exit
  <2>1. cmd'.name = "none"
    BY <1>14 DEF Exit, Idle
  <2> QED BY <2>1 DEF LsGetsThere
<1> QED BY <1>1, <1>2, <1>4, <1>5, <1>6, <1>7, <1>8, <1>9, <1>10, <1>11, <1>12, <1>13, <1>14 DEF Next

------------------------------------------------------------------------------
(* How often ls has found a message *)

\* The mailboxes that are done and that a message is in only become more.
LEMMA MoreHomes ==
  ASSUME TypeOK, index \subseteq index', cmd'.boxes = cmd.boxes, cmd'.todo = cmd.todo, NEW k
  PROVE  /\ Cardinality(HomesSoFar(k)) \in Nat /\ Cardinality(HomesSoFar(k))' \in Nat
         /\ Cardinality(HomesSoFar(k)) <= Cardinality(HomesSoFar(k))'
<1>1. DoneSoFar' = DoneSoFar /\ DoneSoFar \in Int
  BY DEF DoneSoFar, TypeOK
<1>2. HomesSoFar(k) \in SUBSET (HomesSoFar(k)') /\ HomesSoFar(k)' \in SUBSET (1 .. DoneSoFar)
  BY <1>1 DEF HomesSoFar
<1>3. IsFiniteSet(1 .. DoneSoFar)
  BY <1>1, RangesAreFinite
<1>4. IsFiniteSet(HomesSoFar(k)')
  BY <1>2, <1>3, FS_Subset
<1> QED BY <1>2, <1>4, FS_Subset, FS_CardinalityType

\* What a step of ls does that gives nothing.
LEMMA PlacesKept ==
  ASSUME TypeOK, OnePlaceForAHome, index \subseteq index', cmd.at \notin {"printed", "panicked"},
         cmd'.name = cmd.name, cmd'.boxes = cmd.boxes, cmd'.todo = cmd.todo, cmd'.all = cmd.all
  PROVE  OnePlaceForAHome'
<1>1. DoneSoFar' = DoneSoFar /\ \A k : Places(k)' = Places(k)
  BY DEF DoneSoFar, Places
<1>2. ASSUME NEW k \in Key, Cardinality(Places(k)) <= Cardinality(HomesSoFar(k))
      PROVE  Cardinality(Places(k))' <= Cardinality(HomesSoFar(k))'
  <2>1. Cardinality(Places(k)) \in Nat
    <3>1. cmd.all \in Seq(Key)
      BY DEF TypeOK
    <3> QED BY <3>1, PlacesAreFinite DEF Places, PlacesIn
  <2> QED BY <1>1, <1>2, <2>1, MoreHomes
<1> QED BY <1>1, <1>2 DEF OnePlaceForAHome

\* A mailbox that gives what is in its table is done.
LEMMA PlacesGrow ==
  ASSUME TypeOK, OnePlaceForAHome, NEW found \in SUBSET Key, cmd' = Onward(found),
         cmd.todo # <<>>, cmd.at \notin {"printed", "panicked"}, index' = index,
         \A k \in found : <<Box, k>> \in index
  PROVE  OnePlaceForAHome'
<1> SUFFICES ASSUME cmd.name = "ls" PROVE OnePlaceForAHome'
  BY OnwardHolds DEF OnePlaceForAHome
<1> DEFINE n == DoneSoFar
           boxes == cmd.boxes
           todo == cmd.todo
<1>1. /\ boxes \in Seq(Mailbox) /\ todo \in Seq(Mailbox) /\ todo # <<>>
      /\ Len(boxes) \in Nat /\ Len(todo) \in Nat /\ Len(todo) > 0 /\ Len(todo) <= Len(boxes)
      /\ n = Len(boxes) - Len(todo) /\ n \in Nat
      /\ Len(Tail(todo)) = Len(todo) - 1
      /\ \A j \in 1 .. Len(todo) : todo[j] = boxes[n + j]
      /\ Box = todo[1]
  BY DEF TypeOK, OnePlaceForAHome, DoneSoFar, Box
<1>2. /\ cmd'.boxes = boxes /\ cmd'.todo = Tail(todo) /\ cmd'.all = cmd.all \o Listing(found)
      /\ DoneSoFar' = n + 1
  <2>1. cmd'.boxes = boxes /\ cmd'.todo = Tail(todo) /\ cmd'.all = cmd.all \o Listing(found)
    BY DEF Onward, TypeOK
  <2>2. DoneSoFar' = Len(cmd'.boxes) - Len(cmd'.todo)
    BY DEF DoneSoFar
  <2>3. Len(cmd'.boxes) = Len(boxes) /\ Len(cmd'.todo) = Len(todo) - 1
    BY <1>1, <2>1
  <2> HIDE DEF n, boxes, todo
  <2>4. Len(boxes) - (Len(todo) - 1) = n + 1
    BY <1>1
  <2> QED BY <2>1, <2>2, <2>3, <2>4
<1> HIDE DEF n, boxes, todo
<1>3. \A j \in 1 .. Len(Tail(todo)) : Tail(todo)[j] = boxes[(n + 1) + j]
  <2> TAKE j \in 1 .. Len(Tail(todo))
  <2>1. Tail(todo)[j] = todo[j + 1] /\ j + 1 \in 1 .. Len(todo) /\ n + (j + 1) = (n + 1) + j
    BY <1>1
  <2> QED BY <1>1, <2>1
<1>4. ASSUME NEW k \in Key PROVE Cardinality(Places(k))' <= Cardinality(HomesSoFar(k))'
  <2> DEFINE H == HomesSoFar(k)
             a == cmd.all
  <2>1. /\ Cardinality(PlacesIn(a, k)) \in Nat /\ Cardinality(PlacesIn(a, k)) <= Cardinality(H)
        /\ Places(k)' = PlacesIn(a \o Listing(found), k)
        /\ a \in Seq(Key)
    <3>1. a \in Seq(Key)
      BY DEF TypeOK
    <3>2. Places(k) = PlacesIn(a, k) /\ Places(k)' = PlacesIn(a \o Listing(found), k)
      BY <1>2 DEF Places, PlacesIn
    <3>3. Cardinality(Places(k)) <= Cardinality(H)
      BY DEF OnePlaceForAHome
    <3> QED BY <3>1, <3>2, <3>3, PlacesAreFinite
  <2>2. /\ H = {j \in 1 .. n : <<boxes[j], k>> \in index}
        /\ HomesSoFar(k)' = {j \in 1 .. (n + 1) : <<boxes[j], k>> \in index}
    BY <1>2 DEF HomesSoFar, n, boxes
  <2> HIDE DEF H, a
  <2>3. IsFiniteSet(H) /\ Cardinality(H) \in Nat
    <3>1. IsFiniteSet(1 .. n)
      BY <1>1, RangesAreFinite
    <3>2. H \in SUBSET (1 .. n)
      BY <2>2
    <3> QED BY <3>1, <3>2, FS_Subset, FS_CardinalityType
  <2>4. n + 1 \notin H /\ boxes[n + 1] = Box /\ 1 .. (n + 1) = (1 .. n) \cup {n + 1}
    BY <1>1, <2>2
  <2>5. HomesSoFar(k)' = IF <<Box, k>> \in index THEN H \cup {n + 1} ELSE H
    BY <2>2, <2>4
  <2>6. Cardinality(H \cup {n + 1}) = Cardinality(H) + 1
    BY <2>3, <2>4, FS_AddElement
  <2>7. Cardinality(Places(k)') = Cardinality(PlacesIn(a, k)) + (IF k \in found THEN 1 ELSE 0)
    BY <2>1, PlacesOnward
  <2>8. Cardinality(Places(k)') <= Cardinality(HomesSoFar(k)')
    <3>1. CASE k \in found
      BY <2>1, <2>3, <2>5, <2>6, <2>7, <3>1
    <3>2. CASE k \notin found
      BY <2>1, <2>3, <2>5, <2>6, <2>7, <3>2
    <3> QED BY <3>1, <3>2
  <2> QED BY <2>8
<1>5. Len(cmd'.todo) <= Len(cmd'.boxes)
  BY <1>1, <1>2
<1> QED BY <1>2, <1>3, <1>4, <1>5 DEF OnePlaceForAHome

LEMMA PlacesStep ==
  ASSUME TypeOK, Stages, OnePlaceForAHome, Next
  PROVE  OnePlaceForAHome'
<1> SUFFICES ASSUME cmd'.name = "ls", cmd'.at \notin {"printed", "panicked"}
             PROVE  OnePlaceForAHome'
  BY DEF OnePlaceForAHome
<1>1. CASE Deliver \/ OtherSync
  <2>1. cmd' = cmd /\ index \subseteq index'
    BY <1>1 DEF Deliver, OtherSync
  <2> QED BY <2>1, PlacesKept
<1>2. ASSUME NEW name, NEW boxes \in Boxes \cup {<<inbox>>}, NEW query, NEW first,
             Start(name, boxes, query, first)
      PROVE  OnePlaceForAHome'
  <2>1. cmd'.boxes = boxes /\ cmd'.todo = boxes /\ cmd'.all = <<>>
    BY <1>2 DEF Start
  <2>2. boxes \in Seq(Mailbox) /\ Len(boxes) \in Nat
    BY BoxesTyped
  <2>3. DoneSoFar' = 0
    BY <2>1, <2>2 DEF DoneSoFar
  <2>4. \A k \in Key : Places(k)' = {} /\ HomesSoFar(k)' = {}
    BY <2>1, <2>3 DEF Places, HomesSoFar
  <2>5. Cardinality({}) = 0
    BY FS_EmptySet
  <2>6. \A j \in 1 .. Len(boxes) : boxes[j] = boxes[0 + j]
    BY <2>2
  <2>7. \A k \in Key : Cardinality(Places(k))' = 0 /\ Cardinality(HomesSoFar(k))' = 0
    BY <2>4, <2>5
  <2>8. /\ Len(cmd'.todo) <= Len(cmd'.boxes)
        /\ \A j \in 1 .. Len(cmd'.todo) : cmd'.todo[j] = cmd'.boxes[DoneSoFar' + j]
    BY <2>1, <2>2, <2>3, <2>6
  <2> QED BY <2>7, <2>8 DEF OnePlaceForAHome
<1>3. CASE StartLs \/ StartSearch \/ StartStatus
  BY <1>2, <1>3 DEF StartLs, StartSearch, StartStatus
<1>4. CASE SyncWorks \/ SyncFails
  <2>1. cmd.at = "sync" /\ cmd' = AfterSync /\ index' = index
    BY <1>4 DEF SyncWorks, SyncFails, Running
  <2>2. cmd.name = "ls"
    BY <2>1 DEF AfterSync, TypeOK
  <2>3. /\ cmd'.name = cmd.name /\ cmd'.boxes = cmd.boxes /\ cmd'.todo = cmd.todo
        /\ cmd'.all = cmd.all
    BY <2>1, <2>2 DEF AfterSync, TypeOK
  <2> QED BY <2>1, <2>3, PlacesKept
<1>5. CASE ListCached
  <2>1. /\ cmd.at = "list" /\ cmd.todo # <<>> /\ index' = index
        /\ cmd' = Onward(CacheList(Box, cmd.count))
    BY <1>5 DEF ListCached, Running
  <2>2. Box \in Mailbox /\ CacheList(Box, cmd.count) \in SUBSET Key
    BY <2>1, BoxAndRest, ListsAreOfKeys
  <2>3. \A k \in CacheList(Box, cmd.count) : <<Box, k>> \in index
    BY <2>2, MailAssumption DEF CacheList, Newest, Cached, TypeOK
  <2> QED BY <2>1, <2>2, <2>3, PlacesGrow
<1>6. CASE ListLive
  <2>1. /\ cmd.at \in {"live", "fallback"} /\ cmd.todo # <<>> /\ index' = index
        /\ cmd' = Onward(ReaderList(Box, cmd.count))
    BY <1>6 DEF ListLive, Running
  <2>2. ReaderList(Box, cmd.count) \in SUBSET Key
    BY ListsAreOfKeys
  <2>3. \A k \in ReaderList(Box, cmd.count) : <<Box, k>> \in index
    BY DEF ReaderList, Newest, InTable
  <2> QED BY <2>1, <2>2, <2>3, PlacesGrow
<1>7. CASE ListLiveFails \/ SearchFails
  <2>1. /\ cmd.at \in {"live", "fallback", "search"} /\ cmd.todo # <<>> /\ index' = index
        /\ cmd' = Onward({})
    BY <1>7 DEF ListLiveFails, SearchFails, Running
  <2> QED BY <2>1, PlacesGrow
<1>8. CASE ListCachedFails
  <2>1. cmd.at = "list" /\ cmd' = [cmd EXCEPT !.at = "fallback"] /\ index' = index
    BY <1>8 DEF ListCachedFails, Running
  <2>2. /\ cmd'.name = cmd.name /\ cmd'.boxes = cmd.boxes /\ cmd'.todo = cmd.todo
        /\ cmd'.all = cmd.all
    BY <2>1 DEF TypeOK
  <2> QED BY <2>1, <2>2, PlacesKept
<1>9. CASE SearchCached
  <2>1. cmd.name = "search" /\ \E found : cmd' = Onward(found)
    BY <1>9 DEF SearchCached, Running, Stages
  <2> QED BY <2>1 DEF Onward, TypeOK
<1>10. CASE PrintList \/ PrintAll
  BY <1>10 DEF PrintList, PrintAll, TypeOK
<1>11. CASE Exit
  BY <1>11 DEF Exit, Idle
<1> QED BY <1>1, <1>3, <1>4, <1>5, <1>6, <1>7, <1>8, <1>9, <1>10, <1>11 DEF Next

------------------------------------------------------------------------------
(* `mail search` *)

LEMMA FullStaysFull ==
  ASSUME TypeOK, cmd' = cmd, then'.moved \in SUBSET Key, Full,
         \A b \in Mailbox : Cached(b) \cup then.moved \subseteq (Cached(b) \cup then.moved)'
  PROVE  Full'
<1>1. PICK m \in ToSet(cmd.boxes) :
        cmd.count \in 0 .. Cardinality((Cached(m) \cup then.moved) \cap cmd.query)
  BY DEF Full
<1> DEFINE S == (Cached(m) \cup then.moved) \cap cmd.query
           T == (Cached(m) \cup then.moved)' \cap cmd.query
<1>2. m \in Mailbox
  BY DEF ToSet, TypeOK
<1>3. S \in SUBSET Key /\ T \in SUBSET Key /\ S \in SUBSET T
  BY <1>2 DEF Cached, TypeOK
<1>4. Cardinality(S) <= Cardinality(T) /\ Cardinality(S) \in Nat /\ Cardinality(T) \in Nat
  <2> HIDE DEF S, T
  <2> QED BY <1>3, KeySets
<1>5. cmd.count \in 0 .. Cardinality(T)
  <2>1. cmd.count \in 0 .. Cardinality(S)
    BY <1>1
  <2> HIDE DEF S, T
  <2> QED BY <1>4, <2>1
<1> QED BY <1>1, <1>5 DEF Full

\* What a mailbox does not give of its matches, it has as many of as are wanted.
LEMMA LimitedIsFull ==
  ASSUME TypeOK, NEW m \in ToSet(cmd.boxes),
         NEW found \in Limited(Cached(m) \cap cmd.query, cmd.count),
         NEW k \in (Cached(m) \cap cmd.query) \ found
  PROVE  Full
<1> DEFINE S == Cached(m) \cap cmd.query
           T == (Cached(m) \cup then.moved) \cap cmd.query
           n == cmd.count
<1>1. S \in SUBSET T /\ T \in SUBSET Key /\ S \in SUBSET Key /\ n \in Int
  BY DEF Cached, TypeOK
<1>2. k \in S /\ k \notin found
  OBVIOUS
<1>3. n >= 0 /\ found \in SUBSET S /\ Cardinality(found) = Min({n, Cardinality(S)})
  BY <1>1, <1>2 DEF Limited
<1> HIDE DEF S, T, n
<1>4. /\ IsFiniteSet(S) /\ Cardinality(S) \in Nat /\ Cardinality(T) \in Nat
      /\ Cardinality(S) <= Cardinality(T)
  BY <1>1, KeySets
<1>5. Cardinality(found) <= Cardinality(S) /\ Cardinality(found) # Cardinality(S)
  BY <1>2, <1>3, <1>4, FS_Subset
<1>6. Min({n, Cardinality(S)}) \in {n, Cardinality(S)}
      /\ Min({n, Cardinality(S)}) <= n /\ Min({n, Cardinality(S)}) <= Cardinality(S)
  <2>1. \E x \in {n, Cardinality(S)} : \A y \in {n, Cardinality(S)} : x <= y
    BY <1>1, <1>4
  <2> QED BY <2>1 DEF Min
<1>7. n \in 0 .. Cardinality(T)
  BY <1>1, <1>3, <1>4, <1>5, <1>6
<1> QED BY <1>7 DEF Full, T, n

LEMMA SearchSyncWorks ==
  ASSUME TypeOK, TypeOK', Stages, SearchGetsThere, SyncWorks
  PROVE  SearchGetsThere'
<1> SUFFICES ASSUME cmd'.name = "search", EveryMailboxAnswered', NEW k \in (Known \cap cmd.query)'
             PROVE  \/ BeyondThePage(k)'
                    \/ /\ rows'[k] \in ToSet(cmd'.boxes)
                       /\ cmd'.at = "search" => cmd'.todo = cmd'.boxes
                       /\ cmd'.at \in {"sync", "search"}
  BY Zenon DEF SearchGetsThere
<1>1. PICK page \in Pages(then.index, Box) : rows' = Installed(Box, page)
  BY DEF SyncWorks
<1>2. /\ cmd.at = "sync" /\ cmd.todo # <<>> /\ index' = index /\ cmd' = AfterSync
      /\ then' = [then EXCEPT !.fresh = @ \cup {Box}]
  BY DEF SyncWorks, Running
<1>3. Box \in Mailbox /\ Box \in ToSet(cmd.boxes) /\ then.index \in SUBSET index
  BY <1>2, BoxAndRest DEF TypeOK, Stages
<1>4. /\ cmd.name = "search" /\ cmd'.boxes = cmd.boxes /\ cmd'.query = cmd.query
      /\ cmd'.at \in {"sync", "search"}
      /\ cmd'.at = "search" => cmd'.todo = cmd'.boxes
  BY <1>2 DEF AfterSync, TypeOK
<1>5. /\ then'.moved = then.moved /\ then'.silent = then.silent
      /\ then'.fresh = then.fresh \cup {Box}
      /\ then'.index = then.index /\ then'.rows = then.rows
  BY <1>2 DEF TypeOK
<1>6. /\ page \in SUBSET Key
      /\ \A i \in Key : rows'[i] = IF i \in page THEN Box ELSE rows[i]
  <2>1. page \in SUBSET Key
    BY <1>1, <1>3, PageHolds
  <2>2. \A i \in Key : rows'[i] = IF i \in page THEN Box ELSE rows[i]
    BY <1>1, <1>2 DEF Installed
  <2> QED BY <2>1, <2>2
<1>7. k \in Key /\ (k \in Known \/ <<Box, k>> \in then.index)
  BY <1>4, <1>5 DEF Known
<1>8. CASE k \in page
  BY <1>3, <1>4, <1>6, <1>7, <1>8
<1>9. CASE k \notin page /\ <<Box, k>> \in then.index
  <2>1. k \in InTable(index, Box) \ Newest(InTable(index, Box), PageLimit)
    BY <1>1, <1>3, <1>7, <1>9, PageHolds
  <2>2. BeyondThePage(k)
    BY <1>3, <2>1 DEF BeyondThePage
  <2> QED BY <1>2, <1>4, <2>2, OldStaysOld
<1>10. CASE k \notin page /\ k \in Known
  <2>1. EveryMailboxAnswered
    BY <1>5 DEF EveryMailboxAnswered
  <2>2. BeyondThePage(k) \/ rows[k] \in ToSet(cmd.boxes)
    BY <1>2, <1>4, <1>10, <2>1 DEF SearchGetsThere
  <2>3. BeyondThePage(k) => BeyondThePage(k)'
    BY <1>2, <1>4, OldStaysOld
  <2>4. rows'[k] = rows[k]
    BY <1>6, <1>7, <1>10
  <2> QED BY <1>4, <2>2, <2>3, <2>4
<1> QED BY <1>7, <1>8, <1>9, <1>10

LEMMA SearchOtherSync ==
  ASSUME TypeOK, TypeOK', Stages, SearchGetsThere, OtherSync
  PROVE  SearchGetsThere'
<1> SUFFICES ASSUME cmd'.name = "search", EveryMailboxAnswered', NEW k \in (Known \cap cmd.query)'
             PROVE  (\/ BeyondThePage(k)
                     \/ cmd.at = "sync" /\ rows[k] \in ToSet(cmd.boxes)
                     \/ cmd.at # "sync" /\ (k \in ToSet(cmd.all) \/ rows[k] \in ToSet(cmd.todo) \/ Full))'
  BY Zenon DEF SearchGetsThere
<1>1. cmd' = cmd /\ index' = index /\ cmd # Idle
  BY DEF OtherSync, Idle
<1>2. /\ then'.silent = then.silent /\ then'.fresh = then.fresh
      /\ then'.index = then.index /\ then'.rows = then.rows
      /\ then.moved \subseteq then'.moved /\ then'.moved \in SUBSET Key
  BY <1>1, OtherSyncMoves
<1>3. k \in Known \cap cmd.query /\ k \in Key /\ k \notin then'.moved
  BY <1>1, <1>2 DEF Known
<1>4. EveryMailboxAnswered
  BY <1>2 DEF EveryMailboxAnswered
<1>5. BeyondThePage(k) => BeyondThePage(k)'
  BY <1>1, OldStaysOld
<1>6. Full => Full'
  BY <1>1, <1>2, OtherSyncMoves, FullStaysFull
<1>7. rows[k] \in ToSet(cmd.boxes) \cup ToSet(cmd.todo) => rows'[k] = rows[k]
  <2>1. rows[k] \in ToSet(cmd.boxes) \cup ToSet(cmd.todo) => rows[k] \in Mailbox
    BY DEF ToSet, TypeOK
  <2> QED BY <1>1, <1>3, <2>1, OtherSyncMoves, MailAssumption
<1>8. \/ BeyondThePage(k)
      \/ cmd.at = "sync" /\ rows[k] \in ToSet(cmd.boxes)
      \/ cmd.at # "sync" /\ (k \in ToSet(cmd.all) \/ rows[k] \in ToSet(cmd.todo) \/ Full)
  BY <1>1, <1>3, <1>4 DEF SearchGetsThere
<1> QED BY <1>1, <1>5, <1>6, <1>7, <1>8

LEMMA SearchStep ==
  ASSUME TypeOK, TypeOK', Stages, SearchGetsThere, Next
  PROVE  SearchGetsThere'
<1>1. CASE Deliver
  <2>1. rows' = rows /\ cmd' = cmd /\ then' = then /\ index \subseteq index'
    BY <1>1 DEF Deliver
  <2>2. \A k : BeyondThePage(k) => BeyondThePage(k)'
    BY <2>1, OldStaysOld
  <2>3. EveryMailboxAnswered' = EveryMailboxAnswered /\ Known' = Known /\ Full' = Full
    BY <2>1 DEF EveryMailboxAnswered, Known, Full, Cached
  <2> QED BY <2>1, <2>2, <2>3 DEF SearchGetsThere
<1>2. CASE OtherSync
  BY <1>2, SearchOtherSync
<1>3. ASSUME NEW name, NEW boxes, NEW query, NEW first, Start(name, boxes, query, first)
      PROVE  SearchGetsThere'
  <2>1. /\ cmd'.boxes = boxes /\ cmd'.todo = boxes /\ rows' = rows
        /\ then'.fresh = {} /\ then'.rows = rows
    BY <1>3 DEF Start, Started, Begins
  <2> QED BY <2>1 DEF SearchGetsThere, Known
<1>4. CASE StartLs \/ StartSearch \/ StartStatus
  BY <1>3, <1>4 DEF StartLs, StartSearch, StartStatus
<1>5. CASE SyncWorks
  BY <1>5, SearchSyncWorks
<1>6. CASE SyncFails
  <2>1. /\ cmd.at = "sync" /\ cmd' = AfterSync /\ rows' = rows /\ then' = then /\ index' = index
    BY <1>6 DEF SyncFails, Running
  <2>2. /\ cmd'.name = cmd.name /\ cmd'.boxes = cmd.boxes /\ cmd'.query = cmd.query
        /\ cmd'.name = "search" => cmd'.at \in {"sync", "search"}
        /\ cmd'.at = "search" => cmd'.todo = cmd'.boxes
    BY <2>1 DEF AfterSync, TypeOK
  <2>3. EveryMailboxAnswered' = EveryMailboxAnswered /\ Known' = Known
    BY <2>1, <2>2 DEF EveryMailboxAnswered, Known
  <2>4. \A k : BeyondThePage(k) => BeyondThePage(k)'
    BY <2>1, <2>2, OldStaysOld
  <2> QED BY <2>1, <2>2, <2>3, <2>4 DEF SearchGetsThere
<1>7. CASE SearchCached
  <2>1. /\ cmd.at = "search" /\ cmd.todo # <<>>
        /\ rows' = rows /\ then' = then /\ index' = index
    BY <1>7 DEF SearchCached, Running
  <2>2. PICK found \in Limited(Cached(Box) \cap cmd.query, cmd.count) : cmd' = Onward(found)
    BY <1>7 DEF SearchCached
  <2>3. found \in SUBSET Key
    <3>1. Cached(Box) \cap cmd.query \in SUBSET Key
      BY ListsAreOfKeys
    <3> QED BY <3>1, ListsAreOfKeys
  <2>4. /\ cmd'.name = cmd.name /\ cmd'.boxes = cmd.boxes /\ cmd'.query = cmd.query
        /\ cmd'.count = cmd.count /\ cmd'.todo = Tail(cmd.todo) /\ cmd'.at = "search"
        /\ ToSet(cmd'.all) = ToSet(cmd.all) \cup found
    BY <2>1, <2>2, <2>3, OnwardHolds
  <2>5. EveryMailboxAnswered' = EveryMailboxAnswered /\ Known' = Known /\ Full' = Full
    BY <2>1, <2>4 DEF EveryMailboxAnswered, Known, Full, Cached
  <2>6. \A k : BeyondThePage(k) => BeyondThePage(k)'
    BY <2>1, <2>4, OldStaysOld
  <2>7. ASSUME NEW k \in Key \cap cmd.query, rows[k] \in ToSet(cmd.todo)
        PROVE  k \in found \/ Full \/ rows[k] \in ToSet(Tail(cmd.todo))
    <3>1. CASE rows[k] = Box
      <4>1. Box \in ToSet(cmd.boxes) /\ k \in Cached(Box) \cap cmd.query
        BY <2>1, <2>7, <3>1, BoxAndRest DEF Stages, Cached
      <4> QED BY <2>2, <4>1, LimitedIsFull
    <3>2. CASE rows[k] # Box
      BY <2>1, <2>7, <3>2, BoxAndRest
    <3> QED BY <3>1, <3>2
  <2>8. Known \subseteq Key
    BY DEF Known
  <2> QED BY <2>1, <2>4, <2>5, <2>6, <2>7, <2>8 DEF SearchGetsThere
<1>8. CASE ListCached \/ ListCachedFails
  <2>1. cmd.name = "ls"
    BY <1>8 DEF ListCached, ListCachedFails, Running, Stages
  <2>2. cmd'.name = cmd.name
    BY <1>8 DEF ListCached, ListCachedFails, Onward, TypeOK
  <2> QED BY <2>1, <2>2 DEF SearchGetsThere
<1>9. CASE ListLive
  <2>1. cmd.name # "search"
    BY <1>9 DEF ListLive, Running, Stages
  <2>2. cmd'.name = cmd.name
    BY <1>9 DEF ListLive, Onward, TypeOK
  <2> QED BY <2>1, <2>2 DEF SearchGetsThere
<1>10. CASE ListLiveFails \/ SearchFails
  <2>1. then'.silent # {}
    BY <1>10 DEF ListLiveFails, SearchFails, TypeOK
  <2> QED BY <2>1 DEF SearchGetsThere, EveryMailboxAnswered
<1>11. CASE PrintList
  <2>1. cmd'.name = "ls"
    BY <1>11 DEF PrintList, TypeOK
  <2> QED BY <2>1 DEF SearchGetsThere
<1>12. CASE PrintAll
  <2>1. /\ cmd' = [cmd EXCEPT !.at = "printed"] /\ cmd.todo = <<>>
        /\ rows' = rows /\ then' = then /\ index' = index
    BY <1>12 DEF PrintAll, Done
  <2>2. /\ cmd'.name = cmd.name /\ cmd'.boxes = cmd.boxes /\ cmd'.query = cmd.query
        /\ cmd'.count = cmd.count /\ cmd'.todo = cmd.todo /\ cmd'.at = "printed" /\ cmd'.all = cmd.all
    BY <2>1 DEF TypeOK
  <2>3. EveryMailboxAnswered' = EveryMailboxAnswered /\ Known' = Known /\ Full' = Full
    BY <2>1, <2>2 DEF EveryMailboxAnswered, Known, Full, Cached
  <2>4. \A k : BeyondThePage(k) => BeyondThePage(k)'
    BY <2>1, <2>2, OldStaysOld
  <2>5. cmd.name = "search" => cmd.at # "sync"
    BY <2>1 DEF Stages
  <2> QED BY <2>1, <2>2, <2>3, <2>4, <2>5 DEF SearchGetsThere
<1>13. CASE Exit
  <2>1. cmd'.name = "none"
    BY <1>13 DEF Exit, Idle
  <2> QED BY <2>1 DEF SearchGetsThere
<1> QED BY <1>1, <1>2, <1>4, <1>5, <1>6, <1>7, <1>8, <1>9, <1>10, <1>11, <1>12, <1>13 DEF Next

------------------------------------------------------------------------------
(* What ls prints *)

\* Cut at n or not, the sorted result leaves out only what n newer ones push out.
LEMMA CutIsNewest ==
  ASSUME NEW s \in Seq(Key), NEW n \in Int, NEW w,
         \/ Len(s) <= n /\ w = NewestFirst(s)
         \/ Len(s) > n /\ n \in Nat /\ w = SubSeq(NewestFirst(s), 1, n),
         NEW k \in Key \ ToSet(w),
         k \in ToSet(s) \/ n <= Cardinality({x \in ToSet(s) : x > k})
  PROVE  Len(w) = n /\ \A i \in ToSet(w) : i > k
<1> DEFINE t == NewestFirst(s)
<1>1. t \in Seq(Key) /\ Len(t) = Len(s) /\ Len(s) \in Nat
  BY SortedIsRanked
<1>2. /\ Len(w) \in Nat /\ Len(w) <= Len(s) /\ Len(w) <= n
      /\ ToSet(w) = {t[i] : i \in 1 .. Len(w)}
      /\ Len(w) = n \/ Len(w) = Len(s)
  <2>1. CASE Len(s) <= n /\ w = NewestFirst(s)
    <3>1. w = t
      BY <2>1
    <3> HIDE DEF t
    <3>2. DOMAIN t = 1 .. Len(s)
      BY <1>1
    <3> QED BY <1>1, <2>1, <3>1, <3>2 DEF ToSet
  <2>2. CASE Len(s) > n /\ n \in Nat /\ w = SubSeq(NewestFirst(s), 1, n)
    <3>1. w = SubSeq(t, 1, n)
      BY <2>2
    <3> HIDE DEF t
    <3>2. Len(w) = n /\ DOMAIN w = 1 .. n /\ \A i \in 1 .. n : w[i] = t[i]
      BY <1>1, <2>2, <3>1
    <3>3. ToSet(w) = {w[i] : i \in 1 .. n}
      BY <3>2 DEF ToSet
    <3>4. ToSet(w) = {t[i] : i \in 1 .. n}
      BY <3>2, <3>3
    <3> QED BY <1>1, <2>2, <3>2, <3>4
  <2> QED BY <2>1, <2>2
<1>3. CASE k \in ToSet(s)
  <2>1. PICK r \in 1 .. Len(s) : t[r] = k /\ \A i \in 1 .. Len(s) : t[i] < k => r < i
    BY <1>3, EachHasItsPlace
  <2> HIDE DEF t
  <2>2. r > Len(w) /\ Len(w) = n
    BY <1>1, <1>2, <2>1
  <2>3. ASSUME NEW i \in 1 .. Len(w) PROVE t[i] > k
    <3>1. i \in 1 .. Len(s) /\ t[i] # k /\ t[i] \in Nat /\ k \in Nat
      BY <1>1, <1>2, KeySets
    <3>2. ~ (r < i)
      BY <2>1, <2>2, <1>2
    <3> QED BY <2>1, <3>1, <3>2
  <2> QED BY <1>2, <2>2, <2>3
<1>4. CASE n <= Cardinality({x \in ToSet(s) : x > k})
  <2>1. n <= Len(s) /\ \A i \in 1 .. Len(s) : i <= n => t[i] > k
    BY <1>4, FirstAreAbove
  <2> HIDE DEF t
  <2> QED BY <1>1, <1>2, <2>1
<1> QED BY <1>3, <1>4

\* ... and has each key in no more places.
LEMMA PlacesCut ==
  ASSUME NEW s \in Seq(Key), NEW n \in Int, NEW w,
         \/ Len(s) <= n /\ w = NewestFirst(s)
         \/ Len(s) > n /\ n \in Nat /\ w = SubSeq(NewestFirst(s), 1, n),
         NEW k \in Key
  PROVE  Cardinality(PlacesIn(w, k)) <= Cardinality(PlacesIn(s, k))
<1> DEFINE t == NewestFirst(s)
           P == PlacesIn(t, k)
           Q == PlacesIn(w, k)
<1>1. t \in Seq(Key) /\ Len(t) = Len(s) /\ Len(s) \in Nat
  BY SortedIsRanked
<1>2. /\ Cardinality(P) <= Cardinality(PlacesIn(s, k))
      /\ IsFiniteSet(P) /\ Cardinality(P) \in Nat /\ Cardinality(PlacesIn(s, k)) \in Nat
  BY <1>1, PlacesSorted, PlacesAreFinite
<1>3. Q \in SUBSET P
  <2>1. CASE w = t
    BY <2>1
  <2>2. CASE Len(s) > n /\ n \in Nat /\ w = SubSeq(t, 1, n)
    <3> HIDE DEF t
    <3>1. DOMAIN w = 1 .. n /\ DOMAIN t = 1 .. Len(s) /\ \A i \in 1 .. n : w[i] = t[i]
      BY <1>1, <2>2
    <3> QED BY <1>1, <2>2, <3>1 DEF PlacesIn
  <2> QED BY <2>1, <2>2
<1> HIDE DEF P, Q
<1>4. Cardinality(Q) <= Cardinality(P) /\ Cardinality(Q) \in Nat
  BY <1>2, <1>3, FS_Subset, FS_CardinalityType
<1> QED BY <1>2, <1>4 DEF Q

LEMMA PrintStep ==
  ASSUME TypeOK, Stages, LsGetsThere, OnePlaceForAHome, PrintList
  PROVE  LsShowsTheNewest'
<1> DEFINE s == cmd.all
           n == cmd.count
<1>1. /\ rows' = rows /\ then' = then /\ index' = index /\ cmd.todo = <<>> /\ cmd.name = "ls"
      /\ cmd.at \notin {"printed", "panicked"}
  BY DEF PrintList, Done
<1>2. s \in Seq(Key) /\ n \in Int /\ Len(s) \in Nat
  BY DEF TypeOK
<1>3. cmd'.count = n /\ cmd'.boxes = cmd.boxes
  BY DEF PrintList, TypeOK
<1>4. CASE cmd'.at = "panicked"
  <2>1. n < 0
    BY <1>2, <1>4 DEF PrintList, TooMany, CutPanics, TypeOK
  <2> QED BY <1>3, <1>4, <2>1 DEF LsShowsTheNewest, Printed
<1>5. CASE cmd'.at # "panicked"
  <2> DEFINE w == cmd'.all
  <2>1. \/ Len(s) <= n /\ w = NewestFirst(s)
        \/ Len(s) > n /\ n \in Nat /\ w = SubSeq(NewestFirst(s), 1, n)
    <3>1. CASE ~TooMany
      BY <1>2, <3>1 DEF PrintList, TooMany, Sorted, TypeOK
    <3>2. CASE TooMany
      <4>1. ~CutPanics /\ cmd' = [cmd EXCEPT !.at = "printed", !.all = Cut]
        BY <1>5, <3>2 DEF PrintList, TypeOK
      <4>2. w = Cut
        BY <4>1 DEF TypeOK
      <4> QED BY <1>2, <3>2, <4>1, <4>2 DEF TooMany, CutPanics, Cut, Sorted
    <3> QED BY <3>1, <3>2
  <2>2. Len(w) <= n
    <3>1. NewestFirst(s) \in Seq(Key) /\ Len(NewestFirst(s)) = Len(s)
      BY <1>2, SortedIsRanked
    <3> HIDE DEF w, s, n
    <3> QED BY <1>2, <2>1, <3>1
  <2>3. ASSUME EveryMailboxAnswered, Fits, NEW k \in Known \ ToSet(w), ~Missed(k)
        PROVE  Len(w) = n /\ \A i \in ToSet(w) : i > k
    <3>1. ToSet(cmd.todo) = {}
      BY <1>1 DEF ToSet
    <3>2. Served(k) /\ k \in Key
      BY <1>1, <2>3, <3>1 DEF LsGetsThere, PastPage, Stages, Known
    <3>3. k \in ToSet(s) \/ n <= Cardinality({x \in ToSet(s) : x > k})
      BY <3>2 DEF Served
    <3> HIDE DEF w, s, n
    <3> QED BY <1>2, <2>1, <2>3, <3>2, <3>3, CutIsNewest
  <2>4. ASSUME NEW k \in Key PROVE Cardinality(Places(k))' <= Cardinality(Homes(k))'
    <3>1. Cardinality(PlacesIn(w, k)) <= Cardinality(PlacesIn(s, k))
      <4> HIDE DEF w, s, n
      <4> QED BY <1>2, <2>1, PlacesCut
    <3>2. HomesSoFar(k) = Homes(k)
      <4>1. cmd.boxes \in Seq(Mailbox) /\ Len(cmd.todo) = 0
        BY <1>1 DEF TypeOK
      <4>2. DoneSoFar = Len(cmd.boxes) /\ DOMAIN cmd.boxes = 1 .. Len(cmd.boxes)
        BY <4>1 DEF DoneSoFar
      <4> QED BY <4>2 DEF HomesSoFar, Homes
    <3>3. Homes(k)' = Homes(k) /\ Places(k)' = PlacesIn(w, k) /\ Places(k) = PlacesIn(s, k)
      BY <1>1, <1>3 DEF Homes, Places, PlacesIn
    <3>4. Cardinality(PlacesIn(s, k)) <= Cardinality(Homes(k))
      BY <1>1, <3>2, <3>3 DEF OnePlaceForAHome
    <3>5. /\ Cardinality(PlacesIn(w, k)) \in Nat /\ Cardinality(PlacesIn(s, k)) \in Nat
          /\ Cardinality(Homes(k)) \in Nat
      <4>1. w \in Seq(Key)
        <5>1. NewestFirst(s) \in Seq(Key) /\ Len(NewestFirst(s)) = Len(s)
          BY <1>2, SortedIsRanked
        <5> HIDE DEF w, s, n
        <5> QED BY <1>2, <2>1, <5>1
      <4>2. IsFiniteSet(DOMAIN cmd.boxes) /\ Homes(k) \in SUBSET DOMAIN cmd.boxes
        <5>1. cmd.boxes \in Seq(Mailbox)
          BY DEF TypeOK
        <5>2. DOMAIN cmd.boxes = 1 .. Len(cmd.boxes) /\ Len(cmd.boxes) \in Nat
          BY <5>1
        <5>3. IsFiniteSet(1 .. Len(cmd.boxes))
          BY <5>2, FS_Interval
        <5> QED BY <5>2, <5>3 DEF Homes
      <4>3. Cardinality(Homes(k)) \in Nat
        BY <4>2, FS_Subset, FS_CardinalityType
      <4> QED BY <1>2, <4>1, <4>3, PlacesAreFinite
    <3> HIDE DEF w, s
    <3>6. Cardinality(PlacesIn(w, k)) <= Cardinality(Homes(k))
      BY <3>1, <3>4, <3>5
    <3> QED BY <3>3, <3>6
  <2>5. /\ EveryMailboxAnswered' = EveryMailboxAnswered /\ Known' = Known /\ Fits' = Fits
        /\ \A k : Missed(k) =>
             /\ cmd'.count + Cardinality(then'.moved) > PageLimit
             /\ BeyondThePage(k)'
    <3>1. EveryMailboxAnswered' = EveryMailboxAnswered /\ Known' = Known /\ Fits' = Fits
      BY <1>1, <1>3 DEF EveryMailboxAnswered, Known, Fits
    <3>2. \A k : BeyondThePage(k)' = BeyondThePage(k)
      BY <1>1, <1>3 DEF BeyondThePage, InTable
    <3>3. ~Roomy => cmd'.count + Cardinality(then'.moved) > PageLimit
      <4>1. Cardinality(then.moved) \in Nat /\ PageLimit \in Nat
        BY KeySets, NumberAssumption DEF TypeOK
      <4> QED BY <1>1, <1>2, <1>3, <4>1 DEF Roomy
    <3> QED BY <3>1, <3>2, <3>3 DEF Missed
  <2>6. Shown' = ToSet(w) /\ Shown' \subseteq Key
    <3>1. w \in Seq(Key)
      <4>1. NewestFirst(s) \in Seq(Key) /\ Len(NewestFirst(s)) = Len(s)
        BY <1>2, SortedIsRanked
      <4> HIDE DEF w, s, n
      <4> QED BY <1>2, <2>1, <4>1
    <3>2. Shown' = ToSet(w)
      BY DEF Shown
    <3> HIDE DEF w
    <3> QED BY <3>1, <3>2 DEF ToSet
  <2> QED BY <1>3, <1>5, <2>2, <2>3, <2>4, <2>5, <2>6 DEF LsShowsTheNewest, Printed, Fits
<1> QED BY <1>4, <1>5

LEMMA ShownStep ==
  ASSUME TypeOK, TypeOK', Stages, LsGetsThere, OnePlaceForAHome, LsShowsTheNewest, Next
  PROVE  LsShowsTheNewest'
<1>1. ASSUME cmd' = cmd, index \subseteq index', then'.silent = then.silent, Known' \subseteq Known,
             then.moved \subseteq then'.moved, then'.moved \in SUBSET Key
      PROVE  LsShowsTheNewest'
  <2>1. /\ EveryMailboxAnswered' = EveryMailboxAnswered /\ Shown' = Shown
        /\ \A k : Places(k)' = Places(k)
    BY <1>1 DEF EveryMailboxAnswered, Shown, Places
  <2>2. ASSUME NEW k, Cardinality(Places(k)) <= Cardinality(Homes(k))
        PROVE  Cardinality(Places(k))' <= Cardinality(Homes(k))'
    <3>1. cmd.boxes \in Seq(Mailbox) /\ cmd.all \in Seq(Key)
      BY DEF TypeOK
    <3>2. IsFiniteSet(DOMAIN cmd.boxes)
      <4>1. DOMAIN cmd.boxes = 1 .. Len(cmd.boxes) /\ Len(cmd.boxes) \in Nat
        BY <3>1
      <4>2. IsFiniteSet(1 .. Len(cmd.boxes))
        BY <4>1, FS_Interval
      <4> QED BY <4>1, <4>2
    <3>3. Homes(k) \in SUBSET (Homes(k)') /\ Homes(k)' \in SUBSET DOMAIN cmd.boxes
      BY <1>1 DEF Homes
    <3>4. IsFiniteSet(Homes(k)')
      BY <3>2, <3>3, FS_Subset
    <3>5. /\ Cardinality(Homes(k)) <= Cardinality(Homes(k)')
          /\ Cardinality(Homes(k)) \in Nat /\ Cardinality(Homes(k)') \in Nat
      BY <3>3, <3>4, FS_Subset, FS_CardinalityType
    <3>6. Cardinality(Places(k)) \in Nat
      BY <3>1, PlacesAreFinite DEF Places, PlacesIn
    <3> QED BY <2>1, <2>2, <3>5, <3>6
  <2>3. ASSUME NEW k, cmd.count + Cardinality(then.moved) > PageLimit, BeyondThePage(k)
        PROVE  /\ cmd'.count + Cardinality(then'.moved) > PageLimit
               /\ BeyondThePage(k)'
    <3>1. BeyondThePage(k)'
      BY <1>1, <2>3, OldStaysOld
    <3>2. /\ Cardinality(then.moved) <= Cardinality(then'.moved)
          /\ Cardinality(then.moved) \in Nat /\ Cardinality(then'.moved) \in Nat
      <4>1. then'.moved \in SUBSET Key /\ then.moved \in SUBSET (then'.moved) /\ then.moved \in SUBSET Key
        BY <1>1
      <4> QED BY <4>1, KeySets
    <3>3. cmd.count \in Int /\ PageLimit \in Nat
      BY NumberAssumption DEF TypeOK
    <3> QED BY <1>1, <2>3, <3>1, <3>2, <3>3
  <2> QED BY <1>1, <2>1, <2>2, <2>3 DEF LsShowsTheNewest, Printed
<1>2. CASE Deliver \/ OtherSync
  <2>1. CASE Deliver
    <3>1. cmd' = cmd /\ then' = then /\ index \subseteq index'
      BY <2>1 DEF Deliver
    <3>2. Known' = Known /\ then.moved \in SUBSET Key
      BY <3>1 DEF Known, TypeOK
    <3> QED BY <1>1, <3>1, <3>2
  <2>2. CASE OtherSync /\ cmd = Idle
    <3>1. cmd' = cmd
      BY <2>2 DEF OtherSync
    <3> QED BY <2>2, <3>1 DEF Idle, LsShowsTheNewest, Printed
  <2>3. CASE OtherSync /\ cmd # Idle
    <3>1. /\ cmd' = cmd /\ index' = index
          /\ then'.silent = then.silent /\ then'.fresh = then.fresh
          /\ then'.index = then.index /\ then'.rows = then.rows
          /\ then.moved \subseteq then'.moved /\ then'.moved \in SUBSET Key
      BY <2>3, OtherSyncMoves
    <3>2. Known' \subseteq Known
      BY <3>1 DEF Known
    <3> QED BY <1>1, <3>1, <3>2
  <2> QED BY <1>2, <2>1, <2>2, <2>3
<1>3. CASE PrintList
  BY <1>3, PrintStep
<1>4. CASE PrintAll
  <2>1. cmd'.at = "printed" /\ cmd'.name # "ls"
    BY <1>4 DEF PrintAll, TypeOK
  <2> QED BY <2>1 DEF LsShowsTheNewest, Printed
<1>5. ASSUME cmd'.at \notin {"printed", "panicked"} PROVE LsShowsTheNewest'
  BY <1>5 DEF LsShowsTheNewest, Printed
<1>6. CASE StartLs \/ StartSearch \/ StartStatus
  BY <1>5, <1>6 DEF StartLs, StartSearch, StartStatus, Start
<1>7. CASE SyncWorks \/ SyncFails
  BY <1>5, <1>7 DEF SyncWorks, SyncFails, Running, AfterSync, TypeOK
<1>8. CASE ListCached \/ ListLive \/ ListLiveFails \/ SearchCached \/ SearchFails
  <2>1. cmd.at \in {"list", "live", "fallback", "search"}
    BY <1>8 DEF ListCached, ListLive, ListLiveFails, SearchCached, SearchFails, Running
  <2>2. PICK found : cmd' = Onward(found)
    BY <1>8 DEF ListCached, ListLive, ListLiveFails, SearchCached, SearchFails
  <2> QED BY <1>5, <2>1, <2>2 DEF Onward, TypeOK
<1>9. CASE ListCachedFails
  BY <1>5, <1>9 DEF ListCachedFails, TypeOK
<1>10. CASE Exit
  BY <1>5, <1>10 DEF Exit, Idle
<1> QED BY <1>2, <1>3, <1>4, <1>6, <1>7, <1>8, <1>9, <1>10 DEF Next

------------------------------------------------------------------------------
LEMMA InitHolds == Init => IInv
<1> SUFFICES ASSUME Init PROVE IInv
  OBVIOUS
<1>1. /\ index = {} /\ rows = [k \in Key |-> None] /\ cmd = Idle /\ then = NotStarted
      /\ <<>> \in Seq(Mailbox) /\ <<>> \in Seq(Key)
  BY DEF Init
<1>2. TypeOK
  BY <1>1 DEF TypeOK, Idle, NotStarted, Begins
<1>3. Stages
  BY <1>1 DEF Stages, Idle
<1>4. LsGetsThere /\ OnePlaceForAHome /\ SearchGetsThere /\ LsShowsTheNewest
  BY <1>1 DEF LsGetsThere, OnePlaceForAHome, SearchGetsThere, LsShowsTheNewest, Printed, Idle
<1> QED BY <1>2, <1>3, <1>4 DEF IInv

LEMMA IInvHolds == Spec => []IInv
<1>1. IInv /\ Next => IInv'
  BY TypedStep, LsStep, PlacesStep, SearchStep, ShownStep DEF IInv
<1>2. IInv /\ UNCHANGED vars => IInv'
  <2> SUFFICES ASSUME IInv, UNCHANGED vars PROVE IInv'
    OBVIOUS
  <2>1. index' = index /\ rows' = rows /\ cmd' = cmd /\ then' = then
    BY DEF vars
  <2>2. TypeOK' /\ Stages'
    BY <2>1 DEF IInv, TypeOK, Stages
  <2>3. /\ EveryMailboxAnswered' = EveryMailboxAnswered /\ Fits' = Fits /\ Known' = Known
        /\ Roomy' = Roomy /\ Full' = Full /\ Shown' = Shown
        /\ \A k : Served(k)' = Served(k) /\ BeyondThePage(k)' = BeyondThePage(k)
    BY <2>1 DEF EveryMailboxAnswered, Fits, Known, Roomy, Full, Shown, Served, BeyondThePage,
                InTable, Cached
  <2>4. LsGetsThere'
    <3>1. \A k : PastPage(k)' = PastPage(k) /\ Missed(k)' = Missed(k)
      BY <2>1, <2>3 DEF PastPage, Missed, Box, Cached
    <3> QED BY <2>1, <2>3, <3>1 DEF IInv, LsGetsThere
  <2>5. OnePlaceForAHome'
    BY <2>1 DEF IInv, OnePlaceForAHome, DoneSoFar, HomesSoFar, Places
  <2>6. SearchGetsThere'
    BY <2>1, <2>3 DEF IInv, SearchGetsThere
  <2>7. LsShowsTheNewest'
    BY <2>1, <2>3 DEF IInv, LsShowsTheNewest, Printed, Places, Homes
  <2> QED BY <2>2, <2>4, <2>5, <2>6, <2>7 DEF IInv
<1> QED BY <1>1, <1>2, InitHolds, PTL DEF Spec

\* The types; and whichever of mail ls, mail search and mail-tui syncs, the cache of a
\* mailbox holds only what the table lists for that mailbox.
THEOREM CommandsTyped == Spec => []TypeOK
<1>1. IInv => TypeOK
  BY DEF IInv
<1> QED BY <1>1, IInvHolds, PTL

\* mail ls, with its syncs, fallbacks, merge, sort and cut, leaves out nothing that it
\* could know, if each mailbox answered and --count is an int32, unless --count places
\* are taken by newer messages, of which each takes at most one for each mailbox it is
\* in, or a page had no room for --count and for what others moved and the message is
\* beyond it; and ls gets that far unless --count is negative.
THEOREM NewestAreShown == Spec => []LsShowsTheNewest
<1>1. IInv => LsShowsTheNewest
  BY DEF IInv
<1> QED BY <1>1, IInvHolds, PTL

\* mail search finds each match it could know on the newest page of a mailbox, unless
\* some mailbox had as many as --count.
THEOREM MatchesAreFound == Spec => []SearchMissesNothing
<1>1. IInv => SearchMissesNothing
  <2> SUFFICES ASSUME IInv, Printed("search"), EveryMailboxAnswered, NEW k \in Known \cap cmd.query
               PROVE  k \in Shown \/ BeyondThePage(k) \/ Full
    BY DEF SearchMissesNothing, Full
  <2>1. cmd.at = "printed" /\ ToSet(cmd.todo) = {}
    BY DEF IInv, Stages, Printed, ToSet
  <2> QED BY <2>1 DEF IInv, SearchGetsThere, Printed, Shown
<1> QED BY <1>1, IInvHolds, PTL
================================================================================
