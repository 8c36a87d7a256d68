----------------------------- MODULE MailSend_proofs -----------------------------
(***************************************************************************)
(* Theorems about MailSend.  Every message says something about the one it *)
(* answers, which never changes afterwards: Kept collects it, and what the *)
(* running command will send agrees with it (Drafted).  The properties,    *)
(* which speak of whole threads, follow from Kept along the thread.        *)
(***************************************************************************)
EXTENDS MailSend, FiniteSetTheorems, SequenceTheorems, WellFoundedInduction, TLAPS

------------------------------------------------------------------------------
(* Counting up to a number, and functions defined on the way *)

\* A set that holds 0, and of each number below n in it the next one, holds all
\* numbers up to n.
LEMMA CountingUp ==
  ASSUME NEW n \in Nat, NEW T, 0 \in T,
         \A i \in 0 .. n - 1 : i \in T => i + 1 \in T
  PROVE  \A i \in 0 .. n : i \in T
<1> DEFINE Left == {i \in 0 .. n : i \notin T}
           Less == OpToRel(<, Nat)
<1>1. IsWellFoundedOn(Less, Nat)
  BY NatLessThanWellFounded
<1>2. \A x, y \in Nat : x < y => <<x, y>> \in Less
  BY DEF OpToRel
<1>3. Left \in SUBSET Nat
  OBVIOUS
<1> SUFFICES ASSUME Left # {} PROVE FALSE
  OBVIOUS
<1> HIDE DEF Less
<1>4. PICK x \in Left : \A y \in Left : ~ (<<y, x>> \in Less)
  BY <1>1, <1>3, WFMin, Zenon
<1>5. x \in 1 .. n /\ x - 1 \in 0 .. n - 1 /\ x - 1 \in 0 .. n
  OBVIOUS
<1>6. <<x - 1, x>> \in Less
  BY <1>2, <1>5
<1>7. x - 1 \in T
  BY <1>4, <1>5, <1>6
<1> QED BY <1>5, <1>7

\* f begins with a and takes the steps of g.
Iterates(f, n, a, g) == f[0] = a /\ \A i \in 1 .. n : f[i] = g[i][f[i - 1]]

LEMMA Iterated ==
  ASSUME NEW A, NEW n \in Nat, NEW a \in A, NEW g \in [1 .. n -> [A -> A]]
  PROVE  \E f \in [0 .. n -> A] : Iterates(f, n, a, g)
<1> USE DEF Iterates
<1> DEFINE Upto(k) == \E f \in [0 .. k -> A] :
                        f[0] = a /\ \A i \in 1 .. k : f[i] = g[i][f[i - 1]]
           T == {k \in 0 .. n : Upto(k)}
<1>1. 0 \in T
  <2> DEFINE h == [i \in 0 .. 0 |-> a]
  <2>1. h \in [0 .. 0 -> A] /\ h[0] = a /\ 1 .. 0 = {}
    OBVIOUS
  <2>2. Upto(0)
    <3> HIDE DEF h
    <3> QED BY <2>1
  <2> QED BY <2>2
<1>2. ASSUME NEW k \in 0 .. n - 1, k \in T PROVE k + 1 \in T
  <2>1. PICK f \in [0 .. k -> A] :
          f[0] = a /\ \A i \in 1 .. k : f[i] = g[i][f[i - 1]]
    BY <1>2
  <2> DEFINE h == [i \in 0 .. k + 1 |-> IF i <= k THEN f[i] ELSE g[k + 1][f[k]]]
  <2>2. h \in [0 .. k + 1 -> A]
    <3>1. g[k + 1] \in [A -> A]
      BY <1>2
    <3> QED BY <3>1
  <2>3. h[0] = a
    BY <2>1
  <2>4. ASSUME NEW i \in 1 .. k + 1 PROVE h[i] = g[i][h[i - 1]]
    <3>1. CASE i <= k
      <4>1. i \in 1 .. k /\ i - 1 \in 0 .. k
        BY <3>1
      <4>2. h[i] = f[i] /\ h[i - 1] = f[i - 1]
        BY <3>1, <4>1
      <4> QED BY <2>1, <4>1, <4>2
    <3>2. CASE i = k + 1
      <4>1. h[i] = g[k + 1][f[k]] /\ h[k] = f[k] /\ i - 1 = k
        BY <3>2
      <4> QED BY <3>2, <4>1
    <3> QED BY <3>1, <3>2
  <2>5. Upto(k + 1)
    <3> HIDE DEF h
    <3> QED BY <2>2, <2>3, <2>4
  <2> HIDE DEF Upto
  <2> QED BY <2>5
<1>3. \A i \in 0 .. n : i \in T
  <2> HIDE DEF T
  <2> QED BY <1>1, <1>2, CountingUp
<1> QED
  <2>1. n \in T
    <3> HIDE DEF T
    <3> QED BY <1>3
  <2> QED BY <2>1

------------------------------------------------------------------------------
(* Sequences *)

LEMMA Joined ==
  ASSUME NEW A, NEW s \in Seq(A), NEW t \in Seq(A)
  PROVE  s \o t \in Seq(A) /\ ToSet(s \o t) = ToSet(s) \cup ToSet(t)
<1>1. s \o t \in Seq(A) /\ Len(s \o t) = Len(s) + Len(t)
  OBVIOUS
<1>2. ASSUME NEW i \in DOMAIN s PROVE i \in DOMAIN (s \o t) /\ (s \o t)[i] = s[i]
  OBVIOUS
<1>3. ASSUME NEW i \in DOMAIN t
      PROVE  Len(s) + i \in DOMAIN (s \o t) /\ (s \o t)[Len(s) + i] = t[i]
  OBVIOUS
<1>4. ASSUME NEW i \in DOMAIN (s \o t)
      PROVE  (s \o t)[i] \in ToSet(s) \cup ToSet(t)
  <2>1. CASE i <= Len(s)
    BY <2>1 DEF ToSet
  <2>2. CASE i > Len(s)
    <3>1. i - Len(s) \in DOMAIN t /\ (s \o t)[i] = t[i - Len(s)]
      BY <1>1, <2>2
    <3> QED BY <3>1 DEF ToSet
  <2> QED BY <1>1, <2>1, <2>2
<1>5. ToSet(s) \cup ToSet(t) \subseteq ToSet(s \o t)
  BY <1>2, <1>3 DEF ToSet
<1> QED BY <1>1, <1>4, <1>5 DEF ToSet

LEMMA Appended ==
  ASSUME NEW A, NEW s \in Seq(A), NEW a \in A
  PROVE  /\ Append(s, a) \in Seq(A) /\ ToSet(Append(s, a)) = ToSet(s) \cup {a}
         /\ DOMAIN Append(s, a) = DOMAIN s \cup {Len(s) + 1}
         /\ Len(s) + 1 \notin DOMAIN s
         /\ Append(s, a)[Len(s) + 1] = a
         /\ \A i \in DOMAIN s : Append(s, a)[i] = s[i]
<1>1. /\ DOMAIN Append(s, a) = DOMAIN s \cup {Len(s) + 1}
      /\ Len(s) + 1 \notin DOMAIN s
  OBVIOUS
<1>2. /\ Append(s, a)[Len(s) + 1] = a
      /\ \A i \in DOMAIN s : Append(s, a)[i] = s[i]
  OBVIOUS
<1> QED BY <1>1, <1>2 DEF ToSet

LEMMA Flattened ==
  ASSUME NEW A, NEW seqs \in Seq(Seq(A))
  PROVE  \E f \in [0 .. Len(seqs) -> Seq(A)] :
           /\ f[0] = <<>>
           /\ \A i \in 0 .. Len(seqs) - 1 : f[i + 1] = f[i] \o seqs[i + 1]
           /\ FlattenSeq(seqs) = f[Len(seqs)]
<1>n. PICK n \in Nat : n = Len(seqs) /\ \A i \in 1 .. n : seqs[i] \in Seq(A)
  OBVIOUS
<1> DEFINE g == [i \in 1 .. n |-> [s \in Seq(A) |-> s \o seqs[i]]]
<1>1. n \in Nat /\ <<>> \in Seq(A) /\ g \in [1 .. n -> [Seq(A) -> Seq(A)]]
  BY <1>n
<1>2. PICK f \in [0 .. n -> Seq(A)] :
        f[0] = <<>> /\ \A i \in 1 .. n : f[i] = g[i][f[i - 1]]
  <2> DEFINE S == Seq(A)
  <2>1. <<>> \in S /\ g \in [1 .. n -> [S -> S]]
    BY <1>1
  <2> HIDE DEF g, S
  <2>2. \E f \in [0 .. n -> S] : Iterates(f, n, <<>>, g)
    BY <2>1, Iterated, Zenon
  <2> QED BY <2>2 DEF S, Iterates
<1>3. ASSUME NEW i \in 1 .. n
      PROVE  i - 1 \in 0 .. n /\ f[i - 1] \in Seq(A) /\ f[i] = f[i - 1] \o seqs[i]
  <2>1. i - 1 \in 0 .. n /\ f[i - 1] \in Seq(A) /\ f[i] = g[i][f[i - 1]]
    <3> HIDE DEF g
    <3> QED BY <1>2
  <2> QED BY <2>1
<1>4. ASSUME NEW i \in 0 .. n - 1 PROVE f[i + 1] = f[i] \o seqs[i + 1]
  <2>1. PICK j \in 1 .. n : j = i + 1 /\ j - 1 = i
    OBVIOUS
  <2>2. f[j] = f[j - 1] \o seqs[j]
    BY <1>3
  <2> QED BY <2>1, <2>2
<1>c. CASE n = 0
  <2>1. seqs = <<>> /\ n = 0
    BY <1>n, <1>c, EmptySeq
  <2>2. FlattenSeq(seqs) = <<>>
    BY <1>n, <2>1 DEF FlattenSeq
  <2> QED BY <1>n, <1>2, <1>4, <2>1, <2>2
<1>5. CASE n # 0
  <2> DEFINE Is(h) == h = [i \in 1 .. n |-> IF i = 1 THEN seqs[i] ELSE h[i - 1] \o seqs[i]]
             h == CHOOSE h : Is(h)
             k == [i \in 1 .. n |-> f[i]]
  <2>1. FlattenSeq(seqs) = h[n]
    BY <1>n, <1>5 DEF FlattenSeq
  <2>2. \A i \in 1 .. n : k[i] = IF i = 1 THEN seqs[i] ELSE k[i - 1] \o seqs[i]
    <3>1. f[1] = seqs[1]
      <4>1. 1 \in 1 .. n /\ seqs[1] \in Seq(A)
        BY <1>n, <1>5
      <4>2. \A i \in 1 .. n, j \in 0 .. n : j = i - 1 => f[i] = f[j] \o seqs[i]
        BY <1>3
      <4>3. f[1] = f[0] \o seqs[1]
        BY <4>1, <4>2
      <4>4. \A s \in Seq(A) : <<>> \o s = s
        OBVIOUS
      <4> QED BY <1>2, <4>1, <4>3, <4>4
    <3>2. \A i \in 1 .. n : i # 1 => i - 1 \in 1 .. n
      BY <1>1
    <3> QED BY <1>3, <3>1, <3>2
  <2>3. Is(h)
    <3>1. Is(k)
      BY <2>2
    <3> QED BY <3>1
  <2>h. \A i \in 1 .. n : h[i] = IF i = 1 THEN seqs[i] ELSE h[i - 1] \o seqs[i]
    <3> HIDE DEF h
    <3> QED BY <2>3
  <2>f. \A i \in 1 .. n : f[i] = IF i = 1 THEN seqs[i] ELSE f[i - 1] \o seqs[i]
    <3>1. \A i \in 1 .. n : i # 1 => i - 1 \in 1 .. n
      OBVIOUS
    <3> QED BY <2>2, <3>1
  <2> HIDE DEF h, Is
  <2> DEFINE T == {i \in 0 .. n : i # 0 => h[i] = f[i]}
  <2>4. \A i \in 0 .. n : i \in T
    <3>1. 0 \in T
      OBVIOUS
    <3>2. ASSUME NEW i \in 0 .. n - 1, i \in T PROVE i + 1 \in T
      <4>1. i + 1 \in 1 .. n /\ i + 1 # 0 /\ i + 1 - 1 = i /\ (i + 1 = 1 <=> i = 0)
        OBVIOUS
      <4>2. h[i + 1] = IF i + 1 = 1 THEN seqs[i + 1] ELSE h[i + 1 - 1] \o seqs[i + 1]
        BY <2>h, <4>1
      <4>3. f[i + 1] = IF i + 1 = 1 THEN seqs[i + 1] ELSE f[i + 1 - 1] \o seqs[i + 1]
        BY <2>f, <4>1
      <4>4. i # 0 => h[i] = f[i]
        BY <3>2
      <4>5. h[i + 1] = f[i + 1]
        BY <4>1, <4>2, <4>3, <4>4
      <4> QED BY <4>1, <4>5
    <3> HIDE DEF T
    <3> QED BY <3>1, <3>2, CountingUp
  <2>5. h[n] = f[n]
    <3>1. n \in T /\ n # 0
      BY <1>5, <2>4
    <3> QED BY <3>1
  <2> QED BY <1>n, <1>2, <1>4, <2>1, <2>5
<1> QED BY <1>n, <1>c, <1>5

------------------------------------------------------------------------------
(* Lists of addresses *)

\* SplitAddrs gives the pieces of every address of a list, and nothing else.
LEMMA SplitIsPieces ==
  ASSUME NEW list \in Seq(Address)
  PROVE  /\ SplitAddrs(list) \in Seq(Address)
         /\ ToSet(SplitAddrs(list)) = UNION {ToSet(Pieces[t]) : t \in ToSet(list)}
<1>n. PICK n \in Nat : n = Len(list) /\ DOMAIN list = 1 .. n
  OBVIOUS
<1> DEFINE seqs == [i \in DOMAIN list |-> Pieces[list[i]]]
<1>1. \A i \in 1 .. n : seqs[i] = Pieces[list[i]] /\ seqs[i] \in Seq(Address)
  BY <1>n, AddressAssumption
<1>2. seqs \in Seq(Seq(Address)) /\ Len(seqs) = n
  BY <1>n, <1>1
<1>3. SplitAddrs(list) = FlattenSeq(seqs)
  BY DEF SplitAddrs
<1> HIDE DEF seqs
<1>4. PICK f \in [0 .. n -> Seq(Address)] :
        /\ f[0] = <<>> /\ \A i \in 0 .. n - 1 : f[i + 1] = f[i] \o seqs[i + 1]
        /\ FlattenSeq(seqs) = f[n]
  BY <1>2, Flattened
<1> DEFINE Upto(i) == UNION {ToSet(Pieces[list[j]]) : j \in 1 .. i}
           T == {i \in 0 .. n : ToSet(f[i]) = Upto(i)}
<1>5. 0 \in T
  BY <1>4 DEF ToSet
<1>6. ASSUME NEW i \in 0 .. n - 1, i \in T PROVE i + 1 \in T
  <2>1. i \in 0 .. n /\ i + 1 \in 1 .. n /\ ToSet(f[i]) = Upto(i)
    BY <1>6
  <2>2. f[i + 1] = f[i] \o seqs[i + 1] /\ f[i] \in Seq(Address)
    BY <1>4, <2>1
  <2>3. ToSet(f[i + 1]) = ToSet(f[i]) \cup ToSet(seqs[i + 1])
    BY <1>1, <2>1, <2>2, Joined
  <2>4. Upto(i + 1) = Upto(i) \cup ToSet(Pieces[list[i + 1]])
    <3>1. 1 .. i + 1 = (1 .. i) \cup {i + 1}
      BY <2>1
    <3> QED BY <3>1
  <2>5. ToSet(f[i + 1]) = Upto(i + 1)
    <3> HIDE DEF Upto
    <3> QED BY <1>1, <2>1, <2>3, <2>4
  <2> QED BY <2>1, <2>5
<1>7. ToSet(f[n]) = Upto(n)
  <2> HIDE DEF T
  <2>1. \A i \in 0 .. n : i \in T
    BY <1>5, <1>6, CountingUp
  <2>2. n \in T
    BY <2>1
  <2> QED BY <2>2 DEF T
<1>8. Upto(n) = UNION {ToSet(Pieces[t]) : t \in ToSet(list)}
  <2>1. ToSet(list) = {list[j] : j \in 1 .. n}
    BY <1>n DEF ToSet
  <2>2. {ToSet(Pieces[list[j]]) : j \in 1 .. n} = {ToSet(Pieces[t]) : t \in ToSet(list)}
    BY <2>1
  <2> QED BY <2>2
<1>9. f[n] \in Seq(Address)
  OBVIOUS
<1> HIDE DEF Upto
<1> QED BY <1>3, <1>4, <1>7, <1>8, <1>9

\* A list of addr-specs is left as it is.
LEMMA SplitKeepsPlain ==
  ASSUME NEW list \in Seq(Plain)
  PROVE  SplitAddrs(list) = list
<1>n. PICK n \in Nat : n = Len(list) /\ DOMAIN list = 1 .. n
  OBVIOUS
<1> DEFINE seqs == [i \in DOMAIN list |-> Pieces[list[i]]]
<1>1. \A i \in 1 .. n : seqs[i] = <<list[i]>> /\ list[i] \in Plain
  BY <1>n, ReachAssumption
<1>2. seqs \in Seq(Seq(Plain)) /\ Len(seqs) = n
  <2>1. \A x \in Plain : <<x>> \in Seq(Plain)
    OBVIOUS
  <2>2. \A i \in 1 .. n : seqs[i] \in Seq(Plain)
    BY <1>1, <2>1
  <2> QED BY <1>n, <2>2
<1>3. SplitAddrs(list) = FlattenSeq(seqs)
  BY DEF SplitAddrs
<1> HIDE DEF seqs
<1>4. PICK f \in [0 .. n -> Seq(Plain)] :
        /\ f[0] = <<>> /\ \A i \in 0 .. n - 1 : f[i + 1] = f[i] \o seqs[i + 1]
        /\ FlattenSeq(seqs) = f[n]
  BY <1>2, Flattened
<1> DEFINE Same(i) == Len(f[i]) = i /\ \A j \in 1 .. i : f[i][j] = list[j]
           T == {i \in 0 .. n : Same(i)}
<1>5. 0 \in T
  BY <1>4
<1>6. ASSUME NEW i \in 0 .. n - 1, i \in T PROVE i + 1 \in T
  <2>1. i \in 0 .. n /\ i + 1 \in 1 .. n /\ Same(i) /\ f[i] \in Seq(Plain)
    BY <1>6
  <2>2. f[i + 1] = f[i] \o <<list[i + 1]>> /\ list[i + 1] \in Plain
    BY <1>1, <1>4, <2>1
  <2>3. Same(i + 1)
    BY <2>1, <2>2
  <2> QED BY <2>3
<1>7. Same(n)
  <2> HIDE DEF T
  <2>1. \A i \in 0 .. n : i \in T
    BY <1>5, <1>6, CountingUp
  <2>2. n \in T
    BY <2>1
  <2> QED BY <2>2 DEF T
<1>8. f[n] = list
  BY <1>n, <1>7
<1> QED BY <1>3, <1>4, <1>8

Listed(to, cc) == SplitAddrs(to) \o SplitAddrs(cc)

\* The loop of replyAllCc: what it has, after an address more of To and Cc.
Grows(s, t, self) ==
  IF NotSelf(t, self) /\ Unseen(s, t) THEN Append(s, t) ELSE s
Builds(f, n, all, self) ==
  f[0] = <<>> /\ \A i \in 0 .. n - 1 : f[i + 1] = Grows(f[i], all[i + 1], self)

LEMMA ReplyAllRuns ==
  ASSUME NEW to, NEW cc, NEW self, NEW all \in Seq(Address),
         all = Listed(to, cc), NEW n \in Nat, n = Len(all)
  PROVE  \E f \in [0 .. n -> Seq(Address)] :
           Builds(f, n, all, self) /\ replyAllCc(to, cc, self) = f[n]
<1> USE DEF Grows
<1>n. n = Len(all) /\ \A i \in 1 .. n : all[i] \in Address
  OBVIOUS
<1> DEFINE g == [i \in 1 .. n |-> [s \in Seq(Address) |-> Grows(s, all[i], self)]]
           S == Seq(Address)
<1>1. <<>> \in S /\ g \in [1 .. n -> [S -> S]]
  <2>1. \A s \in Seq(Address), t \in Address : Grows(s, t, self) \in Seq(Address)
    BY DEF Grows
  <2> QED BY <1>n, <2>1
<1>2. PICK f \in [0 .. n -> Seq(Address)] : Iterates(f, n, <<>>, g)
  <2> HIDE DEF g, S
  <2>1. \E f \in [0 .. n -> S] : Iterates(f, n, <<>>, g)
    BY <1>1, Iterated, Zenon
  <2> QED BY <2>1 DEF S
<1>3. f[0] = <<>>
  BY <1>2 DEF Iterates
<1>4. ASSUME NEW i \in 1 .. n
      PROVE  i - 1 \in 0 .. n /\ f[i] = Grows(f[i - 1], all[i], self)
  <2>1. i - 1 \in 0 .. n /\ f[i - 1] \in Seq(Address)
    OBVIOUS
  <2>2. f[i] = g[i][f[i - 1]]
    <3> HIDE DEF g
    <3> QED BY <1>2, Zenon DEF Iterates
  <2>3. \A s \in Seq(Address) : g[i][s] = Grows(s, all[i], self)
    <3> HIDE DEF Grows
    <3> QED BY Zenon
  <2> HIDE DEF g, Grows
  <2> QED BY <2>1, <2>2, <2>3, Zenon
<1>5. ASSUME NEW i \in 0 .. n - 1 PROVE f[i + 1] = Grows(f[i], all[i + 1], self)
  <2>1. PICK j \in 1 .. n : j = i + 1 /\ j - 1 = i
    OBVIOUS
  <2>2. f[j] = Grows(f[j - 1], all[j], self)
    BY <1>4
  <2> QED BY <2>1, <2>2
<1> DEFINE Is(h) == h = [i \in 0 .. n |-> IF i = 0 THEN <<>>
                                         ELSE Grows(h[i - 1], all[i], self)]
           h == CHOOSE h : Is(h)
<1>6. replyAllCc(to, cc, self) = h[n]
  BY <1>n DEF replyAllCc, Grows, Listed
<1>7. Is(h)
  <2>1. \A i \in 0 .. n : f[i] = IF i = 0 THEN <<>> ELSE Grows(f[i - 1], all[i], self)
    <3>1. ASSUME NEW i \in 0 .. n, i # 0 PROVE i \in 1 .. n
      BY <3>1
    <3> HIDE DEF Grows
    <3> QED BY <1>3, <1>4, <3>1, Zenon
  <2>2. Is(f)
    <3>1. f = [i \in 0 .. n |-> f[i]]
      BY Zenon
    <3> HIDE DEF Grows
    <3> QED BY <2>1, <3>1, Zenon
  <2> QED BY <2>2
<1> HIDE DEF h
<1>8. /\ h[0] = <<>>
      /\ \A i \in 1 .. n : h[i] = Grows(h[i - 1], all[i], self)
  <2>1. 0 \in 0 .. n /\ \A i \in 1 .. n : i \in 0 .. n /\ i # 0
    OBVIOUS
  <2>2. \A i \in 0 .. n : h[i] = IF i = 0 THEN <<>> ELSE Grows(h[i - 1], all[i], self)
    <3> HIDE DEF Grows
    <3> QED BY <1>7, Zenon
  <2>3. h[0] = <<>>
    BY <2>1, <2>2
  <2>4. ASSUME NEW i \in 1 .. n PROVE h[i] = Grows(h[i - 1], all[i], self)
    <3> HIDE DEF Grows
    <3> QED BY <2>1, <2>2, Zenon
  <2> QED BY <2>3, <2>4
<1> HIDE DEF Is
<1> DEFINE T == {i \in 0 .. n : h[i] = f[i]}
<1>9. \A i \in 0 .. n : i \in T
  <2>1. 0 \in T
    BY <1>3, <1>8
  <2>2. ASSUME NEW i \in 0 .. n - 1, i \in T PROVE i + 1 \in T
    <3>1. PICK j \in 1 .. n : j = i + 1 /\ j - 1 = i
      OBVIOUS
    <3>2. h[j] = Grows(h[j - 1], all[j], self) /\ f[j] = Grows(f[j - 1], all[j], self)
      BY <1>4, <1>8
    <3>3. h[i] = f[i]
      BY <2>2
    <3>4. h[i + 1] = f[i + 1] /\ i + 1 \in 0 .. n
      <4>1. i + 1 \in 0 .. n
        OBVIOUS
      <4> HIDE DEF Grows
      <4>2. h[j] = f[j]
        BY <3>1, <3>2, <3>3, Zenon
      <4> QED BY <3>1, <4>1, <4>2, Zenon
    <3> QED BY <3>4
  <2> HIDE DEF T
  <2> QED BY <2>1, <2>2, CountingUp
<1>10. h[n] = f[n]
  BY <1>9
<1>11. Builds(f, n, all, self)
  <2> HIDE DEF Grows
  <2> QED BY <1>3, <1>5, Zenon DEF Builds
<1> QED BY <1>6, <1>10, <1>11

\* Cc of an answer to all has addresses of To and Cc only, all of them but those of
\* the user, and each in one spelling.
LEMMA ReplyAllReaches ==
  ASSUME NEW to, NEW cc, NEW self, NEW all \in Seq(Address),
         all = Listed(to, cc), NEW out, out = replyAllCc(to, cc, self)
  PROVE  /\ out \in Seq(Address)
         /\ ToSet(out) \subseteq ToSet(all)
         /\ \A t \in ToSet(all) :
              NotSelf(t, self) => \E u \in ToSet(out) : Lower[u] = Lower[t]
         /\ \A u \in ToSet(out) : NotSelf(u, self)
         /\ \A i, j \in DOMAIN out : Lower[out[i]] = Lower[out[j]] => i = j
<1>n. PICK n \in Nat : n = Len(all) /\ DOMAIN all = 1 .. n
  OBVIOUS
<1>1. PICK f \in [0 .. n -> Seq(Address)] :
        /\ f[0] = <<>>
        /\ \A i \in 0 .. n - 1 : f[i + 1] = Grows(f[i], all[i + 1], self)
        /\ out = f[n]
  <2>1. \E f \in [0 .. n -> Seq(Address)] :
          Builds(f, n, all, self) /\ replyAllCc(to, cc, self) = f[n]
    BY <1>n, ReplyAllRuns
  <2> QED BY <2>1, Zenon DEF Builds
<1> DEFINE Good(s, i) ==
             /\ ToSet(s) \subseteq {all[k] : k \in 1 .. i}
             /\ \A k \in 1 .. i :
                  NotSelf(all[k], self) => \E u \in ToSet(s) : Lower[u] = Lower[all[k]]
             /\ \A u \in ToSet(s) : NotSelf(u, self)
             /\ \A k, j \in DOMAIN s : Lower[s[k]] = Lower[s[j]] => k = j
           T == {i \in 0 .. n : Good(f[i], i)}
<1>2. 0 \in T
  <2>1. ToSet(f[0]) = {} /\ DOMAIN f[0] = {}
    BY <1>1 DEF ToSet
  <2>2. Good(f[0], 0)
    BY <2>1
  <2> QED BY <2>2
<1>3. ASSUME NEW i \in 0 .. n - 1, i \in T PROVE i + 1 \in T
  <2> DEFINE s == f[i]  t == all[i + 1]
  <2>1. s \in Seq(Address) /\ t \in Address /\ f[i + 1] = Grows(s, t, self)
    <3>1. s \in Seq(Address) /\ t \in Address
      <4>1. i \in 0 .. n /\ i + 1 \in 1 .. n
        OBVIOUS
      <4> QED BY <1>n, <4>1
    <3> QED BY <1>1, <3>1, Zenon
  <2>2. Good(s, i)
    BY <1>3
  <2>3. {all[k] : k \in 1 .. i + 1} = {all[k] : k \in 1 .. i} \cup {t}
    <3>1. 1 .. i + 1 = (1 .. i) \cup {i + 1}
      OBVIOUS
    <3> QED BY <3>1
  <2>4. ASSUME NEW k \in 1 .. i + 1 PROVE k \in 1 .. i \/ all[k] = t
    <3>1. k \in 1 .. i \/ k = i + 1
      OBVIOUS
    <3> QED BY <3>1
  <2>5. ASSUME ~ (NotSelf(t, self) /\ Unseen(s, t)) PROVE Good(f[i + 1], i + 1)
    <3>1. f[i + 1] = s
      BY <2>1, <2>5 DEF Grows
    <3>2. NotSelf(t, self) => \E u \in ToSet(s) : Lower[u] = Lower[t]
      BY <2>5 DEF Unseen
    <3> HIDE DEF s, t
    <3> QED BY <2>2, <2>3, <2>4, <3>1, <3>2
  <2>6. ASSUME NotSelf(t, self), Unseen(s, t) PROVE Good(f[i + 1], i + 1)
    <3> DEFINE r == f[i + 1]
    <3>1. r = Append(s, t)
      BY <2>1, <2>6 DEF Grows
    <3> HIDE DEF r, s, t
    <3>2. /\ r \in Seq(Address) /\ ToSet(r) = ToSet(s) \cup {t}
          /\ r[Len(s) + 1] = t /\ \A k \in DOMAIN s : r[k] = s[k]
          /\ DOMAIN r = DOMAIN s \cup {Len(s) + 1}
      <4>1. s \in Seq(Address) /\ t \in Address
        BY <2>1
      <4> QED BY <3>1, <4>1, Appended
    <3>4. \A k \in DOMAIN s : s[k] \in ToSet(s)
      BY DEF ToSet
    <3>5. \A k \in DOMAIN s : Lower[r[k]] # Lower[r[Len(s) + 1]]
      BY <2>6, <3>2, <3>4 DEF Unseen
    <3>6. \A k, j \in DOMAIN r : Lower[r[k]] = Lower[r[j]] => k = j
      BY <2>2, <3>2, <3>5
    <3> QED BY <2>2, <2>3, <2>4, <2>6, <3>2, <3>6 DEF r
  <2>7. Good(f[i + 1], i + 1)
    BY <2>5, <2>6
  <2>8. i + 1 \in 0 .. n
    OBVIOUS
  <2> HIDE DEF Good
  <2> QED BY <2>7, <2>8, Zenon
<1>4. Good(f[n], n)
  <2> HIDE DEF T
  <2>1. \A i \in 0 .. n : i \in T
    BY <1>2, <1>3, CountingUp
  <2>2. n \in T
    BY <2>1
  <2> QED BY <2>2 DEF T
<1>5. ToSet(all) = {all[k] : k \in 1 .. n}
  BY <1>n DEF ToSet
<1>6. f[n] \in Seq(Address)
  OBVIOUS
<1>7. out \in Seq(Address) /\ Good(out, n)
  <2> HIDE DEF Good
  <2> QED BY <1>1, <1>4, <1>6, Zenon
<1>8. ASSUME NEW t \in ToSet(all), NotSelf(t, self)
      PROVE  \E u \in ToSet(out) : Lower[u] = Lower[t]
  <2>1. PICK k \in 1 .. n : t = all[k]
    BY <1>5
  <2> QED BY <1>7, <1>8, <2>1
<1> QED BY <1>5, <1>7, <1>8

------------------------------------------------------------------------------
(* Who a list of addresses reaches *)

\* Splitting a list, or putting it in a header, reaches nobody else.
LEMMA SplitReaches ==
  ASSUME NEW list \in Seq(Address)
  PROVE  /\ SplitAddrs(list) \in Seq(Address)
         /\ Reaches(SplitAddrs(list)) \subseteq Reaches(list) \cup {Nobody}
<1>1. SplitAddrs(list) \in Seq(Address)
  BY SplitIsPieces
<1>2. ASSUME NEW t \in ToSet(SplitAddrs(list)) PROVE Who[t] \in Reaches(list) \cup {Nobody}
  <2>1. PICK u \in ToSet(list) : t \in ToSet(Pieces[u])
    BY SplitIsPieces
  <2>2. u \in Address
    BY DEF ToSet
  <2>3. Who[t] \in {Who[u], Nobody}
    BY <2>1, <2>2, ReachAssumption
  <2> QED BY <2>1, <2>3 DEF Reaches
<1> QED BY <1>1, <1>2 DEF Reaches

LEMMA HeaderReaches ==
  ASSUME NEW list \in Seq(Address)
  PROVE  /\ InHeader(list) \in Seq(Address)
         /\ Reaches(InHeader(list)) \subseteq Reaches(list) \cup {Nobody}
<1>1. /\ InHeader(list) \in Seq(Address) /\ DOMAIN InHeader(list) = DOMAIN list
      /\ \A i \in DOMAIN list : InHeader(list)[i] = Written[list[i]]
  <2>1. PICK n \in Nat : n = Len(list) /\ DOMAIN list = 1 .. n
    OBVIOUS
  <2>2. \A i \in 1 .. n : Written[list[i]] \in Address
    BY <2>1, AddressAssumption
  <2> QED BY <2>1, <2>2 DEF InHeader
<1>2. ASSUME NEW i \in DOMAIN list
      PROVE  Who[InHeader(list)[i]] \in Reaches(list) \cup {Nobody}
  <2>1. list[i] \in Address /\ list[i] \in ToSet(list)
    BY DEF ToSet
  <2>2. Who[Written[list[i]]] \in {Who[list[i]], Nobody}
    BY <2>1, ReachAssumption
  <2> QED BY <1>1, <2>1, <2>2 DEF Reaches
<1> QED BY <1>1, <1>2 DEF Reaches, ToSet

LEMMA JoinReaches ==
  ASSUME NEW s \in Seq(Address), NEW t \in Seq(Address)
  PROVE  s \o t \in Seq(Address) /\ Reaches(s \o t) = Reaches(s) \cup Reaches(t)
<1>1. s \o t \in Seq(Address) /\ ToSet(s \o t) = ToSet(s) \cup ToSet(t)
  BY Joined
<1> QED BY <1>1 DEF Reaches

LEMMA ListedReaches ==
  ASSUME NEW to \in Seq(Address), NEW cc \in Seq(Address)
  PROVE  /\ Listed(to, cc) \in Seq(Address)
         /\ Reaches(Listed(to, cc)) \subseteq Reaches(to) \cup Reaches(cc) \cup {Nobody}
<1>1. /\ SplitAddrs(to) \in Seq(Address) /\ SplitAddrs(cc) \in Seq(Address)
      /\ Reaches(SplitAddrs(to)) \subseteq Reaches(to) \cup {Nobody}
      /\ Reaches(SplitAddrs(cc)) \subseteq Reaches(cc) \cup {Nobody}
  BY SplitReaches
<1>2. /\ Listed(to, cc) \in Seq(Address)
      /\ Reaches(Listed(to, cc)) = Reaches(SplitAddrs(to)) \cup Reaches(SplitAddrs(cc))
  BY <1>1, JoinReaches DEF Listed
<1> QED BY <1>1, <1>2

LEMMA ReplyAllStays ==
  ASSUME NEW to \in Seq(Address), NEW cc \in Seq(Address), NEW self
  PROVE  /\ replyAllCc(to, cc, self) \in Seq(Address)
         /\ Reaches(replyAllCc(to, cc, self)) \subseteq Reaches(to) \cup Reaches(cc) \cup {Nobody}
<1>1. /\ Listed(to, cc) \in Seq(Address)
      /\ Reaches(Listed(to, cc)) \subseteq Reaches(to) \cup Reaches(cc) \cup {Nobody}
  BY ListedReaches
<1>2. /\ replyAllCc(to, cc, self) \in Seq(Address)
      /\ ToSet(replyAllCc(to, cc, self)) \subseteq ToSet(Listed(to, cc))
  BY <1>1, ReplyAllReaches
<1> QED BY <1>1, <1>2 DEF Reaches

\* The addresses that a correspondent answers to.
LEMMA ListOfSet ==
  ASSUME NEW list \in Seq(Address), NEW S \in SUBSET ToSet(list)
  PROVE  SetToSeq(S) \in Seq(Address) /\ ToSet(SetToSeq(S)) \subseteq S
<1>n. PICK n \in Nat : n = Len(list) /\ DOMAIN list = 1 .. n
  OBVIOUS
<1>1. IsFiniteSet(ToSet(list))
  <2>1. list \in Surjection(1 .. n, ToSet(list))
    BY <1>n DEF Surjection, ToSet
  <2> QED BY <2>1, FS_NatSurjection DEF ExistsSurjection
<1>2. IsFiniteSet(S)
  BY <1>1, FS_Subset
<1>3. Cardinality(S) \in Nat /\ ExistsBijection(1 .. Cardinality(S), S)
  BY <1>2, FS_CardinalityType
<1> DEFINE c == Cardinality(S)
<1>4. \E f \in [1 .. c -> S] : IsInjective(f)
  BY <1>3 DEF ExistsBijection, Bijection, Injection, IsInjective
<1>5. SetToSeq(S) \in [1 .. c -> S]
  BY <1>4 DEF SetToSeq
<1>6. S \subseteq Address
  BY DEF ToSet
<1> HIDE DEF c
<1>7. c \in Nat
  BY <1>3 DEF c
<1> QED BY <1>5, <1>6, <1>7 DEF ToSet

------------------------------------------------------------------------------
(* The invariant *)

\* What message q, at place p, gives to its answers.
NamedIn(q) == {Who[q.from]} \cup Reaches(q.to) \cup Reaches(q.cc)
IdOf(p, q) == IF q.hasID THEN <<p>> ELSE <<>>
ReferencesOf(p, q) == q.references \o IdOf(p, q)

\* Whom an answer to it may name; p is 0 for a message that answers nothing.
Nameable(p, q) == Public \cup (IF p = 0 THEN {} ELSE NamedIn(q))

\* The lists of an answer to all of it.
ToEveryone(to, cc, envelope, q, self) ==
  LET first == SplitAddrs(<<q.from>>)
      rest == SplitAddrs(replyAllCc(q.to, q.cc, self))
  IN  /\ to = InHeader(first) /\ cc = InHeader(rest)
      /\ ToSet(first) \cup ToSet(rest) \subseteq ToSet(envelope)

\* What message m keeps of q, which it answers.
Follows(m, q) ==
  LET p == m.parent  alone == p = 0 \/ m.by = "tui" IN
  /\ m.references = IF alone THEN <<>> ELSE ReferencesOf(p, q)
  /\ m.irt = IF alone THEN <<>> ELSE IdOf(p, q)
  /\ m.re = 1 <=> p # 0
  /\ NamedIn(m) \subseteq {Who[m.from]} \cup Nameable(p, q)
  /\ m.by # "other" /\ m.all =>
       /\ p # 0 /\ m.from \in Selves \ {None}
       /\ ToEveryone(m.to, m.cc, m.envelope, q, m.from)
Kept(n) == mail[n].parent \in 0 .. n - 1 /\ Follows(mail[n], mail[mail[n].parent])
AllKept == \A n \in DOMAIN mail : Kept(n)

\* What is being written agrees with q, which it answers.
Agrees(d, q) ==
  LET o == d.opts  p == d.parent IN
  /\ d.by = "send" => p = 0
  /\ d.by = "reply" => p # 0
  /\ d.at = "open" => d.by = "reply"
  /\ d.at \in {"transmit", "detect"} => o.from # None
  /\ Reaches(o.to) \cup Reaches(o.cc) \subseteq Nameable(p, q)
  /\ d.at # "open" =>
       /\ o.re = 1 <=> p # 0
       /\ o.irt = IF d.by = "reply" THEN IdOf(p, q) ELSE <<>>
       /\ o.references = IF d.by = "reply" THEN ReferencesOf(p, q) ELSE <<>>
  /\ o.all => /\ p # 0 /\ d.by # "send"
              /\ o.to = <<q.from>>
              /\ o.cc = replyAllCc(q.to, q.cc, o.from)
Drafted == cmd # Idle => Agrees(cmd, mail[cmd.parent])

IInv == TypeOK /\ AllKept /\ Drafted

------------------------------------------------------------------------------
(* What follows from it *)

\* An answer to all of a message with plain addresses: everyone is in the envelope
\* and in the header, the user is not, and nobody is in Cc twice.
LEMMA EveryoneOnce ==
  ASSUME NEW p \in MessageType, NEW self \in Selves \ {None},
         {p.from} \cup ToSet(p.to) \cup ToSet(p.cc) \subseteq Plain,
         NEW to, NEW cc, NEW envelope, ToEveryone(to, cc, envelope, p, self)
  PROVE  LET named == {Who[p.from]} \cup Reaches(p.to) \cup Reaches(p.cc) IN
         /\ named \ {Me} \subseteq Reaches(envelope)
         /\ named \cup {Me} = {Who[self]} \cup Reaches(to) \cup Reaches(cc)
         /\ Me \in Reaches(to) \cup Reaches(cc) => Who[p.from] = Me
         /\ \A i, j \in DOMAIN cc : Who[cc[i]] = Who[cc[j]] => i = j
<1> DEFINE all == p.to \o p.cc
           out == replyAllCc(p.to, p.cc, self)
<1>1. p.from \in Plain /\ p.to \in Seq(Plain) /\ p.cc \in Seq(Plain)
  <2>1. p.to \in Seq(Address) /\ p.cc \in Seq(Address)
    BY DEF MessageType, Lists
  <2> QED BY <2>1 DEF ToSet
<1>2. /\ all \in Seq(Plain) /\ ToSet(all) = ToSet(p.to) \cup ToSet(p.cc)
      /\ all = Listed(p.to, p.cc)
  BY <1>1, Joined, SplitKeepsPlain DEF Listed
<1> HIDE DEF all
<1>3. Plain \subseteq Address /\ all \in Seq(Address)
  <2>1. Plain \subseteq Address
    BY AddressAssumption
  <2> QED BY <1>2, <2>1
<1>4. /\ out \in Seq(Address) /\ ToSet(out) \subseteq ToSet(all)
      /\ \A t \in ToSet(all) :
           NotSelf(t, self) => \E u \in ToSet(out) : Lower[u] = Lower[t]
      /\ \A u \in ToSet(out) : NotSelf(u, self)
      /\ \A i, j \in DOMAIN out : Lower[out[i]] = Lower[out[j]] => i = j
  BY <1>2, <1>3, ReplyAllReaches
<1> HIDE DEF out
<1>5. ToSet(all) \subseteq Plain /\ ToSet(out) \subseteq Plain
  BY <1>2, <1>4 DEF ToSet
<1>6. out \in Seq(Plain)
  BY <1>4, <1>5 DEF ToSet
<1>7. /\ SplitAddrs(<<p.from>>) = <<p.from>> /\ SplitAddrs(out) = out
      /\ <<p.from>> \in Seq(Plain)
  <2>1. <<p.from>> \in Seq(Plain)
    BY <1>1
  <2> QED BY <1>6, <2>1, SplitKeepsPlain
<1>8. \A list \in Seq(Plain) : InHeader(list) = list
  BY AddressAssumption DEF InHeader
<1>9. /\ to = <<p.from>> /\ cc = out
      /\ ToSet(to) \cup ToSet(out) \subseteq ToSet(envelope) /\ ToSet(to) = {p.from}
  <2>1. /\ to = <<p.from>> /\ cc = out
        /\ ToSet(<<p.from>>) \cup ToSet(out) \subseteq ToSet(envelope)
    BY <1>6, <1>7, <1>8 DEF ToEveryone, out
  <2> QED BY <2>1 DEF ToSet
<1>10. /\ self \in Plain /\ Who[self] = Me
       /\ \A t \in Plain : NotSelf(t, self) <=> Who[t] # Me
  <2>1. self \in Plain /\ Who[self] = Me /\ self # None
    BY ReachAssumption
  <2> QED BY <2>1, ReachAssumption DEF NotSelf
<1>11. \A t \in ToSet(all) : Who[t] # Me => Who[t] \in Reaches(out)
  <2> SUFFICES ASSUME NEW t \in ToSet(all), Who[t] # Me PROVE Who[t] \in Reaches(out)
    OBVIOUS
  <2>1. PICK u \in ToSet(out) : Lower[u] = Lower[t]
    BY <1>4, <1>5, <1>10
  <2>2. Who[u] = Who[t]
    BY <1>5, <2>1, ReachAssumption
  <2> QED BY <2>2 DEF Reaches
<1>12. Reaches(out) \subseteq Reaches(p.to) \cup Reaches(p.cc) /\ Me \notin Reaches(out)
  <2>1. \A u \in ToSet(out) : Who[u] # Me /\ u \in ToSet(p.to) \cup ToSet(p.cc)
    BY <1>2, <1>4, <1>5, <1>10
  <2> QED BY <2>1 DEF Reaches
<1>13. Reaches(to) = {Who[p.from]}
  BY <1>9 DEF Reaches
<1>14. Reaches(to) \cup Reaches(out) \subseteq Reaches(envelope)
  BY <1>9 DEF Reaches
<1>15. (Reaches(p.to) \cup Reaches(p.cc)) \ {Me} \subseteq Reaches(out)
  BY <1>2, <1>11 DEF Reaches
<1>16. ASSUME NEW i \in DOMAIN out, NEW j \in DOMAIN out, Who[out[i]] = Who[out[j]]
       PROVE  i = j
  <2>1. out[i] \in Plain /\ out[j] \in Plain
    BY <1>6
  <2>2. Lower[out[i]] = Lower[out[j]]
    BY <1>16, <2>1, ReachAssumption
  <2> QED BY <1>4, <2>2
<1> QED BY <1>9, <1>10, <1>12, <1>13, <1>14, <1>15, <1>16

LEMMA AnswersFollow ==
  ASSUME TypeOK, AllKept PROVE AnswerReachesEveryone
<1> SUFFICES ASSUME NEW n \in DOMAIN mail, mail[n].by # "other", mail[n].all,
                    {mail[mail[n].parent].from} \cup ToSet(mail[mail[n].parent].to)
                      \cup ToSet(mail[mail[n].parent].cc) \subseteq Plain
             PROVE  /\ Named(mail[n].parent) \ {Me} \subseteq Reaches(mail[n].envelope)
                    /\ Named(mail[n].parent) \cup {Me} = Named(n)
                    /\ Me \in Reaches(mail[n].to) \cup Reaches(mail[n].cc)
                         => Who[mail[mail[n].parent].from] = Me
                    /\ \A i, j \in DOMAIN mail[n].cc :
                         Who[mail[n].cc[i]] = Who[mail[n].cc[j]] => i = j
  BY DEF AnswerReachesEveryone
<1> DEFINE m == mail[n]  p == mail[m.parent]
<1>1. /\ m.parent \in 0 .. n - 1 /\ m.parent # 0 /\ m.from \in Selves \ {None}
      /\ ToEveryone(m.to, m.cc, m.envelope, p, m.from)
  BY DEF AllKept, Kept, Follows
<1>2. p \in MessageType
  BY <1>1 DEF TypeOK
<1> HIDE DEF m, p
<1>3. {p.from} \cup ToSet(p.to) \cup ToSet(p.cc) \subseteq Plain
  BY DEF m, p
<1>4. LET named == {Who[p.from]} \cup Reaches(p.to) \cup Reaches(p.cc) IN
         /\ named \ {Me} \subseteq Reaches(m.envelope)
         /\ named \cup {Me} = {Who[m.from]} \cup Reaches(m.to) \cup Reaches(m.cc)
         /\ Me \in Reaches(m.to) \cup Reaches(m.cc) => Who[p.from] = Me
         /\ \A i, j \in DOMAIN m.cc : Who[m.cc[i]] = Who[m.cc[j]] => i = j
  BY <1>1, <1>2, <1>3, EveryoneOnce
<1> QED BY <1>4 DEF Named, m, p

\* The thread of a message is what it and the messages before it say it is.
LEMMA ThreadsFollow ==
  ASSUME TypeOK, AllKept PROVE ThreadIsWhole
<1>n. PICK N \in Nat : N = Len(mail) /\ DOMAIN mail = 1 .. N
  BY DEF TypeOK
<1>1. ASSUME NEW n \in 1 .. N
      PROVE  /\ Answered(n) \in 0 .. n - 1
             /\ mail[n].references = IF Answered(n) = 0 THEN <<>> ELSE References(Answered(n))
             /\ mail[n].irt = IF Answered(n) = 0 THEN <<>> ELSE ID(Answered(n))
             /\ mail[n].re = 1 <=> mail[n].parent # 0
  <2>1. \A p : ID(p) = IdOf(p, mail[p]) /\ References(p) = ReferencesOf(p, mail[p])
    BY DEF ID, IdOf, References, ReferencesOf
  <2> QED BY <1>n, <2>1 DEF AllKept, Kept, Follows, Answered
<1> DEFINE f == [n \in 0 .. N |-> IF n = 0 THEN <<>> ELSE References(n)]
           Is(h) == h = [n \in 0 .. N |-> IF n = 0 THEN <<>> ELSE h[Answered(n)] \o ID(n)]
           h == CHOOSE h : Is(h)
<1>2. Thread = h
  BY <1>n DEF Thread
<1>3. f[0] = <<>> /\ \A n \in 1 .. N : f[n] = References(n)
  OBVIOUS
<1>4. ASSUME NEW n \in 1 .. N PROVE f[n] = f[Answered(n)] \o ID(n)
  <2>1. f[n] = mail[n].references \o ID(n)
    BY <1>3 DEF References
  <2>2. f[Answered(n)] = mail[n].references
    <3>1. Answered(n) = 0 \/ Answered(n) \in 1 .. N
      BY <1>1
    <3> HIDE DEF f
    <3> QED BY <1>1, <1>3, <3>1
  <2> HIDE DEF f
  <2> QED BY <2>1, <2>2, Zenon
<1>5. Is(h)
  <2>1. Is(f)
    <3>1. ASSUME NEW n \in 0 .. N, n # 0 PROVE n \in 1 .. N
      BY <3>1
    <3>2. \A n \in 0 .. N : f[n] = IF n = 0 THEN <<>> ELSE f[Answered(n)] \o ID(n)
      <4> HIDE DEF f
      <4> QED BY <1>3, <1>4, <3>1, Zenon
    <3>3. f = [n \in 0 .. N |-> f[n]]
      BY Zenon
    <3> HIDE DEF f
    <3> QED BY <3>2, <3>3, Zenon
  <2> QED BY <2>1
<1> HIDE DEF h
<1>6. h[0] = <<>> /\ \A n \in 1 .. N : h[n] = h[Answered(n)] \o ID(n)
  <2>1. 0 \in 0 .. N /\ \A n \in 1 .. N : n \in 0 .. N /\ n # 0
    OBVIOUS
  <2> QED BY <1>5, <2>1, Zenon
<1> HIDE DEF f, Is
<1> DEFINE T == {k \in 0 .. N : \A j \in 0 .. k : h[j] = f[j]}
<1>7. \A k \in 0 .. N : k \in T
  <2>1. 0 \in T
    BY <1>3, <1>6
  <2>2. ASSUME NEW k \in 0 .. N - 1, k \in T PROVE k + 1 \in T
    <3>1. k + 1 \in 1 .. N /\ Answered(k + 1) \in 0 .. k
      BY <1>1
    <3>2. h[Answered(k + 1)] = f[Answered(k + 1)]
      BY <2>2, <3>1
    <3>3. h[k + 1] = f[k + 1]
      BY <1>4, <1>6, <3>1, <3>2, Zenon
    <3> QED BY <2>2, <3>1, <3>3
  <2> HIDE DEF T
  <2> QED BY <2>1, <2>2, CountingUp
<1>8. \A n \in 0 .. N : h[n] = f[n]
  <2>1. N \in T
    BY <1>7
  <2> QED BY <2>1
<1>9. ASSUME NEW n \in 1 .. N PROVE mail[n].references = Thread[Answered(n)]
  <2>1. /\ Answered(n) \in 0 .. N
        /\ Answered(n) # 0 => Answered(n) \in 1 .. N
    BY <1>1
  <2>2. Thread[Answered(n)] = f[Answered(n)]
    BY <1>2, <1>8, <2>1
  <2>3. f[Answered(n)] = mail[n].references
    BY <1>1, <1>3, <2>1
  <2> QED BY <2>2, <2>3
<1> QED BY <1>n, <1>1, <1>9 DEF ThreadIsWhole

\* The path to a message goes through the one it answers.
LEMMA PathIs ==
  ASSUME TypeOK, AllKept
  PROVE  \A n \in DOMAIN mail :
           Path[n] = (IF mail[n].parent = 0 THEN {} ELSE Path[mail[n].parent]) \cup {n}
<1>n. PICK N \in Nat : N = Len(mail) /\ DOMAIN mail = 1 .. N
  BY DEF TypeOK
<1>1. \A n \in 1 .. N : mail[n].parent \in 0 .. n - 1
  BY <1>n DEF AllKept, Kept
<1> DEFINE Walk(h, n) == IF n = 0 THEN {} ELSE h[mail[n].parent] \cup {n}
           Is(h, k) == h = [n \in 0 .. k |-> Walk(h, n)]
           path == CHOOSE h : Is(h, N)
           T == {k \in 0 .. N : \E h : Is(h, k)}
<1>2. Path = path
  BY <1>n DEF Path
<1>3. \E h : Is(h, 0)
  <2> DEFINE h == [n \in 0 .. 0 |-> {}]
  <2>1. \A n \in 0 .. 0 : Walk(h, n) = {}
    OBVIOUS
  <2>2. h = [n \in 0 .. 0 |-> Walk(h, n)]
    <3> HIDE DEF Walk
    <3> QED BY <2>1
  <2> HIDE DEF h, Walk
  <2> QED BY <2>2, Zenon
<1>4. ASSUME NEW k \in 0 .. N - 1, NEW h, Is(h, k) PROVE \E g : Is(g, k + 1)
  <2> DEFINE g == [n \in 0 .. k + 1 |-> Walk(h, n)]
  <2>1. \A n \in 0 .. k : n \in 0 .. k + 1
    OBVIOUS
  <2>2. \A n \in 0 .. k + 1 : g[n] = Walk(h, n)
    BY Zenon
  <2>3. \A n \in 0 .. k : h[n] = Walk(h, n)
    <3> HIDE DEF Walk
    <3> QED BY <1>4, Zenon
  <2> HIDE DEF g
  <2>4. \A n \in 0 .. k : g[n] = h[n]
    <3> HIDE DEF Walk
    <3> QED BY <2>1, <2>2, <2>3, Zenon
  <2>5. \A n \in 0 .. k + 1 : n # 0 => mail[n].parent \in 0 .. k
    BY <1>1
  <2>6. \A n \in 0 .. k + 1 : Walk(h, n) = Walk(g, n)
    BY <2>4, <2>5, Zenon
  <2>7. g = [n \in 0 .. k + 1 |-> Walk(g, n)]
    <3>1. g = [n \in 0 .. k + 1 |-> Walk(h, n)]
      BY Zenon DEF g
    <3> HIDE DEF Walk
    <3> QED BY <2>6, <3>1, Zenon
  <2> HIDE DEF Walk
  <2> QED BY <2>7, Zenon
<1>5. Is(path, N)
  <2> HIDE DEF Is
  <2>1. 0 \in T
    BY <1>3
  <2>2. \A k \in 0 .. N - 1 : k \in T => k + 1 \in T
    BY <1>4
  <2> HIDE DEF T
  <2>3. N \in T
    BY <2>1, <2>2, CountingUp
  <2> QED BY <2>3 DEF T
<1> HIDE DEF path
<1>6. path[0] = {} /\ \A n \in 1 .. N : path[n] = path[mail[n].parent] \cup {n}
  <2>1. 0 \in 0 .. N /\ \A n \in 1 .. N : n \in 0 .. N /\ n # 0
    OBVIOUS
  <2> QED BY <1>5, <2>1, Zenon
<1> QED BY <1>n, <1>1, <1>2, <1>6

LEMMA BlindFollows ==
  ASSUME TypeOK, AllKept PROVE BlindStaysBlind
<1>n. PICK N \in Nat : N = Len(mail) /\ DOMAIN mail = 1 .. N
  BY DEF TypeOK
<1>1. ASSUME NEW n \in 1 .. N
      PROVE  /\ mail[n].parent \in 0 .. n - 1
             /\ Named(n) \subseteq {Who[mail[n].from]}
                             \cup Nameable(mail[n].parent, mail[mail[n].parent])
  BY <1>n DEF AllKept, Kept, Follows, Named, NamedIn
<1> DEFINE Blind(n) == \A p \in Hidden :
                         p \in Named(n) => \E e \in Path[n] : Who[mail[e].from] = p
           T == {k \in 0 .. N : \A n \in 1 .. k : Blind(n)}
<1>2. 0 \in T
  OBVIOUS
<1>3. ASSUME NEW k \in 0 .. N - 1, k \in T PROVE k + 1 \in T
  <2> DEFINE n == k + 1  q == mail[n].parent
  <2>1. n \in 1 .. N /\ q \in 0 .. k
    BY <1>1
  <2>2. Path[n] = (IF q = 0 THEN {} ELSE Path[q]) \cup {n}
    BY <1>n, <2>1, PathIs
  <2>3. ASSUME NEW p \in Hidden, p \in Named(n) PROVE \E e \in Path[n] : Who[mail[e].from] = p
    <3>1. p \notin Public
      BY DEF Hidden
    <3>2. CASE p = Who[mail[n].from]
      BY <2>2, <3>2
    <3>3. CASE p # Who[mail[n].from]
      <4>1. q # 0 /\ p \in Named(q)
        BY <1>1, <2>1, <2>3, <3>1, <3>3 DEF Nameable, Named, NamedIn
      <4>2. \E e \in Path[q] : Who[mail[e].from] = p
        BY <1>3, <2>1, <4>1
      <4> QED BY <2>2, <4>1, <4>2
    <3> QED BY <3>2, <3>3
  <2>4. Blind(n)
    BY <2>3
  <2> HIDE DEF Blind
  <2> QED BY <1>3, <2>1, <2>4
<1>4. N \in T
  <2> HIDE DEF T
  <2> QED BY <1>2, <1>3, CountingUp
<1> QED BY <1>n, <1>4 DEF BlindStaysBlind

------------------------------------------------------------------------------
(* Every step keeps it *)

\* What follows nothing follows anything; and the same of a draft.
LEMMA Rootless ==
  ASSUME NEW m, NEW q, NEW r, m.parent = 0
  PROVE  /\ Follows(m, q) => Follows(m, r)
         /\ Agrees(m, q) => Agrees(m, r)
<1>1. Follows(m, q) => Follows(m, r)
  BY DEF Follows, Nameable
<1>2. Agrees(m, q) => Agrees(m, r)
  BY DEF Agrees, Nameable
<1> QED BY <1>1, <1>2

\* A step of the command alone.
LEMMA CommandSteps ==
  ASSUME IInv, mail' = mail,
         cmd' = Idle \/ /\ cmd' \in DraftType /\ cmd'.parent \in 0 .. Len(mail)
                        /\ Agrees(cmd', mail[cmd'.parent])
  PROVE  IInv'
<1>1. TypeOK' /\ Drafted'
  BY DEF IInv, TypeOK, Drafted
<1>2. AllKept'
  BY DEF IInv, AllKept, Kept
<1> QED BY <1>1, <1>2 DEF IInv

\* A step that delivers message m.
LEMMA MailGrows ==
  ASSUME IInv, NEW m \in MessageType, mail' = Append(mail, m),
         m.parent \in 0 .. Len(mail), Follows(m, mail[m.parent]),
         cmd' = Idle \/ /\ cmd' \in DraftType /\ cmd'.parent \in 0 .. Len(mail)
                        /\ Agrees(cmd', mail[cmd'.parent])
  PROVE  IInv'
<1>n. PICK N \in Nat : N = Len(mail) /\ DOMAIN mail = 1 .. N
  BY DEF IInv, TypeOK
<1>1. /\ mail' \in Seq(MessageType) /\ DOMAIN mail' = 1 .. N + 1 /\ Len(mail') = N + 1
      /\ mail'[N + 1] = m /\ \A n \in 1 .. N : mail'[n] = mail[n]
  BY <1>n DEF IInv, TypeOK
<1>2. TypeOK'
  BY <1>n, <1>1 DEF TypeOK
<1>3. ASSUME NEW d, d.parent \in 0 .. N
      PROVE  /\ Follows(d, mail[d.parent]) => Follows(d, mail'[d.parent])
             /\ Agrees(d, mail[d.parent]) => Agrees(d, mail'[d.parent])
  <2>1. CASE d.parent = 0
    BY <2>1, Rootless
  <2>2. CASE d.parent # 0
    <3>1. mail'[d.parent] = mail[d.parent]
      BY <1>1, <1>3, <2>2
    <3> QED BY <3>1
  <2> QED BY <2>1, <2>2
<1>4. Drafted'
  <2> SUFFICES ASSUME cmd' # Idle PROVE Agrees(cmd', mail'[cmd'.parent])
    BY DEF Drafted
  <2> QED BY <1>n, <1>3
<1>5. AllKept'
  <2> SUFFICES ASSUME NEW n \in 1 .. N + 1
               PROVE  /\ mail'[n].parent \in 0 .. n - 1
                      /\ Follows(mail'[n], mail'[mail'[n].parent])
    BY <1>1 DEF AllKept, Kept
  <2>1. CASE n = N + 1
    <3>1. mail'[n] = m
      BY <1>1, <2>1
    <3>2. m.parent \in 0 .. N /\ Follows(m, mail'[m.parent])
      BY <1>n, <1>3
    <3> QED BY <2>1, <3>1, <3>2
  <2>2. CASE n # N + 1
    <3>1. n \in 1 .. N /\ mail'[n] = mail[n]
      BY <1>1, <2>2
    <3>2. mail[n].parent \in 0 .. n - 1 /\ Follows(mail[n], mail[mail[n].parent])
      BY <1>n, <3>1 DEF IInv, AllKept, Kept
    <3>3. Follows(mail[n], mail'[mail[n].parent])
      <4>1. mail[n].parent \in 0 .. N
        BY <3>1, <3>2
      <4> QED BY <1>3, <3>2, <4>1
    <3> QED BY <3>1, <3>2, <3>3
  <2> QED BY <2>1, <2>2
<1> QED BY <1>2, <1>4, <1>5 DEF IInv

LEMMA Drafting ==
  ASSUME IInv, NEW s, At(s), s # "idle"
  PROVE  /\ cmd \in DraftType /\ cmd.at = s /\ cmd.parent \in 0 .. Len(mail)
         /\ Agrees(cmd, mail[cmd.parent])
<1>1. cmd.at = s /\ cmd # Idle
  BY DEF At, Idle
<1> QED BY <1>1 DEF IInv, TypeOK, Drafted

Stages == {"open", "edit", "ask", "build", "transmit", "detect"}

\* A draft at another stage.
LEMMA Restaged ==
  ASSUME NEW d \in DraftType, NEW q, Agrees(d, q), d.at # "open",
         NEW s \in Stages \ {"open"}, s \in {"transmit", "detect"} => d.opts.from # None
  PROVE  LET e == [d EXCEPT !.at = s] IN
         /\ e \in DraftType /\ e.parent = d.parent /\ e # Idle /\ Agrees(e, q)
<1> DEFINE e == [d EXCEPT !.at = s]
<1>1. /\ e \in DraftType /\ e.parent = d.parent /\ e.opts = d.opts /\ e.by = d.by
      /\ e.at = s /\ s # "open" /\ s # "idle"
  BY DEF DraftType, Stages
<1>2. e # Idle
  BY <1>1 DEF Idle
<1> HIDE DEF e
<1>3. Agrees(e, q)
  BY <1>1 DEF Agrees
<1> QED BY <1>1, <1>2, <1>3 DEF e

LEMMA Moves ==
  ASSUME IInv, NEW s, At(s), s \notin {"idle", "open"}, NEW t \in Stages \ {"open"},
         Goto(t), mail' = mail, t \in {"transmit", "detect"} => cmd.opts.from # None
  PROVE  IInv'
<1>1. /\ cmd \in DraftType /\ cmd.at = s /\ cmd.parent \in 0 .. Len(mail)
      /\ Agrees(cmd, mail[cmd.parent])
  BY Drafting
<1>2. /\ cmd' \in DraftType /\ cmd'.parent = cmd.parent
      /\ Agrees(cmd', mail[cmd.parent])
  BY <1>1, Restaged DEF Goto
<1> QED BY <1>1, <1>2, CommandSteps

\* After a failure the composer still has the draft.
LEMMA FailsTo ==
  ASSUME IInv, NEW s, At(s), s \notin {"idle", "open"}, Fails
  PROVE  cmd' = Idle \/ /\ cmd' \in DraftType /\ cmd'.parent \in 0 .. Len(mail)
                        /\ Agrees(cmd', mail[cmd'.parent])
<1>1. /\ cmd \in DraftType /\ cmd.at = s /\ cmd.parent \in 0 .. Len(mail)
      /\ Agrees(cmd, mail[cmd.parent])
  BY Drafting
<1>2. CASE cmd.by = "tui"
  <2>1. cmd' = [cmd EXCEPT !.at = "ask"] /\ "ask" \in Stages \ {"open"}
    BY <1>2 DEF Fails, Stages
  <2>2. /\ cmd' \in DraftType /\ cmd'.parent = cmd.parent
        /\ Agrees(cmd', mail[cmd.parent])
    BY <1>1, <2>1, Restaged
  <2> QED BY <1>1, <2>2
<1>3. CASE cmd.by # "tui"
  BY <1>3 DEF Fails
<1> QED BY <1>2, <1>3

LEMMA AbortsKeeps ==
  ASSUME IInv, NEW s, At(s), s \notin {"idle", "open"}, Aborts
  PROVE  IInv'
<1>1. cmd' = Idle \/ /\ cmd' \in DraftType /\ cmd'.parent \in 0 .. Len(mail)
                     /\ Agrees(cmd', mail[cmd'.parent])
  BY FailsTo DEF Aborts
<1> QED BY <1>1, CommandSteps DEF Aborts

LEMMA EndsKeeps == ASSUME IInv, Ends PROVE IInv'
BY CommandSteps DEF Ends

LEMMA Begun ==
  ASSUME IInv, NEW by \in {"send", "reply", "tui"}, NEW at \in Stages,
         NEW p \in 0 .. Len(mail), NEW o \in OptsType, Starts(by, at, p, o),
         Agrees(Begin(by, at, p, o), mail[p])
  PROVE  IInv'
<1>0. p \in Nat
  BY DEF IInv, TypeOK
<1>1. /\ Begin(by, at, p, o) \in DraftType /\ Begin(by, at, p, o).parent = p
  BY <1>0 DEF Begin, DraftType, Stages
<1> QED BY <1>1, CommandSteps DEF Starts

\* What the user types names nobody who is to stay hidden.
LEMMA TypedIsPublic ==
  /\ \A l \in Typed : l \in Seq(Address) /\ Reaches(l) \subseteq Public
  /\ \A l \in Blinds : l \in Seq(Address)
  /\ <<>> \in Seq(Address) /\ Reaches(<<>>) = {} /\ Nobody \in Public
<1>1. \A l \in Typed : Reaches(l) \subseteq Public
  <2>1. \A l \in Typed : Reaches(l) \in {Reaches(k) : k \in Typed}
    OBVIOUS
  <2> QED BY <2>1 DEF Public
<1>2. Nobody \in Public
  BY DEF Public
<1>3. <<>> \in Seq(Address) /\ Reaches(<<>>) = {}
  BY DEF Reaches, ToSet
<1> QED BY <1>1, <1>2, <1>3, InputAssumption

LEMMA OptsAre ==
  ASSUME NEW from \in Selves, NEW to \in Seq(Address), NEW cc \in Seq(Address),
         NEW bcc \in Seq(Address), NEW re \in 0 .. 1
  PROVE  LET o == Opts(from, to, cc, bcc, re) IN
         /\ o \in OptsType /\ o.from = from /\ o.to = to /\ o.cc = cc /\ o.re = re
         /\ o.irt = <<>> /\ o.references = <<>> /\ ~o.all
BY DEF Opts, OptsType, Lists

\* A message that is there: it names the addresses of its lists, and they may be named.
LEMMA MessageIs ==
  ASSUME IInv, NEW n \in DOMAIN mail
  PROVE  /\ n \in 0 .. Len(mail) /\ n # 0 /\ mail[n] \in MessageType
         /\ mail[n].from \in Address /\ mail[n].to \in Seq(Address)
         /\ mail[n].cc \in Seq(Address) /\ <<mail[n].from>> \in Seq(Address)
         /\ Reaches(<<mail[n].from>>) = {Who[mail[n].from]}
         /\ Nameable(n, mail[n]) = Public \cup NamedIn(mail[n])
         /\ IdOf(n, mail[n]) \in Seq(Nat) /\ ReferencesOf(n, mail[n]) \in Seq(Nat)
         /\ ID(n) = IdOf(n, mail[n]) /\ References(n) = ReferencesOf(n, mail[n])
         /\ ReplySubject(mail[n].re) = 1
<1>1. n \in 0 .. Len(mail) /\ n # 0 /\ mail[n] \in MessageType
  BY DEF IInv, TypeOK
<1>2. /\ mail[n].from \in Address /\ mail[n].to \in Seq(Address)
      /\ mail[n].cc \in Seq(Address) /\ <<mail[n].from>> \in Seq(Address)
      /\ mail[n].references \in Seq(Nat) /\ mail[n].hasID \in BOOLEAN
  BY <1>1 DEF MessageType, Lists
<1>3. Reaches(<<mail[n].from>>) = {Who[mail[n].from]}
  BY DEF Reaches, ToSet
<1>4. Nameable(n, mail[n]) = Public \cup NamedIn(mail[n])
  BY <1>1 DEF Nameable
<1>5. IdOf(n, mail[n]) \in Seq(Nat)
  BY <1>1 DEF IdOf
<1>6. ReferencesOf(n, mail[n]) \in Seq(Nat)
  BY <1>2, <1>5, ConcatProperties DEF ReferencesOf
<1>7. ID(n) = IdOf(n, mail[n]) /\ References(n) = ReferencesOf(n, mail[n])
  BY DEF ID, IdOf, References, ReferencesOf
<1>8. ReplySubject(mail[n].re) = 1
  BY <1>1 DEF ReplySubject, MessageType
<1> QED BY <1>1, <1>2, <1>3, <1>4, <1>5, <1>6, <1>7, <1>8

LEMMA SendBeginsKeeps == ASSUME IInv, SendBegins PROVE IInv'
<1>1. PICK from \in Selves, to \in Typed \ {<<>>}, cc \in Typed, bcc \in Blinds :
        Starts("send", "build", 0, Opts(from, to, cc, bcc, 0))
  BY DEF SendBegins
<1> DEFINE o == Opts(from, to, cc, bcc, 0)
<1>2. /\ to \in Seq(Address) /\ cc \in Seq(Address) /\ bcc \in Seq(Address)
      /\ Reaches(to) \cup Reaches(cc) \subseteq Public
  BY TypedIsPublic
<1>3. /\ o \in OptsType /\ o.from = from /\ o.to = to /\ o.cc = cc /\ o.re = 0
      /\ o.irt = <<>> /\ o.references = <<>> /\ ~o.all
  <2>1. 0 \in 0 .. 1
    OBVIOUS
  <2> QED BY <1>2, <2>1, OptsAre, Zenon
<1> HIDE DEF o
<1>4. Agrees(Begin("send", "build", 0, o), mail[0])
  BY <1>2, <1>3 DEF Agrees, Begin, Nameable
<1>5. "build" \in Stages /\ 0 \in 0 .. Len(mail)
  BY DEF Stages, IInv, TypeOK
<1> QED BY <1>1, <1>3, <1>4, <1>5, Begun DEF o

LEMMA ReplyBeginsKeeps == ASSUME IInv, ReplyBegins PROVE IInv'
<1>1. PICK n \in DOMAIN mail, from \in Selves, cc \in Typed, bcc \in Blinds :
        Starts("reply", "open", n, Opts(from, <<>>, cc, bcc, 0))
  BY DEF ReplyBegins
<1> DEFINE o == Opts(from, <<>>, cc, bcc, 0)
<1>2. /\ cc \in Seq(Address) /\ bcc \in Seq(Address) /\ <<>> \in Seq(Address)
      /\ Reaches(<<>>) \cup Reaches(cc) \subseteq Public
  BY TypedIsPublic
<1>3. /\ o \in OptsType /\ o.from = from /\ o.to = <<>> /\ o.cc = cc /\ o.re = 0
      /\ o.irt = <<>> /\ o.references = <<>> /\ ~o.all
  <2>1. 0 \in 0 .. 1
    OBVIOUS
  <2> QED BY <1>2, <2>1, OptsAre, Zenon
<1> HIDE DEF o
<1>4. n \in 0 .. Len(mail) /\ n # 0 /\ Nameable(n, mail[n]) = Public \cup NamedIn(mail[n])
  BY MessageIs
<1>5. Agrees(Begin("reply", "open", n, o), mail[n])
  BY <1>2, <1>3, <1>4 DEF Agrees, Begin
<1>6. "open" \in Stages
  BY DEF Stages
<1> QED BY <1>1, <1>3, <1>4, <1>5, <1>6, Begun DEF o

LEMMA TuiComposesKeeps == ASSUME IInv, TuiComposes PROVE IInv'
<1>1. PICK from \in Selves : Starts("tui", "ask", 0, Opts(from, <<>>, <<>>, <<>>, 0))
  BY DEF TuiComposes
<1> DEFINE o == Opts(from, <<>>, <<>>, <<>>, 0)
<1>2. <<>> \in Seq(Address) /\ Reaches(<<>>) = {}
  BY TypedIsPublic
<1>3. /\ o \in OptsType /\ o.from = from /\ o.to = <<>> /\ o.cc = <<>> /\ o.re = 0
      /\ o.irt = <<>> /\ o.references = <<>> /\ ~o.all
  <2>1. 0 \in 0 .. 1
    OBVIOUS
  <2> QED BY <1>2, <2>1, OptsAre, Zenon
<1> HIDE DEF o
<1>4. Agrees(Begin("tui", "ask", 0, o), mail[0])
  BY <1>2, <1>3 DEF Agrees, Begin
<1>5. "ask" \in Stages /\ 0 \in 0 .. Len(mail)
  BY DEF Stages, IInv, TypeOK
<1> QED BY <1>1, <1>3, <1>4, <1>5, Begun DEF o

\* The lists of a reply to all of message n name those it named.
LEMMA ReplyLists ==
  ASSUME IInv, NEW n \in DOMAIN mail, NEW self
  PROVE  /\ replyAllCc(mail[n].to, mail[n].cc, self) \in Seq(Address)
         /\ Reaches(<<mail[n].from>>) \cup
              Reaches(replyAllCc(mail[n].to, mail[n].cc, self)) \subseteq Nameable(n, mail[n])
<1>1. /\ replyAllCc(mail[n].to, mail[n].cc, self) \in Seq(Address)
      /\ Reaches(replyAllCc(mail[n].to, mail[n].cc, self))
           \subseteq Reaches(mail[n].to) \cup Reaches(mail[n].cc) \cup {Nobody}
  BY MessageIs, ReplyAllStays
<1>2. /\ Reaches(<<mail[n].from>>) = {Who[mail[n].from]}
      /\ Nameable(n, mail[n]) = Public \cup NamedIn(mail[n]) /\ Nobody \in Public
  BY MessageIs, TypedIsPublic
<1> QED BY <1>1, <1>2 DEF NamedIn

LEMMA TuiRepliesKeeps == ASSUME IInv, TuiReplies PROVE IInv'
<1>1. PICK n \in DOMAIN mail, from \in Selves, read \in BOOLEAN :
        Starts("tui", "ask", n,
          [Opts(from, <<mail[n].from>>,
                IF read THEN replyAllCc(mail[n].to, mail[n].cc, from) ELSE <<>>,
                <<>>, ReplySubject(mail[n].re)) EXCEPT !.all = read])
  BY DEF TuiReplies
<1> DEFINE to == <<mail[n].from>>
           whole == replyAllCc(mail[n].to, mail[n].cc, from)
           cc == IF read THEN whole ELSE <<>>
           re == ReplySubject(mail[n].re)
           all == Opts(from, to, cc, <<>>, re)
           o == [all EXCEPT !.all = read]
<1>2. n \in 0 .. Len(mail) /\ n # 0 /\ to \in Seq(Address)
  BY MessageIs
<1>3. /\ whole \in Seq(Address) /\ Reaches(to) \cup Reaches(whole) \subseteq Nameable(n, mail[n])
  BY ReplyLists
<1>4. <<>> \in Seq(Address) /\ Reaches(<<>>) = {}
  BY TypedIsPublic
<1>5. re = 1
  BY MessageIs
<1> HIDE DEF to, whole, re
<1>6. cc \in Seq(Address) /\ Reaches(to) \cup Reaches(cc) \subseteq Nameable(n, mail[n])
  BY <1>3, <1>4
<1> HIDE DEF cc
<1>7. /\ all \in OptsType /\ all.from = from /\ all.to = to /\ all.cc = cc /\ all.re = 1
      /\ all.irt = <<>> /\ all.references = <<>> /\ ~all.all
  <2>1. re \in 0 .. 1
    BY <1>5
  <2>2. /\ all \in OptsType /\ all.from = from /\ all.to = to /\ all.cc = cc /\ all.re = re
        /\ all.irt = <<>> /\ all.references = <<>> /\ ~all.all
    BY <1>2, <1>4, <1>6, <2>1, OptsAre, Zenon
  <2> QED BY <1>5, <2>2
<1> HIDE DEF all
<1>8. /\ o \in OptsType /\ o.from = from /\ o.to = to /\ o.cc = cc /\ o.re = 1
      /\ o.irt = <<>> /\ o.references = <<>> /\ o.all = read
  BY <1>7 DEF OptsType
<1> HIDE DEF o
<1>9. Agrees(Begin("tui", "ask", n, o), mail[n])
  BY <1>2, <1>6, <1>8 DEF Agrees, Begin, to, cc, whole
<1>10. "ask" \in Stages
  BY DEF Stages
<1>11. Starts("tui", "ask", n, o)
  BY <1>1 DEF o, all, to, cc, whole, re
<1> QED BY <1>2, <1>8, <1>9, <1>10, <1>11, Begun

LEMMA OpenedKeeps == ASSUME IInv, Opened PROVE IInv'
<1> DEFINE n == cmd.parent
           o == cmd.opts
           whole == replyAllCc(mail[n].to, mail[n].cc, o.from)
           e == ReplyOpts(n, o)
<1>1. /\ cmd \in DraftType /\ cmd.at = "open" /\ cmd.parent \in 0 .. Len(mail)
      /\ Agrees(cmd, mail[cmd.parent])
  BY Drafting DEF Opened
<1>2. /\ cmd.by = "reply" /\ n # 0 /\ Reaches(o.to) \cup Reaches(o.cc) \subseteq Nameable(n, mail[n])
  BY <1>1 DEF Agrees
<1>3. n \in DOMAIN mail
  BY <1>1, <1>2 DEF IInv, TypeOK
<1>4. /\ whole \in Seq(Address)
      /\ Reaches(<<mail[n].from>>) \cup Reaches(whole) \subseteq Nameable(n, mail[n])
  BY <1>3, ReplyLists
<1>5. /\ <<mail[n].from>> \in Seq(Address) /\ mail[n] \in MessageType
      /\ IdOf(n, mail[n]) \in Seq(Nat) /\ ReferencesOf(n, mail[n]) \in Seq(Nat)
      /\ ID(n) = IdOf(n, mail[n]) /\ References(n) = ReferencesOf(n, mail[n])
  BY <1>3, MessageIs
<1>6. ReplySubject(mail[n].re) = 1
  BY <1>3, MessageIs
<1>7. o \in OptsType
  BY <1>1 DEF DraftType
<1>8. /\ e.from = o.from /\ e.to = <<mail[n].from>> /\ e.re = 1
      /\ e.cc = IF o.cc # <<>> THEN o.cc ELSE whole
      /\ e.irt = ID(n) /\ e.references = References(n) /\ e.all = (o.cc = <<>>)
      /\ e.bcc = o.bcc
      /\ e = [from |-> e.from, to |-> e.to, cc |-> e.cc, bcc |-> e.bcc, re |-> e.re,
              irt |-> e.irt, references |-> e.references, all |-> e.all]
  <2> DEFINE cc == IF o.cc # <<>> THEN o.cc ELSE whole
             all == o.cc = <<>>
  <2>1. e = [o EXCEPT !.to = <<mail[n].from>>, !.cc = cc, !.all = all, !.re = 1,
                      !.irt = ID(n), !.references = References(n)]
    BY <1>6 DEF ReplyOpts
  <2> HIDE DEF e, cc, all
  <2>2. /\ e.from = o.from /\ e.to = <<mail[n].from>> /\ e.re = 1 /\ e.cc = cc
        /\ e.irt = ID(n) /\ e.references = References(n) /\ e.all = all /\ e.bcc = o.bcc
    BY <1>7, <2>1 DEF OptsType
  <2>3. e = [from |-> e.from, to |-> e.to, cc |-> e.cc, bcc |-> e.bcc, re |-> e.re,
             irt |-> e.irt, references |-> e.references, all |-> e.all]
    BY <1>7, <2>1 DEF OptsType
  <2> QED BY <2>2, <2>3 DEF cc, all
<1>9. cmd' = [cmd EXCEPT !.at = "edit", !.opts = e] /\ mail' = mail
  BY DEF Opened, Step
<1> HIDE DEF e, whole
<1>10. e \in OptsType
  <2>1. /\ e.from \in Selves /\ e.to \in Lists /\ e.bcc \in Lists /\ e.re \in 0 .. 1
        /\ e.irt \in Seq(Nat) /\ e.references \in Seq(Nat) /\ e.all \in BOOLEAN
    BY <1>5, <1>7, <1>8 DEF OptsType, Lists
  <2>2. e.cc \in Lists
    BY <1>4, <1>7, <1>8 DEF OptsType, Lists
  <2> QED BY <1>8, <2>1, <2>2 DEF OptsType
<1>11. /\ cmd' \in DraftType /\ cmd'.parent = n /\ cmd'.opts = e /\ cmd'.by = "reply"
       /\ cmd'.at = "edit"
  BY <1>1, <1>2, <1>9, <1>10 DEF DraftType
<1>12. Agrees(cmd', mail[n])
  <2>1. Reaches(e.to) \cup Reaches(e.cc) \subseteq Nameable(n, mail[n])
    BY <1>2, <1>4, <1>8
  <2>2. e.all => e.cc = whole
    BY <1>8
  <2>3. /\ cmd'.at \notin {"open", "transmit", "detect"} /\ cmd'.by = "reply"
        /\ cmd'.parent = n /\ n # 0 /\ cmd'.opts = e
        /\ e.re = 1 /\ e.irt = IdOf(n, mail[n]) /\ e.references = ReferencesOf(n, mail[n])
        /\ e.to = <<mail[n].from>> /\ e.from = o.from
    BY <1>2, <1>5, <1>8, <1>11
  <2> HIDE DEF o, n
  <2> QED BY <2>1, <2>2, <2>3 DEF Agrees, whole
<1> QED BY <1>1, <1>9, <1>11, <1>12, CommandSteps

LEMMA TuiTypesKeeps == ASSUME IInv, TuiTypes PROVE IInv'
<1> DEFINE n == cmd.parent
           o == cmd.opts
           q == mail[n]
<1>1. /\ cmd \in DraftType /\ cmd.at = "ask" /\ cmd.parent \in 0 .. Len(mail)
      /\ Agrees(cmd, q)
  BY Drafting DEF TuiTypes
<1>2. mail' = mail /\ o \in OptsType
  BY <1>1 DEF TuiTypes, Step, DraftType
<1>3. Public \subseteq Nameable(n, q)
  BY DEF Nameable
<1> HIDE DEF q
<1>4. CASE \E list \in Typed, f \in {"to", "cc"} :
             cmd' = [cmd EXCEPT !.opts[f] = list, !.opts.all = FALSE]
  <2>1. PICK list \in Typed, f \in {"to", "cc"} :
          cmd' = [cmd EXCEPT !.opts[f] = list, !.opts.all = FALSE]
    BY <1>4
  <2>2. list \in Seq(Address) /\ Reaches(list) \subseteq Nameable(n, q)
    BY <1>3, TypedIsPublic
  <2>3. CASE f = "to"
    <3> DEFINE e == [o EXCEPT !.to = list, !.all = FALSE]
    <3>1. cmd' = [cmd EXCEPT !.opts = e]
      BY <1>1, <2>1, <2>3 DEF DraftType
    <3>2. e \in OptsType /\ e.cc = o.cc /\ e.to = list /\ ~e.all /\ e.re = o.re
          /\ e.irt = o.irt /\ e.references = o.references
      BY <1>2, <2>2 DEF OptsType, Lists
    <3> HIDE DEF e
    <3>3. /\ cmd' \in DraftType /\ cmd'.parent = n /\ cmd'.by = cmd.by /\ cmd'.at = "ask"
          /\ cmd'.opts = e
      BY <1>1, <3>1, <3>2 DEF DraftType
    <3>4. Agrees(cmd', q)
      BY <1>1, <2>2, <3>2, <3>3 DEF Agrees
    <3> QED BY <1>1, <1>2, <3>3, <3>4, CommandSteps DEF q
  <2>4. CASE f = "cc"
    <3> DEFINE e == [o EXCEPT !.cc = list, !.all = FALSE]
    <3>1. cmd' = [cmd EXCEPT !.opts = e]
      BY <1>1, <2>1, <2>4 DEF DraftType
    <3>2. e \in OptsType /\ e.cc = list /\ e.to = o.to /\ ~e.all /\ e.re = o.re
          /\ e.irt = o.irt /\ e.references = o.references
      BY <1>2, <2>2 DEF OptsType, Lists
    <3> HIDE DEF e
    <3>3. /\ cmd' \in DraftType /\ cmd'.parent = n /\ cmd'.by = cmd.by /\ cmd'.at = "ask"
          /\ cmd'.opts = e
      BY <1>1, <3>1, <3>2 DEF DraftType
    <3>4. Agrees(cmd', q)
      BY <1>1, <2>2, <3>2, <3>3 DEF Agrees
    <3> QED BY <1>1, <1>2, <3>3, <3>4, CommandSteps DEF q
  <2> QED BY <2>3, <2>4
<1>5. CASE \E list \in Blinds : cmd' = [cmd EXCEPT !.opts.bcc = list]
  <2>1. PICK list \in Blinds : cmd' = [cmd EXCEPT !.opts.bcc = list]
    BY <1>5
  <2>2. list \in Seq(Address)
    BY TypedIsPublic
  <2> DEFINE e == [o EXCEPT !.bcc = list]
  <2>3. cmd' = [cmd EXCEPT !.opts = e]
    BY <1>1, <2>1 DEF DraftType
  <2>4. /\ e \in OptsType /\ e.cc = o.cc /\ e.to = o.to /\ e.all = o.all /\ e.re = o.re
        /\ e.irt = o.irt /\ e.references = o.references /\ e.from = o.from
    BY <1>2, <2>2 DEF OptsType, Lists
  <2> HIDE DEF e
  <2>5. /\ cmd' \in DraftType /\ cmd'.parent = n /\ cmd'.by = cmd.by /\ cmd'.at = "ask"
        /\ cmd'.opts = e
    BY <1>1, <2>3, <2>4 DEF DraftType
  <2>6. Agrees(cmd', q)
    BY <1>1, <2>4, <2>5 DEF Agrees
  <2> QED BY <1>1, <1>2, <2>5, <2>6, CommandSteps DEF q
<1> QED BY <1>4, <1>5 DEF TuiTypes

\* What a correspondent writes.
LEMMA Posted ==
  ASSUME IInv, NEW t \in Address, NEW n \in 0 .. Len(mail), NEW hasID \in BOOLEAN, NEW m,
         m.to \in Lists, m.cc \in Lists, m.irt \in Seq(Nat), m.references \in Seq(Nat),
         m.re = IF n = 0 THEN 0 ELSE 1,
         m.irt = IF n = 0 THEN <<>> ELSE IdOf(n, mail[n]),
         m.references = IF n = 0 THEN <<>> ELSE ReferencesOf(n, mail[n]),
         Reaches(m.to) \cup Reaches(m.cc) \subseteq {Who[t]} \cup Nameable(n, mail[n]),
         Post(t, n, hasID, m), cmd' = cmd
  PROVE  IInv'
<1> DEFINE new ==
      [by |-> "other", parent |-> n, from |-> t, hasID |-> hasID, re |-> m.re,
       to |-> m.to, cc |-> m.cc, irt |-> m.irt, references |-> m.references,
       envelope |-> m.to \o m.cc, all |-> n # 0]
<1>1. mail' = Append(mail, new)
  BY DEF Post
<1>2. m.to \o m.cc \in Lists
  BY JoinReaches DEF Lists
<1>3. n \in Nat /\ m.re \in 0 .. 1
  BY DEF IInv, TypeOK
<1>4. new \in MessageType
  BY <1>2, <1>3 DEF MessageType
<1>5. Follows(new, mail[n])
  BY DEF Follows, NamedIn
<1>6. new.parent = n
  OBVIOUS
<1> HIDE DEF new
<1>7. cmd = Idle \/ /\ cmd \in DraftType /\ cmd.parent \in 0 .. Len(mail)
                    /\ Agrees(cmd, mail[cmd.parent])
  BY DEF IInv, TypeOK, Drafted
<1> QED BY <1>1, <1>4, <1>5, <1>6, <1>7, MailGrows

LEMMA CorrespondentKeeps == ASSUME IInv, CorrespondentWrites PROVE IInv'
<1>1. PICK hasID \in BOOLEAN :
        \/ \E o \in Openings : Post(o.from, 0, hasID, Opening(o))
        \/ \E n \in DOMAIN mail, t \in Address :
             Received(n, Who[t]) /\ Post(t, n, hasID, Answer(t, n))
  BY DEF CorrespondentWrites
<1>2. cmd' = cmd
  BY DEF CorrespondentWrites
<1>3. ASSUME NEW o \in Openings, Post(o.from, 0, hasID, Opening(o)) PROVE IInv'
  <2> DEFINE m == Opening(o)
  <2>1. o.from \in Address /\ o.to \in Seq(Address) /\ o.cc \in Seq(Address)
    BY InputAssumption
  <2>2. m.to = o.to /\ m.cc = o.cc /\ m.re = 0 /\ m.irt = <<>> /\ m.references = <<>>
    BY DEF Opening
  <2> HIDE DEF m
  <2>3. Reaches(o.to) \cup Reaches(o.cc) \subseteq Public
    <3>1. <<o.from>> \in Seq(Address)
      BY <2>1
    <3>2. <<o.from>> \o o.to \in Seq(Address)
      BY <2>1, <3>1, JoinReaches
    <3>3. Reaches(<<o.from>> \o o.to \o o.cc)
            = Reaches(<<o.from>>) \cup Reaches(o.to) \cup Reaches(o.cc)
      BY <2>1, <3>1, <3>2, JoinReaches
    <3>4. Reaches(<<o.from>> \o o.to \o o.cc) \subseteq Public
      BY DEF Public
    <3> QED BY <3>3, <3>4
  <2>4. Reaches(m.to) \cup Reaches(m.cc) \subseteq {Who[o.from]} \cup Nameable(0, mail[0])
    BY <2>2, <2>3 DEF Nameable
  <2>5. /\ m.to \in Lists /\ m.cc \in Lists /\ m.irt \in Seq(Nat) /\ m.references \in Seq(Nat)
        /\ 0 \in 0 .. Len(mail)
    BY <2>1, <2>2 DEF Lists, IInv, TypeOK
  <2>6. Post(o.from, 0, hasID, m)
    BY <1>3 DEF m
  <2> QED BY <1>2, <2>1, <2>2, <2>4, <2>5, <2>6, Posted
<1>4. ASSUME NEW n \in DOMAIN mail, NEW t \in Address, Post(t, n, hasID, Answer(t, n))
      PROVE  IInv'
  <2> DEFINE m == Answer(t, n)
             both == mail[n].to \o mail[n].cc
             others == {u \in ToSet(both) : Who[u] # Who[t]}
  <2>1. /\ n \in 0 .. Len(mail) /\ n # 0 /\ <<mail[n].from>> \in Seq(Address)
        /\ mail[n].to \in Seq(Address) /\ mail[n].cc \in Seq(Address)
        /\ Reaches(<<mail[n].from>>) = {Who[mail[n].from]}
        /\ Nameable(n, mail[n]) = Public \cup NamedIn(mail[n])
        /\ IdOf(n, mail[n]) \in Seq(Nat) /\ ReferencesOf(n, mail[n]) \in Seq(Nat)
        /\ ID(n) = IdOf(n, mail[n]) /\ References(n) = ReferencesOf(n, mail[n])
    BY MessageIs
  <2>2. both \in Seq(Address) /\ Reaches(both) = Reaches(mail[n].to) \cup Reaches(mail[n].cc)
    BY <2>1, JoinReaches
  <2>3. /\ m.to = <<mail[n].from>> /\ m.cc = SetToSeq(others) /\ m.re = 1
        /\ m.irt = ID(n) /\ m.references = References(n)
    BY DEF Answer
  <2>4. m.cc \in Seq(Address) /\ ToSet(m.cc) \subseteq ToSet(both)
    <3>1. others \in SUBSET ToSet(both)
      OBVIOUS
    <3> HIDE DEF others, both
    <3>2. SetToSeq(others) \in Seq(Address) /\ ToSet(SetToSeq(others)) \subseteq others
      BY <2>2, <3>1, ListOfSet
    <3> QED BY <2>3, <3>1, <3>2
  <2> HIDE DEF m, both
  <2>5. Reaches(m.to) \cup Reaches(m.cc) \subseteq Nameable(n, mail[n])
    <3>1. Reaches(m.cc) \subseteq Reaches(both)
      BY <2>4 DEF Reaches
    <3> QED BY <2>1, <2>2, <2>3, <3>1 DEF NamedIn
  <2>6. /\ m.to \in Lists /\ m.cc \in Lists /\ m.irt \in Seq(Nat) /\ m.references \in Seq(Nat)
        /\ Post(t, n, hasID, m)
    BY <1>4, <2>1, <2>3, <2>4 DEF Lists, m
  <2> QED BY <1>2, <2>1, <2>3, <2>5, <2>6, Posted
<1> QED BY <1>1, <1>3, <1>4

\* What the program delivers.
LEMMA Delivered ==
  ASSUME IInv, At("transmit"), Deliver,
         cmd' = Idle \/ /\ cmd' \in DraftType /\ cmd'.parent \in 0 .. Len(mail)
                        /\ Agrees(cmd', mail[cmd'.parent])
  PROVE  IInv'
<1> DEFINE n == cmd.parent
           q == mail[n]
           o == cmd.opts
           new == Built(cmd.by, n, o)
<1>1. /\ cmd \in DraftType /\ cmd.at = "transmit" /\ n \in 0 .. Len(mail) /\ Agrees(cmd, q)
  BY Drafting
<1>2. o \in OptsType /\ cmd.by \in {"send", "reply", "tui"} /\ n \in Nat
  BY <1>1 DEF DraftType
<1>3. /\ o.to \in Seq(Address) /\ o.cc \in Seq(Address) /\ o.bcc \in Seq(Address)
      /\ o.from \in Selves \ {None} /\ o.from \in Address
  BY <1>1, <1>2, AddressAssumption DEF Agrees, OptsType, Lists
<1> DEFINE to == SplitAddrs(o.to)  cc == SplitAddrs(o.cc)  bcc == SplitAddrs(o.bcc)
<1>4. /\ to \in Seq(Address) /\ cc \in Seq(Address) /\ bcc \in Seq(Address)
      /\ Reaches(to) \subseteq Reaches(o.to) \cup {Nobody}
      /\ Reaches(cc) \subseteq Reaches(o.cc) \cup {Nobody}
  BY <1>3, SplitReaches
<1>5. /\ InHeader(to) \in Seq(Address) /\ InHeader(cc) \in Seq(Address)
      /\ Reaches(InHeader(to)) \subseteq Reaches(to) \cup {Nobody}
      /\ Reaches(InHeader(cc)) \subseteq Reaches(cc) \cup {Nobody}
  BY <1>4, HeaderReaches
<1>6. /\ to \o cc \o bcc \in Seq(Address)
      /\ ToSet(to) \cup ToSet(cc) \subseteq ToSet(to \o cc \o bcc)
  <2> DEFINE first == to \o cc
  <2>1. first \in Seq(Address) /\ ToSet(first) = ToSet(to) \cup ToSet(cc)
    BY <1>4, Joined
  <2> HIDE DEF first, to, cc, bcc
  <2>2. first \o bcc \in Seq(Address) /\ ToSet(first \o bcc) = ToSet(first) \cup ToSet(bcc)
    BY <1>4, <2>1, Joined
  <2> QED BY <2>1, <2>2 DEF first
<1> HIDE DEF to, cc, bcc
<1>7. /\ new.by = cmd.by /\ new.parent = n /\ new.from = o.from /\ new.hasID = TRUE
      /\ new.re = o.re /\ new.to = InHeader(to) /\ new.cc = InHeader(cc)
      /\ new.irt = o.irt /\ new.references = o.references
      /\ new.envelope = to \o cc \o bcc /\ new.all = o.all
      /\ new = [by |-> new.by, parent |-> new.parent, from |-> new.from,
                hasID |-> new.hasID, re |-> new.re, to |-> new.to, cc |-> new.cc,
                irt |-> new.irt, references |-> new.references,
                envelope |-> new.envelope, all |-> new.all]
  BY DEF Built, HeaderCc, Destinations, to, cc, bcc
<1>8. mail' = Append(mail, new)
  BY DEF Deliver
<1> HIDE DEF new
<1>9. new \in MessageType
  <2>1. /\ new.by \in {"other", "send", "reply", "tui"} /\ new.parent \in Nat
        /\ new.from \in Address /\ new.hasID \in BOOLEAN /\ new.re \in 0 .. 1
        /\ new.irt \in Seq(Nat) /\ new.references \in Seq(Nat) /\ new.all \in BOOLEAN
    BY <1>2, <1>3, <1>7 DEF OptsType
  <2>2. new.to \in Lists /\ new.cc \in Lists /\ new.envelope \in Lists
    BY <1>5, <1>6, <1>7 DEF Lists
  <2> QED BY <1>7, <2>1, <2>2 DEF MessageType
<1>10. NamedIn(new) \subseteq {Who[new.from]} \cup Nameable(n, q)
  <2>1. Reaches(o.to) \cup Reaches(o.cc) \subseteq Nameable(n, q) /\ Nobody \in Nameable(n, q)
    BY <1>1, TypedIsPublic DEF Agrees, Nameable
  <2> HIDE DEF q, o, n
  <2> QED BY <1>4, <1>5, <1>7, <2>1 DEF NamedIn
<1>11. o.all => n # 0 /\ ToEveryone(new.to, new.cc, new.envelope, q, new.from)
  <2> SUFFICES ASSUME o.all
               PROVE  n # 0 /\ ToEveryone(new.to, new.cc, new.envelope, q, new.from)
    OBVIOUS
  <2>1. n # 0 /\ o.to = <<q.from>> /\ o.cc = replyAllCc(q.to, q.cc, o.from)
    BY <1>1 DEF Agrees
  <2>2. to = SplitAddrs(<<q.from>>) /\ cc = SplitAddrs(replyAllCc(q.to, q.cc, new.from))
    BY <1>7, <2>1 DEF to, cc
  <2> HIDE DEF q, o, n
  <2> QED BY <1>6, <1>7, <2>1, <2>2 DEF ToEveryone
<1>12. /\ o.re = 1 <=> n # 0
       /\ o.irt = IF n = 0 \/ cmd.by = "tui" THEN <<>> ELSE IdOf(n, q)
       /\ o.references = IF n = 0 \/ cmd.by = "tui" THEN <<>> ELSE ReferencesOf(n, q)
  BY <1>1, <1>2 DEF Agrees
<1>13. Follows(new, q)
  <2> HIDE DEF q, o, n
  <2> QED BY <1>3, <1>7, <1>10, <1>11, <1>12 DEF Follows
<1> QED BY <1>1, <1>7, <1>8, <1>9, <1>13, MailGrows

\* Initially there is neither mail nor a draft, and every step keeps the invariant.
LEMMA InitIInv == Init => IInv
BY DEF Init, IInv, TypeOK, AllKept, Drafted

LEMMA StepIInv == IInv /\ [Next]_vars => IInv'
<1> SUFFICES ASSUME IInv, [Next]_vars PROVE IInv'
  OBVIOUS
<1>0. /\ {"edit", "ask", "build", "transmit", "detect"} \subseteq Stages \ {"open"}
  BY DEF Stages
<1>1. CASE CorrespondentWrites
  BY <1>1, CorrespondentKeeps
<1>2. CASE SendBegins
  BY <1>2, SendBeginsKeeps
<1>3. CASE ReplyBegins
  BY <1>3, ReplyBeginsKeeps
<1>4. CASE OpenFails
  BY <1>4, EndsKeeps DEF OpenFails
<1>5. CASE Opened
  BY <1>5, OpenedKeeps
<1>6. CASE EditorFails
  BY <1>6, EndsKeeps DEF EditorFails
<1>7. CASE Edited
  <2>1. At("edit") /\ Goto("ask") /\ mail' = mail
    BY <1>7 DEF Edited, Step
  <2> QED BY <1>0, <2>1, Moves
<1>8. CASE Declined
  BY <1>8, EndsKeeps DEF Declined
<1>9. CASE Confirmed
  <2>1. CASE cmd.opts.from = None
    BY <1>9, <2>1, EndsKeeps DEF Confirmed
  <2>2. CASE cmd.opts.from # None
    <3>1. At("ask") /\ Goto("build") /\ mail' = mail
      BY <1>9, <2>2 DEF Confirmed, Step
    <3> QED BY <1>0, <3>1, Moves
  <2> QED BY <2>1, <2>2
<1>10. CASE TuiReplies
  BY <1>10, TuiRepliesKeeps
<1>11. CASE TuiComposes
  BY <1>11, TuiComposesKeeps
<1>12. CASE TuiTypes
  BY <1>12, TuiTypesKeeps
<1>13. CASE TuiLeaves
  BY <1>13, EndsKeeps DEF TuiLeaves
<1>14. CASE TuiSends
  <2>1. At("ask") /\ Goto("build") /\ mail' = mail
    BY <1>14 DEF TuiSends, Step
  <2> QED BY <1>0, <2>1, Moves
<1>15. CASE Refused
  <2>1. At("build") /\ Aborts
    BY <1>15 DEF Refused
  <2> QED BY <2>1, AbortsKeeps
<1>16. CASE WireFails
  BY <1>16, EndsKeeps DEF WireFails
<1>17. CASE Build
  <2>1. At("build") /\ Goto("transmit") /\ mail' = mail /\ cmd.opts.from # None
    BY <1>17 DEF Build, BuildFails, Step
  <2> QED BY <1>0, <2>1, Moves
<1>18. CASE TooBig
  <2>1. At("transmit") /\ Aborts
    BY <1>18 DEF TooBig
  <2> QED BY <2>1, AbortsKeeps
<1>19. CASE Accepted
  BY <1>19, Delivered DEF Accepted
<1>20. CASE AnswerLost
  <2>1. At("transmit") /\ Deliver /\ Fails
    BY <1>20 DEF AnswerLost
  <2>2. cmd' = Idle \/ /\ cmd' \in DraftType /\ cmd'.parent \in 0 .. Len(mail)
                       /\ Agrees(cmd', mail[cmd'.parent])
    BY <2>1, FailsTo
  <2> QED BY <2>1, <2>2, Delivered
<1>21. CASE SendFails
  <2>1. At("transmit") /\ Aborts
    BY <1>21 DEF SendFails
  <2> QED BY <2>1, AbortsKeeps
<1>22. CASE MessageRejected
  <2>1. At("transmit") /\ Goto("detect") /\ mail' = mail
    BY <1>22 DEF MessageRejected, Step
  <2>2. cmd.opts.from # None
    <3>1. cmd.at = "transmit" /\ Agrees(cmd, mail[cmd.parent])
      BY <2>1, Drafting
    <3> QED BY <3>1 DEF Agrees
  <2> QED BY <1>0, <2>1, <2>2, Moves
<1>23. CASE Detect
  <2>1. At("detect") /\ Aborts
    BY <1>23 DEF Detect
  <2> QED BY <2>1, AbortsKeeps
<1>24. CASE UNCHANGED vars
  <2>1. mail' = mail /\ cmd' = cmd
    BY <1>24 DEF vars
  <2> QED BY <2>1, CommandSteps DEF IInv, TypeOK, Drafted
<1> QED
  BY <1>1, <1>2, <1>3, <1>4, <1>5, <1>6, <1>7, <1>8, <1>9, <1>10, <1>11, <1>12, <1>13,
     <1>14, <1>15, <1>16, <1>17, <1>18, <1>19, <1>20, <1>21, <1>22, <1>23, <1>24 DEF Next

THEOREM Invariant == Spec => []IInv
<1>1. Init => IInv
  BY InitIInv
<1>2. IInv /\ [Next]_vars => IInv'
  BY StepIInv
<1> QED BY <1>1, <1>2, PTL DEF Spec

\* Messages and drafts keep their types, and what is running was begun on a message
\* that exists (MailSend.tla; cmd/mail's send and reply, the composer of mail-tui).
THEOREM SendTyped == Spec => []TypeOK
<1>1. IInv => TypeOK
  BY DEF IInv
<1> QED BY <1>1, Invariant, PTL

\* ReplyHeaders: whoever wrote what is answered, and at any depth, a reply names its
\* whole thread in order, names what it answers, and has one "Re:".
THEOREM ThreadsAreWhole == Spec => []ThreadIsWhole
<1>1. IInv => ThreadIsWhole
  BY ThreadsFollow DEF IInv
<1> QED BY <1>1, Invariant, PTL

\* Build and ReplyHeaders: nobody who only ever got blind copies is named in a header,
\* of that message or of an answer to it by anyone, before they write themselves.
THEOREM BlindCopiesStayBlind == Spec => []BlindStaysBlind
<1>1. IInv => BlindStaysBlind
  BY BlindFollows DEF IInv
<1> QED BY <1>1, Invariant, PTL

\* replyAllCc and Destinations: an answer to all of a message with plain addresses goes
\* to everyone it named, names them, leaves the user out and names nobody twice in Cc.
THEOREM EveryoneIsAnswered == Spec => []AnswerReachesEveryone
<1>1. IInv => AnswerReachesEveryone
  BY AnswersFollow DEF IInv
<1> QED BY <1>1, Invariant, PTL
=================================================================================
