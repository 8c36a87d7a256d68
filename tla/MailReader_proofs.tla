---------------------------- MODULE MailReader_proofs ----------------------------
(***************************************************************************)
(* Theorems about MailReader.  The pane keeps four things about a message  *)
(* that must agree: the HTML as it came, what is left of it, the rendered  *)
(* body, and what the viewport shows; Agree says how, and every handler    *)
(* keeps it.  What RenderRich makes of a document is told by lemmas: what  *)
(* the accumulator holds of the items it has read (Holds), and how lengths *)
(* add up when tokens are broken and joined (Sum, Weights).                *)
(***************************************************************************)
EXTENDS MailReader, SequenceTheorems, WellFoundedInduction, TLAPS

------------------------------------------------------------------------------
(* Counting up to a number, and functions defined on the way *)

\* A set that holds 0, and of each number below n in it the next one, holds all
\* numbers up to n.
LEMMA CountingUp ==
  ASSUME NEW n \in Nat, NEW T, 0 \in T,
         \A i \in 0 .. n - 1 : i \in T => i + 1 \in T
  PROVE  \A i \in 0 .. n : i \in T
<1> DEFINE Left == {i \in 0 .. n : i \notin T}
           Less == OpToRel(<, Nat)
<1>1. IsWellFoundedOn(Less, Nat)
  BY NatLessThanWellFounded
<1>2. \A x, y \in Nat : x < y => <<x, y>> \in Less
  BY DEF OpToRel
<1>3. Left \in SUBSET Nat
  OBVIOUS
<1> SUFFICES ASSUME Left # {} PROVE FALSE
  OBVIOUS
<1> HIDE DEF Less
<1>4. PICK x \in Left : \A y \in Left : ~ (<<y, x>> \in Less)
  BY <1>1, <1>3, WFMin, Zenon
<1>5. x \in 1 .. n /\ x - 1 \in 0 .. n - 1 /\ x - 1 \in 0 .. n
  OBVIOUS
<1>6. <<x - 1, x>> \in Less
  BY <1>2, <1>5
<1>7. x - 1 \in T
  BY <1>4, <1>5, <1>6
<1> QED BY <1>5, <1>7

\* f begins with a and takes the steps of g.
Iterates(f, n, a, g) == f[0] = a /\ \A i \in 1 .. n : f[i] = g[i][f[i - 1]]

LEMMA Iterated ==
  ASSUME NEW A, NEW n \in Nat, NEW a \in A, NEW g \in [1 .. n -> [A -> A]]
  PROVE  \E f \in [0 .. n -> A] : Iterates(f, n, a, g)
<1> USE DEF Iterates
<1> DEFINE Upto(k) == \E f \in [0 .. k -> A] :
                        f[0] = a /\ \A i \in 1 .. k : f[i] = g[i][f[i - 1]]
           T == {k \in 0 .. n : Upto(k)}
<1>1. 0 \in T
  <2> DEFINE h == [i \in 0 .. 0 |-> a]
  <2>1. h \in [0 .. 0 -> A] /\ h[0] = a /\ 1 .. 0 = {}
    OBVIOUS
  <2>2. Upto(0)
    <3> HIDE DEF h
    <3> QED BY <2>1
  <2> QED BY <2>2
<1>2. ASSUME NEW k \in 0 .. n - 1, k \in T PROVE k + 1 \in T
  <2>1. PICK f \in [0 .. k -> A] :
          f[0] = a /\ \A i \in 1 .. k : f[i] = g[i][f[i - 1]]
    BY <1>2
  <2> DEFINE h == [i \in 0 .. k + 1 |-> IF i <= k THEN f[i] ELSE g[k + 1][f[k]]]
  <2>2. h \in [0 .. k + 1 -> A]
    <3>1. g[k + 1] \in [A -> A]
      BY <1>2
    <3> QED BY <3>1
  <2>3. h[0] = a
    BY <2>1
  <2>4. ASSUME NEW i \in 1 .. k + 1 PROVE h[i] = g[i][h[i - 1]]
    <3>1. CASE i <= k
      <4>1. i \in 1 .. k /\ i - 1 \in 0 .. k
        BY <3>1
      <4>2. h[i] = f[i] /\ h[i - 1] = f[i - 1]
        BY <3>1, <4>1
      <4> QED BY <2>1, <4>1, <4>2
    <3>2. CASE i = k + 1
      <4>1. h[i] = g[k + 1][f[k]] /\ h[k] = f[k] /\ i - 1 = k
        BY <3>2
      <4> QED BY <3>2, <4>1
    <3> QED BY <3>1, <3>2
  <2>5. Upto(k + 1)
    <3> HIDE DEF h
    <3> QED BY <2>2, <2>3, <2>4
  <2> HIDE DEF Upto
  <2> QED BY <2>5
<1>3. \A i \in 0 .. n : i \in T
  <2> HIDE DEF T
  <2> QED BY <1>1, <1>2, CountingUp
<1> QED
  <2>1. n \in T
    <3> HIDE DEF T
    <3> QED BY <1>3
  <2> QED BY <2>1

------------------------------------------------------------------------------
(* Sequences *)

LEMMA Joined ==
  ASSUME NEW A, NEW s \in Seq(A), NEW t \in Seq(A)
  PROVE  s \o t \in Seq(A) /\ ToSet(s \o t) = ToSet(s) \cup ToSet(t)
<1>1. s \o t \in Seq(A) /\ Len(s \o t) = Len(s) + Len(t)
  OBVIOUS
<1>2. ASSUME NEW i \in DOMAIN s PROVE i \in DOMAIN (s \o t) /\ (s \o t)[i] = s[i]
  OBVIOUS
<1>3. ASSUME NEW i \in DOMAIN t
      PROVE  Len(s) + i \in DOMAIN (s \o t) /\ (s \o t)[Len(s) + i] = t[i]
  OBVIOUS
<1>4. ASSUME NEW i \in DOMAIN (s \o t)
      PROVE  (s \o t)[i] \in ToSet(s) \cup ToSet(t)
  <2>1. CASE i <= Len(s)
    BY <2>1 DEF ToSet
  <2>2. CASE i > Len(s)
    <3>1. i - Len(s) \in DOMAIN t /\ (s \o t)[i] = t[i - Len(s)]
      BY <1>1, <2>2
    <3> QED BY <3>1 DEF ToSet
  <2> QED BY <1>1, <2>1, <2>2
<1>5. ToSet(s) \cup ToSet(t) \subseteq ToSet(s \o t)
  BY <1>2, <1>3 DEF ToSet
<1> QED BY <1>1, <1>4, <1>5 DEF ToSet

LEMMA Appended ==
  ASSUME NEW A, NEW s \in Seq(A), NEW a \in A
  PROVE  /\ Append(s, a) \in Seq(A) /\ ToSet(Append(s, a)) = ToSet(s) \cup {a}
         /\ DOMAIN Append(s, a) = DOMAIN s \cup {Len(s) + 1}
         /\ Len(s) + 1 \notin DOMAIN s
         /\ Append(s, a)[Len(s) + 1] = a
         /\ \A i \in DOMAIN s : Append(s, a)[i] = s[i]
<1>1. /\ DOMAIN Append(s, a) = DOMAIN s \cup {Len(s) + 1}
      /\ Len(s) + 1 \notin DOMAIN s
  OBVIOUS
<1>2. /\ Append(s, a)[Len(s) + 1] = a
      /\ \A i \in DOMAIN s : Append(s, a)[i] = s[i]
  OBVIOUS
<1> QED BY <1>1, <1>2 DEF ToSet

LEMMA Flattened ==
  ASSUME NEW A, NEW seqs \in Seq(Seq(A))
  PROVE  \E f \in [0 .. Len(seqs) -> Seq(A)] :
           /\ f[0] = <<>>
           /\ \A i \in 0 .. Len(seqs) - 1 : f[i + 1] = f[i] \o seqs[i + 1]
           /\ FlattenSeq(seqs) = f[Len(seqs)]
<1>n. PICK n \in Nat : n = Len(seqs) /\ \A i \in 1 .. n : seqs[i] \in Seq(A)
  OBVIOUS
<1> DEFINE g == [i \in 1 .. n |-> [s \in Seq(A) |-> s \o seqs[i]]]
<1>1. n \in Nat /\ <<>> \in Seq(A) /\ g \in [1 .. n -> [Seq(A) -> Seq(A)]]
  BY <1>n
<1>2. PICK f \in [0 .. n -> Seq(A)] :
        f[0] = <<>> /\ \A i \in 1 .. n : f[i] = g[i][f[i - 1]]
  <2> DEFINE S == Seq(A)
  <2>1. <<>> \in S /\ g \in [1 .. n -> [S -> S]]
    BY <1>1
  <2> HIDE DEF g, S
  <2>2. \E f \in [0 .. n -> S] : Iterates(f, n, <<>>, g)
    BY <2>1, Iterated, Zenon
  <2> QED BY <2>2 DEF S, Iterates
<1>3. ASSUME NEW i \in 1 .. n
      PROVE  i - 1 \in 0 .. n /\ f[i - 1] \in Seq(A) /\ f[i] = f[i - 1] \o seqs[i]
  <2>1. i - 1 \in 0 .. n /\ f[i - 1] \in Seq(A) /\ f[i] = g[i][f[i - 1]]
    <3> HIDE DEF g
    <3> QED BY <1>2
  <2> QED BY <2>1
<1>4. ASSUME NEW i \in 0 .. n - 1 PROVE f[i + 1] = f[i] \o seqs[i + 1]
  <2>1. PICK j \in 1 .. n : j = i + 1 /\ j - 1 = i
    OBVIOUS
  <2>2. f[j] = f[j - 1] \o seqs[j]
    BY <1>3
  <2> QED BY <2>1, <2>2
<1>c. CASE n = 0
  <2>1. seqs = <<>> /\ n = 0
    BY <1>n, <1>c, EmptySeq
  <2>2. FlattenSeq(seqs) = <<>>
    BY <1>n, <2>1 DEF FlattenSeq
  <2> QED BY <1>n, <1>2, <1>4, <2>1, <2>2
<1>5. CASE n # 0
  <2> DEFINE Is(h) == h = [i \in 1 .. n |-> IF i = 1 THEN seqs[i] ELSE h[i - 1] \o seqs[i]]
             h == CHOOSE h : Is(h)
             k == [i \in 1 .. n |-> f[i]]
  <2>1. FlattenSeq(seqs) = h[n]
    BY <1>n, <1>5 DEF FlattenSeq
  <2>2. \A i \in 1 .. n : k[i] = IF i = 1 THEN seqs[i] ELSE k[i - 1] \o seqs[i]
    <3>1. f[1] = seqs[1]
      <4>1. 1 \in 1 .. n /\ seqs[1] \in Seq(A)
        BY <1>n, <1>5
      <4>2. \A i \in 1 .. n, j \in 0 .. n : j = i - 1 => f[i] = f[j] \o seqs[i]
        BY <1>3
      <4>3. f[1] = f[0] \o seqs[1]
        BY <4>1, <4>2
      <4>4. \A s \in Seq(A) : <<>> \o s = s
        OBVIOUS
      <4> QED BY <1>2, <4>1, <4>3, <4>4
    <3>2. \A i \in 1 .. n : i # 1 => i - 1 \in 1 .. n
      BY <1>1
    <3> QED BY <1>3, <3>1, <3>2
  <2>3. Is(h)
    <3>1. Is(k)
      BY <2>2
    <3> QED BY <3>1
  <2>h. \A i \in 1 .. n : h[i] = IF i = 1 THEN seqs[i] ELSE h[i - 1] \o seqs[i]
    <3> HIDE DEF h
    <3> QED BY <2>3
  <2>f. \A i \in 1 .. n : f[i] = IF i = 1 THEN seqs[i] ELSE f[i - 1] \o seqs[i]
    <3>1. \A i \in 1 .. n : i # 1 => i - 1 \in 1 .. n
      OBVIOUS
    <3> QED BY <2>2, <3>1
  <2> HIDE DEF h, Is
  <2> DEFINE T == {i \in 0 .. n : i # 0 => h[i] = f[i]}
  <2>4. \A i \in 0 .. n : i \in T
    <3>1. 0 \in T
      OBVIOUS
    <3>2. ASSUME NEW i \in 0 .. n - 1, i \in T PROVE i + 1 \in T
      <4>1. i + 1 \in 1 .. n /\ i + 1 # 0 /\ i + 1 - 1 = i /\ (i + 1 = 1 <=> i = 0)
        OBVIOUS
      <4>2. h[i + 1] = IF i + 1 = 1 THEN seqs[i + 1] ELSE h[i + 1 - 1] \o seqs[i + 1]
        BY <2>h, <4>1
      <4>3. f[i + 1] = IF i + 1 = 1 THEN seqs[i + 1] ELSE f[i + 1 - 1] \o seqs[i + 1]
        BY <2>f, <4>1
      <4>4. i # 0 => h[i] = f[i]
        BY <3>2
      <4>5. h[i + 1] = f[i + 1]
        BY <4>1, <4>2, <4>3, <4>4
      <4> QED BY <4>1, <4>5
    <3> HIDE DEF T
    <3> QED BY <3>1, <3>2, CountingUp
  <2>5. h[n] = f[n]
    <3>1. n \in T /\ n # 0
      BY <1>5, <2>4
    <3> QED BY <3>1
  <2> QED BY <1>n, <1>2, <1>4, <2>1, <2>5
<1> QED BY <1>n, <1>c, <1>5

------------------------------------------------------------------------------
(* The links of a document *)

Accumulator == [order : Seq(Web), marks : Seq(Nat), dropped : Nat]

\* What newLinkRule does to each field, in its four cases.
LEMMA Marked ==
  ASSUME NEW acc \in Accumulator, NEW n \in Nat
  PROVE  /\ Mark(acc, n) \in Accumulator
         /\ Mark(acc, n).order = acc.order /\ Mark(acc, n).dropped = acc.dropped
         /\ Mark(acc, n).marks = Append(acc.marks, n)
<1>1. /\ acc.order \in Seq(Web) /\ acc.marks \in Seq(Nat) /\ acc.dropped \in Nat
      /\ acc = [order |-> acc.order, marks |-> acc.marks, dropped |-> acc.dropped]
  BY DEF Accumulator
<1>2. Mark(acc, n) = [order |-> acc.order, marks |-> Append(acc.marks, n),
                      dropped |-> acc.dropped]
  <2>1. \A o : [acc EXCEPT !.marks = o] = [order |-> acc.order, marks |-> o,
                                           dropped |-> acc.dropped]
    BY DEF Accumulator
  <2> QED BY <2>1, Zenon DEF Mark
<1>3. Append(acc.marks, n) \in Seq(Nat)
  BY <1>1
<1> QED BY <1>1, <1>2, <1>3 DEF Accumulator

NotForTheWeb(acc, new, item) ==
  /\ ~ForTheWeb(item)
  /\ new.order = acc.order /\ new.dropped = acc.dropped
  /\ new.marks = Append(acc.marks, 0)
Repeated(acc, new, item) ==
  /\ ForTheWeb(item) /\ item.href \in ToSet(acc.order)
  /\ new.order = acc.order /\ new.dropped = acc.dropped
  /\ \E n \in DOMAIN acc.order :
       acc.order[n] = item.href /\ new.marks = Append(acc.marks, n)
Refused(acc, new, item) ==
  /\ ForTheWeb(item) /\ item.href \notin ToSet(acc.order) /\ Len(acc.order) >= maxLinks
  /\ new.order = acc.order /\ new.dropped = acc.dropped + 1
  /\ new.marks = Append(acc.marks, 0)
Listed(acc, new, item) ==
  /\ ForTheWeb(item) /\ item.href \notin ToSet(acc.order) /\ Len(acc.order) < maxLinks
  /\ new.order = Append(acc.order, item.href) /\ new.dropped = acc.dropped
  /\ new.marks = Append(acc.marks, Len(acc.order) + 1)

LEMMA LinkRule ==
  ASSUME NEW acc \in Accumulator, NEW item, NEW new, new = newLinkRule(acc, item)
  PROVE  /\ new \in Accumulator
         /\ \/ NotForTheWeb(acc, new, item) \/ Repeated(acc, new, item)
            \/ Refused(acc, new, item) \/ Listed(acc, new, item)
<1>a. /\ acc.order \in Seq(Web) /\ acc.marks \in Seq(Nat) /\ acc.dropped \in Nat
      /\ maxLinks \in Nat /\ Len(acc.order) \in Nat /\ DOMAIN acc.order \subseteq Nat
  BY HrefAssumption DEF Accumulator
<1>b. Indexed(acc, item.href) <=> item.href \in ToSet(acc.order)
  BY DEF Indexed, ToSet
<1>1. CASE ~ForTheWeb(item)
  <2>1. new = Mark(acc, 0)
    BY <1>1 DEF newLinkRule
  <2>2. /\ Mark(acc, 0) \in Accumulator /\ Mark(acc, 0).order = acc.order
        /\ Mark(acc, 0).dropped = acc.dropped /\ Mark(acc, 0).marks = Append(acc.marks, 0)
    BY Marked
  <2> QED BY <1>1, <2>1, <2>2, Zenon DEF NotForTheWeb
<1>2. CASE ForTheWeb(item) /\ Indexed(acc, item.href)
  <2>1. new = Mark(acc, IndexOf(acc, item.href))
    BY <1>2 DEF newLinkRule, add
  <2>2. PICK n \in DOMAIN acc.order : n = IndexOf(acc, item.href) /\ acc.order[n] = item.href
    BY <1>2 DEF Indexed, IndexOf
  <2>3. n \in Nat
    BY <1>a
  <2> QED BY <1>2, <1>b, <2>1, <2>2, <2>3, Marked DEF Repeated
<1>3. CASE ForTheWeb(item) /\ ~Indexed(acc, item.href) /\ Full(acc)
  <2> DEFINE plain == Mark(acc, 0)
  <2>1. new = [plain EXCEPT !.dropped = @ + 1]
    BY <1>3 DEF newLinkRule, add
  <2>2. /\ plain \in Accumulator /\ plain.order = acc.order
        /\ plain.dropped = acc.dropped /\ plain.marks = Append(acc.marks, 0)
    BY Marked
  <2> HIDE DEF plain
  <2>3. new = [order |-> plain.order, marks |-> plain.marks, dropped |-> plain.dropped + 1]
    BY <2>1, <2>2 DEF Accumulator
  <2>4. new \in Accumulator
    BY <2>2, <2>3 DEF Accumulator
  <2>5. Len(acc.order) >= maxLinks
    BY <1>3 DEF Full
  <2> QED BY <1>3, <1>b, <2>2, <2>3, <2>4, <2>5 DEF Refused
<1>4. CASE ForTheWeb(item) /\ ~Indexed(acc, item.href) /\ ~Full(acc)
  <2> DEFINE more == [acc EXCEPT !.order = Append(@, item.href)]
  <2>1. new = Mark(more, Len(acc.order) + 1)
    BY <1>4 DEF newLinkRule, add
  <2>2. item.href \in Web
    BY <1>4 DEF ForTheWeb
  <2>3. more = [order |-> Append(acc.order, item.href), marks |-> acc.marks,
                dropped |-> acc.dropped]
    <3>1. \A o : [acc EXCEPT !.order = o] = [order |-> o, marks |-> acc.marks,
                                             dropped |-> acc.dropped]
      BY DEF Accumulator
    <3> QED BY <3>1, Zenon
  <2>4. more \in Accumulator
    <3>1. Append(acc.order, item.href) \in Seq(Web)
      BY <1>a, <2>2
    <3> QED BY <1>a, <2>3, <3>1 DEF Accumulator
  <2>5. /\ new \in Accumulator /\ new.order = more.order
        /\ new.dropped = more.dropped /\ new.marks = Append(more.marks, Len(acc.order) + 1)
    <3> HIDE DEF more
    <3>1. PICK k \in Nat : k = Len(acc.order) + 1
      BY <1>a
    <3>2. new = Mark(more, k)
      BY <2>1, <3>1
    <3>3. /\ Mark(more, k) \in Accumulator /\ Mark(more, k).order = more.order
          /\ Mark(more, k).dropped = more.dropped
          /\ Mark(more, k).marks = Append(more.marks, k)
      BY <2>4, Marked, Zenon
    <3> QED BY <3>1, <3>2, <3>3, Zenon
  <2>6. Len(acc.order) < maxLinks
    BY <1>4, <1>a DEF Full
  <2> QED BY <1>4, <1>b, <2>3, <2>5, <2>6 DEF Listed
<1> QED BY <1>1, <1>2, <1>3, <1>4

\* Accumulate reads a document item by item.
Reads(f, n, html) ==
  f[0] = NoLinks /\ \A i \in 1 .. n : f[i] = newLinkRule(f[i - 1], html[i])

LEMMA AccumulateReads ==
  ASSUME NEW html \in Seq(Item), NEW n \in Nat, n = Len(html)
  PROVE  \E f \in [0 .. n -> Accumulator] : Reads(f, n, html) /\ Accumulate(html) = f[n]
<1> DEFINE g == [i \in 1 .. n |-> [acc \in Accumulator |-> newLinkRule(acc, html[i])]]
<1>1. NoLinks \in Accumulator /\ g \in [1 .. n -> [Accumulator -> Accumulator]]
  <2>1. NoLinks \in Accumulator
    BY DEF NoLinks, Accumulator
  <2>2. \A i \in 1 .. n, acc \in Accumulator : newLinkRule(acc, html[i]) \in Accumulator
    BY LinkRule
  <2> QED BY <2>1, <2>2
<1>2. PICK f \in [0 .. n -> Accumulator] : Iterates(f, n, NoLinks, g)
  <2> HIDE DEF g
  <2> QED BY <1>1, Iterated, Zenon
<1>3. f[0] = NoLinks
  BY <1>2 DEF Iterates
<1>4. ASSUME NEW i \in 1 .. n
      PROVE  i - 1 \in 0 .. n /\ f[i] = newLinkRule(f[i - 1], html[i])
  <2>1. i - 1 \in 0 .. n /\ f[i - 1] \in Accumulator
    OBVIOUS
  <2>2. f[i] = g[i][f[i - 1]]
    <3> HIDE DEF g
    <3> QED BY <1>2, Zenon DEF Iterates
  <2>3. \A acc \in Accumulator : g[i][acc] = newLinkRule(acc, html[i])
    BY Zenon
  <2> HIDE DEF g
  <2> QED BY <2>1, <2>2, <2>3, Zenon
<1> DEFINE Is(h) == h = [i \in 0 .. n |-> IF i = 0 THEN NoLinks
                                         ELSE newLinkRule(h[i - 1], html[i])]
           h == CHOOSE h : Is(h)
<1>5. Accumulate(html) = h[n]
  BY DEF Accumulate
<1>6. Is(h)
  <2>1. \A i \in 0 .. n : f[i] = IF i = 0 THEN NoLinks ELSE newLinkRule(f[i - 1], html[i])
    <3>1. ASSUME NEW i \in 0 .. n, i # 0 PROVE i \in 1 .. n
      BY <3>1
    <3> QED BY <1>3, <1>4, <3>1, Zenon
  <2>2. Is(f)
    <3>1. f = [i \in 0 .. n |-> f[i]]
      BY Zenon
    <3> QED BY <2>1, <3>1, Zenon
  <2> QED BY <2>2
<1> HIDE DEF h
<1>7. \A i \in 0 .. n : h[i] = IF i = 0 THEN NoLinks ELSE newLinkRule(h[i - 1], html[i])
  BY <1>6, Zenon
<1> DEFINE T == {i \in 0 .. n : h[i] = f[i]}
<1>8. \A i \in 0 .. n : i \in T
  <2>1. 0 \in T
    BY <1>3, <1>7
  <2>2. ASSUME NEW i \in 0 .. n - 1, i \in T PROVE i + 1 \in T
    <3>1. PICK j \in 1 .. n : j = i + 1 /\ j - 1 = i /\ j \in 0 .. n /\ j # 0
      OBVIOUS
    <3>2. h[j] = newLinkRule(h[j - 1], html[j]) /\ f[j] = newLinkRule(f[j - 1], html[j])
      BY <1>4, <1>7, <3>1, Zenon
    <3>3. h[i] = f[i]
      BY <2>2
    <3> QED BY <3>1, <3>2, <3>3
  <2> HIDE DEF T
  <2> QED BY <2>1, <2>2, CountingUp
<1>9. h[n] = f[n]
  <2>1. n \in T
    <3> HIDE DEF T
    <3> QED BY <1>8
  <2> QED BY <2>1
<1> QED BY <1>3, <1>4, <1>5, <1>9 DEF Reads

\* What the accumulator holds of the first i items of a document.
InOrder(html, order) ==
  \A m, n \in DOMAIN order : m < n => Before(html, order[m], order[n])
CutOff(html, left, order) ==
  \A href \in left :
    Len(order) = maxLinks /\ \A n \in DOMAIN order : Before(html, order[n], href)
Numbered(item, mark, order) ==
  IF ForTheWeb(item) /\ item.href \in ToSet(order)
  THEN mark \in DOMAIN order /\ order[mark] = item.href
  ELSE mark = 0
Holds(html, i, acc) ==
  /\ Len(acc.marks) = i /\ Len(acc.order) <= maxLinks
  /\ ToSet(acc.order) \subseteq Appeared(html, i)
  /\ InOrder(html, acc.order)
  /\ CutOff(html, Appeared(html, i) \ ToSet(acc.order), acc.order)
  /\ \A k \in 1 .. i : Numbered(html[k], acc.marks[k], acc.order)
  /\ acc.dropped > 0 <=> Appeared(html, i) \ ToSet(acc.order) # {}

LEMMA OneMore ==
  ASSUME NEW html, NEW i \in Nat
  PROVE  /\ ~ForTheWeb(html[i + 1]) => Appeared(html, i + 1) = Appeared(html, i)
         /\ ForTheWeb(html[i + 1]) =>
              Appeared(html, i + 1) = Appeared(html, i) \cup {html[i + 1].href}
<1>1. 1 .. i + 1 = (1 .. i) \cup {i + 1}
  OBVIOUS
<1> QED BY <1>1 DEF Appeared

\* What has appeared comes before what has not.
LEMMA EarlierIsBefore ==
  ASSUME NEW html \in Seq(Item), NEW i \in 0 .. Len(html),
         NEW href \in Appeared(html, i), NEW other, other \notin Appeared(html, i)
  PROVE  Before(html, href, other)
<1>1. PICK k \in 1 .. i : ForTheWeb(html[k]) /\ html[k].href = href
  BY DEF Appeared
<1>2. k \in DOMAIN html
  OBVIOUS
<1>3. \A j \in 1 .. k : ~HasLink(html, j, other)
  <2>1. \A j \in 1 .. k : j \in 1 .. i
    OBVIOUS
  <2> QED BY <2>1 DEF HasLink, Appeared
<1> QED BY <1>1, <1>2, <1>3 DEF Before, HasLink

LEMMA HoldsStep ==
  ASSUME NEW html \in Seq(Item), NEW i \in 0 .. Len(html) - 1,
         NEW acc \in Accumulator, Holds(html, i, acc),
         NEW new, new = newLinkRule(acc, html[i + 1])
  PROVE  Holds(html, i + 1, new)
<1> DEFINE item == html[i + 1]
           left == Appeared(html, i) \ ToSet(acc.order)
<1>i. /\ i \in Nat /\ i \in 0 .. Len(html) /\ maxLinks \in Nat
      /\ acc.order \in Seq(Web) /\ acc.marks \in Seq(Nat) /\ acc.dropped \in Nat
      /\ Len(acc.order) \in Nat /\ Len(acc.marks) = i
  BY HrefAssumption DEF Accumulator, Holds
<1>h. /\ Len(acc.order) <= maxLinks
      /\ ToSet(acc.order) \subseteq Appeared(html, i)
      /\ InOrder(html, acc.order) /\ CutOff(html, left, acc.order)
      /\ \A k \in 1 .. i : Numbered(html[k], acc.marks[k], acc.order)
      /\ acc.dropped > 0 <=> left # {}
  BY DEF Holds
\* The marks so far stay, and one comes after them.
<1>m. ASSUME NEW n \in Nat, new.marks = Append(acc.marks, n)
      PROVE  /\ Len(new.marks) = i + 1 /\ new.marks[i + 1] = n
             /\ \A k \in 1 .. i : new.marks[k] = acc.marks[k]
             /\ \A k \in 1 .. i + 1 : k \in 1 .. i \/ k = i + 1
  BY <1>i, <1>m
<1>s. ASSUME new.order = acc.order, NEW n \in Nat, new.marks = Append(acc.marks, n),
             Numbered(item, n, acc.order)
      PROVE  /\ Len(new.marks) = i + 1 /\ Len(new.order) <= maxLinks
             /\ \A k \in 1 .. i + 1 : Numbered(html[k], new.marks[k], new.order)
  <2>1. /\ Len(new.marks) = i + 1 /\ new.marks[i + 1] = n
        /\ \A k \in 1 .. i : new.marks[k] = acc.marks[k]
        /\ \A k \in 1 .. i + 1 : k \in 1 .. i \/ k = i + 1
    BY <1>m, <1>s
  <2> QED BY <1>h, <1>s, <2>1
<1> HIDE DEF item, left
<1>1. CASE NotForTheWeb(acc, new, item)
  <2>1. /\ ~ForTheWeb(item) /\ new.order = acc.order /\ new.dropped = acc.dropped
        /\ new.marks = Append(acc.marks, 0) /\ 0 \in Nat
    BY <1>1 DEF NotForTheWeb
  <2>2. Appeared(html, i + 1) = Appeared(html, i)
    BY <1>i, <2>1, OneMore DEF item
  <2>3. Numbered(item, 0, acc.order)
    BY <2>1 DEF Numbered
  <2>4. /\ Len(new.marks) = i + 1 /\ Len(new.order) <= maxLinks
        /\ \A k \in 1 .. i + 1 : Numbered(html[k], new.marks[k], new.order)
    BY <1>s, <2>1, <2>3
  <2> QED BY <1>h, <2>1, <2>2, <2>4, Zenon DEF Holds, left
<1>2. CASE Repeated(acc, new, item)
  <2>1. PICK n \in DOMAIN acc.order :
          acc.order[n] = item.href /\ new.marks = Append(acc.marks, n)
    BY <1>2 DEF Repeated
  <2>2. /\ ForTheWeb(item) /\ item.href \in ToSet(acc.order)
        /\ new.order = acc.order /\ new.dropped = acc.dropped
    BY <1>2 DEF Repeated
  <2>3. Appeared(html, i + 1) = Appeared(html, i)
    <3>1. Appeared(html, i + 1) = Appeared(html, i) \cup {item.href}
      BY <1>i, <2>2, OneMore DEF item
    <3> QED BY <1>h, <2>2, <3>1
  <2>4. n \in Nat /\ Numbered(item, n, acc.order)
    BY <1>i, <2>1, <2>2 DEF Numbered
  <2>5. /\ Len(new.marks) = i + 1 /\ Len(new.order) <= maxLinks
        /\ \A k \in 1 .. i + 1 : Numbered(html[k], new.marks[k], new.order)
    BY <1>s, <2>1, <2>2, <2>4
  <2> QED BY <1>h, <2>2, <2>3, <2>5, Zenon DEF Holds, left
<1>3. CASE Refused(acc, new, item)
  <2>1. /\ ForTheWeb(item) /\ item.href \notin ToSet(acc.order)
        /\ new.order = acc.order /\ new.dropped = acc.dropped + 1
        /\ new.marks = Append(acc.marks, 0) /\ 0 \in Nat
        /\ Len(acc.order) = maxLinks
    BY <1>3, <1>i, <1>h DEF Refused
  <2>2. Appeared(html, i + 1) = Appeared(html, i) \cup {item.href}
    BY <1>i, <2>1, OneMore DEF item
  <2>3. Numbered(item, 0, acc.order)
    BY <2>1 DEF Numbered
  <2>4. /\ Len(new.marks) = i + 1 /\ Len(new.order) <= maxLinks
        /\ \A k \in 1 .. i + 1 : Numbered(html[k], new.marks[k], new.order)
    BY <1>s, <2>1, <2>3
  <2>5. ASSUME NEW href \in Appeared(html, i + 1) \ ToSet(new.order),
               NEW n \in DOMAIN new.order
        PROVE  Before(html, new.order[n], href)
    <3>1. CASE href \in Appeared(html, i)
      <4>1. href \in left /\ n \in DOMAIN acc.order
        BY <2>1, <2>5, <3>1 DEF left
      <4> QED BY <1>h, <2>1, <4>1 DEF CutOff
    <3>2. CASE href \notin Appeared(html, i)
      <4>1. new.order[n] \in Appeared(html, i)
        BY <1>h, <2>1, <2>5 DEF ToSet
      <4> QED BY <1>i, <3>2, <4>1, EarlierIsBefore
    <3> QED BY <3>1, <3>2
  <2>6. CutOff(html, Appeared(html, i + 1) \ ToSet(new.order), new.order)
    BY <2>1, <2>5, Zenon DEF CutOff
  <2>7. new.dropped > 0 /\ Appeared(html, i + 1) \ ToSet(new.order) # {}
    BY <1>i, <2>1, <2>2
  <2>8. ToSet(new.order) \subseteq Appeared(html, i + 1)
    BY <1>h, <2>1, <2>2
  <2> QED BY <1>h, <2>1, <2>4, <2>6, <2>7, <2>8, Zenon DEF Holds
<1>4. CASE Listed(acc, new, item)
  <2>1. /\ ForTheWeb(item) /\ item.href \notin ToSet(acc.order)
        /\ new.order = Append(acc.order, item.href) /\ new.dropped = acc.dropped
        /\ new.marks = Append(acc.marks, Len(acc.order) + 1)
        /\ Len(acc.order) < maxLinks /\ item.href \in Web
    BY <1>4 DEF Listed, ForTheWeb
  <2>2. left = {} /\ Appeared(html, i) = ToSet(acc.order)
    <3>1. Len(acc.order) # maxLinks
      BY <1>i, <2>1
    <3>2. left = {}
      BY <1>h, <3>1 DEF CutOff
    <3> QED BY <1>h, <3>2 DEF left
  <2>3. PICK n \in Nat : n = Len(acc.order) + 1
    BY <1>i
  <2>4. /\ ToSet(new.order) = ToSet(acc.order) \cup {item.href}
        /\ DOMAIN new.order = DOMAIN acc.order \cup {n}
        /\ n \notin DOMAIN acc.order /\ new.order[n] = item.href
        /\ \A k \in DOMAIN acc.order : new.order[k] = acc.order[k]
    BY <1>i, <2>1, <2>3, Appended
  <2>5. Appeared(html, i + 1) = ToSet(new.order)
    <3>1. Appeared(html, i + 1) = Appeared(html, i) \cup {item.href}
      BY <1>i, <2>1, OneMore DEF item
    <3> QED BY <2>2, <2>4, <3>1
  <2>6. InOrder(html, new.order)
    <3> SUFFICES ASSUME NEW m \in DOMAIN new.order, NEW k \in DOMAIN new.order, m < k
                 PROVE  Before(html, new.order[m], new.order[k])
      BY DEF InOrder
    <3>1. DOMAIN acc.order = 1 .. n - 1
      BY <1>i, <2>3
    <3>2. CASE k \in DOMAIN acc.order
      <4>1. m \in DOMAIN acc.order
        BY <2>3, <2>4, <3>1, <3>2
      <4> QED BY <1>h, <2>4, <3>2, <4>1 DEF InOrder
    <3>3. CASE k = n
      <4>1. m \in DOMAIN acc.order
        BY <2>3, <2>4, <3>1, <3>3
      <4>2. new.order[m] \in Appeared(html, i) /\ item.href \notin Appeared(html, i)
        BY <2>1, <2>2, <2>4, <4>1 DEF ToSet
      <4> QED BY <1>i, <2>4, <3>3, <4>2, EarlierIsBefore
    <3> QED BY <2>4, <3>2, <3>3
  <2>7. /\ Len(new.marks) = i + 1 /\ new.marks[i + 1] = n
        /\ \A k \in 1 .. i : new.marks[k] = acc.marks[k]
        /\ \A k \in 1 .. i + 1 : k \in 1 .. i \/ k = i + 1
    BY <1>m, <2>1, <2>3
  <2>8. ASSUME NEW k \in 1 .. i + 1 PROVE Numbered(html[k], new.marks[k], new.order)
    <3>1. CASE k = i + 1
      <4>1. html[k] = item /\ new.marks[k] = n
        BY <2>7, <3>1 DEF item
      <4>2. n \in DOMAIN new.order /\ new.order[n] = item.href
        BY <2>4
      <4> QED BY <2>1, <2>4, <4>1, <4>2, Zenon DEF Numbered
    <3>2. CASE k \in 1 .. i
      <4>1. Numbered(html[k], acc.marks[k], acc.order) /\ new.marks[k] = acc.marks[k]
        BY <1>h, <2>7, <3>2
      <4>2. CASE ForTheWeb(html[k])
        <5>1. html[k].href \in ToSet(acc.order)
          BY <2>2, <3>2, <4>2 DEF Appeared
        <5>2. acc.marks[k] \in DOMAIN acc.order /\ acc.order[acc.marks[k]] = html[k].href
          BY <4>1, <4>2, <5>1 DEF Numbered
        <5> QED BY <2>4, <4>1, <4>2, <5>1, <5>2 DEF Numbered
      <4>3. CASE ~ForTheWeb(html[k])
        BY <4>1, <4>3 DEF Numbered
      <4> QED BY <4>2, <4>3
    <3> QED BY <2>7, <3>1, <3>2
  <2>9. Len(new.order) <= maxLinks
    BY <1>i, <2>1
  <2>10. /\ Appeared(html, i + 1) \ ToSet(new.order) = {} /\ ~ (new.dropped > 0)
         /\ CutOff(html, Appeared(html, i + 1) \ ToSet(new.order), new.order)
    BY <1>h, <2>1, <2>2, <2>5 DEF CutOff
  <2> QED BY <2>5, <2>6, <2>7, <2>8, <2>9, <2>10, Zenon DEF Holds
<1> QED BY <1>1, <1>2, <1>3, <1>4, LinkRule DEF item

LEMMA AccumulateHolds ==
  ASSUME NEW html \in Seq(Item)
  PROVE  Accumulate(html) \in Accumulator /\ Holds(html, Len(html), Accumulate(html))
<1>n. PICK n \in Nat : n = Len(html)
  OBVIOUS
<1>1. PICK f \in [0 .. n -> Accumulator] : Reads(f, n, html) /\ Accumulate(html) = f[n]
  BY <1>n, AccumulateReads
<1> DEFINE T == {i \in 0 .. n : Holds(html, i, f[i])}
<1>2. 0 \in T
  <2>1. f[0] = NoLinks /\ 1 .. 0 = {} /\ maxLinks \in Nat
    BY <1>1, HrefAssumption DEF Reads
  <2>2. ToSet(NoLinks.order) = {} /\ Appeared(html, 0) = {}
    BY <2>1 DEF NoLinks, ToSet, Appeared
  <2>3. /\ Len(NoLinks.marks) = 0 /\ Len(NoLinks.order) = 0
        /\ NoLinks.dropped = 0 /\ DOMAIN NoLinks.order = {}
    BY DEF NoLinks
  <2> QED BY <2>1, <2>2, <2>3 DEF Holds, InOrder, CutOff
<1>3. ASSUME NEW i \in 0 .. n - 1, i \in T PROVE i + 1 \in T
  <2>1. PICK j \in 1 .. n : j = i + 1 /\ j - 1 = i /\ j \in 0 .. n /\ i \in 0 .. n
    OBVIOUS
  <2>2. f[j] = newLinkRule(f[j - 1], html[j])
    BY <1>1 DEF Reads
  <2>3. f[j] = newLinkRule(f[i], html[i + 1])
    BY <2>1, <2>2
  <2>4. f[i] \in Accumulator /\ Holds(html, i, f[i]) /\ i \in 0 .. Len(html) - 1
    BY <1>n, <1>3, <2>1
  <2>5. Holds(html, i + 1, f[j])
    BY <2>3, <2>4, HoldsStep
  <2> QED BY <2>1, <2>5
<1>4. Holds(html, n, f[n]) /\ f[n] \in Accumulator
  <2>1. \A i \in 0 .. n : i \in T
    <3> HIDE DEF T
    <3> QED BY <1>2, <1>3, CountingUp
  <2> QED BY <2>1
<1> QED BY <1>n, <1>1, <1>4

------------------------------------------------------------------------------
(* Sums *)

Sums(f, n, lens) == f[0] = 0 /\ \A i \in 1 .. n : f[i] = f[i - 1] + lens[i]

LEMMA SumRuns ==
  ASSUME NEW lens \in Seq(Int), NEW n \in Nat, n = Len(lens)
  PROVE  \E f \in [0 .. n -> Int] : Sums(f, n, lens) /\ Sum(lens) = f[n]
<1>n. \A i \in 1 .. n : lens[i] \in Int
  OBVIOUS
<1> DEFINE g == [i \in 1 .. n |-> [k \in Int |-> k + lens[i]]]
<1>1. 0 \in Int /\ g \in [1 .. n -> [Int -> Int]]
  BY <1>n
<1>2. PICK f \in [0 .. n -> Int] : Iterates(f, n, 0, g)
  <2> HIDE DEF g
  <2> QED BY <1>1, Iterated, Zenon
<1>3. f[0] = 0
  BY <1>2 DEF Iterates
<1>4. ASSUME NEW i \in 1 .. n
      PROVE  i - 1 \in 0 .. n /\ f[i] = f[i - 1] + lens[i]
  <2>1. i - 1 \in 0 .. n /\ f[i - 1] \in Int
    OBVIOUS
  <2>2. f[i] = g[i][f[i - 1]]
    <3> HIDE DEF g
    <3> QED BY <1>2, Zenon DEF Iterates
  <2>3. \A k \in Int : g[i][k] = k + lens[i]
    BY Zenon
  <2> HIDE DEF g
  <2> QED BY <2>1, <2>2, <2>3, Zenon
<1> DEFINE Is(h) == h = [i \in 0 .. n |-> IF i = 0 THEN 0 ELSE h[i - 1] + lens[i]]
           h == CHOOSE h : Is(h)
<1>5. Sum(lens) = h[n]
  BY DEF Sum
<1>6. Is(h)
  <2>1. \A i \in 0 .. n : f[i] = IF i = 0 THEN 0 ELSE f[i - 1] + lens[i]
    <3>1. ASSUME NEW i \in 0 .. n, i # 0 PROVE i \in 1 .. n
      BY <3>1
    <3> QED BY <1>3, <1>4, <3>1, Zenon
  <2>2. Is(f)
    <3>1. f = [i \in 0 .. n |-> f[i]]
      BY Zenon
    <3> QED BY <2>1, <3>1, Zenon
  <2> QED BY <2>2
<1> HIDE DEF h
<1>7. \A i \in 0 .. n : h[i] = IF i = 0 THEN 0 ELSE h[i - 1] + lens[i]
  BY <1>6, Zenon
<1> DEFINE T == {i \in 0 .. n : h[i] = f[i]}
<1>8. \A i \in 0 .. n : i \in T
  <2>1. 0 \in T
    BY <1>3, <1>7
  <2>2. ASSUME NEW i \in 0 .. n - 1, i \in T PROVE i + 1 \in T
    <3>1. PICK j \in 1 .. n : j = i + 1 /\ j - 1 = i /\ j \in 0 .. n /\ j # 0
      OBVIOUS
    <3>2. h[j] = h[j - 1] + lens[j] /\ f[j] = f[j - 1] + lens[j]
      BY <1>4, <1>7, <3>1, Zenon
    <3>3. h[i] = f[i]
      BY <2>2
    <3> QED BY <3>1, <3>2, <3>3
  <2> HIDE DEF T
  <2> QED BY <2>1, <2>2, CountingUp
<1>9. h[n] = f[n]
  <2>1. n \in T
    <3> HIDE DEF T
    <3> QED BY <1>8
  <2> QED BY <2>1
<1> QED BY <1>3, <1>4, <1>5, <1>9 DEF Sums

LEMMA SumOfFew ==
  /\ Sum(<<>>) = 0
  /\ \A k \in Int : Sum(<<k>>) = k
<1>1. Sum(<<>>) = 0
  <2>1. <<>> \in Seq(Int) /\ Len(<<>>) = 0
    OBVIOUS
  <2>n. PICK n \in Nat : n = 0 /\ n = Len(<<>>)
    BY <2>1
  <2>2. PICK f \in [0 .. n -> Int] : Sums(f, n, <<>>) /\ Sum(<<>>) = f[n]
    BY <2>1, <2>n, SumRuns
  <2> QED BY <2>n, <2>2 DEF Sums
<1>2. ASSUME NEW k \in Int PROVE Sum(<<k>>) = k
  <2> DEFINE s == <<k>>
  <2>1. s \in Seq(Int) /\ Len(s) = 1 /\ s[1] = k
    BY <1>2
  <2> HIDE DEF s
  <2>n. PICK n \in Nat : n = 1 /\ n = Len(s)
    BY <2>1
  <2>2. PICK f \in [0 .. n -> Int] : Sums(f, n, s) /\ Sum(s) = f[n]
    BY <2>1, <2>n, SumRuns
  <2>3. f[0] = 0 /\ f[1] = f[0] + s[1]
    <3>1. 1 \in 1 .. n /\ 1 - 1 = 0
      BY <2>n
    <3> QED BY <2>2, <3>1 DEF Sums
  <2>4. Sum(s) = k
    BY <2>1, <2>n, <2>2, <2>3
  <2> QED BY <2>4 DEF s
<1> QED BY <1>1, <1>2

LEMMA ElementsOf ==
  ASSUME NEW A, NEW s \in Seq(A)
  PROVE  \A i \in DOMAIN s : s[i] \in A
OBVIOUS

LEMMA JoinedAt ==
  ASSUME NEW A, NEW s \in Seq(A), NEW t \in Seq(A), NEW m \in Nat, NEW n \in Nat,
         m = Len(s), n = Len(t)
  PROVE  /\ s \o t \in Seq(A) /\ Len(s \o t) = m + n
         /\ \A i \in 1 .. m : (s \o t)[i] = s[i]
         /\ \A i \in 1 .. n : (s \o t)[m + i] = t[i]
OBVIOUS

LEMMA SumJoined ==
  ASSUME NEW s \in Seq(Int), NEW t \in Seq(Int)
  PROVE  Sum(s) \in Int /\ Sum(s \o t) = Sum(s) + Sum(t)
<1> DEFINE st == s \o t
<1>n. PICK m \in Nat, n \in Nat : m = Len(s) /\ n = Len(t)
  OBVIOUS
<1>1. /\ st \in Seq(Int) /\ Len(st) = m + n
      /\ \A i \in 1 .. m : st[i] = s[i]
      /\ \A i \in 1 .. n : st[m + i] = t[i]
  BY <1>n, JoinedAt
<1> HIDE DEF st
<1>2. PICK f \in [0 .. m -> Int] : Sums(f, m, s) /\ Sum(s) = f[m]
  BY <1>n, SumRuns
<1>3. PICK g \in [0 .. n -> Int] : Sums(g, n, t) /\ Sum(t) = g[n]
  BY <1>n, SumRuns
<1>4. PICK h \in [0 .. m + n -> Int] : Sums(h, m + n, st) /\ Sum(st) = h[m + n]
  BY <1>n, <1>1, SumRuns
<1>5. /\ f[0] = 0 /\ \A i \in 1 .. m : f[i] = f[i - 1] + s[i]
      /\ g[0] = 0 /\ \A i \in 1 .. n : g[i] = g[i - 1] + t[i]
      /\ h[0] = 0 /\ \A i \in 1 .. m + n : h[i] = h[i - 1] + st[i]
  BY <1>2, <1>3, <1>4 DEF Sums
<1> DEFINE T == {i \in 0 .. m : h[i] = f[i]}
           U == {i \in 0 .. n : h[m + i] = f[m] + g[i]}
<1>6. h[m] = f[m]
  <2>1. 0 \in T
    BY <1>5
  <2>2. ASSUME NEW i \in 0 .. m - 1, i \in T PROVE i + 1 \in T
    <3>1. PICK j \in 1 .. m : j = i + 1 /\ j - 1 = i /\ j \in 1 .. m + n
      OBVIOUS
    <3>2. h[j] = h[j - 1] + st[j] /\ f[j] = f[j - 1] + s[j] /\ st[j] = s[j]
      BY <1>1, <1>5, <3>1
    <3> QED BY <2>2, <3>1, <3>2
  <2>3. \A i \in 0 .. m : i \in T
    <3> HIDE DEF T
    <3> QED BY <2>1, <2>2, CountingUp
  <2> QED BY <2>3
<1>7. h[m + n] = f[m] + g[n]
  <2>1. 0 \in U
    BY <1>5, <1>6
  <2>2. ASSUME NEW i \in 0 .. n - 1, i \in U PROVE i + 1 \in U
    <3>1. PICK j \in 1 .. n : j = i + 1 /\ j - 1 = i
      OBVIOUS
    <3>2. PICK k \in 1 .. m + n : k = m + j /\ k - 1 = m + i
      BY <3>1
    <3>3. h[k] = h[k - 1] + st[k] /\ g[j] = g[j - 1] + t[j] /\ st[k] = t[j]
      BY <1>1, <1>5, <3>1, <3>2
    <3>4. h[m + i] = f[m] + g[i]
      BY <2>2
    <3>a. \A x, y, z \in Int : (x + y) + z = x + (y + z)
      OBVIOUS
    <3>b. PICK x \in Int, y \in Int, z \in Int : x = f[m] /\ y = g[i] /\ z = t[j]
      <4>1. f[m] \in Int
        OBVIOUS
      <4>2. i \in 0 .. n
        OBVIOUS
      <4>3. g[i] \in Int
        BY <4>2
      <4>4. t[j] \in Int
        BY <1>n
      <4> QED BY <4>1, <4>3, <4>4, Zenon
    <3>5. h[k] = f[m] + g[j]
      <4>1. h[k - 1] = f[m] + g[i] /\ g[j - 1] = g[i]
        BY <3>1, <3>2, <3>4, Zenon
      <4>2. h[k] = (f[m] + g[i]) + t[j] /\ g[j] = g[i] + t[j]
        BY <3>3, <4>1, Zenon
      <4>3. (x + y) + z = x + (y + z)
        BY <3>a, Zenon
      <4> QED BY <3>b, <4>2, <4>3, Zenon
    <3>6. k = m + (i + 1) /\ j = i + 1 /\ i + 1 \in 0 .. n
      BY <3>1, <3>2
    <3> QED BY <3>5, <3>6
  <2>3. \A i \in 0 .. n : i \in U
    <3> HIDE DEF U
    <3> QED BY <2>1, <2>2, CountingUp
  <2> QED BY <2>3
<1> QED BY <1>2, <1>3, <1>4, <1>6, <1>7 DEF st

\* A sum with one term that is not zero.
LEMMA SumOfOne ==
  ASSUME NEW lens \in Seq(Int), NEW m \in DOMAIN lens,
         \A i \in DOMAIN lens : i # m => lens[i] = 0
  PROVE  Sum(lens) = lens[m]
<1>n. PICK n \in Nat : n = Len(lens) /\ DOMAIN lens = 1 .. n
  OBVIOUS
<1>1. PICK f \in [0 .. n -> Int] : Sums(f, n, lens) /\ Sum(lens) = f[n]
  BY <1>n, SumRuns
<1>2. f[0] = 0 /\ \A i \in 1 .. n : f[i] = f[i - 1] + lens[i]
  BY <1>1 DEF Sums
<1>3. m \in 1 .. n /\ lens[m] \in Int
  BY <1>n
<1> DEFINE T == {i \in 0 .. n : f[i] = IF i < m THEN 0 ELSE lens[m]}
<1>4. 0 \in T
  BY <1>2, <1>3
<1>5. ASSUME NEW i \in 0 .. n - 1, i \in T PROVE i + 1 \in T
  <2>1. PICK j \in 1 .. n : j = i + 1 /\ j - 1 = i
    OBVIOUS
  <2>2. f[j] = f[i] + lens[j] /\ (j # m => lens[j] = 0)
    BY <1>n, <1>2, <2>1
  <2> QED BY <1>3, <1>5, <2>1, <2>2
<1>6. n \in T
  <2>1. \A i \in 0 .. n : i \in T
    <3> HIDE DEF T
    <3> QED BY <1>4, <1>5, CountingUp
  <2> QED BY <2>1
<1> QED BY <1>1, <1>3, <1>6

\* v gives every element its weight.
Weights(s, v) == [i \in DOMAIN s |-> v[s[i]]]

LEMMA WeightsJoined ==
  ASSUME NEW A, NEW v \in [A -> Int], NEW s \in Seq(A), NEW t \in Seq(A)
  PROVE  /\ Weights(s, v) \in Seq(Int)
         /\ Sum(Weights(s \o t, v)) = Sum(Weights(s, v)) + Sum(Weights(t, v))
<1> DEFINE both == Weights(s \o t, v)
           ws == Weights(s, v)
           wt == Weights(t, v)
<1>n. PICK m \in Nat, n \in Nat :
        m = Len(s) /\ n = Len(t) /\ DOMAIN s = 1 .. m /\ DOMAIN t = 1 .. n
  OBVIOUS
<1>1. ws \in Seq(Int) /\ m = Len(ws) /\ \A i \in 1 .. m : ws[i] = v[s[i]]
  BY <1>n DEF Weights
<1>2. wt \in Seq(Int) /\ n = Len(wt) /\ \A i \in 1 .. n : wt[i] = v[t[i]]
  BY <1>n DEF Weights
<1>3. /\ s \o t \in Seq(A) /\ Len(s \o t) = m + n
      /\ \A i \in 1 .. m : (s \o t)[i] = s[i]
      /\ \A i \in 1 .. n : (s \o t)[m + i] = t[i]
  BY <1>n, JoinedAt
<1>4. /\ both \in Seq(Int) /\ Len(both) = m + n
      /\ \A i \in 1 .. m + n : both[i] = v[(s \o t)[i]]
  <2> DEFINE st == s \o t
  <2>1. st \in Seq(A) /\ Len(st) = m + n
    BY <1>3
  <2> HIDE DEF st
  <2>2. /\ Weights(st, v) \in Seq(Int) /\ Len(Weights(st, v)) = m + n
        /\ \A i \in 1 .. m + n : Weights(st, v)[i] = v[st[i]]
    BY <2>1 DEF Weights
  <2> QED BY <2>2 DEF st
<1> HIDE DEF both, ws, wt
<1>j. /\ ws \o wt \in Seq(Int) /\ Len(ws \o wt) = m + n
      /\ \A i \in 1 .. m : (ws \o wt)[i] = ws[i]
      /\ \A i \in 1 .. n : (ws \o wt)[m + i] = wt[i]
  BY <1>1, <1>2, JoinedAt
<1>5. both = ws \o wt
  <2>1. ASSUME NEW i \in 1 .. m + n PROVE both[i] = (ws \o wt)[i]
    <3>1. CASE i \in 1 .. m
      <4>1. i \in 1 .. m + n
        OBVIOUS
      <4>2. both[i] = v[(s \o t)[i]] /\ (s \o t)[i] = s[i]
        BY <1>3, <1>4, <3>1, <4>1, Zenon
      <4>3. (ws \o wt)[i] = ws[i] /\ ws[i] = v[s[i]]
        BY <1>1, <1>j, <3>1, Zenon
      <4> QED BY <4>2, <4>3, Zenon
    <3>2. CASE i \notin 1 .. m
      <4>1. PICK j \in 1 .. n : i = m + j
        <5>1. i - m \in 1 .. n /\ i = m + (i - m)
          BY <3>2
        <5> QED BY <5>1
      <4>2. both[i] = v[(s \o t)[i]] /\ (s \o t)[i] = t[j]
        BY <1>3, <1>4, <4>1, Zenon
      <4>3. (ws \o wt)[i] = wt[j] /\ wt[j] = v[t[j]]
        BY <1>2, <1>j, <4>1, Zenon
      <4> QED BY <4>2, <4>3, Zenon
    <3> QED BY <3>1, <3>2
  <2>2. Len(both) = Len(ws \o wt) /\ \A i \in 1 .. Len(both) : both[i] = (ws \o wt)[i]
    BY <1>4, <1>j, <2>1, Zenon
  <2> QED BY <1>4, <1>j, <2>2, SeqEqual, Zenon
<1>6. Sum(ws \o wt) = Sum(ws) + Sum(wt)
  BY <1>1, <1>2, SumJoined
<1>7. ws \in Seq(Int) /\ Sum(both) = Sum(ws) + Sum(wt)
  BY <1>1, <1>5, <1>6
<1> QED BY <1>7 DEF both, ws, wt

\* The weight of sequences joined together is the sum of theirs.
LEMMA WeightsFlattened ==
  ASSUME NEW A, NEW v \in [A -> Int], NEW seqs \in Seq(Seq(A)), NEW lens \in Seq(Int),
         Len(lens) = Len(seqs),
         \A i \in DOMAIN seqs : lens[i] = Sum(Weights(seqs[i], v))
  PROVE  Sum(Weights(FlattenSeq(seqs), v)) = Sum(lens)
<1>n. PICK n \in Nat :
        /\ n = Len(seqs) /\ DOMAIN seqs = 1 .. n /\ n = Len(lens)
        /\ \A i \in 1 .. n : seqs[i] \in Seq(A)
  OBVIOUS
<1>1. PICK f \in [0 .. n -> Seq(A)] :
        /\ f[0] = <<>> /\ \A i \in 0 .. n - 1 : f[i + 1] = f[i] \o seqs[i + 1]
        /\ FlattenSeq(seqs) = f[n]
  <2>1. \E f \in [0 .. Len(seqs) -> Seq(A)] :
          /\ f[0] = <<>> /\ \A i \in 0 .. Len(seqs) - 1 : f[i + 1] = f[i] \o seqs[i + 1]
          /\ FlattenSeq(seqs) = f[Len(seqs)]
    BY Flattened, Zenon
  <2> QED BY <1>n, <2>1, Zenon
<1>2. PICK h \in [0 .. n -> Int] : Sums(h, n, lens) /\ Sum(lens) = h[n]
  BY <1>n, SumRuns
<1>3. h[0] = 0 /\ \A i \in 1 .. n : h[i] = h[i - 1] + lens[i]
  BY <1>2 DEF Sums
<1> DEFINE T == {i \in 0 .. n : Sum(Weights(f[i], v)) = h[i]}
<1>4. 0 \in T
  <2>1. Weights(<<>>, v) = <<>>
    BY DEF Weights
  <2> QED BY <1>1, <1>3, <2>1, SumOfFew
<1>5. ASSUME NEW i \in 0 .. n - 1, i \in T PROVE i + 1 \in T
  <2>1. PICK j \in 1 .. n : j = i + 1 /\ j - 1 = i /\ i \in 0 .. n /\ j \in 0 .. n
    OBVIOUS
  <2>2. f[j] = f[i] \o seqs[j] /\ f[i] \in Seq(A) /\ seqs[j] \in Seq(A)
    <3>1. f[i] \in Seq(A) /\ seqs[j] \in Seq(A)
      BY <1>n, <2>1
    <3>2. f[i + 1] = f[i] \o seqs[i + 1]
      BY <1>1, Zenon
    <3> QED BY <2>1, <3>1, <3>2, Zenon
  <2>3. Sum(Weights(f[i] \o seqs[j], v)) = Sum(Weights(f[i], v)) + Sum(Weights(seqs[j], v))
    BY <2>2, WeightsJoined
  <2>4. h[j] = h[i] + lens[j] /\ lens[j] = Sum(Weights(seqs[j], v))
    BY <1>n, <1>3, <2>1
  <2>5. Sum(Weights(f[j], v)) = h[j]
    BY <1>5, <2>2, <2>3, <2>4
  <2> QED BY <2>1, <2>5
<1>6. n \in T
  <2>1. \A i \in 0 .. n : i \in T
    <3> HIDE DEF T
    <3> QED BY <1>4, <1>5, CountingUp
  <2> QED BY <2>1
<1> QED BY <1>1, <1>2, <1>6

\* What all of the sequences are in, their elements joined together are in.
LEMMA FlattenedWithin ==
  ASSUME NEW A, NEW seqs \in Seq(Seq(A)), NEW B,
         \A i \in DOMAIN seqs : ToSet(seqs[i]) \subseteq B
  PROVE  FlattenSeq(seqs) \in Seq(A) /\ ToSet(FlattenSeq(seqs)) \subseteq B
<1>n. PICK n \in Nat :
        /\ n = Len(seqs) /\ DOMAIN seqs = 1 .. n
        /\ \A i \in 1 .. n : seqs[i] \in Seq(A)
  OBVIOUS
<1>1. PICK f \in [0 .. n -> Seq(A)] :
        /\ f[0] = <<>> /\ \A i \in 0 .. n - 1 : f[i + 1] = f[i] \o seqs[i + 1]
        /\ FlattenSeq(seqs) = f[n]
  <2>1. \E f \in [0 .. Len(seqs) -> Seq(A)] :
          /\ f[0] = <<>> /\ \A i \in 0 .. Len(seqs) - 1 : f[i + 1] = f[i] \o seqs[i + 1]
          /\ FlattenSeq(seqs) = f[Len(seqs)]
    BY Flattened, Zenon
  <2> QED BY <1>n, <2>1, Zenon
<1> DEFINE T == {i \in 0 .. n : ToSet(f[i]) \subseteq B}
<1>2. 0 \in T
  BY <1>1 DEF ToSet
<1>3. ASSUME NEW i \in 0 .. n - 1, i \in T PROVE i + 1 \in T
  <2>1. PICK j \in 1 .. n : j = i + 1 /\ i \in 0 .. n /\ j \in 0 .. n
    OBVIOUS
  <2>2. f[j] = f[i] \o seqs[j] /\ f[i] \in Seq(A) /\ seqs[j] \in Seq(A)
    <3>1. f[i] \in Seq(A) /\ seqs[j] \in Seq(A)
      BY <1>n, <2>1
    <3>2. f[i + 1] = f[i] \o seqs[i + 1]
      BY <1>1, Zenon
    <3> QED BY <2>1, <3>1, <3>2, Zenon
  <2>3. ToSet(f[j]) = ToSet(f[i]) \cup ToSet(seqs[j])
    BY <2>2, Joined
  <2>4. ToSet(f[j]) \subseteq B
    BY <1>n, <1>3, <2>1, <2>3
  <2> QED BY <2>1, <2>4
<1>4. n \in T
  <2>1. \A i \in 0 .. n : i \in T
    <3> HIDE DEF T
    <3> QED BY <1>2, <1>3, CountingUp
  <2> QED BY <2>1
<1> QED BY <1>1, <1>4

------------------------------------------------------------------------------
(* Wrapping *)

LEMMA WidthOfText ==
  ASSUME NEW k \in Int
  PROVE  /\ AtLeastOne(k) \in Nat \ {0} /\ AtLeastOne(AtLeastOne(k)) = AtLeastOne(k)
         /\ AtLeastOne(k) = IF k <= 0 THEN 80 ELSE k
         /\ k > 0 => AtLeastOne(k) = k
BY DEF AtLeastOne

\* One step of chunkRunes.
Breaks(f, k, w) == IF k <= w THEN <<k>> ELSE <<w>> \o f[k - w]

LEMMA ChunksExist ==
  ASSUME NEW n \in Nat, NEW w \in Nat \ {0}
  PROVE  \E f \in [0 .. n -> Seq(0 .. w)] : \A i \in 0 .. n : f[i] = Breaks(f, i, w)
<1> DEFINE S == Seq(0 .. w)
           Upto(k) == \E f \in [0 .. k -> S] : \A i \in 0 .. k : f[i] = Breaks(f, i, w)
           T == {k \in 0 .. n : Upto(k)}
<1>s. /\ \A i \in 0 .. w : <<i>> \in S
      /\ \A s \in S : <<w>> \o s \in S
  OBVIOUS
<1> HIDE DEF S
<1>b. ASSUME NEW k \in Nat, NEW f \in [0 .. k -> S], NEW i \in 0 .. k + 1
      PROVE  Breaks(f, i, w) \in S
  <2>1. CASE i <= w
    <3>1. i \in 0 .. w
      BY <2>1
    <3> QED BY <1>s, <2>1, <3>1 DEF Breaks
  <2>2. CASE ~ (i <= w)
    <3>1. i - w \in 0 .. k
      BY <2>2
    <3>2. f[i - w] \in S
      BY <3>1
    <3>3. Breaks(f, i, w) = <<w>> \o f[i - w]
      BY <2>2, Zenon DEF Breaks
    <3> QED BY <1>s, <3>2, <3>3, Zenon
  <2> QED BY <2>1, <2>2
<1>1. 0 \in T
  <2> DEFINE h == [i \in 0 .. 0 |-> <<0>>]
  <2>1. h \in [0 .. 0 -> S] /\ h[0] = <<0>>
    BY <1>s
  <2>2. \A i \in 0 .. 0 : h[i] = Breaks(h, i, w)
    BY <2>1 DEF Breaks
  <2>3. Upto(0)
    <3> HIDE DEF h
    <3> QED BY <2>1, <2>2
  <2> QED BY <2>3
<1>2. ASSUME NEW k \in 0 .. n - 1, k \in T PROVE k + 1 \in T
  <2>1. PICK f \in [0 .. k -> S] : \A i \in 0 .. k : f[i] = Breaks(f, i, w)
    BY <1>2
  <2> DEFINE next == Breaks(f, k + 1, w)
             h == [i \in 0 .. k + 1 |-> IF i <= k THEN f[i] ELSE next]
  <2>2. next \in S
    <3>1. k \in Nat /\ k + 1 \in 0 .. k + 1
      OBVIOUS
    <3> QED BY <1>b, <3>1
  <2> HIDE DEF next
  <2>3. h \in [0 .. k + 1 -> S] /\ h[k + 1] = next /\ \A i \in 0 .. k : h[i] = f[i]
    BY <2>2
  <2> HIDE DEF h
  <2>4. ASSUME NEW i \in 0 .. k + 1 PROVE Breaks(f, i, w) = Breaks(h, i, w)
    <3>1. CASE i <= w
      BY <3>1, Zenon DEF Breaks
    <3>2. CASE ~ (i <= w)
      <4>1. i - w \in 0 .. k
        BY <3>2
      <4>2. h[i - w] = f[i - w]
        BY <2>3, <4>1, Zenon
      <4> QED BY <3>2, <4>2, Zenon DEF Breaks
    <3> QED BY <3>1, <3>2
  <2>5. ASSUME NEW i \in 0 .. k + 1 PROVE h[i] = Breaks(h, i, w)
    <3>1. CASE i \in 0 .. k
      BY <2>1, <2>3, <2>4, <3>1, Zenon
    <3>2. CASE i = k + 1
      BY <2>3, <2>4, <3>2, Zenon DEF next
    <3> QED BY <3>1, <3>2
  <2>6. Upto(k + 1)
    BY <2>3, <2>5
  <2> HIDE DEF Upto
  <2> QED BY <2>6
<1>3. n \in T
  <2>1. \A i \in 0 .. n : i \in T
    <3> HIDE DEF T
    <3> QED BY <1>1, <1>2, CountingUp
  <2> QED BY <2>1
<1> QED BY <1>3 DEF S

\* No piece of a token is longer than the width, and together they are the token.
LEMMA ChunksFit ==
  ASSUME NEW n \in Nat, NEW k \in Int, NEW w, w = AtLeastOne(k),
         NEW chunks, chunks = chunkRunes(n, k)
  PROVE  chunks \in Seq(0 .. w) /\ chunks \in Seq(Nat) /\ Sum(chunks) = n
<1>w. w \in Nat \ {0}
  BY WidthOfText
<1> DEFINE Is(h) == h = [i \in 0 .. n |-> IF i <= w THEN <<i>> ELSE <<w>> \o h[i - w]]
           h == CHOOSE h : Is(h)
<1>1. chunks = h[n]
  BY DEF chunkRunes
<1>2. Is(h)
  <2>1. PICK f \in [0 .. n -> Seq(0 .. w)] : \A i \in 0 .. n : f[i] = Breaks(f, i, w)
    BY <1>w, ChunksExist
  <2>2. Is(f)
    <3>1. f = [i \in 0 .. n |-> f[i]]
      BY Zenon
    <3> QED BY <2>1, <3>1, Zenon DEF Breaks
  <2> QED BY <2>2
<1> HIDE DEF h
<1>3. \A i \in 0 .. n : h[i] = IF i <= w THEN <<i>> ELSE <<w>> \o h[i - w]
  BY <1>2, Zenon
<1> DEFINE Good(s, i) == s \in Seq(0 .. w) /\ s \in Seq(Nat) /\ Sum(s) = i
           T == {i \in 0 .. n : \A j \in 0 .. i : Good(h[j], j)}
<1>4. ASSUME NEW i \in 0 .. w PROVE Good(<<i>>, i)
  <2>1. <<i>> \in Seq(0 .. w) /\ <<i>> \in Seq(Nat) /\ i \in Int
    BY <1>w
  <2> QED BY <2>1, SumOfFew
<1>5. ASSUME NEW s, NEW i \in Int, Good(s, i) PROVE Good(<<w>> \o s, w + i)
  <2>1. /\ <<w>> \in Seq(0 .. w) /\ <<w>> \in Seq(Int) /\ s \in Seq(Int) /\ w \in Int
        /\ <<w>> \in Seq(Nat)
    BY <1>w, <1>5
  <2>2. Sum(<<w>> \o s) = Sum(<<w>>) + Sum(s)
    BY <2>1, SumJoined
  <2>3. Sum(<<w>>) = w
    BY <2>1, SumOfFew
  <2>4. <<w>> \o s \in Seq(0 .. w) /\ <<w>> \o s \in Seq(Nat)
    BY <1>5, <2>1
  <2> QED BY <1>5, <2>2, <2>3, <2>4
<1> HIDE DEF Good
<1>6. 0 \in T
  <2>1. h[0] = <<0>> /\ 0 \in 0 .. w
    <3>1. 0 \in 0 .. n /\ 0 <= w /\ 0 \in 0 .. w
      BY <1>w
    <3> QED BY <1>3, <3>1, Zenon
  <2> QED BY <1>4, <2>1
<1>7. ASSUME NEW i \in 0 .. n - 1, i \in T PROVE i + 1 \in T
  <2>1. PICK j \in 0 .. n : j = i + 1 /\ j \in Nat
    OBVIOUS
  <2>2. Good(h[j], j)
    <3>1. CASE j <= w
      <4>1. j \in 0 .. w /\ h[j] = <<j>>
        <5>1. j \in 0 .. w
          BY <2>1, <3>1
        <5> QED BY <1>3, <3>1, <5>1, Zenon
      <4> QED BY <1>4, <4>1
    <3>2. CASE ~ (j <= w)
      <4>1. PICK m \in 0 .. i : m = j - w /\ m \in Int /\ w + m = j
        BY <1>w, <2>1, <3>2
      <4>2. h[j] = <<w>> \o h[m]
        BY <1>3, <3>2, <4>1, Zenon
      <4>3. Good(h[m], m)
        BY <1>7, <4>1
      <4>4. Good(<<w>> \o h[m], w + m)
        BY <1>5, <4>1, <4>3, Zenon
      <4> QED BY <4>1, <4>2, <4>4, Zenon
    <3> QED BY <3>1, <3>2
  <2>3. \A x \in 0 .. j : x \in 0 .. i \/ x = j
    BY <2>1
  <2>4. \A x \in 0 .. j : Good(h[x], x)
    BY <1>7, <2>2, <2>3
  <2> QED BY <2>1, <2>4
<1>8. Good(h[n], n)
  <2>1. \A i \in 0 .. n : i \in T
    <3> HIDE DEF T
    <3> QED BY <1>6, <1>7, CountingUp
  <2> QED BY <2>1
<1> QED BY <1>1, <1>8 DEF Good

FieldOf == [len : Nat, sentinel : BOOLEAN]

LEMMA PlainFields ==
  ASSUME NEW words \in Seq(Nat)
  PROVE  /\ Plain(words) \in Seq(FieldOf) /\ DOMAIN Plain(words) = DOMAIN words
         /\ \A i \in DOMAIN words :
              Plain(words)[i].len = words[i] /\ ~Plain(words)[i].sentinel
         /\ Lens(Plain(words)) = words
<1>n. PICK n \in Nat : n = Len(words) /\ DOMAIN words = 1 .. n
  OBVIOUS
<1>1. \A i \in 1 .. n : Field(words[i], FALSE) \in FieldOf
  BY <1>n DEF Field, FieldOf
<1>2. /\ Plain(words) \in Seq(FieldOf) /\ DOMAIN Plain(words) = 1 .. n
      /\ \A i \in 1 .. n : Plain(words)[i] = Field(words[i], FALSE)
  <2> DEFINE F(i) == Field(words[i], FALSE)
             p == [i \in 1 .. n |-> F(i)]
  <2>1. Plain(words) = p
    BY <1>n, Zenon DEF Plain
  <2>2. p \in Seq(FieldOf) /\ DOMAIN p = 1 .. n /\ \A i \in 1 .. n : p[i] = F(i)
    <3> HIDE DEF F, FieldOf
    <3>1. \A i \in 1 .. n : F(i) \in FieldOf
      BY <1>1 DEF F
    <3> QED BY <3>1
  <2> QED BY <2>1, <2>2, Zenon
<1>3. \A i \in 1 .. n : Plain(words)[i].len = words[i] /\ ~Plain(words)[i].sentinel
  BY <1>2 DEF Field
<1>4. Lens(Plain(words)) = words
  <2>1. words = [i \in 1 .. n |-> words[i]]
    BY <1>n
  <2> QED BY <1>2, <1>3, <2>1, Zenon DEF Lens
<1> QED BY <1>n, <1>2, <1>3, <1>4

LEMMA FieldsTyped ==
  ASSUME NEW item \in Item, NEW mark \in Nat
  PROVE  Fields(item, mark) \in Seq(FieldOf)
<1>d. Digits(mark) \in Nat
  BY DEF Digits
<1>1. CASE item.kind = "img"
  <2>1. Fields(item, mark) = <<>>
    <3>1. item.kind # "text" /\ ~IsLink(item)
      BY <1>1 DEF IsLink
    <3> QED BY <1>1, <3>1, Zenon DEF Fields
  <2> QED BY <2>1
<1>2. CASE item.kind = "text" \/ (IsLink(item) /\ mark = 0)
  <2>1. item.words \in Seq(Nat) /\ Fields(item, mark) = Plain(item.words)
    BY <1>2 DEF Item, Fields, IsLink
  <2> QED BY <2>1, PlainFields
<1>3. CASE item.kind = "link" /\ mark # 0
  <2>1. item.words \in Seq(Nat) /\ item.words # <<>>
    BY <1>3 DEF Item
  <2>2. item.words[1] \in Nat /\ Tail(item.words) \in Seq(Nat)
    BY <2>1
  <2> DEFINE first == Field(item.words[1] + Digits(mark) + 2, TRUE)
             last == Field(Digits(mark) + 3, FALSE)
             middle == Plain(Tail(item.words))
  <2>3. first \in FieldOf /\ last \in FieldOf
    BY <1>d, <2>2 DEF Field, FieldOf
  <2>4. middle \in Seq(FieldOf)
    BY <2>2, PlainFields
  <2>5. Fields(item, mark) = <<first>> \o middle \o <<last>>
    BY <1>3, Zenon DEF Fields, IsLink
  <2> HIDE DEF first, last, middle
  <2>6. <<first>> \o middle \o <<last>> \in Seq(FieldOf)
    <3> HIDE DEF FieldOf
    <3> QED BY <2>3, <2>4
  <2> QED BY <2>5, <2>6
<1> QED BY <1>1, <1>2, <1>3 DEF Item, IsLink

LEMMA MarkdownTyped ==
  ASSUME NEW html \in Seq(Item), NEW marks \in Seq(Nat), Len(marks) = Len(html)
  PROVE  Markdown(html, marks) \in Seq(FieldOf)
<1> DEFINE seqs == [i \in DOMAIN html |-> Fields(html[i], marks[i])]
<1>1. \A i \in DOMAIN html : html[i] \in Item /\ marks[i] \in Nat
  OBVIOUS
<1>2. \A i \in DOMAIN html : seqs[i] \in Seq(FieldOf)
  BY <1>1, FieldsTyped
<1>3. seqs \in Seq(Seq(FieldOf)) /\ DOMAIN seqs = DOMAIN html
  <2> DEFINE S == Seq(FieldOf)
  <2> HIDE DEF S
  <2>1. \A i \in DOMAIN html : Fields(html[i], marks[i]) \in S
    BY <1>2 DEF S
  <2>2. seqs \in Seq(S)
    BY <2>1
  <2> QED BY <2>2 DEF S
<1> HIDE DEF seqs
<1>4. \A i \in DOMAIN seqs : ToSet(seqs[i]) \subseteq FieldOf
  <2> HIDE DEF FieldOf
  <2> QED BY <1>2, <1>3 DEF ToSet
<1>5. FlattenSeq(seqs) \in Seq(FieldOf)
  BY <1>3, <1>4, FlattenedWithin
<1> QED BY <1>5 DEF Markdown, seqs

\* preWrapLongTokens loses nothing of a field, and leaves only a field with a
\* sentinel longer than the width.
Wraps(fields, w, out) ==
  /\ out \in Seq(FieldOf) /\ Sum(Lens(out)) = Sum(Lens(fields))
  /\ \A i \in DOMAIN out : out[i].sentinel \/ out[i].len <= w

LEMMA Wrapped ==
  ASSUME NEW fields \in Seq(FieldOf), NEW k \in Int
  PROVE  Wraps(fields, AtLeastOne(k), preWrapLongTokens(fields, k))
<1> SUFFICES ASSUME NEW w, w = AtLeastOne(k),
                    NEW out, out = preWrapLongTokens(fields, k)
             PROVE  Wraps(fields, w, out)
  OBVIOUS
<1> DEFINE Piece(x) == IF x.sentinel THEN <<x>> ELSE Plain(chunkRunes(x.len, k))
           seqs == [i \in DOMAIN fields |-> Piece(fields[i])]
           v == [x \in FieldOf |-> x.len]
           Fits == {x \in FieldOf : x.sentinel \/ x.len <= w}
<1>v. v \in [FieldOf -> Int] /\ \A x \in FieldOf : v[x] = x.len /\ x.len \in Nat
  BY DEF FieldOf
<1>l. ASSUME NEW s \in Seq(FieldOf) PROVE Weights(s, v) = Lens(s)
  <2>1. \A i \in DOMAIN s : v[s[i]] = s[i].len
    <3>1. \A i \in DOMAIN s : s[i] \in FieldOf
      <4> HIDE DEF FieldOf
      <4> QED OBVIOUS
    <3> HIDE DEF v
    <3> QED BY <1>v, <3>1
  <2> HIDE DEF v
  <2> QED BY <2>1, Zenon DEF Weights, Lens
<1> HIDE DEF v
<1>1. ASSUME NEW x \in FieldOf
      PROVE  /\ Piece(x) \in Seq(FieldOf) /\ ToSet(Piece(x)) \subseteq Fits
             /\ Sum(Lens(Piece(x))) = x.len
  <2>x. x.len \in Nat /\ x.len \in Int
    BY <1>v
  <2>1. CASE x.sentinel
    <3>1. Piece(x) = <<x>>
      BY <2>1
    <3>2. <<x>> \in Seq(FieldOf) /\ ToSet(<<x>>) = {x}
      <4> HIDE DEF FieldOf
      <4> QED BY DEF ToSet
    <3>3. Lens(<<x>>) = <<x.len>>
      BY DEF Lens
    <3>4. Sum(<<x.len>>) = x.len
      BY <2>x, SumOfFew
    <3>5. x \in Fits
      BY <2>1
    <3> HIDE DEF Piece, Fits, FieldOf
    <3> QED BY <3>1, <3>2, <3>3, <3>4, <3>5
  <2>2. CASE ~ x.sentinel
    <3> DEFINE chunks == chunkRunes(x.len, k)
    <3>1. Piece(x) = Plain(chunks)
      BY <2>2
    <3>2. chunks \in Seq(0 .. w) /\ chunks \in Seq(Nat) /\ Sum(chunks) = x.len
      BY <2>x, ChunksFit
    <3> HIDE DEF chunks, Piece
    <3>3. /\ Plain(chunks) \in Seq(FieldOf) /\ DOMAIN Plain(chunks) = DOMAIN chunks
          /\ \A i \in DOMAIN chunks : Plain(chunks)[i].len = chunks[i]
          /\ Lens(Plain(chunks)) = chunks
      BY <3>2, PlainFields
    <3>4. \A i \in DOMAIN chunks : chunks[i] <= w
      <4>1. w \in Nat
        BY WidthOfText
      <4>2. \A i \in DOMAIN chunks : chunks[i] \in 0 .. w
        BY <3>2, ElementsOf
      <4> QED BY <4>1, <4>2
    <3>5. \A i \in DOMAIN Plain(chunks) : Plain(chunks)[i] \in FieldOf
      <4> HIDE DEF FieldOf
      <4> QED BY <3>3
    <3>6. \A i \in DOMAIN Plain(chunks) : Plain(chunks)[i] \in Fits
      <4> HIDE DEF FieldOf
      <4> QED BY <3>3, <3>4, <3>5
    <3> HIDE DEF Fits, FieldOf
    <3>7. ToSet(Plain(chunks)) \subseteq Fits
      BY <3>6 DEF ToSet
    <3> QED BY <3>1, <3>2, <3>3, <3>7
  <2> QED BY <2>1, <2>2
<1>2. out = FlattenSeq(seqs)
  BY Zenon DEF preWrapLongTokens
<1> HIDE DEF Piece, Fits, FieldOf
<1>n. PICK n \in Nat :
        n = Len(fields) /\ DOMAIN fields = 1 .. n /\ \A i \in 1 .. n : fields[i] \in FieldOf
  OBVIOUS
<1>3. /\ seqs \in Seq(Seq(FieldOf)) /\ DOMAIN seqs = 1 .. n /\ Len(seqs) = n
      /\ \A i \in 1 .. n : seqs[i] = Piece(fields[i])
  <2> DEFINE S == Seq(FieldOf)
  <2>1. \A i \in 1 .. n : Piece(fields[i]) \in S
    BY <1>1, <1>n
  <2> HIDE DEF S
  <2>2. seqs \in Seq(S) /\ DOMAIN seqs = 1 .. n /\ Len(seqs) = n
    BY <1>n, <2>1
  <2> QED BY <1>n, <2>2 DEF S
<1> HIDE DEF seqs
<1>4. \A i \in DOMAIN seqs : ToSet(seqs[i]) \subseteq Fits
  BY <1>1, <1>n, <1>3
<1>5. out \in Seq(FieldOf) /\ ToSet(out) \subseteq Fits
  BY <1>2, <1>3, <1>4, FlattenedWithin
<1>6. Sum(Weights(FlattenSeq(seqs), v)) = Sum(Lens(fields))
  <2> DEFINE lens == Lens(fields)
  <2>1. lens \in Seq(Int) /\ Len(lens) = n /\ \A i \in 1 .. n : lens[i] = fields[i].len
    <3>1. \A i \in 1 .. n : fields[i].len \in Int
      BY <1>n, <1>v
    <3> QED BY <1>n, <3>1 DEF Lens
  <2> HIDE DEF lens
  <2>2. \A i \in DOMAIN seqs : lens[i] = Sum(Weights(seqs[i], v))
    BY <1>1, <1>l, <1>n, <1>3, <2>1
  <2>3. Sum(Weights(FlattenSeq(seqs), v)) = Sum(lens)
    <3>1. Len(lens) = Len(seqs)
      BY <1>3, <2>1
    <3> QED BY <1>v, <1>3, <2>1, <2>2, <3>1, WeightsFlattened, Zenon
  <2> QED BY <2>3 DEF lens
<1>7. Sum(Lens(out)) = Sum(Lens(fields))
  <2>1. Weights(out, v) = Lens(out)
    BY <1>5, <1>l
  <2> QED BY <1>2, <1>6, <2>1
<1>8. \A i \in DOMAIN out : out[i] \in Fits
  BY <1>5 DEF ToSet
<1> QED BY <1>5, <1>7, <1>8 DEF Wraps, Fits

------------------------------------------------------------------------------
(* The footer *)

LineOf == [link : Nat, len : Nat]

\* What a line has of the URL with number n.
Share(n) == [x \in LineOf |-> IF x.link = n THEN x.len - PrefixLen(n) ELSE 0]
Carries(lines, m, url) ==
  \A n \in Nat : Sum(Weights(lines, Share(n))) = IF n = m THEN url ELSE 0

LEMMA PrefixIsShort ==
  ASSUME NEW n
  PROVE  PrefixLen(n) \in 4 .. 6
BY DEF PrefixLen, Digits

LEMMA SumOfZeros ==
  ASSUME NEW lens \in Seq(Int), \A i \in DOMAIN lens : lens[i] = 0
  PROVE  Sum(lens) = 0
<1>1. CASE lens = <<>>
  BY <1>1, SumOfFew
<1>2. CASE lens # <<>>
  <2>1. PICK m \in DOMAIN lens : lens[m] = 0
    BY <1>2
  <2>2. Sum(lens) = lens[m]
    BY <2>1, SumOfOne
  <2> QED BY <2>1, <2>2
<1> QED BY <1>1, <1>2

\* The lines of one URL have all of it, nothing of another, and fit if the number
\* leaves room for one character.
LEMMA LinesFit ==
  ASSUME NEW m \in Nat, NEW href \in Href, NEW w \in Nat \ {0},
         NEW lines, lines = FooterLines(m, href, w)
  PROVE  /\ lines \in Seq(LineOf)
         /\ \A i \in DOMAIN lines : lines[i].len <= w \/ w \in 1 .. PrefixLen(lines[i].link)
         /\ Carries(lines, m, UrlLen[href])
<1> DEFINE p == PrefixLen(m)
           left == Avail(m, w)
           chunks == chunkRunes(UrlLen[href], left)
<1>p. p \in 4 .. 6
  BY PrefixIsShort
<1>1. left \in Nat \ {0} /\ left = IF w - p < 1 THEN 1 ELSE w - p
  BY <1>p DEF Avail
<1> HIDE DEF p, left
<1>u. UrlLen[href] \in Nat
  BY HrefAssumption
<1>2. chunks \in Seq(0 .. left) /\ chunks \in Seq(Nat) /\ Sum(chunks) = UrlLen[href]
  <2>1. left \in Int /\ left = AtLeastOne(left)
    BY <1>1, WidthOfText
  <2> QED BY <1>u, <2>1, ChunksFit
<1> HIDE DEF chunks
<1>n. PICK n \in Nat : n = Len(chunks) /\ DOMAIN chunks = 1 .. n
  BY <1>2
<1>c. \A j \in 1 .. n : chunks[j] \in 0 .. left /\ chunks[j] \in Nat
  <2>2. \A j \in DOMAIN chunks : chunks[j] \in 0 .. left
    BY <1>2, ElementsOf
  <2>3. \A k \in 0 .. left : k \in Nat
    BY <1>1
  <2> QED BY <1>n, <2>2, <2>3, Zenon
<1> DEFINE Line(j) == [link |-> m, len |-> p + chunks[j]]
           all == [j \in 1 .. n |-> Line(j)]
<1>3. lines = all
  BY <1>n, Zenon DEF FooterLines, p, left, chunks
<1>4. ASSUME NEW j \in 1 .. n
      PROVE  Line(j) \in LineOf /\ Line(j).link = m /\ Line(j).len = p + chunks[j]
  BY <1>c, <1>p DEF LineOf
<1> HIDE DEF Line, LineOf
<1>5. /\ lines \in Seq(LineOf) /\ DOMAIN lines = 1 .. n /\ Len(lines) = n
      /\ \A j \in 1 .. n : lines[j] = Line(j)
  BY <1>3, <1>4
<1> HIDE DEF all
<1>6. ASSUME NEW j \in DOMAIN lines
      PROVE  lines[j].len <= w \/ w \in 1 .. PrefixLen(lines[j].link)
  <2>1. lines[j].link = m /\ lines[j].len = p + chunks[j] /\ chunks[j] \in 0 .. left
    BY <1>4, <1>5, <1>c
  <2>2. p + chunks[j] <= w \/ w \in 1 .. p
    BY <1>p, <1>1, <2>1
  <2> QED BY <2>1, <2>2 DEF p
<1>7. ASSUME NEW k \in Nat
      PROVE  Sum(Weights(lines, Share(k))) = IF k = m THEN UrlLen[href] ELSE 0
  <2>1. \A x \in LineOf : Share(k)[x] = IF x.link = k THEN x.len - PrefixLen(k) ELSE 0
    BY DEF Share
  <2>2. ASSUME NEW j \in 1 .. n
        PROVE  Share(k)[lines[j]] = IF k = m THEN chunks[j] ELSE 0
    <3>1. lines[j] \in LineOf /\ lines[j].link = m /\ lines[j].len = p + chunks[j]
      BY <1>4, <1>5
    <3>2. Share(k)[lines[j]] = IF m = k THEN (p + chunks[j]) - PrefixLen(k) ELSE 0
      BY <2>1, <3>1
    <3>3. (p + chunks[j]) - p = chunks[j]
      BY <1>p, <1>c
    <3> QED BY <3>2, <3>3 DEF p
  <2>3. Weights(lines, Share(k)) = [j \in 1 .. n |-> IF k = m THEN chunks[j] ELSE 0]
    BY <1>5, <2>2, Zenon DEF Weights
  <2>4. CASE k = m
    <3>1. chunks = [j \in 1 .. n |-> chunks[j]]
      BY <1>2, <1>n
    <3>2. Weights(lines, Share(k)) = chunks
      BY <2>3, <2>4, <3>1, Zenon
    <3> QED BY <1>2, <2>4, <3>2
  <2>5. CASE k # m
    <3> DEFINE zeros == [j \in 1 .. n |-> 0]
    <3>1. Weights(lines, Share(k)) = zeros
      BY <2>3, <2>5, Zenon
    <3>2. zeros \in Seq(Int) /\ \A j \in DOMAIN zeros : zeros[j] = 0
      OBVIOUS
    <3> HIDE DEF zeros
    <3>3. Sum(zeros) = 0
      BY <3>2, SumOfZeros
    <3> QED BY <2>5, <3>1, <3>3
  <2> QED BY <2>4, <2>5
<1>8. Carries(lines, m, UrlLen[href])
  BY <1>7, Zenon DEF Carries
<1> QED BY <1>5, <1>6, <1>8

Prints(order, w, footer) ==
  /\ footer \in Seq(LineOf)
  /\ \A i \in DOMAIN footer :
       footer[i].len <= w \/ w \in 1 .. PrefixLen(footer[i].link)
  /\ \A m \in DOMAIN order : Sum(Weights(footer, Share(m))) = UrlLen[order[m]]

LEMMA FooterFits ==
  ASSUME NEW order \in Seq(Web), NEW k \in Int
  PROVE  Prints(order, AtLeastOne(k), buildFooter(order, k))
<1> SUFFICES ASSUME NEW w, w = AtLeastOne(k), NEW footer, footer = buildFooter(order, k)
             PROVE  Prints(order, w, footer)
  OBVIOUS
<1>w. w \in Nat \ {0}
  BY WidthOfText
<1>n. PICK n \in Nat :
        /\ n = Len(order) /\ DOMAIN order = 1 .. n
        /\ \A i \in 1 .. n : i \in Nat /\ order[i] \in Href
  BY HrefAssumption
<1> DEFINE Part(i) == FooterLines(i, order[i], w)
           seqs == [i \in 1 .. n |-> Part(i)]
           Fits == {x \in LineOf : x.len <= w \/ w \in 1 .. PrefixLen(x.link)}
<1>1. ASSUME NEW i \in 1 .. n
      PROVE  /\ Part(i) \in Seq(LineOf)
             /\ \A j \in DOMAIN Part(i) : Part(i)[j].len <= w
                                          \/ w \in 1 .. PrefixLen(Part(i)[j].link)
             /\ Carries(Part(i), i, UrlLen[order[i]])
  <2>1. PICK m \in Nat, href \in Href : m = i /\ href = order[i]
    BY <1>n
  <2>2. PICK lines : lines = FooterLines(m, href, w)
    OBVIOUS
  <2>3. /\ lines \in Seq(LineOf)
        /\ \A j \in DOMAIN lines :
             lines[j].len <= w \/ w \in 1 .. PrefixLen(lines[j].link)
        /\ Carries(lines, m, UrlLen[href])
    BY <1>w, <2>2, LinesFit
  <2> HIDE DEF LineOf
  <2>4. lines = Part(i)
    BY <2>1, <2>2, Zenon DEF Part
  <2> HIDE DEF Part
  <2> QED BY <2>1, <2>3, <2>4, Zenon
<1>2. footer = FlattenSeq(seqs)
  BY <1>n, Zenon DEF buildFooter
<1> HIDE DEF Part, LineOf
<1>3. /\ seqs \in Seq(Seq(LineOf)) /\ DOMAIN seqs = 1 .. n /\ Len(seqs) = n
      /\ \A i \in 1 .. n : seqs[i] = Part(i)
  <2> DEFINE S == Seq(LineOf)
  <2>1. \A i \in 1 .. n : Part(i) \in S
    BY <1>1
  <2> HIDE DEF S
  <2>2. seqs \in Seq(S) /\ DOMAIN seqs = 1 .. n /\ Len(seqs) = n
    BY <2>1
  <2> QED BY <2>2 DEF S
<1> HIDE DEF seqs
<1>4. ASSUME NEW i \in 1 .. n PROVE ToSet(seqs[i]) \subseteq Fits
  <2>1. \A j \in DOMAIN Part(i) : Part(i)[j] \in LineOf
    BY <1>1
  <2>2. \A j \in DOMAIN Part(i) : Part(i)[j] \in Fits
    BY <1>1, <2>1
  <2> HIDE DEF Fits
  <2> QED BY <1>3, <2>2 DEF ToSet
<1> HIDE DEF Fits
<1>5. footer \in Seq(LineOf) /\ ToSet(footer) \subseteq Fits
  BY <1>2, <1>3, <1>4, FlattenedWithin
<1>6. \A i \in DOMAIN footer : footer[i] \in Fits
  BY <1>5 DEF ToSet
<1>7. ASSUME NEW m \in DOMAIN order
      PROVE  Sum(Weights(footer, Share(m))) = UrlLen[order[m]]
  <2>1. m \in 1 .. n /\ m \in Nat /\ UrlLen[order[m]] \in Int
    BY <1>n, HrefAssumption
  <2> DEFINE url == UrlLen[order[m]]
             lens == [i \in 1 .. n |-> IF i = m THEN url ELSE 0]
  <2>2. url \in Int
    BY <2>1
  <2> HIDE DEF url
  <2>3. /\ lens \in Seq(Int) /\ Len(lens) = n /\ DOMAIN lens = 1 .. n
        /\ \A i \in 1 .. n : lens[i] = IF i = m THEN url ELSE 0
    BY <2>2
  <2> HIDE DEF lens
  <2>4. Share(m) \in [LineOf -> Int]
    <3>1. PrefixLen(m) \in Int
      BY PrefixIsShort
    <3> QED BY <3>1 DEF Share, LineOf
  <2>5. \A i \in 1 .. n : Sum(Weights(seqs[i], Share(m))) = lens[i]
    <3>1. ASSUME NEW i \in 1 .. n PROVE Sum(Weights(seqs[i], Share(m))) = lens[i]
      <4>1. Sum(Weights(Part(i), Share(m))) = IF m = i THEN UrlLen[order[i]] ELSE 0
        BY <1>1, <2>1, Zenon DEF Carries
      <4>2. lens[i] = IF i = m THEN url ELSE 0
        BY <2>3
      <4>3. seqs[i] = Part(i)
        BY <1>3
      <4> QED BY <4>1, <4>2, <4>3, Zenon DEF url
    <3> QED BY <3>1
  <2>6. Sum(Weights(FlattenSeq(seqs), Share(m))) = Sum(lens)
    BY <1>3, <2>3, <2>4, <2>5, WeightsFlattened
  <2>7. Sum(lens) = lens[m]
    BY <2>1, <2>3, SumOfOne
  <2>8. lens[m] = url
    BY <2>1, <2>3
  <2> QED BY <1>2, <2>6, <2>7, <2>8 DEF url
<1> QED BY <1>5, <1>6, <1>7 DEF Prints, Fits

------------------------------------------------------------------------------
(* The pane *)

\* The HTML that the pane is made of: nothing of a message that cannot be read.
Readable == IF rawHTML \in Broken THEN <<>> ELSE rawHTML

Agree ==
  /\ rawHTML \in Doc \cup {NoMessage} /\ loadRemote \in BOOLEAN
  /\ width \in Width /\ asked \in BOOLEAN
  /\ currentParsed = NoMessage =>
       sanitizedBody = PlainText /\ viewport.body = PlainText
  /\ currentParsed # NoMessage =>
       /\ rawHTML \in Doc
       /\ asked = loadRemote
       /\ currentParsed = SanitizeHTML(Readable, asked)
       /\ sanitizedBody \in Rendered(currentParsed, width)
       /\ viewport.body = sanitizedBody

\* There is nothing to block in an empty document.
LEMMA NothingToBlock == \A x : SanitizeHTML(<<>>, x) = <<>>
BY DEF SanitizeHTML

LEMMA PaneShows == \A body, images : Pane(body, images).body = body
BY DEF Pane

LEMMA Sanitized ==
  ASSUME NEW html \in Seq(Item), NEW x \in BOOLEAN
  PROVE  SanitizeHTML(html, x) \in Seq(Item) /\ SanitizeHTML(html, x) # NoMessage
<1>n. PICK n \in Nat : n = Len(html) /\ DOMAIN html = 1 .. n
  OBVIOUS
<1> DEFINE clean(item) == IF item.kind = "img" THEN SanitizeImage(item.src, x) ELSE item
           all == [i \in 1 .. n |-> clean(html[i])]
<1>1. ASSUME NEW item \in Item PROVE clean(item) \in Item
  <2>1. CASE item.kind = "img"
    <3>1. Image("cid") \in Item /\ Image("remote") \in Item /\ Image("none") \in Item
      BY DEF Image, Item
    <3>2. Placeholder \in Item
      <4>1. <<7, 6, 9>> \in Seq(Nat)
        OBVIOUS
      <4> QED BY <4>1 DEF Placeholder, Text, Item
    <3>3. SanitizeImage(item.src, x) \in {Image("cid"), Image("remote"), Image("none"),
                                          Placeholder}
      BY DEF SanitizeImage
    <3> HIDE DEF Item
    <3> QED BY <2>1, <3>1, <3>2, <3>3
  <2>2. CASE item.kind # "img"
    BY <2>2
  <2> QED BY <2>1, <2>2
<1> HIDE DEF clean
<1>2. all \in Seq(Item)
  <2>1. \A i \in 1 .. n : clean(html[i]) \in Item
    BY <1>n, <1>1, ElementsOf
  <2> HIDE DEF Item
  <2> QED BY <2>1
<1>3. SanitizeHTML(html, x) = all
  BY <1>n, Zenon DEF SanitizeHTML, clean
<1> QED BY <1>2, <1>3, DocAssumption

LEMMA AgreeInit == Init => Agree
BY PaneShows DEF Init, Agree, Blank

LEMMA AgreeStep == Agree /\ [Next]_vars => Agree'
<1> SUFFICES ASSUME Agree, [Next]_vars PROVE Agree'
  OBVIOUS
<1> USE DEF Agree
<1>d. /\ NoMessage \notin Doc /\ Broken \subseteq Doc /\ <<>> \notin Broken
      /\ NoMessage # <<>>
      /\ \A html \in Doc, x \in BOOLEAN : SanitizeHTML(html, x) # NoMessage
  <2>1. <<>> \in Seq(Item)
    OBVIOUS
  <2> QED BY <2>1, DocAssumption, Sanitized
<1>1. CASE UNCHANGED <<width, reader>>
  BY <1>1 DEF reader, Readable
<1>2. CASE applyBody
  <2>1. PICK doc \in Doc \ Broken :
          /\ rawHTML' = doc /\ currentParsed' = SanitizeHTML(doc, FALSE)
          /\ sanitizedBody' \in Rendered(currentParsed', width)
    BY <1>2 DEF applyBody
  <2>2. /\ viewport' = Pane(sanitizedBody', FALSE) /\ width' = width
        /\ loadRemote' = FALSE /\ asked' = FALSE
    BY <1>2 DEF applyBody, RemoteBlocked
  <2>3. currentParsed' # NoMessage
    BY <1>d, <2>1
  <2> QED BY <2>1, <2>2, <2>3, PaneShows DEF Readable, Rendered
<1>3. CASE applyBodyUnsanitised
  <2>1. /\ rawHTML' \in Broken /\ currentParsed' = <<>> /\ sanitizedBody' = PlainText
        /\ viewport' = Pane(PlainText, FALSE) /\ width' = width
        /\ loadRemote' = FALSE /\ asked' = FALSE
    BY <1>3 DEF applyBodyUnsanitised, RemoteBlocked
  <2> QED BY <1>d, <2>1, NothingToBlock, PaneShows DEF Readable, Rendered
<1>4. CASE ShowInline
  BY <1>4 DEF ShowInline, Readable
<1>5. CASE ImagesRendered
  BY <1>5, PaneShows DEF ImagesRendered, Readable
<1>6. CASE ToggleRemote
  <2>1. /\ rawHTML \notin Broken /\ loadRemote' = ~loadRemote
        /\ UNCHANGED <<width, rawHTML>>
        /\ asked' = (currentParsed # NoMessage /\ ~asked)
    BY <1>6 DEF ToggleRemote
  <2>2. CASE currentParsed # NoMessage /\ rawHTML # <<>>
    <3>1. /\ currentParsed' = SanitizeHTML(rawHTML, ~loadRemote)
          /\ sanitizedBody' \in Rendered(currentParsed', width)
          /\ viewport' = Pane(sanitizedBody', FALSE)
      BY <1>6, <2>2 DEF ToggleRemote
    <3>2. asked' = ~loadRemote
      BY <2>1, <2>2
    <3>3. currentParsed' # NoMessage
      BY <1>d, <2>2, <3>1
    <3> QED BY <2>1, <2>2, <3>1, <3>2, <3>3, PaneShows DEF Readable, Rendered
  <2>3. CASE currentParsed # NoMessage /\ rawHTML = <<>>
    <3>1. UNCHANGED <<currentParsed, sanitizedBody, viewport>>
      BY <1>6, <2>3 DEF ToggleRemote
    <3> QED BY <2>1, <2>3, <3>1, NothingToBlock DEF Readable
  <2>4. CASE currentParsed = NoMessage
    BY <1>6, <2>1, <2>4 DEF ToggleRemote
  <2> QED BY <2>2, <2>3, <2>4
<1>7. CASE ToggleRemoteFails
  <2>1. /\ rawHTML \in Broken /\ loadRemote' = ~loadRemote /\ asked' = ~asked
        /\ UNCHANGED <<width, rawHTML, currentParsed, sanitizedBody, viewport>>
    BY <1>7 DEF ToggleRemoteFails
  <2> QED BY <1>d, <2>1, NothingToBlock DEF Readable
<1>8. CASE Resize
  BY <1>8, PaneShows DEF Resize, Readable
<1>9. CASE StartLoad \/ LoadFails
  BY <1>1, <1>9 DEF StartLoad, LoadFails
<1> QED
  BY <1>1, <1>2, <1>3, <1>4, <1>5, <1>6, <1>7, <1>8, <1>9 DEF Next, vars

\* The pane shows what `mail read --rich` prints of the message at the present
\* width, with --load-remote if and only if R asked for it on this message, or
\* its plain text: whatever was loaded, toggled, painted and resized before.
THEOREM PaneShowsWhatWasAsked == Spec => []ShowsWhatWasAsked
<1>1. Agree => ShowsWhatWasAsked
  BY DEF Agree, ShowsWhatWasAsked, Readable, Rendered, ReadRich
<1> QED BY AgreeInit, AgreeStep, <1>1, PTL DEF Spec

\* A body that is not the plain text is what RenderRich made of the HTML that is
\* left of the message, at the present width.
LEMMA RichBody ==
  ASSUME Agree, Rich
  PROVE  /\ currentParsed \in Seq(Item) /\ currentParsed # <<>> /\ width \in Int
         /\ Out = RenderRich(currentParsed, width)
<1>1. currentParsed # NoMessage
  BY DEF Agree, Rich, Out
<1>2. Readable \in Seq(Item)
  <2>1. <<>> \in Seq(Item)
    OBVIOUS
  <2> QED BY <1>1, <2>1, DocAssumption DEF Agree, Readable
<1>3. currentParsed \in Seq(Item)
  BY <1>1, <1>2, Sanitized DEF Agree
<1>4. Out = RenderRich(currentParsed, width)
  BY <1>1 DEF Agree, Rich, Out, Rendered
<1>5. currentParsed # <<>>
  BY <1>4, Zenon DEF Rich, RenderRich
<1> QED BY <1>3, <1>4, <1>5, WidthAssumption DEF Agree

MadeOf(out, html, acc, w) ==
  /\ out.body = preWrapLongTokens(Markdown(html, acc.marks), w)
  /\ out.marks = acc.marks /\ out.links = acc.order /\ out.overflow = acc.dropped
  /\ out.targets = [i \in DOMAIN acc.marks |-> Target(acc.order, acc.marks[i])]
  /\ out.footer = buildFooter(acc.order, w)

LEMMA Parts ==
  ASSUME NEW html, html # <<>>, NEW k \in Int
  PROVE  MadeOf(RenderRich(html, k), html, Accumulate(html), AtLeastOne(k))
<1> SUFFICES ASSUME NEW acc, acc = Accumulate(html), NEW out, out = RenderRich(html, k)
             PROVE  MadeOf(out, html, acc, AtLeastOne(k))
  OBVIOUS
<1> DEFINE w == IF k <= 0 THEN 80 ELSE k
           body == preWrapLongTokens(Markdown(html, acc.marks), w)
           targets == [i \in DOMAIN acc.marks |-> Target(acc.order, acc.marks[i])]
           footer == buildFooter(acc.order, w)
           remote == \E i \in DOMAIN html : html[i] = Image("remote")
<1>1. w = AtLeastOne(k)
  BY WidthOfText
<1>2. out = [body |-> body, marks |-> acc.marks, targets |-> targets,
             links |-> acc.order, footer |-> footer, overflow |-> acc.dropped,
             remote |-> remote]
  BY Zenon DEF RenderRich
<1> HIDE DEF body, targets, footer, remote, w
<1>3. /\ out.body = body /\ out.marks = acc.marks /\ out.links = acc.order
      /\ out.overflow = acc.dropped /\ out.targets = targets /\ out.footer = footer
  BY <1>2
<1> QED BY <1>1, <1>3, Zenon DEF MadeOf, body, targets, footer

\* The footer of every message lists its web links once, in the order of the text,
\* up to the cap; and every link leads to its own URL and has the number of that
\* URL in the footer, or none when the cap left it out: for every document, cap and
\* width, after any loads, toggles and resizes (linkAccumulator, RenderRich).
THEOREM LinksLead == Spec => []LinksLeadWhereTheySay
<1>1. ASSUME Agree PROVE LinksLeadWhereTheySay
  <2> SUFFICES ASSUME Rich PROVE LinksLeadWhereTheySay
    BY DEF LinksLeadWhereTheySay
  <2> DEFINE html == currentParsed
             acc == Accumulate(html)
  <2>1. html \in Seq(Item) /\ html # <<>> /\ width \in Int /\ Out = RenderRich(html, width)
    BY <1>1, RichBody
  <2>2. acc \in Accumulator /\ Holds(html, Len(html), acc)
    BY <2>1, AccumulateHolds
  <2> HIDE DEF html, acc
  <2>3. /\ Out.marks = acc.marks /\ Out.links = acc.order /\ Out.overflow = acc.dropped
        /\ Out.targets = [i \in DOMAIN acc.marks |-> Target(acc.order, acc.marks[i])]
    <3>1. MadeOf(Out, html, acc, AtLeastOne(width))
      BY <2>1, Parts DEF acc
    <3> QED BY <3>1, Zenon DEF MadeOf
  <2>4. ASSUME NEW i \in DOMAIN html
        PROVE  IF ForTheWeb(html[i]) /\ html[i].href \in ToSet(acc.order)
               THEN /\ Target(acc.order, acc.marks[i]) = <<html[i].href>>
                    /\ acc.order[acc.marks[i]] = html[i].href
               ELSE Target(acc.order, acc.marks[i]) = <<>> /\ acc.marks[i] = 0
    <3>1. i \in 1 .. Len(html) /\ 0 \notin DOMAIN acc.order
      BY <2>1, <2>2 DEF Accumulator
    <3>2. Numbered(html[i], acc.marks[i], acc.order)
      BY <2>2, <3>1 DEF Holds
    <3> QED BY <3>1, <3>2, Zenon DEF Numbered, Target
  <2>5. \A i \in DOMAIN html :
          Out.targets[i] = Target(acc.order, acc.marks[i])
    <3>1. DOMAIN html = DOMAIN acc.marks
      BY <2>1, <2>2 DEF Holds, Accumulator
    <3> QED BY <2>3, <3>1, Zenon
  <2>6. \A i \in DOMAIN html :
          IF ForTheWeb(html[i]) /\ html[i].href \in ToSet(Out.links)
          THEN Out.targets[i] = <<html[i].href>> /\ Out.links[Out.marks[i]] = html[i].href
          ELSE Out.targets[i] = <<>> /\ Out.marks[i] = 0
    BY <2>3, <2>4, <2>5, Zenon
  <2>7. /\ ToSet(Out.links) \subseteq WebHrefs(html) /\ Len(Out.links) <= maxLinks
        /\ \A m, n \in DOMAIN Out.links :
             m < n => Before(html, Out.links[m], Out.links[n])
        /\ \A href \in LeftOut(html, Out.links) :
             /\ Len(Out.links) = maxLinks
             /\ \A n \in DOMAIN Out.links : Before(html, Out.links[n], href)
        /\ Out.overflow > 0 <=> LeftOut(html, Out.links) # {}
    BY <2>2, <2>3, Zenon DEF Holds, InOrder, CutOff, WebHrefs, LeftOut
  <2> QED BY <2>6, <2>7, Zenon DEF LinksLeadWhereTheySay, html
<1> QED BY AgreeInit, AgreeStep, <1>1, PTL DEF Spec

\* Wrapping a message loses nothing of its text and of its URLs, and nothing it
\* leaves is wider than the pane but the first word of a link, and a footer in a
\* pane narrower than its numbers: for every document and width, after any loads,
\* toggles and resizes (preWrapLongTokens, buildFooter).
THEOREM PaneFits == Spec => []FitsTheWidth
<1>1. ASSUME Agree PROVE FitsTheWidth
  <2> SUFFICES ASSUME Rich PROVE FitsTheWidth
    BY DEF FitsTheWidth
  <2> DEFINE html == currentParsed
             acc == Accumulate(html)
             w == AtLeastOne(width)
             md == Markdown(html, acc.marks)
  <2>1. html \in Seq(Item) /\ html # <<>> /\ width \in Int /\ Out = RenderRich(html, width)
    BY <1>1, RichBody
  <2>2. /\ acc.marks \in Seq(Nat) /\ Len(acc.marks) = Len(html)
        /\ acc.order \in Seq(Web)
    BY <2>1, AccumulateHolds DEF Accumulator, Holds
  <2>w. w \in Int /\ w = AtLeastOne(w) /\ (width > 0 => w = width) /\ (width <= 0 => w = 80)
    BY <2>1, WidthOfText
  <2>3. md \in Seq(FieldOf)
    BY <2>1, <2>2, MarkdownTyped
  <2> HIDE DEF html, acc, w, md
  <2>4. /\ Out.marks = acc.marks /\ Out.links = acc.order
        /\ Out.body = preWrapLongTokens(md, w) /\ Out.footer = buildFooter(acc.order, w)
    <3>1. MadeOf(Out, html, acc, w)
      BY <2>1, Parts DEF acc, w
    <3> QED BY <3>1, Zenon DEF MadeOf, md
  <2>5. /\ Sum(Lens(Out.body)) = Sum(Lens(md))
        /\ \A i \in DOMAIN Out.body : Out.body[i].sentinel \/ Out.body[i].len <= w
    <3>1. Wraps(md, w, Out.body)
      BY <2>3, <2>4, <2>w, Wrapped
    <3> QED BY <3>1, Zenon DEF Wraps
  <2>6. /\ Out.footer \in Seq(LineOf)
        /\ \A i \in DOMAIN Out.footer :
             Out.footer[i].len <= w \/ w \in 1 .. PrefixLen(Out.footer[i].link)
        /\ \A m \in DOMAIN acc.order :
             Sum(Weights(Out.footer, Share(m))) = UrlLen[acc.order[m]]
    <3>1. Prints(acc.order, w, Out.footer)
      BY <2>2, <2>4, <2>w, FooterFits
    <3> QED BY <3>1, Zenon DEF Prints
  <2>7. ASSUME NEW i \in DOMAIN Out.footer
        PROVE  \/ Out.footer[i].len <= w
               \/ width \in 1 .. PrefixLen(Out.footer[i].link)
    <3>1. PrefixLen(Out.footer[i].link) \in 4 .. 6
      BY PrefixIsShort
    <3>2. Out.footer[i].len <= w \/ w \in 1 .. PrefixLen(Out.footer[i].link)
      BY <2>6
    <3> QED BY <2>1, <2>w, <3>1, <3>2
  <2>8. ASSUME NEW n \in DOMAIN Out.links
        PROVE  Sum([i \in DOMAIN Out.footer |->
                      IF Out.footer[i].link = n
                      THEN Out.footer[i].len - PrefixLen(n) ELSE 0]) = UrlLen[Out.links[n]]
    <3>1. \A i \in DOMAIN Out.footer : Out.footer[i] \in LineOf
      BY <2>6, ElementsOf
    <3>2. Weights(Out.footer, Share(n)) =
            [i \in DOMAIN Out.footer |->
               IF Out.footer[i].link = n THEN Out.footer[i].len - PrefixLen(n) ELSE 0]
      BY <3>1, Zenon DEF Weights, Share
    <3> QED BY <2>4, <2>6, <3>2, Zenon
  <2> QED BY <2>4, <2>5, <2>7, <2>8, Zenon DEF FitsTheWidth, html, md, w
<1> QED BY AgreeInit, AgreeStep, <1>1, PTL DEF Spec
===================================================================================
