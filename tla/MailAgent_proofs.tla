---------------------------- MODULE MailAgent_proofs ----------------------------
(***************************************************************************)
(* Theorems about MailAgent, for any mailbox, tools, limits, widths and     *)
(* number of turns.  The inductive invariant IInv says                      *)
(*   Typed      the types, and that a turn in progress is one of MaxIters;  *)
(*   Sighted    the searcher reads the index only where the index has what  *)
(*              is known, and is not empty if there was mail;               *)
(*   TurnsAreAnswered  an assistant message is followed by the results of   *)
(*              its calls, in their order, as far as they were executed;    *)
(*              the calls still to execute are those of the last one;       *)
(*   the two properties of the last search.                                 *)
(***************************************************************************)
EXTENDS MailAgent, SequenceTheorems, FiniteSetTheorems, TLAPS

Call == [name : Tool, id : {NoId} \cup (Int \X Int)]
Turn == [role : Roles, calls : Seq(Call)]

SearchTyped == last.made \in BOOLEAN /\ (last.made => last.limit \in Int)

Typed ==
  /\ backend \in {"claude", "ollama"}
  /\ mailbox \subseteq Key /\ cached \subseteq mailbox /\ known \subseteq mailbox
  /\ searcher \in {"none", "fts", "substring"}
  /\ phase \in {"open", "probe", "chat", "tools", "answered", "failed"}
  /\ searcher = "none" <=> phase \in {"open", "probe"}
  /\ turn \in 0 .. MaxIters /\ (phase = "tools" => turn < MaxIters)
  /\ msgs \in Seq(Turn) /\ todo \in Seq(Call)
  /\ phase = "tools" <=> todo # <<>>
  /\ SearchTyped

Sighted ==
  /\ hadMail \in BOOLEAN /\ (hadMail => mailbox # {})
  /\ phase \in {"open", "probe"} => last = NoSearch
  /\ phase \in {"open", "probe"} \/ searcher = "fts" => known \subseteq cached
  /\ searcher = "fts" /\ hadMail => cached # {}

\* The turn at p of the conversation s, when the calls w are still to be executed.
Followed(s, w, p) ==
  LET n == Len(s[p].calls) IN
  /\ \A i \in 1 .. n : p + i <= Len(s) => s[p + i] = ToolResult(s[p].calls[i])
  /\ p + n < Len(s) => s[p + n + 1].role # "tool"
  /\ \/ p + n <= Len(s) /\ (w # <<>> => p + n < Len(s))
     \/ /\ w # <<>> /\ p + n = Len(s) + Len(w)
        /\ \A i \in 1 .. Len(w) : w[i] = s[p].calls[Len(s) - p + i]

TurnsAreAnswered ==
  \A p \in 1 .. Len(msgs) : msgs[p].role = "assistant" => Followed(msgs, todo, p)

IInv ==
  /\ Typed /\ Sighted /\ TurnsAreAnswered
  /\ SearchFindsMatches /\ SearchIsNotRefused

------------------------------------------------------------------------------
(* Numbers *)

LEMMA SmallModulo ==
  ASSUME NEW a \in Nat, NEW b \in Nat, a < b
  PROVE  a % b = a
<1> DEFINE q == a \div b
           r == a % b
<1>1. q \in Int /\ r \in 0 .. (b - 1) /\ a = b * q + r
  OBVIOUS
<1> HIDE DEF q, r
<1>2. ~(q >= 1) /\ ~(q <= -1)
  BY <1>1
<1>3. r = a
  BY <1>1, <1>2
<1> QED BY <1>3 DEF r

\* A number that an int32 holds is itself as an int32.
LEMMA Int32Keeps ==
  ASSUME NEW n \in 0 .. Int32Max
  PROVE  int32(n) = n
<1> DEFINE a == n + Int32Max + 1
           b == 2 * (Int32Max + 1)
<1>1. Int32Max \in Nat
  BY LimitAssumption
<1>2. a \in Nat /\ b \in Nat /\ a < b
  BY <1>1
<1>3. a % b = a
  BY <1>2, SmallModulo
<1> HIDE DEF a, b
<1>4. int32(n) = a - (Int32Max + 1)
  BY <1>3 DEF int32, a, b
<1> QED BY <1>1, <1>4 DEF a

\* A limit that is not above the clamp, and not below one, is not refused.
LEMMA ClampedLimit ==
  ASSUME NEW v \in Halves \cup {NoLimit}, NEW n \in Limits(v, DefaultSearch, IntMax)
  PROVE  /\ Clamped(n) \in Int /\ Clamped(n) <= Clamp
         /\ Clamped(n) >= 0 => int32(Clamped(n)) = Clamped(n)
         /\ Whole(v) => Clamped(n) > 0
<1>1. /\ IntMax \in Nat /\ Int32Max \in Nat /\ Clamp \in 1 .. Int32Max
      /\ DefaultSearch \in 1 .. Clamp
  BY LimitAssumption
<1>2. n \in Int /\ (Whole(v) => n > 0)
  <2>1. CASE v # NoLimit /\ v > 0
    <3>1. v \in Int /\ v \div 2 \in Nat /\ (v % 2 = 0 => v \div 2 >= 1)
      BY <2>1, LimitAssumption
    <3>2. n \in ToInteger(v, IntMax)
      BY <2>1 DEF Limits
    <3> QED BY <1>1, <2>1, <3>1, <3>2 DEF ToInteger, Whole
  <2>2. CASE ~(v # NoLimit /\ v > 0)
    BY <1>1, <2>2 DEF Limits
  <2> QED BY <2>1, <2>2
<1>3. /\ Clamped(n) \in Int /\ Clamped(n) <= Clamp
      /\ n > 0 => Clamped(n) > 0
  BY <1>1, <1>2 DEF Clamped
<1>4. Clamped(n) >= 0 => Clamped(n) \in 0 .. Int32Max
  BY <1>1, <1>3
<1> QED BY <1>2, <1>3, <1>4, Int32Keeps

------------------------------------------------------------------------------
(* Searches *)

\* A row that is beyond a page stays beyond it when rows are added ...
LEMMA BeyondStays ==
  ASSUME NEW T \in SUBSET Key, NEW S \in SUBSET T, NEW n \in Int,
         NEW k \in S, k \notin Newest(S, n)
  PROVE  k \notin Newest(T, n)
<1> DEFINE Above(U) == {i \in U : i > k}
<1>1. IsFiniteSet(Above(T)) /\ Above(S) \subseteq Above(T)
  BY KeyAssumption, FS_Subset
<1>2. /\ Cardinality(Above(S)) <= Cardinality(Above(T))
      /\ Cardinality(Above(S)) \in Nat /\ Cardinality(Above(T)) \in Nat
  <2> HIDE DEF Above
  <2> QED BY <1>1, FS_Subset, FS_CardinalityType
<1>3. ~(Cardinality(Above(S)) < n)
  BY DEF Newest
<1>4. ~(Cardinality(Above(T)) < n)
  <2> HIDE DEF Above
  <2> QED BY <1>2, <1>3
<1> QED BY <1>4 DEF Newest

\* ... and a page of at least one row is not empty where there is one.
LEMMA NewestOfSome ==
  ASSUME NEW S \in SUBSET Key, S # {}, NEW n \in Int, n > 0
  PROVE  Newest(S, n) # {}
<1> DEFINE Above(x) == {y \in S : y > x}
           Tails == {Above(x) : x \in S}
<1>1. IsFiniteSet(S) /\ S \subseteq Nat
  BY KeyAssumption, FS_Subset
<1>2. Tails \subseteq FiniteSubsetsOf(S) /\ Tails # {}
  <2>1. \A x \in S : Above(x) \in SUBSET S /\ IsFiniteSet(Above(x))
    BY <1>1, FS_Subset
  <2> HIDE DEF Above
  <2> QED BY <2>1 DEF FiniteSubsetsOf
<1>3. \E T \in Tails : \A U \in Tails : ~ (<<U, T>> \in StrictSubsetOrdering(S))
  <2> HIDE DEF Tails
  <2> QED BY <1>1, <1>2, FS_StrictSubsetOrderingWellFounded, WFMin, Zenon
<1>4. PICK x \in S : \A y \in S : ~ (<<Above(y), Above(x)>> \in StrictSubsetOrdering(S))
  BY <1>3
<1>5. ASSUME NEW y \in S, y > x PROVE FALSE
  <2>1. x \in Nat /\ y \in Nat /\ \A z \in S : z \in Nat
    BY <1>1
  <2>2. \A z \in S : z > y => z > x
    BY <1>5, <2>1
  <2>3. Above(y) \subseteq Above(x) /\ y \in Above(x) /\ y \notin Above(y)
    <3>1. ~(y > y)
      BY <2>1
    <3> QED BY <1>5, <2>2, <3>1, Zenon
  <2>4. <<Above(y), Above(x)>> \in StrictSubsetOrdering(S)
    BY <2>3 DEF StrictSubsetOrdering
  <2> QED BY <1>4, <2>4
<1>6. Above(x) = {} /\ Cardinality({}) = 0
  BY <1>5, FS_EmptySet
<1>7. Cardinality({i \in S : i > x}) < n
  BY <1>6
<1> QED BY <1>7 DEF Newest

\* What the two properties ask of a search.
FoundIn(s) ==
  LET Both == Phrase[s.query] \cap Substring[s.query]
      Either == Phrase[s.query] \cup Substring[s.query]
      blank == s.query \in Blank
  IN  /\ s.hits \subseteq Either
      /\ blank => s.hits = {}
      /\ \A k \in (known \cap Both) \ s.hits :
           \/ Cardinality(s.hits) = s.limit
           \/ k \notin Newest(mailbox, s.limit)
      /\ hadMail /\ ~blank /\ s.limit > 0 => ~s.blind
Found(s) ==
  /\ s.made \in BOOLEAN /\ (s.made => s.limit \in Int)
  /\ s.made /\ s.whole => ~s.refused
  /\ s.made /\ ~s.failed => FoundIn(s)

LEMMA FtsFinds ==
  ASSUME Typed, Sighted, searcher = "fts", NEW ask, NEW query \in Query,
         NEW limit \in Int, NEW s \in FtsResults(ask, query, limit)
  PROVE  Found(s)
<1> DEFINE all == cached \cap Phrase[query]
<1>1. PICK S \in SUBSET all :
        /\ \/ limit < 0 /\ S = all
           \/ limit >= Cardinality(all) /\ S = all
           \/ limit >= 0 /\ Cardinality(S) = limit
        /\ s = Searched(ask, query, limit, cached, S)
  BY Zenon DEF FtsResults
<1>2. known \subseteq cached /\ (hadMail => cached # {})
  BY DEF Sighted
<1>3. /\ s.made = TRUE /\ s.refused = FALSE /\ s.hits = S /\ s.query = query
      /\ s.limit = limit /\ s.blind = (cached = {})
  BY <1>1 DEF Searched
<1>4. query \in Blank => S = {}
  BY QueryAssumption
<1>5. S = all \/ Cardinality(S) = limit
  BY <1>1
<1> QED BY <1>2, <1>3, <1>4, <1>5 DEF Found, FoundIn

LEMMA SubstringFinds ==
  ASSUME Typed, Sighted, NEW v \in Halves \cup {NoLimit}, NEW query \in Query,
         NEW n \in Limits(v, DefaultSearch, IntMax),
         NEW s \in SubstringResults(v, query, Clamped(n))
  PROVE  Found(s)
<1> DEFINE limit == Clamped(n)
<1>1. /\ limit \in Int
      /\ limit >= 0 => int32(limit) = limit
      /\ Whole(v) => limit > 0
  BY ClampedLimit
<1>2. known \subseteq mailbox /\ mailbox \subseteq Key
  BY DEF Typed
<1> HIDE DEF limit
<1>3. CASE s = SearchFailed(v, query, limit, TRUE) /\ int32(limit) <= 0
  <2>1. ~Whole(v)
    BY <1>1, <1>3
  <2>2. s.made = TRUE /\ s.whole = FALSE /\ s.failed = TRUE /\ s.limit = limit
    BY <1>3, <2>1 DEF SearchFailed, Searched
  <2> QED BY <1>1, <2>2 DEF Found
<1>4. CASE s = SearchFailed(v, query, limit, FALSE)
  <2>1. s.made = TRUE /\ s.refused = FALSE /\ s.failed = TRUE /\ s.limit = limit
    BY <1>4 DEF SearchFailed, Searched
  <2> QED BY <1>1, <2>1 DEF Found
<1>5. CASE query \in Blank /\ s = Searched(v, query, limit, mailbox, {})
  <2>1. /\ s.made = TRUE /\ s.refused = FALSE /\ s.hits = {} /\ s.query = query
        /\ s.limit = limit
    BY <1>5 DEF Searched
  <2>2. Phrase[query] = {}
    BY <1>5, QueryAssumption
  <2> QED BY <1>1, <1>5, <2>1, <2>2 DEF Found, FoundIn
<1>6. CASE /\ query \notin Blank /\ int32(limit) > 0
           /\ s = Searched(v, query, limit, Newest(mailbox, int32(limit)),
                           Newest(mailbox, int32(limit)) \cap Substring[query])
  <2> DEFINE rows == Newest(mailbox, int32(limit))
  <2>1. limit >= 0 => rows = Newest(mailbox, limit)
    BY <1>1
  <2>2. limit < 0 => Newest(mailbox, limit) = {}
    <3>1. ASSUME NEW k \in mailbox PROVE Cardinality({i \in mailbox : i > k}) \in Nat
      BY <1>2, KeyAssumption, FS_Subset, FS_CardinalityType
    <3> QED BY <1>1, <3>1 DEF Newest
  <2>3. hadMail /\ limit > 0 => rows # {}
    BY <1>1, <1>2, NewestOfSome DEF Sighted
  <2>4. /\ s.made = TRUE /\ s.refused = FALSE /\ s.query = query /\ s.limit = limit
        /\ s.hits = rows \cap Substring[query] /\ s.blind = (rows = {})
    BY <1>6 DEF Searched
  <2> HIDE DEF rows
  <2>5. \A k \in (known \cap Substring[query]) \ s.hits : k \notin Newest(mailbox, limit)
    BY <1>1, <2>1, <2>2, <2>4
  <2> QED BY <1>1, <1>6, <2>3, <2>4, <2>5 DEF Found, FoundIn
<1>7. ~(int32(limit) <= 0) => int32(limit) > 0
  <2>1. int32(limit) \in Int
    BY <1>1, LimitAssumption DEF int32
  <2> QED BY <2>1
<1>8. s \in SubstringResults(v, query, limit)
  BY DEF limit
<1> QED
  BY <1>3, <1>4, <1>5, <1>6, <1>7, <1>8, Zenon DEF SubstringResults, ContainsInNewest

------------------------------------------------------------------------------
(* The conversation *)

LEMMA RepliesTyped ==
  ASSUME Typed, NEW r \in Replies
  PROVE  r.calls \in Seq(Call)
<1>1. ASSUME NEW n \in 0 .. MaxCalls, NEW names \in [1 .. n -> Tool]
      PROVE  /\ [i \in DOMAIN names |-> [name |-> names[i], id |-> <<turn, i>>]] \in Seq(Call)
             /\ [i \in DOMAIN names |-> [name |-> names[i], id |-> NoId]] \in Seq(Call)
  <2>1. n \in Nat /\ turn \in Int /\ DOMAIN names = 1 .. n
    BY LoopAssumption DEF Typed
  <2>2. \A i \in 1 .. n : /\ [name |-> names[i], id |-> <<turn, i>>] \in Call
                          /\ [name |-> names[i], id |-> NoId] \in Call
    BY <2>1 DEF Call
  <2>3. /\ [i \in 1 .. n |-> [name |-> names[i], id |-> <<turn, i>>]] \in [1 .. n -> Call]
        /\ [i \in 1 .. n |-> [name |-> names[i], id |-> NoId]] \in [1 .. n -> Call]
    BY <2>2, Zenon
  <2> HIDE DEF Call
  <2> QED BY <2>1, <2>3
<1>2. CASE r \in ClaudeReplies
  <2>1. PICK names \in CallLists :
          r.calls = [i \in DOMAIN names |-> [name |-> names[i], id |-> <<turn, i>>]]
    <3>1. PICK stop \in {"tool_use", "end_turn"}, names \in CallLists :
            r = [stop |-> stop, calls |->
                 [i \in DOMAIN names |-> [name |-> names[i], id |-> <<turn, i>>]]]
      BY <1>2 DEF ClaudeReplies
    <3> QED BY <3>1
  <2>2. PICK n \in 0 .. MaxCalls : names \in [1 .. n -> Tool]
    BY DEF CallLists
  <2> QED BY <1>1, <2>1, <2>2
<1>3. CASE r \in OllamaReplies
  <2>1. PICK names \in CallLists :
          r.calls = [i \in DOMAIN names |-> [name |-> names[i], id |-> NoId]]
    BY <1>3 DEF OllamaReplies
  <2>2. PICK n \in 0 .. MaxCalls : names \in [1 .. n -> Tool]
    BY DEF CallLists
  <2> QED BY <1>1, <2>1, <2>2
<1> QED BY <1>2, <1>3 DEF Replies

\* The conversation t is s with the turn m at its end.
Extends(t, s, m) ==
  /\ Len(t) = Len(s) + 1 /\ t[Len(s) + 1] = m
  /\ \A i \in 1 .. Len(s) : t[i] = s[i]

LEMMA AppendExtends ==
  ASSUME NEW s \in Seq(Turn), NEW m \in Turn
  PROVE  Append(s, m) \in Seq(Turn) /\ Extends(Append(s, m), s, m)
BY AppendProperties DEF Extends

\* A turn that was followed by its results is when another turn begins ...
LEMMA FollowedStays ==
  ASSUME NEW s, NEW t, NEW m, NEW w, NEW v, Len(s) \in Nat, Extends(t, s, m),
         NEW p \in 1 .. Len(s), Len(s[p].calls) \in Nat, Followed(s, w, p),
         \/ m.role # "tool" /\ p + Len(s[p].calls) <= Len(s)
         \/ p + Len(s[p].calls) < Len(s)
  PROVE  Followed(t, v, p)
<1> DEFINE L == Len(s)
           n == Len(s[p].calls)
<1>1. L \in Nat /\ p \in Nat /\ n \in Nat /\ p + n <= L
  OBVIOUS
<1>2. Len(t) = L + 1 /\ t[L + 1] = m /\ (\A i \in 1 .. L : t[i] = s[i]) /\ t[p] = s[p]
  BY DEF Extends
<1>3. /\ \A i \in 1 .. n : p + i <= L => s[p + i] = ToolResult(s[p].calls[i])
      /\ p + n < L => s[p + n + 1].role # "tool"
  BY DEF Followed
<1>4. m.role # "tool" \/ p + n < L
  OBVIOUS
<1> HIDE DEF L
<1>5. Len(t[p].calls) = n
  BY <1>2
<1> HIDE DEF n
<1>6. ASSUME NEW i \in 1 .. n PROVE t[p + i] = ToolResult(t[p].calls[i])
  <2>1. p + i \in 1 .. L
    BY <1>1
  <2> QED BY <1>2, <1>3, <2>1
<1>7. t[p + n + 1].role # "tool"
  <2>1. CASE p + n < L
    <3>1. p + n + 1 \in 1 .. L
      BY <1>1, <2>1
    <3> QED BY <1>2, <1>3, <2>1, <3>1
  <2>2. CASE p + n = L /\ m.role # "tool"
    BY <1>2, <2>2
  <2>3. p + n < L \/ p + n = L
    BY <1>1
  <2> QED BY <1>4, <2>1, <2>2, <2>3
<1>8. p + n <= Len(t) /\ p + n < Len(t)
  BY <1>1, <1>2
<1> QED BY <1>5, <1>6, <1>7, <1>8 DEF Followed

\* ... a new turn is followed by the calls it asks for ...
LEMMA FollowedStarts ==
  ASSUME NEW s, NEW t, NEW m, Len(s) \in Nat, Extends(t, s, m),
         Len(m.calls) \in Nat, m.calls # <<>>
  PROVE  Followed(t, m.calls, Len(s) + 1)
<1> DEFINE L == Len(s)
           n == Len(m.calls)
           p == L + 1
<1>1. L \in Nat /\ n \in Nat /\ Len(t) = p /\ t[p] = m
  BY DEF Extends
<1>2. \A i \in 1 .. n : Len(t) - p + i = i /\ ~(p + i <= Len(t))
  <2> HIDE DEF L, n
  <2> QED BY <1>1
<1>3. p + n = Len(t) + n /\ ~(p + n < Len(t))
  <2> HIDE DEF L, n
  <2> QED BY <1>1
<1>4. \A i \in 1 .. n : m.calls[i] = m.calls[Len(t) - p + i]
  BY <1>2
<1> HIDE DEF p
<1> QED BY <1>1, <1>2, <1>3, <1>4 DEF Followed, p

\* ... and the result of the next call continues it.
LEMMA FollowedContinues ==
  ASSUME NEW s, NEW t, NEW w, NEW v, Len(s) \in Nat,
         Extends(t, s, ToolResult(w[1])),
         Len(w) \in Nat, Len(w) > 0, Len(v) = Len(w) - 1,
         v = <<>> <=> Len(w) = 1,
         \A j \in 1 .. (Len(w) - 1) : v[j] = w[j + 1],
         NEW p \in 1 .. Len(s), Len(s[p].calls) \in Nat, Followed(s, w, p),
         p + Len(s[p].calls) = Len(s) + Len(w),
         \A i \in 1 .. Len(w) : w[i] = s[p].calls[Len(s) - p + i]
  PROVE  Followed(t, v, p)
<1> DEFINE L == Len(s)
           n == Len(s[p].calls)
           W == Len(w)
<1>1. L \in Nat /\ p \in Nat /\ p <= L /\ n \in Nat /\ W \in Nat /\ W > 0 /\ p + n = L + W
  OBVIOUS
<1>2. /\ Len(t) = L + 1 /\ t[L + 1] = ToolResult(w[1])
      /\ \A i \in 1 .. L : t[i] = s[i]
      /\ t[p] = s[p]
  BY DEF Extends
<1>3. \A i \in 1 .. n : p + i <= L => s[p + i] = ToolResult(s[p].calls[i])
  BY DEF Followed
<1>4. Len(t[p].calls) = n
  BY <1>2
<1> HIDE DEF L, n, W
<1>5. ASSUME NEW i \in 1 .. n, p + i <= L + 1
      PROVE  t[p + i] = ToolResult(t[p].calls[i])
  <2>1. CASE p + i <= L
    <3>1. p + i \in 1 .. L
      BY <1>1, <2>1
    <3> QED BY <1>2, <1>3, <2>1, <3>1
  <2>2. CASE p + i = L + 1
    <3>1. i = L - p + 1
      BY <1>1, <2>2
    <3>2. w[1] = s[p].calls[L - p + 1]
      <4>1. 1 \in 1 .. W
        BY <1>1
      <4> QED BY <4>1 DEF L, W
    <3> QED BY <1>2, <2>2, <3>1, <3>2
  <2> QED BY <1>1, <1>5, <2>1, <2>2
<1>6. /\ p + n = L + 1 + (W - 1) /\ ~(p + n < L + 1)
      /\ W = 1 => p + n <= L + 1
  BY <1>1
<1>7. ASSUME NEW j \in 1 .. Len(v)
      PROVE  v[j] = t[p].calls[Len(t) - p + j]
  <2>1. j \in 1 .. (W - 1)
    BY DEF W
  <2>2. j + 1 \in 1 .. W /\ L - p + (j + 1) = L + 1 - p + j
    BY <1>1, <2>1
  <2>3. v[j] = w[j + 1] /\ w[j + 1] = s[p].calls[L - p + (j + 1)]
    BY <2>1, <2>2 DEF W, L
  <2>4. Len(t) - p + j = L + 1 - p + j
    BY <1>1, <1>2, <2>1
  <2> QED BY <1>2, <2>2, <2>3, <2>4
<1>8. Len(v) = W - 1 /\ (v = <<>> <=> W = 1)
  BY DEF W
<1> HIDE DEF Followed
<1>9. ~(p + n < Len(t))
  BY <1>2, <1>6, Zenon
<1>10. \/ p + n <= Len(t) /\ v = <<>>
       \/ /\ v # <<>> /\ p + n = Len(t) + Len(v)
          /\ \A i \in 1 .. Len(v) : v[i] = t[p].calls[Len(t) - p + i]
  <2>1. p + n = Len(t) + Len(v)
    BY <1>2, <1>6, <1>8, Zenon
  <2>2. v = <<>> => p + n <= Len(t)
    BY <1>2, <1>6, <1>8, Zenon
  <2> QED BY <1>7, <2>1, <2>2, Zenon
<1> QED BY <1>2, <1>4, <1>5, <1>9, <1>10 DEF Followed

------------------------------------------------------------------------------
(* The steps *)

\* A reply with calls opens a turn.
LEMMA AssistantOpens ==
  ASSUME Typed, TurnsAreAnswered, todo = <<>>,
         NEW calls \in Seq(Call), calls # <<>>,
         msgs' = Append(msgs, Assistant(calls)), todo' = calls
  PROVE  msgs' \in Seq(Turn) /\ TurnsAreAnswered'
<1>1. /\ Assistant(calls) \in Turn /\ Assistant(calls).role = "assistant"
      /\ Assistant(calls).calls = calls
  BY DEF Assistant, Turn, Roles
<1>2. msgs \in Seq(Turn) /\ Len(msgs) \in Nat /\ Len(calls) \in Nat
  BY DEF Typed
<1>3. msgs' \in Seq(Turn) /\ Extends(msgs', msgs, Assistant(calls))
  BY <1>1, <1>2, AppendExtends
<1>4. Followed(msgs', calls, Len(msgs) + 1)
  BY <1>1, <1>2, <1>3, FollowedStarts
<1>5. ASSUME NEW p \in 1 .. Len(msgs), msgs'[p].role = "assistant"
      PROVE  Followed(msgs', calls, p)
  <2>1. Followed(msgs, todo, p)
    BY <1>3, <1>5 DEF TurnsAreAnswered, Extends
  <2>2. msgs[p] \in Turn
    BY <1>2
  <2>3. Len(msgs[p].calls) \in Nat
    BY <2>2 DEF Turn
  <2>4. p + Len(msgs[p].calls) <= Len(msgs)
    BY <2>1 DEF Followed
  <2> QED BY <1>1, <1>2, <1>3, <2>1, <2>3, <2>4, FollowedStays
<1>6. \A p \in 1 .. Len(msgs') : p \in 1 .. Len(msgs) \/ p = Len(msgs) + 1
  BY <1>2, <1>3 DEF Extends
<1> QED BY <1>3, <1>4, <1>5, <1>6 DEF TurnsAreAnswered

\* The result of a call continues it.
LEMMA TailShortens ==
  ASSUME NEW w \in Seq(Call), w # <<>>
  PROVE  /\ Len(w) \in Nat /\ Len(w) > 0 /\ Head(w) = w[1] /\ w[1] \in Call
         /\ Tail(w) \in Seq(Call) /\ Len(Tail(w)) = Len(w) - 1
         /\ \A j \in 1 .. (Len(w) - 1) : Tail(w)[j] = w[j + 1]
         /\ Tail(w) = <<>> <=> Len(w) = 1
<1>1. Len(w) \in Nat /\ Len(w) > 0 /\ Head(w) = w[1]
  OBVIOUS
<1>2. w[1] \in Call
  BY <1>1
<1>3. Tail(w) \in Seq(Call) /\ Len(Tail(w)) = Len(w) - 1
  OBVIOUS
<1>4. \A j \in 1 .. (Len(w) - 1) : Tail(w)[j] = w[j + 1]
  OBVIOUS
<1>5. Tail(w) = <<>> <=> Len(w) = 1
  <2>1. Tail(w) = <<>> <=> Len(Tail(w)) = 0
    BY <1>3, EmptySeq
  <2> QED BY <1>1, <1>3, <2>1
<1> QED BY <1>1, <1>2, <1>3, <1>4, <1>5

LEMMA ResultContinues ==
  ASSUME Typed, TurnsAreAnswered, todo # <<>>,
         msgs' = Append(msgs, ToolResult(Head(todo))), todo' = Tail(todo)
  PROVE  msgs' \in Seq(Turn) /\ todo' \in Seq(Call) /\ TurnsAreAnswered'
<1>1. /\ todo \in Seq(Call) /\ Len(todo) \in Nat /\ Len(todo) > 0
      /\ Head(todo) = todo[1] /\ todo[1] \in Call
      /\ todo' \in Seq(Call) /\ Len(todo') = Len(todo) - 1
      /\ \A j \in 1 .. (Len(todo) - 1) : todo'[j] = todo[j + 1]
      /\ todo' = <<>> <=> Len(todo) = 1
  BY TailShortens DEF Typed
<1>2. ToolResult(todo[1]) \in Turn /\ ToolResult(todo[1]).role = "tool"
  BY <1>1 DEF ToolResult, Turn, Roles
<1>3. msgs \in Seq(Turn) /\ Len(msgs) \in Nat
  BY DEF Typed
<1>4. msgs' \in Seq(Turn) /\ Extends(msgs', msgs, ToolResult(todo[1]))
  BY <1>1, <1>2, <1>3, AppendExtends
<1>5. ASSUME NEW p \in 1 .. Len(msgs), msgs'[p].role = "assistant"
      PROVE  Followed(msgs', todo', p)
  <2>1. Followed(msgs, todo, p)
    BY <1>4, <1>5 DEF TurnsAreAnswered, Extends
  <2>2. msgs[p] \in Turn
    BY <1>3
  <2>3. Len(msgs[p].calls) \in Nat
    BY <2>2 DEF Turn
  <2>4. CASE p + Len(msgs[p].calls) < Len(msgs)
    BY <1>3, <1>4, <2>1, <2>3, <2>4, FollowedStays
  <2>5. CASE /\ p + Len(msgs[p].calls) = Len(msgs) + Len(todo)
             /\ \A i \in 1 .. Len(todo) : todo[i] = msgs[p].calls[Len(msgs) - p + i]
    BY <1>1, <1>3, <1>4, <2>1, <2>3, <2>5, FollowedContinues
  <2> QED BY <2>1, <2>4, <2>5 DEF Followed
<1>6. \A p \in 1 .. Len(msgs') :
        p \in 1 .. Len(msgs) \/ msgs'[p].role # "assistant"
  <2>1. \A p \in 1 .. Len(msgs') : p \in 1 .. Len(msgs) \/ p = Len(msgs) + 1
    BY <1>3, <1>4 DEF Extends
  <2> QED BY <1>2, <1>4, <2>1 DEF Extends
<1> QED BY <1>1, <1>4, <1>5, <1>6 DEF TurnsAreAnswered

\* The two properties of the last search, from what was found ...
LEMMA FoundIsEnough ==
  ASSUME Found(last)'
  PROVE  SearchTyped' /\ SearchFindsMatches' /\ SearchIsNotRefused'
BY DEF Found, FoundIn, SearchTyped, SearchFindsMatches, SearchIsNotRefused, Answered

\* ... and from nothing being searched.
LEMMA NothingFound ==
  ASSUME last' = NoSearch
  PROVE  SearchTyped' /\ SearchFindsMatches' /\ SearchIsNotRefused'
BY DEF NoSearch, SearchTyped, SearchFindsMatches, SearchIsNotRefused, Answered

LEMMA SearchKept ==
  ASSUME IInv, UNCHANGED <<known, hadMail, last>>,
         mailbox \subseteq mailbox', mailbox' \subseteq Key
  PROVE  SearchTyped' /\ SearchFindsMatches' /\ SearchIsNotRefused'
<1>1. SearchTyped' /\ SearchIsNotRefused'
  BY DEF IInv, Typed, SearchTyped, SearchIsNotRefused
<1>2. known \subseteq mailbox
  BY DEF IInv, Typed
<1>3. ASSUME last.made, NEW k \in known, k \notin Newest(mailbox, last.limit)
      PROVE  k \notin Newest(mailbox', last.limit)
  BY <1>2, <1>3, BeyondStays DEF IInv, Typed, SearchTyped
<1>4. SearchFindsMatches'
  BY <1>3 DEF IInv, SearchFindsMatches, Answered
<1> QED BY <1>1, <1>4

LEMMA TurnsKept ==
  ASSUME IInv, UNCHANGED <<msgs, todo>>
  PROVE  TurnsAreAnswered'
BY DEF IInv, TurnsAreAnswered

\* A tool leaves all but the conversation as it was.
LEMMA ToolKeeps ==
  ASSUME IInv, phase = "tools", NEW failed, AppendResult(failed),
         UNCHANGED <<backend, mailbox, cached, searcher, known, hadMail>>,
         SearchTyped', SearchFindsMatches', SearchIsNotRefused'
  PROVE  IInv'
<1>1. /\ msgs' = Append(msgs, ToolResult(Head(todo))) /\ todo' = Tail(todo)
      /\ IF todo' = <<>> THEN turn' = turn + 1 /\ phase' = "chat"
         ELSE UNCHANGED <<turn, phase>>
  BY DEF AppendResult
<1>2. msgs' \in Seq(Turn) /\ todo' \in Seq(Call) /\ TurnsAreAnswered'
  BY <1>1, ResultContinues DEF IInv, Typed
<1>3. turn \in 0 .. MaxIters /\ turn < MaxIters /\ MaxIters \in Nat
  BY LoopAssumption DEF IInv, Typed
<1>4. /\ turn' \in 0 .. MaxIters /\ (phase' = "tools" => turn' < MaxIters)
      /\ phase' \in {"chat", "tools"} /\ (phase' = "tools" <=> todo' # <<>>)
  BY <1>1, <1>3
<1>5. Typed'
  BY <1>2, <1>4 DEF IInv, Typed
<1>6. Sighted'
  BY <1>4 DEF IInv, Typed, SearchTyped, Sighted
<1> QED BY <1>2, <1>5, <1>6 DEF IInv

LEMMA EndKeeps ==
  ASSUME IInv, phase = "chat", NEW outcome \in {"answered", "failed"}, End(outcome),
         UNCHANGED backend
  PROVE  IInv'
<1>1. SearchFindsMatches' /\ SearchIsNotRefused' /\ SearchTyped'
  BY NothingFound DEF End
<1>2. TurnsAreAnswered'
  BY TurnsKept DEF End
<1>3. Typed' /\ Sighted'
  BY <1>1 DEF End, IInv, Typed, SearchTyped, Sighted
<1> QED BY <1>1, <1>2, <1>3 DEF IInv

LEMMA InitHolds == Init => IInv
<1> SUFFICES ASSUME Init PROVE IInv
  OBVIOUS
<1>1. UserGoal \in Turn /\ UserGoal.role = "user"
  BY DEF UserGoal, Turn, Roles
<1>2. /\ msgs \in Seq(Turn) /\ Len(msgs) = 1 /\ msgs[1].role = "user"
      /\ todo \in Seq(Call)
  BY <1>1 DEF Init
<1>3. last = NoSearch /\ last.made = FALSE
  BY DEF Init, NoSearch
<1>4. Typed
  <2>1. 0 \in 0 .. MaxIters /\ turn = 0
    BY LoopAssumption DEF Init
  <2>2. searcher = "none" <=> phase \in {"open", "probe"}
    BY DEF Init
  <2>3. phase # "tools" /\ todo = <<>>
    BY DEF Init
  <2>4. SearchTyped
    BY <1>3 DEF SearchTyped
  <2> QED BY <1>2, <2>1, <2>2, <2>3, <2>4 DEF Init, Typed
<1>5. Sighted
  BY DEF Init, Sighted
<1>6. TurnsAreAnswered
  BY <1>2 DEF TurnsAreAnswered
<1>7. SearchFindsMatches /\ SearchIsNotRefused
  BY <1>3 DEF SearchFindsMatches, SearchIsNotRefused, Answered
<1> QED BY <1>4, <1>5, <1>6, <1>7 DEF IInv

LEMMA StepKeeps == IInv /\ [Next]_vars => IInv'
<1> SUFFICES ASSUME IInv, [Next]_vars PROVE IInv'
  OBVIOUS
<1>1. CASE Deliver /\ UNCHANGED backend
  <2>1. TurnsAreAnswered' /\ SearchFindsMatches' /\ SearchIsNotRefused'
    BY <1>1, TurnsKept, SearchKept DEF Deliver, IInv, Typed
  <2>2. Typed' /\ Sighted'
    BY <1>1 DEF Deliver, IInv, Typed, SearchTyped, Sighted
  <2> QED BY <2>1, <2>2 DEF IInv
<1>2. CASE OtherSync /\ UNCHANGED backend
  <2>1. TurnsAreAnswered' /\ SearchFindsMatches' /\ SearchIsNotRefused'
    BY <1>2, TurnsKept, SearchKept DEF OtherSync, IInv, Typed
  <2>2. Typed' /\ Sighted'
    BY <1>2 DEF OtherSync, Newest, IInv, Typed, SearchTyped, Sighted
  <2> QED BY <2>1, <2>2 DEF IInv
<1>3. CASE OpenFails /\ UNCHANGED backend
  <2>1. TurnsAreAnswered' /\ SearchFindsMatches' /\ SearchIsNotRefused'
    BY <1>3, TurnsKept, SearchKept DEF OpenFails, IInv, Typed
  <2>2. Typed' /\ Sighted'
    BY <1>3 DEF OpenFails, Choose, IInv, Typed, SearchTyped, Sighted
  <2> QED BY <2>1, <2>2 DEF IInv
<1>4. CASE SyncWorks /\ UNCHANGED backend
  <2>1. last = NoSearch
    BY <1>4 DEF SyncWorks, IInv, Sighted
  <2>2. TurnsAreAnswered' /\ SearchFindsMatches' /\ SearchIsNotRefused'
    BY <1>4, <2>1, TurnsKept, NothingFound DEF SyncWorks
  <2>3. hadMail => Newest(mailbox, PageLimit) # {}
    BY NewestOfSome, LimitAssumption DEF IInv, Typed, SearchTyped, Sighted
  <2>4. Newest(mailbox, PageLimit) \subseteq mailbox
    BY DEF Newest
  <2>5. Typed' /\ Sighted'
    BY <1>4, <2>3, <2>4 DEF SyncWorks, Choose, IInv, Typed, SearchTyped, Sighted
  <2> QED BY <2>2, <2>5 DEF IInv
<1>5. CASE SyncFails /\ UNCHANGED backend
  <2>1. TurnsAreAnswered' /\ SearchFindsMatches' /\ SearchIsNotRefused'
    BY <1>5, TurnsKept, SearchKept DEF SyncFails, IInv, Typed
  <2>2. Typed' /\ Sighted'
    BY <1>5 DEF SyncFails, IInv, Typed, SearchTyped, Sighted
  <2> QED BY <2>1, <2>2 DEF IInv
<1>6. CASE Probe /\ UNCHANGED backend
  <2>1. TurnsAreAnswered' /\ SearchFindsMatches' /\ SearchIsNotRefused'
    BY <1>6, TurnsKept, SearchKept DEF Probe, IInv, Typed
  <2>2. Typed' /\ Sighted'
    BY <1>6 DEF Probe, IndexUsable, Choose, IInv, Typed, SearchTyped, Sighted
  <2> QED BY <2>1, <2>2 DEF IInv
<1>7. CASE CallModel /\ UNCHANGED backend
  <2>1. phase = "chat" /\ turn < MaxIters
    BY <1>7 DEF CallModel, MayIterate
  <2>2. CASE End("failed") \/ End("answered")
    BY <1>7, <2>1, <2>2, EndKeeps
  <2>3. ASSUME NEW r \in Replies, r.calls # <<>>,
               msgs' = Append(msgs, Assistant(r.calls)), todo' = r.calls,
               phase' = "tools", last' = NoSearch,
               UNCHANGED <<mailbox, cached, searcher, known, hadMail, turn>>
        PROVE  IInv'
    <3>1. r.calls \in Seq(Call)
      BY RepliesTyped DEF IInv
    <3>2. msgs' \in Seq(Turn) /\ TurnsAreAnswered'
      BY <2>1, <2>3, <3>1, AssistantOpens DEF IInv, Typed
    <3>3. SearchTyped' /\ SearchFindsMatches' /\ SearchIsNotRefused'
      BY <2>3, NothingFound
    <3>4. Typed' /\ Sighted'
      BY <1>7, <2>1, <2>3, <3>1, <3>2, <3>3 DEF IInv, Typed, SearchTyped, Sighted
    <3> QED BY <3>2, <3>3, <3>4 DEF IInv
  <2> QED BY <1>7, <2>2, <2>3, Zenon DEF CallModel
<1>8. CASE Exceeded /\ UNCHANGED backend
  BY <1>8, EndKeeps DEF Exceeded
<1>9. CASE search_messages /\ UNCHANGED backend
  <2>1. PICK v \in Halves \cup {NoLimit}, query \in Query :
          \E n \in Limits(v, DefaultSearch, IntMax) :
            \E result \in SearchResults(v, query, Clamped(n)) :
              last' = result /\ AppendResult(result.failed)
    BY <1>9, Zenon DEF search_messages
  <2>2. PICK n \in Limits(v, DefaultSearch, IntMax) :
          \E result \in SearchResults(v, query, Clamped(n)) :
            last' = result /\ AppendResult(result.failed)
    BY <2>1, Zenon
  <2>3. PICK result \in SearchResults(v, query, Clamped(n)) :
          last' = result /\ AppendResult(result.failed)
    BY <2>2, Zenon
  <2>4. Found(result)
    <3>1. Typed /\ Sighted
      BY DEF IInv
    <3>2. CASE result \in SubstringResults(v, query, Clamped(n))
      BY <3>1, <3>2, SubstringFinds
    <3>3. CASE searcher = "fts" /\ result \in FtsResults(v, query, Clamped(n))
      <4>1. Clamped(n) \in Int
        BY ClampedLimit
      <4> QED BY <3>1, <3>3, <4>1, FtsFinds
    <3> QED BY <3>2, <3>3 DEF SearchResults
  <2>5. /\ phase = "tools"
        /\ UNCHANGED <<backend, mailbox, cached, searcher, known, hadMail>>
    BY <1>9 DEF search_messages, Calls
  <2>6. Found(last)'
    BY <2>3, <2>4, <2>5 DEF Found, FoundIn
  <2> QED BY <2>3, <2>5, <2>6, FoundIsEnough, ToolKeeps
<1>10. CASE (list_messages \/ read_message \/ UnknownTool) /\ UNCHANGED backend
  <2>1. /\ phase = "tools" /\ \E failed \in BOOLEAN : AppendResult(failed)
        /\ UNCHANGED <<backend, mailbox, cached, searcher, known, hadMail, last>>
    <3>1. CASE list_messages
      BY <1>10, <3>1 DEF list_messages, Calls, AppendResult
    <3>2. CASE read_message
      BY <1>10, <3>2 DEF read_message, Calls
    <3>3. CASE UnknownTool
      BY <1>10, <3>3 DEF UnknownTool
    <3> QED BY <1>10, <3>1, <3>2, <3>3
  <2> QED BY <2>1, SearchKept, ToolKeeps DEF IInv, Typed
<1>11. CASE UNCHANGED vars
  <2>1. SearchTyped' /\ SearchFindsMatches' /\ SearchIsNotRefused' /\ TurnsAreAnswered'
    BY <1>11, SearchKept, TurnsKept DEF vars, IInv, Typed
  <2>2. Typed' /\ Sighted'
    BY <1>11 DEF vars, IInv, Typed, SearchTyped, Sighted
  <2> QED BY <2>1, <2>2 DEF IInv
<1> QED
  BY <1>1, <1>2, <1>3, <1>4, <1>5, <1>6, <1>7, <1>8, <1>9, <1>10, <1>11, Zenon
     DEF Next, Agent, execTool

LEMMA AgentInvariant == Spec => []IInv
BY InitHolds, StepKeeps, PTL DEF Spec

------------------------------------------------------------------------------
(* Theorems *)

\* The command stays within its types: the cache and what is known of it are rows
\* of the mailbox, a searcher is chosen exactly once the start is over, and no
\* turn is taken beyond maxIters.
THEOREM AgentTyped == Spec => []TypeOK
<1>1. IInv => TypeOK
  <2>1. IInv => \A i \in DOMAIN msgs : msgs[i].role \in Roles
    <3>1. IInv => \A i \in DOMAIN msgs : msgs[i] \in Turn
      BY DEF IInv, Typed
    <3> QED BY <3>1 DEF Turn
  <2> QED BY <2>1 DEF IInv, Typed, TypeOK, SearchTyped
<1> QED BY AgentInvariant, <1>1, PTL

\* Each turn that a backend is sent has a result for every call, in the order of
\* the calls and with their references, whatever failed: with the ids of Claude
\* as with the names of Ollama.
THEOREM ResultsAreCorrelated == Spec => []ResultsMatchCalls
<1>1. IInv => ResultsMatchCalls
  <2> SUFFICES ASSUME IInv, phase = "chat", NEW p \in DOMAIN Chat,
                      Len(Chat[p].uses) > 0
               PROVE  /\ p + Len(Chat[p].uses) <= Len(Chat)
                      /\ \A i \in 1 .. Len(Chat[p].uses) :
                           Chat[p + i].results = <<Chat[p].uses[i]>>
                      /\ p + Len(Chat[p].uses) + 1 \in DOMAIN Chat =>
                           Chat[p + Len(Chat[p].uses) + 1].results = <<>>
    BY Zenon DEF ResultsMatchCalls
  <2> DEFINE calls == msgs[p].calls
             n == Len(calls)
             Ref(call) == IF backend = "claude" THEN call.id ELSE call.name
  <2>1. DOMAIN Chat = 1 .. Len(msgs) /\ Len(msgs) \in Nat
        /\ Len(Chat) = Len(msgs) /\ msgs \in Seq(Turn)
    BY DEF Chat, IInv, Typed
  <2>2. \A q \in 1 .. Len(msgs) :
          /\ msgs[q] \in Turn /\ msgs[q].calls \in Seq(Call)
          /\ Chat[q].uses = IF msgs[q].role = "assistant"
                            THEN [i \in DOMAIN msgs[q].calls |-> Ref(msgs[q].calls[i])]
                            ELSE <<>>
          /\ Chat[q].results = IF msgs[q].role = "tool"
                               THEN [i \in DOMAIN msgs[q].calls |-> Ref(msgs[q].calls[i])]
                               ELSE <<>>
    <3> SUFFICES ASSUME NEW q \in 1 .. Len(msgs)
                 PROVE  /\ msgs[q] \in Turn /\ msgs[q].calls \in Seq(Call)
                        /\ Chat[q].uses = IF msgs[q].role = "assistant"
                             THEN [i \in DOMAIN msgs[q].calls |-> Ref(msgs[q].calls[i])]
                             ELSE <<>>
                        /\ Chat[q].results = IF msgs[q].role = "tool"
                             THEN [i \in DOMAIN msgs[q].calls |-> Ref(msgs[q].calls[i])]
                             ELSE <<>>
      OBVIOUS
    <3>1. msgs[q] \in Turn
      BY <2>1
    <3>2. Chat[q] = IF backend = "claude" THEN ClaudeWire(msgs[q]) ELSE OllamaWire(msgs[q])
      BY <2>1 DEF Chat
    <3>3. CASE backend = "claude"
      BY <3>1, <3>2, <3>3 DEF ClaudeWire, Turn
    <3>4. CASE backend # "claude"
      BY <3>1, <3>2, <3>4 DEF OllamaWire, Turn
    <3> QED BY <3>3, <3>4
  <2>3. p \in 1 .. Len(msgs) /\ msgs[p].role = "assistant"
    <3>1. p \in 1 .. Len(msgs)
      BY <2>1
    <3>2. msgs[p].role # "assistant" => Chat[p].uses = <<>>
      BY <2>2, <3>1, Zenon
    <3> QED BY <3>1, <3>2
  <2>4. /\ calls \in Seq(Call) /\ n \in Nat /\ Len(Chat[p].uses) = n
        /\ \A i \in 1 .. n : Chat[p].uses[i] = Ref(calls[i])
    <3>1. calls \in Seq(Call) /\ Chat[p].uses = [i \in DOMAIN calls |-> Ref(calls[i])]
      BY <2>2, <2>3, Zenon
    <3> QED BY <3>1
  <2>5. Followed(msgs, todo, p) /\ todo = <<>>
    BY <2>3 DEF IInv, Typed, TurnsAreAnswered
  <2>6. /\ \A i \in 1 .. n : p + i <= Len(msgs) => msgs[p + i] = ToolResult(calls[i])
        /\ p + n < Len(msgs) => msgs[p + n + 1].role # "tool"
        /\ p + n <= Len(msgs)
    BY <2>5 DEF Followed
  <2> HIDE DEF n, calls
  <2>7. ASSUME NEW i \in 1 .. n
        PROVE  Chat[p + i].results = <<Chat[p].uses[i]>>
    <3>1. p + i \in 1 .. Len(msgs)
      BY <2>1, <2>3, <2>4, <2>6
    <3>2. msgs[p + i] = ToolResult(calls[i])
      BY <2>6, <3>1
    <3>3. msgs[p + i].role = "tool" /\ msgs[p + i].calls = <<calls[i]>>
      BY <3>2 DEF ToolResult
    <3>4. [j \in DOMAIN <<calls[i]>> |-> Ref(<<calls[i]>>[j])] = <<Ref(calls[i])>>
      OBVIOUS
    <3> QED BY <2>2, <2>4, <3>1, <3>3, <3>4
  <2>8. ASSUME p + n + 1 \in DOMAIN Chat
        PROVE  Chat[p + n + 1].results = <<>>
    <3>1. p + n + 1 \in 1 .. Len(msgs) /\ p + n < Len(msgs)
      BY <2>1, <2>3, <2>4, <2>8
    <3> QED BY <2>2, <2>6, <3>1
  <2> QED BY <2>1, <2>4, <2>6, <2>7, <2>8
<1> QED BY AgentInvariant, <1>1, PTL

\* Whatever failed before and whoever syncs meanwhile, a search that is answered
\* finds what a phrase and a substring match alike, of the messages cached when the
\* command started and of the page of its own Sync, unless its limit is reached; it
\* finds nothing that neither matches and nothing for a blank query; and it never
\* looks into an empty index while there is mail.
THEOREM SearchesFind == Spec => []SearchFindsMatches
<1>1. IInv => SearchFindsMatches
  BY DEF IInv
<1> QED BY AgentInvariant, <1>1, PTL

\* No whole limit is refused, whatever the widths of an int and an int32.
THEOREM LimitsAreServed == Spec => []SearchIsNotRefused
<1>1. IInv => SearchIsNotRefused
  BY DEF IInv
<1> QED BY AgentInvariant, <1>1, PTL
===============================================================================
