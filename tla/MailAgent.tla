------------------------------- MODULE MailAgent -------------------------------
(***************************************************************************)
(* `mail ai agent`: the searcher it chooses (cmd/mail/main.go), the bounded *)
(* loop of internal/aiassist/agent.go, its read-only tools, and the two     *)
(* ways a conversation is put on the wire (claude.go, ollama.go).  New mail *)
(* and the Syncs of other processes go on meanwhile; the model may ask for  *)
(* anything, and DynamoDB, S3, SQLite and the backend may fail at any call. *)
(*                                                                         *)
(* One mailbox, whose messages went to nobody else; a larger Key is a newer *)
(* message.  What a tool answers is not kept, but for the last search.  The *)
(* reader and the searcher are never nil in this command.                  *)
(***************************************************************************)
EXTENDS Integers, FiniteSets, Sequences

CONSTANTS
  Key,
  Query, Blank,   \* what the model may search for; the queries of spaces only
  Phrase,         \* Phrase[q]: whose sender or subject has the words of q as an
                  \*   FTS5 phrase, the last one a prefix ("mazon" is not in
                  \*   "amazon", "payment receipt" is in "payment-receipt")
  Substring,      \* Substring[q]: whose sender or subject contains q, lower-cased
                  \*   (the other way round)
  Tool,           \* names the model may call, known tools or not
  Halves,         \* limits the model may ask for, in halves: 1 is 0.5
  NoLimit,        \* it asks for none
  MaxCalls,       \* calls in one turn (a bound)
  MaxIters,
  DefaultList,    \* 20
  DefaultSearch,  \* 50
  PageLimit,      \* cache.SyncPageLimit, 500
  Clamp,          \* 1000
  Int32Max, IntMax

Roles == {"user", "assistant", "tool"}

ASSUME KeyAssumption == Key \subseteq Nat /\ IsFiniteSet(Key)
\* A phrase without a word matches nothing in FTS5.
ASSUME QueryAssumption ==
  /\ Blank \subseteq Query
  /\ {Phrase, Substring} \subseteq [Query -> SUBSET Key]
  /\ \A q \in Blank : Phrase[q] = {}
ASSUME LoopAssumption == MaxCalls \in Nat \ {0} /\ MaxIters \in Nat \ {0}
ASSUME LimitAssumption ==
  /\ Halves \subseteq Int /\ NoLimit \notin Halves
  /\ {DefaultList, DefaultSearch, PageLimit} \subseteq 1 .. Clamp
  /\ {Int32Max, IntMax} \subseteq Nat /\ Clamp \in 1 .. Int32Max /\ IntMax > Int32Max

VARIABLES
  backend,   \* --backend: "claude" or "ollama"
  mailbox,   \* rows of the mailbox in DynamoDB
  cached,    \* its rows in the local cache, committed
  searcher,  \* the backend of search_messages, or "none" yet
  known,     \* history: the rows a search may be expected to look into
  hadMail,   \* history: the mailbox was not empty when the command started
  phase, turn, msgs,
  todo,      \* calls of this turn that are still to be executed
  last       \* the last search of this turn
vars == <<backend, mailbox, cached, searcher, known, hadMail, phase, turn, msgs,
          todo, last>>

------------------------------------------------------------------------------
(* Numbers *)

\* Go leaves a float that does not fit to the platform: amd64 gives the least
\* value of the type, arm64 the nearest one.
ToInteger(v, max) == IF v \div 2 <= max THEN {v \div 2} ELSE {max, -max - 1}
\* An int as an int32 loses its high bits.
int32(n) == ((n + Int32Max + 1) % (2 * (Int32Max + 1))) - (Int32Max + 1)

Limits(v, default, max) ==
  IF v # NoLimit /\ v > 0 THEN ToInteger(v, max) ELSE {default}

Unclamped(n) == n
Clamped(n) == IF n > Clamp THEN Clamp ELSE n

------------------------------------------------------------------------------
(* The two backends of a search, which do not match alike *)

Newest(S, n) == {k \in S : Cardinality({i \in S : i > k}) < n}

\* A search: its query and limit, and whether a whole number of messages that an
\* int holds (or nothing) was asked for; whether there was anything to look into;
\* what was found; whether it was refused for its limit; whether it failed.
Whole(v) == v = NoLimit \/ (v % 2 = 0 /\ v \div 2 <= IntMax)
NoSearch == [made |-> FALSE]
Searched(ask, query, limit, looked, hits) ==
  [made |-> TRUE, whole |-> Whole(ask), query |-> query, limit |-> limit,
   blind |-> looked = {}, hits |-> hits, refused |-> FALSE, failed |-> FALSE]
SearchFailed(ask, query, limit, refused) ==
  [Searched(ask, query, limit, {}, {}) EXCEPT !.refused = refused, !.failed = TRUE]

\* cache.Search: ranked, so any hits may be the first ones; SQLite takes a
\* negative LIMIT for none.
FtsResults(ask, query, limit) ==
  LET all == cached \cap Phrase[query] IN
  {Searched(ask, query, limit, cached, hits) :
     hits \in {S \in SUBSET all :
                 \/ limit < 0 /\ S = all
                 \/ limit >= Cardinality(all) /\ S = all
                 \/ limit >= 0 /\ Cardinality(S) = limit}}

\* Contains over the newest rows of DynamoDB.
ContainsInNewest(ask, query, limit) ==
  IF int32(limit) <= 0 THEN {SearchFailed(ask, query, limit, TRUE)}
  ELSE LET rows == Newest(mailbox, int32(limit)) IN
       {Searched(ask, query, limit, rows, rows \cap Substring[query]),
        SearchFailed(ask, query, limit, FALSE)}

\* substringSearcher
SubstringResults(ask, query, limit) ==
  IF query \in Blank THEN {Searched(ask, query, limit, mailbox, {})}
  ELSE ContainsInNewest(ask, query, limit)

\* fallbackSearcher: an FTS error, and nothing else, falls back.
SearchResults(ask, query, limit) ==
  SubstringResults(ask, query, limit) \cup
    (IF searcher = "fts" THEN FtsResults(ask, query, limit) ELSE {})

------------------------------------------------------------------------------
(* The conversation, and how a provider sends it *)

UserGoal == [role |-> "user", calls |-> <<>>]
Assistant(calls) == [role |-> "assistant", calls |-> calls]
ToolResult(call) == [role |-> "tool", calls |-> <<call>>]

\* Claude correlates by tool_use id: results are blocks of user messages.
ClaudeWire(m) ==
  LET ids == [i \in DOMAIN m.calls |-> m.calls[i].id] IN
  [role |-> IF m.role = "tool" THEN "user" ELSE m.role,
   uses |-> IF m.role = "assistant" THEN ids ELSE <<>>,
   results |-> IF m.role = "tool" THEN ids ELSE <<>>]

\* Ollama correlates by tool name and order.
OllamaWire(m) ==
  LET names == [i \in DOMAIN m.calls |-> m.calls[i].name] IN
  [role |-> m.role,
   uses |-> IF m.role = "assistant" THEN names ELSE <<>>,
   results |-> IF m.role = "tool" THEN names ELSE <<>>]

\* What the next call of the backend will send.
Chat ==
  [i \in DOMAIN msgs |->
     IF backend = "claude" THEN ClaudeWire(msgs[i]) ELSE OllamaWire(msgs[i])]

CallLists == UNION {[1 .. n -> Tool] : n \in 0 .. MaxCalls}

\* Claude gives each call an id and stops for its own reasons.
ClaudeReplies ==
  {[stop  |-> stop,
    calls |-> [i \in DOMAIN names |-> [name |-> names[i], id |-> <<turn, i>>]]] :
     stop \in {"tool_use", "end_turn"}, names \in CallLists}

\* Ollama does neither: the reason is derived from the calls.
NoId == <<>>
OllamaReplies ==
  {[stop  |-> IF names # <<>> THEN "tool_use" ELSE "end",
    calls |-> [i \in DOMAIN names |-> [name |-> names[i], id |-> NoId]]] :
     names \in CallLists}

Replies == IF backend = "claude" THEN ClaudeReplies ELSE OllamaReplies

------------------------------------------------------------------------------
Init ==
  /\ backend \in {"claude", "ollama"}
  /\ mailbox \in SUBSET Key
  /\ cached \in SUBSET mailbox
  /\ searcher = "none"
  /\ known = cached
  /\ hadMail = (mailbox # {})
  /\ phase = "open"
  /\ turn = 0
  /\ msgs = <<UserGoal>>
  /\ todo = <<>>
  /\ last = NoSearch

\* The receiving Lambda indexes a message; another process commits the page that it
\* read before, of the rows there were then.
Deliver ==
  /\ \E k \in Key \ mailbox : mailbox' = mailbox \cup {k}
  /\ UNCHANGED <<cached, searcher, known, hadMail, phase, turn, msgs, todo, last>>
OtherSync ==
  /\ \E table \in SUBSET mailbox : cached' = cached \cup Newest(table, PageLimit)
  /\ UNCHANGED <<mailbox, searcher, known, hadMail, phase, turn, msgs, todo, last>>

Choose(s) == searcher' = s /\ phase' = "chat"

\* No cache path, or cache.Open fails.
OpenFails ==
  /\ phase = "open"
  /\ Choose("substring")
  /\ UNCHANGED <<mailbox, cached, known, hadMail, turn, msgs, todo, last>>

\* Its own Sync: one page.
SyncWorks ==
  /\ phase = "open"
  /\ cached' = cached \cup Newest(mailbox, PageLimit)
  /\ known' = known \cup Newest(mailbox, PageLimit)
  /\ Choose("fts")
  /\ UNCHANGED <<mailbox, hadMail, turn, msgs, todo, last>>
SyncFails ==
  /\ phase = "open"
  /\ phase' = "probe"
  /\ UNCHANGED <<mailbox, cached, searcher, known, hadMail, turn, msgs, todo, last>>

\* After a failed Sync: cache.List(mailbox, 1), which may fail too.
IndexUsable == cached # {}
Probe ==
  /\ phase = "probe"
  /\ \/ Choose(IF IndexUsable THEN "fts" ELSE "substring")
     \/ Choose("substring")
  /\ UNCHANGED <<mailbox, cached, known, hadMail, turn, msgs, todo, last>>

End(outcome) ==
  /\ phase' = outcome
  /\ last' = NoSearch
  /\ UNCHANGED <<mailbox, cached, searcher, known, hadMail, turn, msgs, todo>>

\* One iteration of the loop: Chat ...
MayIterateOnceMore == turn <= MaxIters
MayIterate == turn < MaxIters
CallModel ==
  /\ phase = "chat" /\ MayIterate
  /\ \/ End("failed")
     \/ \E r \in Replies :
          IF r.stop # "tool_use" \/ r.calls = <<>> THEN End("answered")
          ELSE /\ msgs' = Append(msgs, Assistant(r.calls))
               /\ todo' = r.calls
               /\ phase' = "tools"
               /\ last' = NoSearch
               /\ UNCHANGED <<mailbox, cached, searcher, known, hadMail, turn>>

Exceeded ==
  /\ phase = "chat" /\ turn = MaxIters
  /\ End("failed")

\* ... and every call in its order, a failed one answered with its error.
RetryFailed(failed) ==
  IF failed THEN UNCHANGED <<msgs, todo, turn, phase>>
  ELSE /\ msgs' = Append(msgs, ToolResult(Head(todo)))
       /\ todo' = Tail(todo)
       /\ IF todo' = <<>> THEN turn' = turn + 1 /\ phase' = "chat"
          ELSE UNCHANGED <<turn, phase>>
StopAtError(failed) ==
  /\ msgs' = Append(msgs, ToolResult(Head(todo)))
  /\ todo' = IF failed THEN <<>> ELSE Tail(todo)
  /\ IF todo' = <<>> THEN turn' = turn + 1 /\ phase' = "chat"
     ELSE UNCHANGED <<turn, phase>>
AppendResult(failed) ==
  /\ msgs' = Append(msgs, ToolResult(Head(todo)))
  /\ todo' = Tail(todo)
  /\ IF todo' = <<>> THEN turn' = turn + 1 /\ phase' = "chat"
     ELSE UNCHANGED <<turn, phase>>

Calls(name) == phase = "tools" /\ Head(todo).name = name

\* reader.List refuses a limit that is not positive, and may fail.
list_messages ==
  /\ Calls("list_messages")
  /\ \E v \in Halves \cup {NoLimit} :
       \E limit \in Limits(v, DefaultList, Int32Max) :
         \E refusedByAws \in BOOLEAN : AppendResult(limit <= 0 \/ refusedByAws)
  /\ UNCHANGED <<mailbox, cached, searcher, known, hadMail, last>>

read_message ==
  /\ Calls("read_message")
  /\ \E failed \in BOOLEAN : AppendResult(failed)
  /\ UNCHANGED <<mailbox, cached, searcher, known, hadMail, last>>

search_messages ==
  /\ Calls("search_messages")
  /\ \E v \in Halves \cup {NoLimit}, query \in Query :
       \E n \in Limits(v, DefaultSearch, IntMax) :
         \E result \in SearchResults(v, query, Clamped(n)) :
           last' = result /\ AppendResult(result.failed)
  /\ UNCHANGED <<mailbox, cached, searcher, known, hadMail>>

KnownTools == {"list_messages", "read_message", "search_messages"}
UnknownTool ==
  /\ phase = "tools" /\ Head(todo).name \notin KnownTools
  /\ AppendResult(FALSE)
  /\ UNCHANGED <<mailbox, cached, searcher, known, hadMail, last>>

execTool == list_messages \/ read_message \/ search_messages \/ UnknownTool

Agent ==
  \/ OpenFails \/ SyncWorks \/ SyncFails \/ Probe
  \/ CallModel \/ Exceeded \/ execTool

Next == (Deliver \/ OtherSync \/ Agent) /\ UNCHANGED backend

Spec == Init /\ [][Next]_vars
\* Every call of the command ends: the backends' HTTP clients have timeouts.
FairSpec == Spec /\ WF_vars(Agent /\ UNCHANGED backend)

------------------------------------------------------------------------------
(* Properties *)

TypeOK ==
  /\ backend \in {"claude", "ollama"}
  /\ mailbox \subseteq Key /\ cached \subseteq mailbox /\ known \subseteq mailbox
  /\ searcher \in {"none", "fts", "substring"}
  /\ phase \in {"open", "probe", "chat", "tools", "answered", "failed"}
  /\ searcher = "none" <=> phase \in {"open", "probe"}
  /\ turn \in 0 .. MaxIters
  /\ phase = "tools" <=> todo # <<>>
  /\ \A i \in DOMAIN msgs : msgs[i].role \in Roles
  /\ last.made \in BOOLEAN

\* Whatever tools failed, what a backend is sent can be correlated by its rule:
\* each turn's results follow it, one for each call, in the order of the calls,
\* with their references, and nothing else comes between.
ResultsMatchCalls ==
  phase = "chat" =>
    \A p \in DOMAIN Chat :
      LET n == Len(Chat[p].uses)
          rest == p + n + 1
      IN  n > 0 =>
          /\ p + n <= Len(Chat)
          /\ \A i \in 1 .. n : Chat[p + i].results = <<Chat[p].uses[i]>>
          /\ rest \in DOMAIN Chat => Chat[rest].results = <<>>

Answered == last.made /\ ~last.failed

\* The two backends match differently, so that what is found depends on what
\* failed.  But whatever failed before (the cache, the Sync, the probe, an FTS
\* query) and whoever syncs meanwhile, a search that returns without an error finds
\* what both of them match, of the messages cached when the command started and of
\* the page of its own Sync: unless the limit is reached by the hits, or by newer
\* rows of the mailbox.  It finds nothing that neither matches, and nothing for a
\* blank query, which every subject with a space contains; and it has not looked
\* into an empty cache while the mailbox had mail when the command started ("nunca
\* ciego").
SearchFindsMatches ==
  Answered =>
    LET Both == Phrase[last.query] \cap Substring[last.query]
        Either == Phrase[last.query] \cup Substring[last.query]
        blank == last.query \in Blank
    IN  /\ last.hits \subseteq Either
        /\ blank => last.hits = {}
        /\ \A k \in (known \cap Both) \ last.hits :
             \/ Cardinality(last.hits) = last.limit
             \/ k \notin Newest(mailbox, last.limit)
        /\ hadMail /\ ~blank /\ last.limit > 0 => ~last.blind

\* A whole number of messages that an int can hold, however large, never makes
\* the fallback refuse the search.
SearchIsNotRefused == last.made /\ last.whole => ~last.refused

\* The loop ends, with an answer or an error.
AgentEnds == <>(phase \in {"answered", "failed"})
===============================================================================
