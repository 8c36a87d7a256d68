------------------------------ MODULE MailCommands ------------------------------
(***************************************************************************)
(* `mail ls`, `mail search` and `mail tmux status` (cmd/mail/main.go) over *)
(* several mailboxes: which of them they sync, list in the cache or list   *)
(* live when one of these fails, and what of the result they print, while  *)
(* mail arrives and mail-tui syncs the same cache.  That a Sync takes      *)
(* effect as a whole is what MailCache shows (SyncIsAtomic); here it is    *)
(* one step.                                                               *)
(*                                                                         *)
(* Messages are numbered in the order of their SK.  A command that cannot  *)
(* begin (no mailbox, no credentials, for search no cache) prints an error *)
(* and is left out.                                                        *)
(***************************************************************************)
EXTENDS Integers, FiniteSetsExt, SequencesExt

CONSTANTS
  Key, Mailbox,
  Recipients,  \* Recipients[k]: the mailboxes message k was sent to
  Configured,  \* the mailboxes of config.toml, in order
  inbox,       \* the default of --mailbox
  Count,       \* values of --count and --limit
  Query,       \* queries, as the messages that match
  PageLimit,   \* SyncPageLimit (a bound here; 500 in the program)
  Int32Size,   \* how many numbers an int32 has
  None

ASSUME MailAssumption ==
  /\ Key \subseteq Nat /\ IsFiniteSet(Key)
  /\ Recipients \in [Key -> SUBSET Mailbox]
  /\ Configured \in Seq(Mailbox) /\ inbox \in Mailbox /\ None \notin Mailbox
ASSUME NumberAssumption ==
  /\ Count \subseteq Int /\ Query \subseteq SUBSET Key /\ PageLimit \in Nat \ {0}
  /\ Int32Size \in Nat /\ 2 * PageLimit < Int32Size

VARIABLES
  index,  \* the table: the pairs <<mailbox, message>> that are indexed
  rows,   \* the cache: rows[k] is the mailbox of the row of message k, or None
  cmd,    \* the command that runs
  then    \* history: table and cache when it began, what has happened since
vars == <<index, rows, cmd, then>>

------------------------------------------------------------------------------
InTable(table, m) == {k \in Key : <<m, k>> \in table}
Cached(m) == {k \in Key : rows[k] = m}
Newest(S, n) == {k \in S : Cardinality({i \in S : i > k}) < n}

Int32(n) ==
  LET r == n % Int32Size IN IF 2 * r >= Int32Size THEN r - Int32Size ELSE r

\* reader.List refuses a limit that is not positive; SQLite takes a negative LIMIT
\* for none.
ReaderTakes(n) == Int32(n) > 0
ReaderList(m, n) == Newest(InTable(index, m), Int32(n))
CacheList(m, n) == IF n < 0 THEN Cached(m) ELSE Newest(Cached(m), n)
Limited(S, n) ==
  IF n < 0 THEN {S} ELSE {R \in SUBSET S : Cardinality(R) = Min({n, Cardinality(S)})}

\* A page that was listed at some time since the table was `before`.
SyncSizeOfDisplay == Int32(cmd.count)
SyncSize == PageLimit
Pages(before, m) ==
  {Newest(InTable(table, m), SyncSize) : table \in {T \in SUBSET index : before \subseteq T}}
Installed(m, page) == [k \in Key |-> IF k \in page THEN m ELSE rows[k]]

------------------------------------------------------------------------------
Idle == [name |-> "none", at |-> "idle", boxes |-> <<>>, todo |-> <<>>,
         count |-> 0, query |-> {}, all |-> <<>>]
Begins(table, cache) ==
  [index |-> table, rows |-> cache, fresh |-> {}, silent |-> {}, moved |-> {}]
Started == Begins(index, rows)
NotStarted == Begins({}, [k \in Key |-> None])

Init ==
  /\ index = {} /\ rows = [k \in Key |-> None]
  /\ cmd = Idle /\ then = NotStarted

Deliver ==
  \E k \in Key : \E m \in Recipients[k] :
    /\ <<m, k>> \notin index
    /\ index' = index \cup {<<m, k>>}
    /\ UNCHANGED <<rows, cmd, then>>

\* mail-tui, or another command, syncs a mailbox.
OtherSync ==
  \E m \in Mailbox : \E page \in Pages({}, m) :
    /\ rows' = Installed(m, page)
    /\ then' = IF cmd = Idle THEN then
               ELSE [then EXCEPT !.moved =
                       @ \cup {k \in page : rows[k] \notin {None, m}}]
    /\ UNCHANGED <<index, cmd>>

\* --mailbox, or else the mailboxes of the configuration.
Boxes == {<<m>> : m \in Mailbox} \cup ({Configured} \ {<<>>})
Start(name, boxes, query, first) ==
  /\ cmd.at = "idle"
  /\ \E count \in Count :
       cmd' = [name |-> name, at |-> first, boxes |-> boxes, todo |-> boxes,
               count |-> count, query |-> query, all |-> <<>>]
  /\ then' = Started
  /\ UNCHANGED <<index, rows>>

\* ls lists live when the cache cannot be opened ...
StartLs ==
  \E boxes \in Boxes, first \in {"sync", "live"} : Start("ls", boxes, {}, first)
\* ... search does without the syncs when there is no reader ...
StartSearch ==
  \E boxes \in Boxes, query \in Query, first \in {"sync", "search"} :
    Start("search", boxes, query, first)
\* ... and status is always live, and falls back to the inbox.
StartStatus ==
  \E boxes \in Boxes \cup {<<inbox>>} : Start("status", boxes, {}, "live")

Box == Head(cmd.todo)
Running(phases) == cmd.at \in phases /\ cmd.todo # <<>>

\* A listing, or what several mailboxes gave, with its newest first.
Listing(found) ==
  [i \in 1 .. Cardinality(found) |->
     CHOOSE k \in found : Cardinality({j \in found : j > k}) = i - 1]
NewestFirst(s) ==
  [i \in DOMAIN s |->
     CHOOSE k \in ToSet(s) : /\ Cardinality({j \in DOMAIN s : s[j] > k}) < i
                             /\ i <= Cardinality({j \in DOMAIN s : s[j] >= k})]

\* The next mailbox: ls syncs each before it lists it; search syncs them all first.
Onward(found) ==
  [cmd EXCEPT !.all = @ \o Listing(found), !.todo = Tail(@),
              !.at = IF @ \in {"list", "fallback"} THEN "sync" ELSE @]
AfterSync ==
  IF cmd.name = "ls" THEN [cmd EXCEPT !.at = "list"]
  ELSE IF Len(cmd.todo) > 1 THEN [cmd EXCEPT !.todo = Tail(@)]
  ELSE [cmd EXCEPT !.at = "search", !.todo = cmd.boxes]

SyncWorks ==
  /\ Running({"sync"})
  /\ \E page \in Pages(then.index, Box) : rows' = Installed(Box, page)
  /\ cmd' = AfterSync
  /\ then' = [then EXCEPT !.fresh = @ \cup {Box}]
  /\ UNCHANGED index

\* A warning; the cache is read all the same.
SyncFails ==
  /\ Running({"sync"})
  /\ cmd' = AfterSync
  /\ UNCHANGED <<index, rows, then>>

ListCached ==
  /\ Running({"list"})
  /\ cmd' = Onward(CacheList(Box, cmd.count))
  /\ UNCHANGED <<index, rows, then>>

ListCachedFails ==
  /\ Running({"list"})
  /\ cmd' = [cmd EXCEPT !.at = "fallback"]
  /\ UNCHANGED <<index, rows, then>>

ListLive ==
  /\ Running({"live", "fallback"}) /\ ReaderTakes(cmd.count)
  /\ cmd' = Onward(ReaderList(Box, cmd.count))
  /\ then' = [then EXCEPT !.fresh = @ \cup {Box}]
  /\ UNCHANGED <<index, rows>>

\* The mailbox is left out of the result.
ListLiveFails ==
  /\ Running({"live", "fallback"})
  /\ cmd' = Onward({})
  /\ then' = [then EXCEPT !.silent = @ \cup {Box}]
  /\ UNCHANGED <<index, rows>>

SearchCached ==
  /\ Running({"search"})
  /\ \E found \in Limited(Cached(Box) \cap cmd.query, cmd.count) : cmd' = Onward(found)
  /\ UNCHANGED <<index, rows, then>>

SearchFails ==
  /\ Running({"search"})
  /\ cmd' = Onward({})
  /\ then' = [then EXCEPT !.silent = @ \cup {Box}]
  /\ UNCHANGED <<index, rows>>

\* ls sorts what the mailboxes gave and cuts it at --count: all[:count], which
\* panics for a negative count.
Unsorted == cmd.all
Sorted == NewestFirst(cmd.all)
TooMany == Len(cmd.all) > cmd.count
CutPanics == cmd.count \notin 0 .. Len(cmd.all)
Cut == SubSeq(Sorted, 1, cmd.count)

Done == cmd.todo = <<>> /\ cmd.at \notin {"idle", "printed", "panicked"}
PrintList ==
  /\ Done /\ cmd.name = "ls"
  /\ cmd' = IF ~TooMany THEN [cmd EXCEPT !.at = "printed", !.all = Sorted]
            ELSE IF CutPanics THEN [cmd EXCEPT !.at = "panicked"]
            ELSE [cmd EXCEPT !.at = "printed", !.all = Cut]
  /\ UNCHANGED <<index, rows, then>>
PrintAll ==
  /\ Done /\ cmd.name # "ls"
  /\ cmd' = [cmd EXCEPT !.at = "printed"]
  /\ UNCHANGED <<index, rows, then>>

Exit ==
  /\ cmd.at \in {"printed", "panicked"}
  /\ cmd' = Idle /\ then' = NotStarted
  /\ UNCHANGED <<index, rows>>

Next ==
  \/ Deliver \/ OtherSync
  \/ StartLs \/ StartSearch \/ StartStatus
  \/ SyncWorks \/ SyncFails \/ ListCached \/ ListCachedFails
  \/ ListLive \/ ListLiveFails \/ SearchCached \/ SearchFails
  \/ PrintList \/ PrintAll \/ Exit

Spec == Init /\ [][Next]_vars

------------------------------------------------------------------------------
(* Properties *)

\* The types; and what the cache holds for a mailbox is listed in the table for
\* that mailbox, whichever command put it there.
TypeOK ==
  /\ index \subseteq Mailbox \X Key
  /\ rows \in [Key -> Mailbox \cup {None}]
  /\ \A k \in Key : rows[k] # None => <<rows[k], k>> \in index
  /\ cmd \in [name : {"none", "ls", "search", "status"},
              at : {"idle", "sync", "list", "live", "fallback", "search", "printed", "panicked"},
              boxes : Seq(Mailbox), todo : Seq(Mailbox), count : Int,
              query : SUBSET Key, all : Seq(Key)]
  /\ then \in [index : SUBSET index, rows : [Key -> Mailbox \cup {None}],
               fresh : SUBSET Mailbox, silent : SUBSET Mailbox, moved : SUBSET Key]

Printed(name) == cmd.at = "printed" /\ cmd.name = name
Shown == ToSet(cmd.all)
EveryMailboxAnswered == then.silent = {}

\* What the command could know: what was in the table of a mailbox it reached, or
\* in the cache, when it began; less what another process has moved in the cache
\* to another mailbox since then.
Known ==
  {k \in Key \ then.moved :
     \E m \in ToSet(cmd.boxes) :
       \/ m \in then.fresh /\ <<m, k>> \in then.index
       \/ then.rows[k] = m}

\* Where the result has message k; in which mailboxes of the command it is.
Places(k) == {i \in DOMAIN cmd.all : cmd.all[i] = k}
Homes(k) == {i \in DOMAIN cmd.boxes : <<cmd.boxes[i], k>> \in index}

\* Message k is beyond the page of SyncPageLimit of a mailbox of the command.
BeyondThePage(k) ==
  \E m \in ToSet(cmd.boxes) :
    k \in InTable(index, m) \ Newest(InTable(index, m), PageLimit)

\* `mail ls` shows the newest messages of its mailboxes: if each mailbox answered,
\* from the cache or live, a message is left out only for --count newer ones,
\* whichever syncs failed and whatever arrived or was synced meanwhile; and it gets
\* that far unless --count is negative.  A message takes at most one place of the
\* --count for each of the mailboxes it is in: more than one, although it is the same
\* message, when these are listed live or a Sync moves its row between two listings
\* (DistinctMessagesAreShown is refuted).  Two things bound the promise: --count fits
\* the int32 of a live listing; and where a page has no place for --count messages and
\* for those that others took from the cache meanwhile, a message beyond the page may
\* be missing.
LsShowsTheNewest ==
  /\ cmd.at = "panicked" => cmd.count < 0
  /\ Printed("ls") =>
       /\ Len(cmd.all) <= cmd.count
       /\ \A k \in Shown : Cardinality(Places(k)) <= Cardinality(Homes(k))
       /\ EveryMailboxAnswered /\ Int32(cmd.count) = cmd.count =>
            \A k \in Known \ Shown :
              \/ Len(cmd.all) = cmd.count /\ \A i \in Shown : i > k
              \/ /\ cmd.count + Cardinality(then.moved) > PageLimit
                 /\ BeyondThePage(k)

\* `mail search` finds each matching message of the newest SyncPageLimit that it
\* could know, whatever --count is, also one that several mailboxes share; unless
\* some mailbox had, with what others have taken from the cache meanwhile, as many
\* matches as are wanted of it.
SearchMissesNothing ==
  Printed("search") /\ EveryMailboxAnswered =>
    \A k \in Known \cap cmd.query :
      \/ k \in Shown
      \/ BeyondThePage(k)
      \/ \E m \in ToSet(cmd.boxes) :
           cmd.count \in 0 .. Cardinality((Cached(m) \cup then.moved) \cap cmd.query)
================================================================================
