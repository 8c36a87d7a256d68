# A TLA+ development of erickaldama-mail

`erickaldama-mail` is a personal mail system in Go: a receiving pipeline on AWS
(SES, S3, a Lambda, DynamoDB), a local SQLite cache, a command line (`mail`), a
full-screen client (`mail-tui`), and an assistant that reads mail with a language
model. This directory models the parts of it that are concurrent, that fail, or
that count, and the algorithms that addresses, threads and links go through. It
checks them with TLC on small instances, and proves with TLAPS, for instances of any
size, the safety properties of the full-screen client, of the cache, of the receiving
pipeline and of the two together, of the commands, of the agent, of writing mail, and
what the reader pane shows.

1. [The system](#1-the-system)
2. [The modules, and how they follow the code](#2-the-modules-and-how-they-follow-the-code)
3. [The runs](#3-the-runs)
4. [Where the repository and its code disagree](#4-where-the-repository-and-its-code-disagree)
5. [The proofs](#5-the-proofs)
6. [What is not modelled](#6-what-is-not-modelled)
7. [Plan](#7-plan)

## 1. The system

| Component | State | Operations | Talks to |
|---|---|---|---|
| Event loop of `mail-tui` (`cmd/mail-tui`) | mode, focus, list and selection, filter, `inflight`, load generations, debounce generation, the message shown and its images, the draft, `confirming` | one `Update` per key, timer or answer | the cache and the live reader through commands; SES through the sender; `$EDITOR` |
| Header cache (`internal/cache`) | SQLite: `headers`, the contentless index `headers_fts`, `sync_state`; one connection per process | `Sync`, `List`, `Search` | DynamoDB through `HeaderLister`; the same file in other processes |
| Receiving pipeline (`cmd/lambda/receive`, `internal/infra/receiving_stack.go`) | the bucket, the table, queued events, the dead-letter queue, `once`/`initErr` in each environment | the receipt rule, `handler`, Lambda's retries | SES, Lambda, DynamoDB, SQS |
| `mail ls`, `mail search`, `mail tmux status` | the mailboxes still to do, what was found | for each mailbox sync and read the cache, or list live; merge, sort, cut | cache, reader |
| `mail ai agent` (`internal/aiassist`) | the conversation, the turn, the searcher chosen at start | `RunAgent`, `execTool`, the two-backend search | cache, reader, a provider |
| Providers (`claude`, `ollama`) | none | `Chat`: put the turns on the wire, read the reply | an HTTP API |
| `mail read`, `send`, `reply`, `tmux popup` | a draft | open, edit, confirm, build, send | reader, sender, `$EDITOR` |
| Message building, parsing, rendering (`internal/message`) | the list of links of one rendering | `Build`, `ReplyHeaders`, `Parse`, `SanitizeHTML`, `RenderRich` | - |
| Reader and sender (`internal/mailbox`) | none | `List`, `Open`, `Send` | DynamoDB, S3, SES |
| Wiring, configuration, redaction, terminal images | none | - | - |
| The other CDK stacks, IAM policies, gates, workflows | - | synthesised or run once | AWS, GitHub |

What makes them hard:

- **`mail-tui`** runs one `Update` at a time, but every command is a goroutine
  and its answer comes back after any number of other `Update`s. Body loads
  overlap; a render belongs to a body that may have gone; a refresh is checked
  when it starts and rebuilds the list when it ends; an answer to a reply fetch,
  an editor or a send reaches whatever the composer holds then; and one counter,
  `inflight`, shared by all of them, decides whether refresh is possible at all.
  It is right when the counter is exact, the reader settles on the last choice,
  nothing stale is shown, the cursor is the user's, and what is sent is what was
  confirmed.
- **The cache** is written by several processes without a lock of its own. `Sync`
  lists before its transaction begins and replaces index entries that no trigger
  maintains, and a process holds one connection for everything. It is right when
  a `Sync` is atomic, the index matches the headers, and no failure leaves a
  lock, a connection or half of a page behind.
- **The receiving pipeline** is asynchronous at every step: events are retried,
  duplicated, and given up. It is right when a message that was answered has all
  its rows, a row is never replaced and can be opened, and a message that could
  not be indexed is parked.
- **The two together** share only the table and the S3Keys. They are right when a
  header that any client lists can be opened, and what SES stored is cached or
  parked at last.
- **The commands** go through several mailboxes, any step of which may fail without
  ending the command, and pass one number to SQL, to DynamoDB and to a slice. They
  are right when what they print is the newest of what they could know, and no
  match is missed.
- **Writing mail** handles addresses as texts, in three programs (`mail`,
  `mail-tui`, and those of correspondents) that answer each other. It is right when
  nobody is lost, added or written to twice, a blind copy stays blind however long
  the conversation gets, and a thread is whole.
- **The reader pane** is made again by loads, the toggle of remote images, renders
  and resizes in any order, with links whose marker, footer entry and target are
  produced in three passes. It is right when it shows what was asked for that
  message at that width.
- **The agent** is driven by a model that may ask for anything. It is right when
  the loop ends, each call is answered in a form the backend can correlate, and
  a search neither looks into an empty cache nor fails on a boundary.

`PROJECT.json` lists the components, and the hazards of this code at their lines
with the properties that cover them.

## 2. The modules, and how they follow the code

| Module | What it is |
|---|---|
| `MailTui` | the event loop of `mail-tui` |
| `LatestWins` | abstract: a reader pane shows only the newest answer |
| `MailCache` | the cache, and `mail-tui`, `mail ls` and `mail search` using it |
| `CachePromise` | abstract: a listing is installed whole or not at all |
| `MailReceive` | the receipt rule, the Lambda, the dead-letter queue |
| `MailSystem` | `MailReceive` and `MailCache` composed: from SES to a cached header |
| `MailCommands` | `mail ls`, `mail search`, `mail tmux status` over several mailboxes |
| `MailSend` | writing mail: `mail send`, `mail reply`, the composer of `mail-tui`, `Build`, `Send`, in a conversation |
| `MessageRender` | `SanitizeHTML`, `RenderRich` and `links.go` as functions |
| `MailReader` | the reader pane of `mail-tui`, over `MessageRender` |
| `MailAgent` | `mail ai agent` with its searcher and its providers |
| `MailTui_proofs`, `MailCache_proofs`, `MailReceive_proofs`, `MailSystem_proofs`, `MailCommands_proofs`, `MailSend_proofs`, `MailReader_proofs`, `MailAgent_proofs` | theorems about the modules of those names |
| `MC*` | small instances for TLC |
| `*Claims` | statements of the repository that the code does not keep |

`PROJECT.json` maps each definition to its lines.

### MailTui

One action is one whole `Update`. `task[s]` is a command that was started and
not yet answered: `Slots` bounds how many there are. `task[s].kind` is the
command, and the action that removes it is the `case` of its message.

| Code | Model |
|---|---|
| `m.inflight`, the spinner's tick loop | `inflight`, `spinning` |
| `loadDebounceGen`, `loadPendingKey`, `loadGen` | the same names |
| `currentParsed` and the load it came from | `currentParsed = [key, gen]` (`gen` is history) |
| `imageBlobs` | whose images are painted, and the tag they passed the check with |
| `m.list` | `items`, `selected`, `filtering`; `Newest[S]` is the item at index 0 |
| `m.compose`, `confirming` | `compose = [re, text]`, `confirming` |
| `applyFilter`, `rebuildList`, `scheduleLoad`, `applyBody`, `canRefresh` | operators of those names |
| the goroutine of `doRefresh` | `RefreshSyncs` (Sync and List), then `RefreshDone` or `RefreshKeepsList` when it is delivered |
| `reader`, `sender`, `cache`, as `main` found them | `wiring`, one of `Wirings`, never changed |
| `$EDITOR` through `tea.ExecProcess` | `OpenEditor`, `EditorDone`; messages sent before and after it are delivered around it |

`anchor`, `approved`, `quiet`, `uncounted` and `failed` are history variables: no
guard reads them. `quiet` records that, when `Ctrl-S` was pressed, no reply fetch
and no editor was unanswered; `uncounted` that an operation which never
incremented `inflight` has decremented it. The program starts with the cached rows,
with none when nothing answers, or with a live listing: whatever `main` could load
(`Init`). A search of the filter returns any set of cached rows; the limits 200 and 50
of `List` and the page of 500 are not reached. `/` moving the cursor to the first item is what the list component does
(external).

### MailCache

A *job* is a refresh of `mail-tui`, a `mail ls` or a `mail search`: `ListPage`,
`BeginTx`, then for each row of the page, newest first, `ReadOld`, `DeleteOld` (if
the row was there), `Upsert` and `InsertNew`, then `RecordState`, `Commit`, and the
read of its command. Each statement is an action, so other jobs run in between.
`Rollback` may follow any of them: it is an error return followed by the deferred
`tx.Rollback()`. `Crash` kills a process with all its jobs.

From how the code uses it, SQLite is modelled as: a transaction sees the database
of its first statement; one transaction writes at a time; a transaction whose
snapshot another commit has overtaken cannot write (`MayWrite`) and is rolled back.
`conn[p]` is `SetMaxOpenConns(1)`. S3Keys are numbered in the order of their sort
keys; rows are never deleted, so the key stands for the rowid. Sender and subject
are one text, and taking an entry out of the contentless index with another text
than the one indexed takes out nothing, which is what makes the order of `Sync`'s
statements matter. `Rewrite` (a row put again with another text) has no source
under `cmd/`; `Sync` is written for it and `sync_test.go:66` tests it.

### MailReceive

A message is its SES id, which is also its S3 key. `StoreRaw` and `InvokeAsync` are
the two actions of the receipt rule; `event[m][c]` is copy `c` of the invocation
event. An environment takes a queued event (`Begin`, with `once.Do(initClients)`
inside), puts one row per recipient of the domain (`PutItem`), and returns. What it
still has to put is a set of places in `Recipients` (`todo`), of which `NextItem` is
the first, as the `for` loop goes.
`ReturnsError`, `AnswerLost` (the row was written, the answer was lost) and `Dies`
(the timeout, or the environment is reclaimed) end in Lambda's `OnFailure`: retry
up to `RetryAttempts`, then the queue. The sort key is `<<second, Message-ID>>`, and
the condition on `PutItem` is on it.

### MailSystem

`MailReceive` is extended and `MailCache` instantiated: `Key` is `Message`, the
S3Key that both a row and a cached header carry, and `index` is computed from
`table`: what a Query of a mailbox returns of the row under the sort key of a
message. The texts of the cache are those of the messages (`TextOf`, `Texts`), and
`SystemAssumption` gives the clients what `MailCache` assumes of its own constants.
`Cache!Init` and the actions of the clients are used as they are;
`MailCache`'s `Deliver`, which invents rows, is replaced by the handler's
`PutItem`. `SystemCaches == Cache!Spec` states that this is a refinement: retries,
duplicates, collisions and crashes of the Lambda do nothing to the table that
`MailCache` does not take into account. The instance has one environment and one
copy of each event (the races of two are those of `receive`), and pages of one
row, so that a message can be pushed out of a page before it is synced.

### MailCommands

A step of `cmd` is one step for one mailbox: its Sync, its listing, its search, or
the failure of one of these. `todo` is what the `for` loop has left, `all` what was
appended. A Sync takes effect at once, which is what `SyncIsAtomic` of `MailCache`
gives; its page was listed at some time since the command began (`Pages`).
`OtherSync` is `mail-tui` or another command doing the same. `--count` keeps its
meaning in each place it reaches: a SQL `LIMIT`, where a negative number is none,
an int32 with the width `Int32Size`, and the bound of a slice, which panics. A listing
(`Listing`) and the sort (`NewestFirst`) are given by ranks: at place `i` is the key
that has `i - 1` newer ones. `then` is history: what was in the table and the cache
when the command began, which mailboxes were synced then, which did not answer at all
(`silent`), and which messages other processes have taken from the cache for another
mailbox since (`moved`). `all` keeps repeats, as the slice does: `Places(k)` is where
message `k` is in it, `Homes(k)` in which of the command's mailboxes it is.

### MailSend

An address is a token with the person it reaches, its lower-case form, and its
pieces after `strings.Split(",")`: that is all the code and the properties look at.
A subject is how many `Re:` it begins with. A message is its place in `mail`, and
its Message-ID, when it has one, is that number. `cmd` is the one command that
runs, stage by stage: `open`, `edit`, `ask`, `build`, `transmit`, `detect`; errors
of each stage have their action. Correspondents write and answer to all as
RFC 5322 describes (external). `Build` hands a name-addr to enmime as an addr-spec,
which writes another address (`Written`). `ReachAssumption` says what these do to the
person: a piece, or what stands in a header, reaches the same one or nobody; an
addr-spec has no comma, and two addr-specs reach one person when they differ in case
only. `replyAllCc` is the code's loop, as a function of how far it has come. In `mail-tui` only what concerns the
message is here: when its keys and answers come is `MailTui`'s matter.

### MessageRender and MailReader

A document is a sequence of words, links and images; words and URLs are their
lengths (`Item`). `newLinkRule` is the rule of that name: it takes an item and the
accumulator, calls `add` for a link that is for the web, and marks the item with its
number, or with 0. `Accumulate` runs it over the document; `chunkRunes` is a
recursive function; `RenderRich` returns the words after wrapping, the marks and
targets of the items, the lines of the footer and the number dropped. `maxLinks` is at
most 999, so that a number has three digits (500 in the program). Not in the
model: the header and the overflow line of the footer, lines inside the text of a
link, and glamour's own layout.

`MailReader` has the fields of the model that the pane is made of, and one action
per key or answer that changes them. Rendering may fail each time, and sanitising
fails for the documents in `Broken`. `asked` is history: whether `R` was pressed an
odd number of times on the present message.

### MailAgent

`backend` is the value of `--backend`, chosen once. `SyncWorks`, `SyncFails`,
`Probe` and `OpenFails` choose the searcher as `cmd/mail/main.go` does;
`CallModel` is an iteration of `RunAgent`, and the tools are actions named as in
`execTool`. What arguments the model gives is chosen when
the tool runs. What a query matches is two constants, because the two searchers match
differently: `Phrase[q]` is what the full-text index gives (tokens in order, the last
one a prefix: `EscapeFTS`), `Substring[q]` what `strings.Contains` gives on the
lower-case texts; nothing is assumed of the one and the other, except that a query in
`Blank` has no tokens. The agent's own Sync and `OtherSync` bring the newest
`PageLimit` messages. `ClaudeWire` and `OllamaWire` are the two translations of a turn,
and `ResultsMatchCalls` is stated on what goes on the wire. Numbers keep their
widths: a float that an int cannot hold becomes the least or the greatest value
(Go leaves it to the platform), and an int that becomes an int32 loses its high
bits. The widths and the clamp are constants, scaled down by the runs.

## 3. The runs

`SPECIFICATION`, constants and properties of each are in its `.cfg`.

| Run | Instance | Question |
|---|---|---|
| `browse` | 2 messages, one of which arrives meanwhile; 3 commands at once, 3 debounced selections, resizes | Do counting, loading and painting survive every order of answers? Does the loader implement `LatestWins`? Does any background step move the cursor off a listed message? |
| `compose` | 2 messages, replies, editors, sends, refreshes, quitting; with AWS, or with no reader and a nil sender | Do the types hold, `inflight` at 0 included? Does `inflight` leak? Is the prompt always visible? Is a quietly confirmed draft the one that is sent? |
| `live` | 2 messages, 2 commands, 3 debounced selections, 2 loads that fail, up to 6 more by refreshes, fair | Is each choice answered, does refresh revive, does a blank reader recover? |
| `cache` | 2 messages, one of them in both mailboxes, 2 texts; a refresh and a `mail search` in 2 processes | Is `Sync` atomic? Does the index stay exact? Does a command show what it synced? Are connections and locks returned? |
| `cache_live` | 2 refreshes of one process and a `mail ls` of another, fair | Is what DynamoDB lists cached some time, however the jobs get in each other's way? |
| `receive` | 2 messages of one second and one Message-ID, 3 recipients, 2 environments, 2 copies, 2 retries | Are rows complete, openable, never replaced? |
| `system` | 2 messages, one for both mailboxes, a refresh of one of them, a page of 1 row, 2 retries, fair | Can what is listed be opened? Does the Lambda implement what the cache takes for granted? Is a stored message cached or parked at last? |
| `agent` | both backends, 2 turns of up to 2 calls of any tool, every start of the cache, fair; 2 messages and 3 queries: one that both searchers find in a message and only the index in the other, one that only the substring search finds, a blank one; a page of 1; no limit, 5 and 9 around a clamp of 3, an int32 of 3 bits and an int of 4 | Can results be correlated? Does the loop end? Do searches find what either searcher must find? Is an empty index ever searched? Is a whole limit ever refused? |
| `commands` | 3 messages for one mailbox, one of them also for the other of the configuration, a page of 2 rows, `--count` of -1, 0, 1, 2, 3 and 9 with an int32 of 3 bits | Are the newest shown, whatever fails, and how often each? Is any match missed? |
| `send` | 3 messages; the user in two spellings and with a display name, a correspondent with a display name and with a comma in it, one who only gets blind copies | Are threads whole? Does a blind copy stay blind? Does an answer to all reach everyone, once? |
| `reader` | 2 loads of 76 documents: every sequence of up to 3 links, some of 4, pairs of the other items, a link without words; a cap of 2 links; widths 0, 4 and 12 | Does the pane show what was asked? Do markers, footer and targets agree? Is anything lost or too wide? |
| `claim_one_send` | that of `compose` | A statement of the repository that TLC refutes: section 4. |

**Bounds.** Three undelivered commands are what the races of `mail-tui` need: two
that overtake each other and the one whose place they share; two messages give a
choice that supersedes another and come back to it; `MaxTicks` bounds selections,
and loads are never more than selections and `MaxReloads`. `MaxReloads` bounds the
reloads by which refreshes recover a blank reader; it is 0 in the safety runs, and in
`live` it never binds (9 selections and reloads are allowed, 7 are made).
`MaxFailures` bounds the loads that may fail: in `browse` all of them, in `compose`
none, where editors and sends fail instead, and in `live` the first two, since
nothing recovers where all loads fail. Slots are interchangeable (a slot is
only a place), so the safety runs use symmetry; the liveness run does not. In the
cache, two transactions are enough to make one outdated, and two keys and two
texts to confuse two entries of the index. In the pipeline, the two messages
collide on purpose, one recipient is written in two spellings, one is
outside the domain, and two retries is what is deployed. The agent's widths keep
the order 0 < 0.5 < 1 <= default <= page < clamp <= int32 < int of the program.
In `commands`, two mailboxes and a shared message are what the merge can confuse,
and a page shorter than the mailboxes is what makes the fixed page of a Sync
matter. Three messages are the shortest conversation in which a reply answers a
reply. A cap of two links is passed by the third, and repeated before and after;
width 4 is no wider than the prefix of the footer and shorter than most words, and
0 is what a terminal without a size gives.

**Deadlock** is checked except in `receive` (everything may be answered), in
`agent` (the command ends) and in `send` (the conversation is bounded). In
`compose`, a client that quit or panicked stops, and no other one (`Ended`).

**Fairness.** `MailTui!FairSpec`: a goroutine that was started ends and Bubble Tea
delivers its message, the 30s tick is always re-armed, the spinner ticks while it
lives. `ConnectedSpec` adds that a refresh tried again and again succeeds some
time (strong fairness of `RefreshSyncs` and `RefreshDone`): without it nothing can
be said of a reader that has never loaded. And it is about time: the 30s tick
(`model.go:85`) comes when the debounce timers of 150ms (`model.go:163`) that were
started before it have fired (`PromptRefreshTick`). Otherwise a refresh could
supersede the load of the refresh before it, for ever. The user is never fair; the run leaves
out `g` and `i`, because a user who presses them for ever does keep the counter
busy. `MailCache!FairSpec`: a job goes on and is started again, and from some time
on the disk and the network work and no process is killed; contention between
jobs remains and must resolve itself. `MailSystem!FairSystemSpec`: SES runs its second
action after its first, a queued event is picked up (strong fairness, since
environments come and go), an invocation ends. Nothing is assumed of its success:
retries are bounded. The clients are those of `MailCache!FairSpec`, but the user
runs `mail` a finite number of times: another process that syncs without end may
overtake every refresh before it commits. `MailAgent!FairSpec`: a call ends (the HTTP clients have
timeouts).

**What the properties say.** `InflightExact` is qualified by `~uncounted` and
`SendsWhatWasConfirmed` by `quiet`; without these both are false (`ClaimComposer`,
`ClaimConfirmed`). `PaintedImagesMatch` is qualified by the tag for the same
reason (`ClaimBrowse`), and `ShowsWhatItSynced` by messages that went to one mailbox
(`ClaimHistory`). `BlankReaderRecovers` holds however many loads have failed, as long
as they do not fail for ever (`MaxFailures`); it lets the user stay in the filter or
the composer, where no refresh is made. `SearchFindsMatches` promises of the agent's
search what both searchers match, since which of them answers depends on what has
failed; of what one matches and the other does not it says only that a hit is matched
by one of them. That hits are always phrases, as the tool tells the model, is false
(`ClaimAgent`). `AnswerReachesEveryone` is
stated for messages whose addresses are plain (`ClaimSend`), and
`ShowsWhatWasAsked` of the body alone, without the images under it
(`ClaimReader`). `Hidden`, of whom `BlindStaysBlind` speaks, leaves out the text in Bcc
that reaches nobody. `LsShowsTheNewest` counts on every mailbox having answered, from
the cache or live, and on a `--count` that fits an int32, which a live listing makes of
it. Where a page has no place for `--count` messages and for those that others took
from the cache meanwhile, it says nothing of messages beyond the page: a full page of
newer messages that then move away leaves a hole. It counts places and not messages,
because `ls` does: a message of two mailboxes may be listed for each and take two of
the `--count` places, so that fewer messages are shown (`ClaimCommands`); the property
says that it never takes more than one for each mailbox it is in.
`SearchMissesNothing` counts on the newest
`SyncPageLimit`, and on fewer matches than are wanted, those that moved away included.
Each qualified property
therefore says where exactly the guarantee ends.

## 4. Where the repository and its code disagree

One of them is a finding of `PROJECT.json`, with a run of its own, `claim_one_send`:
a second `y` before `sentMsg` sends the draft again, which is what clearing
`confirming` was to prevent (`composer.go:51-53`).

The others are kept beside the models, each a property of a `*Claims` module, or of
`MCMailCommands`, with a `.cfg`; `tlc -config <cfg> <module>` prints its counterexample. `ClaimComposer`,
`ClaimReader`, `ClaimSend` and `ClaimStale` hold two each, `ClaimAgent` and
`ClaimBrowse` three;
`tlc -continue` goes on to the others.

| Configuration (module) | Statement | What the code does |
|---|---|---|
| `ClaimSender` (`MailTuiClaims`) | "live operations will fail gracefully when attempted" (`cmd/mail-tui/main.go:69-70`) | Without credentials the sender is a nil pointer in an interface: `!= nil` holds and `Send` panics. |
| `ClaimHistory` (`MailCacheClaims`) | "search/list must see the full local history" (`sync.go:14-16`) | `headers` has one row per S3Key: a message of two mailboxes leaves the one that synced first. |
| `ClaimWaits` (`MailCacheClaims`) | of two commands, "la segunda continúa sin error visible" (`docs/v0.5-CACHE.md:203-206`) | A Sync that has read before the other commits holds an outdated snapshot: SQLite refuses its writes at once, however long `busy_timeout` is. |
| `ClaimCommands` (`MCMailCommands`) | `--count`: "Number of messages to list" (`cmd/mail/main.go:119`) | `mail ls --count 2` lists two mailboxes live, the first with messages 1 and 2, the second with 2 alone; sorted and cut it prints 2 twice and leaves out 1. Nothing removes the repeat before `all[:count]` (`main.go:186`). |
| `ClaimSend` (`MailSendClaims`), `ReplyAllLeavesSelfOut` | "minus self" (`README.md:144`) | Whole texts are compared: the user with a display name stays in Cc. |
| `ClaimSend` (`MailSendClaims`), `BuildGetsPlainAddresses` | "All address fields … accept plain addr-spec only" (`build.go:50-51`) | A reply hands `Build` the From header of the message, display name included. |
| `ClaimReader` (`MailReaderClaims`), `ImagesStay` | images are attached again "so showImages mode doesn't go blank" (`model.go:591`) | `R` makes the body again without the images that were under it. |
| `ClaimReader` (`MailReaderClaims`), `DroppedAreDistinct` | "distinct http/https hrefs rejected by the cap" (`links.go:41`) | Each occurrence beyond the cap is counted, repeats included. |
| `ClaimBrowse` (`MailTuiClaims`), `RefreshLeavesFilterAlone` | "the refresh never yanks the list out from under an active interaction" (`model.go:216-217`) | A refresh that started before `/` rebuilds the list under the filter and closes it: `canRefresh` is not asked again at `refreshDoneMsg`. |
| `ClaimBrowse` (`MailTuiClaims`), `ImagesMatchBody` | "don't paint old images on the new body" (`model.go:332`) | `i` pressed while a newer body loads tags the old images with the new generation; they are painted on the new body. |
| `ClaimComposer` (`MailTuiClaims`), `BusyIsCounted` | "async ops in flight" (`model.go:49`) | `sentMsg`, and `errMsg` of a send or an editor, take a place in `inflight` that a load holds. |
| `ClaimComposer` (`MailTuiClaims`), `EditorReturnsToItsDraft` | "carries the edited draft back" (`model.go:139`) | The editor's text goes into the reply that replaced its draft. |
| `ClaimConfirmed` (`MailTuiClaims`) | sending requires explicit confirmation (`docs/superpowers/plans/2026-06-24-sp4-tui-client.md:2122`) | A reply fetch answered under the prompt replaces the draft that `y` sends. |
| `ClaimBrowse` (`MailTuiClaims`), `CancelledFilterKeepsSelection` | "Preserves the current selection" (`model.go:185`) | `/` moves the cursor before `applyFilter` reads it; `Esc` does not put it back. |
| `ClaimStale` (`MailCacheClaims`), `LastSkIsNewestSeen` | `last_sk` is the newest sort key seen (`docs/superpowers/specs/2026-07-01-mail-v0.5-cache-design.md:92`) | The Sync that listed first and committed last puts `last_sk` back. |
| `ClaimStale` (`MailCacheClaims`), `FailedLsUsesLive` | "using live" (`cmd/mail/main.go:160`) | After a failed Sync `mail ls` lists the cache. |
| `ClaimIdempotent` (`MailReceiveClaims`) | "idempotent by the RFC 5322 Message-ID" (`cmd/lambda/receive/main.go:3`) | One Message-ID received in two seconds is two rows. |
| `ClaimAgent` (`MailAgentClaims`), `ResultsArePacked` | same-turn results go into one user message (`agent.go:34-35`) | Two calls of one turn go back to Claude in two user messages. |
| `ClaimAgent` (`MailAgentClaims`), `LimitIsNormalised` | the caller normalises the limit to [1, 1000] (`search.go:15-16`) | A limit of 0.5 reaches the searcher as 0, and a huge one may as a negative number. |
| `ClaimAgent` (`MailAgentClaims`), `HitsArePhrases` | "multiple words are matched as an adjacent phrase" (`tools.go:21-23`) | The fallback looks for the whole query as a substring: "mazon" finds "amazon". |

## 5. The proofs

All theorems hold for every value of the constants that satisfies the named
assumptions of their module: for `MailTui` any mailbox, any wiring, any set of
inputs, any finite set of slots and any bounds on ticks, reloads and failures; for `MailCache` any finite
sets of keys and mailboxes, and any jobs, processes, senders and page limit; for
`MailReceive` and `MailSystem` any messages, recipients, environments, copies and number
of retries; for `MailCommands` any messages, configuration, queries, counts, widths and
page limit; for `MailSend` any addresses, lists and length of the conversation; for
`MailReader` any documents, widths, cap on the links and number of loads; for
`MailAgent` any mailbox, calls, matchers, page, limits, widths and number of turns.

| Theorem | Statement |
|---|---|
| `TypeCorrect` | `Spec => []TypeOK` of `MailTui` |
| `PromptIsVisible` | `Spec => []ConfirmingIsVisible` |
| `ConfirmedDraftIsSent` | `Spec => SendsWhatWasConfirmed` |
| `NoLeak`, `CountIsExact` | `Spec => []InflightNeverLeaks`, `Spec => []InflightExact` |
| `IdleCounterIsZero` | with no counted command in flight, `inflight = 0` |
| `SpinnerNeverDies` | `Spec => []SpinnerAlive` |
| `SelectionIsTheUsers` | `Spec => OnlyUserMovesSelection` |
| `NoLoadIsLost` | `Spec => []NewestLoadAccounted` |
| `ReaderSettles` | `Spec => []SettledOnLatestChoice` |
| `ImagesStayWithTheirBody` | `Spec => []PaintedImagesMatch` |
| `LoaderImplementsLatestWins` | `Spec => LoaderKeepsPromise` |
| `CacheTyped` | `Spec => []TypeOK` of `MailCache`, with the lock and the connections |
| `IndexIsExact` | `Spec => []IndexMatchesHeaders` |
| `SyncImplementsPromise` | `Spec => SyncIsAtomic`: `MailCache` implements `CachePromise` |
| `SyncedIsShown` | `Spec => []ShowsWhatItSynced` |
| `OnlyRowsAreShown` | `Spec => []OnlyRows`: a cached header is a row of the mailbox it is filed under, and a command lists and shows only rows of its own mailbox |
| `ReceiveTyped` | `Spec => []TypeOK` of `MailReceive` |
| `NilMeansIndexed` | `Spec => []FinishedIsIndexed` |
| `RowsOpen` | `Spec => []RowsCanBeOpened` |
| `NeverReplaced` | `Spec => RowsAreNeverReplaced` |
| `SystemReceives` | `SystemSpec => Spec`: `MailSystem` is a `MailReceive` |
| `SystemImplementsCache` | `SystemSpec => SystemCaches`: and a `MailCache` |
| `ListedOpens` | `SystemSpec => []ListedCanBeOpened` |
| `CommandsTyped` | `Spec => []TypeOK` of `MailCommands`: the types, and what is cached for a mailbox is in the table for it |
| `NewestAreShown` | `Spec => []LsShowsTheNewest` |
| `MatchesAreFound` | `Spec => []SearchMissesNothing` |
| `SendTyped` | `Spec => []TypeOK` of `MailSend` |
| `ThreadsAreWhole` | `Spec => []ThreadIsWhole` |
| `BlindCopiesStayBlind` | `Spec => []BlindStaysBlind` |
| `EveryoneIsAnswered` | `Spec => []AnswerReachesEveryone` |
| `PaneShowsWhatWasAsked` | `Spec => []ShowsWhatWasAsked` |
| `LinksLead` | `Spec => []LinksLeadWhereTheySay` |
| `PaneFits` | `Spec => []FitsTheWidth` |
| `AgentTyped` | `Spec => []TypeOK` of `MailAgent` |
| `ResultsAreCorrelated` | `Spec => []ResultsMatchCalls` |
| `SearchesFind` | `Spec => []SearchFindsMatches` |
| `LimitsAreServed` | `Spec => []SearchIsNotRefused` |

- `MailTui_proofs` proves the types, one step per action. `ConfirmedDraftIsSent`
  needs an invariant: while a quiet prompt is up, nothing that could replace the
  draft is in flight and the draft is the approved one. Every action that starts
  a reply fetch or an editor needs the prompt down or the browse screen, hence
  `PromptIsVisible` first. `SelectionIsTheUsers` goes through the actions once more:
  the only answer that rebuilds the list keeps the selected key when it is listed.
  The part about the counter is about one number: each action changes the set of
  counted commands by adding or removing at most one slot, and lemmas about the
  cardinality of such a set (from `FiniteSetTheorems`) give the change of
  `Cardinality(Counted)` that `inflight` must match. Finiteness of `Slots` is the
  assumption it rests on. `SpinnerNeverDies` rests on what each step does to the
  counter and the spinner: the first place taken restarts the tick loop, and a tick
  stops it only when it finds `inflight = 0`. The part about loads strengthens the
  properties of the loader with what makes them inductive: tags of ticks and loads
  never exceed the counters they were taken from, two commands in flight never carry
  the same tag, what is shown was asked for, and the newest tick carries the pending
  key. The refinement to `LatestWins` then follows action by action: a debounce that
  fires asks, a body that is displayed shows, and all other actions stutter.
- `MailCache_proofs` has an inductive invariant of four parts: the types; the lock is
  held by an open transaction that began with the newest tables, and a connection by
  the only transaction of its process; the index of the tables is exact; and for
  every open transaction, what it sees is what it began with under the rows it has
  written, with an index that is exact except at the row it is replacing. The last
  part is what `IndexMatchesHeaders` lacks to be inductive: the delete, the upsert and
  the insert of one row each break the index alone. A job that commits holds the
  lock and is not outdated, so its view is the tables under its whole page, which is
  the step `Install` of `CachePromise`; every other step leaves the rows alone. That
  the keys of a page have a newest one, which the loop writes next, comes from the
  well-founded order of strict subsets of a finite set. `SyncedIsShown` adds that
  every row goes to a mailbox it was addressed to, so that a row with one recipient
  is never taken by another mailbox.
- `MailReceive_proofs` follows the order the handler rests on: an event exists only
  for a message SES has stored, only an event starts a handler, and only a handler
  writes a row, with the object of its event. `NilMeansIndexed` adds `HandledIsIndexed`:
  whatever an invocation has behind it has a row, its own or that of a message with the
  same sort key, and an invocation that returned nil has all of its items behind it.
  The first item that is left, which the loop takes next, is the least of a set of
  naturals.
- `MailSystem_proofs` is put together from the two: `SystemReceives` maps each step of
  the whole to one of the pipeline or to none, so that the invariant of the pipeline
  holds; with it each `PutItem` is a delivery as `MailCache` allows it, or changes
  nothing for it, which is `SystemImplementsCache`; and `ListedOpens` joins
  `OnlyRowsAreShown` of the one with `RowsOfTheirKey` of the other.
- `MailCommands_proofs`: the two properties speak of the end of a command that goes
  through several mailboxes while other processes write the cache, so the invariant
  says for each message that the command could know where it is on the way there: found
  already, or outnumbered, or cached for a mailbox still to do, or beyond a page
  (`LsGetsThere`, `SearchGetsThere`). How often `ls` shows a message needs a part of its
  own (`OnePlaceForAHome`): so far it is in the result at most once for each mailbox
  that is done and that it is in; a listing gives each key once (`PlacesOnward`), and
  the sort and the cut add no place (`PlacesSorted`, `PlacesCut`). The other lemmas are
  about ranks: the pages, the listings and the sort of a finite set of numbers, and
  what a cut of the merged list keeps. The proof corrected both properties: a message
  beyond a full page of newer ones, which another process then takes away, is shown by
  neither command.
- `MailSend_proofs`: each message says something about the one it answers that never
  changes (`Kept`), and what is being written agrees with its parent (`Drafted`). A
  thread, and the path of a message to its root, are functions by recursion on the place
  in the conversation; that they exist, and that the properties follow along them, is
  proved by counting up to a number. `EveryoneIsAnswered` is about `replyAllCc`, the same
  way: after `i` addresses it holds one spelling of each that is not the user's. The
  proof found that `Hidden` must leave out what reaches nobody.
- `MailReader_proofs`: the HTML as it came, what was sanitised, the rendered body and
  the viewport agree (`Agree`), and every handler keeps that; what the pane shows is
  then `RenderRich` of a sanitised document (`RichBody`), and the other two theorems are
  about that function. `LinksLead` goes through the document with the accumulator: after
  `i` items it lists the URLs of those items by first appearance, has marked each item as
  the property says, and has left out only what came when it was full (`Holds`); a URL
  that is already listed keeps its place, so that the marks given before stay true
  (`HoldsStep`). `PaneFits` is about lengths: a sum over joined sequences is the sum of
  the sums (`SumJoined`, `WeightsFlattened`), the pieces of a token have its length and
  fit (`ChunksFit`), and an image has no words and a link at least one. The proof made
  explicit what the model had left open: a link needs a first word to carry its number,
  which may be empty (a link around an image), and a document is a sequence of items.
- `MailAgent_proofs`: the searcher reads the index only where the index has what is known
  (`Sighted`), and what a search finds follows for both searchers, whatever each of
  them matches: the index gives the phrase matches that are cached, the fallback the
  substring matches of the newest `limit` messages (`SearchesFind`); an assistant message is followed by the results of its calls as far as
  they were executed, and the calls left are those of the last one
  (`TurnsAreAnswered`). `ResultsAreCorrelated` then follows for both wires.
  `LimitsAreServed` is arithmetic on widths of any size.

What is only model-checked, and why:

- liveness (`EveryChoiceAnswered`, `RefreshRevives`, `BlankReaderRecovers`,
  `EverythingIsCached`, `StoredEndsCachedOrParked`, `AgentEnds`): fairness and
  `ENABLED` are out of the prover's reach. Every invariant and every safety property of
  the steps that a run checks is stated by a theorem.

Induction is done where it is needed by well-founded sets: the naturals below a bound,
and the strict subsets of a finite set. The induction theorems of the library that
take an operator cannot be used, and nothing is proved of the recursive operators of
the libraries (`SelectSeq`, `SortSeq`): the models do without them where
a proof looks at the result. `FlattenSeq` is a recursive function; `Flattened` in
`MailSend_proofs` proves what it gives.

## 6. What is not modelled

- In `mail-tui`: the words of the status line (an empty mailbox leaves
  "refreshing…" there), scrolling, and the applied state of the list component's own
  filter. The pane (`MailReader`) and the event loop (`MailTui`) are not composed:
  one has one load at a time and the documents, the other the overlapping loads.
- In the cache: opening it (directories, permissions), `FormatDate`, and power
  loss (`synchronous=NORMAL` may lose the last commits, but not their atomicity).
- In the commands: the profiles and the configuration file, `--json` and the words of
  the output, `mail read` without `--rich`, `tmux popup`, the one-turn `summarize`
  and `draft`.
- In messages: MIME, attachments, charsets, the layout of glamour, the tags
  bluemonday removes, the removal of control bytes; redaction; terminal images.
- SES: reputation, bounces and complaints, which no code handles.
- Infrastructure that is synthesised once: it has no behaviour of its own beyond
  the receipt rule and the retry policy, which are in `MailReceive`.

## 7. Plan

Done: `MailTui` with `LatestWins`, `MailCache` with `CachePromise`, `MailReceive`,
`MailSystem`, `MailCommands`, `MailSend`, `MailAgent`, and `MessageRender` with
`MailReader`, each with the proofs of all its safety properties.

Next, to extend the model:

1. `MailTui` with `MailReader` in place of `currentParsed` and `imageBlobs`, then
   with the refresh of `MailSystem` in place of `RefreshSyncs`.
2. In `MailTui`: the status line and the list's applied filter.
