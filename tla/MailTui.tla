------------------------------- MODULE MailTui -------------------------------
(***************************************************************************)
(* The event loop of the full-screen client, cmd/mail-tui: model.Update    *)
(* and everything it calls (model.go, composer.go).                        *)
(*                                                                         *)
(* Bubble Tea runs one Update at a time, so an action here is one whole    *)
(* Update: a key, a timer, or the message a command sent back.  What makes *)
(* the program hard is between the Updates: every command (a body load, an *)
(* image render, a cache refresh, a reply fetch, $EDITOR, a send, a        *)
(* debounce timer) runs in a goroutine of its own, and the messages they   *)
(* produce come back in any order, after any number of other Updates.  A   *)
(* command that has not been delivered yet occupies one of the Slots.      *)
(*                                                                         *)
(* A message is known by its S3Key (an element of Mail); wording, layout   *)
(* and rendering are left out.  currentParsed.gen, failed, anchor,         *)
(* approved, quiet and uncounted are history variables: no guard reads     *)
(* them, they only let the properties speak about earlier states.          *)
(***************************************************************************)
EXTENDS Naturals, FiniteSets

CONSTANTS
  Mail,        \* the messages of the browsed mailbox, by S3Key
  NoKey,       \* the empty S3Key ""
  Newest,      \* Newest[S]: the message a list of S shows at index 0 (SK DESC)
  WithImages,  \* the messages that carry inline images
  Delivered,   \* the messages that are in DynamoDB when the program starts
  Texts,       \* what a draft's fields and body can contain
  Blank,       \* ... when nothing was typed
  Wirings,     \* what main() may find at start-up: reader and cache, nil or not,
               \*   and a sender "live" or "nilptr", a nil *Sender in the interface
  Inputs,      \* the user inputs this instance offers (a bound)
  Slots,       \* at most this many undelivered commands at a time (a bound)
  MaxTicks,    \* at most this many debounced selections in a run (a bound)
  MaxReloads,  \* ... and this many more by refreshes of a blank reader (a bound)
  MaxFailures  \* the loads that may fail are the first MaxFailures (a bound)

UserInputs == {"move", "focus", "filter", "images", "refresh", "resize",
               "reply", "compose", "editor", "quit"}

ASSUME MailAssumption ==
  /\ NoKey \notin Mail
  /\ Newest \in [(SUBSET Mail) \ {{}} -> Mail]
  /\ \A S \in (SUBSET Mail) \ {{}} : Newest[S] \in S
  /\ WithImages \subseteq Mail
  /\ Delivered \subseteq Mail
ASSUME DraftAssumption == Blank \in Texts
ASSUME WiringAssumption ==
  /\ Wirings \subseteq [reader : BOOLEAN, cache : BOOLEAN,
                         sender : {"live", "nilptr"}]
  /\ Inputs \subseteq UserInputs
ASSUME BoundAssumption ==
  /\ IsFiniteSet(Slots)
  /\ MaxTicks \in Nat /\ MaxReloads \in Nat /\ MaxFailures \in Nat

VARIABLES
  program,                         \* "up", or how it ended: "quit", "panic"
  mode, focus,                     \* m.mode, m.focus
  items, selected, filtering,      \* m.list: keys, SelectedItem, SettingFilter
  anchor,                          \* history: selection when '/' was pressed
  inflight, spinning,              \* m.inflight; a live spinner tick exists
  loadGen, loadDebounceGen, loadPendingKey,
  currentParsed,                   \* m.currentParsed, and the load it came from
  imageBlobs,                      \* m.imageBlobs: whose images are painted
  failed,                          \* history: last load that reported an error
  compose, confirming,             \* m.compose, m.confirming
  approved, quiet,                 \* history: the draft at Ctrl-S; nothing
                                   \*   pending then that could replace it
  uncounted,                       \* history: an operation that never counted
                                   \*   itself has decremented inflight
  task,                            \* the commands in flight
  arrived, cached,                 \* mail in DynamoDB; rows in the cache
  wiring                           \* m.reader # nil, m.cache # nil, m.sender

listVars  == <<items, selected, filtering, anchor>>
countVars == <<inflight, spinning, uncounted>>
tickVars  == <<loadDebounceGen, loadPendingKey>>
bodyVars  == <<loadGen, currentParsed, imageBlobs, failed>>
draftVars == <<compose, confirming, approved, quiet>>
mailVars  == <<arrived, cached, wiring>>
vars == <<program, mode, focus, listVars, countVars, tickVars, bodyVars,
          draftVars, task, mailVars>>

------------------------------------------------------------------------------
(* Data *)

HasReader == wiring.reader
HasCache  == wiring.cache
Sender    == wiring.sender

Keys   == Mail \cup {NoKey}
Draft  == [re : Keys, text : Texts]
Parsed == [key : Keys, gen : Nat]
Painted == [of : Parsed, tag : Nat]
NoBody  == [key |-> NoKey, gen |-> 0]
NoBlobs == [of |-> NoBody, tag |-> 0]
newComposer == [re |-> NoKey, text |-> Blank]

Idle == [kind |-> "idle"]
Task ==
  {Idle}
  \cup [kind : {"tick"}, key : Mail, gen : Nat]
  \cup [kind : {"load"}, key : Mail, gen : Nat]
  \cup [kind : {"images"}, of : Parsed, gen : Nat]
  \cup [kind : {"refresh"}, manual : BOOLEAN, done : BOOLEAN,
        headers : SUBSET Mail]
  \cup [kind : {"reply"}, re : Mail]
  \cup [kind : {"editor"}, draft : Draft]
  \cup [kind : {"send"}, draft : Draft]

Free == {s \in Slots : task[s] = Idle}
Running(k) == {s \in Slots : task[s].kind = k}

\* The commands that incremented inflight when they were started.
Counted == Running("load") \cup Running("images")
           \cup {s \in Running("refresh") : task[s].manual}

First(S) == IF S = {} THEN NoKey ELSE Newest[S]

\* if m.inflight > 0 { m.inflight-- }
ReleasedUnfloored(n) == n - 1
Released(n) == IF n > 0 THEN n - 1 ELSE 0

Start(s, t) == s \in Free /\ task' = [task EXCEPT ![s] = t]
End(s) == task' = [task EXCEPT ![s] = Idle]

Up == program = "up"
Browsing == Up /\ mode = "browse" /\ ~filtering
Composing == Up /\ mode = "composer"

\* startSpinner := m.inflight == 0; m.inflight++; the caller batches
\* spinner.Tick when startSpinner.
CountInSilently ==
  inflight' = inflight + 1 /\ UNCHANGED <<spinning, uncounted>>
CountIn ==
  /\ inflight' = inflight + 1
  /\ spinning' = (inflight = 0 \/ spinning)
  /\ UNCHANGED uncounted

CountOut == inflight' = Released(inflight) /\ UNCHANGED <<spinning, uncounted>>

\* scheduleLoad(key): put a new debounce timer in slot s; limit is the bound on
\* what its caller may schedule.
TickTagTooEarly == loadDebounceGen
TickTag == loadDebounceGen + 1
scheduleLoadUpTo(limit, s, key) ==
  /\ loadDebounceGen < limit
  /\ loadDebounceGen' = loadDebounceGen + 1
  /\ loadPendingKey' = key
  /\ task' = [task EXCEPT
       ![s] = [kind |-> "tick", key |-> key, gen |-> TickTag]]
scheduleLoad(s, key) == scheduleLoadUpTo(MaxTicks, s, key)

\* rebuildList(hs): a new list is never filtering; the selection stays on the
\* same S3Key when hs still has it, else it is the first item.
rebuildListAtTop(hs) ==
  /\ items' = hs
  /\ selected' = First(hs)
  /\ filtering' = FALSE
  /\ anchor' = NoKey
rebuildList(hs) ==
  /\ items' = hs
  /\ selected' = IF selected \in hs THEN selected ELSE First(hs)
  /\ filtering' = FALSE
  /\ anchor' = NoKey

canRefresh ==
  /\ HasCache
  /\ HasReader
  /\ mode # "composer"
  /\ ~filtering
  /\ inflight = 0

NewRefresh(manual) == [kind |-> "refresh", manual |-> manual, done |-> FALSE,
                       headers |-> {}]

------------------------------------------------------------------------------
(* Start-up: main() has synced the cache, or failed to and left it as an      *)
(* earlier session did; it listed the cache, or the live index when the cache *)
(* gave nothing or could not be listed; when that fails too the list is empty *)

Init ==
  /\ program = "up"
  /\ mode = "browse"
  /\ focus = "list"
  /\ wiring \in Wirings
  /\ arrived = Delivered
  /\ cached \in SUBSET Delivered
  /\ ~HasCache => cached = {}
  /\ items \in {cached, {}} \cup (IF HasReader THEN {Delivered} ELSE {})
  /\ selected = First(items)
  /\ filtering = FALSE
  /\ anchor = NoKey
  /\ inflight = 0
  /\ spinning = FALSE
  /\ loadGen = 0
  /\ loadDebounceGen = 0
  /\ loadPendingKey = NoKey
  /\ currentParsed = NoBody
  /\ imageBlobs = NoBlobs
  /\ failed = 0
  /\ compose = newComposer
  /\ confirming = FALSE
  /\ approved = newComposer
  /\ quiet = TRUE
  /\ uncounted = FALSE
  /\ task = [s \in Slots |-> Idle]

------------------------------------------------------------------------------
(* Keys while browsing (handleKey, handleReaderRune) and resizes *)

\* focusList: the cursor moves to another message, which is debounced.
MoveCursor ==
  /\ "move" \in Inputs /\ Browsing /\ focus = "list"
  /\ \E k \in items \ {selected} :
       /\ selected' = k
       /\ \E s \in Free : scheduleLoad(s, k)
  /\ UNCHANGED <<program, mode, focus, items, filtering, anchor, countVars,
                 bodyVars, draftVars, mailVars>>

\* Tab
ToggleFocus ==
  /\ "focus" \in Inputs /\ Browsing
  /\ focus' = IF focus = "list" THEN "reader" ELSE "list"
  /\ UNCHANGED <<program, mode, listVars, countVars, tickVars, bodyVars,
                 draftVars, task, mailVars>>

\* '/': the list component opens its filter and moves its cursor to index 0;
\* no load is scheduled, because the list is now setting its filter.
OpenFilter ==
  /\ "filter" \in Inputs /\ Browsing /\ focus = "list"
  /\ filtering' = TRUE
  /\ anchor' = selected
  /\ selected' = First(items)
  /\ UNCHANGED <<program, mode, focus, items, countVars, tickVars, bodyVars,
                 draftVars, task, mailVars>>

\* applyFilter when the cache answered hs: rebuild, then load what is selected.
applyFilter(hs) ==
  /\ rebuildList(hs)
  /\ IF selected' = NoKey
     THEN UNCHANGED <<task, tickVars>>
     ELSE \E s \in Free : scheduleLoad(s, selected')

\* Enter or Tab in the filter: Search returns any set of cached rows.
ConfirmFilter ==
  /\ Up /\ mode = "browse" /\ filtering /\ HasCache
  /\ \E hs \in SUBSET cached : applyFilter(hs)
  /\ UNCHANGED <<program, mode, focus, countVars, bodyVars, draftVars, mailVars>>

\* Esc in the filter: the full list again.
CancelFilter ==
  /\ Up /\ mode = "browse" /\ filtering /\ HasCache
  /\ applyFilter(cached)
  /\ UNCHANGED <<program, mode, focus, countVars, bodyVars, draftVars, mailVars>>

\* The filter closes and the list stays: no cache, or the query failed.
CloseFilter ==
  /\ Up /\ mode = "browse" /\ filtering
  /\ filtering' = FALSE
  /\ anchor' = NoKey
  /\ UNCHANGED <<program, mode, focus, items, selected, countVars, tickVars,
                 bodyVars, draftVars, task, mailVars>>

\* 'g'
ManualRefresh ==
  /\ "refresh" \in Inputs /\ Browsing /\ canRefresh
  /\ CountIn
  /\ \E s \in Slots : Start(s, NewRefresh(TRUE))
  /\ UNCHANGED <<program, mode, focus, listVars, tickVars, bodyVars, draftVars,
                 mailVars>>

\* 'i': render the images of the displayed message, tagged with m.loadGen.
ShowImages ==
  /\ "images" \in Inputs /\ Browsing /\ focus = "reader"
  /\ HasReader /\ currentParsed.key \in WithImages
  /\ CountIn
  /\ \E s \in Slots :
       Start(s, [kind |-> "images", of |-> currentParsed, gen |-> loadGen])
  /\ UNCHANGED <<program, mode, focus, listVars, tickVars, bodyVars, draftVars,
                 mailVars>>

\* 'r': fetch the selected message for a reply-all ...
FetchReply ==
  /\ "reply" \in Inputs /\ Browsing /\ HasReader /\ selected # NoKey
  /\ \E s \in Slots : Start(s, [kind |-> "reply", re |-> selected])
  /\ UNCHANGED <<program, mode, focus, listVars, countVars, tickVars, bodyVars,
                 draftVars, mailVars>>

\* ... or, without a reader, compose from the header at once.
ReplyFromHeader ==
  /\ "reply" \in Inputs /\ Browsing /\ ~HasReader /\ selected # NoKey
  /\ compose' = [re |-> selected, text |-> Blank]
  /\ mode' = "composer"
  /\ UNCHANGED <<program, focus, listVars, countVars, tickVars, bodyVars,
                 confirming, approved, quiet, task, mailVars>>

\* handleResize: loads the selection when the reader is still blank.
Resize ==
  /\ "resize" \in Inputs /\ Up
  /\ currentParsed.key = NoKey /\ inflight = 0 /\ selected # NoKey
  /\ \E s \in Free : scheduleLoad(s, selected)
  /\ UNCHANGED <<program, mode, focus, listVars, countVars, bodyVars, draftVars,
                 mailVars>>

\* 'q'
Quit ==
  /\ "quit" \in Inputs /\ Browsing
  /\ program' = "quit"
  /\ UNCHANGED <<mode, focus, listVars, countVars, tickVars, bodyVars,
                 draftVars, task, mailVars>>

------------------------------------------------------------------------------
(* Timers and the answers of background commands (Update) *)

\* loadDebounceMsg: only the newest timer loads.
IsAnyTick(t) == t.kind = "tick"
IsLatestTick(t) ==
  t.kind = "tick" /\ t.gen = loadDebounceGen /\ t.key = loadPendingKey

LoadTagTooEarly == loadGen
LoadTag == loadGen + 1

DebounceFires(s) ==
  /\ Up /\ IsLatestTick(task[s])
  /\ loadGen' = loadGen + 1
  /\ CountIn
  /\ task' = [task EXCEPT
       ![s] = [kind |-> "load", key |-> task[s].key, gen |-> LoadTag]]
  /\ UNCHANGED <<program, mode, focus, listVars, tickVars, currentParsed,
                 imageBlobs, failed, draftVars, mailVars>>

DebounceIgnored(s) ==
  /\ Up /\ task[s].kind = "tick" /\ ~IsLatestTick(task[s])
  /\ End(s)
  /\ UNCHANGED <<program, mode, focus, listVars, countVars, tickVars, bodyVars,
                 draftVars, mailVars>>

\* bodyLoadedMsg: the newest load is displayed by applyBody ...
IsAnyLoad(t) == t.kind = "load"
IsNewestLoad(t) == t.kind = "load" /\ t.gen = loadGen

applyBody(t) ==
  /\ currentParsed' = [key |-> t.key, gen |-> t.gen]
  /\ imageBlobs' = NoBlobs
  /\ focus' = "reader"

BodyLoaded(s) ==
  /\ Up /\ IsNewestLoad(task[s])
  /\ CountOut
  /\ applyBody(task[s])
  /\ End(s)
  /\ UNCHANGED <<program, mode, listVars, tickVars, loadGen, failed, draftVars,
                 mailVars>>

\* ... and a stale one is discarded, releasing its place in inflight.
StaleSlotKept == UNCHANGED countVars
StaleSlotReleased == CountOut
BodyStale(s) ==
  /\ Up /\ task[s].kind = "load" /\ ~IsNewestLoad(task[s])
  /\ StaleSlotReleased
  /\ End(s)
  /\ UNCHANGED <<program, mode, focus, listVars, tickVars, bodyVars, draftVars,
                 mailVars>>

\* errMsg from a load: S3 or the MIME parser failed.
LoadFails(s) ==
  /\ Up /\ task[s].kind = "load" /\ HasReader /\ task[s].gen <= MaxFailures
  /\ CountOut
  /\ failed' = IF task[s].gen > failed THEN task[s].gen ELSE failed
  /\ End(s)
  /\ UNCHANGED <<program, mode, focus, listVars, tickVars, loadGen,
                 currentParsed, imageBlobs, draftVars, mailVars>>

\* imagesRenderedMsg
PaintsAlways(t) == TRUE
Paints(t) == t.gen = loadGen

ImagesRendered(s) ==
  /\ Up /\ task[s].kind = "images"
  /\ CountOut
  /\ imageBlobs' = IF Paints(task[s])
                   THEN [of |-> task[s].of, tag |-> task[s].gen]
                   ELSE imageBlobs
  /\ End(s)
  /\ UNCHANGED <<program, mode, focus, listVars, tickVars, loadGen,
                 currentParsed, failed, draftVars, mailVars>>

\* refreshTickMsg, every 30s for ever: syncs when canRefresh, else skips.
RefreshTick ==
  /\ Up /\ canRefresh
  /\ \E s \in Slots : Start(s, NewRefresh(FALSE))
  /\ UNCHANGED <<program, mode, focus, listVars, countVars, tickVars, bodyVars,
                 draftVars, mailVars>>

\* doRefresh's goroutine: Sync brings the cache level with DynamoDB and List
\* reads it back; the headers then wait to be delivered.
RefreshSyncs(s) ==
  /\ Up /\ task[s].kind = "refresh" /\ ~task[s].done
  /\ cached' = cached \cup arrived
  /\ task' = [task EXCEPT ![s].done = TRUE, ![s].headers = cached']
  /\ UNCHANGED <<program, mode, focus, listVars, countVars, tickVars, bodyVars,
                 draftVars, arrived, wiring>>

RefreshNeverCountsOut(t) == UNCHANGED countVars
RefreshCountOut(t) == IF t.manual THEN CountOut ELSE UNCHANGED countVars

ReloadsUntriedReader ==
  currentParsed.key = NoKey /\ inflight' = 0 /\ loadGen = 0
ReloadsBlankReader == currentParsed.key = NoKey /\ inflight' = 0

\* refreshDoneMsg with headers.  An empty mailbox lists as nil, which the
\* handler takes for a failure: the list stays.
RefreshDone(s) ==
  /\ Up /\ task[s].kind = "refresh" /\ task[s].done /\ task[s].headers # {}
  /\ RefreshCountOut(task[s])
  /\ rebuildList(task[s].headers)
  /\ IF ReloadsBlankReader
     THEN scheduleLoadUpTo(MaxTicks + MaxReloads, s, selected')
     ELSE End(s) /\ UNCHANGED tickVars
  /\ UNCHANGED <<program, mode, focus, bodyVars, draftVars, mailVars>>

\* refreshDoneMsg with an error (of Sync or of List) or with nil headers.
RefreshKeepsList(s) ==
  /\ Up /\ task[s].kind = "refresh"
  /\ RefreshCountOut(task[s])
  /\ End(s)
  /\ UNCHANGED <<program, mode, focus, listVars, tickVars, bodyVars, draftVars,
                 mailVars>>

\* spinner.TickMsg: the tick loop dies when nothing is in flight, and is
\* renewed otherwise.
SpinnerStops == inflight = 0
SpinnerTick ==
  /\ Up /\ spinning /\ SpinnerStops
  /\ spinning' = FALSE
  /\ UNCHANGED <<program, mode, focus, listVars, inflight, uncounted, tickVars,
                 bodyVars, draftVars, task, mailVars>>

\* New mail is indexed by the receiving Lambda; it is the newest.
MailArrives ==
  /\ \E k \in Mail \ arrived :
       /\ k = Newest[arrived \cup {k}]
       /\ arrived' = arrived \cup {k}
  /\ UNCHANGED <<program, mode, focus, listVars, countVars, tickVars, bodyVars,
                 draftVars, task, cached, wiring>>

------------------------------------------------------------------------------
(* The composer (handleComposerKey) and the answers of its commands *)

\* An operation that never incremented inflight decrements it all the same.
CountOutUncounted ==
  /\ inflight' = Released(inflight)
  /\ uncounted' = (uncounted \/ inflight > 0)
  /\ UNCHANGED spinning

\* replyReadyMsg: whatever is being composed is replaced.
ReplyReady(s) ==
  /\ Up /\ task[s].kind = "reply"
  /\ compose' = [re |-> task[s].re, text |-> Blank]
  /\ mode' = "composer"
  /\ End(s)
  /\ UNCHANGED <<program, focus, listVars, countVars, tickVars, bodyVars,
                 confirming, approved, quiet, mailVars>>

\* Any key for a text field.
TypeAnytime == Composing
TypeAllowed == Composing /\ ~confirming
TypeText ==
  /\ "compose" \in Inputs /\ TypeAllowed
  /\ \E x \in Texts \ {compose.text} : compose' = [compose EXCEPT !.text = x]
  /\ UNCHANGED <<program, mode, focus, listVars, countVars, tickVars, bodyVars,
                 confirming, approved, quiet, task, mailVars>>

\* Ctrl-E: $EDITOR runs on a copy of the body.
OpenEditor ==
  /\ "editor" \in Inputs /\ Composing /\ ~confirming
  /\ \E s \in Slots : Start(s, [kind |-> "editor", draft |-> compose])
  /\ UNCHANGED <<program, mode, focus, listVars, countVars, tickVars, bodyVars,
                 draftVars, mailVars>>

\* editorDoneMsg: the body goes into whatever draft the composer holds now.
EditorDone(s) ==
  /\ Up /\ task[s].kind = "editor"
  /\ \E x \in Texts : compose' = [compose EXCEPT !.text = x]
  /\ End(s)
  /\ UNCHANGED <<program, mode, focus, listVars, countVars, tickVars, bodyVars,
                 confirming, approved, quiet, mailVars>>

\* errMsg from the editor.
EditorFails(s) ==
  /\ Up /\ task[s].kind = "editor"
  /\ CountOutUncounted
  /\ End(s)
  /\ UNCHANGED <<program, mode, focus, listVars, tickVars, bodyVars, draftVars,
                 mailVars>>

\* Ctrl-S
AskConfirmation ==
  /\ "compose" \in Inputs /\ Composing /\ ~confirming
  /\ confirming' = TRUE
  /\ approved' = compose
  /\ quiet' = (Running("reply") \cup Running("editor") = {})
  /\ UNCHANGED <<program, mode, focus, listVars, countVars, tickVars, bodyVars,
                 compose, task, mailVars>>

\* Esc: back to browsing; the draft is kept.
LeaveComposer ==
  /\ "compose" \in Inputs /\ Composing /\ ~confirming
  /\ mode' = "browse"
  /\ UNCHANGED <<program, focus, listVars, countVars, tickVars, bodyVars,
                 draftVars, task, mailVars>>

\* 'y': the draft of this moment is built and sent.
\* confirming stays set until sentMsg comes back.
ConfirmSend ==
  /\ "compose" \in Inputs /\ Composing /\ confirming
  /\ \E s \in Slots : Start(s, [kind |-> "send", draft |-> compose])
  /\ UNCHANGED <<program, mode, focus, listVars, countVars, tickVars, bodyVars,
                 draftVars, mailVars>>

\* 'n'
DenySend ==
  /\ "compose" \in Inputs /\ Composing /\ confirming
  /\ confirming' = FALSE
  /\ UNCHANGED <<program, mode, focus, listVars, countVars, tickVars, bodyVars,
                 compose, approved, quiet, task, mailVars>>

\* SES accepted the message, and sentMsg clears the composer.
sentResetsDraftOnly == mode' = "browse" /\ compose' = newComposer
                       /\ UNCHANGED confirming
sentResets == mode' = "browse" /\ compose' = newComposer /\ confirming' = FALSE
SentMsg(s) ==
  /\ Up /\ task[s].kind = "send" /\ Sender = "live"
  /\ sentResets
  /\ CountOutUncounted
  /\ End(s)
  /\ UNCHANGED <<program, focus, listVars, tickVars, bodyVars, approved, quiet,
                 mailVars>>

\* errMsg from Build or Send.
SendFails(s) ==
  /\ Up /\ task[s].kind = "send"
  /\ CountOutUncounted
  /\ End(s)
  /\ UNCHANGED <<program, mode, focus, listVars, tickVars, bodyVars, draftVars,
                 mailVars>>

\* main() stored a nil *Sender in the interface: m.sender # nil holds, and Send
\* dereferences nil once Build has succeeded.
SendPanics(s) ==
  /\ Up /\ task[s].kind = "send" /\ Sender = "nilptr"
  /\ program' = "panic"
  /\ UNCHANGED <<mode, focus, listVars, countVars, tickVars, bodyVars,
                 draftVars, task, mailVars>>

------------------------------------------------------------------------------
UserStep ==
  \/ MoveCursor \/ ToggleFocus \/ OpenFilter \/ ConfirmFilter \/ CancelFilter
  \/ CloseFilter \/ ManualRefresh \/ ShowImages \/ FetchReply
  \/ ReplyFromHeader \/ Resize \/ Quit
  \/ TypeText \/ OpenEditor \/ AskConfirmation \/ LeaveComposer
  \/ ConfirmSend \/ DenySend

\* The messages that end the command in slot s.
Delivery(s) ==
  \/ DebounceFires(s) \/ DebounceIgnored(s)
  \/ BodyLoaded(s) \/ BodyStale(s) \/ LoadFails(s) \/ ImagesRendered(s)
  \/ RefreshDone(s) \/ RefreshKeepsList(s)
  \/ ReplyReady(s) \/ EditorDone(s) \/ EditorFails(s)
  \/ SentMsg(s) \/ SendFails(s) \/ SendPanics(s)

Next ==
  \/ UserStep
  \/ RefreshTick \/ SpinnerTick \/ MailArrives
  \/ \E s \in Slots : RefreshSyncs(s) \/ Delivery(s)

Spec == Init /\ [][Next]_vars

\* What the runtime guarantees: a goroutine that was started ends and its
\* message is delivered, a timer fires, the 30s tick is always re-armed, and
\* the spinner keeps ticking.  Nothing is assumed of the user or of new mail.
Answers(s) == RefreshSyncs(s) \/ Delivery(s)
FairSpec ==
  /\ Spec
  /\ \A s \in Slots : WF_vars(Answers(s))
  /\ WF_vars(RefreshTick)
  /\ WF_vars(SpinnerTick)

\* ... and with the network: a refresh that is tried for ever succeeds, and the
\* debounce timers of 150ms have all fired when the next 30s tick comes.
PromptRefreshTick == RefreshTick /\ Running("tick") = {}
ConnectedSpec ==
  /\ Init /\ [][Next /\ (RefreshTick => PromptRefreshTick)]_vars
  /\ \A s \in Slots : /\ WF_vars(Answers(s))
                      /\ SF_vars(RefreshSyncs(s)) /\ SF_vars(RefreshDone(s))
  /\ WF_vars(PromptRefreshTick)
  /\ WF_vars(SpinnerTick)

------------------------------------------------------------------------------
(* Properties *)

\* Every variable keeps its type: in particular inflight never goes below 0.
TypeOK ==
  /\ program \in {"up", "quit", "panic"}
  /\ mode \in {"browse", "composer"}
  /\ focus \in {"list", "reader"}
  /\ items \subseteq Mail
  /\ selected \in Keys
  /\ filtering \in BOOLEAN
  /\ anchor \in Keys
  /\ inflight \in Nat
  /\ spinning \in BOOLEAN
  /\ uncounted \in BOOLEAN
  /\ loadGen \in Nat
  /\ loadDebounceGen \in Nat
  /\ loadPendingKey \in Keys
  /\ currentParsed \in Parsed
  /\ imageBlobs \in Painted
  /\ failed \in Nat
  /\ compose \in Draft
  /\ confirming \in BOOLEAN
  /\ approved \in Draft
  /\ quiet \in BOOLEAN
  /\ task \in [Slots -> Task]
  /\ wiring \in Wirings
  /\ arrived \subseteq Mail
  /\ cached \subseteq Mail

\* No operation leaks its place in inflight (the C-1 repair): the counter never
\* exceeds the counted commands still in flight, so once they are all answered
\* it is 0 and canRefresh can hold again.
InflightNeverLeaks == inflight <= Cardinality(Counted)

\* Until a send or an editor error has decremented a place that was not its
\* own, inflight counts exactly the loads, renders and manual refreshes in
\* flight: overlapping and stale answers included.
InflightExact == ~uncounted => inflight = Cardinality(Counted)

\* The spinner is ticking whenever something is in flight, although the tick
\* loop dies at every idle moment and only the 0 -> 1 transition restarts it.
SpinnerAlive == inflight > 0 => spinning

\* The newest load is never dropped silently: it is on its way, it is what the
\* reader shows, or it reported an error.
NewestLoadAccounted ==
  \/ loadGen = 0
  \/ currentParsed.gen = loadGen
  \/ failed = loadGen
  \/ \E s \in Running("load") : task[s].gen = loadGen

\* However the debounce timers are reordered, once the newest timer has fired
\* the newest load, in flight or shown, is of the last message scheduled.
SettledOnLatestChoice ==
  (\A s \in Slots : ~IsLatestTick(task[s])) =>
    /\ \A s \in Running("load") :
         task[s].gen = loadGen => task[s].key = loadPendingKey
    /\ currentParsed.gen = loadGen => currentParsed.key = loadPendingKey

\* Images painted in the reader are of the message it shows, whenever 'i' was
\* pressed with no newer load in flight (of.gen = tag).
PaintedImagesMatch ==
  imageBlobs.of.key # NoKey /\ imageBlobs.of.gen = imageBlobs.tag
    => imageBlobs.of = currentParsed

\* The loader implements the abstract promise of LatestWins: a body on screen is
\* only ever replaced by the answer of the newest load asked for.
Loader == INSTANCE LatestWins WITH asked <- loadGen, shown <- currentParsed.gen
LoaderKeepsPromise == Loader!Spec

\* Only the user moves the cursor off a message the list still shows: a
\* background refresh that rebuilds the list keeps it there (B-1).
OnlyUserMovesSelection ==
  [][selected' # selected /\ selected \in items' => UserStep]_vars

\* The y/n prompt and the composer go together: confirming never survives into
\* the browse screen, where the next reply would open already armed.
ConfirmingIsVisible == confirming => mode = "composer"

\* A draft given to the sender is the one that was on screen at Ctrl-S, unless
\* a reply fetch or an editor was unanswered at that moment.
SendsWhatWasConfirmed ==
  [][\A s \in Slots :
       task[s].kind # "send" /\ task'[s].kind = "send" /\ quiet
         => task'[s].draft = approved]_vars

\* Every scheduled load is answered: shown, superseded by another choice, or
\* reported as an error.
EveryChoiceAnswered ==
  \A k \in Mail :
    (loadPendingKey = k)
      ~> \/ currentParsed.key = k
         \/ loadPendingKey # k
         \/ /\ loadGen > 0 /\ failed = loadGen
            /\ \A s \in Slots : ~IsLatestTick(task[s])
         \/ ~Up

\* Background refresh never dies: after any history of overlapping loads,
\* renders and refreshes it becomes possible again, unless the user keeps the
\* filter or the composer open.
RefreshRevives == []<>(canRefresh \/ filtering \/ mode = "composer" \/ ~Up)

\* A refresh recovers a reader left blank: with a cache, a reader and mail
\* selected, it does not stay blank for ever, although the first load and the
\* loads after it fail (MaxFailures of them), whoever scheduled them; unless the
\* user keeps the filter or the composer open, or leaves.
BlankReaderRecovers ==
  (HasCache /\ HasReader /\ currentParsed.key = NoKey /\ selected # NoKey)
    ~> currentParsed.key # NoKey \/ filtering \/ mode = "composer" \/ ~Up
==============================================================================
