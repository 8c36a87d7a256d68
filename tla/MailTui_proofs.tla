--------------------------- MODULE MailTui_proofs ---------------------------
(***************************************************************************)
(* Theorems about the event loop of MailTui, for any mailbox, any bounds   *)
(* and any wiring of reader, cache and sender that its assumptions allow.  *)
(*   Types, what is asked and what is sent.                                *)
(*   The accounting of m.inflight, for any number of overlapping commands: *)
(* no place is ever leaked, and as long as no send and no editor error has *)
(* decremented a place that was not its own the count is exact.  Every     *)
(* Update changes the set Counted by at most the one command it starts or  *)
(* ends, and inflight by as much.                                          *)
(*   The generations of body loads and image renders: loadGen tells the    *)
(* newest load from the stale ones, whatever order the answers come in.    *)
(***************************************************************************)
EXTENDS MailTui, FiniteSetTheorems, TLAPS

\* Names for the commands that are started, so that each is typed once.
LEMMA TaskTypes ==
  /\ Idle \in Task
  /\ \A k \in Mail, g \in Nat : [kind |-> "tick", key |-> k, gen |-> g] \in Task
  /\ \A k \in Mail, g \in Nat : [kind |-> "load", key |-> k, gen |-> g] \in Task
  /\ \A p \in Parsed, g \in Nat : [kind |-> "images", of |-> p, gen |-> g] \in Task
  /\ \A m \in BOOLEAN, d \in BOOLEAN, hs \in SUBSET Mail :
       [kind |-> "refresh", manual |-> m, done |-> d, headers |-> hs] \in Task
  /\ \A k \in Mail : [kind |-> "reply", re |-> k] \in Task
  /\ \A d \in Draft : [kind |-> "editor", draft |-> d] \in Task
  /\ \A d \in Draft : [kind |-> "send", draft |-> d] \in Task
  BY DEF Task, Idle

\* The fields a command has, by its kind.
LEMMA TaskFields ==
  ASSUME NEW t \in Task
  PROVE  /\ t.kind \in {"idle", "tick", "load", "images", "refresh", "reply",
                        "editor", "send"}
         /\ t.kind \in {"tick", "load"} => t.key \in Mail /\ t.gen \in Nat
         /\ t.kind = "images" => t.of \in Parsed /\ t.gen \in Nat
         /\ t.kind = "refresh" => /\ t.manual \in BOOLEAN
                                  /\ t.done \in BOOLEAN
                                  /\ t.headers \in SUBSET Mail
         /\ t.kind = "reply" => t.re \in Mail
         /\ t.kind \in {"editor", "send"} => t.draft \in Draft
         /\ t.kind = "idle" <=> t = Idle
  BY DEF Task, Idle

\* What a list shows first is one of its messages.
LEMMA FirstType ==
  ASSUME NEW S \in SUBSET Mail
  PROVE  First(S) \in Keys /\ (S # {} => First(S) \in Mail)
  BY MailAssumption DEF First, Keys
\* Putting a command into a slot, or taking it out, keeps task typed.
LEMMA TaskUpdate ==
  ASSUME TypeOK, NEW s \in Slots, NEW t \in Task
  PROVE  [task EXCEPT ![s] = t] \in [Slots -> Task]
  BY DEF TypeOK

LEMMA EndTyped ==
  ASSUME TypeOK, NEW s \in Slots, End(s)
  PROVE  task' \in [Slots -> Task]
  BY TaskUpdate, TaskTypes DEF End

LEMMA StartTyped ==
  ASSUME TypeOK, NEW s, NEW t \in Task, Start(s, t)
  PROVE  s \in Slots /\ task' \in [Slots -> Task]
  BY TaskUpdate DEF Start, Free

LEMMA ScheduleTyped ==
  ASSUME TypeOK, NEW s \in Slots, NEW k \in Mail, NEW limit \in Nat,
         scheduleLoadUpTo(limit, s, k)
  PROVE  /\ task' \in [Slots -> Task]
         /\ loadDebounceGen' \in Nat
         /\ loadPendingKey' \in Keys
<1>1. TickTag \in Nat /\ loadDebounceGen' \in Nat
  BY DEF TypeOK, scheduleLoadUpTo, TickTag
<1>2. [kind |-> "tick", key |-> k, gen |-> TickTag] \in Task
  BY <1>1, TaskTypes
<1>3. QED
  BY <1>1, <1>2, TaskUpdate DEF scheduleLoadUpTo, Keys

\* rebuildList keeps the list typed, whatever rows the cache returned.
LEMMA RebuildTyped ==
  ASSUME TypeOK, NEW hs \in SUBSET Mail, rebuildList(hs)
  PROVE  /\ items' \subseteq Mail /\ selected' \in Keys
         /\ filtering' \in BOOLEAN /\ anchor' \in Keys
         /\ selected' # NoKey => selected' \in Mail
  BY FirstType, MailAssumption DEF TypeOK, rebuildList, Keys

LEMMA FilterTyped ==
  ASSUME TypeOK, NEW hs \in SUBSET Mail, applyFilter(hs)
  PROVE  /\ items' \subseteq Mail /\ selected' \in Keys
         /\ filtering' \in BOOLEAN /\ anchor' \in Keys
         /\ task' \in [Slots -> Task]
         /\ loadDebounceGen' \in Nat /\ loadPendingKey' \in Keys
<1>1. CASE selected' = NoKey
  BY <1>1, RebuildTyped DEF applyFilter, TypeOK, tickVars
<1>2. CASE selected' # NoKey
  BY <1>2, RebuildTyped, ScheduleTyped, BoundAssumption DEF scheduleLoad, applyFilter, Free
<1>3. QED  BY <1>1, <1>2

\* The counter operations keep inflight a natural number.
LEMMA CountTyped ==
  ASSUME TypeOK, CountIn \/ CountOut \/ CountOutUncounted \/ UNCHANGED countVars
  PROVE  inflight' \in Nat /\ spinning' \in BOOLEAN /\ uncounted' \in BOOLEAN
<1>1. inflight' \in Nat
  BY DEF TypeOK, CountIn, CountOut, CountOutUncounted, Released, countVars
<1>2. spinning' \in BOOLEAN /\ uncounted' \in BOOLEAN
  <2>1. CASE CountIn
    BY <2>1 DEF TypeOK, CountIn
  <2>2. CASE CountOut
    BY <2>2 DEF TypeOK, CountOut
  <2>3. CASE CountOutUncounted
    BY <2>3 DEF TypeOK, CountOutUncounted
  <2>4. CASE UNCHANGED countVars
    BY <2>4 DEF TypeOK, countVars
  <2>5. QED  BY <2>1, <2>2, <2>3, <2>4
<1>3. QED  BY <1>1, <1>2

LEMMA DraftTypes ==
  /\ newComposer \in Draft
  /\ \A k \in Mail : [re |-> k, text |-> Blank] \in Draft
  /\ \A d \in Draft, x \in Texts : [d EXCEPT !.text = x] \in Draft
  BY DraftAssumption DEF newComposer, Draft, Keys

LEMMA BodyTypes ==
  /\ NoBody \in Parsed
  /\ NoBlobs \in Painted
  /\ \A k \in Mail, g \in Nat : [key |-> k, gen |-> g] \in Parsed
  /\ \A p \in Parsed, g \in Nat : [of |-> p, tag |-> g] \in Painted
  BY DEF NoBody, NoBlobs, Parsed, Painted, Keys

LEMMA InitTyped == Init => TypeOK
<1> SUFFICES ASSUME Init PROVE TypeOK
  OBVIOUS
<1>1. items \in SUBSET Mail
  BY MailAssumption DEF Init
<1>2. selected \in Keys
  BY <1>1, FirstType DEF Init
<1>3. task \in [Slots -> Task]
  BY TaskTypes DEF Init
<1>4. NoKey \in Keys
  BY DEF Keys
<1>5. QED
  BY <1>1, <1>2, <1>3, <1>4, DraftTypes, BodyTypes, MailAssumption
  DEF Init, TypeOK

\* Type correctness: whatever messages come back and in whatever order, the
\* counter stays a natural number and every part of the model keeps its type.
LEMMA NextTyped == TypeOK /\ [Next]_vars => TypeOK'
<1> SUFFICES ASSUME TypeOK, [Next]_vars PROVE TypeOK'
  OBVIOUS
<1> USE DEF listVars, countVars, tickVars, bodyVars, draftVars, mailVars
<1>1. CASE MoveCursor
  BY <1>1, ScheduleTyped, BoundAssumption DEF scheduleLoad, MoveCursor, TypeOK, Free, Keys
<1>2. CASE ToggleFocus
  BY <1>2 DEF ToggleFocus, TypeOK
<1>3. CASE OpenFilter
  BY <1>3, FirstType DEF OpenFilter, TypeOK
<1>4. CASE ConfirmFilter
  BY <1>4, FilterTyped DEF ConfirmFilter, TypeOK
<1>5. CASE CancelFilter
  BY <1>5, FilterTyped DEF CancelFilter, TypeOK
<1>6. CASE CloseFilter
  BY <1>6 DEF CloseFilter, TypeOK, Keys
<1>7. CASE ManualRefresh
  <2>1. NewRefresh(TRUE) \in Task
    BY TaskTypes DEF NewRefresh
  <2>2. QED
    BY <1>7, <2>1, StartTyped, CountTyped, TaskTypes DEF ManualRefresh, TypeOK
<1>8. CASE ShowImages
  BY <1>8, StartTyped, CountTyped, TaskTypes DEF ShowImages, TypeOK
<1>9. CASE FetchReply
  BY <1>9, StartTyped, TaskTypes DEF FetchReply, TypeOK, Keys
<1>10. CASE ReplyFromHeader
  BY <1>10, DraftTypes DEF ReplyFromHeader, TypeOK, Keys
<1>11. CASE Resize
  BY <1>11, ScheduleTyped, BoundAssumption DEF scheduleLoad, Resize, TypeOK, Free, Keys
<1>12. CASE Quit
  BY <1>12 DEF Quit, TypeOK
<1>13. CASE TypeText
  BY <1>13, DraftTypes DEF TypeText, TypeOK
<1>14. CASE OpenEditor
  BY <1>14, StartTyped, TaskTypes DEF OpenEditor, TypeOK
<1>15. CASE AskConfirmation
  BY <1>15 DEF AskConfirmation, TypeOK
<1>16. CASE LeaveComposer
  BY <1>16 DEF LeaveComposer, TypeOK
<1>17. CASE ConfirmSend
  BY <1>17, StartTyped, TaskTypes DEF ConfirmSend, TypeOK
<1>18. CASE DenySend
  BY <1>18 DEF DenySend, TypeOK
<1>19. CASE RefreshTick
  <2>1. NewRefresh(FALSE) \in Task
    BY TaskTypes DEF NewRefresh
  <2>2. QED
    BY <1>19, <2>1, StartTyped, TaskTypes DEF RefreshTick, TypeOK
<1>20. CASE SpinnerTick
  BY <1>20 DEF SpinnerTick, TypeOK
<1>21. CASE MailArrives
  BY <1>21 DEF MailArrives, TypeOK
<1>22. ASSUME NEW s \in Slots, RefreshSyncs(s) PROVE TypeOK'
  <2>1. cached' \in SUBSET Mail
    BY <1>22 DEF RefreshSyncs, TypeOK
  <2>2. [task[s] EXCEPT !.done = TRUE, !.headers = cached'] \in Task
    <3>1. task[s] \in [kind : {"refresh"}, manual : BOOLEAN, done : BOOLEAN,
                       headers : SUBSET Mail]
      BY <1>22 DEF RefreshSyncs, TypeOK, Task, Idle
    <3>2. QED  BY <2>1, <3>1 DEF Task
  <2>3. task' = [task EXCEPT ![s] =
                   [task[s] EXCEPT !.done = TRUE, !.headers = cached']]
    BY <1>22 DEF RefreshSyncs, TypeOK
  <2>4. task' \in [Slots -> Task]
    BY <2>2, <2>3, TaskUpdate
  <2>5. QED  BY <1>22, <2>1, <2>4 DEF RefreshSyncs, TypeOK
<1>23. ASSUME NEW s \in Slots, DebounceFires(s) PROVE TypeOK'
  BY <1>23, CountTyped, TaskTypes, TaskUpdate, TaskFields DEF DebounceFires, TypeOK, IsLatestTick, LoadTag
<1>24. ASSUME NEW s \in Slots, DebounceIgnored(s) PROVE TypeOK'
  BY <1>24, EndTyped DEF DebounceIgnored, TypeOK
<1>25. ASSUME NEW s \in Slots, BodyLoaded(s) PROVE TypeOK'
  BY <1>25, EndTyped, CountTyped, TaskFields, BodyTypes DEF BodyLoaded, TypeOK, applyBody, IsNewestLoad
<1>26. ASSUME NEW s \in Slots, BodyStale(s) PROVE TypeOK'
  BY <1>26, EndTyped, CountTyped DEF BodyStale, TypeOK, StaleSlotReleased
<1>27. ASSUME NEW s \in Slots, LoadFails(s) PROVE TypeOK'
  BY <1>27, EndTyped, CountTyped, TaskFields DEF LoadFails, TypeOK
<1>28. ASSUME NEW s \in Slots, ImagesRendered(s) PROVE TypeOK'
  BY <1>28, EndTyped, CountTyped, TaskFields, BodyTypes DEF ImagesRendered, TypeOK
<1>29. ASSUME NEW s \in Slots, RefreshDone(s) PROVE TypeOK'
  <2>1. task[s].headers \in SUBSET Mail /\ task[s].headers # {}
    BY <1>29, TaskFields DEF RefreshDone, TypeOK
  <2>2. /\ items' \subseteq Mail /\ selected' \in Keys
        /\ filtering' \in BOOLEAN /\ anchor' \in Keys
    BY <1>29, <2>1, RebuildTyped DEF RefreshDone
  <2>3. selected' \in Mail
    BY <1>29, <2>1, FirstType DEF RefreshDone, rebuildList
  <2>4. inflight' \in Nat /\ spinning' \in BOOLEAN /\ uncounted' \in BOOLEAN
    BY <1>29, CountTyped DEF RefreshDone, RefreshCountOut
  <2>5. /\ task' \in [Slots -> Task]
        /\ loadDebounceGen' \in Nat /\ loadPendingKey' \in Keys
    <3>1. CASE ReloadsBlankReader
      BY <1>29, <2>3, <3>1, ScheduleTyped, BoundAssumption DEF RefreshDone
    <3>2. CASE ~ReloadsBlankReader
      BY <1>29, <3>2, EndTyped DEF RefreshDone, TypeOK
    <3>3. QED  BY <3>1, <3>2
  <2>6. QED
    BY <1>29, <2>2, <2>4, <2>5 DEF RefreshDone, TypeOK
<1>30. ASSUME NEW s \in Slots, RefreshKeepsList(s) PROVE TypeOK'
  BY <1>30, EndTyped, CountTyped DEF RefreshKeepsList, TypeOK, RefreshCountOut
<1>31. ASSUME NEW s \in Slots, ReplyReady(s) PROVE TypeOK'
  BY <1>31, EndTyped, TaskFields, DraftTypes DEF ReplyReady, TypeOK
<1>32. ASSUME NEW s \in Slots, EditorDone(s) PROVE TypeOK'
  BY <1>32, EndTyped, DraftTypes DEF EditorDone, TypeOK
<1>33. ASSUME NEW s \in Slots, EditorFails(s) PROVE TypeOK'
  BY <1>33, EndTyped, CountTyped DEF EditorFails, TypeOK
<1>34. ASSUME NEW s \in Slots, SentMsg(s) PROVE TypeOK'
  BY <1>34, EndTyped, CountTyped, DraftTypes DEF SentMsg, TypeOK, sentResets
<1>35. ASSUME NEW s \in Slots, SendFails(s) PROVE TypeOK'
  BY <1>35, EndTyped, CountTyped DEF SendFails, TypeOK
<1>36. ASSUME NEW s \in Slots, SendPanics(s) PROVE TypeOK'
  BY <1>36 DEF SendPanics, TypeOK
<1>37. CASE UNCHANGED vars
  BY <1>37 DEF vars, TypeOK
<1>38. QED
  BY <1>1, <1>2, <1>3, <1>4, <1>5, <1>6, <1>7, <1>8, <1>9,
     <1>10, <1>11, <1>12, <1>13, <1>14, <1>15, <1>16, <1>17, <1>18,
     <1>19, <1>20, <1>21, <1>22, <1>23, <1>24, <1>25, <1>26, <1>27,
     <1>28, <1>29, <1>30, <1>31, <1>32, <1>33, <1>34, <1>35, <1>36,
     <1>37
  DEF Next, UserStep, Delivery

THEOREM TypeCorrect == Spec => []TypeOK
<1>1. QED  BY InitTyped, NextTyped, PTL DEF Spec

------------------------------------------------------------------------------
(* The confirmation gate of the composer *)

\* While an undisturbed prompt is up, the draft is the approved one and nothing
\* is on its way that could replace it.
ComposerInv ==
  /\ ConfirmingIsVisible
  /\ (confirming /\ quiet) =>
       compose = approved /\ Running("reply") \cup Running("editor") = {}

SendStep ==
  \A s \in Slots :
    task[s].kind # "send" /\ task'[s].kind = "send" /\ quiet
      => task'[s].draft = approved

\* A step that starts neither a reply fetch, nor an editor, nor a send.
NoDraftTask ==
  \A x \in Slots : task'[x].kind \in {"reply", "editor", "send"}
                     => task'[x] = task[x]

LEMMA NoDraftTaskSteps ==
  ASSUME TypeOK, NEW s \in Slots,
         \/ End(s)
         \/ UNCHANGED task
         \/ \E k \in Mail, limit \in Nat : scheduleLoadUpTo(limit, s, k)
         \/ \E t : Start(s, t) /\ t.kind \notin {"reply", "editor", "send"}
  PROVE  NoDraftTask
  BY DEF TypeOK, NoDraftTask, End, scheduleLoad, scheduleLoadUpTo, Start, Idle, Free

LEMMA FilterNoDraftTask ==
  ASSUME TypeOK, NEW hs \in SUBSET Mail, applyFilter(hs)
  PROVE  NoDraftTask
<1>1. CASE selected' = NoKey
  BY <1>1 DEF applyFilter, NoDraftTask
<1>2. CASE selected' # NoKey
  <2>1. selected' \in Mail
    BY <1>2, RebuildTyped DEF applyFilter
  <2>2. PICK s \in Free : scheduleLoad(s, selected')
    BY <1>2 DEF applyFilter
  <2>3. QED  BY <2>1, <2>2, NoDraftTaskSteps, BoundAssumption
    DEF scheduleLoad, Free
<1>3. QED  BY <1>1, <1>2

\* Such a step leaves the gate as it was when it does not touch the draft.
LEMMA GateUndisturbed ==
  ASSUME ComposerInv, NoDraftTask, UNCHANGED draftVars, confirming => UNCHANGED mode
  PROVE  ComposerInv' /\ SendStep
<1> USE DEF draftVars
<1>1. ConfirmingIsVisible'
  BY DEF ComposerInv, ConfirmingIsVisible
<1>2. (confirming /\ quiet)' =>
        (compose = approved /\ Running("reply") \cup Running("editor") = {})'
  BY DEF ComposerInv, NoDraftTask, Running
<1>3. SendStep
  BY DEF SendStep, NoDraftTask
<1>4. QED  BY <1>1, <1>2, <1>3 DEF ComposerInv

LEMMA GateStep ==
  ASSUME TypeOK, ComposerInv, [Next]_vars
  PROVE  ComposerInv' /\ SendStep
<1> USE DEF listVars, countVars, tickVars, bodyVars, draftVars, mailVars
<1>1. CASE MoveCursor
  BY <1>1, NoDraftTaskSteps, GateUndisturbed, BoundAssumption
  DEF scheduleLoad, MoveCursor, TypeOK, Free, Keys

<1>2. CASE ToggleFocus
  BY <1>2, GateUndisturbed DEF ToggleFocus, NoDraftTask

<1>3. CASE OpenFilter
  BY <1>3, GateUndisturbed DEF OpenFilter, NoDraftTask

<1>4. CASE ConfirmFilter
  BY <1>4, FilterNoDraftTask, GateUndisturbed DEF ConfirmFilter, TypeOK

<1>5. CASE CancelFilter
  BY <1>5, FilterNoDraftTask, GateUndisturbed DEF CancelFilter, TypeOK

<1>6. CASE CloseFilter
  BY <1>6, GateUndisturbed DEF CloseFilter, NoDraftTask

<1>7. CASE ManualRefresh
  <2>1. PICK s \in Slots : Start(s, NewRefresh(TRUE))
    BY <1>7 DEF ManualRefresh
  <2>2. NoDraftTask
    BY <2>1, NoDraftTaskSteps DEF NewRefresh
  <2>3. QED  BY <1>7, <2>2, GateUndisturbed DEF ManualRefresh

<1>8. CASE ShowImages
  <2>1. PICK s \in Slots : Start(s, [kind |-> "images", of |-> currentParsed,
                             gen |-> loadGen])
    BY <1>8 DEF ShowImages
  <2>2. NoDraftTask
    BY <2>1, NoDraftTaskSteps
  <2>3. QED  BY <1>8, <2>2, GateUndisturbed DEF ShowImages

<1>9. CASE FetchReply
  <2>1. ~confirming
    BY <1>9 DEF FetchReply, Browsing, ComposerInv, ConfirmingIsVisible
  <2>2. ComposerInv'
    BY <1>9, <2>1 DEF FetchReply, ComposerInv, ConfirmingIsVisible
  <2>3. SendStep
    BY <1>9 DEF FetchReply, SendStep, Start, Free, TypeOK
  <2>4. QED  BY <2>2, <2>3

<1>10. CASE ReplyFromHeader
  <2>1. ~confirming
    BY <1>10 DEF ReplyFromHeader, Browsing, ComposerInv, ConfirmingIsVisible
  <2>2. QED
    BY <1>10, <2>1 DEF ReplyFromHeader, ComposerInv, ConfirmingIsVisible, SendStep

<1>11. CASE Resize
  BY <1>11, NoDraftTaskSteps, GateUndisturbed, BoundAssumption
  DEF scheduleLoad, Resize, TypeOK, Free, Keys

<1>12. CASE Quit
  BY <1>12, GateUndisturbed DEF Quit, NoDraftTask

<1>13. CASE TypeText
  BY <1>13 DEF TypeText, TypeAllowed, ComposerInv, ConfirmingIsVisible, SendStep

<1>14. CASE OpenEditor
  <2>1. ~confirming /\ UNCHANGED confirming
    BY <1>14 DEF OpenEditor
  <2>2. ComposerInv'
    BY <2>1 DEF ComposerInv, ConfirmingIsVisible
  <2>3. SendStep
    BY <1>14 DEF OpenEditor, SendStep, Start, Free, TypeOK
  <2>4. QED  BY <2>2, <2>3

<1>15. CASE AskConfirmation
  BY <1>15, Zenon DEF AskConfirmation, Composing, ComposerInv, ConfirmingIsVisible, SendStep, Running

<1>16. CASE LeaveComposer
  BY <1>16, GateUndisturbed DEF LeaveComposer, NoDraftTask

<1>17. CASE ConfirmSend
  <2>1. PICK s \in Slots : Start(s, [kind |-> "send", draft |-> compose])
    BY <1>17 DEF ConfirmSend
  <2>2. confirming /\ UNCHANGED <<mode, draftVars>>
    BY <1>17 DEF ConfirmSend
  <2>3. \A x \in Slots : task'[x].kind \in {"reply", "editor"} => task'[x] = task[x]
    BY <2>1 DEF Start, Free, TypeOK
  <2>4. ComposerInv'
    BY <2>2, <2>3 DEF ComposerInv, ConfirmingIsVisible, Running
  <2>5. SendStep
    <3> SUFFICES ASSUME NEW x \in Slots, task[x].kind # "send",
                        task'[x].kind = "send", quiet
                 PROVE  task'[x].draft = approved
      BY DEF SendStep
    <3>1. compose = approved
      BY <2>2 DEF ComposerInv
    <3>2. task'[x] = [kind |-> "send", draft |-> compose]
      BY <2>1 DEF Start, TypeOK
    <3>3. QED  BY <3>1, <3>2
  <2>6. QED  BY <2>4, <2>5

<1>18. CASE DenySend
  BY <1>18 DEF DenySend, ComposerInv, ConfirmingIsVisible, SendStep

<1>19. CASE RefreshTick
  <2>1. PICK s \in Slots : Start(s, NewRefresh(FALSE))
    BY <1>19 DEF RefreshTick
  <2>2. NoDraftTask
    BY <2>1, NoDraftTaskSteps DEF NewRefresh
  <2>3. QED  BY <1>19, <2>2, GateUndisturbed DEF RefreshTick

<1>20. CASE SpinnerTick
  BY <1>20, GateUndisturbed DEF SpinnerTick, NoDraftTask

<1>21. CASE MailArrives
  BY <1>21, GateUndisturbed DEF MailArrives, NoDraftTask

<1>22. ASSUME NEW s \in Slots, RefreshSyncs(s) PROVE ComposerInv' /\ SendStep
  <2>1. NoDraftTask
    <3>1. task' = [task EXCEPT ![s] = [task[s] EXCEPT !.done = TRUE,
                                                      !.headers = cached']]
      BY <1>22 DEF RefreshSyncs, TypeOK
    <3>2. [task[s] EXCEPT !.done = TRUE, !.headers = cached'].kind = "refresh"
      <4>1. task[s] \in [kind : {"refresh"}, manual : BOOLEAN, done : BOOLEAN,
                         headers : SUBSET Mail]
        BY <1>22 DEF RefreshSyncs, TypeOK, Task, Idle
      <4>2. QED  BY <4>1
    <3>3. QED  BY <3>1, <3>2 DEF NoDraftTask, TypeOK
  <2>2. QED  BY <1>22, <2>1, GateUndisturbed DEF RefreshSyncs

<1>23. ASSUME NEW s \in Slots, DebounceFires(s) PROVE ComposerInv' /\ SendStep
  <2>1. NoDraftTask
    BY <1>23 DEF DebounceFires, NoDraftTask, TypeOK
  <2>2. QED  BY <1>23, <2>1, GateUndisturbed DEF DebounceFires

<1>24. ASSUME NEW s \in Slots, DebounceIgnored(s) PROVE ComposerInv' /\ SendStep
  BY <1>24, NoDraftTaskSteps, GateUndisturbed DEF DebounceIgnored

<1>25. ASSUME NEW s \in Slots, BodyLoaded(s) PROVE ComposerInv' /\ SendStep
  BY <1>25, NoDraftTaskSteps, GateUndisturbed DEF BodyLoaded

<1>26. ASSUME NEW s \in Slots, BodyStale(s) PROVE ComposerInv' /\ SendStep
  BY <1>26, NoDraftTaskSteps, GateUndisturbed DEF BodyStale

<1>27. ASSUME NEW s \in Slots, LoadFails(s) PROVE ComposerInv' /\ SendStep
  BY <1>27, NoDraftTaskSteps, GateUndisturbed DEF LoadFails

<1>28. ASSUME NEW s \in Slots, ImagesRendered(s) PROVE ComposerInv' /\ SendStep
  BY <1>28, NoDraftTaskSteps, GateUndisturbed DEF ImagesRendered

<1>29. ASSUME NEW s \in Slots, RefreshDone(s) PROVE ComposerInv' /\ SendStep
  <2>1. task[s].headers \in SUBSET Mail /\ task[s].headers # {}
    BY <1>29, TaskFields DEF RefreshDone, TypeOK
  <2>2. selected' \in Mail
    BY <1>29, <2>1, FirstType DEF RefreshDone, rebuildList
  <2>3. NoDraftTask
    BY <1>29, <2>2, NoDraftTaskSteps, BoundAssumption DEF RefreshDone
  <2>4. QED  BY <1>29, <2>3, GateUndisturbed DEF RefreshDone

<1>30. ASSUME NEW s \in Slots, RefreshKeepsList(s) PROVE ComposerInv' /\ SendStep
  BY <1>30, NoDraftTaskSteps, GateUndisturbed DEF RefreshKeepsList

<1>31. ASSUME NEW s \in Slots, ReplyReady(s) PROVE ComposerInv' /\ SendStep
  <2>1. s \in Running("reply")
    BY <1>31 DEF ReplyReady, Running
  <2>2. ~(confirming /\ quiet)
    BY <2>1 DEF ComposerInv
  <2>3. NoDraftTask
    BY <1>31, NoDraftTaskSteps DEF ReplyReady
  <2>4. ComposerInv'
    BY <1>31, <2>2 DEF ReplyReady, ComposerInv, ConfirmingIsVisible
  <2>5. QED  BY <2>3, <2>4 DEF NoDraftTask, SendStep

<1>32. ASSUME NEW s \in Slots, EditorDone(s) PROVE ComposerInv' /\ SendStep
  <2>1. s \in Running("editor")
    BY <1>32 DEF EditorDone, Running
  <2>2. ~(confirming /\ quiet)
    BY <2>1 DEF ComposerInv
  <2>3. NoDraftTask
    BY <1>32, NoDraftTaskSteps DEF EditorDone
  <2>4. ComposerInv'
    BY <1>32, <2>2 DEF EditorDone, ComposerInv, ConfirmingIsVisible
  <2>5. QED  BY <2>3, <2>4 DEF NoDraftTask, SendStep

<1>33. ASSUME NEW s \in Slots, EditorFails(s) PROVE ComposerInv' /\ SendStep
  BY <1>33, NoDraftTaskSteps, GateUndisturbed DEF EditorFails

<1>34. ASSUME NEW s \in Slots, SentMsg(s) PROVE ComposerInv' /\ SendStep
  <2>1. NoDraftTask
    BY <1>34, NoDraftTaskSteps DEF SentMsg
  <2>2. ComposerInv'
    BY <1>34 DEF SentMsg, sentResets, ComposerInv, ConfirmingIsVisible
  <2>3. QED  BY <2>1, <2>2 DEF NoDraftTask, SendStep

<1>35. ASSUME NEW s \in Slots, SendFails(s) PROVE ComposerInv' /\ SendStep
  BY <1>35, NoDraftTaskSteps, GateUndisturbed DEF SendFails

<1>36. ASSUME NEW s \in Slots, SendPanics(s) PROVE ComposerInv' /\ SendStep
  BY <1>36, NoDraftTaskSteps, GateUndisturbed DEF SendPanics

<1>37. CASE UNCHANGED vars
  BY <1>37, GateUndisturbed DEF vars, NoDraftTask

<1>38. QED
  BY <1>1, <1>2, <1>3, <1>4, <1>5, <1>6, <1>7, <1>8, <1>9,
     <1>10, <1>11, <1>12, <1>13, <1>14, <1>15, <1>16, <1>17, <1>18,
     <1>19, <1>20, <1>21, <1>22, <1>23, <1>24, <1>25, <1>26, <1>27,
     <1>28, <1>29, <1>30, <1>31, <1>32, <1>33, <1>34, <1>35, <1>36,
     <1>37
  DEF Next, UserStep, Delivery

LEMMA ComposerInvariant == Spec => [](TypeOK /\ ComposerInv)
<1>1. Init => ComposerInv
  BY DEF Init, ComposerInv, ConfirmingIsVisible
<1>2. TypeOK /\ ComposerInv /\ [Next]_vars => (TypeOK /\ ComposerInv)'
  BY GateStep, NextTyped
<1>3. QED  BY InitTyped, <1>1, <1>2, PTL DEF Spec

\* The y/n prompt never survives into the browse screen.
THEOREM PromptIsVisible == Spec => []ConfirmingIsVisible
<1>1. ComposerInv => ConfirmingIsVisible
  BY DEF ComposerInv
<1>2. QED  BY ComposerInvariant, <1>1, PTL

\* The draft handed to the sender is the one on screen at Ctrl-S, when no reply
\* fetch and no editor was unanswered then.
THEOREM ConfirmedDraftIsSent == Spec => SendsWhatWasConfirmed
<1>1. TypeOK /\ ComposerInv /\ [Next]_vars => [SendStep]_vars
  BY GateStep
<1>2. QED
  BY ComposerInvariant, <1>1, PTL DEF Spec, SendsWhatWasConfirmed, SendStep

------------------------------------------------------------------------------
\* No timer and no answer moves the cursor off a message that the list still
\* shows: only a refresh rebuilds the list, and it keeps the selected key.
THEOREM SelectionIsTheUsers == Spec => OnlyUserMovesSelection
<1>1. [Next]_vars => [selected' # selected /\ selected \in items' => UserStep]_vars
  <2> SUFFICES ASSUME [Next]_vars, ~UserStep
               PROVE  selected' = selected \/ selected \notin items'
    OBVIOUS
  <2> USE DEF listVars
  <2>1. CASE RefreshTick \/ SpinnerTick \/ MailArrives \/ UNCHANGED vars
    BY <2>1 DEF RefreshTick, SpinnerTick, MailArrives, vars
  <2>2. ASSUME NEW s \in Slots, RefreshDone(s)
        PROVE  selected' = selected \/ selected \notin items'
    BY <2>2 DEF RefreshDone, rebuildList
  <2>3. ASSUME NEW s \in Slots, RefreshSyncs(s) \/ Delivery(s), ~RefreshDone(s)
        PROVE  selected' = selected
    BY <2>3 DEF RefreshSyncs, Delivery, DebounceFires, DebounceIgnored,
       BodyLoaded, BodyStale, LoadFails, ImagesRendered, RefreshKeepsList,
       ReplyReady, EditorDone, EditorFails, SentMsg, SendFails, SendPanics
  <2>4. QED  BY <2>1, <2>2, <2>3 DEF Next
<1>2. QED  BY <1>1, PTL DEF Spec, OnlyUserMovesSelection

------------------------------------------------------------------------------
(* The accounting of inflight *)

CountInv == InflightNeverLeaks /\ InflightExact

IsCounted(t) == t.kind \in {"load", "images"} \/ (t.kind = "refresh" /\ t.manual)

LEMMA CountedFinite ==
  /\ Counted \subseteq Slots
  /\ IsFiniteSet(Counted)
  /\ Cardinality(Counted) \in Nat
<1>1. Counted \subseteq Slots
  BY DEF Counted, Running
<1>2. QED  BY <1>1, BoundAssumption, FS_Subset, FS_CardinalityType

LEMMA CountedElement ==
  ASSUME NEW s \in Slots
  PROVE  s \in Counted <=> IsCounted(task[s])
  BY DEF Counted, Running, IsCounted

\* Writing one slot changes Counted at that slot only.
LEMMA CountedUpdate ==
  ASSUME TypeOK, NEW s \in Slots, NEW t, task' = [task EXCEPT ![s] = t]
  PROVE  Counted' = IF IsCounted(t) THEN Counted \cup {s} ELSE Counted \ {s}
<1>1. \A x \in Slots : task'[x] = IF x = s THEN t ELSE task[x]
  BY DEF TypeOK
<1>2. Counted' \subseteq Slots /\ Counted \subseteq Slots
  BY DEF Counted, Running
<1>3. \A x \in Slots : x \in Counted' <=> IsCounted(task'[x])
  BY DEF Counted, Running, IsCounted
<1>4. QED
  BY <1>1, <1>2, <1>3, CountedElement

\* A command that counts itself in when it starts.
LEMMA CountInStep ==
  ASSUME TypeOK, CountInv, CountIn, NEW s \in Slots, NEW t,
         ~IsCounted(task[s]), IsCounted(t), task' = [task EXCEPT ![s] = t]
  PROVE  CountInv'
<1>1. s \notin Counted /\ Counted' = Counted \cup {s}
  BY CountedUpdate, CountedElement
<1>2. Cardinality(Counted') = Cardinality(Counted) + 1
  BY <1>1, CountedFinite, FS_AddElement
<1>3. QED
  BY <1>2, CountedFinite
  DEF CountInv, InflightNeverLeaks, InflightExact, CountIn, TypeOK

\* A counted command that ends and counts itself out.
LEMMA CountOutStep ==
  ASSUME TypeOK, CountInv, CountOut, NEW s \in Slots, NEW t,
         IsCounted(task[s]), ~IsCounted(t), task' = [task EXCEPT ![s] = t]
  PROVE  CountInv'
<1>1. s \in Counted /\ Counted' = Counted \ {s}
  BY CountedUpdate, CountedElement
<1>2. Cardinality(Counted') = Cardinality(Counted) - 1
  BY <1>1, CountedFinite, FS_RemoveElement
<1>3. Cardinality(Counted) > 0
  BY <1>1, CountedFinite, FS_EmptySet
<1>4. QED
  BY <1>2, <1>3, CountedFinite
  DEF CountInv, InflightNeverLeaks, InflightExact, CountOut, Released, TypeOK

\* Anything else leaves Counted alone; a send or an editor error may still
\* decrement the counter, which is then remembered in uncounted.
LEMMA SameCounted ==
  ASSUME TypeOK, CountInv, Counted' = Counted,
         \/ UNCHANGED <<inflight, uncounted>>
         \/ CountOutUncounted
  PROVE  CountInv'
<1>1. CASE UNCHANGED <<inflight, uncounted>>
  BY <1>1 DEF CountInv, InflightNeverLeaks, InflightExact
<1>2. CASE CountOutUncounted
  <2>1. CASE inflight > 0
    <3>1. uncounted' /\ inflight' = inflight - 1
      BY <1>2, <2>1 DEF CountOutUncounted, Released
    <3>2. InflightNeverLeaks'
      BY <2>1, <3>1, CountedFinite DEF CountInv, InflightNeverLeaks, TypeOK
    <3>3. QED  BY <3>1, <3>2 DEF CountInv, InflightExact
  <2>2. CASE ~(inflight > 0)
    <3>1. (uncounted' <=> uncounted) /\ inflight' = 0 /\ inflight = 0
      BY <1>2, <2>2 DEF CountOutUncounted, Released, TypeOK
    <3>2. QED  BY <3>1 DEF CountInv, InflightNeverLeaks, InflightExact
  <2>3. QED  BY <2>1, <2>2
<1>3. QED  BY <1>1, <1>2

LEMMA UncountedStart ==
  ASSUME TypeOK, NEW s, NEW t, Start(s, t), ~IsCounted(t)
  PROVE  Counted' = Counted
<1>1. s \in Slots /\ task[s] = Idle /\ task' = [task EXCEPT ![s] = t]
  BY DEF Start, Free
<1>2. ~IsCounted(task[s])
  BY <1>1 DEF IsCounted, Idle
<1>3. QED  BY <1>1, <1>2, CountedUpdate, CountedElement

LEMMA UncountedEnd ==
  ASSUME TypeOK, NEW s \in Slots, End(s), ~IsCounted(task[s])
  PROVE  Counted' = Counted
<1>1. ~IsCounted(Idle)
  BY DEF IsCounted, Idle
<1>2. QED  BY <1>1, CountedUpdate, CountedElement DEF End

LEMMA ScheduleCounted ==
  ASSUME TypeOK, NEW s \in Free, NEW k, NEW limit \in Nat,
         scheduleLoadUpTo(limit, s, k)
  PROVE  Counted' = Counted
<1>1. ~IsCounted([kind |-> "tick", key |-> k, gen |-> TickTag])
  BY DEF IsCounted
<1>2. s \in Slots /\ ~IsCounted(task[s])
  BY DEF Free, IsCounted, Idle
<1>3. QED  BY <1>1, <1>2, CountedUpdate, CountedElement DEF scheduleLoadUpTo

LEMMA FilterCounted ==
  ASSUME TypeOK, NEW hs, applyFilter(hs)
  PROVE  Counted' = Counted
<1>1. CASE selected' = NoKey
  BY <1>1 DEF applyFilter, Counted, Running
<1>2. CASE selected' # NoKey
  BY <1>2, ScheduleCounted, BoundAssumption DEF scheduleLoad, applyFilter
<1>3. QED  BY <1>1, <1>2

LEMMA CountStep ==
  ASSUME TypeOK, CountInv, [Next]_vars
  PROVE  CountInv'
<1> USE DEF listVars, countVars, tickVars, bodyVars, draftVars, mailVars
<1>1. CASE MoveCursor
  BY <1>1, ScheduleCounted, SameCounted, BoundAssumption DEF scheduleLoad, MoveCursor

<1>2. CASE ToggleFocus
  BY <1>2, SameCounted DEF ToggleFocus, Counted, Running

<1>3. CASE OpenFilter
  BY <1>3, SameCounted DEF OpenFilter, Counted, Running

<1>4. CASE ConfirmFilter
  BY <1>4, FilterCounted, SameCounted DEF ConfirmFilter

<1>5. CASE CancelFilter
  BY <1>5, FilterCounted, SameCounted DEF CancelFilter

<1>6. CASE CloseFilter
  BY <1>6, SameCounted DEF CloseFilter, Counted, Running

<1>7. CASE ManualRefresh
  <2>1. PICK s \in Slots : Start(s, NewRefresh(TRUE))
    BY <1>7 DEF ManualRefresh
  <2>2. ~IsCounted(task[s]) /\ IsCounted(NewRefresh(TRUE))
    BY <2>1 DEF IsCounted, Start, Free, Idle, NewRefresh
  <2>3. QED  BY <1>7, <2>1, <2>2, CountInStep DEF ManualRefresh, Start

<1>8. CASE ShowImages
  <2>1. PICK s \in Slots : Start(s, [kind |-> "images", of |-> currentParsed, gen |-> loadGen])
    BY <1>8 DEF ShowImages
  <2>2. ~IsCounted(task[s]) /\ IsCounted([kind |-> "images", of |-> currentParsed, gen |-> loadGen])
    BY <2>1 DEF IsCounted, Start, Free, Idle
  <2>3. QED  BY <1>8, <2>1, <2>2, CountInStep DEF ShowImages, Start

<1>9. CASE FetchReply
  <2>1. PICK s \in Slots : Start(s, [kind |-> "reply", re |-> selected])
    BY <1>9 DEF FetchReply
  <2>2. Counted' = Counted
    BY <2>1, UncountedStart DEF IsCounted
  <2>3. QED  BY <1>9, <2>2, SameCounted DEF FetchReply

<1>10. CASE ReplyFromHeader
  BY <1>10, SameCounted DEF ReplyFromHeader, Counted, Running

<1>11. CASE Resize
  BY <1>11, ScheduleCounted, SameCounted, BoundAssumption DEF scheduleLoad, Resize

<1>12. CASE Quit
  BY <1>12, SameCounted DEF Quit, Counted, Running

<1>13. CASE TypeText
  BY <1>13, SameCounted DEF TypeText, Counted, Running

<1>14. CASE OpenEditor
  <2>1. PICK s \in Slots : Start(s, [kind |-> "editor", draft |-> compose])
    BY <1>14 DEF OpenEditor
  <2>2. Counted' = Counted
    BY <2>1, UncountedStart DEF IsCounted
  <2>3. QED  BY <1>14, <2>2, SameCounted DEF OpenEditor

<1>15. CASE AskConfirmation
  BY <1>15, SameCounted DEF AskConfirmation, Counted, Running

<1>16. CASE LeaveComposer
  BY <1>16, SameCounted DEF LeaveComposer, Counted, Running

<1>17. CASE ConfirmSend
  <2>1. PICK s \in Slots : Start(s, [kind |-> "send", draft |-> compose])
    BY <1>17 DEF ConfirmSend
  <2>2. Counted' = Counted
    BY <2>1, UncountedStart DEF IsCounted
  <2>3. QED  BY <1>17, <2>2, SameCounted DEF ConfirmSend

<1>18. CASE DenySend
  BY <1>18, SameCounted DEF DenySend, Counted, Running

<1>19. CASE RefreshTick
  <2>1. PICK s \in Slots : Start(s, NewRefresh(FALSE))
    BY <1>19 DEF RefreshTick
  <2>2. Counted' = Counted
    BY <2>1, UncountedStart DEF IsCounted, NewRefresh
  <2>3. QED  BY <1>19, <2>2, SameCounted DEF RefreshTick

<1>20. CASE SpinnerTick
  BY <1>20, SameCounted DEF SpinnerTick, Counted, Running

<1>21. CASE MailArrives
  BY <1>21, SameCounted DEF MailArrives, Counted, Running

<1>22. ASSUME NEW s \in Slots, RefreshSyncs(s) PROVE CountInv'
  <2>1. task[s] \in [kind : {"refresh"}, manual : BOOLEAN, done : BOOLEAN,
                     headers : SUBSET Mail]
    BY <1>22 DEF RefreshSyncs, TypeOK, Task, Idle
  <2> DEFINE t == [task[s] EXCEPT !.done = TRUE, !.headers = cached']
  <2>2. task' = [task EXCEPT ![s] = t]
    BY <1>22 DEF RefreshSyncs, TypeOK
  <2>3. t.kind = task[s].kind /\ t.manual = task[s].manual
    BY <2>1
  <2>4. IsCounted(t) <=> IsCounted(task[s])
    BY <2>3 DEF IsCounted
  <2>5. Counted' = Counted
    <3> HIDE DEF t
    <3>1. QED  BY <2>2, <2>4, CountedUpdate, CountedElement
  <2>6. QED  BY <1>22, <2>5, SameCounted DEF RefreshSyncs

<1>23. ASSUME NEW s \in Slots, DebounceFires(s) PROVE CountInv'
  <2> DEFINE t == [kind |-> "load", key |-> task[s].key, gen |-> LoadTag]
  <2>1. ~IsCounted(task[s]) /\ IsCounted(t)
    BY <1>23 DEF DebounceFires, IsLatestTick, IsCounted
  <2>2. CountIn /\ task' = [task EXCEPT ![s] = t]
    BY <1>23 DEF DebounceFires
  <2>3. QED
    <3> HIDE DEF t
    <3>1. QED  BY <2>1, <2>2, CountInStep

<1>24. ASSUME NEW s \in Slots, DebounceIgnored(s) PROVE CountInv'
  <2>1. ~IsCounted(task[s])
    BY <1>24 DEF DebounceIgnored, IsCounted
  <2>2. QED  BY <1>24, <2>1, UncountedEnd, SameCounted DEF DebounceIgnored

<1>25. ASSUME NEW s \in Slots, BodyLoaded(s) PROVE CountInv'
  <2>1. IsCounted(task[s]) /\ ~IsCounted(Idle)
    BY <1>25 DEF BodyLoaded, IsCounted, Idle, IsNewestLoad
  <2>2. CountOut
    BY <1>25 DEF BodyLoaded
  <2>3. QED  BY <1>25, <2>1, <2>2, CountOutStep DEF BodyLoaded, End

<1>26. ASSUME NEW s \in Slots, BodyStale(s) PROVE CountInv'
  <2>1. IsCounted(task[s]) /\ ~IsCounted(Idle)
    BY <1>26 DEF BodyStale, IsCounted, Idle
  <2>2. CountOut
    BY <1>26 DEF BodyStale, StaleSlotReleased
  <2>3. QED  BY <1>26, <2>1, <2>2, CountOutStep DEF BodyStale, End

<1>27. ASSUME NEW s \in Slots, LoadFails(s) PROVE CountInv'
  <2>1. IsCounted(task[s]) /\ ~IsCounted(Idle)
    BY <1>27 DEF LoadFails, IsCounted, Idle
  <2>2. CountOut
    BY <1>27 DEF LoadFails
  <2>3. QED  BY <1>27, <2>1, <2>2, CountOutStep DEF LoadFails, End

<1>28. ASSUME NEW s \in Slots, ImagesRendered(s) PROVE CountInv'
  <2>1. IsCounted(task[s]) /\ ~IsCounted(Idle)
    BY <1>28 DEF ImagesRendered, IsCounted, Idle
  <2>2. CountOut
    BY <1>28 DEF ImagesRendered
  <2>3. QED  BY <1>28, <2>1, <2>2, CountOutStep DEF ImagesRendered, End

<1>29. ASSUME NEW s \in Slots, RefreshDone(s) PROVE CountInv'
  <2> DEFINE tick == [kind |-> "tick", key |-> selected', gen |-> TickTag]
  <2>1. ~IsCounted(Idle) /\ ~IsCounted(tick)
    BY DEF IsCounted, Idle
  <2>2. task' = [task EXCEPT ![s] = Idle] \/ task' = [task EXCEPT ![s] = tick]
    BY <1>29 DEF RefreshDone, End, scheduleLoadUpTo
  <2>3. PICK t : ~IsCounted(t) /\ task' = [task EXCEPT ![s] = t]
    <3> HIDE DEF tick
    <3>1. QED  BY <2>1, <2>2
  <2>4. CASE task[s].manual
    <3>1. IsCounted(task[s]) /\ CountOut
      BY <1>29, <2>4 DEF RefreshDone, RefreshCountOut, IsCounted
    <3>2. QED  BY <2>3, <3>1, CountOutStep
  <2>5. CASE ~task[s].manual
    <3>1. ~IsCounted(task[s]) /\ UNCHANGED countVars
      BY <1>29, <2>5 DEF RefreshDone, RefreshCountOut, IsCounted
    <3>2. Counted' = Counted
      BY <2>3, <3>1, CountedUpdate, CountedElement
    <3>3. QED  BY <3>1, <3>2, SameCounted
  <2>6. QED  BY <2>4, <2>5

<1>30. ASSUME NEW s \in Slots, RefreshKeepsList(s) PROVE CountInv'
  <2>1. ~IsCounted(Idle)
    BY DEF IsCounted, Idle
  <2>2. CASE task[s].manual
    <3>1. IsCounted(task[s]) /\ CountOut
      BY <1>30, <2>2 DEF RefreshKeepsList, RefreshCountOut, IsCounted
    <3>2. QED  BY <1>30, <2>1, <3>1, CountOutStep DEF RefreshKeepsList, End
  <2>3. CASE ~task[s].manual
    <3>1. ~IsCounted(task[s]) /\ UNCHANGED countVars
      BY <1>30, <2>3 DEF RefreshKeepsList, RefreshCountOut, IsCounted
    <3>2. QED  BY <1>30, <3>1, UncountedEnd, SameCounted DEF RefreshKeepsList
  <2>4. QED  BY <2>2, <2>3

<1>31. ASSUME NEW s \in Slots, ReplyReady(s) PROVE CountInv'
  <2>1. ~IsCounted(task[s])
    BY <1>31 DEF ReplyReady, IsCounted
  <2>2. QED  BY <1>31, <2>1, UncountedEnd, SameCounted DEF ReplyReady

<1>32. ASSUME NEW s \in Slots, EditorDone(s) PROVE CountInv'
  <2>1. ~IsCounted(task[s])
    BY <1>32 DEF EditorDone, IsCounted
  <2>2. QED  BY <1>32, <2>1, UncountedEnd, SameCounted DEF EditorDone

<1>33. ASSUME NEW s \in Slots, EditorFails(s) PROVE CountInv'
  <2>1. ~IsCounted(task[s])
    BY <1>33 DEF EditorFails, IsCounted
  <2>2. QED  BY <1>33, <2>1, UncountedEnd, SameCounted DEF EditorFails

<1>34. ASSUME NEW s \in Slots, SentMsg(s) PROVE CountInv'
  <2>1. ~IsCounted(task[s])
    BY <1>34 DEF SentMsg, IsCounted
  <2>2. QED  BY <1>34, <2>1, UncountedEnd, SameCounted DEF SentMsg

<1>35. ASSUME NEW s \in Slots, SendFails(s) PROVE CountInv'
  <2>1. ~IsCounted(task[s])
    BY <1>35 DEF SendFails, IsCounted
  <2>2. QED  BY <1>35, <2>1, UncountedEnd, SameCounted DEF SendFails

<1>36. ASSUME NEW s \in Slots, SendPanics(s) PROVE CountInv'
  BY <1>36, SameCounted DEF SendPanics, Counted, Running

<1>37. CASE UNCHANGED vars
  BY <1>37, SameCounted DEF vars, Counted, Running

<1>38. QED
  BY <1>1, <1>2, <1>3, <1>4, <1>5, <1>6, <1>7, <1>8, <1>9,
     <1>10, <1>11, <1>12, <1>13, <1>14, <1>15, <1>16, <1>17, <1>18,
     <1>19, <1>20, <1>21, <1>22, <1>23, <1>24, <1>25, <1>26, <1>27,
     <1>28, <1>29, <1>30, <1>31, <1>32, <1>33, <1>34, <1>35, <1>36,
     <1>37
  DEF Next, UserStep, Delivery

LEMMA CountInvariant == Spec => [](TypeOK /\ CountInv)
<1>1. Init => CountInv
  <2> SUFFICES ASSUME Init PROVE CountInv
    OBVIOUS
  <2>1. Counted = {}
    BY DEF Init, Counted, Running, Idle
  <2>2. Cardinality(Counted) = 0
    BY <2>1, FS_EmptySet
  <2>3. QED  BY <2>2 DEF Init, CountInv, InflightNeverLeaks, InflightExact
<1>2. TypeOK /\ CountInv /\ [Next]_vars => (TypeOK /\ CountInv)'
  BY CountStep, NextTyped
<1>3. QED  BY InitTyped, <1>1, <1>2, PTL DEF Spec

\* The C-1 repair, for any number of commands in any order: inflight never
\* exceeds the counted commands in flight.
THEOREM NoLeak == Spec => []InflightNeverLeaks
<1>1. CountInv => InflightNeverLeaks
  BY DEF CountInv
<1>2. QED  BY CountInvariant, <1>1, PTL

\* ... and equals their number until an uncounted operation has decremented it.
THEOREM CountIsExact == Spec => []InflightExact
<1>1. CountInv => InflightExact
  BY DEF CountInv
<1>2. QED  BY CountInvariant, <1>1, PTL

\* So an idle client, with no counted command in flight, shows no spinner, and
\* nothing but an open filter or composer keeps it from refreshing.
THEOREM IdleCounterIsZero == Spec => [](Counted = {} => inflight = 0)
<1>1. TypeOK /\ CountInv => (Counted = {} => inflight = 0)
  BY FS_EmptySet DEF CountInv, InflightNeverLeaks, TypeOK
<1>2. QED  BY CountInvariant, <1>1, PTL

------------------------------------------------------------------------------
\* The ways in which an Update touches the counter and the tick loop.
SpinnerMoves ==
  \/ CountIn \/ CountOut \/ CountOutUncounted \/ UNCHANGED countVars
  \/ SpinnerTick

LEMMA EveryStepMovesSpinner ==
  ASSUME [Next]_vars
  PROVE  SpinnerMoves
<1> USE DEF SpinnerMoves, countVars
<1>1. CASE UserStep
  BY <1>1 DEF UserStep, MoveCursor, ToggleFocus, OpenFilter, ConfirmFilter,
     CancelFilter, CloseFilter, ManualRefresh, ShowImages, FetchReply,
     ReplyFromHeader, Resize, Quit, TypeText, OpenEditor, AskConfirmation,
     LeaveComposer, ConfirmSend, DenySend
<1>2. CASE RefreshTick \/ SpinnerTick \/ MailArrives \/ UNCHANGED vars
  BY <1>2 DEF RefreshTick, MailArrives, vars
<1>3. ASSUME NEW s \in Slots, RefreshSyncs(s) \/ Delivery(s)
      PROVE  SpinnerMoves
  BY <1>3 DEF RefreshSyncs, Delivery, DebounceFires, DebounceIgnored,
     BodyLoaded, BodyStale, StaleSlotReleased, LoadFails, ImagesRendered,
     RefreshDone, RefreshKeepsList, RefreshCountOut, ReplyReady, EditorDone,
     EditorFails, SentMsg, SendFails, SendPanics
<1>4. QED  BY <1>1, <1>2, <1>3 DEF Next

\* A client that is busy shows it: the tick loop, which dies at every idle
\* moment, is always alive when something is in flight.
THEOREM SpinnerNeverDies == Spec => []SpinnerAlive
<1>1. Init => SpinnerAlive
  BY DEF Init, SpinnerAlive
<1>2. TypeOK /\ SpinnerAlive /\ [Next]_vars => SpinnerAlive'
  <2> SUFFICES ASSUME TypeOK, SpinnerAlive, [Next]_vars PROVE SpinnerAlive'
    OBVIOUS
  <2> USE DEF SpinnerAlive
  <2>1. CASE CountIn
    <3>1. inflight = 0 \/ spinning
      BY DEF TypeOK
    <3>2. QED  BY <2>1, <3>1 DEF CountIn
  <2>2. CASE CountOut \/ CountOutUncounted
    <3>1. inflight' > 0 => inflight > 0
      BY <2>2 DEF CountOut, CountOutUncounted, Released, TypeOK
    <3>2. UNCHANGED spinning
      BY <2>2 DEF CountOut, CountOutUncounted
    <3>3. QED  BY <3>1, <3>2
  <2>3. CASE UNCHANGED countVars
    BY <2>3 DEF countVars
  <2>4. CASE SpinnerTick
    BY <2>4 DEF SpinnerTick, SpinnerStops
  <2>5. QED
    BY <2>1, <2>2, <2>3, <2>4, EveryStepMovesSpinner DEF SpinnerMoves
<1>3. QED  BY TypeCorrect, <1>1, <1>2, PTL DEF Spec

------------------------------------------------------------------------------
(* Loads and their generations *)

\* Loads in flight carry distinct generations, none of them the displayed one.
LoadsInv ==
  /\ currentParsed.gen <= loadGen
  /\ failed <= loadGen
  /\ \A s \in Slots : task[s].kind = "load" =>
       /\ task[s].gen > 0
       /\ task[s].gen <= loadGen
       /\ task[s].gen # currentParsed.gen
       /\ \A t \in Slots :
            task[t].kind = "load" /\ task[t].gen = task[s].gen => s = t

\* A render in flight is of the displayed body or of an older one.
RendersInv ==
  \A s \in Slots : task[s].kind = "images" =>
    /\ task[s].gen <= loadGen
    /\ task[s].of.gen <= currentParsed.gen
    /\ task[s].of.gen = currentParsed.gen => task[s].of = currentParsed

LoadInv == /\ LoadsInv /\ RendersInv
           /\ NewestLoadAccounted /\ SettledOnLatestChoice /\ PaintedImagesMatch

PromiseStep == [Loader!Next]_<<loadGen, currentParsed.gen>>

\* The newest timer is left alone, or a newer one has taken its place.
LEMMA Undisturbed ==
  ASSUME TypeOK, LoadInv, UNCHANGED bodyVars,
         \A x \in Slots : task'[x].kind \in {"load", "images"} => task'[x] = task[x],
         \A x \in Slots : task[x].kind = "load" => task'[x] = task[x],
         \/ /\ UNCHANGED tickVars
            /\ \A x \in Slots : IsLatestTick(task[x]) => task'[x] = task[x]
         \/ \E x \in Slots : IsLatestTick(task[x])'
  PROVE  LoadInv' /\ PromiseStep
<1> USE DEF bodyVars, tickVars
<1>1. LoadsInv'
  BY DEF LoadInv, LoadsInv
<1>2. RendersInv'
  BY DEF LoadInv, RendersInv
<1>3. NewestLoadAccounted'
  <2>1. CASE \E s \in Running("load") : task[s].gen = loadGen
    <3>1. PICK s \in Slots : task[s].kind = "load" /\ task[s].gen = loadGen
      BY <2>1 DEF Running
    <3>2. task'[s] = task[s]
      BY <3>1
    <3>3. QED  BY <3>1, <3>2 DEF NewestLoadAccounted, Running
  <2>2. CASE ~(\E s \in Running("load") : task[s].gen = loadGen)
    BY <2>2 DEF LoadInv, NewestLoadAccounted
  <2>3. QED  BY <2>1, <2>2
<1>4. SettledOnLatestChoice'
  <2>1. CASE \E x \in Slots : IsLatestTick(task[x])'
    BY <2>1 DEF SettledOnLatestChoice
  <2>2. CASE /\ UNCHANGED tickVars
             /\ \A x \in Slots : IsLatestTick(task[x]) => task'[x] = task[x]
    <3> SUFFICES ASSUME \A s \in Slots : ~IsLatestTick(task[s])'
                 PROVE  (/\ \A s \in Running("load") :
                              task[s].gen = loadGen => task[s].key = loadPendingKey
                         /\ currentParsed.gen = loadGen
                              => currentParsed.key = loadPendingKey)'
      BY DEF SettledOnLatestChoice
    <3>1. \A s \in Slots : ~IsLatestTick(task[s])
      BY <2>2 DEF IsLatestTick
    <3>2. QED
      BY <2>2, <3>1 DEF LoadInv, SettledOnLatestChoice, Running
  <2>3. QED  BY <2>1, <2>2
<1>5. PaintedImagesMatch'
  BY DEF LoadInv, PaintedImagesMatch
<1>6. PromiseStep
  BY DEF PromiseStep
<1>7. QED  BY <1>1, <1>2, <1>3, <1>4, <1>5, <1>6 DEF LoadInv

\* Starting any other command, or ending one that is no load and no newest
\* timer, is such a step.
LEMMA StartUndisturbed ==
  ASSUME TypeOK, LoadInv, UNCHANGED <<bodyVars, tickVars>>,
         NEW s, NEW t, Start(s, t), t.kind \notin {"load", "images"}
  PROVE  LoadInv' /\ PromiseStep
<1>1. s \in Slots /\ task[s] = Idle /\ task' = [task EXCEPT ![s] = t]
  BY DEF Start, Free
<1>2. /\ \A x \in Slots : task'[x].kind \in {"load", "images"} => task'[x] = task[x]
      /\ \A x \in Slots : task[x].kind = "load" => task'[x] = task[x]
      /\ \A x \in Slots : IsLatestTick(task[x]) => task'[x] = task[x]
  BY <1>1 DEF TypeOK, IsLatestTick, Idle
<1>3. QED  BY <1>2, Undisturbed

LEMMA EndUndisturbed ==
  ASSUME TypeOK, LoadInv, UNCHANGED <<bodyVars, tickVars>>,
         NEW s \in Slots, End(s), task[s].kind # "load", ~IsLatestTick(task[s])
  PROVE  LoadInv' /\ PromiseStep
<1>1. /\ \A x \in Slots : task'[x].kind \in {"load", "images"} => task'[x] = task[x]
      /\ \A x \in Slots : task[x].kind = "load" => task'[x] = task[x]
      /\ \A x \in Slots : IsLatestTick(task[x]) => task'[x] = task[x]
  BY DEF TypeOK, IsLatestTick, Idle, End
<1>2. QED  BY <1>1, Undisturbed

LEMMA ScheduleUndisturbed ==
  ASSUME TypeOK, LoadInv, UNCHANGED bodyVars, NEW s \in Slots, NEW k \in Mail,
         NEW limit \in Nat, scheduleLoadUpTo(limit, s, k), task[s].kind # "load"
  PROVE  LoadInv' /\ PromiseStep
<1>1. task' = [task EXCEPT ![s] = [kind |-> "tick", key |-> k, gen |-> TickTag]]
  BY DEF scheduleLoadUpTo
<1>2. /\ \A x \in Slots : task'[x].kind \in {"load", "images"} => task'[x] = task[x]
      /\ \A x \in Slots : task[x].kind = "load" => task'[x] = task[x]
  BY <1>1 DEF TypeOK
<1>3. IsLatestTick(task[s])'
  <2>1. task'[s] = [kind |-> "tick", key |-> k, gen |-> TickTag]
    BY <1>1 DEF TypeOK
  <2>2. loadDebounceGen' = TickTag /\ loadPendingKey' = k
    BY DEF scheduleLoadUpTo, TickTag
  <2>3. QED  BY <2>1, <2>2 DEF IsLatestTick
<1>4. QED  BY <1>2, <1>3, Undisturbed

LEMMA FilterUndisturbed ==
  ASSUME TypeOK, LoadInv, UNCHANGED bodyVars, NEW hs \in SUBSET Mail, applyFilter(hs)
  PROVE  LoadInv' /\ PromiseStep
<1>1. CASE selected' = NoKey
  BY <1>1, Undisturbed DEF applyFilter
<1>2. CASE selected' # NoKey
  <2>1. selected' \in Mail
    BY <1>2, RebuildTyped DEF applyFilter
  <2>2. PICK s \in Free : scheduleLoad(s, selected')
    BY <1>2 DEF applyFilter
  <2>3. QED  BY <2>1, <2>2, ScheduleUndisturbed, BoundAssumption
    DEF scheduleLoad, Free, Idle
<1>3. QED  BY <1>1, <1>2

LEMMA LoadStep ==
  ASSUME TypeOK, LoadInv, [Next]_vars
  PROVE  LoadInv' /\ PromiseStep
<1> USE DEF listVars, countVars, tickVars, bodyVars, draftVars, mailVars
<1>1. CASE MoveCursor
  BY <1>1, ScheduleUndisturbed, BoundAssumption DEF scheduleLoad, MoveCursor, TypeOK, Free, Idle, Keys

<1>2. CASE ToggleFocus
  BY <1>2, Undisturbed DEF ToggleFocus

<1>3. CASE OpenFilter
  BY <1>3, Undisturbed DEF OpenFilter

<1>4. CASE ConfirmFilter
  BY <1>4, FilterUndisturbed DEF ConfirmFilter, TypeOK

<1>5. CASE CancelFilter
  BY <1>5, FilterUndisturbed DEF CancelFilter, TypeOK

<1>6. CASE CloseFilter
  BY <1>6, Undisturbed DEF CloseFilter

<1>7. CASE ManualRefresh
  <2>1. PICK s \in Slots : Start(s, NewRefresh(TRUE))
    BY <1>7 DEF ManualRefresh
  <2>2. QED  BY <1>7, <2>1, StartUndisturbed DEF ManualRefresh, NewRefresh

<1>8. CASE ShowImages
  <2> DEFINE render == [kind |-> "images", of |-> currentParsed, gen |-> loadGen]
  <2>1. PICK s \in Slots : Start(s, render)
    BY <1>8 DEF ShowImages
  <2>2. task[s] = Idle /\ task' = [task EXCEPT ![s] = render]
    BY <2>1 DEF Start, Free
  <2>3. /\ task'[s] = render
        /\ \A x \in Slots : x # s => task'[x] = task[x]
    BY <2>2 DEF TypeOK
  <2>4. UNCHANGED <<bodyVars, tickVars>>
    BY <1>8 DEF ShowImages
  <2>5. LoadsInv'
    BY <2>2, <2>3, <2>4 DEF LoadInv, LoadsInv, Idle
  <2>6. RendersInv'
    BY <2>3, <2>4 DEF LoadInv, RendersInv, TypeOK, Parsed
  <2>7. NewestLoadAccounted'
    BY <2>2, <2>3, <2>4 DEF LoadInv, NewestLoadAccounted, Running, Idle
  <2>8. SettledOnLatestChoice'
    <3>1. \A x \in Slots : IsLatestTick(task[x]) => IsLatestTick(task[x])'
      BY <2>2, <2>3, <2>4 DEF IsLatestTick, Idle
    <3>2. QED
      BY <2>2, <2>3, <2>4, <3>1 DEF LoadInv, SettledOnLatestChoice, Running, Idle
  <2>9. PaintedImagesMatch' /\ PromiseStep
    BY <2>4 DEF LoadInv, PaintedImagesMatch, PromiseStep
  <2>10. QED  BY <2>5, <2>6, <2>7, <2>8, <2>9 DEF LoadInv

<1>9. CASE FetchReply
  <2>1. PICK s \in Slots : Start(s, [kind |-> "reply", re |-> selected])
    BY <1>9 DEF FetchReply
  <2>2. QED  BY <1>9, <2>1, StartUndisturbed DEF FetchReply

<1>10. CASE ReplyFromHeader
  BY <1>10, Undisturbed DEF ReplyFromHeader

<1>11. CASE Resize
  BY <1>11, ScheduleUndisturbed, BoundAssumption DEF scheduleLoad, Resize, TypeOK, Free, Idle, Keys

<1>12. CASE Quit
  BY <1>12, Undisturbed DEF Quit

<1>13. CASE TypeText
  BY <1>13, Undisturbed DEF TypeText

<1>14. CASE OpenEditor
  <2>1. PICK s \in Slots : Start(s, [kind |-> "editor", draft |-> compose])
    BY <1>14 DEF OpenEditor
  <2>2. QED  BY <1>14, <2>1, StartUndisturbed DEF OpenEditor

<1>15. CASE AskConfirmation
  BY <1>15, Undisturbed DEF AskConfirmation

<1>16. CASE LeaveComposer
  BY <1>16, Undisturbed DEF LeaveComposer

<1>17. CASE ConfirmSend
  <2>1. PICK s \in Slots : Start(s, [kind |-> "send", draft |-> compose])
    BY <1>17 DEF ConfirmSend
  <2>2. QED  BY <1>17, <2>1, StartUndisturbed DEF ConfirmSend

<1>18. CASE DenySend
  BY <1>18, Undisturbed DEF DenySend

<1>19. CASE RefreshTick
  <2>1. PICK s \in Slots : Start(s, NewRefresh(FALSE))
    BY <1>19 DEF RefreshTick
  <2>2. QED  BY <1>19, <2>1, StartUndisturbed DEF RefreshTick, NewRefresh

<1>20. CASE SpinnerTick
  BY <1>20, Undisturbed DEF SpinnerTick

<1>21. CASE MailArrives
  BY <1>21, Undisturbed DEF MailArrives

<1>22. ASSUME NEW s \in Slots, RefreshSyncs(s) PROVE LoadInv' /\ PromiseStep
  <2> DEFINE t == [task[s] EXCEPT !.done = TRUE, !.headers = cached']
  <2>1. task[s] \in [kind : {"refresh"}, manual : BOOLEAN, done : BOOLEAN,
                     headers : SUBSET Mail]
    BY <1>22 DEF RefreshSyncs, TypeOK, Task, Idle
  <2>2. task' = [task EXCEPT ![s] = t] /\ t.kind = "refresh"
    BY <1>22, <2>1 DEF RefreshSyncs, TypeOK
  <2>3. /\ \A x \in Slots : task'[x].kind \in {"load", "images"} => task'[x] = task[x]
        /\ \A x \in Slots : task[x].kind = "load" => task'[x] = task[x]
        /\ \A x \in Slots : IsLatestTick(task[x]) => task'[x] = task[x]
    <3> HIDE DEF t
    <3>1. QED  BY <2>1, <2>2 DEF TypeOK, IsLatestTick
  <2>4. QED  BY <1>22, <2>3, Undisturbed DEF RefreshSyncs

<1>23. ASSUME NEW s \in Slots, DebounceFires(s) PROVE LoadInv' /\ PromiseStep
  <2> DEFINE load == [kind |-> "load", key |-> task[s].key, gen |-> LoadTag]
  <2>1. /\ task'[s] = load
        /\ \A x \in Slots : x # s => task'[x] = task[x]
    BY <1>23 DEF DebounceFires, TypeOK
  <2>2. /\ task[s].kind = "tick" /\ task[s].key = loadPendingKey
        /\ loadGen' = loadGen + 1 /\ LoadTag = loadGen + 1
        /\ UNCHANGED <<tickVars, currentParsed, imageBlobs, failed>>
    BY <1>23 DEF DebounceFires, IsLatestTick, LoadTag
  <2>3. \A x \in Slots : task[x].kind = "load" => task[x].gen \in Nat
    BY TaskFields DEF TypeOK
  <2>4. loadGen \in Nat /\ currentParsed.gen \in Nat /\ failed \in Nat
    BY DEF TypeOK, Parsed
  <2>5. LoadsInv'
    BY <2>1, <2>2, <2>3, <2>4 DEF LoadInv, LoadsInv
  <2>6. RendersInv'
    <3>1. \A x \in Slots : task[x].kind = "images" => task[x].gen \in Nat
      BY TaskFields DEF TypeOK
    <3>2. QED  BY <2>1, <2>2, <2>4, <3>1 DEF LoadInv, RendersInv
  <2>7. NewestLoadAccounted'
    BY <2>1, <2>2 DEF NewestLoadAccounted, Running
  <2>8. SettledOnLatestChoice'
    BY <2>1, <2>2, <2>3, <2>4 DEF LoadInv, LoadsInv, SettledOnLatestChoice, Running
  <2>9. PaintedImagesMatch'
    BY <2>2 DEF LoadInv, PaintedImagesMatch
  <2>10. PromiseStep
    BY <2>2 DEF PromiseStep, Loader!Next, Loader!Ask
  <2>11. QED  BY <2>5, <2>6, <2>7, <2>8, <2>9, <2>10 DEF LoadInv

<1>24. ASSUME NEW s \in Slots, DebounceIgnored(s) PROVE LoadInv' /\ PromiseStep
  BY <1>24, EndUndisturbed DEF DebounceIgnored, IsLatestTick

<1>25. ASSUME NEW s \in Slots, BodyLoaded(s) PROVE LoadInv' /\ PromiseStep
  <2>1. /\ task[s].kind = "load" /\ task[s].gen = loadGen
        /\ currentParsed' = [key |-> task[s].key, gen |-> loadGen]
        /\ imageBlobs' = NoBlobs
        /\ UNCHANGED <<tickVars, loadGen, failed>>
    BY <1>25 DEF BodyLoaded, IsNewestLoad, applyBody
  <2>2. /\ task'[s] = Idle
        /\ \A x \in Slots : x # s => task'[x] = task[x]
    BY <1>25 DEF BodyLoaded, End, TypeOK
  <2>3. /\ loadGen \in Nat /\ currentParsed.gen \in Nat
        /\ currentParsed.gen < loadGen
    BY <2>1 DEF LoadInv, LoadsInv, TypeOK, Parsed
  <2>4. currentParsed'.gen = loadGen /\ currentParsed'.key = task[s].key
    BY <2>1
  <2>5. LoadsInv'
    BY <2>1, <2>2, <2>3, <2>4 DEF LoadInv, LoadsInv, Idle
  <2>6. RendersInv'
    <3>1. \A x \in Slots : task[x].kind = "images" => task[x].of.gen \in Nat
      BY TaskFields DEF TypeOK, Parsed
    <3>2. QED  BY <2>1, <2>2, <2>3, <2>4, <3>1 DEF LoadInv, RendersInv, Idle
  <2>7. NewestLoadAccounted'
    BY <2>1, <2>4 DEF NewestLoadAccounted
  <2>8. SettledOnLatestChoice'
    <3>1. \A x \in Slots : IsLatestTick(task[x]) => IsLatestTick(task[x])'
      BY <2>1, <2>2 DEF IsLatestTick
    <3>2. QED
      BY <2>1, <2>2, <2>4, <3>1
      DEF LoadInv, SettledOnLatestChoice, Running, Idle
  <2>9. PaintedImagesMatch'
    BY <2>1 DEF PaintedImagesMatch, NoBlobs, NoBody
  <2>10. PromiseStep
    BY <2>1, <2>3, <2>4 DEF PromiseStep, Loader!Next, Loader!Show
  <2>11. QED  BY <2>5, <2>6, <2>7, <2>8, <2>9, <2>10 DEF LoadInv

<1>26. ASSUME NEW s \in Slots, BodyStale(s) PROVE LoadInv' /\ PromiseStep
  <2>1. /\ task[s].kind = "load" /\ task[s].gen # loadGen
        /\ UNCHANGED <<bodyVars, tickVars>>
    BY <1>26 DEF BodyStale, IsNewestLoad
  <2>2. /\ task'[s] = Idle
        /\ \A x \in Slots : x # s => task'[x] = task[x]
    BY <1>26 DEF BodyStale, End, TypeOK
  <2>3. LoadsInv' /\ RendersInv'
    BY <2>1, <2>2 DEF LoadInv, LoadsInv, RendersInv, Idle
  <2>4. NewestLoadAccounted'
    BY <2>1, <2>2 DEF LoadInv, NewestLoadAccounted, Running, Idle
  <2>5. SettledOnLatestChoice'
    <3>1. \A x \in Slots : IsLatestTick(task[x]) => IsLatestTick(task[x])'
      BY <2>1, <2>2 DEF IsLatestTick
    <3>2. QED
      BY <2>1, <2>2, <3>1 DEF LoadInv, SettledOnLatestChoice, Running, Idle
  <2>6. PaintedImagesMatch' /\ PromiseStep
    BY <2>1 DEF LoadInv, PaintedImagesMatch, PromiseStep
  <2>7. QED  BY <2>3, <2>4, <2>5, <2>6 DEF LoadInv

<1>27. ASSUME NEW s \in Slots, LoadFails(s) PROVE LoadInv' /\ PromiseStep
  <2>1. /\ task[s].kind = "load" /\ task[s].gen \in Nat /\ failed \in Nat
        /\ loadGen \in Nat /\ task[s].gen <= loadGen /\ failed <= loadGen
    BY <1>27, TaskFields DEF LoadFails, TypeOK, LoadInv, LoadsInv
  <2>2. /\ task'[s] = Idle
        /\ \A x \in Slots : x # s => task'[x] = task[x]
        /\ UNCHANGED <<tickVars, loadGen, currentParsed, imageBlobs>>
    BY <1>27 DEF LoadFails, End, TypeOK
  <2>3. /\ failed' <= loadGen
        /\ task[s].gen = loadGen => failed' = loadGen
        /\ failed = loadGen => failed' = loadGen
    BY <1>27, <2>1 DEF LoadFails
  <2>4. LoadsInv' /\ RendersInv'
    BY <2>2, <2>3 DEF LoadInv, LoadsInv, RendersInv, Idle
  <2>5. NewestLoadAccounted'
    BY <2>2, <2>3 DEF LoadInv, NewestLoadAccounted, Running, Idle
  <2>6. SettledOnLatestChoice'
    <3>1. \A x \in Slots : IsLatestTick(task[x]) => IsLatestTick(task[x])'
      BY <2>1, <2>2 DEF IsLatestTick
    <3>2. QED
      BY <2>1, <2>2, <3>1 DEF LoadInv, SettledOnLatestChoice, Running, Idle
  <2>7. PaintedImagesMatch' /\ PromiseStep
    BY <2>2 DEF LoadInv, PaintedImagesMatch, PromiseStep
  <2>8. QED  BY <2>4, <2>5, <2>6, <2>7 DEF LoadInv

<1>28. ASSUME NEW s \in Slots, ImagesRendered(s) PROVE LoadInv' /\ PromiseStep
  <2>1. /\ task[s].kind = "images" /\ task[s].of \in Parsed /\ task[s].gen \in Nat
        /\ UNCHANGED <<tickVars, loadGen, currentParsed, failed>>
    BY <1>28, TaskFields DEF ImagesRendered, TypeOK
  <2>2. /\ task'[s] = Idle
        /\ \A x \in Slots : x # s => task'[x] = task[x]
    BY <1>28 DEF ImagesRendered, End, TypeOK
  <2>3. LoadsInv' /\ RendersInv'
    BY <2>1, <2>2 DEF LoadInv, LoadsInv, RendersInv, Idle
  <2>4. NewestLoadAccounted'
    BY <2>1, <2>2 DEF LoadInv, NewestLoadAccounted, Running, Idle
  <2>5. SettledOnLatestChoice'
    <3>1. \A x \in Slots : IsLatestTick(task[x]) => IsLatestTick(task[x])'
      BY <2>1, <2>2 DEF IsLatestTick
    <3>2. QED
      BY <2>1, <2>2, <3>1 DEF LoadInv, SettledOnLatestChoice, Running, Idle
  <2>6. PaintedImagesMatch'
    <3>1. CASE Paints(task[s])
      <4>1. task[s].gen = loadGen /\ imageBlobs' = [of |-> task[s].of, tag |-> loadGen]
        BY <1>28, <3>1 DEF ImagesRendered, Paints
      <4>2. /\ task[s].of.gen <= currentParsed.gen
            /\ task[s].of.gen = currentParsed.gen => task[s].of = currentParsed
        BY <2>1 DEF LoadInv, RendersInv
      <4>3. /\ currentParsed.gen <= loadGen
            /\ currentParsed.gen \in Nat /\ loadGen \in Nat /\ task[s].of.gen \in Nat
        BY <2>1 DEF LoadInv, LoadsInv, TypeOK, Parsed
      <4>4. QED  BY <2>1, <4>1, <4>2, <4>3 DEF PaintedImagesMatch
    <3>2. CASE ~Paints(task[s])
      BY <1>28, <2>1, <3>2 DEF ImagesRendered, LoadInv, PaintedImagesMatch
    <3>3. QED  BY <3>1, <3>2
  <2>7. PromiseStep
    BY <2>1 DEF PromiseStep
  <2>8. QED  BY <2>3, <2>4, <2>5, <2>6, <2>7 DEF LoadInv

<1>29. ASSUME NEW s \in Slots, RefreshDone(s) PROVE LoadInv' /\ PromiseStep
  <2>1. task[s].headers \in SUBSET Mail /\ task[s].headers # {}
    BY <1>29, TaskFields DEF RefreshDone, TypeOK
  <2>2. selected' \in Mail
    BY <1>29, <2>1, FirstType DEF RefreshDone, rebuildList
  <2>3. CASE ReloadsBlankReader
    BY <1>29, <2>2, <2>3, ScheduleUndisturbed, BoundAssumption DEF RefreshDone
  <2>4. CASE ~ReloadsBlankReader
    BY <1>29, <2>4, EndUndisturbed DEF RefreshDone, IsLatestTick
  <2>5. QED  BY <2>3, <2>4

<1>30. ASSUME NEW s \in Slots, RefreshKeepsList(s) PROVE LoadInv' /\ PromiseStep
  BY <1>30, EndUndisturbed DEF RefreshKeepsList, IsLatestTick

<1>31. ASSUME NEW s \in Slots, ReplyReady(s) PROVE LoadInv' /\ PromiseStep
  BY <1>31, EndUndisturbed DEF ReplyReady, IsLatestTick

<1>32. ASSUME NEW s \in Slots, EditorDone(s) PROVE LoadInv' /\ PromiseStep
  BY <1>32, EndUndisturbed DEF EditorDone, IsLatestTick

<1>33. ASSUME NEW s \in Slots, EditorFails(s) PROVE LoadInv' /\ PromiseStep
  BY <1>33, EndUndisturbed DEF EditorFails, IsLatestTick

<1>34. ASSUME NEW s \in Slots, SentMsg(s) PROVE LoadInv' /\ PromiseStep
  BY <1>34, EndUndisturbed DEF SentMsg, IsLatestTick

<1>35. ASSUME NEW s \in Slots, SendFails(s) PROVE LoadInv' /\ PromiseStep
  BY <1>35, EndUndisturbed DEF SendFails, IsLatestTick

<1>36. ASSUME NEW s \in Slots, SendPanics(s) PROVE LoadInv' /\ PromiseStep
  BY <1>36, Undisturbed DEF SendPanics

<1>37. CASE UNCHANGED vars
  BY <1>37, Undisturbed DEF vars

<1>38. QED
  BY <1>1, <1>2, <1>3, <1>4, <1>5, <1>6, <1>7, <1>8, <1>9,
     <1>10, <1>11, <1>12, <1>13, <1>14, <1>15, <1>16, <1>17, <1>18,
     <1>19, <1>20, <1>21, <1>22, <1>23, <1>24, <1>25, <1>26, <1>27,
     <1>28, <1>29, <1>30, <1>31, <1>32, <1>33, <1>34, <1>35, <1>36,
     <1>37
  DEF Next, UserStep, Delivery

LEMMA LoadInvariant == Spec => [](TypeOK /\ LoadInv)
<1>1. Init => LoadInv
  <2> SUFFICES ASSUME Init PROVE LoadInv
    OBVIOUS
  <2>1. LoadsInv /\ RendersInv
    BY DEF Init, LoadsInv, RendersInv, NoBody, Idle
  <2>2. NewestLoadAccounted
    BY DEF Init, NewestLoadAccounted
  <2>3. SettledOnLatestChoice
    BY DEF Init, SettledOnLatestChoice, Running, NoBody, Idle
  <2>4. PaintedImagesMatch
    BY DEF Init, PaintedImagesMatch, NoBlobs, NoBody
  <2>5. QED  BY <2>1, <2>2, <2>3, <2>4 DEF LoadInv
<1>2. TypeOK /\ LoadInv /\ [Next]_vars => (TypeOK /\ LoadInv)'
  BY LoadStep, NextTyped
<1>3. QED  BY InitTyped, <1>1, <1>2, PTL DEF Spec

\* No load is dropped without a trace, however many overlap.
THEOREM NoLoadIsLost == Spec => []NewestLoadAccounted
<1>1. LoadInv => NewestLoadAccounted
  BY DEF LoadInv
<1>2. QED  BY LoadInvariant, <1>1, PTL

\* The reader settles on the last message scheduled, for any reordering of the
\* debounce timers and of the loads they start.
THEOREM ReaderSettles == Spec => []SettledOnLatestChoice
<1>1. LoadInv => SettledOnLatestChoice
  BY DEF LoadInv
<1>2. QED  BY LoadInvariant, <1>1, PTL

\* Images asked for while no newer body was loading are painted on their own
\* message only.
THEOREM ImagesStayWithTheirBody == Spec => []PaintedImagesMatch
<1>1. LoadInv => PaintedImagesMatch
  BY DEF LoadInv
<1>2. QED  BY LoadInvariant, <1>1, PTL

\* The loader implements LatestWins: its initial states are initial there, and
\* each of its steps asks, shows the newest answer, or stutters.
THEOREM LoaderImplementsLatestWins == Spec => LoaderKeepsPromise
<1>1. Init => Loader!Init
  BY DEF Init, Loader!Init, NoBody
<1>2. TypeOK /\ LoadInv /\ [Next]_vars => PromiseStep
  BY LoadStep
<1>3. QED
  BY LoadInvariant, <1>1, <1>2, PTL
  DEF Spec, PromiseStep, LoaderKeepsPromise, Loader!Spec
=============================================================================
