---------------------------- MODULE MailTuiClaims ----------------------------
(***************************************************************************)
(* What the comments, documents and tests of cmd/mail-tui say of it, and   *)
(* the event loop of MailTui does not do.  Each property is refuted by a   *)
(* run or a configuration of its own; the trace is the interleaving that   *)
(* breaks the claim.                                                       *)
(***************************************************************************)
EXTENDS MCMailTui

\* model.go:216-217, "the refresh never yanks the list out from under an active
\* interaction": the filter the user is typing in is closed by the user alone.
RefreshLeavesFilterAlone ==
  [][filtering /\ ~filtering' => UserStep]_vars

\* model.go:332, a render whose user has navigated away is discarded, "don't
\* paint old images on the new body".
ImagesMatchBody ==
  imageBlobs.of.key # NoKey => imageBlobs.of = currentParsed

\* composer.go:51-53, sentMsg clears confirming and the draft, "otherwise a
\* later 'y' would re-send": while the prompt is up, its draft is being sent at
\* most once.
OneSendPerDraft ==
  confirming =>
    \A s, t \in Running("send") :
      task[s].draft = compose /\ task[t].draft = compose => s = t

\* model.go:49, "async ops in flight; spinner shows while > 0": while a load, a
\* render or a manual refresh is unanswered, inflight is not 0.
BusyIsCounted == Counted # {} => inflight > 0

\* model.go:139, the editor "carries the edited draft back": its text goes into
\* the draft it was opened on.
EditorReturnsToItsDraft ==
  [][\A s \in Slots : EditorDone(s) => task[s].draft.re = compose.re]_vars

\* model.go:185, the filter "preserves the current selection by S3Key (B-1) when
\* the selected message survives": a filter opened and cancelled leaves the
\* cursor where it was.
CancelledFilterKeepsSelection ==
  [][CancelFilter /\ anchor \in items' => selected' = anchor]_vars

\* main.go:69-70, "live operations will fail gracefully when attempted".
FailsGracefully == program # "panic"

\* composer.go:94, Ctrl-S is the security control that a draft must pass: the
\* draft 'y' hands to the sender is the draft that was confirmed.
OnlyConfirmedDraftsAreSent ==
  [][\A s \in Slots :
       task[s].kind # "send" /\ task'[s].kind = "send"
         => task'[s].draft = approved]_vars
==============================================================================
