----------------------------- MODULE MCMailCache -----------------------------
(***************************************************************************)
(* Small instances of MailCache.                                           *)
(***************************************************************************)
EXTENDS MailCache, TLC

CONSTANTS j1, j2, j3, tui, cli, inbox, work

MCTwoKeys == {1, 2}
MCOneKey == {1}
MCInInbox == [k \in Key |-> {inbox}]
MCOneShared == [k \in Key |-> IF k = 1 THEN {inbox, work} ELSE {inbox}]

\* mail-tui and a command of mail, both on inbox
MCTwoProcesses == j1 :> tui @@ j2 :> cli
MCBothInbox == j1 :> inbox @@ j2 :> inbox
MCRefreshLs == j1 :> "refresh" @@ j2 :> "ls"

\* mail-tui on inbox, and a search of work
MCInboxWork == j1 :> inbox @@ j2 :> work
MCRefreshSearch == j1 :> "refresh" @@ j2 :> "search"

\* two overlapping refreshes of one mail-tui, and `mail ls`, all on inbox
MCOneTui == j1 :> tui @@ j2 :> tui @@ j3 :> cli
MCAllInbox == j1 :> inbox @@ j2 :> inbox @@ j3 :> inbox
MCRefreshesLs == j1 :> "refresh" @@ j2 :> "refresh" @@ j3 :> "ls"
==============================================================================
