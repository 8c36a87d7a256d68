----------------------------- MODULE MCMailCommands -----------------------------
(***************************************************************************)
(* A small instance of MailCommands: three messages, the middle one sent   *)
(* to both mailboxes of the configuration.                                 *)
(***************************************************************************)
EXTENDS MailCommands, TLC

CONSTANT work

MCRecipients == 1 :> {inbox} @@ 2 :> {inbox, work} @@ 3 :> {inbox}
MCConfigured == <<inbox, work>>
\* In place of an int32 there are the numbers -4 .. 3.
MCCount == {-1, 0, 1, 2, 3, 9}
MCQuery == {{2}, {1, 3}}

\* "Number of messages to list" (main.go:119): if each mailbox answered, and nobody
\* took a message from the cache meanwhile, `mail ls` leaves a message out only when
\* it shows --count messages.
DistinctMessagesAreShown ==
  ( /\ Printed("ls") /\ EveryMailboxAnswered
    /\ cmd.count \in 0 .. PageLimit /\ then.moved = {} ) =>
    \A k \in Known \ Shown : Cardinality(Shown) = cmd.count
=================================================================================
