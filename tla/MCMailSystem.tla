------------------------------ MODULE MCMailSystem ------------------------------
(***************************************************************************)
(* A small instance of MailSystem: message 1 goes to two mailboxes, message *)
(* 2 to one of them.                                                        *)
(***************************************************************************)
EXTENDS MailSystem, TLC

CONSTANTS alice, Alice, bob, outside, id1, j1, tui, a

MCLower == Alice :> alice @@ [x \in {alice, bob, outside} |-> x]
MCDomain == {alice, bob}
MCReceived == <<1, 2>>
MCSameID == <<id1, id1>>
MCRecipients == <<<<alice, outside, bob>>, <<Alice>>>>
MCTextOf == <<a, a>>

\* mail-tui refreshes alice, in one process
MCOneProcess == [j \in Job |-> tui]
MCAlice == [j \in Job |-> alice]
MCRefresh == [j \in Job |-> "refresh"]
=================================================================================
