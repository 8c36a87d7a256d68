------------------------------ MODULE MCMailAgent ------------------------------
(***************************************************************************)
(* Small instances of MailAgent.  The widths are scaled down: an int32 has  *)
(* 3 bits and an int 4; the limits keep the order of 50, 500 and 1000.      *)
(***************************************************************************)
EXTENDS MailAgent, TLC

MCTools == {"list_messages", "read_message", "search_messages", "other"}

\* In halves: 5, more than the clamp and than an int32; 9, more than an int.
MCHalves == {10, 18}
\* And 0.5, which the conversion makes 0.
MCAndHalf == MCHalves \cup {1}
MCKeys == {1, 2}

\* Of "old", FTS and strings.Contains find message 1, FTS alone 2; of "new",
\* strings.Contains alone finds 1, neither 2.  Every subject contains the blank.
MCPhrase == ("old" :> {1, 2}) @@ ("new" :> {}) @@ ("blank" :> {})
MCSubstring == ("old" :> {1}) @@ ("new" :> {1}) @@ ("blank" :> MCKeys)
MCQueries == DOMAIN MCPhrase
===============================================================================
