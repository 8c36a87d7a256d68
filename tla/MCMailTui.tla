------------------------------ MODULE MCMailTui ------------------------------
(* Values of MailTui's constants for TLC: keys are numbers, larger is newer. *)
EXTENDS MailTui, FiniteSetsExt, TLC

MCMail2 == {1, 2}
MCNewest == [S \in (SUBSET Mail) \ {{}} |-> Max(S)]
MCAllImages == Mail
MCNothing == {}
MCOnlyOne == {1}
MCTexts == {"blank", "x"}
MCBrowseInputs == {"move", "focus", "filter", "images", "refresh", "resize"}
MCComposeInputs == {"move", "reply", "compose", "editor", "refresh"}
MCComposeQuitInputs == MCComposeInputs \cup {"quit"}
MCReplyInputs == {"move", "reply", "compose"}
MCLiveInputs == {"move", "focus", "filter", "resize"}

\* with AWS; and without: no reader, a nil sender, the cache of an earlier session
MCWired == {[reader |-> TRUE, cache |-> TRUE, sender |-> "live"]}
MCUnwired == {[reader |-> FALSE, cache |-> TRUE, sender |-> "nilptr"]}
MCNoSender == {[reader |-> TRUE, cache |-> TRUE, sender |-> "nilptr"]}
MCBoth == MCWired \cup MCUnwired

\* A client that quit or panicked stops; no other one does.
Ended == ~Up /\ UNCHANGED vars
MCSpec == Init /\ [][Next \/ Ended]_vars

SlotSymmetry == Permutations(Slots)
==============================================================================
