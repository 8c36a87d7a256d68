----------------------------- MODULE LatestWins -----------------------------
(***************************************************************************)
(* What a reader pane promises about the bodies it loads in the            *)
(* background: requests are numbered as they are asked, an answer may be   *)
(* lost or come late, and what is shown only ever changes to the answer of *)
(* the newest request.  cmd/mail-tui keeps this promise with loadGen.      *)
(***************************************************************************)
EXTENDS Naturals

VARIABLES asked, shown

Init == asked = 0 /\ shown = 0

Ask == asked' = asked + 1 /\ UNCHANGED shown

Show == shown # asked /\ shown' = asked /\ UNCHANGED asked

Next == Ask \/ Show

Spec == Init /\ [][Next]_<<asked, shown>>
==============================================================================
