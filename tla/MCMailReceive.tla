----------------------------- MODULE MCMailReceive -----------------------------
(***************************************************************************)
(* Small instances of MailReceive.                                         *)
(***************************************************************************)
EXTENDS MailReceive, TLC

CONSTANTS m1, m2, alice, Alice, bob, outside, id1, id2

MCLower == Alice :> alice @@ [a \in {alice, bob, outside} |-> a]
MCDomain == {alice, bob}

\* m2 is m1 sent again: within the same second, or in another
MCAlways == [m \in Message |-> 1]
MCApart == m1 :> 1 @@ m2 :> 2
MCSameID == [m \in Message |-> id1]

MCBothAndOutside ==
  [m \in Message |-> IF m = m1 THEN <<alice, outside, bob>> ELSE <<Alice, alice>>]
MCOneRecipient == [m \in Message |-> <<alice>>]
================================================================================
