------------------------------- MODULE MCMailSend -------------------------------
(***************************************************************************)
(* A small instance of MailSend: me, in two spellings and with a display   *)
(* name; ann, with a display name and with one that has a comma; bob, who  *)
(* only ever gets blind copies.                                            *)
(***************************************************************************)
EXTENDS MailSend, TLC

CONSTANTS me, ME, meNamed, ann, annNamed, annComma, part1, part2, bob, garbled,
          Erick, Ann, Bob

MCAddress ==
  {me, ME, meNamed, ann, annNamed, annComma, part1, part2, bob, garbled}
MCPlain == {me, ME, ann, bob}
MCWho ==
  [t \in {me, ME, meNamed} |-> Erick] @@ [t \in {ann, annNamed, annComma} |-> Ann]
    @@ bob :> Bob @@ [t \in MCAddress |-> Nobody]
MCLower == ME :> me @@ [t \in MCAddress |-> t]
MCPieces == annComma :> <<part1, part2>> @@ [t \in MCAddress |-> <<t>>]
MCWritten == [t \in MCAddress |-> IF t \in MCPlain THEN t ELSE garbled]

MCTyped == {<<>>, <<ann>>}
MCBlinds == {<<>>, <<bob>>}
MCOpenings ==
  {[from |-> ann, to |-> <<ann, ME>>, cc |-> <<me>>],
   [from |-> annNamed, to |-> <<meNamed>>, cc |-> <<annComma, ann>>]}
=================================================================================
