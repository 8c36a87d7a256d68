------------------------------ MODULE MCMailReader ------------------------------
(***************************************************************************)
(* A small instance of MailReader: every message of up to three links to   *)
(* three pages, or two items of other kinds, and some longer ones.         *)
(***************************************************************************)
EXTENDS MailReader, TLC

CONSTANTS a, b, c, mailto

MCUrlLen == a :> 9 @@ b :> 30 @@ c :> 4 @@ mailto :> 5

Links == {Link(a, <<3>>), Link(b, <<2, 14>>), Link(c, <<12>>)}
Others ==
  {Text(<<5, 13>>), Image("cid"), Image("remote"), Image("data"), Link(mailto, <<2>>)}
MCDoc ==
  UNION {[1 .. n -> Links] : n \in 0 .. 3} \cup
  UNION {[1 .. n -> Others] : n \in 1 .. 2} \cup
  {<<Link(a, <<3>>), Link(b, <<2, 14>>), Link(c, <<12>>), link>> : link \in Links} \cup
  {<<Image("remote"), Text(<<13>>), Link(a, <<3>>), Link(mailto, <<2>>), Link(b, <<2>>)>>,
   <<Link(c, <<0>>)>>}   \* around an image: without words
MCBroken == {<<Text(<<1>>)>>}
MCAll == MCDoc \cup MCBroken
=================================================================================
