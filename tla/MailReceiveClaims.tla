--------------------------- MODULE MailReceiveClaims ---------------------------
(***************************************************************************)
(* What a comment says of the receiving Lambda, and the code does not do:  *)
(* refuted by a configuration of its own.                                  *)
(***************************************************************************)
EXTENDS MCMailReceive

\* cmd/lambda/receive/main.go:3: "idempotent by the RFC 5322 Message-ID".  The
\* sort key begins with the second of receipt: the same message delivered again
\* in another second gets a second row.
OneRowPerMessageID ==
  \A b \in Mailbox, s, t \in SortKey :
    table[b][s] # None /\ table[b][t] # None /\ s[2] = t[2] => s = t
================================================================================
