---------------------------- MODULE MailSendClaims ----------------------------
(***************************************************************************)
(* What the documents say of writing mail, and the code does not do: each  *)
(* of these is refuted under ClaimSend.cfg.                                *)
(***************************************************************************)
EXTENDS MCMailSend

\* README.md:144, "Reply-all pre-fills the Cc with the original recipients minus
\* self".  The comparison is of whole texts: a recipient with a display name is
\* not the bare address of the user.
ReplyAllLeavesSelfOut ==
  cmd.at = "edit" /\ cmd.opts.all /\ cmd.opts.from # None =>
    Me \notin Reaches(cmd.opts.cc)

\* internal/message/build.go:50-51, "All address fields (From, To, Cc, Bcc) accept
\* plain addr-spec only".  A reply hands Build the From header as it is.
BuildGetsPlainAddresses ==
  cmd.at = "build" => \A t \in ToSet(cmd.opts.to) : t \in Plain
===============================================================================
