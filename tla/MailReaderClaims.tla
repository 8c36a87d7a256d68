--------------------------- MODULE MailReaderClaims ---------------------------
(***************************************************************************)
(* What comments say of the reader pane, and the code does not do: each of *)
(* these is refuted under ClaimReader.cfg.                                 *)
(***************************************************************************)
EXTENDS MCMailReader, FiniteSets

\* cmd/mail-tui/model.go:591, images are attached again "so showImages mode doesn't
\* go blank": once painted, they stay until another message is loaded.  'R' makes
\* the body again without them.
ImagesStay ==
  [][viewport.images /\ ~viewport'.images => rawHTML' # rawHTML \/ ~showImages']_vars

\* internal/message/links.go:41, dropped is the number of "distinct http/https
\* hrefs rejected by the cap".  Each occurrence is counted.
DroppedAreDistinct ==
  Rich => Out.overflow + Len(Out.links) = Cardinality(WebHrefs(currentParsed))
===============================================================================
