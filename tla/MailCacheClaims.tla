---------------------------- MODULE MailCacheClaims ----------------------------
(***************************************************************************)
(* What comments and documents say of the cache, and the code does not do: *)
(* each of these is refuted by a run or a configuration of its own.        *)
(***************************************************************************)
EXTENDS MCMailCache

\* internal/cache/sync.go:14-16: "search/list must see the full local history".
\* The upsert moves a message that two mailboxes received to whichever synced
\* last: it leaves the history of the other.
FullHistoryIsKept ==
  [][\A m \in Mailbox :
       Listed(m) \subseteq
         {k \in Key : db'.headers[k] # None /\ db'.headers[k].pk = m}]_vars

\* docs/superpowers/specs/2026-07-01-mail-v0.5-cache-design.md:92: last_sk is
\* "el sk mas reciente visto" (the most recent sk seen).  A Sync that listed
\* earlier and commits later puts it back.
LastSkIsNewestSeen ==
  [][\A m \in Mailbox : db'.last_sk[m] >= db.last_sk[m]]_vars

\* cmd/mail/main.go:160: "warning: cache sync %s failed (%v); using live".
\* `mail ls` goes on to list the cache.
FailedLsUsesLive ==
  [][\A j \in Job :
       At(j, "failed") /\ Command[j] = "ls" /\ job'[j].at = "done"
         => job'[j].shown = DOMAIN List(MailboxOf[j])]_vars

\* docs/v0.5-CACHE.md:203-206, of two commands at once "la segunda continúa sin
\* error visible": it waits for its turn to write.  A Sync that read before the
\* other committed has an outdated snapshot, which no waiting renews.
SecondWaitsItsTurn ==
  \A j \in Job :
    job[j].at \in {"delete", "upsert", "insert", "state"} /\ writer = NoJob
      => MayWrite(j)
================================================================================
