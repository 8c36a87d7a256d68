----------------------------- MODULE CachePromise -----------------------------
(***************************************************************************)
(* What cache.Sync promises (internal/cache/sync.go): a listing that was   *)
(* taken from DynamoDB is installed on top of the rows of the cache as a   *)
(* whole, at one instant, or not at all; nothing else changes the rows.    *)
(***************************************************************************)
CONSTANTS Key, None
VARIABLES rows,     \* rows[k]: the cached header of S3Key k, or None
          offered   \* the listings that were taken and not yet given up

Overlay(page) ==
  [k \in Key |-> IF k \in DOMAIN page.text
                 THEN [pk |-> page.mailbox, text |-> page.text[k]]
                 ELSE rows[k]]

Install == \E page \in offered : rows' = Overlay(page)
Listing == UNCHANGED rows

Init == rows = [k \in Key |-> None] /\ offered = {}
Spec == Init /\ [][Install \/ Listing]_<<rows, offered>>
===============================================================================
