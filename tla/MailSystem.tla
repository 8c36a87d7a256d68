------------------------------- MODULE MailSystem -------------------------------
(***************************************************************************)
(* From SES to the local cache: MailReceive and MailCache put together.    *)
(* They share the DynamoDB table, which the Lambda writes row by row and   *)
(* reader.List reads, and the S3Keys that a row and a cached header carry. *)
(* A message is its S3Key, a number; a row that MailReceive keeps under    *)
(* <<mailbox, sort key>> is what MailCache calls index[mailbox][S3Key].    *)
(***************************************************************************)
EXTENDS MailReceive

CONSTANTS Job, Process, ProcessOf, MailboxOf, Command, PageLimit, NoJob,
          TextOf   \* TextOf[m]: sender and subject of m, from its headers

ASSUME OrderAssumption ==
  /\ Message \subseteq Nat \ {0} /\ Second \subseteq Nat
  /\ \A m, n \in Message : Received[m] < Received[n] => m < n

VARIABLES db, writer, conn, job
receiving == <<stored, event, table, dlq, env>>
caching == <<db, writer, conn, job>>
systemVars == <<stored, event, table, dlq, env, db, writer, conn, job>>

\* What a Query for pk = m returns of the row that the handler put for a message.
RowOf(b, m) == IF table[b][SK(m)] = m THEN TextOf[m] ELSE None

\* The recipients a message can be indexed for.
Mailboxes(m) == {Lower[a] : a \in {r \in ToSet(Recipients[m]) : InDomain(r)}}

Texts == {TextOf[m] : m \in Message}

ASSUME SystemAssumption ==
  /\ IsFiniteSet(Message) /\ IsFiniteSet(Mailbox)
  /\ None \notin Texts \cup [pk : Mailbox, text : Texts]
  /\ ProcessOf \in [Job -> Process] /\ MailboxOf \in [Job -> Mailbox]
  /\ Command \in [Job -> {"refresh", "ls", "search"}]
  /\ NoJob \notin Job /\ PageLimit \in Nat \ {0}

Cache == INSTANCE MailCache WITH
  Key <- Message, Text <- Texts,
  Recipients <- [m \in Message |-> Mailboxes(m)],
  index <- [b \in Mailbox |-> [m \in Message |-> RowOf(b, m)]]

SystemInit == Init /\ Cache!Init

\* No one puts a row again with another text: MailCache's Rewrite has no source.
ClientStep(j) ==
  \/ Cache!ListPage(j) \/ Cache!ListFails(j) \/ Cache!SyncStep(j)
  \/ Cache!Rollback(j) \/ Cache!ShowList(j) \/ Cache!ShowSearch(j)
  \/ Cache!RefreshGivesUp(j) \/ Cache!Finish(j)

Receive == Next /\ UNCHANGED caching
Client(j) == UNCHANGED receiving /\ ClientStep(j)
ClientCrash(p) == UNCHANGED receiving /\ Cache!Crash(p)

SystemNext ==
  \/ Receive
  \/ \E j \in Job : Client(j)
  \/ \E p \in Process : ClientCrash(p)

SystemSpec == SystemInit /\ [][SystemNext]_systemVars

\* SES runs its second action after its first, a queued event is picked up, and an
\* invocation ends; it may fail every time, since its retries end.  The clients'
\* disk and network work from some time on; mail-tui refreshes again with every
\* tick of 30s, but the user runs `mail` a finite number of times.
Proceeds(j) ==
  /\ UNCHANGED receiving
  /\ Cache!Proceed(j)
  /\ Command[j] # "refresh" => job[j].at # "idle"
FairSystemSpec ==
  /\ SystemSpec
  /\ \A m \in Message :
       /\ WF_systemVars(UNCHANGED caching /\ \E c \in Copy : InvokeAsync(m, c))
       /\ \A c \in Copy :
            SF_systemVars(UNCHANGED caching /\
                          \E e \in Environment : Begin(e, m, c))
  /\ \A e \in Environment :
       WF_systemVars(UNCHANGED caching /\
                     (PutItem(e) \/ ReturnsNil(e) \/ ReturnsError(e)))
  /\ \A j \in Job : WF_systemVars(Proceeds(j))
  /\ <>[][Receive \/ \E j \in Job : Proceeds(j)]_systemVars

------------------------------------------------------------------------------
(* Properties *)

\* What the Lambda does to the table is what MailCache takes for granted of it:
\* rows appear one at a time, for recipients of the message only, with the text
\* of the message, and never go; retries, duplicates and collisions included.
SystemCaches == Cache!Spec

\* A header that the cache shows can be opened, and stands for a row of the
\* mailbox it is shown in, at any moment of any delivery, Sync or crash.
ListedCanBeOpened ==
  /\ \A m \in Message : db.headers[m] # None =>
       /\ m \in stored
       /\ table[db.headers[m].pk][SK(m)] = m
  /\ \A j \in Job : job[j].shown \subseteq stored

\* Another message took the sort key of m in one of its mailboxes.
Displaced(m) == \E b \in Mailboxes(m) : table[b][SK(m)] \notin {m, None}

\* PageLimit newer rows are in the mailbox: no Sync lists m any more.
PushedOut(m) ==
  \E b \in Mailboxes(m) :
    Cardinality({n \in Message : n > m /\ table[b][SK(n)] = n}) >= PageLimit

\* A message that SES stored for a mailbox that some job watches is in the cache
\* at last, or in the dead-letter queue, whatever Lambda retries and whatever
\* jobs fail before the clients' machine settles; but for a message of the same
\* second and Message-ID, and a page of newer ones.
StoredEndsCachedOrParked ==
  \A m \in Message :
    (m \in stored /\ \E j \in Job : MailboxOf[j] \in Mailboxes(m)) ~>
      (db.headers[m] # None \/ m \in dlq \/ Displaced(m) \/ PushedOut(m))
================================================================================
