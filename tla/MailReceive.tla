------------------------------ MODULE MailReceive ------------------------------
(***************************************************************************)
(* Receiving mail: the receipt rule of internal/infra/receiving_stack.go   *)
(* and the Lambda of cmd/lambda/receive.  SES writes the raw message to S3 *)
(* and then invokes the Lambda asynchronously; the handler puts one row    *)
(* per recipient of the domain into DynamoDB, unless the row is there.  An *)
(* invocation that fails, times out or dies is retried by Lambda, at most  *)
(* Retries times, and then its event goes to the dead-letter queue; Lambda *)
(* may also run one event twice.  Several execution environments run the   *)
(* handler at once, each with its own once-only initialisation.            *)
(*                                                                         *)
(* A message is its SES id, which is also its S3 key; the sort key is the  *)
(* second it was received in and the Message-ID its sender gave it.        *)
(***************************************************************************)
EXTENDS Naturals, Sequences, SequencesExt

CONSTANTS
  Message,     \* SES message ids
  Second, MessageID,
  Received,    \* Received[m]: mail.Timestamp, to the second
  RfcID,       \* RfcID[m]: the Message-ID header, chosen by the sender
  Address,     \* envelope recipients, as they were typed
  Recipients,  \* Recipients[m]: the sequence of them in the receipt
  Lower,       \* Lower[a]: the address in lower case
  Domain,      \* the lower-case addresses that end in "@" + domain
  Environment, \* Lambda execution environments
  Copy,        \* deliveries of one event (a bound on Lambda's duplicates)
  Retries,     \* RetryAttempts
  None

Mailbox == {Lower[a] : a \in Address}

ASSUME MessageAssumption ==
  /\ Received \in [Message -> Second]
  /\ RfcID \in [Message -> MessageID]
  /\ Recipients \in [Message -> Seq(Address)]
  /\ Domain \subseteq Mailbox
ASSUME RetryAssumption == Retries \in Nat
ASSUME NoneAssumption == None \notin Message

VARIABLES
  stored,  \* the objects of the S3 bucket
  event,   \* event[m][c]: a copy of the invocation event of m
  table,   \* table[b][sk]: the s3Key of a row of mailbox b, or None
  dlq,     \* events that ran out of retries
  env      \* env[e]: what execution environment e is doing
vars == <<stored, event, table, dlq, env>>

------------------------------------------------------------------------------
SortKey == Second \X MessageID
SK(m) == <<Received[m], RfcID[m]>>

\* itemsForMessage: one item for each recipient of the domain, by its position
\* among the recipients.
InDomain(a) == Lower[a] \in Domain
itemsUnfiltered(m) == DOMAIN Recipients[m]
itemsForMessage(m) == {i \in DOMAIN Recipients[m] : InDomain(Recipients[m][i])}
MailboxOfItem(m, i) == Lower[Recipients[m][i]]

NoEvent == [at |-> "none", failures |-> 0]
Queued == [at |-> "queued", failures |-> 0]

\* The clients of an environment: not built, built, or (initErr) broken.
Cold == [clients |-> "unset", msg |-> None, copy |-> None, todo |-> {}]
Free(e) == env[e].msg = None
Running(e) == env[e].msg # None
NextItem(e) == Min(env[e].todo)
Item(e) == MailboxOfItem(env[e].msg, NextItem(e))

Init ==
  /\ stored = {}
  /\ event = [m \in Message |-> [c \in Copy |-> NoEvent]]
  /\ table = [b \in Mailbox |-> [sk \in SortKey |-> None]]
  /\ dlq = {}
  /\ env = [e \in Environment |-> Cold]

------------------------------------------------------------------------------
(* The receipt rule: the S3 action, then the Lambda action *)

StoreRaw(m) ==
  /\ m \notin stored
  /\ stored' = stored \cup {m}
  /\ UNCHANGED <<event, table, dlq, env>>

InvokesAtOnce(m) == TRUE
InvokesAfterStore(m) == m \in stored

InvokeAsync(m, c) ==
  /\ InvokesAfterStore(m)
  /\ \A d \in Copy : event[m][d] = NoEvent
  /\ event' = [event EXCEPT ![m][c] = Queued]
  /\ UNCHANGED <<stored, table, dlq, env>>

\* Lambda delivers an event at least once.
Duplicate(m, c) ==
  /\ event[m][c] = NoEvent /\ \E d \in Copy : event[m][d] # NoEvent
  /\ event' = [event EXCEPT ![m][c] = Queued]
  /\ UNCHANGED <<stored, table, dlq, env>>

------------------------------------------------------------------------------
(* The handler *)

\* once.Do(initClients), whose error is kept for the life of the environment.
Begin(e, m, c) ==
  /\ Free(e) /\ event[m][c].at = "queued"
  /\ event' = [event EXCEPT ![m][c].at = "running"]
  /\ \E made \in IF env[e].clients = "unset" THEN {"built", "broken"}
                 ELSE {env[e].clients} :
       env' = [env EXCEPT ![e] =
         [clients |-> made, msg |-> m, copy |-> c,
          todo |-> itemsForMessage(m)]]
  /\ UNCHANGED <<stored, table, dlq>>

Works(e) == Running(e) /\ env[e].clients = "built"

\* attribute_not_exists(SK): the condition of PutItem.
Overwrites(b, sk) == TRUE
Vacant(b, sk) == table[b][sk] = None

PutRow(e) ==
  table' = IF Vacant(Item(e), SK(env[e].msg))
           THEN [table EXCEPT ![Item(e)][SK(env[e].msg)] = env[e].msg]
           ELSE table

\* A row is put, or ConditionalCheckFailed: on to the next recipient.
PutItem(e) ==
  /\ Works(e) /\ env[e].todo # {}
  /\ PutRow(e)
  /\ env' = [env EXCEPT ![e].todo = @ \ {NextItem(e)}]
  /\ UNCHANGED <<stored, event, dlq>>

\* The invocation is over; the environment stays warm.
Rest(e) == [env EXCEPT ![e] = [Cold EXCEPT !.clients = env[e].clients]]

ReturnsNil(e) ==
  /\ Works(e) /\ env[e].todo = {}
  /\ event' = [event EXCEPT ![env[e].msg][env[e].copy].at = "done"]
  /\ env' = Rest(e)
  /\ UNCHANGED <<stored, table, dlq>>

\* Lambda's reaction to a failed invocation: retry, or the OnFailure queue.
TakesForDone(m, c) ==
  /\ event' = [event EXCEPT ![m][c].at = "done"]
  /\ UNCHANGED dlq
RetriesOnceTooOften(m, c) ==
  IF event[m][c].failures <= Retries
  THEN /\ event' = [event EXCEPT ![m][c] =
                      [at |-> "queued", failures |-> @.failures + 1]]
       /\ UNCHANGED dlq
  ELSE /\ event' = [event EXCEPT ![m][c].at = "dead"]
       /\ dlq' = dlq \cup {m}
DropsEvent(m, c) ==
  /\ event' = [event EXCEPT ![m][c].at = "dead"]
  /\ UNCHANGED dlq
OnFailure(m, c) ==
  IF event[m][c].failures < Retries
  THEN /\ event' = [event EXCEPT ![m][c] =
                      [at |-> "queued", failures |-> @.failures + 1]]
       /\ UNCHANGED dlq
  ELSE /\ event' = [event EXCEPT ![m][c].at = "dead"]
       /\ dlq' = dlq \cup {m}

\* initErr, or PutItem failed: nothing of this item was written ...
ReturnsError(e) ==
  /\ Running(e)
  /\ env[e].clients = "broken" \/ env[e].todo # {}
  /\ OnFailure(env[e].msg, env[e].copy)
  /\ env' = Rest(e)
  /\ UNCHANGED <<stored, table>>

\* ... or the row was written and only its answer was lost.
AnswerLost(e) ==
  /\ Works(e) /\ env[e].todo # {}
  /\ PutRow(e)
  /\ OnFailure(env[e].msg, env[e].copy)
  /\ env' = Rest(e)
  /\ UNCHANGED stored

\* The 30s timeout, or the environment dies: the next one starts cold.
Dies(e) ==
  /\ env[e] # Cold
  /\ IF Running(e) THEN OnFailure(env[e].msg, env[e].copy)
     ELSE UNCHANGED <<event, dlq>>
  /\ env' = [env EXCEPT ![e] = Cold]
  /\ UNCHANGED <<stored, table>>

Handler(e) ==
  \/ PutItem(e) \/ ReturnsNil(e) \/ ReturnsError(e) \/ AnswerLost(e) \/ Dies(e)

Next ==
  \/ \E m \in Message : StoreRaw(m)
  \/ \E m \in Message, c \in Copy : InvokeAsync(m, c) \/ Duplicate(m, c)
  \/ \E e \in Environment, m \in Message, c \in Copy : Begin(e, m, c)
  \/ \E e \in Environment : Handler(e)

Spec == Init /\ [][Next]_vars

------------------------------------------------------------------------------
(* Properties *)

TypeOK ==
  /\ stored \subseteq Message
  /\ event \in [Message -> [Copy ->
       [at : {"none", "queued", "running", "done", "dead"},
        failures : 0 .. Retries]]]
  /\ table \in [Mailbox -> [SortKey -> Message \cup {None}]]
  /\ dlq \subseteq Message
  /\ \A e \in Environment :
       /\ env[e].clients \in {"unset", "built", "broken"}
       /\ env[e].msg \in Message \cup {None}
       /\ env[e].copy \in Copy \cup {None}
       /\ env[e].todo \subseteq IF Running(e) THEN itemsForMessage(env[e].msg) ELSE {}

Finished(m) == \E c \in Copy : event[m][c].at = "done"

\* The handler answered nil for a message only if every recipient of the domain
\* has a row under its sort key, over any number of failed, half-done and
\* duplicated invocations before; and it is the message's own row, unless
\* another message came with its Message-ID in the same second.
FinishedIsIndexed ==
  \A m \in Message : Finished(m) =>
    \A a \in ToSet(Recipients[m]) : InDomain(a) =>
      LET row == table[Lower[a]][SK(m)] IN
      /\ row # None
      /\ row # m => \E n \in Message \ {m} : row = n /\ SK(n) = SK(m)

\* What a client lists it can open: the raw message of every row is in S3.
RowsCanBeOpened ==
  \A b \in Mailbox, sk \in SortKey : table[b][sk] # None => table[b][sk] \in stored

\* A retry, a duplicate or a colliding message never replaces a row: what was
\* listed once keeps pointing to the same object.
RowsAreNeverReplaced ==
  [][\A b \in Mailbox, sk \in SortKey :
       table[b][sk] # None => table'[b][sk] = table[b][sk]]_vars
================================================================================
