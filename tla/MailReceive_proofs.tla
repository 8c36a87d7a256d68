--------------------------- MODULE MailReceive_proofs ---------------------------
(***************************************************************************)
(* Theorems about MailReceive, for any messages, recipients, environments, *)
(* copies and number of retries.  The inductive invariant IInv says        *)
(*   Typed      the types, and an environment has only items of its message*)
(*              still to put;                                              *)
(*   WorkIsStored  an event exists only for a stored message, and only an  *)
(*              event starts a handler;                                    *)
(*   RowsOfTheirKey  a row is of a stored message with its sort key;       *)
(*   HandledIsIndexed  what an invocation has put behind it has a row, and *)
(*              so has every item of a message whose handler returned nil. *)
(***************************************************************************)
EXTENDS MailReceive, WellFoundedInduction, TLAPS

Row == Message \cup {None}
Work ==
  [clients : {"unset", "built", "broken"}, msg : Message \cup {None},
   copy : Copy \cup {None}, todo : SUBSET Nat]
CopyState ==
  [at : {"none", "queued", "running", "done", "dead"}, failures : 0 .. Retries]

Typed ==
  /\ stored \subseteq Message /\ dlq \subseteq Message
  /\ event \in [Message -> [Copy -> CopyState]]
  /\ table \in [Mailbox -> [SortKey -> Row]]
  /\ env \in [Environment -> Work]
  /\ \A e \in Environment :
       /\ Running(e) => env[e].copy \in Copy /\ env[e].todo \subseteq itemsForMessage(env[e].msg)
       /\ ~Running(e) => env[e].todo = {}

WorkIsStored ==
  /\ \A m \in Message, c \in Copy : event[m][c] # NoEvent => m \in stored
  /\ \A e \in Environment : Running(e) => env[e].msg \in stored

RowsOfTheirKey ==
  \A b \in Mailbox, sk \in SortKey :
    table[b][sk] # None => table[b][sk] \in stored /\ SK(table[b][sk]) = sk

Indexed(m, i) == table[MailboxOfItem(m, i)][SK(m)] # None

HandledIsIndexed ==
  /\ \A e \in Environment, m \in Message : env[e].msg = m =>
       \A i \in itemsForMessage(m) \ env[e].todo : Indexed(m, i)
  /\ \A m \in Message, c \in Copy : event[m][c].at = "done" =>
       \A i \in itemsForMessage(m) : Indexed(m, i)

IInv == Typed /\ WorkIsStored /\ RowsOfTheirKey /\ HandledIsIndexed

------------------------------------------------------------------------------
(* Numbers and sequences *)

LEMMA LeastNatural ==
  ASSUME NEW S \in SUBSET Nat, S # {}
  PROVE  \E x \in S : \A y \in S : x <= y
<1> DEFINE Less == OpToRel(<, Nat)
<1>1. IsWellFoundedOn(Less, Nat)
  BY NatLessThanWellFounded
<1>2. \A x, y \in Nat : x < y => <<x, y>> \in Less
  BY DEF OpToRel
<1> HIDE DEF Less
<1>3. PICK x \in S : \A y \in S : ~ (<<y, x>> \in Less)
  BY <1>1, WFMin, Zenon
<1>4. ASSUME NEW y \in S PROVE x <= y
  <2>1. x \in Nat /\ y \in Nat
    OBVIOUS
  <2>2. ~ (y < x)
    BY <1>2, <1>3, <2>1, Zenon
  <2> QED BY <2>1, <2>2
<1> QED BY <1>4

\* The item an invocation puts next is one that it has to put.
LEMMA NextIsToDo ==
  ASSUME NEW e \in Environment, env[e].todo \in SUBSET Nat, env[e].todo # {}
  PROVE  NextItem(e) \in env[e].todo
BY LeastNatural DEF NextItem, Min

LEMMA ItemsTyped ==
  ASSUME NEW m \in Message
  PROVE  /\ SK(m) \in SortKey
         /\ itemsForMessage(m) \subseteq Nat
         /\ \A i \in itemsForMessage(m) :
              /\ Recipients[m][i] \in Address
              /\ MailboxOfItem(m, i) \in Mailbox
<1>1. Recipients[m] \in Seq(Address)
  BY MessageAssumption
<1>2. \A i \in DOMAIN Recipients[m] : i \in Nat /\ Recipients[m][i] \in Address
  BY <1>1
<1>3. SK(m) \in SortKey
  BY MessageAssumption DEF SK, SortKey
<1> QED BY <1>2, <1>3 DEF itemsForMessage, MailboxOfItem, Mailbox

------------------------------------------------------------------------------
(* What the steps are made of *)

\* A row that is put fills the place of the next item if it is vacant, and leaves
\* every other place alone.
LEMMA PutRowFills ==
  ASSUME Typed, NEW e \in Environment, Running(e), env[e].todo # {}, PutRow(e)
  PROVE  /\ table' \in [Mailbox -> [SortKey -> Row]]
         /\ Item(e) \in Mailbox /\ SK(env[e].msg) \in SortKey
         /\ NextItem(e) \in itemsForMessage(env[e].msg)
         /\ \A b \in Mailbox, sk \in SortKey : table'[b][sk] =
              IF b = Item(e) /\ sk = SK(env[e].msg) /\ table[b][sk] = None
              THEN env[e].msg ELSE table[b][sk]
<1> DEFINE m == env[e].msg
<1>1. m \in Message
  BY DEF Typed, Work, Running
<1>2. NextItem(e) \in itemsForMessage(m)
  BY NextIsToDo DEF Typed, Work
<1>3. Item(e) \in Mailbox /\ SK(m) \in SortKey
  BY <1>1, <1>2, ItemsTyped DEF Item
<1>4. CASE ~Vacant(Item(e), SK(m))
  BY <1>2, <1>3, <1>4 DEF PutRow, Vacant, Typed
<1>5. CASE Vacant(Item(e), SK(m))
  <2> DEFINE b0 == Item(e)
             k == SK(m)
  <2>1. table' = [table EXCEPT ![b0][k] = m] /\ table[b0][k] = None
    BY <1>5 DEF PutRow, Vacant
  <2>2. b0 \in Mailbox /\ k \in SortKey /\ m \in Row
    BY <1>1, <1>3 DEF Row
  <2>3. table \in [Mailbox -> [SortKey -> Row]]
    BY DEF Typed
  <2> HIDE DEF b0, k, m
  <2>4. table' \in [Mailbox -> [SortKey -> Row]]
    BY <2>1, <2>2, <2>3
  <2>5. \A b \in Mailbox, sk \in SortKey : table'[b][sk] =
          IF b = b0 /\ sk = k /\ table[b][sk] = None THEN m ELSE table[b][sk]
    BY <2>1, <2>2, <2>3
  <2> QED BY <1>2, <1>3, <2>4, <2>5 DEF b0, k, m
<1> QED BY <1>4, <1>5

\* A row that is put keeps what is said of rows, and indexes the next item.
LEMMA PutRowKeeps ==
  ASSUME IInv, NEW e \in Environment, Running(e), env[e].todo # {}, PutRow(e),
         stored' = stored
  PROVE  /\ RowsOfTheirKey'
         /\ \A m \in Message : \A i \in itemsForMessage(m) :
              Indexed(m, i) => Indexed(m, i)'
         /\ table'[Item(e)][SK(env[e].msg)] # None
<1>1. env[e].msg \in Message /\ env[e].msg \in stored /\ env[e].msg # None
  BY NoneAssumption DEF IInv, Typed, Work, WorkIsStored, Running
<1>2. ASSUME NEW b \in Mailbox, NEW sk \in SortKey, table'[b][sk] # None
      PROVE  table'[b][sk] \in stored /\ SK(table'[b][sk]) = sk
  BY <1>1, <1>2, PutRowFills DEF IInv, RowsOfTheirKey
<1>3. ASSUME NEW m \in Message, NEW i \in itemsForMessage(m), Indexed(m, i)
      PROVE  Indexed(m, i)'
  BY <1>3, PutRowFills, ItemsTyped DEF IInv, Indexed, MailboxOfItem, SK
<1>4. table'[Item(e)][SK(env[e].msg)] # None
  BY <1>1, PutRowFills DEF IInv
<1> QED BY <1>2, <1>3, <1>4 DEF RowsOfTheirKey, SK

\* Resting, dying and failing leave an environment without a message.
LEMMA RestIsIdle ==
  ASSUME Typed, NEW e \in Environment,
         env' = Rest(e) \/ env' = [env EXCEPT ![e] = Cold]
  PROVE  /\ env' \in [Environment -> Work]
         /\ env'[e].msg = None /\ env'[e].todo = {}
         /\ \A d \in Environment : d # e => env'[d] = env[d]
<1>1. env \in [Environment -> Work]
  BY DEF Typed
<1>2. [Cold EXCEPT !.clients = env[e].clients] \in Work /\ Cold \in Work
  BY <1>1 DEF Cold, Work
<1> QED BY <1>1, <1>2 DEF Rest, Cold

LEMMA EventChanges ==
  ASSUME Typed, NEW m \in Message, NEW c \in Copy, NEW to \in CopyState,
         event' = [event EXCEPT ![m][c] = to]
  PROVE  /\ event' \in [Message -> [Copy -> CopyState]]
         /\ \A n \in Message, d \in Copy :
              event'[n][d] = IF n = m /\ d = c THEN to ELSE event[n][d]
<1>1. event \in [Message -> [Copy -> CopyState]]
  BY DEF Typed
<1>2. event' \in [Message -> [Copy -> CopyState]]
  BY <1>1
<1>3. \A n \in Message, d \in Copy :
        event'[n][d] = IF n = m /\ d = c THEN to ELSE event[n][d]
  BY <1>1
<1> QED BY <1>2, <1>3

\* Lambda's reaction to a failure concerns the event of that message alone, which
\* it does not take for done.
LEMMA FailureKeepsEvents ==
  ASSUME Typed, NEW m \in Message, NEW c \in Copy, OnFailure(m, c)
  PROVE  /\ event' \in [Message -> [Copy -> CopyState]]
         /\ dlq' \subseteq Message
         /\ \A n \in Message, d \in Copy :
              \/ event'[n][d] = event[n][d]
              \/ n = m /\ event'[n][d].at # "done"
<1>1. event \in [Message -> [Copy -> CopyState]] /\ Retries \in Nat
  BY RetryAssumption DEF Typed
<1>2. event[m][c] \in CopyState
  BY <1>1
<1>3. CASE event[m][c].failures < Retries
  <2> DEFINE again == [at |-> "queued", failures |-> event[m][c].failures + 1]
  <2>1. event' = [event EXCEPT ![m][c] = again] /\ dlq' = dlq
    BY <1>3 DEF OnFailure
  <2>2. again \in CopyState /\ again.at # "done"
    BY <1>1, <1>2, <1>3 DEF CopyState
  <2> HIDE DEF again
  <2> QED BY <2>1, <2>2, EventChanges DEF Typed
<1>4. CASE ~(event[m][c].failures < Retries)
  <2> DEFINE dead == [event[m][c] EXCEPT !.at = "dead"]
  <2>1. event' = [event EXCEPT ![m][c] = dead] /\ dlq' = dlq \cup {m}
    BY <1>1, <1>4 DEF OnFailure
  <2>2. dead \in CopyState /\ dead.at # "done"
    BY <1>2 DEF CopyState
  <2> HIDE DEF dead
  <2> QED BY <2>1, <2>2, EventChanges DEF Typed
<1> QED BY <1>3, <1>4

------------------------------------------------------------------------------
(* The invariant *)

LEMMA InitHolds == Init => IInv
<1> SUFFICES ASSUME Init PROVE IInv
  OBVIOUS
<1>1. Cold \in Work /\ Cold.msg = None /\ Cold.todo = {}
  BY DEF Cold, Work
<1>2. NoEvent \in CopyState /\ NoEvent.at # "done"
  BY RetryAssumption DEF NoEvent, CopyState
<1>3. Typed
  <2>1. event \in [Message -> [Copy -> CopyState]]
    BY <1>2 DEF Init
  <2>2. env \in [Environment -> Work] /\ \A e \in Environment : env[e] = Cold
    BY <1>1 DEF Init
  <2>3. \A e \in Environment : ~Running(e) /\ env[e].todo = {}
    BY <1>1, <2>2 DEF Running
  <2> QED BY <2>1, <2>2, <2>3 DEF Init, Typed, Row
<1>4. WorkIsStored /\ RowsOfTheirKey
  BY <1>1 DEF Init, WorkIsStored, RowsOfTheirKey, Running
<1>5. HandledIsIndexed
  <2>1. \A e \in Environment : env[e].msg = None
    BY <1>1 DEF Init
  <2>2. \A m \in Message, c \in Copy : event[m][c] = NoEvent
    BY DEF Init
  <2> QED BY <1>2, <2>1, <2>2, NoneAssumption DEF HandledIsIndexed
<1> QED BY <1>3, <1>4, <1>5 DEF IInv

\* A step that leaves rows and objects alone, changes no running invocation but
\* by ending it, and takes no event for done but a fully indexed one.
LEMMA EndingKeeps ==
  ASSUME IInv, stored' = stored,
         dlq' \subseteq Message,
         event' \in [Message -> [Copy -> CopyState]],
         NEW e \in Environment,
         env' = Rest(e) \/ env' = [env EXCEPT ![e] = Cold],
         \A m \in Message, c \in Copy : event'[m][c] # NoEvent => m \in stored,
         \A m \in Message, c \in Copy :
           \/ event'[m][c] = event[m][c]
           \/ event'[m][c].at # "done"
           \/ \A i \in itemsForMessage(m) : Indexed(m, i),
         table' \in [Mailbox -> [SortKey -> Row]],
         RowsOfTheirKey',
         \A m \in Message : \A i \in itemsForMessage(m) : Indexed(m, i) => Indexed(m, i)'
  PROVE  IInv'
<1>1. /\ env' \in [Environment -> Work]
      /\ env'[e].msg = None /\ env'[e].todo = {}
      /\ \A d \in Environment : d # e => env'[d] = env[d]
  BY RestIsIdle DEF IInv
<1>2. \A d \in Environment : Running(d)' => Running(d) /\ env'[d] = env[d]
  BY <1>1 DEF Running
<1>3. \A d \in Environment : Running(d) => env[d].msg \in Message
  BY DEF IInv, Typed, Work, Running
<1>4. Typed'
  <2>1. \A d \in Environment :
          /\ Running(d)' => /\ env'[d].copy \in Copy
                            /\ env'[d].todo \subseteq itemsForMessage(env'[d].msg)
          /\ ~Running(d)' => env'[d].todo = {}
    BY <1>1, <1>2 DEF IInv, Typed, Running
  <2> QED BY <1>1, <2>1 DEF IInv, Typed, itemsForMessage, InDomain
<1>5. WorkIsStored'
  BY <1>2 DEF IInv, WorkIsStored
<1>6. HandledIsIndexed'
  <2>1. ASSUME NEW d \in Environment, NEW m \in Message, env'[d].msg = m,
               NEW i \in itemsForMessage(m) \ env'[d].todo
        PROVE  Indexed(m, i)'
    <3>1. env'[d] = env[d]
      BY <1>2, <2>1, NoneAssumption DEF Running
    <3>2. Indexed(m, i)
      BY <2>1, <3>1 DEF IInv, HandledIsIndexed
    <3> QED BY <3>2
  <2>2. ASSUME NEW m \in Message, NEW c \in Copy, event'[m][c].at = "done",
               NEW i \in itemsForMessage(m)
        PROVE  Indexed(m, i)'
    <3>1. Indexed(m, i)
      BY <2>2 DEF IInv, HandledIsIndexed
    <3> QED BY <3>1
  <2> QED BY <2>1, <2>2 DEF HandledIsIndexed, itemsForMessage, InDomain
<1> QED BY <1>4, <1>5, <1>6 DEF IInv

LEMMA StepKeeps == IInv /\ [Next]_vars => IInv'
<1> SUFFICES ASSUME IInv, [Next]_vars PROVE IInv'
  OBVIOUS
<1> USE DEF IInv
<1>1. ASSUME NEW m \in Message, StoreRaw(m) PROVE IInv'
  <2>1. stored' = stored \cup {m} /\ UNCHANGED <<event, table, dlq, env>>
    BY <1>1 DEF StoreRaw
  <2>2. Typed'
    BY <2>1 DEF Typed, Running, itemsForMessage, InDomain
  <2>3. WorkIsStored' /\ RowsOfTheirKey'
    BY <2>1 DEF WorkIsStored, RowsOfTheirKey, Running, SK
  <2>4. HandledIsIndexed'
    BY <2>1 DEF HandledIsIndexed, Indexed, itemsForMessage, InDomain, MailboxOfItem, SK
  <2> QED BY <2>2, <2>3, <2>4
<1>2. ASSUME NEW m \in Message, NEW c \in Copy, InvokeAsync(m, c) \/ Duplicate(m, c)
      PROVE  IInv'
  <2>1. event' = [event EXCEPT ![m][c] = Queued] /\ UNCHANGED <<stored, table, dlq, env>>
    BY <1>2 DEF InvokeAsync, Duplicate
  <2>2. m \in stored
    BY <1>2 DEF InvokeAsync, Duplicate, InvokesAfterStore, WorkIsStored
  <2>3. Queued \in CopyState /\ Queued.at # "done"
    BY RetryAssumption DEF Queued, CopyState
  <2>4. /\ event' \in [Message -> [Copy -> CopyState]]
        /\ \A n \in Message, d \in Copy :
             event'[n][d] = event[n][d] \/ (n = m /\ event'[n][d] = Queued)
    BY <2>1, <2>3, EventChanges
  <2>5. Typed'
    BY <2>1, <2>4 DEF Typed, Running, itemsForMessage, InDomain
  <2>6. WorkIsStored'
    BY <2>1, <2>2, <2>4 DEF WorkIsStored, Running
  <2>7. RowsOfTheirKey'
    BY <2>1 DEF RowsOfTheirKey, SK
  <2>8. HandledIsIndexed'
    <3>1. ASSUME NEW n \in Message, NEW d \in Copy, event'[n][d].at = "done"
          PROVE  event[n][d].at = "done"
      BY <2>3, <2>4, <3>1
    <3> QED
      BY <2>1, <3>1
         DEF HandledIsIndexed, Indexed, itemsForMessage, InDomain, MailboxOfItem, SK
  <2> QED BY <2>5, <2>6, <2>7, <2>8
<1>3. ASSUME NEW e \in Environment, NEW m \in Message, NEW c \in Copy, Begin(e, m, c)
      PROVE  IInv'
  <2>1. /\ Free(e) /\ event[m][c].at = "queued"
        /\ event' = [event EXCEPT ![m][c].at = "running"]
        /\ UNCHANGED <<stored, table, dlq>>
    BY <1>3 DEF Begin
  <2>2. PICK made \in {"built", "broken", "unset"} :
          env' = [env EXCEPT ![e] =
            [clients |-> made, msg |-> m, copy |-> c, todo |-> itemsForMessage(m)]]
    BY <1>3 DEF Begin, Typed, Work
  <2> DEFINE work == [clients |-> made, msg |-> m, copy |-> c, todo |-> itemsForMessage(m)]
  <2>3. /\ work \in Work /\ work.msg = m /\ work.copy = c
        /\ work.todo = itemsForMessage(m)
    BY ItemsTyped DEF Work
  <2>4. env' = [env EXCEPT ![e] = work]
    BY <2>2
  <2> HIDE DEF work
  <2>5. env' \in [Environment -> Work] /\ env'[e] = work
        /\ \A d \in Environment : d # e => env'[d] = env[d]
    BY <2>3, <2>4 DEF Typed
  <2>6. /\ event' \in [Message -> [Copy -> CopyState]]
        /\ \A n \in Message, d \in Copy :
             event'[n][d] = event[n][d] \/ (n = m /\ event'[n][d].at = "running")
    <3> DEFINE runs == [event[m][c] EXCEPT !.at = "running"]
    <3>1. event \in [Message -> [Copy -> CopyState]]
      BY DEF Typed
    <3>2. runs \in CopyState /\ runs.at = "running"
      BY <3>1 DEF CopyState
    <3>3. event' = [event EXCEPT ![m][c] = runs]
      BY <2>1
    <3> HIDE DEF runs
    <3> QED BY <3>2, <3>3, EventChanges
  <2>7. m \in stored
    BY <2>1 DEF WorkIsStored, NoEvent
  <2>8. Typed'
    <3>1. \A d \in Environment :
            /\ Running(d)' => /\ env'[d].copy \in Copy
                              /\ env'[d].todo \subseteq itemsForMessage(env'[d].msg)
            /\ ~Running(d)' => env'[d].todo = {}
      BY <2>3, <2>5, NoneAssumption DEF Typed, Running
    <3> QED BY <2>1, <2>5, <2>6, <3>1 DEF Typed, itemsForMessage, InDomain
  <2>9. WorkIsStored'
    BY <2>1, <2>3, <2>5, <2>6, <2>7 DEF WorkIsStored, Running
  <2>10. RowsOfTheirKey'
    BY <2>1 DEF RowsOfTheirKey, SK
  <2>11. HandledIsIndexed'
    <3>1. ASSUME NEW d \in Environment, NEW n \in Message, env'[d].msg = n,
                 NEW i \in itemsForMessage(n) \ env'[d].todo
          PROVE  Indexed(n, i)
      BY <2>3, <2>5, <3>1 DEF HandledIsIndexed
    <3>2. ASSUME NEW n \in Message, NEW d \in Copy, event'[n][d].at = "done",
                 NEW i \in itemsForMessage(n)
          PROVE  Indexed(n, i)
      BY <2>6, <3>2 DEF HandledIsIndexed
    <3> QED
      BY <2>1, <3>1, <3>2
         DEF HandledIsIndexed, Indexed, itemsForMessage, InDomain, MailboxOfItem, SK
  <2> QED BY <2>8, <2>9, <2>10, <2>11
<1>4. ASSUME NEW e \in Environment, PutItem(e) PROVE IInv'
  <2>1. /\ Running(e) /\ env[e].todo # {} /\ PutRow(e)
        /\ env' = [env EXCEPT ![e].todo = @ \ {NextItem(e)}]
        /\ UNCHANGED <<stored, event, dlq>>
    BY <1>4 DEF PutItem, Works
  <2> DEFINE work == [env[e] EXCEPT !.todo = @ \ {NextItem(e)}]
  <2>2. /\ work \in Work /\ work.msg = env[e].msg /\ work.copy = env[e].copy
        /\ work.todo = env[e].todo \ {NextItem(e)}
    BY DEF Typed, Work
  <2>3. env' = [env EXCEPT ![e] = work]
    BY <2>1
  <2> HIDE DEF work
  <2>4. env' \in [Environment -> Work] /\ env'[e] = work
        /\ \A d \in Environment : d # e => env'[d] = env[d]
    BY <2>2, <2>3 DEF Typed
  <2>5. \A d \in Environment : (Running(d)' <=> Running(d)) /\ env'[d].msg = env[d].msg
    BY <2>2, <2>4 DEF Running
  <2>6. Typed'
    <3>1. \A d \in Environment :
            /\ Running(d)' => /\ env'[d].copy \in Copy
                              /\ env'[d].todo \subseteq itemsForMessage(env'[d].msg)
            /\ ~Running(d)' => env'[d].todo = {}
      BY <2>2, <2>4, <2>5 DEF Typed
    <3>2. table' \in [Mailbox -> [SortKey -> Row]]
      BY <2>1, PutRowFills
    <3> QED BY <2>1, <2>4, <3>1, <3>2 DEF Typed, itemsForMessage, InDomain
  <2>7. WorkIsStored'
    BY <2>1, <2>5 DEF WorkIsStored
  <2>8. HandledIsIndexed'
    <3>1. ASSUME NEW d \in Environment, NEW n \in Message, env'[d].msg = n,
                 NEW i \in itemsForMessage(n) \ env'[d].todo
          PROVE  Indexed(n, i)'
      <4>1. env[d].msg = n
        BY <2>5, <3>1
      <4>2. CASE i \notin env[d].todo
        BY <2>1, <3>1, <4>1, <4>2, PutRowKeeps DEF HandledIsIndexed
      <4>3. CASE d = e /\ i = NextItem(e)
        BY <2>1, <4>1, <4>3, PutRowKeeps DEF Indexed, Item, MailboxOfItem, SK
      <4> QED BY <2>2, <2>4, <3>1, <4>2, <4>3
    <3>2. ASSUME NEW n \in Message, NEW d \in Copy, event'[n][d].at = "done",
                 NEW i \in itemsForMessage(n)
          PROVE  Indexed(n, i)'
      BY <2>1, <3>2, PutRowKeeps DEF HandledIsIndexed
    <3> QED BY <3>1, <3>2 DEF HandledIsIndexed, itemsForMessage, InDomain
  <2> QED BY <2>1, <2>6, <2>7, <2>8, PutRowKeeps
<1>5. ASSUME NEW e \in Environment, ReturnsNil(e) PROVE IInv'
  <2> DEFINE m == env[e].msg
             c == env[e].copy
             ends == [event[m][c] EXCEPT !.at = "done"]
  <2>1. /\ Running(e) /\ env[e].todo = {} /\ env' = Rest(e)
        /\ event' = [event EXCEPT ![m][c] = ends]
        /\ UNCHANGED <<stored, table, dlq>>
    BY <1>5 DEF ReturnsNil, Works
  <2>2. m \in Message /\ c \in Copy /\ m \in stored
    BY <2>1 DEF Typed, Work, Running, WorkIsStored
  <2>3. event \in [Message -> [Copy -> CopyState]] /\ ends \in CopyState
    BY <2>2 DEF Typed, CopyState
  <2>4. \A i \in itemsForMessage(m) : Indexed(m, i)
    BY <2>1, <2>2 DEF HandledIsIndexed
  <2> HIDE DEF m, c, ends
  <2>5. /\ event' \in [Message -> [Copy -> CopyState]]
        /\ \A n \in Message, d \in Copy : event'[n][d] = event[n][d] \/ n = m
    BY <2>1, <2>2, <2>3
  <2>6. \A n \in Message, d \in Copy : event'[n][d] # NoEvent => n \in stored
    BY <2>2, <2>5 DEF WorkIsStored
  <2>7. table' \in [Mailbox -> [SortKey -> Row]] /\ RowsOfTheirKey'
    BY <2>1 DEF Typed, RowsOfTheirKey, SK
  <2>8. \A n \in Message : \A i \in itemsForMessage(n) : Indexed(n, i) => Indexed(n, i)'
    BY <2>1 DEF Indexed, MailboxOfItem, SK
  <2>9. dlq' \subseteq Message /\ stored' = stored
    BY <2>1 DEF Typed
  <2> QED BY <2>1, <2>4, <2>5, <2>6, <2>7, <2>8, <2>9, EndingKeeps
<1>6. ASSUME NEW e \in Environment, ReturnsError(e) \/ AnswerLost(e) \/ Dies(e)
      PROVE  IInv'
  <2>1. /\ env' = Rest(e) \/ env' = [env EXCEPT ![e] = Cold]
        /\ stored' = stored
    BY <1>6 DEF ReturnsError, AnswerLost, Dies
  <2>2. \/ Running(e) /\ OnFailure(env[e].msg, env[e].copy)
        \/ UNCHANGED <<event, dlq>>
    BY <1>6 DEF ReturnsError, AnswerLost, Works, Dies
  <2>3. Running(e) => env[e].msg \in Message /\ env[e].copy \in Copy /\ env[e].msg \in stored
    BY DEF Typed, Work, Running, WorkIsStored
  <2>4. /\ event' \in [Message -> [Copy -> CopyState]] /\ dlq' \subseteq Message
        /\ \A n \in Message, d \in Copy :
             \/ event'[n][d] = event[n][d]
             \/ n \in stored /\ event'[n][d].at # "done"
    BY <2>2, <2>3, FailureKeepsEvents DEF Typed
  <2>5. \A n \in Message, d \in Copy : event'[n][d] # NoEvent => n \in stored
    BY <2>4 DEF WorkIsStored
  <2>6. /\ table' \in [Mailbox -> [SortKey -> Row]] /\ RowsOfTheirKey'
        /\ \A n \in Message : \A i \in itemsForMessage(n) :
             Indexed(n, i) => Indexed(n, i)'
    <3>1. CASE Running(e) /\ env[e].todo # {} /\ PutRow(e)
      BY <2>1, <3>1, PutRowFills, PutRowKeeps
    <3>2. CASE UNCHANGED table
      <4>1. table' \in [Mailbox -> [SortKey -> Row]] /\ RowsOfTheirKey'
        BY <2>1, <3>2 DEF Typed, RowsOfTheirKey, SK
      <4>2. \A n \in Message : \A i \in itemsForMessage(n) :
              Indexed(n, i) => Indexed(n, i)'
        BY <3>2 DEF Indexed, MailboxOfItem, SK
      <4> QED BY <4>1, <4>2
    <3> QED BY <1>6, <3>1, <3>2 DEF ReturnsError, AnswerLost, Works, Dies
  <2> QED BY <2>1, <2>4, <2>5, <2>6, EndingKeeps
<1>7. CASE UNCHANGED vars
  BY <1>7 DEF vars, Typed, WorkIsStored, RowsOfTheirKey, HandledIsIndexed, Indexed,
              Running, itemsForMessage, InDomain, MailboxOfItem, SK
<1> QED BY <1>1, <1>2, <1>3, <1>4, <1>5, <1>6, <1>7 DEF Next, Handler

------------------------------------------------------------------------------
(* Theorems *)

\* The state stays in its types: a message that failed too often is dead and not
\* tried again, and an invocation has only items of its own message left to put.
THEOREM ReceiveTyped == Spec => []TypeOK
<1>1. IInv => TypeOK
  <2>1. ASSUME IInv, NEW e \in Environment
        PROVE  /\ env[e].clients \in {"unset", "built", "broken"}
               /\ env[e].msg \in Message \cup {None}
               /\ env[e].copy \in Copy \cup {None}
               /\ env[e].todo \subseteq IF Running(e) THEN itemsForMessage(env[e].msg) ELSE {}
    BY <2>1 DEF IInv, Typed, Work
  <2> QED BY <2>1 DEF IInv, Typed, TypeOK, CopyState, Row
<1> QED BY InitHolds, StepKeeps, <1>1, PTL DEF Spec

\* The handler answered nil for a message only if every recipient of the domain
\* has a row under its sort key: the message's own, or that of another message
\* with the same key, whatever failed, was lost or was run twice before.
THEOREM NilMeansIndexed == Spec => []FinishedIsIndexed
<1>1. IInv => FinishedIsIndexed
  <2> SUFFICES ASSUME IInv, NEW m \in Message, Finished(m),
                      NEW a \in ToSet(Recipients[m]), InDomain(a)
               PROVE  /\ table[Lower[a]][SK(m)] # None
                      /\ table[Lower[a]][SK(m)] # m =>
                           \E n \in Message \ {m} :
                             table[Lower[a]][SK(m)] = n /\ SK(n) = SK(m)
    BY Zenon DEF FinishedIsIndexed
  <2>1. PICK i \in DOMAIN Recipients[m] : Recipients[m][i] = a
    BY DEF ToSet
  <2>2. i \in itemsForMessage(m) /\ MailboxOfItem(m, i) = Lower[a]
    BY <2>1 DEF itemsForMessage, MailboxOfItem
  <2>3. table[Lower[a]][SK(m)] # None
    BY <2>2 DEF IInv, HandledIsIndexed, Finished, Indexed
  <2>4. Lower[a] \in Mailbox /\ SK(m) \in SortKey
    BY <2>2, ItemsTyped
  <2>5. /\ table[Lower[a]][SK(m)] \in Message
        /\ SK(table[Lower[a]][SK(m)]) = SK(m)
    BY <2>3, <2>4 DEF IInv, RowsOfTheirKey, Typed
  <2> QED BY <2>3, <2>5
<1> QED BY InitHolds, StepKeeps, <1>1, PTL DEF Spec

\* What a client lists it can open: the raw message of a row is in S3, in every
\* interleaving of invocations, retries, duplicates and deaths.
THEOREM RowsOpen == Spec => []RowsCanBeOpened
<1>1. IInv => RowsCanBeOpened
  BY DEF IInv, RowsOfTheirKey, RowsCanBeOpened
<1> QED BY InitHolds, StepKeeps, <1>1, PTL DEF Spec

\* No step changes the row that a mailbox and a sort key have once got.
LEMMA StepReplacesNothing ==
  ASSUME IInv, [Next]_vars, NEW b \in Mailbox, NEW sk \in SortKey, table[b][sk] # None
  PROVE  table'[b][sk] = table[b][sk]
<1>1. CASE \E e \in Environment : Running(e) /\ env[e].todo # {} /\ PutRow(e)
  BY <1>1, PutRowFills DEF IInv
<1>2. CASE UNCHANGED table
  BY <1>2
<1> QED
  BY <1>1, <1>2 DEF Next, Handler, Works, vars, StoreRaw, InvokeAsync, Duplicate, Begin,
                    PutItem, ReturnsNil, ReturnsError, AnswerLost, Dies

\* A row that is in the table keeps pointing to the same object, for ever.
THEOREM NeverReplaced == Spec => RowsAreNeverReplaced
<1>1. IInv /\ [Next]_vars =>
        [\A b \in Mailbox, sk \in SortKey :
           table[b][sk] # None => table'[b][sk] = table[b][sk]]_vars
  BY StepReplacesNothing
<1> QED BY InitHolds, StepKeeps, <1>1, PTL DEF Spec, RowsAreNeverReplaced
===============================================================================
