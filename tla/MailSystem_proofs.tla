--------------------------- MODULE MailSystem_proofs ---------------------------
(***************************************************************************)
(* Theorems about MailSystem, put together from those of its parts.  The   *)
(* whole is a receiving pipeline (SystemReceives); what the pipeline does  *)
(* to the table is what the cache may meet (SystemImplementsCache): so     *)
(* what is proved of MailReceive and of MailCache holds of the whole, and  *)
(* a header that a client is shown leads to an object in S3.               *)
(***************************************************************************)
EXTENDS MailSystem, MailReceive_proofs, FiniteSetTheorems

\* MailCache's theorems, of the table that the pipeline writes.
C == INSTANCE MailCache_proofs WITH
  Key <- Message, Text <- Texts,
  Recipients <- [m \in Message |-> Mailboxes(m)],
  index <- [b \in Mailbox |-> [m \in Message |-> RowOf(b, m)]]

------------------------------------------------------------------------------
(* The pipeline *)

LEMMA PipelineStarts == SystemInit => Init
BY DEF SystemInit

LEMMA PipelineSteps == [SystemNext]_systemVars => [Next]_vars
BY DEF SystemNext, systemVars, vars, Receive, Client, ClientCrash, receiving

\* Whatever the clients do, what is received is received as MailReceive says.
THEOREM SystemReceives == SystemSpec => Spec
BY PipelineStarts, PipelineSteps, PTL DEF SystemSpec, Spec

LEMMA SystemInvariant == SystemSpec => []IInv
BY SystemReceives, InitHolds, StepKeeps, PTL DEF Spec

------------------------------------------------------------------------------
(* The table as the cache sees it *)

Rows == [b \in Mailbox |-> [m \in Message |-> RowOf(b, m)]]

LEMMA RecipientsHaveMailboxes ==
  ASSUME NEW m \in Message
  PROVE  /\ Mailboxes(m) \subseteq Mailbox
         /\ \A i \in itemsForMessage(m) : MailboxOfItem(m, i) \in Mailboxes(m)
<1>1. Recipients[m] \in Seq(Address)
  BY MessageAssumption
<1>2. \A r \in ToSet(Recipients[m]) : r \in Address
  BY <1>1 DEF ToSet
<1>3. \A i \in itemsForMessage(m) :
        Recipients[m][i] \in ToSet(Recipients[m]) /\ InDomain(Recipients[m][i])
  BY DEF itemsForMessage, ToSet
<1> QED BY <1>2, <1>3 DEF Mailboxes, MailboxOfItem, Mailbox

\* A row that is put is one delivery, or nothing that the cache can see.
LEMMA PutRowDelivers ==
  ASSUME IInv, NEW e \in Environment, Running(e), env[e].todo # {}, PutRow(e),
         UNCHANGED caching
  PROVE  Cache!Deliver \/ Rows' = Rows
<1> DEFINE k == env[e].msg
           b0 == Item(e)
<1>1. k \in Message
  BY DEF IInv, Typed, Work, Running
<1>2. /\ b0 \in Mailbox /\ SK(k) \in SortKey
      /\ \A b \in Mailbox, sk \in SortKey : table'[b][sk] =
           IF b = b0 /\ sk = SK(k) /\ table[b][sk] = None THEN k ELSE table[b][sk]
  BY PutRowFills DEF IInv
<1>3. b0 \in Mailboxes(k)
  BY <1>1, PutRowFills, RecipientsHaveMailboxes DEF IInv, Item
<1>4. \A n \in Message : SK(n) \in SortKey
  BY ItemsTyped
<1>5. CASE table[b0][SK(k)] # None
  <2>1. \A b \in Mailbox, n \in Message : table'[b][SK(n)] = table[b][SK(n)]
    BY <1>2, <1>4, <1>5
  <2>2. \A b \in Mailbox, n \in Message : RowOf(b, n)' = RowOf(b, n)
    BY <2>1 DEF RowOf, SK
  <2> QED BY <2>2 DEF Rows
<1>6. CASE table[b0][SK(k)] = None
  <2>1. \A b \in Mailbox, n \in Message :
          RowOf(b, n)' = IF b = b0 /\ n = k THEN TextOf[k] ELSE RowOf(b, n)
    BY <1>1, <1>2, <1>4, <1>6, NoneAssumption DEF RowOf, SK
  <2>2. Rows[b0][k] = None
    BY <1>1, <1>2, <1>6, NoneAssumption DEF Rows, RowOf
  <2>3. TextOf[k] \in Texts
    BY <1>1 DEF Texts
  <2>4. UNCHANGED <<db, writer, conn, job>>
    BY DEF caching
  <2> HIDE DEF k, b0
  <2>5. Rows' = [Rows EXCEPT ![b0][k] = TextOf[k]]
    <3>1. Rows' = [b \in Mailbox |-> [n \in Message |->
                    IF b = b0 /\ n = k THEN TextOf[k] ELSE RowOf(b, n)]]
      BY <2>1 DEF Rows
    <3>2. Rows = [b \in Mailbox |-> [n \in Message |-> RowOf(b, n)]]
      BY DEF Rows
    <3> QED BY <1>1, <1>2, <3>1, <3>2
  <2>6. k \in Message /\ b0 \in [m \in Message |-> Mailboxes(m)][k]
    BY <1>1, <1>3
  <2>7. \E n \in Message : \E b \in [m \in Message |-> Mailboxes(m)][n] :
          /\ Rows[b][n] = None
          /\ \E t \in Texts : Rows' = [Rows EXCEPT ![b][n] = t]
          /\ UNCHANGED <<db, writer, conn, job>>
    BY <2>2, <2>3, <2>4, <2>5, <2>6, Zenon
  <2> QED BY <2>7 DEF Cache!Deliver, Rows
<1> QED BY <1>5, <1>6

LEMMA ReceivingDelivers ==
  ASSUME IInv, Receive PROVE Cache!Deliver \/ UNCHANGED Cache!vars
<1>1. CASE \E e \in Environment : Running(e) /\ env[e].todo # {} /\ PutRow(e)
  BY <1>1, PutRowDelivers DEF Receive, Rows, caching, Cache!vars
<1>2. CASE UNCHANGED table
  BY <1>2 DEF Receive, caching, Cache!vars, RowOf, SK
<1> QED
  BY <1>1, <1>2 DEF Receive, Next, Handler, Works, StoreRaw, InvokeAsync, Duplicate,
                    Begin, PutItem, ReturnsNil, ReturnsError, AnswerLost, Dies

LEMMA CacheStarts == SystemInit => Cache!Init
BY DEF SystemInit

LEMMA CacheSteps == IInv /\ [SystemNext]_systemVars => [Cache!Next]_(Cache!vars)
<1> SUFFICES ASSUME IInv, [SystemNext]_systemVars PROVE [Cache!Next]_(Cache!vars)
  OBVIOUS
<1>1. CASE Receive
  BY <1>1, ReceivingDelivers DEF Cache!Next
<1>2. ASSUME NEW j \in Job, Client(j) PROVE Cache!Next
  BY <1>2 DEF Client, ClientStep, Cache!Next
<1>3. ASSUME NEW p \in Process, ClientCrash(p) PROVE Cache!Next
  BY <1>3 DEF ClientCrash, Cache!Next
<1>4. CASE UNCHANGED systemVars
  BY <1>4 DEF systemVars, Cache!vars, RowOf, SK
<1> QED BY <1>1, <1>2, <1>3, <1>4 DEF SystemNext

\* What the Lambda does to the table is what MailCache takes for granted of it:
\* every step of the pipeline is a delivery or nothing that a client can see.
THEOREM SystemImplementsCache == SystemSpec => SystemCaches
BY CacheStarts, CacheSteps, SystemInvariant, PTL DEF SystemSpec, SystemCaches, Cache!Spec

------------------------------------------------------------------------------
(* What the clients show *)

LEMMA SameFunctions ==
  /\ \A S : C!IsFiniteSet(S) <=> IsFiniteSet(S)
  /\ \A S : C!Max(S) = Cache!Max(S)
  /\ \A m : C!List(m) = Cache!List(m)
<1>1. \A S : C!IsFiniteSet(S) <=> IsFiniteSet(S)
  BY DEF C!IsFiniteSet, IsFiniteSet
<1>2. \A S : C!Max(S) = Cache!Max(S)
  BY DEF C!Max, Cache!Max
<1>3. \A S : C!Cardinality(S) = Cache!Cardinality(S)
  BY DEF C!Cardinality, Cache!Cardinality
<1>4. \A S : C!Newest(S) = Cache!Newest(S)
  BY <1>3 DEF C!Newest, Cache!Newest
<1>5. \A m : C!List(m) = Cache!List(m)
  BY <1>4 DEF C!List, Cache!List
<1> QED BY <1>1, <1>2, <1>5

\* The cache of this system is a MailCache, with its theorems.
LEMMA SameSyncs == ASSUME NEW j \in Job, Cache!SyncStep(j) PROVE C!SyncStep(j)
<1>1. C!Current(j) = Cache!Current(j)
  BY SameFunctions DEF C!Current, Cache!Current
<1>2. \A next, view : Cache!Write(j, next, view) = C!Write(j, next, view)
  BY DEF C!Write, Cache!Write, C!MayWrite, Cache!MayWrite
<1>3. Cache!BeginTx(j) => C!BeginTx(j)
  BY DEF Cache!BeginTx, C!BeginTx, Cache!At, C!At, Cache!ConnectionFree,
     C!ConnectionFree, Cache!TakeConnection, C!TakeConnection
<1>4. Cache!ReadOld(j) => C!ReadOld(j)
  BY <1>1 DEF Cache!ReadOld, C!ReadOld, Cache!At, C!At, Cache!View, C!View
<1>5. Cache!DeleteOld(j) => C!DeleteOld(j)
  BY <1>1, <1>2 DEF Cache!DeleteOld, C!DeleteOld, Cache!At, C!At, Cache!OldEntry,
     C!OldEntry
<1>6. Cache!Upsert(j) => C!Upsert(j)
  BY <1>1, <1>2 DEF Cache!Upsert, C!Upsert, Cache!At, C!At
<1>7. Cache!InsertNew(j) => C!InsertNew(j)
  BY <1>1 DEF Cache!InsertNew, C!InsertNew, Cache!At, C!At, Cache!MayWrite,
     C!MayWrite, Cache!NewEntry, C!NewEntry
<1>8. Cache!RecordState(j) => C!RecordState(j)
  BY <1>2, SameFunctions DEF Cache!RecordState, C!RecordState, Cache!At, C!At,
     Cache!View, C!View
<1>9. Cache!Commit(j) => C!Commit(j)
  BY DEF Cache!Commit, C!Commit, Cache!At, C!At, Cache!ConnectionReturned,
     C!ConnectionReturned, Cache!Empty, C!Empty, Cache!Open, C!Open, Cache!InTx,
     C!InTx
<1> QED BY <1>3, <1>4, <1>5, <1>6, <1>7, <1>8, <1>9 DEF Cache!SyncStep, C!SyncStep

LEMMA SameSteps ==
  ASSUME NEW j \in Job
  PROVE  /\ Cache!ListPage(j) => C!ListPage(j)
         /\ Cache!ListFails(j) => C!ListFails(j)
         /\ Cache!Rollback(j) => C!Rollback(j)
         /\ Cache!ShowList(j) => C!ShowList(j)
         /\ Cache!ShowSearch(j) => C!ShowSearch(j)
         /\ Cache!RefreshGivesUp(j) => C!RefreshGivesUp(j)
         /\ Cache!Finish(j) => C!Finish(j)
<1>1. Cache!ListPage(j) => C!ListPage(j)
  BY SameFunctions DEF Cache!ListPage, C!ListPage, Cache!At, C!At, Cache!Begun,
     C!Begun, Cache!Empty, C!Empty
<1>2. Cache!ListFails(j) => C!ListFails(j)
  BY DEF Cache!ListFails, C!ListFails, Cache!At, C!At, Cache!Begun, C!Begun,
     Cache!Empty, C!Empty, Cache!NoPage, C!NoPage
<1>3. Cache!Rollback(j) => C!Rollback(j)
  BY DEF Cache!Rollback, C!Rollback, Cache!InTx, C!InTx, Cache!LockReleased,
     C!LockReleased, Cache!ConnectionReturned, C!ConnectionReturned,
     Cache!Abandoned, C!Abandoned, Cache!Begun, C!Begun, Cache!Empty, C!Empty,
     Cache!NoPage, C!NoPage
<1>4. Cache!ShowList(j) => C!ShowList(j)
  BY DEF Cache!ShowList, C!ShowList, Cache!MayRead, C!MayRead, Cache!At, C!At,
     Cache!ConnectionFree, C!ConnectionFree, Cache!Listed, C!Listed
<1>5. Cache!ShowSearch(j) => C!ShowSearch(j)
  BY DEF Cache!ShowSearch, C!ShowSearch, Cache!MayRead, C!MayRead, Cache!At, C!At,
     Cache!ConnectionFree, C!ConnectionFree, Cache!Search, C!Search
<1>6. Cache!RefreshGivesUp(j) => C!RefreshGivesUp(j)
  BY DEF Cache!RefreshGivesUp, C!RefreshGivesUp, Cache!At, C!At, Cache!Begun,
     C!Begun, Cache!Empty, C!Empty, Cache!NoPage, C!NoPage
<1>7. Cache!Finish(j) => C!Finish(j)
  BY DEF Cache!Finish, C!Finish, Cache!At, C!At, Cache!Begun, C!Begun, Cache!Empty,
     C!Empty, Cache!NoPage, C!NoPage
<1> QED BY <1>1, <1>2, <1>3, <1>4, <1>5, <1>6, <1>7

LEMMA CacheIsCache == SystemCaches => C!Spec
<1>1. Cache!Init => C!Init
  BY DEF Cache!Init, C!Init, Cache!Begun, C!Begun, Cache!Empty, C!Empty, Cache!NoPage,
     C!NoPage
<1>2. [Cache!Next]_(Cache!vars) => [C!Next]_(C!vars)
  <2> SUFFICES ASSUME [Cache!Next]_(Cache!vars) PROVE [C!Next]_(C!vars)
    OBVIOUS
  <2>1. Cache!Deliver => C!Deliver
    BY DEF Cache!Deliver, C!Deliver
  <2>2. Cache!Rewrite => C!Rewrite
    BY DEF Cache!Rewrite, C!Rewrite
  <2>3. ASSUME NEW p \in Process, Cache!Crash(p) PROVE C!Crash(p)
    BY <2>3 DEF Cache!Crash, C!Crash, Cache!At, C!At, Cache!Begun, C!Begun, Cache!Empty,
       C!Empty, Cache!NoPage, C!NoPage
  <2>4. UNCHANGED Cache!vars => UNCHANGED C!vars
    BY DEF Cache!vars, C!vars
  <2> QED BY <2>1, <2>2, <2>3, <2>4, SameSyncs, SameSteps DEF Cache!Next, C!Next
<1> QED BY <1>1, <1>2, PTL DEF SystemCaches, Cache!Spec, C!Spec

\* The assumptions of MailCache are met.
LEMMA CacheAssumptions ==
  /\ Message \subseteq Nat \ {0} /\ C!IsFiniteSet(Message)
  /\ C!IsFiniteSet(Mailbox)
  /\ [m \in Message |-> Mailboxes(m)] \in [Message -> SUBSET Mailbox]
  /\ ProcessOf \in [Job -> Process]
  /\ MailboxOf \in [Job -> Mailbox]
  /\ Command \in [Job -> {"refresh", "ls", "search"}]
  /\ NoJob \notin Job
  /\ None \notin Texts \cup [pk : Mailbox, text : Texts]
  /\ PageLimit \in Nat \ {0}
<1>1. \A m \in Message : Mailboxes(m) \subseteq Mailbox
  BY RecipientsHaveMailboxes
<1>2. Message \subseteq Nat \ {0}
  BY OrderAssumption
<1>3. [m \in Message |-> Mailboxes(m)] \in [Message -> SUBSET Mailbox]
  BY <1>1
<1> QED BY <1>2, <1>3, SystemAssumption, SameFunctions

LEMMA CacheHolds == SystemSpec => [](C!TypeOK /\ C!OnlyRows)
<1>1. C!Spec => []C!TypeOK
  BY CacheAssumptions, C!CacheTyped
<1>2. C!Spec => []C!OnlyRows
  BY CacheAssumptions, C!OnlyRowsAreShown
<1> QED BY SystemImplementsCache, CacheIsCache, <1>1, <1>2, PTL

\* A header that the cache shows stands for a row of the mailbox it is shown in,
\* and that row for an object in S3: it can be opened, at any moment of any
\* delivery, retry, Sync, failure or crash.
THEOREM ListedOpens == SystemSpec => []ListedCanBeOpened
<1>1. ASSUME IInv, NEW b \in Mailbox, NEW m \in Message, Rows[b][m] # None
      PROVE  table[b][SK(m)] = m /\ m \in stored
  <2>1. table[b][SK(m)] = m
    BY <1>1 DEF Rows, RowOf
  <2>2. SK(m) \in SortKey /\ m # None
    BY ItemsTyped, NoneAssumption
  <2> QED BY <1>1, <2>1, <2>2 DEF IInv, RowsOfTheirKey
<1>2. IInv /\ C!TypeOK /\ C!OnlyRows => ListedCanBeOpened
  <2> SUFFICES ASSUME IInv, C!TypeOK, C!OnlyRows PROVE ListedCanBeOpened
    OBVIOUS
  <2>1. \A m \in Message : db.headers[m] # None =>
          db.headers[m].pk \in Mailbox /\ Rows[db.headers[m].pk][m] # None
    BY DEF C!TypeOK, C!Database, C!Row, C!OnlyRows, Rows
  <2>2. \A j \in Job : /\ MailboxOf[j] \in Mailbox /\ job[j].shown \subseteq Message
                       /\ \A m \in job[j].shown : Rows[MailboxOf[j]][m] # None
    BY SystemAssumption DEF C!TypeOK, C!OnlyRows, Rows
  <2> QED BY <1>1, <2>1, <2>2 DEF ListedCanBeOpened
<1> QED BY SystemInvariant, CacheHolds, <1>2, PTL
===============================================================================
