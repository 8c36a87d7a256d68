------------------------------- MODULE MailCache -------------------------------
(***************************************************************************)
(* The local header cache (internal/cache) and the commands that use it:   *)
(* the refresh of mail-tui, `mail ls` and `mail search`.  Each of them is  *)
(* a job: it lists one mailbox in DynamoDB, installs the page in SQLite in *)
(* one transaction, and then reads the cache.  Several jobs run at once:   *)
(* in one process they share its only connection, and between processes    *)
(* SQLite's WAL gives each transaction the snapshot of its first statement *)
(* and refuses a first write whose snapshot is out of date.                *)
(*                                                                         *)
(* A message is its S3Key, and S3Keys are numbered in the order of their   *)
(* SK.  A header row is never deleted and keeps its rowid, so its S3Key    *)
(* stands for its rowid too.  Sender and subject are one text.             *)
(***************************************************************************)
EXTENDS Naturals, FiniteSetsExt

CONSTANTS
  Key,        \* S3Keys, as numbers in SK order
  Mailbox,
  Text,       \* what sender and subject can be
  Recipients, \* Recipients[k]: the mailboxes message k was sent to
  Job,
  Process,
  ProcessOf,  \* the process a job runs in
  MailboxOf,  \* the mailbox it is about
  Command,    \* what a job is: "refresh", "ls" or "search"
  PageLimit,  \* SyncPageLimit (a bound here; 500 in the program)
  None,       \* no row; no text
  NoJob

ASSUME KeyAssumption == Key \subseteq Nat \ {0} /\ IsFiniteSet(Key)
ASSUME MailAssumption ==
  IsFiniteSet(Mailbox) /\ Recipients \in [Key -> SUBSET Mailbox]
ASSUME JobAssumption ==
  /\ ProcessOf \in [Job -> Process]
  /\ MailboxOf \in [Job -> Mailbox]
  /\ Command \in [Job -> {"refresh", "ls", "search"}]
  /\ NoJob \notin Job
ASSUME NoneAssumption == None \notin Text \cup [pk : Mailbox, text : Text]
ASSUME LimitAssumption == PageLimit \in Nat \ {0}

VARIABLES
  index,   \* the DynamoDB table: index[m][k], or None
  db,      \* the committed database
  writer,  \* the job that holds SQLite's write lock, or NoJob
  conn,    \* conn[p]: process p's only connection is taken by a transaction
  job
vars == <<index, db, writer, conn, job>>

------------------------------------------------------------------------------
Row == {None} \cup [pk : Mailbox, text : Text]
Database ==
  [headers : [Key -> Row],
   fts     : [Key \X Text -> Nat],   \* how many index entries a rowid has
   last_sk : [Mailbox -> Key \cup {0}]]
Page == UNION {[S -> Text] : S \in SUBSET Key}

Empty ==
  [headers |-> [k \in Key |-> None],
   fts     |-> [e \in Key \X Text |-> 0],
   last_sk |-> [m \in Mailbox |-> 0]]

\* The statements of the transaction, in order, and what surrounds it.
InTx == {"read", "delete", "upsert", "insert", "state", "commit"}
Phases == {"idle", "listed", "synced", "failed", "done"} \cup InTx

NoPage == [k \in {} |-> None]
Begun(phase, page) ==
  [at |-> phase, page |-> page, todo |-> {}, opened |-> FALSE,
   outdated |-> FALSE, view |-> Empty, old |-> None, shown |-> {}]
At(j, phase) == job[j].at = phase
Open(i) == job[i].at \in InTx /\ job[i].opened

\* db.SetMaxOpenConns(1): one open transaction or query in a process.
ConnectionFree(j) == ~conn[ProcessOf[j]]
TakeConnection(j) == [conn EXCEPT ![ProcessOf[j]] = TRUE]
ConnectionLeaked(j) == conn
ConnectionReturned(j) == [conn EXCEPT ![ProcessOf[j]] = FALSE]

\* The first SELECT or write of a transaction fixes what it sees.
View(j) == IF job[j].opened THEN job[j].view ELSE db

\* SQLite lets a transaction write when nobody else is writing and nobody has
\* committed since its snapshot; else SQLITE_BUSY, and Sync rolls back.
MayWriteBlindly(j) == writer \in {NoJob, j}
MayWrite(j) == writer \in {NoJob, j} /\ ~job[j].outdated

\* The message being installed: pages come newest first.
Current(j) == Max(job[j].todo)

\* reader.List: the newest PageLimit rows of the mailbox.
Newest(S) == {k \in S : Cardinality({i \in S : i > k}) < PageLimit}
List(m) ==
  [k \in Newest({i \in Key : index[m][i] # None}) |-> index[m][k]]

------------------------------------------------------------------------------
Init ==
  /\ index = [m \in Mailbox |-> [k \in Key |-> None]]
  /\ db = Empty
  /\ writer = NoJob
  /\ conn = [p \in Process |-> FALSE]
  /\ job = [j \in Job |-> Begun("idle", NoPage)]

\* DynamoDB: a message is indexed for one of its recipients, in any order.
Deliver ==
  \E k \in Key : \E m \in Recipients[k] :
    /\ index[m][k] = None
    /\ \E t \in Text : index' = [index EXCEPT ![m][k] = t]
    /\ UNCHANGED <<db, writer, conn, job>>

\* A row is put again with another sender or subject: nothing under src/ does
\* it, but Sync is written for it (TestSyncMutationDoesNotLeaveStaleFTS).
Rewrite ==
  \E m \in Mailbox, k \in Key :
    /\ index[m][k] # None
    /\ \E t \in Text \ {index[m][k]} : index' = [index EXCEPT ![m][k] = t]
    /\ UNCHANGED <<db, writer, conn, job>>

\* Sync lists before it begins its transaction.
ListPage(j) ==
  /\ At(j, "idle")
  /\ job' = [job EXCEPT ![j] = Begun("listed", List(MailboxOf[j]))]
  /\ UNCHANGED <<index, db, writer, conn>>

\* reader.List failed: Sync returns before it begins anything.
ListFails(j) ==
  /\ At(j, "idle")
  /\ job' = [job EXCEPT ![j] = Begun("failed", NoPage)]
  /\ UNCHANGED <<index, db, writer, conn>>

BeginTx(j) ==
  /\ At(j, "listed") /\ ConnectionFree(j)
  /\ conn' = TakeConnection(j)
  /\ LET todo == DOMAIN job[j].page IN
     job' = [job EXCEPT ![j].todo = todo,
                        ![j].at = IF todo # {} THEN "read" ELSE "state"]
  /\ UNCHANGED <<index, db, writer>>

\* SELECT rowid, sender, subject ... WHERE s3Key=?
ReadOld(j) ==
  /\ At(j, "read")
  /\ LET old == View(j).headers[Current(j)] IN
     job' = [job EXCEPT ![j].view = View(j),
                        ![j].opened = TRUE,
                        ![j].old = old,
                        ![j].at = IF old # None THEN "delete" ELSE "upsert"]
  /\ UNCHANGED <<index, db, writer, conn>>

\* A statement that changes the database, on the transaction's own view of it.
Write(j, next, view) ==
  /\ MayWrite(j)
  /\ writer' = j
  /\ job' = [job EXCEPT ![j].view = view, ![j].opened = TRUE, ![j].at = next]
  /\ UNCHANGED <<index, db, conn>>

\* The 'delete' command of a contentless index takes out the entry whose values
\* it is given: with other values than the indexed ones, it takes out nothing.
NewEntry(j) == <<Current(j), job[j].page[Current(j)]>>
OldEntry(j) == <<Current(j), job[j].old.text>>

DeleteOld(j) ==
  /\ At(j, "delete")
  /\ LET fts == job[j].view.fts IN
     Write(j, "upsert",
       [job[j].view EXCEPT !.fts =
         [fts EXCEPT ![OldEntry(j)] = IF @ > 0 THEN @ - 1 ELSE 0]])

\* INSERT ... ON CONFLICT(s3Key) DO UPDATE: the pk is replaced too.
Upsert(j) ==
  /\ At(j, "upsert")
  /\ Write(j, "insert",
       [job[j].view EXCEPT !.headers[Current(j)] =
         [pk |-> MailboxOf[j], text |-> job[j].page[Current(j)]]])

InsertNew(j) ==
  /\ At(j, "insert") /\ MayWrite(j)
  /\ writer' = j
  /\ LET rest == job[j].todo \ {Current(j)} IN
     job' = [job EXCEPT ![j].view.fts[NewEntry(j)] = @ + 1,
                        ![j].todo = rest,
                        ![j].at = IF rest # {} THEN "read" ELSE "state"]
  /\ UNCHANGED <<index, db, conn>>

\* sync_state: the newest SK of the page, "" for an empty one.
RecordState(j) ==
  /\ At(j, "state")
  /\ LET seen == DOMAIN job[j].page IN
     Write(j, "commit",
       [View(j) EXCEPT !.last_sk[MailboxOf[j]] =
          IF seen = {} THEN 0 ELSE Max(seen)])

Commit(j) ==
  /\ At(j, "commit")
  /\ db' = job[j].view
  /\ writer' = NoJob
  /\ conn' = ConnectionReturned(j)
  /\ job' = [i \in Job |->
       IF i = j THEN [job[j] EXCEPT !.at = "synced", !.opened = FALSE,
                                    !.view = Empty]
       ELSE IF Open(i) THEN [job[i] EXCEPT !.outdated = TRUE]
       ELSE job[i]]
  /\ UNCHANGED index

\* Any statement can fail (SQLITE_BUSY after 5s, a full disk): Sync returns and
\* the deferred Rollback throws the transaction's view away.
KeptPartially(j) == View(j)
Abandoned(j) == db
LockReleased(j) == IF writer = j THEN NoJob ELSE writer
Rollback(j) ==
  /\ job[j].at \in InTx
  /\ writer' = LockReleased(j)
  /\ conn' = ConnectionReturned(j)
  /\ db' = Abandoned(j)
  /\ job' = [job EXCEPT ![j] = Begun("failed", NoPage)]
  /\ UNCHANGED index

\* cache.List(m) and cache.Search(m, t)
Listed(m) == {k \in Key : db.headers[k] # None /\ db.headers[k].pk = m}
Search(m, t) ==
  {k \in Key : db.headers[k] # None /\ db.headers[k].pk = m /\ db.fts[k, t] > 0}

\* `mail ls` and `mail search` read the cache even when Sync failed ...
MayRead(j) ==
  At(j, "synced") \/ (At(j, "failed") /\ Command[j] # "refresh")
ShowList(j) ==
  /\ Command[j] \in {"ls", "refresh"} /\ MayRead(j) /\ ConnectionFree(j)
  /\ job' = [job EXCEPT ![j].at = "done", ![j].shown = Listed(MailboxOf[j])]
  /\ UNCHANGED <<index, db, writer, conn>>
ShowSearch(j) ==
  /\ Command[j] = "search" /\ MayRead(j) /\ ConnectionFree(j)
  /\ \E t \in Text :
       job' = [job EXCEPT ![j].at = "done", ![j].shown = Search(MailboxOf[j], t)]
  /\ UNCHANGED <<index, db, writer, conn>>

\* ... and doRefresh gives up.
RefreshGivesUp(j) ==
  /\ At(j, "failed") /\ Command[j] = "refresh"
  /\ job' = [job EXCEPT ![j] = Begun("idle", NoPage)]
  /\ UNCHANGED <<index, db, writer, conn>>

Finish(j) ==
  /\ At(j, "done")
  /\ job' = [job EXCEPT ![j] = Begun("idle", NoPage)]
  /\ UNCHANGED <<index, db, writer, conn>>
\* The process dies: its jobs are gone, and so is what they had not committed.
Crash(p) ==
  /\ \E j \in Job : ProcessOf[j] = p /\ ~At(j, "idle")
  /\ job' = [j \in Job |-> IF ProcessOf[j] = p THEN Begun("idle", NoPage)
                           ELSE job[j]]
  /\ writer' = IF writer # NoJob /\ ProcessOf[writer] = p THEN NoJob ELSE writer
  /\ conn' = [conn EXCEPT ![p] = FALSE]
  /\ UNCHANGED <<index, db>>

SyncStep(j) ==
  \/ BeginTx(j) \/ ReadOld(j) \/ DeleteOld(j) \/ Upsert(j) \/ InsertNew(j)
  \/ RecordState(j) \/ Commit(j)

Next ==
  \/ Deliver \/ Rewrite
  \/ \E j \in Job :
       \/ ListPage(j) \/ ListFails(j) \/ SyncStep(j) \/ Rollback(j)
       \/ ShowList(j) \/ ShowSearch(j) \/ RefreshGivesUp(j) \/ Finish(j)
  \/ \E p \in Process : Crash(p)

Spec == Init /\ [][Next]_vars

\* A job that was started goes on, and is started again (the 30s tick, the
\* user); a transaction that SQLite keeps from writing is rolled back.
Busy(j) == job[j].at \in {"delete", "upsert", "insert", "state"} /\ ~MayWrite(j)
Proceed(j) ==
  \/ ListPage(j) \/ SyncStep(j) \/ (Busy(j) /\ Rollback(j))
  \/ ShowList(j) \/ ShowSearch(j) \/ RefreshGivesUp(j) \/ Finish(j)

\* From some time on the disk and the network work and no process is killed.
FairSpec ==
  /\ Spec
  /\ \A j \in Job : WF_vars(Proceed(j))
  /\ <>[][Deliver \/ Rewrite \/ \E j \in Job : Proceed(j)]_vars

------------------------------------------------------------------------------
(* Properties *)

\* Types; and the write lock and the connections are held inside transactions
\* only, so that no failure or crash leaves them behind.
TypeOK ==
  /\ index \in [Mailbox -> [Key -> Text \cup {None}]]
  /\ db \in Database
  /\ writer \in Job \cup {NoJob}
  /\ writer # NoJob => job[writer].at \in InTx
  /\ conn = [p \in Process |->
               \E j \in Job : ProcessOf[j] = p /\ job[j].at \in InTx]
  /\ DOMAIN job = Job
  /\ \A j \in Job :
       /\ job[j].at \in Phases
       /\ job[j].page \in Page
       /\ job[j].todo \subseteq DOMAIN job[j].page
       /\ job[j].view \in Database
       /\ job[j].old \in Row
       /\ job[j].opened \in BOOLEAN /\ job[j].outdated \in BOOLEAN
       /\ job[j].shown \subseteq Key

\* The index, which no trigger keeps in step with the headers, has exactly one
\* entry for each cached header, with its present text, and none else: however
\* transactions of several processes overlap, fail, or die half-way.
IndexMatchesHeaders ==
  \A k \in Key, t \in Text :
    db.fts[k, t] = IF db.headers[k] # None /\ db.headers[k].text = t THEN 1 ELSE 0

\* A Sync takes effect at one instant, over what every earlier one committed,
\* or not at all (CachePromise).
Listings == {[mailbox |-> MailboxOf[j], text |-> job[j].page] :
               j \in {i \in Job : ~At(i, "idle")}}
Promise == INSTANCE CachePromise WITH rows <- db.headers, offered <- Listings
SyncIsAtomic == Promise!Spec

\* A command that synced shows at least the page it synced, whatever the other
\* jobs committed in between, but for messages that other mailboxes received too.
ShowsWhatItSynced ==
  \A j \in Job :
    At(j, "done") /\ Command[j] # "search" =>
      {k \in DOMAIN job[j].page : Cardinality(Recipients[k]) = 1} \subseteq job[j].shown

\* However jobs of the same mailbox get in each other's way (the lock, outdated
\* snapshots, the shared connection) and processes crash, what DynamoDB lists
\* is in the cache some time: a failed or dead transaction leaves nothing behind
\* that keeps the next one out.
EverythingIsCached ==
  \A j \in Job, k \in Key :
    (k \in DOMAIN List(MailboxOf[j]))
      ~> (db.headers[k] # None \/ k \notin DOMAIN List(MailboxOf[j]))
===============================================================================
