--------------------------- MODULE MailCache_proofs ---------------------------
(***************************************************************************)
(* Theorems about MailCache.  The inductive invariant IInv has four parts: *)
(*   Types   the types, and a job still has to write only keys of its page;*)
(*   Held    the write lock is held by an open transaction, and a          *)
(*           connection by the only transaction of its process;            *)
(*   Exact   the full-text index of the tables holds the words of every    *)
(*           cached header and nothing else;                               *)
(*   Sound   what a transaction sees is what it began with under the rows  *)
(*           it has written, and its index is exact except at the row it   *)
(*           is replacing.                                                 *)
(* A job that commits holds the lock and began with the tables as they     *)
(* are, so that its whole page, and nothing else, enters them at once.     *)
(***************************************************************************)
EXTENDS MailCache, FiniteSetTheorems, TLAPS

------------------------------------------------------------------------------
(* The newest of some keys *)

\* The keys above the one that has fewest above it are none.
LEMMA NewestIsThere ==
  ASSUME NEW S \in SUBSET Key, S # {}
  PROVE  Max(S) \in S
<1> DEFINE Above(x) == {y \in S : y > x}
           Tails == {Above(x) : x \in S}
<1>1. IsFiniteSet(S) /\ S \subseteq Nat
  BY KeyAssumption, FS_Subset
<1>2. Tails \subseteq FiniteSubsetsOf(S)
  BY <1>1, FS_Subset DEF FiniteSubsetsOf
<1>3. PICK x \in S : \A y \in S : <<Above(y), Above(x)>> \notin StrictSubsetOrdering(S)
  <2>1. Tails # {}
    OBVIOUS
  <2>2. PICK T \in Tails : \A U \in Tails : <<U, T>> \notin StrictSubsetOrdering(S)
    <3>1. IsWellFoundedOn(StrictSubsetOrdering(S), FiniteSubsetsOf(S))
      BY FS_StrictSubsetOrderingWellFounded
    <3> HIDE DEF Tails
    <3>2. \E T \in Tails : \A U \in Tails : ~ (<<U, T>> \in StrictSubsetOrdering(S))
      BY <1>2, <2>1, <3>1, WFMin, Zenon
    <3> QED BY <3>2, Zenon
  <2> QED BY <2>2
<1>4. ASSUME NEW y \in S, y > x PROVE FALSE
  <2>1. Above(y) \subseteq Above(x) /\ y \in Above(x) /\ y \notin Above(y)
    <3>1. x \in Nat /\ y \in Nat /\ \A z \in S : z \in Nat
      BY <1>1
    <3>2. \A z \in S : z > y => z > x
      BY <1>4, <3>1
    <3>3. y \notin Above(y)
      BY <3>1
    <3> QED BY <1>4, <3>2, <3>3
  <2>2. <<Above(y), Above(x)>> \in StrictSubsetOrdering(S)
    BY <2>1 DEF StrictSubsetOrdering
  <2> QED BY <1>3, <2>2
<1>5. \A y \in S : x >= y
  BY <1>1, <1>4
<1> QED BY <1>5 DEF Max

------------------------------------------------------------------------------
(* What a job knows of its transaction *)

JobRecord ==
  [at : Phases, page : Page, todo : SUBSET Key, opened : BOOLEAN,
   outdated : BOOLEAN, view : Database, old : Row, shown : SUBSET Key]

Types ==
  /\ index \in [Mailbox -> [Key -> Text \cup {None}]]
  /\ db \in Database
  /\ writer \in Job \cup {NoJob}
  /\ job \in [Job -> JobRecord]
  /\ \A j \in Job : job[j].todo \subseteq DOMAIN job[j].page

\* The lock is held by a transaction that has written on the newest snapshot, ...
LockHeld ==
  /\ writer # NoJob =>
       /\ job[writer].at \in InTx
       /\ job[writer].opened /\ ~job[writer].outdated
  /\ \A j \in Job : job[j].at = "commit" => writer = j

\* ... and a connection by the only transaction of its process.
ConnectionHeld ==
  /\ conn \in [Process -> BOOLEAN]
  /\ \A p \in Process :
       conn[p] <=> \E j \in Job : ProcessOf[j] = p /\ job[j].at \in InTx
  /\ \A i, j \in Job :
       /\ job[i].at \in InTx /\ job[j].at \in InTx
       /\ ProcessOf[i] = ProcessOf[j]
       => i = j

Held == LockHeld /\ ConnectionHeld

\* The index of v has exactly the entries of the headers in K.
Entries(row, t) == IF row # None /\ row.text = t THEN 1 ELSE 0
Exact(v, K) == \A k \in K, t \in Text : v.fts[k, t] = Entries(v.headers[k], t)

\* The rows of r's page that its transaction has written.
Written(r) ==
  (DOMAIN r.page \ r.todo) \cup (IF r.at = "insert" THEN {Max(r.todo)} ELSE {})

\* What holds between the statements of a transaction r of mailbox m over the
\* database d: its view is d under the rows it has written, and the index of
\* the view is exact but for the row that is being replaced.
Sound(r, m, d) ==
  /\ r.at \notin InTx => ~r.opened
  /\ r.at \in InTx =>
       /\ (r.at \in {"state", "commit"}) <=> (r.todo = {})
       /\ ~r.opened => r.at \in {"read", "state"} /\ r.todo = DOMAIN r.page
       /\ r.opened /\ ~r.outdated =>
            /\ \A k \in Key : r.view.headers[k] =
                 IF k \in Written(r) THEN [pk |-> m, text |-> r.page[k]]
                 ELSE d.headers[k]
            /\ r.at \in {"read", "delete", "state", "commit"} => Exact(r.view, Key)
            /\ r.at = "delete" => /\ r.old = r.view.headers[Max(r.todo)]
                                  /\ r.old # None
            /\ r.at \in {"upsert", "insert"} =>
                 /\ Exact(r.view, Key \ {Max(r.todo)})
                 /\ \A t \in Text : r.view.fts[Max(r.todo), t] = 0

IInv ==
  /\ Types /\ Held /\ Exact(db, Key)
  /\ \A j \in Job : Sound(job[j], MailboxOf[j], db)

------------------------------------------------------------------------------
LEMMA EmptyTyped == Empty \in Database
  BY DEF Empty, Database, Row

LEMMA NoPageTyped == NoPage \in Page /\ DOMAIN NoPage = {}
<1>1. NoPage \in [{} -> Text] /\ {} \in SUBSET Key
  BY DEF NoPage
<1> QED BY <1>1 DEF Page, NoPage

LEMMA PageTyped ==
  ASSUME NEW page \in Page
  PROVE  /\ DOMAIN page \subseteq Key
         /\ \A k \in DOMAIN page : page[k] \in Text
  BY DEF Page

\* A job that has not begun its transaction, or has given up.
LEMMA BegunTyped ==
  ASSUME NEW phase \in {"idle", "listed", "failed"}, NEW page \in Page
  PROVE  LET r == Begun(phase, page) IN
         /\ r \in JobRecord /\ r.at \notin InTx /\ ~r.opened
         /\ r.todo \subseteq DOMAIN r.page
  BY EmptyTyped DEF Begun, JobRecord, Row, Phases, InTx

LEMMA ListTyped ==
  ASSUME Types, NEW m \in Mailbox
  PROVE  /\ List(m) \in Page
         /\ \A k \in DOMAIN List(m) : k \in Key /\ index[m][k] # None
<1> DEFINE S == Newest({i \in Key : index[m][i] # None})
<1>1. S \subseteq {i \in Key : index[m][i] # None}
  BY DEF Newest
<1>2. List(m) \in [S -> Text] /\ S \in SUBSET Key /\ DOMAIN List(m) = S
  BY <1>1 DEF List, Types
<1> QED BY <1>1, <1>2 DEF Page

\* One job changes, the others do not.
LEMMA OneJob ==
  ASSUME Types, NEW j \in Job, NEW r, job' = [job EXCEPT ![j] = r]
  PROVE  /\ job'[j] = r
         /\ \A i \in Job : i # j => job'[i] = job[i]
         /\ DOMAIN job' = Job
         /\ r \in JobRecord => job' \in [Job -> JobRecord]
  BY DEF Types

------------------------------------------------------------------------------
(* One job moves: what must be shown of it *)

\* A job outside its transaction has nothing to keep.
LEMMA SoundOutside ==
  ASSUME NEW r, NEW m, NEW d, r.at \notin InTx, ~r.opened
  PROVE  Sound(r, m, d)
  BY DEF Sound

LEMMA JobMoves ==
  ASSUME IInv, NEW j \in Job, NEW r \in JobRecord, job' = [job EXCEPT ![j] = r],
         r.todo \subseteq DOMAIN r.page, Sound(r, MailboxOf[j], db),
         UNCHANGED <<index, db>>, writer' \in Job \cup {NoJob}, Held'
  PROVE  IInv'
<1>1. /\ job'[j] = r
      /\ \A i \in Job : i # j => job'[i] = job[i]
      /\ job' \in [Job -> JobRecord]
  BY OneJob DEF IInv
<1>2. Types'
  BY <1>1 DEF IInv, Types
<1>3. \A i \in Job : Sound(job'[i], MailboxOf[i], db')
  BY <1>1 DEF IInv
<1>4. Exact(db', Key)
  BY DEF IInv
<1> QED BY <1>2, <1>3, <1>4 DEF IInv

LEMMA ConnectionKept ==
  ASSUME ConnectionHeld, UNCHANGED conn,
         \A i \in Job : job'[i].at \in InTx <=> job[i].at \in InTx
  PROVE  ConnectionHeld'
  BY DEF ConnectionHeld

\* Outside of every transaction before and after.
LEMMA HeldOutside ==
  ASSUME IInv, NEW j \in Job, NEW r, job' = [job EXCEPT ![j] = r],
         job[j].at \notin InTx, r.at \notin InTx, UNCHANGED <<writer, conn>>
  PROVE  Held'
<1>1. job'[j] = r /\ \A i \in Job : i # j => job'[i] = job[i]
  BY OneJob DEF IInv
<1>2. r.at # "commit" /\ (writer # NoJob => writer # j)
  BY DEF InTx, IInv, Held, LockHeld
<1>3. \A i \in Job : job'[i].at \in InTx <=> job[i].at \in InTx
  BY <1>1
<1>4. LockHeld'
  BY <1>1, <1>2 DEF IInv, Held, LockHeld, Types
<1> QED BY <1>3, <1>4, ConnectionKept DEF IInv, Held

\* Inside of its transaction before and after, without writing.
LEMMA HeldReading ==
  ASSUME IInv, NEW j \in Job, NEW r, job' = [job EXCEPT ![j] = r],
         job[j].at \in InTx, r.at \in InTx \ {"commit"}, UNCHANGED <<writer, conn>>,
         r.opened, r.outdated = job[j].outdated
  PROVE  Held'
<1>1. job'[j] = r /\ \A i \in Job : i # j => job'[i] = job[i]
  BY OneJob DEF IInv
<1>2. \A i \in Job : job'[i].at \in InTx <=> job[i].at \in InTx
  BY <1>1
<1>3. LockHeld'
  BY <1>1 DEF IInv, Held, LockHeld, Types
<1> QED BY <1>2, <1>3, ConnectionKept DEF IInv, Held

\* ... and with the lock, which MayWrite lets it have.
LEMMA HeldWriting ==
  ASSUME IInv, NEW j \in Job, NEW r, job' = [job EXCEPT ![j] = r],
         job[j].at \in InTx, r.at \in InTx, UNCHANGED conn, MayWrite(j),
         writer' = j, r.opened, ~r.outdated
  PROVE  Held'
<1>1. job'[j] = r /\ \A i \in Job : i # j => job'[i] = job[i]
  BY OneJob DEF IInv
<1>2. \A i \in Job : job'[i].at \in InTx <=> job[i].at \in InTx
  BY <1>1
<1>3. \A i \in Job : job'[i].at = "commit" => i = j
  BY <1>1, JobAssumption DEF IInv, Held, LockHeld, MayWrite
<1>4. LockHeld'
  BY <1>1, <1>3 DEF LockHeld
<1> QED BY <1>2, <1>4, ConnectionKept DEF IInv, Held

\* A transaction that ends gives its connection back, and the lock if it had it.
LEMMA HeldEnding ==
  ASSUME IInv, NEW j \in Job, job[j].at \in InTx,
         conn' = ConnectionReturned(j), writer' = LockReleased(j),
         job'[j].at \notin InTx,
         \A i \in Job : i # j => /\ job'[i].at = job[i].at
                                 /\ job'[i].opened = job[i].opened
                                 /\ writer = i => job'[i].outdated = job[i].outdated
  PROVE  Held'
<1>1. ProcessOf[j] \in Process
  BY JobAssumption
<1>2. \A p \in Process : conn'[p] = IF p = ProcessOf[j] THEN FALSE ELSE conn[p]
  BY <1>1 DEF ConnectionReturned, IInv, Held, ConnectionHeld
<1>3. conn' \in [Process -> BOOLEAN]
  BY DEF ConnectionReturned, IInv, Held, ConnectionHeld
<1>4. \A i \in Job : job'[i].at \in InTx <=> (i # j /\ job[i].at \in InTx)
  OBVIOUS
<1>5. ASSUME NEW p \in Process
      PROVE  conn'[p] <=> \E i \in Job : ProcessOf[i] = p /\ job'[i].at \in InTx
  <2>1. \A i \in Job : job[i].at \in InTx /\ ProcessOf[i] = ProcessOf[j] => i = j
    BY DEF IInv, Held, ConnectionHeld
  <2>2. conn[p] <=> \E i \in Job : ProcessOf[i] = p /\ job[i].at \in InTx
    BY DEF IInv, Held, ConnectionHeld
  <2>3. CASE p = ProcessOf[j]
    BY <1>2, <1>4, <2>1, <2>3
  <2>4. CASE p # ProcessOf[j]
    BY <1>2, <1>4, <2>2, <2>4
  <2> QED BY <2>3, <2>4
<1>6. ConnectionHeld'
  BY <1>3, <1>4, <1>5 DEF IInv, Held, ConnectionHeld
<1>7. \A i \in Job : job'[i].at = "commit" => writer' = i
  <2>1. "commit" \in InTx
    BY DEF InTx
  <2> QED BY <2>1, <1>4, JobAssumption DEF IInv, Held, LockHeld, LockReleased
<1>8. writer' # NoJob => writer' = writer /\ writer \in Job /\ writer # j
  BY DEF IInv, Types, LockReleased
<1>9. LockHeld'
  BY <1>7, <1>8 DEF IInv, Held, LockHeld
<1> QED BY <1>6, <1>9 DEF Held

------------------------------------------------------------------------------
(* The statements of a transaction *)

\* The row that a statement is about.
LEMMA CurrentTyped ==
  ASSUME IInv, NEW j \in Job, job[j].at \in {"read", "delete", "upsert", "insert"}
  PROVE  /\ Current(j) \in job[j].todo /\ Current(j) \in Key
         /\ Current(j) \in DOMAIN job[j].page
         /\ job[j].page[Current(j)] \in Text
<1>1. job[j] \in JobRecord /\ job[j].todo \subseteq DOMAIN job[j].page
  BY DEF IInv, Types
<1>2. job[j].todo # {} /\ job[j].todo \in SUBSET Key
  BY <1>1 DEF IInv, Sound, InTx, JobRecord
<1> QED BY <1>1, <1>2, NewestIsThere, PageTyped DEF Current, JobRecord

\* What the next statement of an up-to-date transaction sees.
LEMMA ViewIsSound ==
  ASSUME IInv, NEW j \in Job, job[j].at \in {"read", "state"}
  PROVE  /\ View(j) \in Database
         /\ ~(job[j].opened /\ job[j].outdated) =>
              /\ Exact(View(j), Key)
              /\ \A k \in Key : View(j).headers[k] =
                   IF k \in DOMAIN job[j].page \ job[j].todo
                   THEN [pk |-> MailboxOf[j], text |-> job[j].page[k]]
                   ELSE db.headers[k]
<1>1. job[j] \in JobRecord /\ db \in Database /\ Exact(db, Key)
  BY DEF IInv, Types
<1>2. job[j].at \in InTx /\ Sound(job[j], MailboxOf[j], db)
  BY DEF IInv, InTx
<1>3. CASE job[j].opened
  BY <1>1, <1>2, <1>3 DEF View, Sound, Written, JobRecord
<1>4. CASE ~job[j].opened
  BY <1>1, <1>2, <1>4 DEF View, Sound
<1> QED BY <1>3, <1>4

LEMMA ReadOldKeeps ==
  ASSUME IInv, NEW j \in Job, ReadOld(j) PROVE IInv'
<1> DEFINE q == job[j]
           c == Current(j)
           was == View(j).headers[c]
           r == [at |-> IF was # None THEN "delete" ELSE "upsert",
                 page |-> q.page, todo |-> q.todo, opened |-> TRUE,
                 outdated |-> q.outdated, view |-> View(j), old |-> was,
                 shown |-> q.shown]
<1>1. q \in JobRecord /\ q.at = "read" /\ q.at \in InTx /\ q.todo \subseteq DOMAIN q.page
  BY DEF IInv, Types, ReadOld, At, InTx
<1>2. c \in q.todo /\ c \in Key
  BY <1>1, CurrentTyped
<1>3. View(j) \in Database /\ was \in Row
  BY <1>1, <1>2, ViewIsSound DEF Database
<1>4. job' = [job EXCEPT ![j] = r]
  <2>1. job' = [job EXCEPT ![j] = job'[j]]
    BY DEF ReadOld, IInv, Types
  <2>2. job'[j] = r
    BY <1>1 DEF ReadOld, IInv, Types, JobRecord
  <2> QED BY <2>1, <2>2
<1>5. r \in JobRecord /\ r.at \in InTx \ {"commit"}
  BY <1>1, <1>3 DEF JobRecord, Phases, InTx
<1>6. Sound(r, MailboxOf[j], db)
  <2>1. Sound(q, MailboxOf[j], db) /\ q.todo # {}
    BY <1>2 DEF IInv
  <2>2. r.at \in {"delete", "upsert"} /\ Written(r) = DOMAIN q.page \ q.todo
    BY DEF Written
  <2>3. ASSUME ~q.outdated
        PROVE  /\ \A k \in Key : View(j).headers[k] =
                    IF k \in Written(r) THEN [pk |-> MailboxOf[j], text |-> q.page[k]]
                    ELSE db.headers[k]
               /\ Exact(View(j), Key)
    BY <1>1, <2>2, <2>3, ViewIsSound
  <2>4. ASSUME ~q.outdated, was = None
        PROVE  /\ Exact(View(j), Key \ {c})
               /\ \A t \in Text : View(j).fts[c, t] = 0
    BY <1>2, <2>3, <2>4 DEF Exact, Entries
  <2>5. /\ r.at \in InTx \ {"commit"} /\ r.at = (IF was # None THEN "delete" ELSE "upsert")
        /\ r.opened /\ r.outdated = q.outdated /\ r.view = View(j) /\ r.old = was
        /\ r.todo = q.todo /\ r.page = q.page /\ c = Max(r.todo)
    BY <1>5 DEF Current
  <2>6. was = View(j).headers[c]
    OBVIOUS
  <2> HIDE DEF r, c, was
  <2> QED BY <2>1, <2>2, <2>3, <2>4, <2>5, <2>6 DEF Sound
<1>7. Held'
  <2>1. r.opened /\ r.outdated = q.outdated /\ UNCHANGED <<writer, conn>>
    BY DEF ReadOld
  <2> HIDE DEF r
  <2> QED BY <2>1, <1>1, <1>4, <1>5, HeldReading
<1> QED
  <2>1. r.todo \subseteq DOMAIN r.page /\ writer' \in Job \cup {NoJob} /\ UNCHANGED <<index, db>>
    BY <1>1 DEF ReadOld, IInv, Types
  <2> HIDE DEF r
  <2> QED BY <2>1, <1>4, <1>5, <1>6, <1>7, JobMoves

\* A view that agrees with an exact one on some keys is exact there.
LEMMA ExactAlike ==
  ASSUME NEW v, NEW w, NEW K, Exact(w, K),
         \A k \in K : v.headers[k] = w.headers[k],
         \A k \in K, t \in Text : v.fts[k, t] = w.fts[k, t]
  PROVE  Exact(v, K)
  BY DEF Exact

\* ... and an entry is added to it, or taken from it, with the row's text.
LEMMA ExactAt ==
  ASSUME NEW v, NEW K, NEW c \in K, Exact(v, K \ {c}), v.headers[c] # None,
         \A t \in Text : v.fts[c, t] = IF t = v.headers[c].text THEN 1 ELSE 0
  PROVE  Exact(v, K)
  BY DEF Exact, Entries

\* A statement that writes: what is left to show is what its new view is.
LEMMA WriteKeeps ==
  ASSUME IInv, NEW j \in Job, NEW next \in InTx, NEW v \in Database, Write(j, next, v),
         job[j].at \in InTx,
         Sound([job[j] EXCEPT !.view = v, !.opened = TRUE, !.at = next],
               MailboxOf[j], db)
  PROVE  IInv'
<1> DEFINE q == job[j]
           r == [q EXCEPT !.view = v, !.opened = TRUE, !.at = next]
<1>1. q \in JobRecord /\ q.todo \subseteq DOMAIN q.page /\ next \in Phases
  BY DEF IInv, Types, Phases
<1>2. r \in JobRecord /\ r.todo \subseteq DOMAIN r.page
  BY <1>1 DEF JobRecord
<1>3. r.at = next /\ r.opened /\ r.outdated = q.outdated
  BY <1>1 DEF JobRecord
<1>4. job' = [job EXCEPT ![j] = r]
  BY DEF Write, IInv, Types
<1>5. Held'
  BY <1>3, <1>4, HeldWriting DEF Write, MayWrite
<1>6. writer' \in Job \cup {NoJob} /\ UNCHANGED <<index, db>>
  BY DEF Write
<1> HIDE DEF r
<1> QED BY <1>2, <1>4, <1>5, <1>6, JobMoves DEF r

LEMMA DeleteOldKeeps ==
  ASSUME IInv, NEW j \in Job, DeleteOld(j) PROVE IInv'
<1> DEFINE q == job[j]
           c == Current(j)
           e == OldEntry(j)
           v == [q.view EXCEPT !.fts =
                  [q.view.fts EXCEPT ![e] = IF @ > 0 THEN @ - 1 ELSE 0]]
           r == [q EXCEPT !.view = v, !.opened = TRUE, !.at = "upsert"]
<1>1. q \in JobRecord /\ q.at = "delete" /\ q.at \in InTx /\ ~q.outdated
  BY DEF IInv, Types, DeleteOld, At, InTx, Write, MayWrite
<1>2. c \in q.todo /\ c \in Key
  BY <1>1, CurrentTyped
<1>3. Sound(q, MailboxOf[j], db) /\ q.opened
  BY <1>1 DEF IInv, Sound
<1>4. /\ q.old = q.view.headers[c] /\ q.old # None /\ Exact(q.view, Key)
      /\ \A k \in Key : q.view.headers[k] =
           IF k \in Written(q) THEN [pk |-> MailboxOf[j], text |-> q.page[k]]
           ELSE db.headers[k]
  BY <1>1, <1>3 DEF Sound, Current
<1>5. q.view \in Database /\ q.old.text \in Text
  BY <1>1, <1>2, <1>4 DEF JobRecord, Row
<1>6. /\ v \in Database /\ v.headers = q.view.headers
      /\ \A k \in Key, t \in Text :
           v.fts[k, t] = IF k = c /\ t = q.old.text THEN 0 ELSE q.view.fts[k, t]
  <2>1. q.view.fts \in [Key \X Text -> Nat] /\ e = <<c, q.old.text>> /\ q.view.fts[e] = 1
    BY <1>2, <1>4, <1>5 DEF Database, OldEntry, Exact, Entries
  <2> DEFINE f == [q.view.fts EXCEPT ![e] = IF @ > 0 THEN @ - 1 ELSE 0]
  <2>2. f = [q.view.fts EXCEPT ![<<c, q.old.text>>] = 0]
    BY <2>1
  <2>3. f \in [Key \X Text -> Nat]
    BY <1>2, <1>5, <2>1, <2>2
  <2>4. \A k \in Key, t \in Text :
          f[k, t] = IF k = c /\ t = q.old.text THEN 0 ELSE q.view.fts[k, t]
    BY <1>2, <1>5, <2>1, <2>2
  <2>5. v = [q.view EXCEPT !.fts = f]
    OBVIOUS
  <2> HIDE DEF f, v
  <2> QED BY <1>5, <2>3, <2>4, <2>5 DEF Database
<1> HIDE DEF v
<1>7. /\ r.at = "upsert" /\ r.view = v /\ r.opened /\ r.todo = q.todo /\ r.page = q.page
      /\ Written(r) = Written(q)
  BY <1>1 DEF JobRecord, Written
<1>8. /\ Exact(v, Key \ {c})
      /\ \A t \in Text : v.fts[c, t] = 0
  <2>1. Exact(v, Key \ {c})
    <3>1. \A k \in Key \ {c}, t \in Text : v.fts[k, t] = q.view.fts[k, t]
      BY <1>6
    <3>2. \A k \in Key \ {c} : v.headers[k] = q.view.headers[k]
      BY <1>6
    <3> QED BY <1>4, <3>1, <3>2 DEF Exact
  <2>2. ASSUME NEW t \in Text, t # q.old.text PROVE q.view.fts[c, t] = 0
    BY <1>2, <1>4, <2>2 DEF Exact, Entries
  <2>3. \A t \in Text : v.fts[c, t] = 0
    BY <1>2, <1>6, <2>2
  <2> QED BY <2>1, <2>3
<1>9. Sound(r, MailboxOf[j], db)
  <2>1. \A k \in Key : v.headers[k] =
          IF k \in Written(r) THEN [pk |-> MailboxOf[j], text |-> r.page[k]]
          ELSE db.headers[k]
    BY <1>4, <1>6, <1>7
  <2>2. c = Max(r.todo) /\ r.todo # {} /\ r.at \in InTx
    BY <1>2, <1>7 DEF Current, InTx
  <2> HIDE DEF r, c
  <2> QED BY <1>7, <1>8, <2>1, <2>2 DEF Sound
<1> QED
  BY <1>1, <1>6, <1>9, WriteKeeps DEF DeleteOld, InTx, v

LEMMA UpsertKeeps ==
  ASSUME IInv, NEW j \in Job, Upsert(j) PROVE IInv'
<1> DEFINE q == job[j]
           c == Current(j)
           row == [pk |-> MailboxOf[j], text |-> q.page[c]]
           v == [q.view EXCEPT !.headers[c] = row]
           r == [q EXCEPT !.view = v, !.opened = TRUE, !.at = "insert"]
<1>1. q \in JobRecord /\ q.at = "upsert" /\ q.at \in InTx /\ ~q.outdated
  BY DEF IInv, Types, Upsert, At, InTx, Write, MayWrite
<1>2. c \in q.todo /\ c \in Key /\ row \in Row
  BY <1>1, CurrentTyped, JobAssumption DEF Row
<1>3. Sound(q, MailboxOf[j], db) /\ q.opened /\ q.view \in Database
  BY <1>1 DEF IInv, Sound, JobRecord
<1>4. /\ Exact(q.view, Key \ {c})
      /\ \A t \in Text : q.view.fts[c, t] = 0
      /\ \A k \in Key : q.view.headers[k] =
           IF k \in Written(q) THEN [pk |-> MailboxOf[j], text |-> q.page[k]]
           ELSE db.headers[k]
  BY <1>1, <1>3 DEF Sound, Current
<1>5. /\ v \in Database /\ v.fts = q.view.fts
      /\ \A k \in Key : v.headers[k] = IF k = c THEN row ELSE q.view.headers[k]
  BY <1>2, <1>3 DEF Database
<1> HIDE DEF v
<1>6. /\ r.at = "insert" /\ r.view = v /\ r.opened /\ r.todo = q.todo /\ r.page = q.page
      /\ Written(r) = Written(q) \cup {c}
  BY <1>1 DEF JobRecord, Written, Current
<1>7. Exact(v, Key \ {c}) /\ \A t \in Text : v.fts[c, t] = 0
  <2>1. \A k \in Key \ {c} : v.headers[k] = q.view.headers[k]
    BY <1>5
  <2>2. v.fts = q.view.fts
    BY <1>5
  <2> QED BY <1>4, <2>1, <2>2, ExactAlike
<1>8. Sound(r, MailboxOf[j], db)
  <2> HIDE DEF r
  <2> QED BY <1>2, <1>4, <1>5, <1>6, <1>7 DEF Sound, Current, InTx
<1> QED
  BY <1>1, <1>5, <1>8, WriteKeeps DEF Upsert, InTx, v

LEMMA InsertNewKeeps ==
  ASSUME IInv, NEW j \in Job, InsertNew(j) PROVE IInv'
<1> DEFINE q == job[j]
           c == Current(j)
           e == NewEntry(j)
           f == [q.view.fts EXCEPT ![e] = @ + 1]
           v == [q.view EXCEPT !.fts = f]
           rest == q.todo \ {c}
           r == [at |-> IF rest # {} THEN "read" ELSE "state",
                 page |-> q.page, todo |-> rest, opened |-> q.opened,
                 outdated |-> q.outdated, view |-> v, old |-> q.old,
                 shown |-> q.shown]
<1>1. /\ q \in JobRecord /\ q.at = "insert" /\ q.at \in InTx /\ ~q.outdated
      /\ q.todo \subseteq DOMAIN q.page
  BY DEF IInv, Types, InsertNew, At, InTx, MayWrite
<1>2. c \in q.todo /\ c \in Key /\ q.page[c] \in Text /\ c \in DOMAIN q.page
  BY <1>1, CurrentTyped
<1>3. Sound(q, MailboxOf[j], db) /\ q.opened /\ q.view \in Database
  BY <1>1 DEF IInv, Sound, JobRecord
<1>4. /\ Exact(q.view, Key \ {c})
      /\ \A t \in Text : q.view.fts[c, t] = 0
      /\ \A k \in Key : q.view.headers[k] =
           IF k \in Written(q) THEN [pk |-> MailboxOf[j], text |-> q.page[k]]
           ELSE db.headers[k]
  BY <1>1, <1>3 DEF Sound, Current
<1>5. /\ f \in [Key \X Text -> Nat]
      /\ \A k \in Key, t \in Text :
           f[k, t] = IF k = c /\ t = q.page[c] THEN 1 ELSE q.view.fts[k, t]
  <2>1. q.view.fts \in [Key \X Text -> Nat]
    BY <1>3 DEF Database
  <2>2. e = <<c, q.page[c]>> /\ q.view.fts[e] = 0
    BY <1>2, <1>4 DEF NewEntry
  <2>3. f = [q.view.fts EXCEPT ![<<c, q.page[c]>>] = 1]
    BY <2>2
  <2> HIDE DEF f
  <2> QED BY <1>2, <2>1, <2>3
<1>6. v \in Database /\ v.headers = q.view.headers /\ v.fts = f
  BY <1>3, <1>5 DEF Database
<1>7. job' = [job EXCEPT ![j] = r]
  <2>1. job' = [job EXCEPT ![j] = job'[j]]
    BY DEF InsertNew, IInv, Types
  <2>2. job'[j] = r
    BY <1>1, <1>3 DEF InsertNew, IInv, Types, JobRecord, Database
  <2> QED BY <2>1, <2>2
<1>8. Exact(v, Key)
  <2>1. c \in Written(q) /\ [pk |-> MailboxOf[j], text |-> q.page[c]] # None
    BY <1>1, <1>2, JobAssumption, NoneAssumption DEF Written, Current
  <2>2. v.headers[c] = [pk |-> MailboxOf[j], text |-> q.page[c]]
    BY <1>2, <1>4, <1>6, <2>1
  <2>3. v.headers[c] # None /\ v.headers[c].text = q.page[c]
    BY <2>1, <2>2
  <2>4. ASSUME NEW t \in Text
        PROVE  v.fts[c, t] = IF t = q.page[c] THEN 1 ELSE 0
    <3>1. v.fts[c, t] = IF t = q.page[c] THEN 1 ELSE q.view.fts[c, t]
      <4> HIDE DEF f, v
      <4> QED BY <1>2, <1>5, <1>6
    <3>2. q.view.fts[c, t] = 0
      BY <1>4
    <3> HIDE DEF f, v
    <3> QED BY <3>1, <3>2
  <2>5. \A k \in Key \ {c}, t \in Text : v.fts[k, t] = q.view.fts[k, t]
    <3> HIDE DEF f
    <3> QED BY <1>5, <1>6
  <2> HIDE DEF f, v
  <2>6. Exact(v, Key \ {c})
    BY <1>4, <1>6, <2>5 DEF Exact
  <2> QED BY <1>2, <2>3, <2>4, <2>6, ExactAt
<1> HIDE DEF f, v
<1>9. /\ r \in JobRecord /\ r.at \in InTx /\ r.todo \subseteq DOMAIN r.page
      /\ r.opened /\ ~r.outdated
  BY <1>1, <1>3, <1>6 DEF JobRecord, Phases, InTx
<1>10. Sound(r, MailboxOf[j], db)
  <2>1. Written(r) = Written(q)
    BY <1>1, <1>2 DEF Written, Current
  <2>2. /\ r.at \in {"state", "commit"} <=> r.todo = {}
        /\ r.at \in {"read", "state"}
        /\ r.view = v /\ r.page = q.page
    OBVIOUS
  <2> HIDE DEF r
  <2> QED BY <1>4, <1>6, <1>8, <1>9, <2>1, <2>2 DEF Sound
<1>11. writer' = j /\ UNCHANGED <<index, db, conn>> /\ MayWrite(j)
  BY DEF InsertNew
<1> HIDE DEF r
<1>12. Held'
  BY <1>1, <1>7, <1>9, <1>11, HeldWriting
<1> QED
  BY <1>7, <1>9, <1>10, <1>11, <1>12, JobMoves

LEMMA RecordStateKeeps ==
  ASSUME IInv, NEW j \in Job, RecordState(j) PROVE IInv'
<1> DEFINE q == job[j]
           last == IF DOMAIN q.page = {} THEN 0 ELSE Max(DOMAIN q.page)
           v == [View(j) EXCEPT !.last_sk[MailboxOf[j]] = last]
           r == [q EXCEPT !.view = v, !.opened = TRUE, !.at = "commit"]
<1>1. q \in JobRecord /\ q.at = "state" /\ q.at \in InTx /\ ~q.outdated
  BY DEF IInv, Types, RecordState, At, InTx, Write, MayWrite
<1>2. Sound(q, MailboxOf[j], db) /\ q.todo = {}
  BY <1>1 DEF IInv, Sound
<1>3. last \in Key \cup {0}
  BY <1>1, PageTyped, NewestIsThere DEF JobRecord
<1>4. /\ View(j) \in Database /\ Exact(View(j), Key)
      /\ \A k \in Key : View(j).headers[k] =
           IF k \in DOMAIN q.page THEN [pk |-> MailboxOf[j], text |-> q.page[k]]
           ELSE db.headers[k]
  BY <1>1, <1>2, ViewIsSound
<1>5. v \in Database /\ v.headers = View(j).headers /\ v.fts = View(j).fts
  <2> HIDE DEF last
  <2> QED BY <1>3, <1>4 DEF Database
<1>6. Exact(v, Key)
  <2> HIDE DEF v
  <2> QED BY <1>4, <1>5, ExactAlike
<1>7. /\ r.at = "commit" /\ r.view = v /\ r.opened /\ r.todo = {} /\ r.page = q.page
      /\ Written(r) = DOMAIN q.page
  <2> HIDE DEF v
  <2> QED BY <1>1, <1>2 DEF JobRecord, Written
<1>8. Sound(r, MailboxOf[j], db)
  <2>1. r.at \in InTx
    BY <1>7 DEF InTx
  <2>2. \A k \in Key : v.headers[k] =
          IF k \in Written(r) THEN [pk |-> MailboxOf[j], text |-> r.page[k]]
          ELSE db.headers[k]
    <3> HIDE DEF r, v
    <3> QED BY <1>4, <1>5, <1>7
  <2> HIDE DEF r, v
  <2> QED BY <1>6, <1>7, <2>1, <2>2 DEF Sound
<1>9. Write(j, "commit", v)
  BY DEF RecordState
<1> HIDE DEF v
<1> QED
  BY <1>1, <1>5, <1>8, <1>9, WriteKeeps DEF InTx

------------------------------------------------------------------------------
(* The other actions *)

LEMMA BeginTxKeeps ==
  ASSUME IInv, NEW j \in Job, BeginTx(j) PROVE IInv'
<1> DEFINE q == job[j]
           r == [at |-> IF DOMAIN q.page # {} THEN "read" ELSE "state",
                 page |-> q.page, todo |-> DOMAIN q.page, opened |-> q.opened,
                 outdated |-> q.outdated, view |-> q.view, old |-> q.old,
                 shown |-> q.shown]
<1>1. /\ q \in JobRecord /\ q.at = "listed" /\ q.at \notin InTx
      /\ ~conn[ProcessOf[j]]
  BY DEF IInv, Types, BeginTx, At, InTx, ConnectionFree
<1>2. job' = [job EXCEPT ![j] = r]
  <2>1. job' = [job EXCEPT ![j] = job'[j]]
    BY DEF BeginTx, IInv, Types
  <2>2. job'[j] = r
    BY <1>1 DEF BeginTx, IInv, Types, JobRecord
  <2> QED BY <2>1, <2>2
<1>3. r \in JobRecord /\ r.todo \subseteq DOMAIN r.page
  BY <1>1, PageTyped DEF JobRecord, Phases, InTx
<1>4. ~q.opened
  BY <1>1 DEF IInv, Sound
<1>5. Sound(r, MailboxOf[j], db) /\ r.at \in InTx \ {"commit"}
  BY <1>4 DEF Sound, InTx
<1>6. Held'
  <2> HIDE DEF r
  <2>1. job'[j] = r /\ \A i \in Job : i # j => job'[i] = job[i]
    BY <1>2, OneJob DEF IInv
  <2>2. writer # j /\ UNCHANGED writer
    BY <1>1, JobAssumption DEF BeginTx, IInv, Held, LockHeld
  <2>3. LockHeld'
    BY <1>5, <2>1, <2>2 DEF IInv, Types, Held, LockHeld
  <2>4. /\ conn \in [Process -> BOOLEAN] /\ conn' = [conn EXCEPT ![ProcessOf[j]] = TRUE]
        /\ ProcessOf[j] \in Process
    BY JobAssumption DEF BeginTx, TakeConnection, IInv, Held, ConnectionHeld
  <2>5. \A i \in Job : job'[i].at \in InTx <=> (i = j \/ job[i].at \in InTx)
    BY <1>5, <2>1
  <2>6. \A i \in Job : job[i].at \in InTx => ProcessOf[i] # ProcessOf[j]
    BY <1>1, <2>4 DEF IInv, Held, ConnectionHeld
  <2>7. ASSUME NEW p \in Process
        PROVE  conn'[p] <=> \E i \in Job : ProcessOf[i] = p /\ job'[i].at \in InTx
    <3>1. conn[p] <=> \E i \in Job : ProcessOf[i] = p /\ job[i].at \in InTx
      BY DEF IInv, Held, ConnectionHeld
    <3>2. CASE p = ProcessOf[j]
      BY <2>4, <2>5, <3>2
    <3>3. CASE p # ProcessOf[j]
      BY <2>4, <2>5, <3>1, <3>3
    <3> QED BY <3>2, <3>3
  <2>8. ConnectionHeld'
    <3>1. conn' \in [Process -> BOOLEAN]
      BY <2>4
    <3>2. ASSUME NEW i \in Job, NEW k \in Job, job'[i].at \in InTx,
                 job'[k].at \in InTx, ProcessOf[i] = ProcessOf[k]
          PROVE  i = k
      BY <2>5, <2>6, <3>2 DEF IInv, Held, ConnectionHeld
    <3> QED BY <2>7, <3>1, <3>2 DEF ConnectionHeld
  <2> QED BY <2>3, <2>8 DEF Held
<1>7. writer' \in Job \cup {NoJob} /\ UNCHANGED <<index, db>>
  BY DEF BeginTx, IInv, Types
<1> HIDE DEF r
<1> QED BY <1>2, <1>3, <1>5, <1>6, <1>7, JobMoves

\* Listing a page, reading the cache, giving up, and starting again.
LEMMA OutsideKeeps ==
  ASSUME IInv, NEW j \in Job, NEW r \in JobRecord, job' = [job EXCEPT ![j] = r],
         job[j].at \notin InTx, r.at \notin InTx, ~r.opened,
         r.todo \subseteq DOMAIN r.page, UNCHANGED <<index, db, writer, conn>>
  PROVE  IInv'
<1>1. Held'
  BY HeldOutside
<1>2. writer' \in Job \cup {NoJob}
  BY DEF IInv, Types
<1> QED BY <1>1, <1>2, SoundOutside, JobMoves

LEMMA BeginsAgain ==
  ASSUME IInv, NEW j \in Job, job[j].at \notin InTx,
         NEW phase \in {"idle", "listed", "failed"}, NEW page \in Page,
         job' = [job EXCEPT ![j] = Begun(phase, page)],
         UNCHANGED <<index, db, writer, conn>>
  PROVE  IInv'
<1> DEFINE r == Begun(phase, page)
<1>1. r \in JobRecord /\ r.at \notin InTx /\ ~r.opened /\ r.todo \subseteq DOMAIN r.page
  BY BegunTyped
<1>2. job' = [job EXCEPT ![j] = r]
  OBVIOUS
<1> HIDE DEF r
<1> QED BY <1>1, <1>2, OutsideKeeps

LEMMA ShowKeeps ==
  ASSUME IInv, NEW j \in Job, job[j].at \notin InTx, NEW keys \in SUBSET Key,
         job' = [job EXCEPT ![j].at = "done", ![j].shown = keys],
         UNCHANGED <<index, db, writer, conn>>
  PROVE  IInv'
<1> DEFINE q == job[j]
           r == [q EXCEPT !.at = "done", !.shown = keys]
<1>1. q \in JobRecord /\ q.todo \subseteq DOMAIN q.page /\ ~q.opened
  BY DEF IInv, Types, Sound
<1>2. job' = [job EXCEPT ![j] = r]
  BY DEF IInv, Types
<1>3. r \in JobRecord /\ r.at \notin InTx /\ ~r.opened /\ r.todo \subseteq DOMAIN r.page
  BY <1>1 DEF JobRecord, Phases, InTx
<1> HIDE DEF r
<1> QED BY <1>2, <1>3, OutsideKeeps

LEMMA OtherStepsKeep ==
  ASSUME IInv, NEW j \in Job,
         \/ ListPage(j) \/ ListFails(j) \/ ShowList(j) \/ ShowSearch(j)
         \/ RefreshGivesUp(j) \/ Finish(j)
  PROVE  IInv'
<1>1. CASE ListPage(j)
  BY <1>1, ListTyped, JobAssumption, BeginsAgain DEF ListPage, At, InTx, IInv
<1>2. CASE ListFails(j) \/ RefreshGivesUp(j) \/ Finish(j)
  BY <1>2, NoPageTyped, BeginsAgain DEF ListFails, RefreshGivesUp, Finish, At, InTx
<1>3. CASE ShowList(j)
  <2>1. Listed(MailboxOf[j]) \in SUBSET Key /\ job[j].at \notin InTx
    BY <1>3 DEF Listed, ShowList, MayRead, At, InTx
  <2> QED BY <1>3, <2>1, ShowKeeps DEF ShowList
<1>4. CASE ShowSearch(j)
  <2>1. PICK t \in Text :
          job' = [job EXCEPT ![j].at = "done", ![j].shown = Search(MailboxOf[j], t)]
    BY <1>4 DEF ShowSearch
  <2>2. Search(MailboxOf[j], t) \in SUBSET Key /\ job[j].at \notin InTx
    BY <1>4 DEF Search, ShowSearch, MayRead, At, InTx
  <2> QED BY <1>4, <2>1, <2>2, ShowKeeps DEF ShowSearch
<1> QED BY <1>1, <1>2, <1>3, <1>4

LEMMA RollbackKeeps ==
  ASSUME IInv, NEW j \in Job, Rollback(j) PROVE IInv'
<1> DEFINE r == Begun("failed", NoPage)
<1>1. job' = [job EXCEPT ![j] = r] /\ job[j].at \in InTx /\ UNCHANGED <<index, db>>
  BY DEF Rollback, Abandoned
<1>2. /\ r \in JobRecord /\ r.at \notin InTx /\ ~r.opened /\ r.todo \subseteq DOMAIN r.page
  BY NoPageTyped, BegunTyped
<1> HIDE DEF r
<1>3. job'[j] = r /\ \A i \in Job : i # j => job'[i] = job[i]
  BY <1>1, OneJob DEF IInv
<1>4. Held'
  BY <1>1, <1>2, <1>3, HeldEnding DEF Rollback
<1>5. writer' \in Job \cup {NoJob}
  BY DEF Rollback, LockReleased, IInv, Types
<1> QED BY <1>1, <1>2, <1>4, <1>5, SoundOutside, JobMoves

\* What a commit installs.
LEMMA CommitInstalls ==
  ASSUME IInv, NEW j \in Job, Commit(j)
  PROVE  /\ db' = job[j].view /\ db' \in Database /\ Exact(db', Key)
         /\ \A k \in Key : db'.headers[k] =
              IF k \in DOMAIN job[j].page
              THEN [pk |-> MailboxOf[j], text |-> job[j].page[k]] ELSE db.headers[k]
<1> DEFINE q == job[j]
<1>1. q \in JobRecord /\ q.at = "commit" /\ q.at \in InTx /\ db' = q.view
  BY DEF IInv, Types, Commit, At, InTx
<1>2. writer = j /\ q.opened /\ ~q.outdated
  BY <1>1, JobAssumption DEF IInv, Held, LockHeld
<1>3. q.todo = {} /\ Written(q) = DOMAIN q.page
  BY <1>1 DEF IInv, Sound, Written
<1>4. /\ Exact(q.view, Key)
      /\ \A k \in Key : q.view.headers[k] =
           IF k \in Written(q) THEN [pk |-> MailboxOf[j], text |-> q.page[k]]
           ELSE db.headers[k]
  BY <1>1, <1>2 DEF IInv, Sound
<1>5. db' \in Database
  BY <1>1 DEF JobRecord
<1> QED BY <1>1, <1>3, <1>4, <1>5

LEMMA CommitKeeps ==
  ASSUME IInv, NEW j \in Job, Commit(j) PROVE IInv'
<1> DEFINE q == job[j]
           r == [q EXCEPT !.at = "synced", !.opened = FALSE, !.view = Empty]
           Late(i) == [job[i] EXCEPT !.outdated = TRUE]
<1>1. \A i \in Job : job[i] \in JobRecord /\ job[i].todo \subseteq DOMAIN job[i].page
  BY DEF IInv, Types
<1>2. q.at = "commit" /\ q.at \in InTx /\ writer = j
  BY JobAssumption DEF Commit, At, InTx, IInv, Held, LockHeld
<1>3. /\ DOMAIN job' = Job /\ job'[j] = r
      /\ \A i \in Job : i # j => job'[i] = IF Open(i) THEN Late(i) ELSE job[i]
  BY DEF Commit
<1>4. r \in JobRecord /\ r.at \notin InTx /\ ~r.opened /\ r.todo \subseteq DOMAIN r.page
  BY <1>1, EmptyTyped DEF JobRecord, Phases, InTx
<1>5. ASSUME NEW i \in Job
      PROVE  /\ Late(i) \in JobRecord /\ Late(i).todo \subseteq DOMAIN Late(i).page
             /\ Late(i).at = job[i].at /\ Late(i).opened = job[i].opened
             /\ Late(i).outdated /\ Late(i).todo = job[i].todo
             /\ Late(i).page = job[i].page
  BY <1>1 DEF JobRecord
<1> HIDE DEF r, Late
<1>6. Types'
  <2>1. \A i \in Job : job'[i] \in JobRecord /\ job'[i].todo \subseteq DOMAIN job'[i].page
    BY <1>1, <1>3, <1>4, <1>5
  <2>2. job' \in [Job -> JobRecord]
    <3>1. job' = [i \in Job |-> job'[i]]
      BY DEF Commit
    <3> QED BY <2>1, <3>1
  <2> QED BY <2>1, <2>2, CommitInstalls DEF Commit, IInv, Types
<1>7. Held'
  <2>1. conn' = ConnectionReturned(j) /\ writer' = LockReleased(j)
    BY <1>2 DEF Commit, LockReleased
  <2>2. \A i \in Job : i # j => /\ job'[i].at = job[i].at
                                /\ job'[i].opened = job[i].opened
    BY <1>3, <1>5
  <2> QED BY <1>2, <1>3, <1>4, <2>1, <2>2, HeldEnding
<1>8. ASSUME NEW i \in Job PROVE Sound(job'[i], MailboxOf[i], db')
  <2>1. CASE i = j
    BY <1>3, <1>4, <2>1, SoundOutside
  <2>2. CASE i # j /\ Open(i)
    <3>1. job[i].at \in InTx /\ Sound(job[i], MailboxOf[i], db)
      BY <2>2 DEF IInv, Open
    <3>2. job'[i] = Late(i)
      BY <1>3, <2>2
    <3> QED BY <1>5, <3>1, <3>2 DEF Sound
  <2>3. CASE i # j /\ ~Open(i)
    <3>1. ~job[i].opened /\ Sound(job[i], MailboxOf[i], db)
      BY <2>3 DEF IInv, Open, Sound
    <3>2. job'[i] = job[i]
      BY <1>3, <2>3
    <3> QED BY <3>1, <3>2 DEF Sound
  <2> QED BY <2>1, <2>2, <2>3
<1> QED BY <1>6, <1>7, <1>8, CommitInstalls DEF IInv

LEMMA CrashKeeps ==
  ASSUME IInv, NEW p \in Process, Crash(p) PROVE IInv'
<1> DEFINE r == Begun("idle", NoPage)
<1>1. r \in JobRecord /\ r.at \notin InTx /\ ~r.opened /\ r.todo \subseteq DOMAIN r.page
  BY NoPageTyped, BegunTyped
<1>2. \A i \in Job : job'[i] = IF ProcessOf[i] = p THEN r ELSE job[i]
  BY DEF Crash
<1> HIDE DEF r
<1>3. UNCHANGED <<index, db>> /\ job' = [i \in Job |-> job'[i]]
  BY DEF Crash
<1>4. writer' = IF writer # NoJob /\ ProcessOf[writer] = p THEN NoJob ELSE writer
  BY DEF Crash
<1>5. Types'
  <2>1. \A i \in Job : job'[i] \in JobRecord /\ job'[i].todo \subseteq DOMAIN job'[i].page
    BY <1>1, <1>2 DEF IInv, Types
  <2>2. job' \in [Job -> JobRecord]
    BY <1>3, <2>1
  <2> QED BY <1>3, <1>4, <2>1, <2>2 DEF IInv, Types
<1>6. \A i \in Job : job'[i].at \in InTx <=> (ProcessOf[i] # p /\ job[i].at \in InTx)
  BY <1>1, <1>2
<1>7. LockHeld'
  <2>1. \A i \in Job : job'[i].at = "commit" => ProcessOf[i] # p /\ job[i].at = "commit"
    BY <1>1, <1>2 DEF InTx
  <2>2. \A i \in Job : job'[i].at = "commit" => writer' = i
    BY <1>4, <2>1, JobAssumption DEF IInv, Held, LockHeld
  <2>3. writer' # NoJob => writer' = writer /\ writer \in Job /\ ProcessOf[writer] # p
    BY <1>4 DEF IInv, Types
  <2> QED BY <1>2, <2>2, <2>3 DEF IInv, Held, LockHeld
<1>8. ConnectionHeld'
  <2>1. conn \in [Process -> BOOLEAN] /\ conn' = [conn EXCEPT ![p] = FALSE]
    BY DEF Crash, IInv, Held, ConnectionHeld
  <2>2. ASSUME NEW o \in Process
        PROVE  conn'[o] <=> \E i \in Job : ProcessOf[i] = o /\ job'[i].at \in InTx
    <3>1. conn[o] <=> \E i \in Job : ProcessOf[i] = o /\ job[i].at \in InTx
      BY DEF IInv, Held, ConnectionHeld
    <3>2. CASE o = p
      BY <1>6, <2>1, <3>2
    <3>3. CASE o # p
      BY <1>6, <2>1, <3>1, <3>3
    <3> QED BY <3>2, <3>3
  <2>3. conn' \in [Process -> BOOLEAN]
    BY <2>1
  <2> QED BY <1>6, <2>2, <2>3 DEF IInv, Held, ConnectionHeld
<1>9. \A i \in Job : Sound(job'[i], MailboxOf[i], db')
  BY <1>1, <1>2, <1>3, SoundOutside DEF IInv
<1> QED BY <1>3, <1>5, <1>7, <1>8, <1>9 DEF IInv, Held

LEMMA TableKeeps ==
  ASSUME IInv, Deliver \/ Rewrite PROVE IInv'
<1>1. index' \in [Mailbox -> [Key -> Text \cup {None}]]
  <2>1. PICK m \in Mailbox, k \in Key, t \in Text : index' = [index EXCEPT ![m][k] = t]
    BY MailAssumption DEF Deliver, Rewrite
  <2> QED BY <2>1 DEF IInv, Types
<1>2. UNCHANGED <<db, writer, conn, job>>
  BY DEF Deliver, Rewrite
<1> QED
  BY <1>1, <1>2 DEF IInv, Types, Held, LockHeld, ConnectionHeld

LEMMA InitHolds == Init => IInv
<1> SUFFICES ASSUME Init PROVE IInv
  OBVIOUS
<1> DEFINE r == Begun("idle", NoPage)
<1>1. r \in JobRecord /\ r.at \notin InTx /\ ~r.opened /\ r.todo \subseteq DOMAIN r.page
  BY NoPageTyped, BegunTyped
<1>2. job = [j \in Job |-> r] /\ db = Empty /\ writer = NoJob /\ conn = [p \in Process |-> FALSE]
  BY DEF Init
<1> HIDE DEF r
<1>3. Types
  BY <1>1, <1>2, EmptyTyped DEF Init, Types
<1>4. Held
  BY <1>1, <1>2 DEF Held, LockHeld, ConnectionHeld, InTx
<1>5. Exact(db, Key)
  BY <1>2 DEF Exact, Entries, Empty
<1>6. \A j \in Job : Sound(job[j], MailboxOf[j], db)
  BY <1>1, <1>2, SoundOutside
<1> QED BY <1>3, <1>4, <1>5, <1>6 DEF IInv

LEMMA NextKeeps == IInv /\ [Next]_vars => IInv'
<1> SUFFICES ASSUME IInv, [Next]_vars PROVE IInv'
  OBVIOUS
<1>1. CASE UNCHANGED vars
  BY <1>1 DEF vars, IInv, Types, Held, LockHeld, ConnectionHeld
<1>2. ASSUME NEW j \in Job, SyncStep(j) PROVE IInv'
  BY <1>2, BeginTxKeeps, ReadOldKeeps, DeleteOldKeeps, UpsertKeeps, InsertNewKeeps,
     RecordStateKeeps, CommitKeeps DEF SyncStep
<1>3. ASSUME NEW j \in Job, Rollback(j) PROVE IInv'
  BY <1>3, RollbackKeeps
<1> QED
  BY <1>1, <1>2, <1>3, OtherStepsKeep, CrashKeeps, TableKeeps DEF Next

\* No error path, however transactions overlap, fail or die, leaves the lock or
\* a connection behind, and every value keeps its type.
THEOREM CacheTyped == Spec => []TypeOK
<1>1. IInv => TypeOK
  <2> SUFFICES ASSUME IInv PROVE TypeOK
    OBVIOUS
  <2>1. conn = [p \in Process |->
                  \E j \in Job : ProcessOf[j] = p /\ job[j].at \in InTx]
    BY DEF IInv, Held, ConnectionHeld
  <2> QED BY <2>1 DEF IInv, Types, Held, LockHeld, JobRecord, TypeOK
<1> QED BY InitHolds, NextKeeps, <1>1, PTL DEF Spec

\* The contentless index is exactly that of the cached headers, whatever overlaps.
THEOREM IndexIsExact == Spec => []IndexMatchesHeaders
<1>1. IInv => IndexMatchesHeaders
  BY DEF IInv, Exact, Entries, IndexMatchesHeaders
<1> QED BY InitHolds, NextKeeps, <1>1, PTL DEF Spec

------------------------------------------------------------------------------
(* Atomicity: the rows change at commits only *)

LEMMA OnlyCommitsChange ==
  ASSUME [Next]_vars
  PROVE  db' = db \/ \E j \in Job : Commit(j)
<1>1. ASSUME NEW j \in Job, SyncStep(j), ~Commit(j) PROVE db' = db
  BY <1>1 DEF SyncStep, BeginTx, ReadOld, DeleteOld, Upsert, InsertNew, RecordState, Write
<1>2. ASSUME NEW j \in Job,
             \/ ListPage(j) \/ ListFails(j) \/ Rollback(j) \/ ShowList(j)
             \/ ShowSearch(j) \/ RefreshGivesUp(j) \/ Finish(j)
      PROVE  db' = db
  BY <1>2 DEF ListPage, ListFails, Rollback, Abandoned, ShowList, ShowSearch,
              RefreshGivesUp, Finish
<1>3. CASE Deliver \/ Rewrite \/ (\E p \in Process : Crash(p)) \/ UNCHANGED vars
  BY <1>3 DEF Deliver, Rewrite, Crash, vars
<1> QED BY <1>1, <1>2, <1>3 DEF Next

\* MailCache implements CachePromise.
THEOREM SyncImplementsPromise == Spec => SyncIsAtomic
<1>1. Init => Promise!Init
  <2> SUFFICES ASSUME Init PROVE Promise!Init
    OBVIOUS
  <2>1. \A j \in Job : At(j, "idle")
    BY DEF Init, At, Begun
  <2>2. Listings = {}
    BY <2>1 DEF Listings
  <2> QED BY <2>2 DEF Init, Empty, Promise!Init
<1>2. IInv /\ IInv' /\ [Next]_vars
        => [Promise!Install \/ Promise!Listing]_<<db.headers, Listings>>
  <2> SUFFICES ASSUME IInv, IInv', [Next]_vars
               PROVE  Promise!Install \/ Promise!Listing
    OBVIOUS
  <2>1. CASE db' = db
    BY <2>1 DEF Promise!Listing
  <2>2. ASSUME NEW j \in Job, Commit(j) PROVE Promise!Install
    <3> DEFINE page == [mailbox |-> MailboxOf[j], text |-> job[j].page]
    <3>1. page \in Listings
      BY <2>2 DEF Listings, Commit, At
    <3>2. db'.headers = Promise!Overlay(page)
      <4>1. db'.headers \in [Key -> Row]
        BY DEF IInv, Types, Database
      <4>2. \A k \in Key : db'.headers[k] = Promise!Overlay(page)[k]
        BY <2>2, CommitInstalls DEF Promise!Overlay
      <4> QED BY <4>1, <4>2 DEF Promise!Overlay
    <3> QED BY <3>1, <3>2 DEF Promise!Install
  <2> QED BY <2>1, <2>2, OnlyCommitsChange
<1> QED
  BY InitHolds, NextKeeps, <1>1, <1>2, PTL DEF Spec, SyncIsAtomic, Promise!Spec

------------------------------------------------------------------------------
(* What a command shows *)

ShowInv ==
  /\ \A m \in Mailbox, k \in Key : index[m][k] # None => m \in Recipients[k]
  /\ \A j \in Job : \A k \in DOMAIN job[j].page : MailboxOf[j] \in Recipients[k]
  /\ \A k \in Key : db.headers[k] # None => db.headers[k].pk \in Recipients[k]
  /\ \A j \in Job : At(j, "failed") => DOMAIN job[j].page = {}
  /\ \A j \in Job : At(j, "synced") =>
       \A k \in DOMAIN job[j].page : db.headers[k] # None
  /\ ShowsWhatItSynced

\* What a step does to the page of a job, and to what it shows.
Quiet(j) ==
  /\ job'[j].page = job[j].page
  /\ \/ job'[j].at \notin {"failed", "synced", "done"}
     \/ job'[j].at = job[j].at /\ job'[j].shown = job[j].shown

Empties(j) == DOMAIN job'[j].page = {}

Lists(j) == job'[j].page = List(MailboxOf[j]) /\ job'[j].at = "listed"

Shows(j) ==
  /\ MayRead(j) /\ job'[j].page = job[j].page /\ job'[j].at = "done"
  /\ Command[j] = "search" \/ job'[j].shown = Listed(MailboxOf[j])

Syncs(j) == Commit(j) /\ job'[j].page = job[j].page /\ job'[j].at = "synced"

LEMMA JobSteps ==
  ASSUME IInv, [Next]_vars, NEW j \in Job
  PROVE  Quiet(j) \/ Empties(j) \/ Lists(j) \/ Shows(j) \/ Syncs(j)
<1>1. \A i \in Job : job[i] \in JobRecord
  BY DEF IInv, Types
<1>2. ASSUME NEW i \in Job, i # j,
             \/ ListPage(i) \/ ListFails(i) \/ SyncStep(i) \/ Rollback(i)
             \/ ShowList(i) \/ ShowSearch(i) \/ RefreshGivesUp(i) \/ Finish(i)
      PROVE  Quiet(j)
  <2>1. CASE ~Commit(i)
    <3>1. job'[j] = job[j]
      BY <1>2, <2>1 DEF ListPage, ListFails, SyncStep, BeginTx, ReadOld, DeleteOld, Upsert,
         InsertNew, RecordState, Write, Rollback, ShowList, ShowSearch, RefreshGivesUp,
         Finish, IInv, Types
    <3> QED BY <3>1 DEF Quiet
  <2>2. CASE Commit(i)
    <3>1. job'[j] = IF Open(j) THEN [job[j] EXCEPT !.outdated = TRUE] ELSE job[j]
      BY <1>2, <2>2 DEF Commit
    <3> QED BY <1>1, <3>1 DEF Quiet, JobRecord
  <2> QED BY <2>1, <2>2
<1>3. ASSUME SyncStep(j), ~Commit(j) PROVE Quiet(j)
  <2>1. CASE BeginTx(j)
    BY <1>1, <2>1 DEF BeginTx, Quiet, JobRecord, IInv, Types
  <2>2. CASE ReadOld(j)
    BY <1>1, <2>2 DEF ReadOld, Quiet, JobRecord, IInv, Types
  <2>3. ASSUME NEW next \in {"upsert", "insert", "commit"}, NEW v, Write(j, next, v)
        PROVE  Quiet(j)
    BY <1>1, <2>3 DEF Write, Quiet, JobRecord, IInv, Types
  <2>4. CASE DeleteOld(j) \/ Upsert(j) \/ RecordState(j)
    BY <2>3, <2>4 DEF DeleteOld, Upsert, RecordState
  <2>5. CASE InsertNew(j)
    BY <1>1, <2>5 DEF InsertNew, Quiet, JobRecord, IInv, Types
  <2> QED BY <1>3, <2>1, <2>2, <2>4, <2>5 DEF SyncStep
<1>4. ASSUME Commit(j) PROVE Syncs(j)
  BY <1>1, <1>4 DEF Commit, Syncs, JobRecord
<1>5. ASSUME ListPage(j) PROVE Lists(j)
  BY <1>5 DEF ListPage, Lists, Begun, IInv, Types
<1>6. ASSUME ListFails(j) \/ Rollback(j) \/ RefreshGivesUp(j) \/ Finish(j) PROVE Empties(j)
  BY <1>6, NoPageTyped DEF ListFails, Rollback, RefreshGivesUp, Finish, Begun, Empties,
     IInv, Types
<1>7. ASSUME ShowList(j) \/ ShowSearch(j) PROVE Shows(j)
  BY <1>1, <1>7 DEF ShowList, ShowSearch, Shows, JobRecord, IInv, Types
<1>8. ASSUME NEW p \in Process, Crash(p) PROVE Quiet(j) \/ Empties(j)
  BY <1>8, NoPageTyped DEF Crash, Begun, Quiet, Empties
<1>9. CASE Deliver \/ Rewrite \/ UNCHANGED vars
  BY <1>9 DEF Deliver, Rewrite, vars, Quiet
<1> QED
  BY <1>2, <1>3, <1>4, <1>5, <1>6, <1>7, <1>8, <1>9 DEF Next

LEMMA OneRecipient ==
  ASSUME NEW k \in Key, Cardinality(Recipients[k]) = 1,
         NEW m \in Recipients[k], NEW n \in Recipients[k]
  PROVE  m = n
<1>1. IsFiniteSet(Recipients[k])
  BY MailAssumption, FS_Subset
<1> QED BY <1>1, FS_Singleton

LEMMA RowsStay ==
  ASSUME IInv, [Next]_vars, NEW k \in Key, db.headers[k] # None
  PROVE  db'.headers[k] # None
<1>1. ASSUME NEW j \in Job, Commit(j) PROVE db'.headers[k] # None
  <2>1. k \in DOMAIN job[j].page =>
          [pk |-> MailboxOf[j], text |-> job[j].page[k]] \in [pk : Mailbox, text : Text]
    BY PageTyped, JobAssumption DEF IInv, Types, JobRecord
  <2> QED BY <1>1, <2>1, CommitInstalls, NoneAssumption
<1> QED BY <1>1, OnlyCommitsChange

LEMMA TableGrows ==
  ASSUME IInv, [Next]_vars, NEW m \in Mailbox, NEW k \in Key, index'[m][k] # None
  PROVE  index[m][k] # None \/ m \in Recipients[k]
<1>1. CASE UNCHANGED index
  BY <1>1
<1>2. CASE Deliver
  <2>1. PICK i \in Key : \E n \in Recipients[i], t \in Text :
          index' = [index EXCEPT ![n][i] = t]
    BY <1>2 DEF Deliver
  <2>2. PICK n \in Recipients[i], t \in Text : index' = [index EXCEPT ![n][i] = t]
    BY <2>1
  <2>3. n \in Mailbox
    BY MailAssumption
  <2> QED BY <2>2, <2>3 DEF IInv, Types
<1>3. CASE Rewrite
  <2>1. PICK n \in Mailbox, i \in Key, t \in Text :
          index[n][i] # None /\ index' = [index EXCEPT ![n][i] = t]
    BY <1>3 DEF Rewrite
  <2> QED BY <2>1 DEF IInv, Types
<1>4. ASSUME NEW j \in Job,
             \/ ListPage(j) \/ ListFails(j) \/ SyncStep(j) \/ Rollback(j)
             \/ ShowList(j) \/ ShowSearch(j) \/ RefreshGivesUp(j) \/ Finish(j)
      PROVE  UNCHANGED index
  BY <1>4 DEF ListPage, ListFails, SyncStep, BeginTx, ReadOld, DeleteOld, Upsert,
     InsertNew, RecordState, Write, Commit, Rollback, ShowList, ShowSearch,
     RefreshGivesUp, Finish
<1>5. ASSUME NEW p \in Process, Crash(p) PROVE UNCHANGED index
  BY <1>5 DEF Crash
<1> QED BY <1>1, <1>2, <1>3, <1>4, <1>5 DEF Next, vars

LEMMA ShowStep ==
  ASSUME IInv, ShowInv, [Next]_vars PROVE ShowInv'
<1>1. \A j \in Job : job[j] \in JobRecord /\ job[j].page \in Page /\ MailboxOf[j] \in Mailbox
  BY JobAssumption DEF IInv, Types, JobRecord
<1>2. \A m \in Mailbox, k \in Key : index'[m][k] # None => m \in Recipients[k]
  BY TableGrows DEF ShowInv
<1>3. ASSUME NEW j \in Job, NEW k \in DOMAIN job'[j].page PROVE MailboxOf[j] \in Recipients[k]
  <2>1. CASE job'[j].page = job[j].page
    BY <1>3, <2>1 DEF ShowInv
  <2>2. CASE Lists(j)
    BY <1>1, <1>3, <2>2, ListTyped DEF Lists, IInv, ShowInv
  <2> QED BY <1>3, <2>1, <2>2, JobSteps DEF Quiet, Empties, Shows, Syncs
<1>4. ASSUME NEW k \in Key, db'.headers[k] # None PROVE db'.headers[k].pk \in Recipients[k]
  <2>1. CASE db' = db
    BY <1>4, <2>1 DEF ShowInv
  <2>2. ASSUME NEW j \in Job, Commit(j) PROVE db'.headers[k].pk \in Recipients[k]
    <3>1. CASE k \in DOMAIN job[j].page
      <4>1. db'.headers[k] = [pk |-> MailboxOf[j], text |-> job[j].page[k]]
        BY <2>2, <3>1, CommitInstalls
      <4>2. db'.headers[k].pk = MailboxOf[j]
        BY <4>1
      <4> QED BY <3>1, <4>2 DEF ShowInv
    <3>2. CASE k \notin DOMAIN job[j].page
      BY <1>4, <2>2, <3>2, CommitInstalls DEF ShowInv
    <3> QED BY <3>1, <3>2
  <2> QED BY <2>1, <2>2, OnlyCommitsChange
<1>5. ASSUME NEW j \in Job, job'[j].at = "failed" PROVE DOMAIN job'[j].page = {}
  BY <1>5, JobSteps DEF Quiet, Empties, Lists, Shows, Syncs, ShowInv, At
<1>6. ASSUME NEW j \in Job, job'[j].at = "synced", NEW k \in DOMAIN job'[j].page
      PROVE  db'.headers[k] # None
  <2>1. CASE Syncs(j)
    <3>1. k \in DOMAIN job[j].page /\ k \in Key /\ job[j].page[k] \in Text
      BY <1>1, <1>6, <2>1, PageTyped DEF Syncs
    <3>2. db'.headers[k] = [pk |-> MailboxOf[j], text |-> job[j].page[k]]
      BY <2>1, <3>1, CommitInstalls DEF Syncs
    <3> QED BY <1>1, <3>1, <3>2, NoneAssumption
  <2>2. CASE Quiet(j)
    <3>1. k \in DOMAIN job[j].page /\ At(j, "synced")
      BY <1>6, <2>2 DEF Quiet, At
    <3>2. k \in Key /\ db.headers[k] # None
      BY <1>1, <3>1, PageTyped DEF ShowInv
    <3> QED BY <3>2, RowsStay
  <2> QED BY <1>6, <2>1, <2>2, JobSteps DEF Empties, Lists, Shows
<1>7. ASSUME NEW j \in Job, job'[j].at = "done", Command[j] # "search",
             NEW k \in DOMAIN job'[j].page, Cardinality(Recipients[k]) = 1
      PROVE  k \in job'[j].shown
  <2>1. CASE Shows(j)
    <3>1. k \in DOMAIN job[j].page /\ k \in Key
      BY <1>1, <1>7, <2>1, PageTyped DEF Shows
    <3>2. db.headers[k] # None
      BY <2>1, <3>1 DEF Shows, MayRead, ShowInv
    <3>3. db.headers[k].pk = MailboxOf[j]
      BY <1>7, <3>1, <3>2, OneRecipient DEF ShowInv
    <3> QED BY <1>7, <2>1, <3>1, <3>2, <3>3 DEF Shows, Listed
  <2>2. CASE Quiet(j)
    BY <1>7, <2>2 DEF Quiet, ShowInv, ShowsWhatItSynced, At
  <2> QED BY <1>7, <2>1, <2>2, JobSteps DEF Empties, Lists, Syncs
<1>8. ShowsWhatItSynced'
  BY <1>7 DEF ShowsWhatItSynced, At
<1> QED BY <1>2, <1>3, <1>4, <1>5, <1>6, <1>8 DEF ShowInv, At

\* A command shows at least what it synced itself.
THEOREM SyncedIsShown == Spec => []ShowsWhatItSynced
<1>1. Init => ShowInv
  <2> SUFFICES ASSUME Init PROVE ShowInv
    OBVIOUS
  <2>1. \A j \in Job : job[j].at = "idle" /\ DOMAIN job[j].page = {}
    BY NoPageTyped DEF Init, Begun
  <2> QED BY <2>1 DEF Init, Empty, ShowInv, ShowsWhatItSynced, At
<1>2. IInv /\ ShowInv /\ [Next]_vars => ShowInv'
  BY ShowStep
<1>3. ShowInv => ShowsWhatItSynced
  BY DEF ShowInv
<1> QED BY InitHolds, NextKeeps, <1>1, <1>2, <1>3, PTL DEF Spec

------------------------------------------------------------------------------
(* What is shown is there *)

\* A cached header is a row of the mailbox it is filed under, and a command shows
\* and lists only rows of its own mailbox.
OnlyRows ==
  /\ \A k \in Key : db.headers[k] # None => index[db.headers[k].pk][k] # None
  /\ \A j \in Job : \A k \in DOMAIN job[j].page \cup job[j].shown :
       index[MailboxOf[j]][k] # None

LEMMA TableStays ==
  ASSUME IInv, [Next]_vars, NEW m \in Mailbox, NEW k \in Key, index[m][k] # None
  PROVE  index'[m][k] # None
<1>1. CASE UNCHANGED index
  BY <1>1
<1>2. CASE Deliver \/ Rewrite
  <2>1. PICK n \in Mailbox, i \in Key, t \in Text : index' = [index EXCEPT ![n][i] = t]
    BY <1>2, MailAssumption DEF Deliver, Rewrite
  <2> QED BY <2>1, NoneAssumption DEF IInv, Types
<1>3. ASSUME NEW j \in Job,
             \/ ListPage(j) \/ ListFails(j) \/ SyncStep(j) \/ Rollback(j)
             \/ ShowList(j) \/ ShowSearch(j) \/ RefreshGivesUp(j) \/ Finish(j)
      PROVE  UNCHANGED index
  BY <1>3 DEF ListPage, ListFails, SyncStep, BeginTx, ReadOld, DeleteOld, Upsert,
     InsertNew, RecordState, Write, Commit, Rollback, ShowList, ShowSearch,
     RefreshGivesUp, Finish
<1>4. ASSUME NEW p \in Process, Crash(p) PROVE UNCHANGED index
  BY <1>4 DEF Crash
<1> QED BY <1>1, <1>2, <1>3, <1>4 DEF Next, vars

\* What a job shows it has listed.
LEMMA ShownSteps ==
  ASSUME IInv, [Next]_vars, NEW j \in Job
  PROVE  job'[j].shown \subseteq job[j].shown \cup Listed(MailboxOf[j])
<1>1. \A i \in Job : job[i] \in JobRecord
  BY DEF IInv, Types
<1>2. ASSUME NEW i \in Job, i # j,
             \/ ListPage(i) \/ ListFails(i) \/ SyncStep(i) \/ Rollback(i)
             \/ ShowList(i) \/ ShowSearch(i) \/ RefreshGivesUp(i) \/ Finish(i)
      PROVE  job'[j].shown = job[j].shown
  <2>1. CASE ~Commit(i)
    BY <1>2, <2>1 DEF ListPage, ListFails, SyncStep, BeginTx, ReadOld, DeleteOld, Upsert,
       InsertNew, RecordState, Write, Rollback, ShowList, ShowSearch, RefreshGivesUp,
       Finish, IInv, Types
  <2>2. CASE Commit(i)
    <3>1. job'[j] = IF Open(j) THEN [job[j] EXCEPT !.outdated = TRUE] ELSE job[j]
      BY <1>2, <2>2 DEF Commit
    <3> QED BY <1>1, <3>1 DEF JobRecord
  <2> QED BY <2>1, <2>2
<1>3. ASSUME SyncStep(j) PROVE job'[j].shown = job[j].shown
  <2>1. CASE BeginTx(j)
    BY <1>1, <2>1 DEF BeginTx, JobRecord, IInv, Types
  <2>2. CASE ReadOld(j)
    BY <1>1, <2>2 DEF ReadOld, JobRecord, IInv, Types
  <2>3. ASSUME NEW next, NEW v, Write(j, next, v) PROVE job'[j].shown = job[j].shown
    BY <1>1, <2>3 DEF Write, JobRecord, IInv, Types
  <2>4. CASE DeleteOld(j) \/ Upsert(j) \/ RecordState(j)
    BY <2>3, <2>4 DEF DeleteOld, Upsert, RecordState
  <2>5. CASE InsertNew(j)
    BY <1>1, <2>5 DEF InsertNew, JobRecord, IInv, Types
  <2>6. CASE Commit(j)
    BY <1>1, <2>6 DEF Commit, JobRecord
  <2> QED BY <1>3, <2>1, <2>2, <2>4, <2>5, <2>6 DEF SyncStep
<1>4. ASSUME \/ ListPage(j) \/ ListFails(j) \/ Rollback(j) \/ RefreshGivesUp(j) \/ Finish(j)
      PROVE  job'[j].shown = {}
  BY <1>4 DEF ListPage, ListFails, Rollback, RefreshGivesUp, Finish, Begun, IInv, Types
<1>5. ASSUME ShowList(j) PROVE job'[j].shown = Listed(MailboxOf[j])
  BY <1>1, <1>5 DEF ShowList, JobRecord, IInv, Types
<1>6. ASSUME ShowSearch(j) PROVE job'[j].shown \subseteq Listed(MailboxOf[j])
  <2>1. PICK t \in Text : job'[j].shown = Search(MailboxOf[j], t)
    BY <1>1, <1>6 DEF ShowSearch, JobRecord, IInv, Types
  <2> QED BY <2>1 DEF Search, Listed
<1>7. ASSUME NEW p \in Process, Crash(p)
      PROVE  job'[j].shown = {} \/ job'[j].shown = job[j].shown
  BY <1>7 DEF Crash, Begun
<1>8. CASE Deliver \/ Rewrite \/ UNCHANGED vars
  BY <1>8 DEF Deliver, Rewrite, vars
<1>9. /\ (\E i \in Job : \/ ListPage(i) \/ ListFails(i) \/ SyncStep(i) \/ Rollback(i)
                         \/ ShowList(i) \/ ShowSearch(i) \/ RefreshGivesUp(i) \/ Finish(i))
      => job'[j].shown \subseteq job[j].shown \cup Listed(MailboxOf[j])
  BY <1>2, <1>3, <1>4, <1>5, <1>6
<1> QED BY <1>7, <1>8, <1>9 DEF Next

LEMMA OnlyRowsStep ==
  ASSUME IInv, OnlyRows, [Next]_vars PROVE OnlyRows'
<1>1. \A j \in Job : /\ job[j] \in JobRecord /\ job[j].page \in Page
                     /\ job[j].shown \in SUBSET Key /\ MailboxOf[j] \in Mailbox
  BY JobAssumption DEF IInv, Types, JobRecord
<1>2. \A k \in Key : db.headers[k] # None => db.headers[k].pk \in Mailbox
  BY DEF IInv, Types, Database, Row
<1>3. ASSUME NEW k \in Key, db'.headers[k] # None
      PROVE  index'[db'.headers[k].pk][k] # None
  <2>1. CASE db' = db
    BY <1>2, <1>3, <2>1, TableStays DEF OnlyRows
  <2>2. ASSUME NEW j \in Job, Commit(j) PROVE index'[db'.headers[k].pk][k] # None
    <3>1. CASE k \in DOMAIN job[j].page
      <4>1. db'.headers[k] = [pk |-> MailboxOf[j], text |-> job[j].page[k]]
        BY <2>2, <3>1, CommitInstalls
      <4>2. db'.headers[k].pk = MailboxOf[j]
        BY <4>1
      <4> QED BY <1>1, <3>1, <4>2, TableStays DEF OnlyRows
    <3>2. CASE k \notin DOMAIN job[j].page
      BY <1>2, <1>3, <2>2, <3>2, CommitInstalls, TableStays DEF OnlyRows
    <3> QED BY <3>1, <3>2
  <2> QED BY <2>1, <2>2, OnlyCommitsChange
<1>4. ASSUME NEW j \in Job, NEW k \in DOMAIN job'[j].page
      PROVE  index'[MailboxOf[j]][k] # None
  <2>1. CASE job'[j].page = job[j].page
    <3>1. k \in DOMAIN job[j].page /\ k \in Key
      BY <1>1, <1>4, <2>1, PageTyped
    <3> QED BY <1>1, <3>1, TableStays DEF OnlyRows
  <2>2. CASE Lists(j)
    <3>1. k \in Key /\ index[MailboxOf[j]][k] # None
      BY <1>1, <1>4, <2>2, ListTyped DEF Lists, IInv
    <3> QED BY <1>1, <3>1, TableStays
  <2> QED BY <1>4, <2>1, <2>2, JobSteps DEF Quiet, Empties, Shows, Syncs
<1>5. ASSUME NEW j \in Job, NEW k \in job'[j].shown
      PROVE  index'[MailboxOf[j]][k] # None
  <2>1. k \in job[j].shown \cup Listed(MailboxOf[j])
    BY <1>5, ShownSteps
  <2>2. k \in Key /\ index[MailboxOf[j]][k] # None
    BY <1>1, <2>1 DEF Listed, OnlyRows
  <2> QED BY <1>1, <2>2, TableStays
<1> QED BY <1>3, <1>4, <1>5 DEF OnlyRows

\* Nothing is listed, cached or shown that is not a row of the table, in any order
\* of deliveries, Syncs, failures and crashes.
THEOREM OnlyRowsAreShown == Spec => []OnlyRows
<1>1. Init => OnlyRows
  <2> SUFFICES ASSUME Init PROVE OnlyRows
    OBVIOUS
  <2>1. \A j \in Job : DOMAIN job[j].page = {} /\ job[j].shown = {}
    BY NoPageTyped DEF Init, Begun
  <2> QED BY <2>1 DEF Init, Empty, OnlyRows
<1>2. IInv /\ OnlyRows /\ [Next]_vars => OnlyRows'
  BY OnlyRowsStep
<1> QED BY InitHolds, NextKeeps, <1>1, <1>2, PTL DEF Spec
=============================================================================
