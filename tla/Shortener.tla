----------------------------- MODULE Shortener -----------------------------
(***************************************************************************)
(* Creating and resolving short URLs: service.URL's CreateShortened,       *)
(* CreateShortenedFromBatch and ReadOriginal over repository.URL, the      *)
(* global map of current URLs with its mutex, and a restart of the         *)
(* process.  Every request runs in a goroutine of its own; one step is     *)
(* what other goroutines cannot observe the middle of.                     *)
(*                                                                         *)
(* The reads of the map take no lock (service/url.go:56, 64, 119, 157), so *)
(* they visit one entry at a time, in any order.                           *)
(***************************************************************************)
EXTENDS Storage

CONSTANTS Requests,       \* requests that may arrive
          Kinds,          \* the operations they may ask for
          Seeds,          \* values of RandSeed or of time.Now().Unix()
          Stream,         \* the strings a generator with that seed yields
          SharedSeeds,    \* may two requests in flight use the same seed?
          MaxBatch,       \* bound on the elements of a batch
          MaxRestarts,    \* bound on restarts
          PgConfigured,   \* is a DSN configured?
          FileConfigured, \* is a file storage path configured?
          Faults          \* may calls to the stores fail?

ASSUME ShortenerAssumption ==
  /\ None \notin Requests \cup Seeds
  /\ Kinds \subseteq {"create", "batch", "read"}
  /\ Stream \in [Seeds -> Seq(Shorts)]
  /\ MaxBatch \in Nat /\ MaxRestarts \in Nat
  /\ {SharedSeeds, PgConfigured, FileConfigured, Faults} \subseteq BOOLEAN

VARIABLES
  table,      \* rows of urlshrt
  file,       \* the JSON file
  connected,  \* does this process hold a *sql.DB?
  mem,        \* *curURLsPtr.Urls
  mu,         \* the request holding curURLsPtr's mutex
  pc,         \* where each request is, or how it was answered
  req,        \* its input
  unseen,     \* entries its range loop has still to visit
  taken,      \* its curShrtURLs / allShortURLs
  items,      \* the elements it has chosen a short URL for
  todo,       \* indices of its new elements still to append, or to publish
  told,       \* <<original, short>> pairs acknowledged to clients so far
  restarts

storeVars == <<table, file, connected>>
mapVars   == <<mem, mu>>
localVars == <<req, unseen, taken, items, todo>>
vars == <<table, file, connected, mem, mu, pc, req, unseen, taken, items, todo,
          told, restarts>>

Answers == {"created", "conflict", "failed", "found", "unknown", "gone", "lost"}
PCs == {"idle", "scan", "choose", "save", "reread", "append", "lock", "publish",
        "check", "find"} \cup Answers

Busy(r) == pc[r] \notin {"idle"} \cup Answers

Batches == UNION {[1..n -> Originals] : n \in 1..MaxBatch}

(* A request's input.  `wasGone` and `wasKnown` are history: whether every  *)
(* row with that short URL had been deleted, and whether the map had an     *)
(* entry with it, when a read arrived.                                      *)
Input == [kind : Kinds, origs : Seq(Originals), seed : Seeds \cup {None},
          user : Users \cup {None}, short : Shorts \cup {None},
          wasGone : BOOLEAN, wasKnown : BOOLEAN]
ASSUME InputAssumption == None \notin Input   \* None is no request's input

Creation(kind, origs, seed, u) ==
  [kind |-> kind, origs |-> origs, seed |-> seed, user |-> u,
   short |-> None, wasGone |-> FALSE, wasKnown |-> FALSE]
Reading(s) ==
  [kind |-> "read", origs |-> << >>, seed |-> None, user |-> None, short |-> s,
   wasGone |-> DeletedAnswers(table, s) = {TRUE},
   wasKnown |-> \E o \in Originals : mem[o] = s]

Item == [orig : Originals, short : ShortValues, new : BOOLEAN]
Pair(x) == <<x.orig, x.short>>
Pairs(r) == {Pair(items[r][i]) : i \in DOMAIN items[r]}
NewItems(r) == {i \in DOMAIN items[r] : items[r][i].new}
Unsaved(r) == [i \in todo[r] |-> items[r][i]]
IsFirst(r, i) == i \in todo[r] /\ \A j \in todo[r] : i <= j

Go(r, label) == pc' = [pc EXCEPT ![r] = label]

-----------------------------------------------------------------------------
\* Whether NewPG gets a connection: the ping may fail.  A start whose migrations
\* fail panics (main.go:547) and is no process; module Config has it.
Connections == {PgConfigured, PgConfigured /\ ~Faults}

\* What is saved, as the map it stands for: in PostgreSQL when a connection was
\* made, else in the file.
Loaded(pgUp) == IF pgUp THEN FromTable(table) ELSE FromFile(file)

\* The file as it looks to a reader who may be stopped after any line.
ReadOf(f) ==
  {f} \cup (IF f.state = "absent" THEN {}
            ELSE {[state |-> "ok", lines |-> SubSeq(f.lines, 1, n)] : n \in 0..Len(f.lines)})

(* What router() loads.  ReadAll pings again, and turns to the file when    *)
(* that fails; any error of it leaves one record of zero values; and rows   *)
(* or lines that end early go unnoticed, for rows.Err is asked before the   *)
(* loop and the scanner's error never.                                      *)
Loads(pgUp) ==
  IF ~Faults THEN {Loaded(pgUp)}
  ELSE {BlankMap} \cup {FromFile(f) : f \in ReadOf(file)}
       \cup (IF pgUp THEN {FromTable(rows) : rows \in SUBSET table} ELSE {})

Init ==
  /\ table = {} /\ file = NoFile
  /\ connected \in Connections
  /\ mem \in Loads(connected)
  /\ mu = None
  /\ pc = [r \in Requests |-> "idle"]
  /\ req = [r \in Requests |-> None]
  /\ unseen = [r \in Requests |-> {}]
  /\ taken = [r \in Requests |-> {}]
  /\ items = [r \in Requests |-> << >>]
  /\ todo = [r \in Requests |-> {}]
  /\ told = {}
  /\ restarts = 0

SeedFor(seed) == SharedSeeds \/ \A q \in Requests : Busy(q) => req[q].seed # seed

StartCreation(r, kind, origs) ==
  /\ pc[r] = "idle" /\ kind \in Kinds
  /\ \E seed \in Seeds, u \in Users :
       /\ SeedFor(seed)
       /\ req' = [req EXCEPT ![r] = Creation(kind, origs, seed, u)]
  /\ unseen' = [unseen EXCEPT ![r] = Originals]
  /\ Go(r, "scan")
  /\ UNCHANGED <<storeVars, mapVars, taken, items, todo, told, restarts>>

CreateShortened(r) == \E o \in Originals : StartCreation(r, "create", <<o>>)

CreateShortenedFromBatch(r) == \E os \in Batches : StartCreation(r, "batch", os)

ReadOriginal(r) ==
  /\ pc[r] = "idle" /\ "read" \in Kinds
  /\ \E s \in Shorts : req' = [req EXCEPT ![r] = Reading(s)]
  /\ Go(r, "check")
  /\ UNCHANGED <<storeVars, mapVars, unseen, taken, items, todo, told, restarts>>

-----------------------------------------------------------------------------
\* Mutant: the short URLs in use are not collected.
ScanNothing(r, o) ==
  /\ pc[r] = "scan" /\ o \in unseen[r]
  /\ unseen' = [unseen EXCEPT ![r] = @ \ {o}]
  /\ Go(r, IF unseen[r] = {o} THEN "choose" ELSE "scan")
  /\ UNCHANGED <<storeVars, mapVars, req, taken, items, todo, told, restarts>>

(* The short URLs in use, collected without the lock.                       *)
Scan(r, o) ==
  /\ pc[r] = "scan" /\ o \in unseen[r]
  /\ taken' = [taken EXCEPT ![r] = @ \cup ({mem[o]} \ {None})]
  /\ unseen' = [unseen EXCEPT ![r] = @ \ {o}]
  /\ Go(r, IF unseen[r] = {o} THEN "choose" ELSE "scan")
  /\ UNCHANGED <<storeVars, mapVars, req, items, todo, told, restarts>>

(* The next element: its original's short URL as the map has it (a batch    *)
(* looks, still without the lock; a single creation does not), or the first *)
(* string of the seed's stream that is not taken.                           *)
Reused(r, o) == req[r].kind = "batch" /\ mem[o] # None

ShortFor(r, o, s) ==
  IF Reused(r, o) THEN s = mem[o]
  ELSE \E k \in DOMAIN Stream[req[r].seed] :
         /\ s = Stream[req[r].seed][k] /\ s \notin taken[r]
         /\ \A j \in 1..(k - 1) : Stream[req[r].seed][j] \in taken[r]

NextOrig(r) == req[r].origs[Len(items[r]) + 1]

ChooseShort(r) ==
  /\ pc[r] = "choose" /\ Len(items[r]) < Len(req[r].origs)
  /\ LET o == NextOrig(r) IN
     \E s \in ShortValues :
       /\ ShortFor(r, o, s)
       /\ items' = [items EXCEPT ![r] =
                      Append(@, [orig |-> o, short |-> s, new |-> ~Reused(r, o)])]
       /\ taken' = [taken EXCEPT ![r] = IF Reused(r, o) THEN @ ELSE @ \cup {s}]
  /\ UNCHANGED <<storeVars, mapVars, pc, req, unseen, todo, told, restarts>>

Answer(r, code, pairs) ==
  /\ Go(r, code)
  /\ told' = told \cup pairs

\* All chosen: save the new ones, or answer at once if the batch has none.
AllChosen(r) ==
  /\ pc[r] = "choose" /\ Len(items[r]) = Len(req[r].origs)
  /\ taken' = [taken EXCEPT ![r] = {}]
  /\ todo' = [todo EXCEPT ![r] = NewItems(r)]
  /\ IF NewItems(r) = {} THEN Answer(r, "created", Pairs(r))
                         ELSE Go(r, "save") /\ UNCHANGED told
  /\ UNCHANGED <<storeVars, mapVars, req, unseen, items, restarts>>

-----------------------------------------------------------------------------
(* repository.Create and CreateBatch on PostgreSQL.  INSERT and the SELECT  *)
(* after a unique violation are one step: rows are never removed and keep   *)
(* their short URL.                                                         *)
SavingToPg(r, kind) == pc[r] = "save" /\ req[r].kind = kind /\ connected

\* Mutant: the transaction is never committed.
InsertUncommitted(r) == UNCHANGED <<table, file, connected>>

InsertRows(r) ==
  /\ table' = Insert(table, Unsaved(r), req[r].user)
  /\ UNCHANGED <<file, connected>>

\* Mutant: answer as soon as the row is saved, without publishing it.
CreateUnpublished(r) ==
  /\ SavingToPg(r, "create") /\ Fits(table, Unsaved(r))
  /\ InsertRows(r)
  /\ Answer(r, "created", Pairs(r))
  /\ UNCHANGED <<mapVars, localVars, restarts>>

Create(r) ==
  /\ SavingToPg(r, "create") /\ Fits(table, Unsaved(r))
  /\ InsertRows(r)
  /\ Go(r, "lock")
  /\ UNCHANGED <<mapVars, localVars, told, restarts>>

\* Mutant: 409 with the short URL just generated, not the one on record.
CreateConflictOwn(r) ==
  /\ SavingToPg(r, "create") /\ ~Fits(table, Unsaved(r))
  /\ Answer(r, "conflict", Pairs(r))
  /\ UNCHANGED <<storeVars, mapVars, localVars, restarts>>

\* Mutant: INSERT ... ON CONFLICT DO UPDATE.
CreateUpsert(r) ==
  /\ SavingToPg(r, "create") /\ ~Fits(table, Unsaved(r))
  /\ table' = Insert({row \in table : row.orig # items[r][1].orig},
                     Unsaved(r), req[r].user)
  /\ Go(r, "lock")
  /\ UNCHANGED <<file, connected, mapVars, localVars, told, restarts>>

CreateConflict(r) ==
  /\ SavingToPg(r, "create") /\ ~Fits(table, Unsaved(r))
  /\ \/ \E row \in table : /\ row.orig = items[r][1].orig
                           /\ Answer(r, "conflict", {Pair(row)})
     \/ Faults /\ Answer(r, "failed", {})
  /\ UNCHANGED <<storeVars, mapVars, localVars, restarts>>

\* An INSERT that fails for any other reason counts as a success (url.go:180-191).
CreateSwallowed(r) ==
  /\ Faults /\ SavingToPg(r, "create")
  /\ Go(r, "lock")
  /\ UNCHANGED <<storeVars, mapVars, localVars, told, restarts>>

CreateBatch(r) ==
  /\ SavingToPg(r, "batch") /\ Fits(table, Unsaved(r))
  /\ InsertRows(r)
  /\ \/ Go(r, "lock") /\ UNCHANGED told
     \/ Faults /\ Answer(r, "failed", {})     \* committed, and the reply was lost
  /\ UNCHANGED <<mapVars, localVars, restarts>>

\* Mutant: CreateBatch returns nil after a failed transaction.
CreateBatchIgnored(r) ==
  /\ SavingToPg(r, "batch") /\ ~Fits(table, Unsaved(r))
  /\ Go(r, "lock")
  /\ UNCHANGED <<storeVars, mapVars, localVars, told, restarts>>

\* Mutant: no transaction, so the inserts before the failed one stay.
CreateBatchPartial(r) ==
  /\ SavingToPg(r, "batch") /\ (Faults \/ ~Fits(table, Unsaved(r)))
  /\ \E i \in todo[r] : /\ IsFirst(r, i) /\ items[r][i].orig \notin Keys(table)
                        /\ table' = Insert(table, <<items[r][i]>>, req[r].user)
  /\ Answer(r, "failed", {})
  /\ UNCHANGED <<file, connected, mapVars, localVars, restarts>>

CreateBatchRejected(r) ==
  /\ SavingToPg(r, "batch") /\ (Faults \/ ~Fits(table, Unsaved(r)))
  /\ Answer(r, "failed", {})
  /\ UNCHANGED <<storeVars, mapVars, localVars, restarts>>

-----------------------------------------------------------------------------
(* The same two on the file, when there is no connection or a ping fails.   *)
(* Create reads the file before it appends; CreateBatch does not.           *)
FallBack(r) ==
  /\ pc[r] = "save" /\ (~connected \/ Faults)
  /\ IF ~FileConfigured THEN UNCHANGED file ELSE file' = Opened(file)
  /\ \/ Go(r, CASE ~FileConfigured -> "lock"
                [] FileConfigured /\ req[r].kind = "create" -> "reread"
                [] FileConfigured /\ req[r].kind = "batch"  -> "append") /\ UNCHANGED told
     \/ Faults /\ FileConfigured /\ Answer(r, "failed", {})
  /\ UNCHANGED <<table, connected, mapVars, localVars, restarts>>

\* ReadAll pings again, and may find PostgreSQL back; or it stops too early to
\* find the original (see Loads).
Reread(r) ==
  /\ pc[r] = "reread"
  /\ LET o == items[r][1].orig
         Known(keys) == /\ Go(r, IF o \in keys THEN "lock" ELSE "append")
                        /\ UNCHANGED told
     IN \/ connected /\ Known(Keys(table))
        \/ (~connected \/ Faults) /\ file.state = "ok" /\ Known(Written(file))
        \/ Faults /\ Known({})
        \/ (Faults \/ file.state = "broken") /\ Answer(r, "failed", {})
  /\ UNCHANGED <<storeVars, mapVars, localVars, restarts>>

AppendLine(r) ==
  /\ pc[r] = "append"
  /\ \E i \in todo[r] :
       /\ IsFirst(r, i)
       /\ file' = Appended(file, [orig |-> items[r][i].orig, short |-> items[r][i].short])
       /\ IF todo[r] = {i}
          THEN todo' = [todo EXCEPT ![r] = NewItems(r)] /\ Go(r, "lock")
          ELSE todo' = [todo EXCEPT ![r] = @ \ {i}] /\ UNCHANGED pc
  /\ UNCHANGED <<table, connected, mapVars, req, unseen, taken, items, told, restarts>>

AppendFails(r) ==
  /\ pc[r] = "append" /\ Faults
  /\ file' \in {file, Torn(file)}
  /\ Answer(r, "failed", {})
  /\ UNCHANGED <<table, connected, mapVars, localVars, restarts>>

-----------------------------------------------------------------------------
(* Publishing in the map, with the lock.  A creation keeps an entry that is *)
(* there and answers with it; a batch overwrites, entry by entry.           *)
Lock(r) ==
  /\ pc[r] = "lock" /\ mu = None
  /\ mu' = r
  /\ Go(r, "publish")
  /\ UNCHANGED <<storeVars, mem, localVars, told, restarts>>

\* Mutant: overwrite whatever the map has.
PublishOver(r) ==
  /\ pc[r] = "publish" /\ req[r].kind = "create"
  /\ mem' = [mem EXCEPT ![items[r][1].orig] = items[r][1].short]
  /\ Answer(r, "created", Pairs(r))
  /\ mu' = None
  /\ UNCHANGED <<storeVars, localVars, restarts>>

\* Mutant: keep the entry that is there, answer with the one generated.
PublishUntold(r) ==
  /\ pc[r] = "publish" /\ req[r].kind = "create"
  /\ mem' = [mem EXCEPT ![items[r][1].orig] = IF @ = None THEN items[r][1].short ELSE @]
  /\ Answer(r, "created", Pairs(r))
  /\ mu' = None
  /\ UNCHANGED <<storeVars, localVars, restarts>>

\* Mutant: Unlock only on the branch that found an entry.
PublishHolding(r) ==
  /\ pc[r] = "publish" /\ req[r].kind = "create"
  /\ LET x == items[r][1] IN
     /\ mem' = [mem EXCEPT ![x.orig] = IF @ = None THEN x.short ELSE @]
     /\ mu' = IF mem[x.orig] = None THEN mu ELSE None
     /\ Answer(r, "created", {<<x.orig, mem'[x.orig]>>})
  /\ UNCHANGED <<storeVars, localVars, restarts>>

PublishOne(r) ==
  /\ pc[r] = "publish" /\ req[r].kind = "create"
  /\ LET x == items[r][1] IN
     IF mem[x.orig] = None
     THEN /\ mem' = [mem EXCEPT ![x.orig] = x.short]
          /\ Answer(r, "created", {Pair(x)})
     ELSE /\ UNCHANGED mem
          /\ Answer(r, "created", {<<x.orig, mem[x.orig]>>})
  /\ mu' = None
  /\ UNCHANGED <<storeVars, localVars, restarts>>

\* Mutant: every new element is a pointer to the same, last one.
PublishBatchLast(r) ==
  /\ pc[r] = "publish" /\ req[r].kind = "batch"
  /\ mem' = [o \in Originals |->
               IF \E i \in todo[r] : items[r][i].orig = o
               THEN items[r][Len(items[r])].short ELSE mem[o]]
  /\ todo' = [todo EXCEPT ![r] = {}]
  /\ mu' = None
  /\ Answer(r, "created", Pairs(r))
  /\ UNCHANGED <<storeVars, req, unseen, taken, items, restarts>>

PublishBatch(r) ==
  /\ pc[r] = "publish" /\ req[r].kind = "batch"
  /\ \E i \in todo[r] :
       /\ IsFirst(r, i)
       /\ mem' = [mem EXCEPT ![items[r][i].orig] = items[r][i].short]
       /\ todo' = [todo EXCEPT ![r] = @ \ {i}]
       /\ IF todo[r] = {i}
          THEN mu' = None /\ Answer(r, "created", Pairs(r))
          ELSE UNCHANGED <<mu, pc, told>>
  /\ UNCHANGED <<storeVars, req, unseen, taken, items, restarts>>

-----------------------------------------------------------------------------
\* Mutant: the map is searched first.
CheckNothing(r) ==
  /\ pc[r] = "check"
  /\ Go(r, "find")
  /\ unseen' = [unseen EXCEPT ![r] = Originals]
  /\ UNCHANGED <<storeVars, mapVars, req, taken, items, todo, told, restarts>>

(* ReadOriginal: deleted?  Any error of that query counts as "no", and so   *)
(* does a short URL the table does not have; then the map is searched,      *)
(* without the lock, for any entry with that short URL.                     *)
CheckDeleted(r) ==
  /\ pc[r] = "check"
  /\ LET answers == DeletedAnswers(table, req[r].short) IN
     \/ /\ connected /\ TRUE \in answers
        /\ Go(r, "gone")
        /\ UNCHANGED unseen
     \/ /\ ~connected \/ Faults \/ FALSE \in answers \/ answers = {}
        /\ Go(r, "find")
        /\ unseen' = [unseen EXCEPT ![r] = Originals]
  /\ UNCHANGED <<storeVars, mapVars, req, taken, items, todo, told, restarts>>

Find(r, o) ==
  /\ pc[r] = "find" /\ o \in unseen[r]
  /\ IF mem[o] = req[r].short
     THEN /\ items' = [items EXCEPT
                ![r] = <<[orig |-> o, short |-> req[r].short, new |-> FALSE]>>]
          /\ unseen' = [unseen EXCEPT ![r] = {}]
          /\ Go(r, "found")
     ELSE /\ unseen' = [unseen EXCEPT ![r] = @ \ {o}]
          /\ Go(r, IF unseen[r] = {o} THEN "unknown" ELSE "find")
          /\ UNCHANGED items
  /\ UNCHANGED <<storeVars, mapVars, req, taken, todo, told, restarts>>

-----------------------------------------------------------------------------
\* A batch of deletions is flushed; module DeletePipeline models where it comes from.
FlushDeletions ==
  /\ connected
  /\ \E s \in Shorts, u \in Users :
       /\ \E row \in table : row.short = s /\ row.user = u /\ ~row.deleted
       /\ table' = MarkDeleted(table, {<<s, u>>})
  /\ UNCHANGED <<file, connected, mapVars, pc, localVars, told, restarts>>

(* The process stops at any point and is started again: what was in flight  *)
(* is lost, the map is what router() loads.                                 *)
Restart ==
  /\ restarts < MaxRestarts
  /\ restarts' = restarts + 1
  /\ connected' \in Connections
  /\ mem' \in Loads(connected')
  /\ mu' = None
  /\ pc' = [r \in Requests |-> IF Busy(r) THEN "lost" ELSE pc[r]]
  /\ UNCHANGED <<table, file, localVars, told>>

Arrive(r) == CreateShortened(r) \/ CreateShortenedFromBatch(r) \/ ReadOriginal(r)

Continue(r) ==
  \/ \E o \in Originals : Scan(r, o) \/ Find(r, o)
  \/ ChooseShort(r) \/ AllChosen(r)
  \/ Create(r) \/ CreateConflict(r) \/ CreateSwallowed(r)
  \/ CreateBatch(r) \/ CreateBatchRejected(r)
  \/ FallBack(r) \/ Reread(r) \/ AppendLine(r) \/ AppendFails(r)
  \/ Lock(r) \/ PublishOne(r) \/ PublishBatch(r)
  \/ CheckDeleted(r)

Next ==
  \/ \E r \in Requests : Arrive(r) \/ Continue(r)
  \/ FlushDeletions
  \/ Restart

Spec == Init /\ [][Next]_vars

\* A goroutine that can run does run; sync.Mutex hands the lock over in the end.
FairSpec == Spec /\ \A r \in Requests : WF_vars(Continue(r))

-----------------------------------------------------------------------------
(* Every variable holds what its declaration says; a busy request has an    *)
(* input and works on its own elements.                                     *)
TypeOK ==
  /\ table \subseteq Row
  /\ file \in File
  /\ connected \in BOOLEAN
  /\ mem \in Map
  /\ mu \in Requests \cup {None}
  /\ pc \in [Requests -> PCs]
  /\ req \in [Requests -> Input \cup {None}]
  /\ unseen \in [Requests -> SUBSET Originals]
  /\ taken \in [Requests -> SUBSET ShortValues]
  /\ items \in [Requests -> Seq(Item)]
  /\ todo \in [Requests -> SUBSET Nat]
  /\ told \subseteq Originals \X ShortValues
  /\ restarts \in Nat

(* Clients are never told two short URLs for one original, whichever of     *)
(* them created it, in a batch or alone, racing or after a restart          *)
(* (CreateShortened's 201 and 409 answers and the batch reply).             *)
Agreement == \A p, q \in told : p[1] = q[1] => p = q

(* A short URL a client was told is in the table, for that original: it     *)
(* survives a crash at any point ("calls repository level to save it to     *)
(* database", service/url.go:32 and 135).                                   *)
Durable == \A p \in told : Holds(table, p[1], p[2])

(* The map never shows a pair the table does not hold: it is written after  *)
(* the table and never gets ahead of it, nor does it drift from it.         *)
MemBacked == \A o \in Originals : mem[o] # None => Holds(table, o, mem[o])

(* An entry of the map is never changed nor lost, though batches overwrite  *)
(* entries one by one (service/url.go:100) and a restart loads them anew:   *)
(* a link that works keeps working.                                         *)
EntriesStay == [][\A o \in Originals : mem[o] # None => mem'[o] = mem[o]]_mem

(* One short URL never stands for two originals in the table, so that       *)
(* ReadOriginal's "any entry with that short URL" is the only one.  Holds   *)
(* as long as requests in flight together do not share a seed.              *)
ShortsDistinct == \A x, y \in table : x.short = y.short => x = y

(* A read of a short URL that had been deleted before it arrived is         *)
(* answered 410 / NotFound, not with the original (service/url.go:115-132). *)
GoneStaysGone ==
  \A r \in Requests : pc[r] = "found" => ~req[r].wasGone

(* A client that was told a short URL and asks for it gets that original,   *)
(* or "deleted": never the original of another client's URL.                *)
ReadsWhatWasTold ==
  \A r \in Requests : pc[r] = "found" =>
     \A p \in told : p[2] = req[r].short => p = Pair(items[r][1])

(* A short URL the map had when a read of it arrived is found, or deleted:  *)
(* the search without the lock (service/url.go:119) does not miss an entry  *)
(* for all that is published meanwhile.                                     *)
KnownIsFound ==
  \A r \in Requests : pc[r] = "unknown" => ~req[r].wasKnown

(* In a server without PostgreSQL, the map is the authority: what a client  *)
(* was told is what the map has, in spite of the order the file got it in.  *)
ToldInMem == \A p \in told : mem[p[1]] = p[2]

(* A batch is in the table as a whole or not at all, whichever of its       *)
(* inserts, its commit or the commit's acknowledgement failed               *)
(* (WithTransaction, repository/url.go:32-50).  Said of a batch whose seed  *)
(* no other request had: one that repeats it may save the same pairs.       *)
BatchAllOrNothing ==
  \A r \in Requests :
     /\ req[r] # None /\ req[r].kind = "batch" /\ pc[r] \in Answers
     /\ \A q \in Requests \ {r} : req[q] = None \/ req[q].seed # req[r].seed
     => LET saved == {i \in NewItems(r) : Holds(table, items[r][i].orig, items[r][i].short)}
        IN saved \in {{}, NewItems(r)}

(* Whatever a client was told is what a restart would find saved            *)
(* (repository/url.go:119, service/url.go:32 and 135), with either store.   *)
Saved == \A p \in told : Loaded(connected)[p[1]] = p[2]

(* Whatever a client was told can be resolved in the end: the 409 answer    *)
(* may come before the creator has published its entry, but not for good.   *)
EventuallyResolvable ==
  \A o \in Originals, s \in ShortValues : <<o, s>> \in told ~> mem[o] = s

\* No request is left waiting, for the lock or for a free string.
EveryRequestAnswered == \A r \in Requests : Busy(r) ~> pc[r] \in Answers

(* On PostgreSQL the shortener keeps the promise of UrlBook: rows are the   *)
(* book, and every step of it assigns, tells or leaves both alone.          *)
Bindings == {Pair(row) : row \in table}
Book == INSTANCE UrlBook WITH book <- Bindings
KeepsBook == Book!BookSpec
=============================================================================
