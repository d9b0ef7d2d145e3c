-------------------------- MODULE StatisticsProofs --------------------------
(***************************************************************************)
(* The statistics the service answers with are those of the short URLs it  *)
(* resolves.  The map that is read and the table that is counted are two   *)
(* stores; while both servers share a database they agree, and a short URL *)
(* is the name of one row.                                                 *)
(***************************************************************************)
EXTENDS ServiceProofs

(* A short URL names one row.                                               *)
Distinct(t) == \A x, y \in t : x.short = y.short => x = y

(* The map has what the table has.                                          *)
InView(m, t) == \A o \in Originals : IF o \in Keys(t) THEN Holds(t, o, m[o]) ELSE m[o] = None

Viewed == Serving /\ ~split => shared /\ InView(mem, Table("http"))

(* The inductive invariant, on top of ServiceInv.                           *)
StatsInv ==
  /\ ServiceInv
  /\ \A d \in Databases : Distinct(tables[d])
  /\ Viewed
  /\ StatsCountResolvable

(* INSERTs with short URLs of their own leave every short URL with one row. *)
LEMMA InsertDistinct ==
  ASSUME NEW t, NEW recs, NEW u, Distinct(t),
         \A i \in DOMAIN recs : \A row \in t : row.short # recs[i].short,
         \A i, j \in DOMAIN recs : recs[i].short = recs[j].short => i = j
  PROVE  Distinct(Insert(t, recs, u))
<1>1. \A i \in DOMAIN recs : NewRow(recs[i], u).short = recs[i].short
  BY DEF NewRow
<1> SUFFICES ASSUME NEW x \in Insert(t, recs, u), NEW y \in Insert(t, recs, u),
                    x.short = y.short
             PROVE  x = y
  BY DEF Distinct
<1>2. CASE x \in t /\ y \in t
  BY <1>2 DEF Distinct
<1>3. CASE \E i, j \in DOMAIN recs : x = NewRow(recs[i], u) /\ y = NewRow(recs[j], u)
  BY <1>3, <1>1
<1>4. ASSUME NEW z \in t, NEW i \in DOMAIN recs
      PROVE  z.short # NewRow(recs[i], u).short
  BY <1>1
<1> QED BY <1>2, <1>3, <1>4 DEF Insert

(* What is inserted and put into the map together keeps them in agreement.  *)
LEMMA InsertView ==
  ASSUME NEW t, NEW recs, NEW u, NEW m, NEW n, InView(m, t), Fits(t, recs),
         \A i \in DOMAIN recs : n[recs[i].orig] = recs[i].short,
         \A o \in Originals : (\A i \in DOMAIN recs : recs[i].orig # o) => n[o] = m[o]
  PROVE  InView(n, Insert(t, recs, u))
<1> SUFFICES ASSUME NEW o \in Originals
             PROVE  IF o \in Keys(Insert(t, recs, u)) THEN Holds(Insert(t, recs, u), o, n[o])
                    ELSE n[o] = None
  BY DEF InView
<1>1. \A i \in DOMAIN recs : NewRow(recs[i], u).orig = recs[i].orig
  BY DEF NewRow
<1>2. CASE \E i \in DOMAIN recs : recs[i].orig = o
  <2>1. Holds(Insert(t, recs, u), o, n[o])
    BY <1>2, InsertHolds
  <2>2. o \in Keys(Insert(t, recs, u))
    BY <2>1 DEF Holds, Keys
  <2> QED BY <2>1, <2>2
<1>3. CASE \A i \in DOMAIN recs : recs[i].orig # o
  <2>1. n[o] = m[o]
    BY <1>3
  <2>2. o \in Keys(Insert(t, recs, u)) <=> o \in Keys(t)
    BY <1>1, <1>3 DEF Keys, Insert
  <2> QED BY <2>1, <2>2, InsertHolds DEF InView
<1> QED BY <1>2, <1>3

(* Marking rows changes neither.                                            *)
LEMMA MarkView ==
  ASSUME NEW t \in SUBSET Row, NEW pairs, NEW m
  PROVE  /\ InView(m, t) => InView(m, MarkDeleted(t, pairs))
         /\ Distinct(t) => Distinct(MarkDeleted(t, pairs))
<1>1. \A row \in t : /\ Marked(row, pairs).orig = row.orig
                     /\ Marked(row, pairs).short = row.short
  BY MarkedRow
<1>2. Keys(MarkDeleted(t, pairs)) = Keys(t)
  BY <1>1 DEF Keys, MarkDeleted
<1>3. InView(m, t) => InView(m, MarkDeleted(t, pairs))
  BY <1>2, MarkHolds DEF InView
<1>4. Distinct(t) => Distinct(MarkDeleted(t, pairs))
  BY <1>1 DEF Distinct, MarkDeleted
<1> QED BY <1>3, <1>4

-----------------------------------------------------------------------------
(* What is counted is what resolves.                                        *)
LEMMA CountsResolvable ==
  ASSUME StatsInv, Serving, ~split, NEW v \in Servers
  PROVE  /\ CountURLsAndUsers(v).urls = Cardinality(Resolvable(v))
         /\ CountURLsAndUsers(v).users <= CountURLsAndUsers(v).urls
<1> DEFINE t     == Table(v)
           live  == {row \in t : ~row.deleted}
           users == {row.user : row \in live}
           f     == [row \in live |-> row.orig]
           g     == [row \in live |-> row.user]
<1>1. /\ t \in SUBSET Row /\ UniqueKeys(t) /\ Distinct(t) /\ InView(mem, t)
  <2>1. Dsn(v) \in Databases /\ Table("http") = t
    BY DEF StatsInv, ServiceInv, Reachable, Viewed, Table, Dsn
  <2> QED BY <2>1 DEF StatsInv, ServiceInv, ServiceTypeOK, Viewed, Table
<1>2. IsFiniteSet(live)
  BY <1>1, FiniteTable, FS_Subset
<1>3. ASSUME NEW row \in t
      PROVE  /\ row.orig \in Originals /\ mem[row.orig] = row.short
             /\ IsURLDeleted(v, row.short) <=> row.deleted
  <2>1. row.orig \in Originals /\ row.deleted \in BOOLEAN
    BY <1>1 DEF Row
  <2>2. Holds(t, row.orig, mem[row.orig])
    BY <1>1, <2>1 DEF InView, Keys
  <2>3. mem[row.orig] = row.short
    BY <1>1, <2>2 DEF Holds, UniqueKeys
  <2>4. {x \in t : x.short = row.short} = {row}
    BY <1>1 DEF Distinct
  <2>5. DeletedAnswers(t, row.short) = {row.deleted}
    BY <2>4 DEF DeletedAnswers
  <2> QED BY <2>1, <2>3, <2>5 DEF IsURLDeleted
<1>4. f \in Bijection(live, Resolvable(v))
  <2>1. \A row \in live : row.orig \in Resolvable(v)
    <3>1. ASSUME NEW row \in live PROVE row.orig \in Resolvable(v)
      <4>1. row.short \in ShortValues /\ row.short # None
        BY <1>1, StorageAssumption DEF Row, ShortValues
      <4> QED BY <1>3, <4>1 DEF Resolvable
    <3> QED BY <3>1
  <2>2. ASSUME NEW o \in Resolvable(v) PROVE \E row \in live : f[row] = o
    <3>1. o \in Originals /\ mem[o] # None /\ ~IsURLDeleted(v, mem[o])
      BY DEF Resolvable
    <3>2. PICK row \in t : row.orig = o /\ row.short = mem[o]
      BY <1>1, <3>1 DEF InView, Holds
    <3> QED BY <3>1, <3>2, <1>3
  <2>3. \A x, y \in live : f[x] = f[y] => x = y
    BY <1>1 DEF UniqueKeys
  <2> HIDE DEF live
  <2>4. f \in [live -> Resolvable(v)]
    BY <2>1
  <2> QED BY <2>2, <2>3, <2>4 DEF Bijection, Injection, Surjection, IsInjective
<1>5. g \in Surjection(live, users)
  BY DEF Surjection
<1>6. Cardinality(live) = Cardinality(Resolvable(v))
  <2> HIDE DEF f, live
  <2>1. ExistsBijection(live, Resolvable(v))
    BY <1>4 DEF ExistsBijection
  <2> QED BY <1>2, <2>1, FS_Bijection
<1>7. Cardinality(users) <= Cardinality(live)
  BY <1>2, <1>5, FS_Surjection
<1> QED BY <1>6, <1>7 DEF CountURLsAndUsers

-----------------------------------------------------------------------------
(* A reply that is no statistics needs nothing of them.                     *)
LEMMA OtherReply ==
  ASSUME last' = None \/ last'.op # "stats" \/ last'.status # "ok"
  PROVE  StatsCountResolvable'
BY DEF StatsCountResolvable

(* Steps that touch neither the tables nor the map.                         *)
LEMMA SteadyStep ==
  ASSUME StatsInv, ServiceInv', Quiet, UNCHANGED <<tables, mem>>, StatsCountResolvable'
  PROVE  StatsInv'
BY DEF StatsInv, Quiet, vars, Viewed, Serving, Table, Dsn

(* INSERTs and the map that goes with them.                                 *)
Grown(v, recs, u) ==
  /\ tables' = [tables EXCEPT ![Dsn(v)] = Insert(@, recs, u)]
  /\ Fits(Table(v), recs) /\ \A i \in DOMAIN recs : Fresh(recs[i].short)
  /\ \A i, j \in DOMAIN recs : recs[i].short = recs[j].short => i = j
  /\ ~split => \A i \in DOMAIN recs : mem'[recs[i].orig] = recs[i].short
  /\ \A o \in Originals : (\A i \in DOMAIN recs : recs[i].orig # o) => mem'[o] = mem[o]

LEMMA GrownStep ==
  ASSUME StatsInv, ServiceInv', Serving, Quiet, NEW v \in Servers, NEW recs, NEW u,
         Grown(v, recs, u), last'.op = "other"
  PROVE  StatsInv'
<1> USE DEF Grown
<1>1. Dsn(v) \in Databases /\ tables \in [Databases -> SUBSET Row]
  BY DEF StatsInv, ServiceInv, ServiceTypeOK, Reachable
<1>2. \A d \in Databases : tables'[d] = IF d = Dsn(v) THEN Insert(Table(v), recs, u) ELSE tables[d]
  BY <1>1 DEF Table
<1>3. Distinct(Insert(Table(v), recs, u))
  <2>1. Distinct(Table(v))
    BY <1>1 DEF StatsInv, Table
  <2>2. \A i \in DOMAIN recs : \A row \in Table(v) : row.short # recs[i].short
    BY <1>1 DEF Fresh, Table
  <2> QED BY <2>1, <2>2, InsertDistinct
<1>4. \A d \in Databases : Distinct(tables'[d])
  BY <1>2, <1>3 DEF StatsInv
<1>5. Viewed'
  <2> SUFFICES ASSUME Serving', ~split' PROVE (shared /\ InView(mem, Table("http")))'
    BY DEF Viewed
  <2>1. shared /\ InView(mem, Table("http")) /\ shared' /\ Dsn("http")' = Dsn("http")
        /\ Dsn("http") = Dsn(v) /\ ~split
    BY DEF Quiet, StatsInv, Viewed, vars, Dsn
  <2>2. Table("http")' = Insert(Table(v), recs, u) /\ Table("http") = Table(v)
    BY <1>1, <1>2, <2>1 DEF Table
  <2>3. InView(mem', Insert(Table(v), recs, u))
    BY <2>1, <2>2, InsertView
  <2>4. InView(mem, Table("http"))' <=> InView(mem', Table("http")')
    BY DEF InView
  <2> QED BY <2>1, <2>2, <2>3, <2>4
<1> QED BY <1>4, <1>5, OtherReply DEF StatsInv

(* While one database is shared, a key that is new to it is new to the map. *)
LEMMA NewToBoth ==
  ASSUME StatsInv, Serving, NEW v \in Servers, NEW o \in Originals, o \notin Keys(Table(v)), ~split
  PROVE  mem[o] = None
BY DEF StatsInv, Viewed, InView, Table, Dsn

LEMMA CreatedView ==
  ASSUME StatsInv, ServiceInv', Serving, Quiet, NEW v \in Servers, NEW c \in Clients, NEW a,
         NEW o \in Originals, CreateStored(v, c, a, o)
  PROVE  StatsInv'
<1>1. last'.op = "other"
  BY DEF CreateStored, Answer
<1>2. CASE UNCHANGED <<tables, mem>>
  BY <1>1, <1>2, SteadyStep, OtherReply
<1>3. ASSUME NEW s \in Shorts, o \notin Keys(Table(v)), Fresh(s), Store(v, o, s, a.id),
             mem' = [mem EXCEPT ![o] = IF @ = None THEN s ELSE @]
      PROVE  StatsInv'
  <2> DEFINE recs == <<[orig |-> o, short |-> s]>>
  <2>1. DOMAIN recs = {1} /\ recs[1].orig = o /\ recs[1].short = s
    OBVIOUS
  <2>2. tables' = [tables EXCEPT ![Dsn(v)] = Insert(@, recs, a.id)]
    BY <1>3 DEF Store
  <2> HIDE DEF recs
  <2>3. Fits(Table(v), recs)
    BY <1>3, <2>1 DEF Fits
  <2>4. DOMAIN mem = Originals
    BY DEF StatsInv, ServiceInv, ServiceTypeOK, Map
  <2>5. ~split => mem'[o] = s
    BY <1>3, <2>4, NewToBoth
  <2>6. \A i \in DOMAIN recs : Fresh(recs[i].short)
    BY <1>3, <2>1
  <2>7. ~split => \A i \in DOMAIN recs : mem'[recs[i].orig] = recs[i].short
    BY <2>1, <2>5
  <2>8. \A x \in Originals : (\A i \in DOMAIN recs : recs[i].orig # x) => mem'[x] = mem[x]
    BY <1>3, <2>1, <2>4
  <2>9. Grown(v, recs, a.id)
    BY <2>1, <2>2, <2>3, <2>6, <2>7, <2>8 DEF Grown
  <2> QED BY <1>1, <2>9, GrownStep
<1> QED BY <1>2, <1>3 DEF CreateStored

LEMMA BatchView ==
  ASSUME StatsInv, ServiceInv', Serving, Quiet, NEW v \in Servers, NEW c \in Clients, NEW a,
         NEW os \in Seq(Originals), CreateBatchStored(v, c, a, os)
  PROVE  StatsInv'
<1> DEFINE fresh == {i \in DOMAIN os : mem[os[i]] = None}
<1>1. last'.op = "other"
  BY DEF CreateBatchStored, Answer
<1>2. CASE UNCHANGED <<tables, mem>>
  BY <1>1, <1>2, SteadyStep, OtherReply
<1>3. ASSUME NEW ss \in [fresh -> Shorts],
             \A i, j \in fresh : Fresh(ss[i]) /\ (ss[i] = ss[j] => i = j),
             Fits(Table(v), [i \in fresh |-> [orig |-> os[i], short |-> ss[i]]]),
             tables' = [tables EXCEPT ![Dsn(v)] =
               Insert(@, [i \in fresh |-> [orig |-> os[i], short |-> ss[i]]], a.id)],
             mem' = [o \in Originals |->
               IF \E i \in fresh : os[i] = o THEN ss[CHOOSE i \in fresh : os[i] = o] ELSE mem[o]]
      PROVE  StatsInv'
  <2>0. PICK recs : recs = [i \in fresh |-> [orig |-> os[i], short |-> ss[i]]]
    OBVIOUS
  <2>1. /\ DOMAIN recs = fresh
        /\ \A i \in fresh : recs[i].orig = os[i] /\ recs[i].short = ss[i]
        /\ \A i \in fresh : os[i] \in Originals
    BY <2>0
  <2>2. Fits(Table(v), recs) /\ tables' = [tables EXCEPT ![Dsn(v)] = Insert(@, recs, a.id)]
    BY <1>3, <2>0
  <2>3. \A i, j \in fresh : os[i] = os[j] => i = j
    BY <2>1, <2>2 DEF Fits
  <2> HIDE DEF fresh
  <2>4. \A i \in fresh : (CHOOSE j \in fresh : os[j] = os[i]) = i
    BY <2>3
  <2>5. \A i \in fresh : mem'[os[i]] = ss[i]
    BY <1>3, <2>1, <2>4
  <2>6. \A o \in Originals : (\A i \in fresh : os[i] # o) => mem'[o] = mem[o]
    BY <1>3
  <2>7. \A i \in DOMAIN recs : Fresh(recs[i].short)
    BY <1>3, <2>1
  <2>8. \A i, j \in DOMAIN recs : recs[i].short = recs[j].short => i = j
    BY <1>3, <2>1
  <2>9. ~split => \A i \in DOMAIN recs : mem'[recs[i].orig] = recs[i].short
    BY <2>1, <2>5
  <2>10. \A o \in Originals : (\A i \in DOMAIN recs : recs[i].orig # o) => mem'[o] = mem[o]
    BY <2>1, <2>6
  <2>11. Grown(v, recs, a.id)
    BY <2>2, <2>7, <2>8, <2>9, <2>10 DEF Grown
  <2> QED BY <1>1, <2>11, GrownStep
<1>4. \/ UNCHANGED <<tables, mem>>
      \/ \E ss \in [fresh -> Shorts] :
           /\ \A i, j \in fresh : Fresh(ss[i]) /\ (ss[i] = ss[j] => i = j)
           /\ Fits(Table(v), [i \in fresh |-> [orig |-> os[i], short |-> ss[i]]])
           /\ tables' = [tables EXCEPT ![Dsn(v)] =
                Insert(@, [i \in fresh |-> [orig |-> os[i], short |-> ss[i]]], a.id)]
           /\ mem' = [o \in Originals |->
                IF \E i \in fresh : os[i] = o THEN ss[CHOOSE i \in fresh : os[i] = o] ELSE mem[o]]
  BY DEF CreateBatchStored
<1> QED BY <1>2, <1>3, <1>4

(* Requests to create keep the table and the map in agreement.              *)
LEMMA CreatingView ==
  ASSUME StatsInv, ServiceInv', NEW c \in Clients, Creating(c)
  PROVE  StatsInv'
<1>1. Serving /\ Quiet
  BY DEF Creating, CreateShortened, CreateShortenedV1, CreateShortenedFromBatchAdapter,
         CreateShortenedFromBatchV1
<1>2. PICK v \in Servers : \E a \in Authorize(v, c) :
        \/ Refuse(c)
        \/ \E o \in Originals : CreateStored(v, c, a, o)
        \/ \E os \in Batches : CreateBatchStored(v, c, a, os)
  BY ServiceAssumption
     DEF Creating, CreateShortened, CreateShortenedV1, CreateShortenedFromBatchAdapter,
         CreateShortenedFromBatchV1, Servers
<1>3. CASE Refuse(c)
  BY <1>1, <1>3, SteadyStep, OtherReply DEF Refuse, Answer, Unstored
<1>4. ASSUME NEW a, NEW o \in Originals, CreateStored(v, c, a, o)
      PROVE  StatsInv'
  BY <1>1, <1>4, CreatedView
<1>5. ASSUME NEW a, NEW os \in Batches, CreateBatchStored(v, c, a, os)
      PROVE  StatsInv'
  BY <1>1, <1>5, BatchSequence, BatchView
<1> QED BY <1>2, <1>3, <1>4, <1>5

(* Other requests leave both alone, and statistics are what resolves.       *)
LEMMA AskingView ==
  ASSUME StatsInv, ServiceInv', NEW c \in Clients, Asking(c) \/ Deleting(c) \/ Forget(c)
  PROVE  StatsInv'
<1>1. Serving /\ Quiet /\ UNCHANGED <<tables, mem>>
  BY DEF Asking, Deleting, Forget, ReadOriginal, ReadUserURLs, ReadUserURLsV1, PingPg,
         ReadAmountOfURLsAndUsers, ReadAmountOfURLsAndUsersV1, DeleteUserURLs,
         DeleteUserURLsV1, Unstored
<1>2. \/ last' = None \/ last'.op # "stats" \/ last'.status # "ok"
      \/ \E v \in Servers : \E a : SayCount(v, c, a)
  <2>1. CASE Deleting(c) \/ Forget(c)
    BY <2>1 DEF Deleting, Forget, DeleteUserURLs, DeleteUserURLsV1, Refuse, Answer
  <2>2. CASE PingPg(c)
    BY <2>2 DEF PingPg, Answer
  <2>3. CASE \E v \in Servers, s \in ShortValues : ReadOriginal(v, c, s)
    <3>1. \E v, a, status, pairs : Say("read", v, c, a, status, pairs)
      BY <2>3 DEF ReadOriginal
    <3> QED BY <3>1 DEF Say
  <2>4. CASE ReadUserURLs(c) \/ ReadUserURLsV1(c)
    <3>1. \E v, a, status, pairs : Say("list", v, c, a, status, pairs)
      BY <2>4 DEF ReadUserURLs, ReadUserURLsV1, Servers
    <3> QED BY <3>1 DEF Say
  <2>5. CASE \E host : ReadAmountOfURLsAndUsers(c, host)
    BY <2>5, Checked DEF ReadAmountOfURLsAndUsers, Say, Servers
  <2>6. CASE \E host : ReadAmountOfURLsAndUsersV1(c, host)
    BY <2>6, Checked DEF ReadAmountOfURLsAndUsersV1, Say, Servers
  <2>7. \/ Deleting(c) \/ Forget(c) \/ PingPg(c) \/ ReadUserURLs(c) \/ ReadUserURLsV1(c)
        \/ \E v \in Servers, s \in ShortValues : ReadOriginal(v, c, s)
        \/ \E host : ReadAmountOfURLsAndUsers(c, host)
        \/ \E host : ReadAmountOfURLsAndUsersV1(c, host)
    BY DEF Asking
  <2> QED BY <2>1, <2>2, <2>3, <2>4, <2>5, <2>6, <2>7
<1>3. CASE \E v \in Servers : \E a : SayCount(v, c, a)
  <2>0. PICK v \in Servers : \E a : SayCount(v, c, a)
    BY <1>3
  <2>1. PICK a : SayCount(v, c, a)
    BY <2>0
  <2>2. /\ last'.urls = CountURLsAndUsers(v).urls /\ last'.users = CountURLsAndUsers(v).users
        /\ last'.via = v
    BY <2>1 DEF SayCount
  <2>3. Resolvable(v)' = Resolvable(v) /\ split' = split
    BY <1>1 DEF Quiet, vars, Resolvable, IsURLDeleted, Table, Dsn
  <2>4. StatsCountResolvable'
    BY <1>1, <2>2, <2>3, CountsResolvable DEF StatsCountResolvable
  <2> QED BY <1>1, <2>4, SteadyStep
<1> QED BY <1>1, <1>2, <1>3, SteadyStep, OtherReply

LEMMA GzipView ==
  ASSUME StatsInv, ServiceInv', GzipFails
  PROVE  StatsInv'
<1>1. Serving /\ Quiet /\ UNCHANGED <<tables, mem>> /\ last' = None
  BY DEF GzipFails, Unstored
<1> QED BY <1>1, SteadyStep, OtherReply

-----------------------------------------------------------------------------
(* Marking rows as deleted is no business of the map.                       *)
LEMMA FlushView ==
  ASSUME StatsInv, ServiceInv', FlushDeletions
  PROVE  StatsInv'
<1>1. Serving /\ Quiet /\ mem' = mem /\ last' = None
  BY DEF FlushDeletions
<1>2. \A d \in Databases : tables'[d] = IF d = Dsn(holder) THEN MarkDeleted(tables[d], pending)
                                        ELSE tables[d]
  BY DEF FlushDeletions, StatsInv, ServiceInv, ServiceTypeOK
<1>3. \A d \in Databases : tables[d] \in SUBSET Row
  BY DEF StatsInv, ServiceInv, ServiceTypeOK
<1>4. \A d \in Databases : Distinct(tables'[d])
  BY <1>2, <1>3, MarkView DEF StatsInv
<1>5. Viewed'
  <2> SUFFICES ASSUME Serving', ~split' PROVE (shared /\ InView(mem, Table("http")))'
    BY DEF Viewed
  <2>1. shared /\ InView(mem, Table("http")) /\ shared' /\ Dsn("http")' = Dsn("http")
    BY <1>1 DEF Quiet, StatsInv, Viewed, vars, Dsn
  <2>2. Dsn("http") \in Databases
    BY <1>1 DEF StatsInv, ServiceInv, Reachable, Servers
  <2>3. Table("http")' \in {Table("http"), MarkDeleted(Table("http"), pending)}
    BY <1>2, <2>1, <2>2 DEF Table
  <2>4. InView(mem, Table("http")')
    BY <1>3, <2>1, <2>2, <2>3, MarkView DEF Table
  <2>5. InView(mem, Table("http"))' <=> InView(mem', Table("http")')
    BY DEF InView
  <2> QED BY <1>1, <2>1, <2>4, <2>5
<1> QED BY <1>1, <1>4, <1>5, OtherReply DEF StatsInv

(* The map router() makes is that of the HTTP server's table.               *)
LEMMA FromTableView ==
  ASSUME NEW t \in SUBSET Row
  PROVE  InView(FromTable(t), t)
<1> SUFFICES ASSUME NEW o \in Originals
             PROVE  IF o \in Keys(t) THEN Holds(t, o, FromTable(t)[o]) ELSE FromTable(t)[o] = None
  BY DEF InView
<1>1. CASE o \in Keys(t)
  <2> DEFINE found == CHOOSE row \in t : row.orig = o
  <2>1. found \in t /\ found.orig = o
    BY <1>1 DEF Keys
  <2>2. FromTable(t)[o] = found.short
    BY <1>1 DEF FromTable
  <2> HIDE DEF found
  <2> QED BY <1>1, <2>1, <2>2 DEF Holds
<1>2. CASE o \notin Keys(t)
  BY <1>2 DEF FromTable
<1> QED BY <1>1, <1>2

LEMMA StartView ==
  ASSUME StatsInv, ServiceInv', Prepare \/ Boot \/ Restart
  PROVE  StatsInv'
<1>1. tables' = tables /\ last' = None
  BY DEF Prepare, Boot, Restart, webVars, Wire, ParseFlags, ReadNames, ReadEnvironment,
         ReadFile, ApplyDefaults, OpenDatabase, ResolveAddresses, MakeServices, FailToListen,
         StatsInv, ServiceInv, Serving
<1>2. CASE Prepare \/ Restart
  <2>1. ~Serving'
    BY <1>2 DEF Prepare, Restart, ParseFlags, ReadNames, ReadEnvironment, ReadFile,
                ApplyDefaults, OpenDatabase, ResolveAddresses, MakeServices, FailToListen, Stop,
                Serving
  <2> QED BY <1>1, <2>1, OtherReply DEF StatsInv, Viewed
<1>3. CASE Boot
  <2>1. /\ Dsn("http") \in Databases /\ Dsn("http")' = Dsn("http") /\ shared' = shared
        /\ mem' = FromTable(Table("http")) /\ split' = (split \/ ~shared)
    BY <1>3 DEF Boot, Wire, Servers, Dsn
  <2>2. Table("http") \in SUBSET Row /\ Table("http")' = Table("http")
    BY <1>1, <2>1 DEF StatsInv, ServiceInv, ServiceTypeOK, Table
  <2>3. InView(mem', Table("http")')
    BY <2>1, <2>2, FromTableView
  <2>4. InView(mem, Table("http"))' <=> InView(mem', Table("http")')
    BY DEF InView
  <2>5. shared \in BOOLEAN /\ split \in BOOLEAN
    BY DEF StatsInv, ServiceInv, ServiceTypeOK, TypeOK
  <2>6. ~split' => shared'
    BY <2>1, <2>5
  <2>7. Viewed'
    BY <2>3, <2>4, <2>6 DEF Viewed
  <2> QED BY <1>1, <2>7, OtherReply DEF StatsInv
<1> QED BY <1>2, <1>3

LEMMA StatsInvInit == ServiceInit => StatsInv
<1> SUFFICES ASSUME ServiceInit PROVE StatsInv
  OBVIOUS
<1>1. ~Serving /\ last = None /\ \A d \in Databases : tables[d] = {}
  BY DEF ServiceInit, Init, Serving
<1> QED BY <1>1, ServiceInvInit DEF StatsInv, Distinct, Viewed, StatsCountResolvable

LEMMA StatsInvStep == StatsInv /\ [ServiceNext]_allVars => StatsInv'
<1> SUFFICES ASSUME StatsInv, [ServiceNext]_allVars PROVE StatsInv'
  OBVIOUS
<1>1. ServiceInv'
  BY ServiceInvStep DEF StatsInv
<1>2. CASE UNCHANGED allVars
  <2>1. Quiet /\ UNCHANGED <<tables, mem, last>>
    BY <1>2 DEF allVars, webVars, Quiet
  <2>2. StatsCountResolvable'
    BY <2>1 DEF StatsInv, StatsCountResolvable, Quiet, vars, Serving, Resolvable, IsURLDeleted,
                Table, Dsn
  <2> QED BY <1>1, <2>1, <2>2, SteadyStep
<1>3. CASE ServiceNext
  BY <1>1, <1>3, StartView, FlushView, CreatingView, AskingView, GzipView DEF ServiceNext
<1> QED BY <1>2, <1>3

(* The statistics count exactly the short URLs that resolve, and no more    *)
(* users than URLs, as long as every start so far gave the servers one      *)
(* database (service/url.go:109-132, repository/url.go:368-398).             *)
THEOREM StatisticsResolve == ServiceSpec => []StatsCountResolvable
<1>1. ServiceSpec => []StatsInv
  BY StatsInvInit, StatsInvStep, PTL DEF ServiceSpec
<1>2. StatsInv => StatsCountResolvable
  BY DEF StatsInv
<1> QED BY <1>1, <1>2, PTL
=============================================================================
