--------------------------- MODULE ServiceProofs ---------------------------
(***************************************************************************)
(* What holds of module Service for every value of its constants: any      *)
(* clients, databases, keys and configurations, any number of restarts.    *)
(* The stages of a start are ConfigProofs' business, the chains in front   *)
(* of the handlers GatewayProofs'.                                         *)
(***************************************************************************)
EXTENDS Service, ConfigProofs, GatewayProofs, StorageProofs, FiniteSetTheorems

(* A short URL that was answered as deleted is that of a deleted row.       *)
GoneIsDeleted ==
  \A p \in gone : \E row \in tables[p[1]] : row.short = p[2] /\ row.deleted

Reachable == Serving => \A v \in Servers : Dsn(v) \in Databases

(* The inductive invariant.                                                 *)
ServiceInv ==
  /\ Stagewise
  /\ ServiceTypeOK
  /\ Reachable
  /\ last # None => Serving
  /\ \A d \in Databases : UniqueKeys(tables[d])
  /\ GoneIsDeleted
  /\ NoListWithoutToken /\ LeavesWithToken /\ GoneForGood

(* Both servers sign with one key while they serve, and it is never empty.  *)
LEMMA OneKey ==
  ASSUME Stagewise, Serving
  PROVE  /\ conf["JWTKey"] \in JwtKeys
         /\ \A v \in Servers : wired[v].key = conf["JWTKey"]
<1>1. conf = [o \in Options |-> Final(o)]
      /\ wired = [s \in Servers |-> [key |-> conf["JWTKey"], subnet |-> conf["TrustedSubnet"]]]
  BY DEF Stagewise, Serving, AfterAddresses
<1>2. conf["JWTKey"] = First(Filled("JWTKey"), DefaultKey)
  BY <1>1 DEF Final, Settled, Defaulted, Inheriting, Options
<1>3. conf["JWTKey"] # Blank
  BY <1>2, ConfigAssumption DEF First
<1>4. conf["JWTKey"] \in Texts
  BY DEF Stagewise, TypeOK, Options
<1> QED BY <1>1, <1>3, <1>4, ServiceAssumption DEF Texts

(* The outcome of authorization on either server.                           *)
Authorized1(v, c, a) ==
  /\ a.id \in Users /\ a.new \in BOOLEAN /\ a.jar \in Jar
  /\ \A w \in Servers : ValidFor(wired[w].key, a.jar)
  /\ \A w \in Servers : ValidFor(wired[w].key, jars[c]) => ~a.new /\ a.jar = jars[c]

LEMMA Authorization ==
  ASSUME Stagewise, ServiceTypeOK, Serving,
         NEW v \in Servers, NEW c \in Clients, NEW a \in Authorize(v, c)
  PROVE  Authorized1(v, c, a)
<1>1. jars[c] \in Jar
  BY DEF ServiceTypeOK
<1>2. wired[v].key \in JwtKeys /\ \A w \in Servers : wired[w].key = wired[v].key
  BY OneKey
<1>3. a \in HttpAuthorize(wired[v].key, jars[c]) \cup GrpcAuthorize(wired[v].key, jars[c])
  BY DEF Authorize
<1> QED BY <1>1, <1>2, <1>3, AuthorizedHoldsToken DEF Authorized1, Jar

(* A table of the database has finitely many rows: one per original.        *)
LEMMA FiniteTable ==
  ASSUME NEW t \in SUBSET Row, UniqueKeys(t)
  PROVE  IsFiniteSet(t)
<1> DEFINE f == [row \in t |-> row.orig]
<1>1. f \in [t -> Originals]
  BY DEF Row
<1>2. f \in Injection(t, Originals)
  BY <1>1 DEF Injection, IsInjective, UniqueKeys
<1> QED BY <1>2, FS_Injection, ServiceAssumption

-----------------------------------------------------------------------------
(* What the handlers may do to the stores: rows are added or marked, none   *)
(* disappears and no mark does.                                             *)
Stored ==
  /\ tables' \in [Databases -> SUBSET Row]
  /\ \A d \in Databases : UniqueKeys(tables'[d])
  /\ \A d \in Databases : \A row \in tables[d] :
       \E r \in tables'[d] : r.short = row.short /\ (row.deleted => r.deleted)
  /\ mem' \in Map
  /\ pending' \subseteq Shorts \X Users
  /\ holder' \in Servers \cup {None}

\* A reply, and what the client holds after it, on which the properties depend.
Replied(c) ==
  /\ last' \in Exchange /\ last'.client = c
  /\ \/ /\ last'.op = "other"
     \/ /\ last'.op = "list"
        /\ last'.pairs # {} => last'.knew
     \/ /\ last'.op = "stats" /\ last'.pairs = {}
     \/ /\ last'.op = "read"
        /\ last'.status = "ok" =>
             \A p \in last'.pairs : <<Dsn(last'.via), p[2]>> \notin gone'
  /\ gone' \subseteq Databases \X ShortValues
  /\ GoneIsDeleted'

\* What c holds is a token it may keep, and both servers take it unless exempt.
Held(c) ==
  \E token \in Jar :
    /\ jars' = [jars EXCEPT ![c] = token]
    /\ \A w \in Servers : ValidFor(wired[w].key, jars[c]) => token = jars[c]
    /\ \/ \A w \in Servers : ValidFor(wired[w].key, token)
       \/ last'.via = "http" /\ last'.op = "stats" /\ last'.status # "ok"
       \/ last'.via = "http" /\ last'.op = "list" /\ last'.status = "unauthorized"

KeepsTokens ==
  \A c \in Clients :
    Serving /\ ValidFor(wired["http"].key, jars[c]) => jars'[c] \in {jars[c], None}

LEMMA RequestConcludes ==
  ASSUME ServiceInv, Serving, NEW c \in Clients, Quiet, Stored, Replied(c), Held(c)
  PROVE  ServiceInv' /\ KeepsTokens
<1>0. Serving' /\ \A v \in Servers : Dsn(v)' = Dsn(v) /\ wired'[v] = wired[v]
  BY DEF Quiet, vars, Serving, Dsn
<1>1. Stagewise'
  BY StagewiseStep DEF ServiceInv, Quiet
<1>2. PICK token \in Jar :
        /\ jars' = [jars EXCEPT ![c] = token]
        /\ \A w \in Servers : ValidFor(wired[w].key, jars[c]) => token = jars[c]
        /\ \/ \A w \in Servers : ValidFor(wired[w].key, token)
           \/ last'.via = "http" /\ last'.op = "stats" /\ last'.status # "ok"
           \/ last'.via = "http" /\ last'.op = "list" /\ last'.status = "unauthorized"
  BY DEF Held
<1>3. jars' \in [Clients -> Jar] /\ jars'[c] = token
  BY <1>2 DEF ServiceInv, ServiceTypeOK
<1>4. ServiceTypeOK'
  BY <1>1, <1>3 DEF ServiceInv, ServiceTypeOK, Stagewise, Stored, Replied, Quiet
<1>5. Reachable' /\ (\A d \in Databases : UniqueKeys(tables[d]))'
  BY <1>0 DEF ServiceInv, Reachable, Stored
<1>6. NoListWithoutToken' /\ GoneIsDeleted'
  BY DEF Replied, NoListWithoutToken
<1>7. LeavesWithToken'
  BY <1>0, <1>2, <1>3 DEF Replied, LeavesWithToken, Authorized
<1>8. GoneForGood'
  <2>1. last' \in Exchange
    BY DEF Replied
  <2>2. last'.via \in Servers
    BY <2>1 DEF Exchange
  <2> QED BY <1>0, <2>2 DEF Replied, GoneForGood
<1>9. KeepsTokens
  BY <1>2 DEF KeepsTokens, ServiceInv, ServiceTypeOK, Servers
<1> QED BY <1>0, <1>1, <1>4, <1>5, <1>6, <1>7, <1>8, <1>9 DEF ServiceInv

-----------------------------------------------------------------------------
(* Whoever got through the chain holds what authorization left in a.jar.    *)
LEMMA Holding ==
  ASSUME ServiceInv, Serving, NEW v \in Servers, NEW c \in Clients,
         NEW a \in Authorize(v, c), Hold(c, a.jar)
  PROVE  Held(c) /\ a.id \in Users /\ a.new \in BOOLEAN
<1>1. Authorized1(v, c, a)
  BY Authorization DEF ServiceInv
<1>2. \A w \in Servers : ValidFor(wired[w].key, jars[c]) => a.jar = jars[c]
  BY <1>1 DEF Authorized1
<1> QED BY <1>1, <1>2 DEF Authorized1, Held, Hold

(* A request that stores nothing leaves the stores as they have to be.      *)
LEMMA NothingStored ==
  ASSUME ServiceInv, Unstored
  PROVE  Stored
BY DEF ServiceInv, ServiceTypeOK, Unstored, Stored

(* No deletion that was reported is undone by what handlers store.          *)
LEMMA GoneKept ==
  ASSUME ServiceInv, Stored, UNCHANGED gone
  PROVE  gone' \subseteq Databases \X ShortValues /\ GoneIsDeleted'
<1>1. ASSUME NEW p \in gone
      PROVE  \E row \in tables'[p[1]] : row.short = p[2] /\ row.deleted
  <2>1. p[1] \in Databases
    BY DEF ServiceInv, ServiceTypeOK
  <2>2. PICK row \in tables[p[1]] : row.short = p[2] /\ row.deleted
    BY DEF ServiceInv, GoneIsDeleted
  <2> QED BY <2>1, <2>2 DEF Stored
<1> QED BY <1>1 DEF GoneIsDeleted, ServiceInv, ServiceTypeOK

(* An exchange that shows nothing is a reply.                               *)
LEMMA Answering ==
  ASSUME ServiceInv, Stored, NEW c \in Clients, Answer(c), UNCHANGED gone
  PROVE  Replied(c)
<1>1. last' \in Exchange /\ last'.client = c /\ last'.op = "other"
  BY DEF Answer, Exchange, Ops, Statuses, Servers
<1> QED BY <1>1, GoneKept DEF Replied

(* Creating one short URL: a row for an original that had none, or nothing. *)
LEMMA OneStored ==
  ASSUME ServiceInv, Serving, NEW v \in Servers, NEW c \in Clients,
         NEW a, a.id \in Users, NEW o \in Originals, CreateStored(v, c, a, o)
  PROVE  Stored /\ Answer(c)
<1>1. CASE UNCHANGED <<tables, mem>>
  <2>1. Unstored
    BY <1>1 DEF CreateStored, Unstored
  <2> QED BY <2>1, NothingStored DEF CreateStored
<1>2. ASSUME NEW s \in Shorts, o \notin Keys(Table(v)), Store(v, o, s, a.id),
             mem' = [mem EXCEPT ![o] = IF @ = None THEN s ELSE @]
      PROVE  Stored
  <2> DEFINE recs == <<[orig |-> o, short |-> s]>>
             new  == Insert(Table(v), recs, a.id)
  <2>1. Dsn(v) \in Databases /\ Table(v) \in SUBSET Row /\ UniqueKeys(Table(v))
    BY DEF ServiceInv, ServiceTypeOK, Reachable, Table
  <2>2. DOMAIN recs = {1} /\ recs[1].orig = o /\ recs[1].short = s
    OBVIOUS
  <2>3. Fits(Table(v), recs)
    BY <1>2, <2>2 DEF Fits
  <2>4. \A i \in DOMAIN recs : recs[i].orig \in Originals /\ recs[i].short \in ShortValues
    BY <2>2 DEF ShortValues
  <2> HIDE DEF recs
  <2>5. new \in SUBSET Row /\ UniqueKeys(new) /\ Table(v) \subseteq new
    BY <2>1, <2>3, <2>4, InsertType, InsertUnique DEF Insert
  <2>6. tables' = [tables EXCEPT ![Dsn(v)] = new]
    BY <1>2 DEF Store, recs, Table
  <2> HIDE DEF new
  <2>7. tables \in [Databases -> SUBSET Row]
    BY DEF ServiceInv, ServiceTypeOK
  <2>8. /\ tables' \in [Databases -> SUBSET Row]
        /\ \A d \in Databases : tables'[d] = IF d = Dsn(v) THEN new ELSE tables[d]
    BY <2>1, <2>5, <2>6, <2>7
  <2>9. \A d \in Databases : UniqueKeys(tables'[d]) /\ tables[d] \subseteq tables'[d]
    BY <2>5, <2>8 DEF ServiceInv, Table
  <2>10. mem' \in Map
    BY <1>2 DEF ServiceInv, ServiceTypeOK, Map, ShortValues
  <2> QED BY <2>8, <2>9, <2>10 DEF Stored, ServiceInv, ServiceTypeOK, CreateStored
<1> QED BY <1>1, <1>2 DEF CreateStored

(* Creating a batch: a row for each new element, or nothing.                *)
LEMMA BatchStored ==
  ASSUME ServiceInv, Serving, NEW v \in Servers, NEW c \in Clients,
         NEW a, a.id \in Users, NEW os \in Seq(Originals), CreateBatchStored(v, c, a, os)
  PROVE  Stored /\ Answer(c)
<1> DEFINE fresh == {i \in DOMAIN os : mem[os[i]] = None}
<1>1. CASE UNCHANGED <<tables, mem>>
  <2>1. Unstored
    BY <1>1 DEF CreateBatchStored, Unstored
  <2> QED BY <2>1, NothingStored DEF CreateBatchStored
<1>2. ASSUME NEW ss \in [fresh -> Shorts],
             Fits(Table(v), [i \in fresh |-> [orig |-> os[i], short |-> ss[i]]]),
             tables' = [tables EXCEPT ![Dsn(v)] =
               Insert(@, [i \in fresh |-> [orig |-> os[i], short |-> ss[i]]], a.id)],
             mem' = [o \in Originals |->
               IF \E i \in fresh : os[i] = o THEN ss[CHOOSE i \in fresh : os[i] = o] ELSE mem[o]]
      PROVE  Stored
  <2> DEFINE recs == [i \in fresh |-> [orig |-> os[i], short |-> ss[i]]]
             new  == Insert(Table(v), recs, a.id)
  <2>1. Dsn(v) \in Databases /\ Table(v) \in SUBSET Row /\ UniqueKeys(Table(v))
    BY DEF ServiceInv, ServiceTypeOK, Reachable, Table
  <2>2. \A i \in DOMAIN recs : recs[i].orig \in Originals /\ recs[i].short \in ShortValues
    BY DEF ShortValues
  <2>3. Fits(Table(v), recs)
    BY <1>2
  <2>4. tables' = [tables EXCEPT ![Dsn(v)] = new]
    BY <1>2 DEF Table
  <2> HIDE DEF recs, fresh
  <2>5. new \in SUBSET Row /\ UniqueKeys(new) /\ Table(v) \subseteq new
    <3>1. new \in SUBSET Row
      BY <2>1, <2>2, InsertType
    <3>2. UniqueKeys(new)
      BY <2>1, <2>3, InsertUnique
    <3> QED BY <3>1, <3>2 DEF Insert
  <2> HIDE DEF new
  <2>6. tables \in [Databases -> SUBSET Row]
    BY DEF ServiceInv, ServiceTypeOK
  <2>7. /\ tables' \in [Databases -> SUBSET Row]
        /\ \A d \in Databases : tables'[d] = IF d = Dsn(v) THEN new ELSE tables[d]
    BY <2>1, <2>4, <2>5, <2>6
  <2>8. \A d \in Databases : UniqueKeys(tables'[d]) /\ tables[d] \subseteq tables'[d]
    BY <2>5, <2>7 DEF ServiceInv, Table
  <2>9. mem' \in Map
    <3> USE DEF fresh
    <3>1. \A o \in Originals : (\E i \in fresh : os[i] = o) => (CHOOSE i \in fresh : os[i] = o) \in fresh
      OBVIOUS
    <3>2. \A o \in Originals : mem[o] \in ShortValues \cup {None}
      BY DEF ServiceInv, ServiceTypeOK, Map
    <3> QED BY <1>2, <3>1, <3>2 DEF Map, ShortValues
  <2> QED BY <2>7, <2>8, <2>9 DEF Stored, ServiceInv, ServiceTypeOK, CreateBatchStored
<1>3. \/ UNCHANGED <<tables, mem>>
      \/ \E ss \in [fresh -> Shorts] :
           /\ Fits(Table(v), [i \in fresh |-> [orig |-> os[i], short |-> ss[i]]])
           /\ tables' = [tables EXCEPT ![Dsn(v)] =
                Insert(@, [i \in fresh |-> [orig |-> os[i], short |-> ss[i]]], a.id)]
           /\ mem' = [o \in Originals |->
                IF \E i \in fresh : os[i] = o THEN ss[CHOOSE i \in fresh : os[i] = o] ELSE mem[o]]
  BY DEF CreateBatchStored
<1>4. Answer(c)
  BY DEF CreateBatchStored
<1> QED BY <1>1, <1>2, <1>3, <1>4

-----------------------------------------------------------------------------
(* Every request, on either server, leads to a request's conclusion.        *)
LEMMA CreateStep ==
  ASSUME ServiceInv, NEW c \in Clients, CreateShortened(c) \/ CreateShortenedV1(c)
  PROVE  ServiceInv' /\ KeepsTokens
<1>0. PICK v \in Servers : \E a \in Authorize(v, c) :
        /\ Hold(c, a.jar)
        /\ Refuse(c) \/ \E o \in Originals : CreateStored(v, c, a, o)
  BY ServiceAssumption DEF CreateShortened, CreateShortenedV1, Servers
<1>1. PICK a \in Authorize(v, c) :
        /\ Hold(c, a.jar)
        /\ Refuse(c) \/ \E o \in Originals : CreateStored(v, c, a, o)
  BY <1>0
<1>2. Serving /\ Quiet /\ UNCHANGED gone
  BY DEF CreateShortened, CreateShortenedV1
<1>3. Held(c) /\ a.id \in Users
  BY <1>1, <1>2, Holding
<1>4. Stored /\ Answer(c)
  BY <1>1, <1>2, <1>3, NothingStored, OneStored DEF Refuse
<1>5. Replied(c)
  BY <1>2, <1>4, Answering
<1> QED BY <1>2, <1>3, <1>4, <1>5, RequestConcludes

(* A batch is a sequence of originals.                                      *)
LEMMA BatchSequence == Batches \subseteq Seq(Originals)
<1>1. ASSUME NEW n \in 0..MaxBatch, NEW os \in [1..n -> Originals]
      PROVE  os \in Seq(Originals)
  <2>1. n \in Nat
    BY <1>1, ServiceAssumption
  <2> QED BY <2>1, <1>1
<1> QED BY <1>1 DEF Batches

LEMMA BatchStep ==
  ASSUME ServiceInv, NEW c \in Clients,
         CreateShortenedFromBatchAdapter(c) \/ CreateShortenedFromBatchV1(c)
  PROVE  ServiceInv' /\ KeepsTokens
<1>0. PICK v \in Servers : \E a \in Authorize(v, c) :
        /\ Hold(c, a.jar)
        /\ Refuse(c) \/ \E os \in Batches : CreateBatchStored(v, c, a, os)
  BY DEF CreateShortenedFromBatchAdapter, CreateShortenedFromBatchV1, Servers
<1>1. PICK a \in Authorize(v, c) :
        /\ Hold(c, a.jar)
        /\ Refuse(c) \/ \E os \in Batches : CreateBatchStored(v, c, a, os)
  BY <1>0
<1>2. Serving /\ Quiet /\ UNCHANGED gone
  BY DEF CreateShortenedFromBatchAdapter, CreateShortenedFromBatchV1
<1>3. Held(c) /\ a.id \in Users
  BY <1>1, <1>2, Holding
<1>4. Stored /\ Answer(c)
  BY <1>1, <1>2, <1>3, NothingStored, BatchStored, BatchSequence DEF Refuse
<1>5. Replied(c)
  BY <1>2, <1>4, Answering
<1> QED BY <1>2, <1>3, <1>4, <1>5, RequestConcludes

LEMMA ReadStep ==
  ASSUME ServiceInv, NEW c \in Clients, NEW v \in Servers, NEW s \in ShortValues,
         ReadOriginal(v, c, s)
  PROVE  ServiceInv' /\ KeepsTokens
<1>1. Serving /\ Quiet /\ Unstored
  BY DEF ReadOriginal
<1>2. Stored /\ Dsn(v)' = Dsn(v) /\ Dsn(v) \in Databases
  BY <1>1, NothingStored DEF Quiet, vars, Dsn, ServiceInv, Reachable
<1>3. PICK a \in Authorize(v, c) :
        /\ Hold(c, a.jar)
        /\ \/ Say("read", v, c, a, "refused", {}) /\ UNCHANGED gone
           \/ /\ IsURLDeleted(v, s)
              /\ Say("read", v, c, a, "gone", {}) /\ gone' = gone \cup {<<Dsn(v), s>>}
           \/ /\ ~IsURLDeleted(v, s) /\ UNCHANGED gone
              /\ \E o \in Originals : Say("read", v, c, a, "ok", {<<o, s>>})
           \/ Say("read", v, c, a, "unknown", {}) /\ UNCHANGED gone
  BY DEF ReadOriginal
<1>4. Held(c) /\ a.new \in BOOLEAN
  BY <1>1, <1>3, Holding
<1>5. Replied(c)
  <2>1. CASE Say("read", v, c, a, "refused", {}) /\ UNCHANGED gone
    <3>1. /\ last' \in Exchange /\ last'.client = c
          /\ last'.op = "read" /\ last'.status = "refused"
      BY <2>1, <1>4 DEF Say, Exchange, Ops, Statuses
    <3> QED BY <3>1, <1>2, <2>1, GoneKept DEF Replied
  <2>2. CASE Say("read", v, c, a, "unknown", {}) /\ UNCHANGED gone
    <3>1. /\ last' \in Exchange /\ last'.client = c
          /\ last'.op = "read" /\ last'.status = "unknown"
      BY <2>2, <1>4 DEF Say, Exchange, Ops, Statuses
    <3> QED BY <3>1, <1>2, <2>2, GoneKept DEF Replied
  <2>3. CASE /\ IsURLDeleted(v, s)
             /\ Say("read", v, c, a, "gone", {}) /\ gone' = gone \cup {<<Dsn(v), s>>}
    <3>1. /\ last' \in Exchange /\ last'.client = c
          /\ last'.op = "read" /\ last'.status = "gone"
      BY <2>3, <1>4 DEF Say, Exchange, Ops, Statuses
    <3>2. \E row \in tables[Dsn(v)] : row.short = s /\ row.deleted
      BY <2>3 DEF IsURLDeleted, DeletedAnswers, Table
    <3>3. GoneIsDeleted'
      BY <3>2, <2>3, <1>1 DEF GoneIsDeleted, ServiceInv, Unstored
    <3>4. gone' \subseteq Databases \X ShortValues
      BY <2>3, <1>2 DEF ServiceInv, ServiceTypeOK
    <3> QED BY <3>1, <3>3, <3>4 DEF Replied
  <2>4. CASE /\ ~IsURLDeleted(v, s) /\ UNCHANGED gone
             /\ \E o \in Originals : Say("read", v, c, a, "ok", {<<o, s>>})
    <3>1. PICK o \in Originals : Say("read", v, c, a, "ok", {<<o, s>>})
      BY <2>4
    <3>2. /\ last' \in Exchange /\ last'.client = c /\ last'.via = v
          /\ last'.op = "read" /\ last'.pairs = {<<o, s>>}
      BY <3>1, <1>4 DEF Say, Exchange, Ops, Statuses
    <3>3. <<Dsn(v), s>> \notin gone
      <4> SUFFICES ASSUME <<Dsn(v), s>> \in gone PROVE FALSE
        OBVIOUS
      <4>1. PICK row \in tables[Dsn(v)] : row.short = s /\ row.deleted
        BY DEF ServiceInv, GoneIsDeleted
      <4>2. row.deleted = TRUE
        BY <4>1, <1>2 DEF ServiceInv, ServiceTypeOK, Row
      <4> QED BY <4>1, <4>2, <2>4 DEF IsURLDeleted, DeletedAnswers, Table
    <3>4. \A p \in last'.pairs : <<Dsn(last'.via), p[2]>> \notin gone'
      BY <3>2, <3>3, <2>4
    <3> QED BY <3>2, <3>4, <1>2, <2>4, GoneKept DEF Replied
  <2> QED BY <1>3, <2>1, <2>2, <2>3, <2>4
<1> QED BY <1>1, <1>2, <1>4, <1>5, RequestConcludes

(* The rows of a user are pairs of an original and a short URL.             *)
LEMMA OwnedPairs ==
  ASSUME ServiceInv, Serving, NEW v \in Servers, NEW u
  PROVE  Owned(v, u) \subseteq Originals \X ShortValues
<1>1. Table(v) \subseteq Row
  BY DEF ServiceInv, ServiceTypeOK, Reachable, Table
<1> QED BY <1>1 DEF Owned, Row

LEMMA ListStep ==
  ASSUME ServiceInv, NEW c \in Clients, ReadUserURLs(c)
  PROVE  ServiceInv' /\ KeepsTokens
<1>1. Serving /\ Quiet /\ Unstored /\ UNCHANGED gone /\ "http" \in Servers
  BY DEF ReadUserURLs, Servers
<1>2. PICK a \in Authorize("http", c) :
        LET owned == Owned("http", a.id) IN
        \/ /\ Say("list", "http", c, a, "nothing", {}) /\ Hold(c, a.jar)
        \/ /\ a.new
           /\ Say("list", "http", c, a, "unauthorized", {}) /\ Hold(c, jars[c])
        \/ /\ ~a.new
           /\ Say("list", "http", c, a, "ok", owned) /\ Hold(c, a.jar)
  BY DEF ReadUserURLs
<1>3. Authorized1("http", c, a)
  BY <1>1, Authorization DEF ServiceInv
<1>4. Stored
  BY <1>1, NothingStored
<1>5. CASE Say("list", "http", c, a, "nothing", {}) /\ Hold(c, a.jar)
  <2>1. last' \in Exchange /\ last'.client = c /\ last'.op = "list" /\ last'.pairs = {}
    BY <1>1, <1>3, <1>5 DEF Say, Exchange, Ops, Statuses, Authorized1
  <2>2. Replied(c)
    BY <2>1, <1>1, <1>4, GoneKept DEF Replied
  <2>3. Held(c)
    BY <1>1, <1>5, Holding
  <2> QED BY <1>1, <1>4, <2>2, <2>3, RequestConcludes
<1>6. CASE /\ a.new
           /\ Say("list", "http", c, a, "unauthorized", {}) /\ Hold(c, jars[c])
  <2>1. /\ last' \in Exchange /\ last'.client = c /\ last'.op = "list" /\ last'.pairs = {}
        /\ last'.via = "http" /\ last'.status = "unauthorized"
    BY <1>1, <1>3, <1>6 DEF Say, Exchange, Ops, Statuses, Authorized1
  <2>2. Replied(c)
    BY <2>1, <1>1, <1>4, GoneKept DEF Replied
  <2>3. Held(c)
    BY <2>1, <1>6 DEF Held, Hold, ServiceInv, ServiceTypeOK
  <2> QED BY <1>1, <1>4, <2>2, <2>3, RequestConcludes
<1>7. CASE /\ ~a.new
           /\ Say("list", "http", c, a, "ok", Owned("http", a.id)) /\ Hold(c, a.jar)
  <2>1. last' \in Exchange /\ last'.client = c /\ last'.op = "list" /\ last'.knew
    BY <1>1, <1>3, <1>7, OwnedPairs DEF Say, Exchange, Ops, Statuses, Authorized1
  <2>2. Replied(c)
    BY <2>1, <1>1, <1>4, GoneKept DEF Replied
  <2>3. Held(c)
    BY <1>1, <1>7, Holding
  <2> QED BY <1>1, <1>4, <2>2, <2>3, RequestConcludes
<1> QED BY <1>2, <1>5, <1>6, <1>7

LEMMA GrpcListStep ==
  ASSUME ServiceInv, NEW c \in Clients, ReadUserURLsV1(c)
  PROVE  ServiceInv' /\ KeepsTokens
<1>1. Serving /\ Quiet /\ Unstored /\ UNCHANGED gone /\ "grpc" \in Servers
  BY DEF ReadUserURLsV1, Servers
<1>2. PICK a \in Authorize("grpc", c) :
        /\ Hold(c, a.jar)
        /\ IF a.new THEN Say("list", "grpc", c, a, "unauthorized", {})
           ELSE Say("list", "grpc", c, a, "ok", Owned("grpc", a.id))
  BY DEF ReadUserURLsV1
<1>3. Held(c) /\ a.new \in BOOLEAN
  BY <1>1, <1>2, Holding
<1>4. Stored
  BY <1>1, NothingStored
<1>5. /\ last' \in Exchange /\ last'.client = c /\ last'.op = "list"
      /\ last'.pairs # {} => last'.knew
  <2>1. CASE a.new
    <3>1. Say("list", "grpc", c, a, "unauthorized", {})
      BY <1>2, <2>1
    <3> QED BY <1>1, <3>1, <1>3 DEF Say, Exchange, Ops, Statuses
  <2>2. CASE ~a.new
    <3>1. Say("list", "grpc", c, a, "ok", Owned("grpc", a.id))
      BY <1>2, <2>2
    <3> QED BY <1>1, <3>1, <1>3, <2>2, OwnedPairs DEF Say, Exchange, Ops, Statuses
  <2> QED BY <2>1, <2>2, <1>3
<1>6. Replied(c)
  BY <1>1, <1>4, <1>5, GoneKept DEF Replied
<1> QED BY <1>1, <1>3, <1>4, <1>6, RequestConcludes

(* The statistics of a table are numbers.                                   *)
LEMMA CountsAreNumbers ==
  ASSUME ServiceInv, Serving, NEW v \in Servers
  PROVE  CountURLsAndUsers(v).urls \in Nat /\ CountURLsAndUsers(v).users \in Nat
<1> DEFINE live == {row \in Table(v) : ~row.deleted}
           users == {row.user : row \in live}
<1>1. Table(v) \in SUBSET Row /\ UniqueKeys(Table(v))
  BY DEF ServiceInv, ServiceTypeOK, Reachable, Table
<1>2. IsFiniteSet(live)
  BY <1>1, FiniteTable, FS_Subset
<1>3. users \subseteq Users
  BY <1>1 DEF Row
<1>4. IsFiniteSet(users)
  BY <1>3, FS_Subset, ServiceAssumption
<1>5. Cardinality(live) \in Nat /\ Cardinality(users) \in Nat
  BY <1>2, <1>4, FS_CardinalityType
<1> QED BY <1>5 DEF CountURLsAndUsers

LEMMA StatsAnswer ==
  ASSUME ServiceInv, Serving, NEW v \in Servers, NEW c \in Clients,
         NEW a, a.new \in BOOLEAN, SayCount(v, c, a)
  PROVE  last' \in Exchange /\ last'.client = c /\ last'.op = "stats" /\ last'.pairs = {}
BY CountsAreNumbers DEF SayCount, Exchange, Ops, Statuses

(* The trusted subnet lets a request pass, or says why it does not.         *)
LEMMA Checked ==
  ASSUME NEW subnet, NEW host
  PROVE  CheckCIDR(subnet, host) \in {"pass", "forbidden", "error"}
<1>1. CASE subnet = NoSubnet
  BY <1>1, GatewayAssumption, Zenon DEF CheckCIDR
<1>2. CASE subnet # NoSubnet /\ subnet \notin Subnets
  BY <1>2, Zenon DEF CheckCIDR
<1>3. CASE subnet \in Subnets /\ host \notin Hosts
  BY <1>3, GatewayAssumption, Zenon DEF CheckCIDR
<1>4. CASE subnet # NoSubnet /\ subnet \in Subnets /\ host \in Hosts
  BY <1>4, Zenon DEF CheckCIDR
<1> QED BY <1>1, <1>2, <1>3, <1>4

LEMMA StatsStep ==
  ASSUME ServiceInv, NEW c \in Clients, NEW host, ReadAmountOfURLsAndUsers(c, host)
  PROVE  ServiceInv' /\ KeepsTokens
<1>1. Serving /\ Quiet /\ Unstored /\ UNCHANGED gone /\ "http" \in Servers
  BY DEF ReadAmountOfURLsAndUsers, Servers
<1>2. Stored
  BY <1>1, NothingStored
<1>3. CASE \E a \in Authorize("http", c) : Hold(c, a.jar) /\ SayCount("http", c, a)
  <2>1. PICK a \in Authorize("http", c) : Hold(c, a.jar) /\ SayCount("http", c, a)
    BY <1>3
  <2>2. Held(c) /\ a.new \in BOOLEAN
    BY <1>1, <2>1, Holding
  <2>3. Replied(c)
    BY <1>1, <1>2, <2>1, <2>2, StatsAnswer, GoneKept DEF Replied
  <2> QED BY <1>1, <1>2, <2>2, <2>3, RequestConcludes
<1>4. CASE \E checked \in {"forbidden", "error"} :
             Say("stats", "http", c, [new |-> TRUE], checked, {}) /\ UNCHANGED jars
  <2>1. /\ last' \in Exchange /\ last'.client = c /\ last'.op = "stats" /\ last'.pairs = {}
        /\ last'.via = "http" /\ last'.status # "ok"
    BY <1>1, <1>4 DEF Say, Exchange, Ops, Statuses
  <2>2. Replied(c)
    BY <1>1, <1>2, <2>1, GoneKept DEF Replied
  <2>3. jars \in [Clients -> Jar]
    BY DEF ServiceInv, ServiceTypeOK
  <2>4. jars[c] \in Jar /\ jars' = [jars EXCEPT ![c] = jars[c]]
    BY <1>4, <2>3
  <2>5. Held(c)
    BY <2>1, <2>4 DEF Held
  <2> QED BY <1>1, <1>2, <2>2, <2>5, RequestConcludes
<1> QED BY <1>3, <1>4, Checked DEF ReadAmountOfURLsAndUsers

LEMMA GrpcStatsStep ==
  ASSUME ServiceInv, NEW c \in Clients, NEW host, ReadAmountOfURLsAndUsersV1(c, host)
  PROVE  ServiceInv' /\ KeepsTokens
<1>1. Serving /\ Quiet /\ Unstored /\ UNCHANGED gone /\ "grpc" \in Servers
  BY DEF ReadAmountOfURLsAndUsersV1, Servers
<1>2. PICK a \in Authorize("grpc", c), checked \in {"pass", "forbidden", "error"} :
        /\ Hold(c, a.jar)
        /\ \/ SayCount("grpc", c, a)
           \/ Say("stats", "grpc", c, a, checked, {}) /\ checked # "pass"
  BY Checked DEF ReadAmountOfURLsAndUsersV1
<1>3. Held(c) /\ a.new \in BOOLEAN
  BY <1>1, <1>2, Holding
<1>4. Stored
  BY <1>1, NothingStored
<1>5. last' \in Exchange /\ last'.client = c /\ last'.op = "stats" /\ last'.pairs = {}
  <2>1. CASE SayCount("grpc", c, a)
    BY <1>1, <1>3, <2>1, StatsAnswer
  <2>2. CASE Say("stats", "grpc", c, a, checked, {}) /\ checked # "pass"
    BY <1>1, <1>3, <2>2 DEF Say, Exchange, Ops, Statuses
  <2> QED BY <1>2, <2>1, <2>2
<1>6. Replied(c)
  BY <1>1, <1>4, <1>5, GoneKept DEF Replied
<1> QED BY <1>1, <1>3, <1>4, <1>6, RequestConcludes

LEMMA PingStep ==
  ASSUME ServiceInv, NEW c \in Clients, PingPg(c)
  PROVE  ServiceInv' /\ KeepsTokens
<1>1. Serving /\ Quiet /\ Unstored /\ UNCHANGED gone /\ "http" \in Servers
  BY DEF PingPg, Servers
<1>2. PICK a \in Authorize("http", c) : Hold(c, a.jar) /\ Answer(c)
  BY DEF PingPg
<1>3. Held(c) /\ Stored
  BY <1>1, <1>2, Holding, NothingStored
<1> QED BY <1>1, <1>2, <1>3, Answering, RequestConcludes

(* A deletion is accepted under the client's id, or under the fixed one.    *)
LEMMA Accepting ==
  ASSUME ServiceInv, NEW v \in Servers, NEW u \in Users, NEW ss \in Deletions,
         Accept(v, u, ss), UNCHANGED <<tables, mem>>
  PROVE  Stored
<1>1. \A i \in DOMAIN ss : ss[i] \in Shorts
  BY DEF Deletions
<1>2. pending' \subseteq Shorts \X Users
  BY <1>1 DEF Accept, ServiceInv, ServiceTypeOK
<1>3. holder' \in Servers \cup {None}
  BY DEF Accept, ServiceInv, ServiceTypeOK
<1> QED BY <1>2, <1>3 DEF Stored, ServiceInv, ServiceTypeOK

LEMMA DeleteStep ==
  ASSUME ServiceInv, NEW c \in Clients, Deleting(c)
  PROVE  ServiceInv' /\ KeepsTokens
<1>0. PICK v \in Servers : \E a \in Authorize(v, c) :
        /\ Hold(c, a.jar)
        /\ Refuse(c) \/ \E ss \in Deletions, u \in {a.id, GrpcUser} :
                          Accept(v, u, ss) /\ Answer(c)
  BY DEF Deleting, DeleteUserURLs, DeleteUserURLsV1, Servers
<1>1. PICK a \in Authorize(v, c) :
        /\ Hold(c, a.jar)
        /\ Refuse(c) \/ \E ss \in Deletions, u \in {a.id, GrpcUser} :
                          Accept(v, u, ss) /\ Answer(c)
  BY <1>0
<1>2. Serving /\ Quiet /\ UNCHANGED <<tables, mem, gone>>
  BY DEF Deleting, DeleteUserURLs, DeleteUserURLsV1
<1>3. Held(c) /\ a.id \in Users
  BY <1>1, <1>2, Holding
<1>4. Stored /\ Answer(c)
  BY <1>1, <1>2, <1>3, Accepting, NothingStored, ServiceAssumption DEF Refuse
<1> QED BY <1>2, <1>3, <1>4, Answering, RequestConcludes

-----------------------------------------------------------------------------
(* Steps that are not requests: nothing has been answered after them.       *)
LEMMA SilentConcludes ==
  ASSUME ServiceInv, Serving, Quiet, Stored, last' = None, UNCHANGED gone,
         jars' \in [Clients -> Jar], \A c \in Clients : jars'[c] \in {jars[c], None}
  PROVE  ServiceInv' /\ KeepsTokens
<1>1. Stagewise'
  BY StagewiseStep DEF ServiceInv, Quiet
<1>2. ServiceTypeOK'
  BY <1>1, GoneKept DEF ServiceInv, ServiceTypeOK, Stagewise, Stored, Quiet
<1>3. Reachable' /\ (\A d \in Databases : UniqueKeys(tables[d]))'
  BY DEF ServiceInv, Reachable, Stored, Quiet, vars, Serving, Dsn
<1>4. GoneIsDeleted' /\ NoListWithoutToken' /\ LeavesWithToken' /\ GoneForGood'
  BY GoneKept DEF NoListWithoutToken, LeavesWithToken, Authorized, GoneForGood
<1>5. KeepsTokens
  BY DEF KeepsTokens
<1> QED BY <1>1, <1>2, <1>3, <1>4, <1>5 DEF ServiceInv

LEMMA ForgetStep ==
  ASSUME ServiceInv, NEW c \in Clients, Forget(c)
  PROVE  ServiceInv' /\ KeepsTokens
<1>1. Serving /\ Quiet /\ Unstored /\ UNCHANGED gone /\ last' = None
  BY DEF Forget, Unstored
<1>2. jars \in [Clients -> Jar] /\ jars' = [jars EXCEPT ![c] = None]
  BY DEF Forget, ServiceInv, ServiceTypeOK
<1>3. jars' \in [Clients -> Jar] /\ \A x \in Clients : jars'[x] \in {jars[x], None}
  BY <1>2 DEF Jar
<1> QED BY <1>1, <1>3, NothingStored, SilentConcludes

LEMMA GzipStep ==
  ASSUME ServiceInv, GzipFails
  PROVE  ServiceInv' /\ KeepsTokens
<1>1. Serving /\ Quiet /\ Unstored /\ UNCHANGED <<jars, gone>> /\ last' = None
  BY DEF GzipFails
<1>2. jars \in [Clients -> Jar]
  BY DEF ServiceInv, ServiceTypeOK
<1> QED BY <1>1, <1>2, NothingStored, SilentConcludes

LEMMA FlushStep ==
  ASSUME ServiceInv, FlushDeletions
  PROVE  ServiceInv' /\ KeepsTokens
<1> DEFINE new == MarkDeleted(tables[Dsn(holder)], pending)
<1>1. tables \in [Databases -> SUBSET Row] /\ tables' = [tables EXCEPT ![Dsn(holder)] = new]
  BY DEF FlushDeletions, ServiceInv, ServiceTypeOK
<1>2. ASSUME NEW d \in Databases
      PROVE  /\ tables'[d] \in SUBSET Row /\ UniqueKeys(tables'[d])
             /\ \A row \in tables[d] :
                  \E r \in tables'[d] : r.short = row.short /\ (row.deleted => r.deleted)
  <2>1. CASE d = Dsn(holder)
    <3>1. tables'[d] = MarkDeleted(tables[d], pending)
      BY <1>1, <2>1
    <3>2. tables[d] \in SUBSET Row /\ UniqueKeys(tables[d])
      BY <1>1 DEF ServiceInv
    <3>3. ASSUME NEW row \in tables[d]
          PROVE  \E r \in tables'[d] : r.short = row.short /\ (row.deleted => r.deleted)
      <4>1. Marked(row, pending) \in tables'[d]
        BY <3>1 DEF MarkDeleted
      <4>2. Marked(row, pending).short = row.short /\ (row.deleted => Marked(row, pending).deleted)
        BY <3>2 DEF Marked, Row
      <4> QED BY <4>1, <4>2
    <3> QED BY <3>1, <3>2, <3>3, MarkType, MarkUnique
  <2>2. CASE d # Dsn(holder)
    BY <1>1, <2>2 DEF ServiceInv
  <2> QED BY <2>1, <2>2
<1>3. tables' \in [Databases -> SUBSET Row]
  BY <1>1, <1>2
<1>4. Stored
  BY <1>2, <1>3 DEF Stored, FlushDeletions, ServiceInv, ServiceTypeOK
<1>5. jars' \in [Clients -> Jar] /\ \A c \in Clients : jars'[c] \in {jars[c], None}
  BY DEF FlushDeletions, ServiceInv, ServiceTypeOK
<1> QED BY <1>4, <1>5, SilentConcludes DEF FlushDeletions

-----------------------------------------------------------------------------
(* While nothing is served only the stage of the start moves.               *)
LEMMA UnservedConcludes ==
  ASSUME ServiceInv, Stagewise', last' = None,
         UNCHANGED <<tables, jars, gone>>, mem' \in Map,
         pending' \subseteq Shorts \X Users, holder' \in Servers \cup {None},
         split' \in BOOLEAN, restarts' \in 0..MaxRestarts, Reachable'
  PROVE  ServiceInv' /\ KeepsTokens
<1>1. ServiceTypeOK'
  BY DEF ServiceInv, ServiceTypeOK, Stagewise
<1>2. GoneIsDeleted' /\ (\A d \in Databases : UniqueKeys(tables[d]))'
  BY DEF ServiceInv, GoneIsDeleted
<1>3. NoListWithoutToken' /\ LeavesWithToken' /\ GoneForGood'
  BY DEF NoListWithoutToken, LeavesWithToken, Authorized, GoneForGood
<1>4. KeepsTokens
  BY DEF KeepsTokens
<1> QED BY <1>1, <1>2, <1>3, <1>4 DEF ServiceInv

LEMMA PrepareStep ==
  ASSUME ServiceInv, Prepare
  PROVE  ServiceInv' /\ KeepsTokens
<1>1. Next /\ stage # "serving" /\ stage' # "serving"
  BY DEF Prepare, Next, ParseFlags, ReadNames, ReadEnvironment, ReadFile, ApplyDefaults,
         OpenDatabase, ResolveAddresses, MakeServices, FailToListen, Stop
<1>2. Stagewise' /\ Reachable' /\ last' = None
  BY <1>1, StagewiseStep DEF ServiceInv, Reachable, Serving, Prepare, webVars
<1>3. /\ UNCHANGED <<tables, jars, gone>> /\ mem' \in Map
      /\ pending' \subseteq Shorts \X Users /\ holder' \in Servers \cup {None}
      /\ split' \in BOOLEAN /\ restarts' \in 0..MaxRestarts
  BY DEF Prepare, webVars, ServiceInv, ServiceTypeOK
<1> QED BY <1>2, <1>3, UnservedConcludes

(* The map made from a table is a map.                                      *)
LEMMA FromTableType ==
  ASSUME NEW t \in SUBSET Row
  PROVE  FromTable(t) \in Map
<1>1. ASSUME NEW o \in Keys(t)
      PROVE  (CHOOSE row \in t : row.orig = o).short \in ShortValues
  <2>1. \E row \in t : row.orig = o
    BY DEF Keys
  <2>2. (CHOOSE row \in t : row.orig = o) \in t
    BY <2>1
  <2> QED BY <2>2 DEF Row
<1> QED BY <1>1 DEF FromTable, Map

LEMMA BootStep ==
  ASSUME ServiceInv, Boot
  PROVE  ServiceInv' /\ KeepsTokens
<1>1. Next /\ stage = "wiring" /\ UNCHANGED <<conf, shared>>
  BY DEF Boot, Next, Wire
<1>2. Stagewise' /\ last' = None
  BY <1>1, StagewiseStep DEF ServiceInv, Serving, Boot
<1>3. (\A v \in Servers : Dsn(v) \in Databases) /\ Reachable'
  BY <1>1 DEF Boot, Reachable, Dsn
<1>4. mem' \in Map
  <2>1. Dsn("http") \in Databases
    BY <1>3 DEF Servers
  <2> QED BY <2>1, FromTableType DEF Boot, Table, ServiceInv, ServiceTypeOK
<1>5. split' \in BOOLEAN
  BY DEF Boot, ServiceInv, ServiceTypeOK, TypeOK
<1>6. /\ UNCHANGED <<tables, jars, gone, pending, holder, restarts>>
  BY DEF Boot
<1> QED BY <1>2, <1>3, <1>4, <1>5, <1>6, UnservedConcludes DEF ServiceInv, ServiceTypeOK

(* A process that has just started knows of nothing.                        *)
LEMMA BlankMapType == BlankMap \in Map
BY DEF BlankMap, Map, ShortValues

LEMMA RestartStep ==
  ASSUME ServiceInv, Restart
  PROVE  ServiceInv' /\ KeepsTokens
<1>1. Init'
  BY DEF Restart, Init
<1>2. Stagewise'
  BY <1>1, StagewiseInit, PTL
<1>3. Reachable'
  BY DEF Restart, Reachable, Serving
<1>4. restarts' \in 0..MaxRestarts
  BY ServiceAssumption DEF Restart, ServiceInv, ServiceTypeOK
<1>5. /\ UNCHANGED <<tables, jars, gone, split>> /\ mem' \in Map
      /\ pending' = {} /\ holder' = None /\ last' = None
  BY BlankMapType DEF Restart
<1>6. split' \in BOOLEAN
  BY <1>5 DEF ServiceInv, ServiceTypeOK
<1> QED BY <1>2, <1>3, <1>4, <1>5, <1>6, UnservedConcludes

LEMMA ServiceInvInit == ServiceInit => ServiceInv
<1> SUFFICES ASSUME ServiceInit PROVE ServiceInv
  OBVIOUS
<1>1. Stagewise
  BY StagewiseInit DEF ServiceInit
<1>2. ServiceTypeOK
  <2>1. TypeOK /\ mem \in Map /\ last \in Exchange \cup {None} /\ split \in BOOLEAN
    BY <1>1, BlankMapType DEF ServiceInit, Stagewise
  <2>2. tables \in [Databases -> SUBSET Row] /\ jars \in [Clients -> Jar]
    BY DEF ServiceInit, Jar
  <2>3. pending \subseteq Shorts \X Users /\ holder \in Servers \cup {None}
    BY DEF ServiceInit
  <2>4. gone \subseteq Databases \X ShortValues /\ restarts \in 0..MaxRestarts
    BY ServiceAssumption DEF ServiceInit
  <2> QED BY <2>1, <2>2, <2>3, <2>4 DEF ServiceTypeOK
<1>3. stage # "serving"
  BY DEF ServiceInit, Init
<1>4. \A d \in Databases : UniqueKeys(tables[d])
  BY DEF ServiceInit, UniqueKeys
<1> QED BY <1>1, <1>2, <1>3, <1>4
        DEF ServiceInit, ServiceInv, Reachable, Serving, GoneIsDeleted, NoListWithoutToken,
            LeavesWithToken, Authorized, GoneForGood

LEMMA ServiceInvStep ==
  ASSUME ServiceInv, [ServiceNext]_allVars
  PROVE  ServiceInv' /\ (KeepsTokens \/ UNCHANGED allVars)
<1>1. CASE UNCHANGED allVars
  BY <1>1, StagewiseStep
     DEF allVars, webVars, vars, ServiceInv, ServiceTypeOK, Stagewise, Reachable, Serving, Dsn,
         GoneIsDeleted, NoListWithoutToken, LeavesWithToken, Authorized, GoneForGood
<1>2. CASE Prepare \/ Boot \/ Restart \/ FlushDeletions \/ GzipFails
  BY <1>2, PrepareStep, BootStep, RestartStep, FlushStep, GzipStep
<1>3. ASSUME NEW c \in Clients, Creating(c) \/ Asking(c) \/ Deleting(c) \/ Forget(c)
      PROVE  ServiceInv' /\ KeepsTokens
  BY <1>3, CreateStep, BatchStep, ReadStep, ListStep, GrpcListStep, StatsStep, GrpcStatsStep,
     PingStep, DeleteStep, ForgetStep DEF Creating, Asking
<1> QED BY <1>1, <1>2, <1>3 DEF ServiceNext

THEOREM ServiceInvariant == ServiceSpec => []ServiceInv
BY ServiceInvInit, ServiceInvStep, PTL DEF ServiceSpec

-----------------------------------------------------------------------------
(* The service keeps its types through any requests and restarts.           *)
THEOREM ServiceTypes == ServiceSpec => []ServiceTypeOK
<1>1. ServiceInv => ServiceTypeOK
  BY DEF ServiceInv
<1> QED BY <1>1, ServiceInvariant, PTL

(* Nobody is shown a list of URLs without a token of this server, on either *)
(* server, however ids collide (handler/url.go:217-283).                    *)
THEOREM ListsNeedTokens == ServiceSpec => []NoListWithoutToken
<1>1. ServiceInv => NoListWithoutToken
  BY DEF ServiceInv
<1> QED BY <1>1, ServiceInvariant, PTL

(* Whoever was let through leaves with a token both servers accept, but for *)
(* the list that hands a stale cookie back (handler/url.go:240-251).        *)
THEOREM ClientsLeaveWithToken == ServiceSpec => []LeavesWithToken
<1>1. ServiceInv => LeavesWithToken
  BY DEF ServiceInv
<1> QED BY <1>1, ServiceInvariant, PTL

(* A short URL answered as deleted is never resolved again from the same    *)
(* database, after any requests and restarts (service/url.go:115-132).      *)
THEOREM DeletedForGood == ServiceSpec => []GoneForGood
<1>1. ServiceInv => GoneForGood
  BY DEF ServiceInv
<1> QED BY <1>1, ServiceInvariant, PTL

(* A token the HTTP server accepts is never replaced, by either server      *)
(* (main.go:626, 667-671).                                                  *)
THEOREM TokensAreKept == ServiceSpec => OneIdentity
<1>1. ServiceInv /\ [ServiceNext]_allVars =>
        [\A c \in Clients : Serving /\ ValidFor(wired["http"].key, jars[c])
           => jars'[c] \in {jars[c], None}]_allVars
  BY ServiceInvStep DEF KeepsTokens
<1> QED BY <1>1, ServiceInvariant, PTL DEF ServiceSpec, OneIdentity
=============================================================================
