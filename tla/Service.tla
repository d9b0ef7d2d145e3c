------------------------------ MODULE Service ------------------------------
(***************************************************************************)
(* The service as its clients see it: a start of the process (Config), the *)
(* HTTP and the gRPC server wired by it, each request through the server's *)
(* chain (Gateway) to its handler and to the database of that server's     *)
(* service, the map both servers share, and restarts with another          *)
(* configuration.  A request is one step here: what requests do to each    *)
(* other half-way is the subject of Shortener and DeletePipeline.          *)
(*                                                                         *)
(* Every start here has a database that answers (Shortener has the others). *)
(***************************************************************************)
EXTENDS Config, Gateway

CONSTANTS Clients,     \* each with one place for its token
          Databases,   \* the DSNs in play
          Bodies,      \* <<type, compressed?>> as clients send them
          Garbled,     \* the original URL read off a body that was not unpacked
          GrpcUser,    \* the id DeleteUserURLsV1 uses
          MaxBatch,    \* bound on the elements of a batch
          MaxRows,     \* bound on the rows of all databases
          MaxPending,  \* bound on deletions accepted and not applied
          MaxRestarts  \* bound on restarts

ASSUME ServiceAssumption ==
  /\ JwtKeys = Strings /\ NoSubnet = Blank
  /\ Databases \subseteq Strings
  /\ Bodies \subseteq Body
  /\ Garbled \in Originals /\ GrpcUser \in Users
  /\ MaxBatch \in Nat /\ MaxRows \in Nat /\ MaxPending \in Nat /\ MaxRestarts \in Nat
  /\ IsFiniteSet(Users) /\ IsFiniteSet(Originals)

VARIABLES tables,    \* the rows of each database
          mem,       \* the map of current URLs
          jars,      \* each client's token
          pending,   \* <<short, user>> pairs of accepted deletions
          holder,    \* the server whose service runs the aggregator
          last,      \* history: the last exchange, while nothing else has happened
          gone,      \* history: <<database, short>> answered as deleted
          split,     \* history: did any start give the servers two services?
          restarts

webVars == <<tables, mem, jars, pending, holder, last, gone>>
allVars == <<vars, webVars, split, restarts>>

Serving == stage = "serving"
Dsn(v) == IF v = "http" \/ shared THEN conf["DSN"] ELSE conf["GRPCDatabaseDSN"]
Table(v) == tables[Dsn(v)]

Ops == {"other", "read", "list", "stats"}
Statuses == {"ok", "nothing", "refused", "unauthorized", "forbidden", "error",
             "conflict", "failed", "gone", "unknown"}
(* pairs: the <<original, short>> pairs in the reply; knew: did the request *)
(* carry a token the server accepts?                                        *)
Exchange == [op : Ops, via : Servers, client : Clients, status : Statuses,
             pairs : SUBSET (Originals \X ShortValues), urls : Nat, users : Nat, knew : BOOLEAN]

-----------------------------------------------------------------------------
ServiceInit ==
  /\ Init
  /\ tables = [d \in Databases |-> {}]
  /\ mem = BlankMap
  /\ jars = [c \in Clients |-> None]
  /\ pending = {} /\ holder = None
  /\ last = None /\ gone = {} /\ split = FALSE
  /\ restarts = 0

\* The stages of main() up to the last.
Prepare ==
  /\ ParseFlags \/ ReadNames \/ ReadEnvironment \/ ReadFile \/ ApplyDefaults
     \/ OpenDatabase \/ ResolveAddresses \/ MakeServices \/ FailToListen
  /\ UNCHANGED <<webVars, split, restarts>>

\* router() fills the map from the HTTP server's database only.
Boot ==
  /\ Wire
  /\ \A v \in Servers : Dsn(v) \in Databases
  /\ mem' = FromTable(Table("http"))
  /\ split' = (split \/ ~shared)
  /\ UNCHANGED <<tables, jars, pending, holder, last, gone, restarts>>

\* The process is stopped and started again, perhaps with other settings.
Restart ==
  /\ stage \in {"serving", "stopped"} /\ restarts < MaxRestarts
  /\ restarts' = restarts + 1
  /\ \E set \in Inputs : input' \in set
  /\ stage' = "flags" /\ conf' = Zero /\ renamed' = {} /\ shared' = FALSE
  /\ wasSet' = [a \in Addresses |-> FALSE] /\ defaults' = BuiltIn
  /\ wired' = [s \in Servers |-> [key |-> Blank, subnet |-> Blank]]
  /\ mem' = BlankMap /\ pending' = {} /\ holder' = None /\ last' = None
  /\ UNCHANGED <<tables, jars, gone, split>>

-----------------------------------------------------------------------------
(* A request that got to its server is authorized there, whatever becomes   *)
(* of it; `a` is the outcome.                                               *)
Authorize(v, c) ==
  IF v = "http" THEN HttpAuthorize(wired[v].key, jars[c]) ELSE GrpcAuthorize(wired[v].key, jars[c])

Hold(c, token) == jars' = [jars EXCEPT ![c] = token]

Say(op, v, c, a, status, pairs) ==
  last' = [op |-> op, via |-> v, client |-> c, status |-> status, pairs |-> pairs,
           urls |-> 0, users |-> 0, knew |-> ~a.new]

(* Other exchanges: only that c's request got through the chain.            *)
Answer(c) ==
  last' = [op |-> "other", via |-> "http", client |-> c, status |-> "ok", pairs |-> {},
           urls |-> 0, users |-> 0, knew |-> FALSE]

Quiet == UNCHANGED <<vars, split, restarts>>
Unstored == UNCHANGED <<tables, mem, pending, holder>>

\* Any short URL that nothing has: collisions are Shortener's subject.
Fresh(s) == /\ \A o \in Originals : mem[o] # s
            /\ \A d \in Databases : \A row \in tables[d] : row.short # s

Room == Cardinality(UNION {{<<d, row>> : row \in tables'[d]} : d \in Databases}) <= MaxRows

\* repository.Create on PostgreSQL.
Store(v, o, s, u) ==
  tables' = [tables EXCEPT ![Dsn(v)] = Insert(@, <<[orig |-> o, short |-> s]>>, u)]

\* service.CreateShortened.
CreateStored(v, c, a, o) ==
  /\ \/ /\ o \notin Keys(Table(v))
        /\ \E s \in Shorts :
             /\ Fresh(s)
             /\ Store(v, o, s, a.id) /\ Room
             /\ mem' = [mem EXCEPT ![o] = IF @ = None THEN s ELSE @]
     \/ /\ o \in Keys(Table(v))
        /\ UNCHANGED <<tables, mem>>
  /\ Answer(c)
  /\ UNCHANGED <<pending, holder>>

Refuse(c) == Answer(c) /\ Unstored

\* What becomes of the bodies clients send to some endpoints.
Arrivals(endpoints) == {Received(e, body) : e \in endpoints, body \in Bodies}

\* POST / and POST /api/shorten.
CreateShortened(c) ==
  /\ Serving
  /\ \E a \in Authorize("http", c), got \in Arrivals({"/", "/api/shorten"}) :
       /\ Hold(c, a.jar)
       /\ \/ got = "refused" /\ Refuse(c)
          \/ got = "read" /\ \E o \in Originals : CreateStored("http", c, a, o)
          \/ got = "garbled" /\ CreateStored("http", c, a, Garbled)
  /\ UNCHANGED gone /\ Quiet

CreateShortenedV1(c) ==
  /\ Serving
  /\ \E a \in Authorize("grpc", c), o \in Originals :
       /\ Hold(c, a.jar)
       /\ IF ValidOriginal(o) THEN CreateStored("grpc", c, a, o) ELSE Refuse(c)
  /\ UNCHANGED gone /\ Quiet

(* service.CreateShortenedFromBatch: elements the map has are answered from *)
(* it, the others are inserted together or not at all.                      *)
CreateBatchStored(v, c, a, os) ==
  LET new == {i \in DOMAIN os : mem[os[i]] = None} IN
  /\ \E ss \in [new -> Shorts] :
       LET recs == [i \in new |-> [orig |-> os[i], short |-> ss[i]]] IN
       /\ \A i, j \in new : Fresh(ss[i]) /\ (ss[i] = ss[j] => i = j)
       /\ IF Fits(Table(v), recs)
          THEN /\ tables' = [tables EXCEPT ![Dsn(v)] = Insert(@, recs, a.id)] /\ Room
               /\ mem' = [o \in Originals |->
                    IF \E i \in new : os[i] = o THEN ss[CHOOSE i \in new : os[i] = o] ELSE mem[o]]
          ELSE UNCHANGED <<tables, mem>>
  /\ Answer(c)
  /\ UNCHANGED <<pending, holder>>

Batches == UNION {[1..n -> Originals] : n \in 0..MaxBatch}

CreateShortenedFromBatchAdapter(c) ==
  /\ Serving
  /\ \E a \in Authorize("http", c), got \in Arrivals({"/api/shorten/batch"}) :
       /\ Hold(c, a.jar)
       /\ \/ got # "read" /\ Refuse(c)
          \/ got = "read" /\ \E os \in Batches :
               IF os = << >> THEN Refuse(c) ELSE CreateBatchStored("http", c, a, os)
  /\ UNCHANGED gone /\ Quiet

\* A correlation id that is empty is refused too.
CreateShortenedFromBatchV1(c) ==
  /\ Serving
  /\ \E a \in Authorize("grpc", c), os \in Batches :
       /\ Hold(c, a.jar)
       /\ \/ ValidBatch(os) /\ CreateBatchStored("grpc", c, a, os)
          \/ Refuse(c)
  /\ UNCHANGED gone /\ Quiet

-----------------------------------------------------------------------------
IsURLDeleted(v, s) == TRUE \in DeletedAnswers(Table(v), s)

(* ReadOriginal, with the status each server gives it.  GET / without a     *)
(* short URL has no route.                                                  *)
ReadOriginal(v, c, s) ==
  /\ Serving /\ (v = "grpc" \/ s # BlankShort)
  /\ \E a \in Authorize(v, c) :
       /\ Hold(c, a.jar)
       /\ IF v = "grpc" /\ ~ValidShort(s) THEN Say("read", v, c, a, "refused", {}) /\ UNCHANGED gone
          ELSE IF IsURLDeleted(v, s)
          THEN Say("read", v, c, a, "gone", {}) /\ gone' = gone \cup {<<Dsn(v), s>>}
          ELSE /\ \/ \E o \in Originals : mem[o] = s /\ Say("read", v, c, a, "ok", {<<o, s>>})
                  \/ /\ \A o \in Originals : mem[o] # s
                     /\ Say("read", v, c, a, "unknown", {})
               /\ UNCHANGED gone
  /\ Unstored /\ Quiet

Owned(v, u) == {<<row.orig, row.short>> : row \in {x \in Table(v) : x.user = u}}

\* Mutant: whoever asks is answered with the URLs of the id it was just given.
ReadUserURLsOfAnyone(c) ==
  /\ Serving
  /\ \E a \in Authorize("http", c) :
       LET owned == Owned("http", a.id) IN
       /\ Say("list", "http", c, a, IF owned = {} THEN "nothing" ELSE "ok", owned)
       /\ Hold(c, a.jar)
  /\ UNCHANGED gone /\ Unstored /\ Quiet

(* GET /api/user/urls: the id is looked up first, then 204 if it has no     *)
(* URLs, nothing if there was no cookie, and otherwise the request's cookie *)
(* is set again, over a new one, before a new client is turned away.        *)
ReadUserURLs(c) ==
  /\ Serving
  /\ \E a \in Authorize("http", c) :
       LET owned == Owned("http", a.id)
           turned == owned # {} /\ jars[c] # None /\ a.new
       IN /\ CASE owned = {} \/ jars[c] = None -> Say("list", "http", c, a, "nothing", {})
               [] owned # {} /\ jars[c] # None /\ a.new -> Say("list", "http", c, a, "unauthorized", {})
               [] owned # {} /\ ~a.new -> Say("list", "http", c, a, "ok", owned)
          /\ Hold(c, IF turned THEN jars[c] ELSE a.jar)
  /\ UNCHANGED gone /\ Unstored /\ Quiet

ReadUserURLsV1(c) ==
  /\ Serving
  /\ \E a \in Authorize("grpc", c) :
       /\ Hold(c, a.jar)
       /\ IF a.new THEN Say("list", "grpc", c, a, "unauthorized", {})
          ELSE Say("list", "grpc", c, a, "ok", Owned("grpc", a.id))
  /\ UNCHANGED gone /\ Unstored /\ Quiet

\* Mutant: deleted rows count.
CountEverything(v) ==
  [urls |-> Cardinality(Table(v)), users |-> Cardinality({row.user : row \in Table(v)})]

CountURLsAndUsers(v) ==
  LET live == {row \in Table(v) : ~row.deleted}
  IN [urls |-> Cardinality(live), users |-> Cardinality({row.user : row \in live})]

SayCount(v, c, a) ==
  last' = [op |-> "stats", via |-> v, client |-> c, status |-> "ok", pairs |-> {},
           urls |-> CountURLsAndUsers(v).urls, users |-> CountURLsAndUsers(v).users, knew |-> ~a.new]

(* Statistics.  HTTP checks the subnet before it authorizes, gRPC after.    *)
ReadAmountOfURLsAndUsers(c, host) ==
  /\ Serving
  /\ LET checked == CheckCIDR(wired["http"].subnet, host) IN
     \/ /\ checked # "pass"
        /\ Say("stats", "http", c, [new |-> TRUE], checked, {})
        /\ UNCHANGED jars
     \/ /\ checked = "pass"
        /\ \E a \in Authorize("http", c) : Hold(c, a.jar) /\ SayCount("http", c, a)
  /\ UNCHANGED gone /\ Unstored /\ Quiet

ReadAmountOfURLsAndUsersV1(c, host) ==
  /\ Serving
  /\ \E a \in Authorize("grpc", c) :
       LET checked == CheckCIDR(wired["grpc"].subnet, host) IN
       /\ Hold(c, a.jar)
       /\ IF checked = "pass" THEN SayCount("grpc", c, a)
          ELSE Say("stats", "grpc", c, a, checked, {})
  /\ UNCHANGED gone /\ Unstored /\ Quiet

-----------------------------------------------------------------------------
\* The lists of short URLs in requests to delete.
Deletions == UNION {[1..n -> Shorts] : n \in 0..1}

\* An accepted deletion; the first one in a process makes its service the holder.
Accept(v, u, ss) ==
  /\ pending' = pending \cup {<<ss[i], u>> : i \in DOMAIN ss}
  /\ Cardinality(pending') <= MaxPending
  /\ holder' = IF holder = None THEN v ELSE holder

DeleteUserURLs(c) ==
  /\ Serving
  /\ \E a \in Authorize("http", c), got \in Arrivals({"/api/user/urls"}) :
       /\ Hold(c, a.jar)
       /\ \/ got # "read" /\ Refuse(c)
          \/ got = "read" /\ \E ss \in Deletions :
               IF ss = << >> THEN Refuse(c) ELSE Accept("http", a.id, ss) /\ Answer(c)
  /\ UNCHANGED <<tables, mem, gone>> /\ Quiet

DeleteUserURLsV1(c) ==
  /\ Serving
  /\ \E a \in Authorize("grpc", c), ss \in Deletions :
       /\ Hold(c, a.jar)
       /\ IF ValidDeletion(ss) THEN Accept("grpc", GrpcUser, ss) /\ Answer(c) ELSE Refuse(c)
  /\ UNCHANGED <<tables, mem, gone>> /\ Quiet

\* The aggregator applies what is pending, in the database of its own service.
FlushDeletions ==
  /\ Serving /\ pending # {}
  /\ tables' = [tables EXCEPT ![Dsn(holder)] = MarkDeleted(@, pending)]
  /\ pending' = {} /\ last' = None
  /\ UNCHANGED <<mem, jars, holder, gone>> /\ Quiet

\* A client loses its cookie, or a new client takes its place.
Forget(c) ==
  /\ Serving /\ jars[c] # None
  /\ jars' = [jars EXCEPT ![c] = None] /\ last' = None
  /\ UNCHANGED <<tables, mem, pending, holder, gone>> /\ Quiet

\* A body that should unpack and does not is answered 500, before anything else.
GzipFails ==
  /\ Serving /\ \E body \in Bodies : Unpacks(body)
  /\ last' = None
  /\ UNCHANGED <<jars, gone>> /\ Unstored /\ Quiet

PingPg(c) ==
  /\ Serving
  /\ \E a \in Authorize("http", c) : Hold(c, a.jar) /\ Answer(c)
  /\ UNCHANGED gone /\ Unstored /\ Quiet

-----------------------------------------------------------------------------
Creating(c) ==
  \/ CreateShortened(c) \/ CreateShortenedV1(c)
  \/ CreateShortenedFromBatchAdapter(c) \/ CreateShortenedFromBatchV1(c)

Asking(c) ==
  \/ \E v \in Servers, s \in ShortValues : ReadOriginal(v, c, s)
  \/ ReadUserURLs(c) \/ ReadUserURLsV1(c)
  \/ \E host \in Hosts \cup {NotAnIP} :
       ReadAmountOfURLsAndUsers(c, host) \/ ReadAmountOfURLsAndUsersV1(c, host)
  \/ PingPg(c)

Deleting(c) == DeleteUserURLs(c) \/ DeleteUserURLsV1(c)

ServiceNext ==
  \/ Prepare \/ Boot \/ Restart
  \/ \E c \in Clients : Creating(c) \/ Asking(c) \/ Deleting(c) \/ Forget(c)
  \/ FlushDeletions \/ GzipFails

ServiceSpec == ServiceInit /\ [][ServiceNext]_allVars

-----------------------------------------------------------------------------
(* Every variable holds what its declaration says.                          *)
ServiceTypeOK ==
  /\ TypeOK
  /\ tables \in [Databases -> SUBSET Row]
  /\ mem \in Map
  /\ jars \in [Clients -> Jar]
  /\ pending \subseteq Shorts \X Users
  /\ holder \in Servers \cup {None}
  /\ last \in Exchange \cup {None}
  /\ gone \subseteq Databases \X ShortValues
  /\ split \in BOOLEAN
  /\ restarts \in 0..MaxRestarts

(* Nobody is shown a list of URLs without having presented a token of this  *)
(* server, although the list is looked up before that is checked, and the   *)
(* id just drawn may be one that has URLs (handler/url.go:228-251).         *)
NoListWithoutToken ==
  last # None /\ last.op = "list" /\ last.pairs # {} => last.knew

(* Both servers know a client by one token: a token the HTTP server accepts *)
(* is never replaced, whichever server is asked whatever - even when a key  *)
(* of its own is configured for gRPC (main.go:626, 667-671).                *)
OneIdentity ==
  [][\A c \in Clients : Serving /\ ValidFor(wired["http"].key, jars[c]) => jars'[c] \in {jars[c], None}]_allVars

(* A client that was let through the chain leaves with a token that both    *)
(* servers will accept; only an HTTP list refused as unauthorized hands the *)
(* stale cookie back (handler/url.go:240-251).                              *)
Authorized == last # None /\ (last.via = "http" /\ last.op = "stats" => last.status = "ok")
LeavesWithToken ==
  Serving /\ Authorized /\ ~(last.via = "http" /\ last.op = "list" /\ last.status = "unauthorized")
  => \A v \in Servers : ValidFor(wired[v].key, jars[last.client])

(* Once a database's server has answered that a short URL was deleted, no   *)
(* server on that database resolves it again: not by creating the original  *)
(* anew, not after a restart (service/url.go:115-132).                      *)
GoneForGood ==
  last # None /\ last.op = "read" /\ last.status = "ok" =>
    \A p \in last.pairs : <<Dsn(last.via), p[2]>> \notin gone

(* The statistics count what can be resolved: as many URLs as a reader      *)
(* would find and is not told are deleted, and no more users than URLs      *)
(* (api/proto/urlshrt.proto:24), as long as both servers have always shared *)
(* a database.                                                              *)
Resolvable(v) == {o \in Originals : mem[o] # None /\ ~IsURLDeleted(v, mem[o])}
StatsCountResolvable ==
  Serving /\ ~split /\ last # None /\ last.op = "stats" /\ last.status = "ok" =>
    last.urls = Cardinality(Resolvable(last.via)) /\ last.users <= last.urls
=============================================================================
