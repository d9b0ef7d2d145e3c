# urlshrt, specified

A TLA+ verification of the URL shortener `urlshrt`: modules that model its
concurrent core, TLC runs over small instances, and TLAPS proofs for instances of
any size. Source paths below are relative to the repository (`src/` here).

## 1. The system

One process, `cmd/shortener`, serves HTTP and gRPC. Every request runs in a
goroutine of its own; both servers share one global map, one channel, one
`WaitGroup` and one `sync.Once`.

| Component | State | Operations | Interacts with | What makes it correct |
|---|---|---|---|---|
| Creation: `service.URL.CreateShortened`, `CreateShortenedFromBatch` (internal/service/url.go:33-186) | none of its own; a generator per request, seeded by `RandSeed` or the second | create one, create a batch | reads the map without a lock, saves through `repository.URL`, publishes in the map under the lock | one short URL per original whatever races; never one short URL for two originals; an answered URL is saved |
| Resolution: `service.URL.ReadOriginal` (108-133) | none | read | queries `is_deleted`, then searches the map without a lock | the original the client's short URL was given for, or "gone" |
| Storage: `repository.URL` (internal/repository/url.go) | table `urlshrt` (key: `original`) or a file of JSON lines | `Create`, `CreateBatch`, `ReadAll`, `DeleteUserURLs`, `IsURLDeleted`, `ReadUserURLs`, `CountURLsAndUsers` | PostgreSQL; falls back to the file when a ping fails | a batch is saved whole or not at all; a short URL is never changed |
| Current URLs: `state.currentUrls` (internal/state/allurls.go) | `map[original]URL`, a mutex | the service reads and writes it directly | loaded by `router()` at the start (cmd/shortener/main.go:53-64) | never shows what is not stored |
| Deletion: `service.URL.DeleteUserURLs` (188-251) | channel of 10, its mutex, the aggregator's buffer and timer | accept (202/OK), send, receive, flush | handlers, the table, the `WaitGroup` | every accepted deletion is applied once, to its caller's rows |
| Shutdown: `main` (677-738) | the two servers, the `WaitGroup` | signal, `Shutdown`, `Wait`, `GracefulStop` | all goroutines | ends, and ends with nothing half done |
| Configuration: `main` (117-577, 598-676) | flags, environment, JSON file, the `Config` struct | merge them once, open the databases, then wire the servers | everything's wiring | environment over flag over file over default; a start serves exactly if all it reads is readable and all its values make it use is usable; one store unless two are asked for |
| Authentication: internal/middleware/jwt.go, internal/interceptor/jwt.go | none here: a token in the client's cookie or metadata | check a token or issue one, with an id from 0..999 | in front of every handler | a client keeps its id, on both servers; nothing is listed without a token |
| Gzip, CIDR (internal/middleware), CIDR, validation (internal/interceptor) | none | decode or refuse one request | in front of the handlers | no list or JSON read from undecoded bytes |
| HTTP and gRPC handlers (internal/handler) | none | one service call each | the service of their server | one meaning on both servers |
| Logging, `cmd/staticlint`, generated stubs and mocks | | | | not part of the model, see 6 |

The hard parts are the interleavings: the scan, save and publish of a creation are
three separate steps; deletions are asynchronous and batched across users; shutdown
waits on a counter that other goroutines still move. Then there are the things that
meet across requests and restarts: two servers with one map and perhaps two databases,
tokens that outlive the key they were signed with, an environment variable whose name
a file changes. `PROJECT.json` lists each hazard at its line.

## 2. The modules

```
Storage            table, file and map operators        (constant level)
 |- Shortener      creation, resolution, map, restart    --INSTANCE--> UrlBook
 |   |- MCShortener        |- ShortenerProofs
 |- DeletePipeline deletion and shutdown
 |   |                                                   --INSTANCE--> DeleteLedger
 |   |- MCDeletePipeline   |- DeletePipelineProofs  |- DeleteLedgerProofs
 |- Gateway        tokens, subnet, bodies, validation    (constant level)
 |   |- GatewayProofs
 |- StorageProofs  lemmas the proof modules cite
Config             main() up to the wiring of the servers
 |- MCConfig       |- ConfigProofs
Service = Config + Gateway   both servers, their clients, restarts
 |- MCService      |- ServiceProofs (+ ConfigProofs, GatewayProofs, StorageProofs)
                       |- StatisticsProofs
```

Shortener and DeletePipeline look inside a request; Config and Service look at the
process as a whole, with a request as one step. The same source is therefore modelled at
two grains: what interleaving can do is settled by the first two, what a sequence of
requests, clients and starts can do by the others.

**Storage** has what one statement does: `Insert`/`Fits` (INSERT against the primary
key), `MarkDeleted` (the UPDATE with its two arrays), `DeletedAnswers`, `Appended` and
`Torn` (a line, or part of one, at the end of the file), `FromTable`/`FromFile` (what
the map is built from). A row is `[orig, short, user, deleted]`; UUIDs are left out,
as nothing reads them back.

**Shortener** follows a request by its `pc`:
`scan -> choose -> save -> (reread -> append) -> lock -> publish`, or
`check -> find`. The unlocked range loops visit one map entry per step, in any order.
A generator is the stream of strings of its seed (`Stream`), so two requests with one
seed draw the same strings. One SQL statement, or one transaction, is one step.
`FallBack` is every way to reach the file (no connection or a failed ping), `Reread` the
ReadAll inside `Create`, `CreateSwallowed` the INSERT whose error is ignored,
`CreateBatchRejected` a failed transaction (and a `CreateBatch` followed by "failed" a
commit whose acknowledgement was lost). `Restart` is a crash or a stop at any point and
a new start. `Loads` is what a start may put in the map: what is saved, and with faults also the
file in place of the table (ReadAll pings once more), a part of either (nobody asks whether
the rows or lines ended early), or one record of zero values. `Loaded` is what is saved. A start whose
migrations fail is no process; Config has it. `FlushDeletions` is the effect of the deletion pipeline on the table.
`told` is history: the pairs answered with success or 409. So are `wasGone` and `wasKnown` of a
read's input: whether its short URL was deleted, or in the map, when it arrived. (gRPC's `AlreadyExists` drops the
reply that carries the pair, so `told` is what a client may at most have been told.)

**UrlBook** is what it promises: a book of `original -> short` bindings that only
grows, and clients that are only told what is in it. `KeepsBook` says Shortener
implements it, with the table as the book.

**DeletePipeline** has, per delete request, the handler (`Arrive`, `Accept`), the
goroutine in `once.Do` (`BecomeAggregator`) and the sender (`LockChan`, `Send`); the one
aggregator (`Receive`, `Count`, `Flush`, `Release`: wg.Add after each receive, the UPDATE,
then the Done calls and the reset); batch creations, for the WaitGroup they share, from the handler's entry
to its return (`EnterCreation`, `BeginCreation`, `EndCreation`, `LeaveCreation`: the handler is at work before
wg.Add and after wg.Done); and main() (`Signal` to `GracefulStop`). The HTTP server lets nothing in once
Shutdown has begun, the gRPC server only once GracefulStop is called, so it accepts all through `Wait` and after. `Done` by n is one step: only the last of them can meet zero.
Servers, and the databases behind them, are constants.

**DeleteLedger** is what deletion promises: a ledger of accepted requests, each settled one item
after the other and once; settling marks exactly the rows the items name with their owner.
There is no channel, buffer, mutex or timer in it. `KeepsLedger` says DeletePipeline implements
it: a request is on the ledger once it is answered, its items are settled by the UPDATE, and the
release after it settles nothing again (`Settled` counts the buffer in between).

**Config** is main() before it serves, one action per stage: `ParseFlags` (only without
`CONFIG`), `ReadNames` (the first pass over the file, which may give variables other
names), `ReadEnvironment`, `ReadFile` (the second pass, over a file that need not be the
same, and may replace the default addresses, `defaults`), `ApplyDefaults`, `OpenDatabase`, `ResolveAddresses`,
`MakeServices`, `Wire` or `FailToListen`. What ends a start is a step to `stopped`: a switch that does not parse,
a file that cannot be read, a migration that fails (NewPG returns nil and main.go:547 or 614 panics; a ping that fails
does not stop anything), a gRPC address that cannot be listened on (655-659), certificate files that do not load (663-666).
What would fail if it were used is part of the input (`broken`). `serving` is main() waiting at 710. An option's value is a string; a switch is one too, with `Blank` for false
and `Bad` for what `ParseBool` refuses. The input is drawn at the start and never changes.

**Gateway** says what stands in front of a handler: `HttpAuthorize` and `GrpcAuthorize`
(the set of outcomes: the id, whether it is new, what the client holds afterwards),
`CheckCIDR`, `Received` (what a body of some type, compressed or not, is to the handler of
an endpoint), and the validators' rules. A token is a key and an id.

**Service** puts them together: after the stages of a start, `Boot` loads the map from
the HTTP server's table, then clients send requests to either server. Each request is
authorized with what the client holds, passes or fails the chain, and reads or changes the
table of its server's database (`Dsn`), the shared map, or the set of pending deletions;
`last` is the exchange the properties speak of. `holder` is the server whose service runs the
aggregator. `GzipFails` is a body that does not unpack, answered before anything else.
`Forget` is a client that loses its cookie, or a new one in its place. `Restart`
begins a start with other settings. Collisions of short URLs and stores that fail are left to
Shortener: here every start has a database that answers.

Definitions named "Mutant: ..." are plausible bugs. They are used by no specification;
each property of a passing run is broken by the one `PROJECT.json` pairs it with, in that run.

## 3. The runs

| Run | Instance | Shows |
|---|---|---|
| `shortener_pg` | 2 requests, 2 originals, batches to 2, one shared seed, 1 restart, PostgreSQL, no faults; fairness | `Agreement`, `Durable`, `MemBacked`, `EntriesStay`, `KeepsBook`, `EventuallyResolvable` |
| `shortener_reads` | 3 requests of all kinds, deletions, seeds not shared in flight | `ShortsDistinct`, `GoneStaysGone`, `ReadsWhatWasTold`, `KnownIsFound` |
| `shortener_file` | 3 single creations incl. of the empty URL, no PostgreSQL, file faults | `Agreement` and `ToldInMem` rest on the map alone |
| `shortener_faults` | 2 creations, every store call may fail, 2 seeds; fairness | `BatchAllOrNothing`, `EveryRequestAnswered` |
| `deletes` | 2 delete requests of 1-2 items (one list names a short URL twice), 2 users, HTTP and gRPC, 1 batch creation, channel of 2, flush at 2 | the WaitGroup is exact; nothing lost, doubled or mixed up inside; UPDATE marks what was asked; `WaitMeansFlushed`; `KeepsLedger` |
| `deletes_live` | 2 delete requests, channel of 1, UPDATEs fail, Shutdown times out; fairness | `AcceptedIsFlushed`, `ShutdownEnds` |
| `startup` | every flag, variable (by both names) and file entry of a switch, an address, the storage path, the key and their gRPC counterparts, the defaults of a file, unreadable values and files, and what cannot be used | the configuration's precedence and its consequences (`Precedence`, `OneStoreUnlessAsked`, `LinksReachTheServer`), and which starts end up serving (`ServesIffAble`) |
| `service` | 1 client that forgets (so any number of clients one after the other), 2 ids, 1 original and the empty one, 2 short URLs, 2 databases, 2 keys, 1 restart with the other settings | `NoListWithoutToken`, `LeavesWithToken`, `OneIdentity`, `GoneForGood`, `StatsCountResolvable` |
| `same_second` | violation | two creations in one second share a short URL; a reader gets the other's original |
| `file_order` | violation | without PostgreSQL, an acknowledged short URL is never saved |
| `lost_at_exit` | violation | a graceful exit drops an accepted deletion |
| `grpc_delete` | violation | a gRPC deletion is applied as user 1 |

The four violations are disagreements between the code and what the repository says of
it; `PROJECT.json` quotes the lines.

**Bounds.** `MaxBatch`, `MaxRestarts`, `ShortLists`, `ChanCap`, `FlushAt` and the sizes of the
sets. Two requests are enough for each race of two writers over one map entry, row or line; the
third in `shortener_reads` is the reader of what two others did, and in `shortener_file` the one
that meets an entry after a failed line. Two originals and batches of two give equal,
overlapping and disjoint batches, and an original named twice. A channel of one or two fills
up and a threshold of two is reached both inside and across requests, as 10 and 10 do at full
size. Streams are as long as the strings all requests together can take. Where symmetry is used
it permutes requests, or in `service` short URLs, and no run with it checks liveness. In `startup` options are varied two by two,
the pairs that meet in main(), each with the default of the file that matters for it and with either of its two broken.
Deadlock is not
checked: requests are one-shot, the process stops, a start ends, so every model ends.

In `service`, `MaxRows`, `MaxPending`, `MaxBatch` and `MaxRestarts` bound the rows of all
databases, the deletions not yet applied, a batch and the restarts. Two rows can belong to one user or
two, lie in one database or two, and be deleted or not; one pending deletion is enough, because two
are applied as one after the other. The second start has another key (tokens of the first are
stale) and a database of its own for gRPC; started in the other order, the first has. One client is
enough where a property speaks of one client's token, and two clients that share an id are one after
`Forget`. The proofs of section 4 need none of these bounds.

**Fairness.** Only of steps that are the program's own: `WF(Continue(r))` (a goroutine
that can run does, and `sync.Mutex` hands the lock over: no request can hold it twice),
`WF` of each sender, of the aggregator, of main(), of a batch creation that has reached its handler and of
the passing of 450 ms. No fairness for arrivals, failures, signals, deletions or restarts.
`LockChan` needs only weak fairness as each request sends once: a waiting sender meets only
finitely many holders.

**What is not claimed.** The effect of deletions where gRPC has a database of its own; that the WaitGroup does not panic
when gRPC adds to it during `Wait` (`ShutdownEnds` counts that as an end). With faults on PostgreSQL, an INSERT whose error is swallowed and a
ping that fails make the map and the table part (the 201 is a promise the table does not
keep), so `Durable`, `MemBacked`, `EntriesStay` and `KeepsBook` are stated of faultless stores, with
crashes of the process. `KnownIsFound` rests on `EntriesStay`: a scan passes over an entry that
is replaced under it. An error of the `is_deleted` query serves a deleted URL, so
`GoneStaysGone` is stated of faultless stores too, and of reads that arrive after the mark: one overtaken by it between
its two reads may still be answered. `shortener_faults` starts from empty stores (`MaxRestarts = 0`; 1 holds as well, in
six times the states), so what `Loads` adds to a later start is met there by no run, and nothing is claimed of it but types. `ShortsDistinct` needs distinct seeds in flight; `same_second` is the
other case. `BatchAllOrNothing` is said of a batch with a seed of its own. The map is read without
its mutex while others write it (internal/service/url.go:56, 64, 119, 157): a data race, which
the Go runtime may answer with a fatal error. The entry-by-entry reads are modelled, the abort is not.

`LeavesWithToken` exempts one answer: a stale cookie is set again by `ReadUserURLs`
(internal/handler/url.go:245), over the new one. `StatsCountResolvable` is said of servers that
have always shared a database; with two, the map is loaded from one and the statistics are of either.
`Precedence` states the code's rule for a switch: false, explicit or not, is no value, and the
file's true wins (cmd/shortener/main.go:452).

## 4. The proofs

All for any sets of requests, originals, short URLs and users, any streams and bounds.

*ShortenerProofs.* `TypesHold`: type correctness, from `TypeInv`, which adds the shape of
each request (which kind is at which `pc`, that a request past its choice has chosen for
every element, that what is to do are indices of its elements): without it, the element a step
takes might not exist. For PostgreSQL without faults (`PgOnly`): `PgInv` adds that
`original` is unique, that `told` and the map are within the table, and, the heart of it,
`PgShape`: a short URL reused from the map is in the table *already*, and every element of
a request is in the table by the time it may publish. Nothing ever leaves the table
(`Grows`), so backed pairs stay backed under all other requests' steps. From it:
`ToldIsDurable`, `MapIsBacked`, `ClientsAgree` (two told pairs are rows, and rows with one key
are equal), and `KeepsTheBook`, the refinement of UrlBook: a step inserts or tells, never
both. `MapKeepsEntries`: an entry and what would replace it are rows of one original, of which
there is one; a restart loads every row.

What the runs show of distinct seeds needs two things the code does not give but only makes
likely, so they are hypotheses with a name. `SeedsApart`: two seeds give no string in common.
`SeedsInUse`: requests in flight do not share a seed, as when no two start in one second.
- `StringsAreDrawn`, of any faults and with no hypothesis: every short URL in the table
  comes from the generator of a request that started, and that of a new item from its own
  request's.
- `BatchesAreWhole` (`SeedsApart`; any faults, restarts, lost acknowledgements):
  `BatchAllOrNothing`. By itself it is not inductive: nothing in it forbids a row that looks
  like the batch's own before the transaction. `Whole` adds that until then no row has a
  string of the generator of a batch whose seed is its own.
- `ShortUrlsAreDistinct` (`PgOnly`, `SeedsInUse`; any restarts): `ShortsDistinct`. `Listed` is the
  heart: a row is in the map, where the range loop of a creation collects it
  (internal/service/url.go:56, 157), or is of a creation in flight, which has another seed. A request
  knows every row with a string of its own generator (`Fresh`), and chooses none of them. Between
  INSERT and publish a row is only the latter, and that is where `same_second` breaks it.
- `GoneIsGone`, `ReadsAreTrue` (same hypotheses): the row a read goes by is the one with its short
  URL (`ReadInv`), and no step takes its mark away.
- `SearchFinds` (`PgOnly`): `KnownIsFound`. While a search is on, the entry it should find is one of
  those it has yet to visit (`Known`); entries stay, so it is visited as it was.
- `HolderPublishes`, with no hypothesis: a request is at `publish` exactly while it holds the mutex.
- Without PostgreSQL (`MapOnly`: single creations, one process, any faults of the file), `MapInv`
  carries what the unique key carries elsewhere: `ToldStaysInMem`, `ClientsAgreeOnMap`,
  `SearchFindsOnMap`. Publishing looks again under the mutex and then tells what is there.

*DeletePipelineProofs.* `DelInv` is types, `WgCounts`, that an uncounted item is one
of the buffer, and the shape of each request (its items run out exactly when its sender
stops). Then `DeleteTypes` (the WaitGroup stays a natural number: `Done` never panics),
`CounterIsExact`, and `WaitSuffices`: main() passes `Wait` with nothing counted unflushed and no
batch at work. The finiteness of the set of batch creations is the one assumption of size.

*DeleteLedgerProofs.* `FlowInv` adds where each item is. What is pending is the buffer followed
by the channel; `AllThere`: a request has sent what has left plus what it has pending; `Placed`: its
n-th pending item is the n-th of those that have not left; `AtTail`: the items of the mutex's holder are
the last ones, without which `RequestsStayTogether` is not inductive. Ranks are cardinalities
of sets of places, so their lemmas (`RankStep`, `RankConcat`, `RankOnto`) follow from the library's theorems
on finite sets, without induction. `BufferedIsDue` is the heart: the pairs of an UPDATE are the next
items of each request, as many as it has in the buffer; that every one is there is a pigeon-hole
argument. From these: `NothingIsLost`, `RequestsKeepTogether`, `KeepsTheLedger` (the refinement),
`OnlyRequestsDelete` (assuming rows that start undeleted) and `HttpDeletesDo` (assuming one
database whose UPDATEs do not fail: with two, or after a failure, it is false, and the code only logs).

*ConfigProofs.* `Stagewise` says, for every stage, that `conf`, `wasSet`, `defaults` and `renamed` are the
functions of the input that the stages so far should have computed (`FromFlag`, then
`Explicit`, `Filled`, `Settled`, `Final`), that what has been read was readable and what has been used was usable, and
that a start that stopped had a reason to (`Readable`, `Able`: said of the input, not of the stages). Each stage's action takes
one line of it to the next; Precedence is not inductive by itself, since it speaks of the last
stage only. From it: `ConfigTypes`, `BadStartsStop`, `SourcesTakePrecedence`, `OneStoreByDefault`,
`LinksAreServed`.

*GatewayProofs.* `AuthorizedHoldsToken` for any keys and ids, `JsonIsDecoded`, and
`CompressedListsAreRefused`: the two JSON endpoints whose compressed bodies the middleware
relabels as text (internal/middleware/gz.go:40) never accept one.

*ServiceProofs.* `ServiceInv` is types, `Stagewise` (so that both servers sign with one key, and
not an empty one), a database for each server, unique keys in every table, and `GoneIsDeleted`:
a short URL that was answered as deleted is that of a *deleted row*. The last is what makes
`GoneForGood` inductive: rows are never removed, a mark is never taken back (`Stored`), so the
query that precedes every read finds the row. Every request is brought to the form
`Stored /\ Replied(c) /\ Held(c)`, from which `RequestConcludes` derives the invariant once for
all of them, with `KeepsTokens`, the action property. From it: `ServiceTypes`, `ListsNeedTokens`,
`ClientsLeaveWithToken`, `DeletedForGood`, `TokensAreKept`.

*StatisticsProofs.* `StatisticsResolve`. While one database is shared the map agrees with its table
(`Viewed`), and a short URL names one row (`Distinct`); so the map from a live row to its original is
a bijection onto what resolves, and the library's theorems on finite sets give equal cardinalities.

Assumptions are `StorageAssumption`, `ShortenerAssumption`, `InputAssumption`, `DeleteAssumption`,
`ConfigAssumption`, `GatewayAssumption` and `ServiceAssumption`, which TLC evaluates on every
run. `ServiceAssumption` asks for finitely many ids and originals, for the cardinalities.

*Only model-checked:* liveness (`EventuallyResolvable`, `EveryRequestAnswered`,
`AcceptedIsFlushed`, `ShutdownEnds`): ENABLED is out of the prover's reach. Every invariant and
every action property of a passing run is a theorem. What the four violations show needs none: a
counterexample is one.

## 5. Plan

1. **Proofs** of what survives PostgreSQL's faults: which told pairs may be missing from the table.
2. **Two databases** in more detail: what a split deployment's deletions reach.

## 6. Not modelled

- Logging, TLS, autocert, JSON and protobuf encodings, compressed responses:
  input and output, with no state the properties tell apart. With autocert go the file's
  `default_https_01_challenge_address`, `cache_dir`, `cert_key_path` and `cert_path`
  (cmd/shortener/main.go:472-478, 488-494), which only TLS uses; whether the certificate loads is modelled.
- The reason for a shutdown: a signal, an HTTP listener or a server that fails (686-707) are all `Signal`.
- What a panic at main()'s very end does: a start that continued after a failed ping defers `Close` on nil (551).
- The lengths of lines: one over 64 KiB ends a read early, as any read may with faults. Directory modes.
- How a random string is put together (pkg/util/randstr.go): its limiter leaves out `z`, which
  makes 51^7 short URLs instead of 52^7.
- The expiry of tokens after three days: an expired token is one that is not valid, as one signed with
  another key.
- `cmd/staticlint`: a developer tool that composes analyzers, one pass over a syntax tree. It picks
  analyzers by exact names, where its documentation speaks of whole classes.
- Generated stubs and mocks.
