--------------------------- MODULE DeletePipeline ---------------------------
(***************************************************************************)
(* Asynchronous deletion and graceful shutdown: the HTTP and gRPC delete   *)
(* handlers, service.URL.DeleteUserURLs with the goroutines it starts, the *)
(* channel they share, the one aggregator loop behind the sync.Once, the   *)
(* WaitGroup it shares with batch creations, and main() from the signal to *)
(* its end.                                                                *)
(***************************************************************************)
EXTENDS Storage

CONSTANTS Jobs,        \* delete requests that may arrive
          Creations,   \* batch-creation requests that may arrive
          Servers,     \* those that serve here, of "http" and "grpc"
          Stores,      \* databases
          StoreOf,     \* which of them each server's service writes to
          Table0,      \* rows each database starts with
          GrpcUser,    \* the id DeleteUserURLsV1 puts in its context
          ShortLists,  \* the lists of short URLs delete requests bring
          ChanCap,     \* capacity of the channel (10 in main.go:625)
          FlushAt,     \* buffered items that force a flush (10 in url.go:217)
          Faults       \* may the UPDATE fail, may Shutdown time out?

\* What a delete request brings, and what is asked with it.
JobInput == [via : Servers, caller : Users, shorts : Seq(Shorts)]
Asking == [shorts : Seq(Shorts), user : Users]

ASSUME DeleteAssumption ==
  /\ None \notin Jobs \cup Servers \cup JobInput \cup Asking
  /\ IsFiniteSet(Creations)
  /\ Servers \subseteq {"http", "grpc"}
  /\ StoreOf \in [Servers -> Stores]
  /\ Table0 \in [Stores -> SUBSET Row]
  /\ GrpcUser \in Users
  /\ ShortLists \subseteq Seq(Shorts) \ {<< >>}   \* an empty list is refused
  /\ ChanCap \in Nat \ {0} /\ FlushAt \in Nat \ {0}
  /\ Faults \in BOOLEAN

VARIABLES
  tables,    \* the rows of each database
  job,       \* each delete request's input
  stage,     \* where its handler, and then its sender goroutine, is
  sent,      \* how many of its items it has put in the channel
  applied,   \* history: how many of its items have left with a flush
  chanMu,    \* the job holding the channel's mutex
  chan,      \* the channel's contents
  once,      \* the server whose service runs the aggregator
  agg,       \* where the aggregator loop is
  buf,       \* shortURLs.URLs and .uid
  expired,   \* have 450 ms passed since the last flush?
  wg,        \* the WaitGroup's counter
  creation,  \* where each batch creation is
  phase      \* where main() is

jobVars == <<job, stage, sent>>
chanVars == <<chanMu, chan>>
aggVars == <<agg, buf, expired, applied>>
vars == <<tables, job, stage, sent, applied, chanMu, chan, once, agg, buf, expired,
          wg, creation, phase>>

(* An item of the channel: domain.URLWithID.  `by` is history.              *)
Entry == [short : Shorts, user : Users, by : Jobs]

\* Mutant: every handler takes the user from the gRPC context.
ItemOfGrpcUser(j, i) == [short |-> job[j].shorts[i], by |-> j, user |-> GrpcUser]

\* The user a handler takes from the context of its request.
Owner(j) == IF job[j].via = "grpc" THEN GrpcUser ELSE job[j].caller

ItemOf(j, i) == [short |-> job[j].shorts[i], by |-> j, user |-> Owner(j)]

Dead == {"exited", "aborted", "panicked"}
Alive == phase \notin Dead

-----------------------------------------------------------------------------
Init ==
  /\ tables = Table0
  /\ job = [j \in Jobs |-> None]
  /\ stage = [j \in Jobs |-> "idle"]
  /\ sent = [j \in Jobs |-> 0]
  /\ applied = [j \in Jobs |-> 0]
  /\ chanMu = None /\ chan = << >>
  /\ once = None
  /\ agg = "select" /\ buf = << >> /\ expired = FALSE
  /\ wg = 0
  /\ creation = [c \in Creations |-> [at |-> "idle", via |-> None]]
  /\ phase = "serving"

(* The HTTP server stops accepting when Shutdown begins, the gRPC server    *)
(* only when GracefulStop is called, after the wait.                        *)
Accepting(server) ==
  IF server = "http" THEN phase = "serving"
  ELSE phase \in {"serving", "draining", "waiting", "asleep", "woken", "waited"}

\* A request reaches its handler ...
Arrive(j) ==
  /\ stage[j] = "idle"
  /\ \E via \in Servers, u \in Users, ss \in ShortLists :
       /\ Accepting(via)
       /\ job' = [job EXCEPT ![j] = [via |-> via, caller |-> u, shorts |-> ss]]
  /\ stage' = [stage EXCEPT ![j] = "handling"]
  /\ UNCHANGED <<tables, sent, chanVars, once, aggVars, wg, creation, phase>>

\* ... which starts the goroutine that calls DeleteUserURLs, and answers 202 / OK.
Accept(j) ==
  /\ Alive /\ stage[j] = "handling"
  /\ stage' = [stage EXCEPT ![j] = "accepted"]
  /\ UNCHANGED <<tables, job, sent, chanVars, once, aggVars, wg, creation, phase>>

\* DeleteUserURLs starts two goroutines.
DeleteUserURLs(j) ==
  /\ Alive /\ stage[j] = "accepted"
  /\ stage' = [stage EXCEPT ![j] = "locking"]
  /\ UNCHANGED <<tables, job, sent, chanVars, once, aggVars, wg, creation, phase>>

(* The first of them calls once.Do: one becomes the aggregator, with the    *)
(* repository of its own service; the others wait there for ever.           *)
BecomeAggregator(j) ==
  /\ Alive /\ stage[j] \in {"locking", "sending", "sent"} /\ once = None
  /\ once' = job[j].via
  /\ UNCHANGED <<tables, jobVars, chanVars, aggVars, wg, creation, phase>>

\* Mutant: "channels are safe for concurrent execution" (domain/mutexchan.go:6).
LockNothing(j) ==
  /\ Alive /\ stage[j] = "locking"
  /\ stage' = [stage EXCEPT ![j] = "sending"]
  /\ UNCHANGED <<tables, job, sent, chanVars, once, aggVars, wg, creation, phase>>

\* The second sends its items in a row, under the channel's mutex.
LockChan(j) ==
  /\ Alive /\ stage[j] = "locking" /\ chanMu = None
  /\ chanMu' = j
  /\ stage' = [stage EXCEPT ![j] = "sending"]
  /\ UNCHANGED <<tables, job, sent, chan, once, aggVars, wg, creation, phase>>

\* Mutant: a select whose default drops the item when the channel is full.
SendOrDrop(j) ==
  /\ Alive /\ stage[j] = "sending"
  /\ chan' = IF Len(chan) < ChanCap THEN Append(chan, ItemOf(j, sent[j] + 1)) ELSE chan
  /\ sent' = [sent EXCEPT ![j] = @ + 1]
  /\ IF sent'[j] = Len(job[j].shorts)
     THEN chanMu' = None /\ stage' = [stage EXCEPT ![j] = "sent"]
     ELSE UNCHANGED <<chanMu, stage>>
  /\ UNCHANGED <<tables, job, once, aggVars, wg, creation, phase>>

Send(j) ==
  /\ Alive /\ stage[j] = "sending" /\ Len(chan) < ChanCap
  /\ chan' = Append(chan, ItemOf(j, sent[j] + 1))
  /\ sent' = [sent EXCEPT ![j] = @ + 1]
  /\ IF sent'[j] = Len(job[j].shorts)
     THEN chanMu' = None /\ stage' = [stage EXCEPT ![j] = "sent"]
     ELSE UNCHANGED <<chanMu, stage>>
  /\ UNCHANGED <<tables, job, once, aggVars, wg, creation, phase>>

-----------------------------------------------------------------------------
(* The aggregator.  Its select prefers the channel, and so does the inner   *)
(* loop: it takes items, counting each one after it was taken, until the    *)
(* channel is empty.                                                        *)
Running(label) == Alive /\ once # None /\ agg = label

Receive ==
  /\ Running("select") /\ chan # << >>
  /\ buf' = Append(buf, Head(chan))
  /\ chan' = Tail(chan)
  /\ agg' = "count"
  /\ UNCHANGED <<tables, jobVars, chanMu, once, expired, applied, wg, creation, phase>>

\* Mutant: no wg.Add(1).
CountNothing ==
  /\ Running("count")
  /\ agg' = "select"
  /\ UNCHANGED <<tables, jobVars, chanVars, once, buf, expired, applied, wg, creation,
                 phase>>

Count ==
  /\ Running("count")
  /\ wg' = wg + 1
  /\ agg' = "select"
  /\ UNCHANGED <<tables, jobVars, chanVars, once, buf, expired, applied, creation, phase>>

\* Mutant: no timer.
FlushWhenFull == Len(buf) >= FlushAt

FlushDue == Len(buf) >= FlushAt \/ (expired /\ buf # << >>)

\* Mutant: the user of the first item is bound to the whole array.
BufferedOfFirst == {<<buf[i].short, buf[1].user>> : i \in DOMAIN buf}

Buffered == {<<buf[i].short, buf[i].user>> : i \in DOMAIN buf}

\* The default branch: one UPDATE for the whole buffer; a failure is only logged.
Flush ==
  /\ Running("select") /\ chan = << >> /\ FlushDue
  /\ \/ tables' = [tables EXCEPT ![StoreOf[once]] = MarkDeleted(@, Buffered)]
     \/ Faults /\ UNCHANGED tables
  /\ agg' = "release"
  /\ UNCHANGED <<jobVars, chanVars, once, buf, expired, applied, wg, creation, phase>>

(* wg.Done() by n at once: the counter meets zero at the last of them, which *)
(* releases main() if it sleeps in Wait.                                     *)
Done(n) ==
  /\ wg' = wg - n
  /\ phase' = IF phase = "asleep" /\ wg = n THEN "woken" ELSE phase

Leaving(j) == Cardinality({i \in DOMAIN buf : buf[i].by = j})

Release ==
  /\ Running("release")
  /\ Done(Len(buf))
  /\ applied' = [j \in Jobs |-> applied[j] + Leaving(j)]
  /\ buf' = << >>
  /\ expired' = FALSE
  /\ agg' = "select"
  /\ UNCHANGED <<tables, jobVars, chanVars, once, creation>>

TimePasses ==
  /\ Alive /\ ~expired
  /\ expired' = TRUE
  /\ UNCHANGED <<tables, jobVars, chanVars, once, agg, buf, applied, wg, creation, phase>>

-----------------------------------------------------------------------------
\* A batch creation reaches its handler ...
EnterCreation(c) ==
  /\ creation[c].at = "idle"
  /\ \E via \in Servers :
       Accepting(via) /\ creation' = [creation EXCEPT ![c] = [at |-> "entered", via |-> via]]
  /\ UNCHANGED <<tables, jobVars, chanVars, once, aggVars, wg, phase>>

Proceed(c, from, to) ==
  /\ Alive /\ creation[c].at = from
  /\ creation' = [creation EXCEPT ![c].at = to]
  /\ UNCHANGED <<tables, jobVars, chanVars, once, aggVars>>

\* Mutant: no wg.Add(1).
BeginUncounted(c) == Proceed(c, "entered", "counted") /\ UNCHANGED <<wg, phase>>

(* ... which calls CreateShortenedFromBatch: that uses the same WaitGroup   *)
(* (service/url.go:34-35).                                                  *)
BeginCreation(c) ==
  /\ Proceed(c, "entered", "counted")
  /\ wg' = wg + 1
  /\ UNCHANGED phase

\* Mutant: an early return without wg.Done().
EndUncounted(c) == Proceed(c, "counted", "uncounted") /\ UNCHANGED <<wg, phase>>

EndCreation(c) == Proceed(c, "counted", "uncounted") /\ Done(1)

\* The handler returns, from "entered" if it refuses the request.
LeaveCreation(c) ==
  /\ Alive /\ creation[c].at \in {"entered", "uncounted"}
  /\ creation' = [creation EXCEPT ![c] = [at |-> "done", via |-> None]]
  /\ UNCHANGED <<tables, jobVars, chanVars, once, aggVars, wg, phase>>

-----------------------------------------------------------------------------
(* main(), from <-ret on.                                                   *)
Handling(server) ==
  \/ \E j \in Jobs : stage[j] = "handling" /\ job[j].via = server
  \/ \E c \in Creations : creation[c].via = server

Move(from, to) ==
  /\ phase = from
  /\ phase' = to
  /\ UNCHANGED <<tables, jobVars, chanVars, once, aggVars, wg, creation>>

Signal == Move("serving", "draining")

\* server.Shutdown returns when no HTTP handler is active, or after 5 s with an error.
ShutdownDone == ~Handling("http") /\ Move("draining", "waiting")
ShutdownTimeout == Faults /\ Handling("http") /\ Move("draining", "aborted")

\* Mutant: main() does not wait.
WaitNot == Move("waiting", "waited")

Wait == Move("waiting", IF wg = 0 THEN "waited" ELSE "asleep")

\* Wait panics if it finds the counter in use again when it has been woken.
WaitReturns == Move("woken", IF wg = 0 THEN "waited" ELSE "panicked")

\* GracefulStop lets no more requests in, then waits for those at work.
GracefulStop ==
  \/ Move("waited", "stopping")
  \/ ~Handling("grpc") /\ Move("stopping", "exited")

Main == ShutdownDone \/ ShutdownTimeout \/ Wait \/ WaitReturns \/ GracefulStop

Creating(c) == BeginCreation(c) \/ EndCreation(c) \/ LeaveCreation(c)

Aggregator == Receive \/ Count \/ Flush \/ Release

Sender(j) == Accept(j) \/ DeleteUserURLs(j) \/ LockChan(j) \/ Send(j)

Next ==
  \/ \E j \in Jobs : Arrive(j) \/ Sender(j) \/ BecomeAggregator(j)
  \/ Aggregator
  \/ TimePasses
  \/ \E c \in Creations : EnterCreation(c) \/ Creating(c)
  \/ Signal
  \/ Main

Spec == Init /\ [][Next]_vars

(* Goroutines that can run do run, handlers return, and time passes.        *)
Fairness ==
  /\ \A j \in Jobs : WF_vars(Sender(j)) /\ WF_vars(BecomeAggregator(j))
  /\ WF_vars(Aggregator) /\ WF_vars(TimePasses)
  /\ \A c \in Creations : WF_vars(Creating(c))
  /\ WF_vars(Main)

FairSpec == Spec /\ Fairness

-----------------------------------------------------------------------------
(* Every variable holds what its declaration says.                          *)
TypeOK ==
  /\ tables \in [Stores -> SUBSET Row]
  /\ job \in [Jobs -> JobInput \cup {None}]
  /\ stage \in [Jobs -> {"idle", "handling", "accepted", "locking", "sending", "sent"}]
  /\ sent \in [Jobs -> Nat] /\ applied \in [Jobs -> Nat]
  /\ chanMu \in Jobs \cup {None}
  /\ chan \in Seq(Entry)
  /\ once \in Servers \cup {None}
  /\ agg \in {"select", "count", "release"}
  /\ buf \in Seq(Entry)
  /\ expired \in BOOLEAN
  /\ wg \in Nat
  /\ creation \in [Creations -> [at : {"idle", "entered", "counted", "uncounted", "done"},
                                 via : Servers \cup {None}]]
  /\ phase \in {"serving", "draining", "waiting", "asleep", "woken", "waited", "stopping"}
              \cup Dead

(* The WaitGroup counts exactly the buffered deletions and the batches at   *)
(* work, whatever Add and Done interleave: so it is never negative (a       *)
(* panic), and zero means that nothing buffered is unflushed.               *)
Working == {c \in Creations : creation[c].at = "counted"}
Uncounted == IF agg = "count" THEN 1 ELSE 0
WgCounts == wg = Len(buf) - Uncounted + Cardinality(Working)

(* No deletion is lost or doubled on its way from a request to the flush:   *)
(* every item sent is in the channel, in the buffer, or has been flushed    *)
(* (service/url.go:203-215, 241-250).                                       *)
CountOf(j, seq) == Cardinality({i \in DOMAIN seq : seq[i].by = j})
NothingLostInside ==
  \A j \in Jobs : sent[j] = CountOf(j, chan) + CountOf(j, buf) + applied[j]

(* The channel takes one request's items at a time, and the aggregator      *)
(* keeps their order: the unflushed items of two requests never interleave. *)
Pending == buf \o chan
RequestsStayTogether ==
  \A i, k \in DOMAIN Pending : i < k /\ Pending[i].by = Pending[k].by =>
     \A m \in i..k : Pending[m].by = Pending[i].by

(* A row is marked only for a request that named its short URL together     *)
(* with its owner: the two arrays of the UPDATE are matched in lockstep,    *)
(* also when a flush mixes several users (repository/url.go:323-332).       *)
OnlyRequestedDeleted ==
  \A st \in Stores : \A row \in tables[st] : row.deleted =>
     \E j \in Jobs : /\ job[j] # None
                     /\ \E i \in DOMAIN job[j].shorts :
                           /\ ItemOf(j, i).short = row.short
                           /\ ItemOf(j, i).user = row.user

(* A delete request has its effect: when all its items have been flushed,   *)
(* its caller's rows with those short URLs are marked, in the database of   *)
(* the server that took it (openapi's and proto's "delete user's urls").    *)
Flushed(j) == job[j] # None /\ applied[j] = Len(job[j].shorts)
Effective(j) ==
  \A row \in tables[StoreOf[job[j].via]] :
     row.user = job[j].caller /\ (\E i \in DOMAIN job[j].shorts : job[j].shorts[i] = row.short)
     => row.deleted
TookEffect(server) ==
  \A j \in Jobs : Flushed(j) /\ job[j].via = server => Effective(j)
HttpDeletesTakeEffect == TookEffect("http")
GrpcDeletesTakeEffect == TookEffect("grpc")

(* The whole pipeline implements the ledger: a request is on it once it is  *)
(* answered (202), and settled by the UPDATE, one item at a time and in     *)
(* order, whichever flush and with whomever's items (url.go:188-251).       *)
Accepted(j) == stage[j] \notin {"idle", "handling"}
Asked == [j \in Jobs |-> IF Accepted(j) THEN [shorts |-> job[j].shorts, user |-> Owner(j)]
                                       ELSE None]
Settled == [j \in Jobs |-> applied[j] + IF agg = "release" THEN Leaving(j) ELSE 0]
Ledger == INSTANCE DeleteLedger WITH asked <- Asked, settled <- Settled
KeepsLedger == Ledger!LedgerSpec

(* When main() gets past wg.Wait, every deletion the WaitGroup had counted  *)
(* has left with a flush, and no batch creation is at work.                 *)
WaitMeansFlushed ==
  [][phase # "waited" /\ phase' = "waited" =>
       Len(buf) = Uncounted /\ Working = {}]_vars

(* A deletion that was accepted is flushed in the end, unless the process   *)
(* is told to stop: no sender starves for the mutex or a full channel.      *)
AcceptedIsFlushed ==
  \A j \in Jobs : stage[j] = "accepted" ~> Flushed(j) \/ phase # "serving"

(* Shutdown ends: neither the WaitGroup nor a handler holds main() for ever. *)
ShutdownEnds == phase = "draining" ~> phase \in Dead

(* "waiting for goroutines which are not using network to finish their      *)
(* jobs" (main.go:730, and 593-594): a graceful exit leaves no accepted     *)
(* deletion behind.                                                         *)
NothingLostAtExit ==
  phase = "exited" =>
    \A j \in Jobs : stage[j] \notin {"idle", "handling"} => Flushed(j)
=============================================================================
