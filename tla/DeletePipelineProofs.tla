------------------------ MODULE DeletePipelineProofs ------------------------
(***************************************************************************)
(* What holds of module DeletePipeline for every value of its constants:   *)
(* any number of requests, users and servers, any capacity and threshold.  *)
(***************************************************************************)
EXTENDS DeletePipeline, StorageProofs, FiniteSetTheorems

(* A request that has reached its handler names at least one short URL and  *)
(* has sent fewer than all of them until its sender is through.             *)
JobShape(j) ==
  /\ stage[j] # "idle" => job[j] \in JobInput /\ Len(job[j].shorts) >= 1
  /\ stage[j] \in {"idle", "handling", "accepted", "locking"} => sent[j] = 0
  /\ stage[j] = "sending" => sent[j] < Len(job[j].shorts)

(* The inductive invariant.  The item the WaitGroup has yet to count is one *)
(* of the buffer: without this, Done could be thought to go below zero.     *)
DelInv ==
  /\ TypeOK
  /\ WgCounts
  /\ agg = "count" => buf # << >>
  /\ \A j \in Jobs : JobShape(j)

(* The batches at work are finitely many, and one more or less of them is   *)
(* counted as such.                                                         *)
LEMMA WorkingFinite ==
  /\ IsFiniteSet(Working) /\ Cardinality(Working) \in Nat
  /\ \A c \in Creations : creation[c].at = "counted" => Cardinality(Working) >= 1
<1>1. Working \subseteq Creations /\ IsFiniteSet(Creations)
  BY DeleteAssumption DEF Working
<1>2. IsFiniteSet(Working) /\ Cardinality(Working) \in Nat
  BY <1>1, FS_Subset, FS_CardinalityType
<1>3. ASSUME NEW c \in Creations, creation[c].at = "counted"
      PROVE  Cardinality(Working) >= 1
  <2>1. c \in Working
    BY <1>3 DEF Working
  <2>2. Cardinality(Working) # 0
    BY <1>2, <2>1, FS_EmptySet
  <2> QED BY <1>2, <2>2
<1> QED BY <1>2, <1>3

(* Init establishes the invariant: nothing buffered, nothing counted.       *)
LEMMA DelInit == Init => DelInv
<1> SUFFICES ASSUME Init PROVE DelInv
  OBVIOUS
<1>1. Working = {}
  BY DeleteAssumption DEF Init, Working
<1>2. WgCounts
  BY <1>1, FS_EmptySet DEF Init, WgCounts, Uncounted
<1>3. /\ tables \in [Stores -> SUBSET Row]
      /\ job \in [Jobs -> JobInput \cup {None}]
      /\ creation \in [Creations -> [at : {"idle", "entered", "counted", "uncounted", "done"},
                                     via : Servers \cup {None}]]
  BY DeleteAssumption DEF Init
<1>4. /\ stage \in [Jobs -> {"idle", "handling", "accepted", "locking", "sending", "sent"}]
      /\ sent \in [Jobs -> Nat] /\ applied \in [Jobs -> Nat]
      /\ wg \in Nat /\ expired \in BOOLEAN
  BY DEF Init
<1>5. chan \in Seq(Entry) /\ buf \in Seq(Entry)
  BY DEF Init
<1>6. TypeOK
  BY <1>3, <1>4, <1>5 DEF Init, TypeOK
<1> QED BY <1>2, <1>6 DEF Init, DelInv, JobShape

-----------------------------------------------------------------------------
(* Steps that leave the WaitGroup and what it counts alone, and those that  *)
(* leave a request alone.                                                   *)
LEMMA SameCount ==
  ASSUME WgCounts, UNCHANGED <<wg, buf, agg, creation>>
  PROVE  WgCounts'
  BY DEF WgCounts, Uncounted, Working

(* A step that touches no request keeps the shape of all of them.           *)
LEMMA SameJobs ==
  ASSUME \A j \in Jobs : JobShape(j), UNCHANGED jobVars
  PROVE  \A j \in Jobs : JobShape(j)'
  BY DEF JobShape, jobVars

(* A step that leaves a request alone keeps its shape.                      *)
LEMMA JobElsewhere ==
  ASSUME NEW q \in Jobs, JobShape(q),
         stage'[q] = stage[q], job'[q] = job[q], sent'[q] = sent[q]
  PROVE  JobShape(q)'
  BY DEF JobShape

(* What a sender puts in the channel is an item of it.                      *)
LEMMA ItemType ==
  ASSUME NEW j \in Jobs, job[j] \in JobInput, NEW i \in 1..Len(job[j].shorts)
  PROVE  ItemOf(j, i) \in Entry
<1>1. job[j].shorts[i] \in Shorts
  BY DEF JobInput
<1> QED BY <1>1, DeleteAssumption DEF ItemOf, Owner, Entry, JobInput

(* The steps of a request, from its arrival to its last item, keep the      *)
(* invariant.                                                               *)
LEMMA DelSender ==
  ASSUME DelInv, NEW j \in Jobs, Arrive(j) \/ Sender(j) \/ BecomeAggregator(j)
  PROVE  DelInv'
<1> USE DEF DelInv
<1>1. WgCounts' /\ (agg' = "count" => buf' # << >>)
  BY SameCount
  DEF Arrive, Sender, Accept, DeleteUserURLs, LockChan, Send, BecomeAggregator, aggVars
<1>2. CASE Arrive(j)
  <2>1. PICK via \in Servers, u \in Users, ss \in ShortLists :
          job' = [job EXCEPT ![j] = [via |-> via, caller |-> u, shorts |-> ss]]
    BY <1>2 DEF Arrive
  <2>3. ss \in Seq(Shorts) /\ Len(ss) >= 1
    <3>1. ss \in Seq(Shorts) /\ ss # << >>
      BY DeleteAssumption
    <3> QED BY <3>1
  <2>4. [via |-> via, caller |-> u, shorts |-> ss] \in JobInput
    BY <2>3 DEF JobInput
  <2>5. TypeOK'
    BY <1>2, <2>1, <2>4 DEF TypeOK, Arrive, chanVars, aggVars
  <2>6. JobShape(j)'
    BY <1>2, <2>1, <2>3, <2>4 DEF TypeOK, Arrive, JobShape
  <2>7. \A q \in Jobs \ {j} : JobShape(q)'
    BY <1>2, <2>1, JobElsewhere DEF TypeOK, Arrive
  <2> QED BY <1>1, <2>5, <2>6, <2>7
<1>3. CASE Accept(j) \/ DeleteUserURLs(j) \/ LockChan(j)
  <2>1. /\ stage' \in
             [Jobs -> {"idle", "handling", "accepted", "locking", "sending", "sent"}]
        /\ chanMu' \in Jobs \cup {None}
        /\ UNCHANGED <<tables, job, sent, chan, once, aggVars, wg, creation, phase>>
    BY <1>3 DEF TypeOK, Accept, DeleteUserURLs, LockChan, chanVars
  <2>2. TypeOK'
    BY <2>1 DEF TypeOK, aggVars
  <2>3. JobShape(j)'
    BY <1>3 DEF TypeOK, Accept, DeleteUserURLs, LockChan, JobShape
  <2>4. \A q \in Jobs \ {j} : JobShape(q)'
    BY <1>3, JobElsewhere DEF TypeOK, Accept, DeleteUserURLs, LockChan
  <2> QED BY <1>1, <2>1, <2>3, <2>4, <2>2 DEF aggVars
<1>4. CASE Send(j)
  <2>1. /\ job[j] \in JobInput /\ sent[j] \in Nat /\ sent[j] < Len(job[j].shorts)
        /\ Len(job[j].shorts) \in Nat
    BY <1>4 DEF TypeOK, Send, JobShape, JobInput
  <2>2. ItemOf(j, sent[j] + 1) \in Entry
    BY <2>1, ItemType
  <2>3. chan' \in Seq(Entry)
    BY <1>4, <2>2 DEF TypeOK, Send
  <2>4. sent' = [sent EXCEPT ![j] = sent[j] + 1] /\ sent'[j] = sent[j] + 1
    BY <1>4 DEF TypeOK, Send
  <2>5. /\ stage' \in
             [Jobs -> {"idle", "handling", "accepted", "locking", "sending", "sent"}]
        /\ chanMu' \in Jobs \cup {None}
    BY <1>4 DEF TypeOK, Send
  <2>6. sent' \in [Jobs -> Nat]
    BY <2>1, <2>4 DEF TypeOK
  <2>7. TypeOK'
    BY <1>4, <2>3, <2>5, <2>6 DEF TypeOK, Send, aggVars
  <2>8. JobShape(j)'
    BY <1>4, <2>1, <2>4 DEF TypeOK, Send, JobShape
  <2>9. \A q \in Jobs \ {j} : JobShape(q)'
    BY <1>4, <2>4, JobElsewhere DEF TypeOK, Send
  <2> QED BY <1>1, <2>7, <2>8, <2>9
<1>5. CASE BecomeAggregator(j)
  <2>1. job[j].via \in Servers
    BY <1>5 DEF BecomeAggregator, JobShape, JobInput
  <2>2. TypeOK'
    BY <1>5, <2>1 DEF TypeOK, BecomeAggregator, jobVars, chanVars, aggVars
  <2>3. \A q \in Jobs : JobShape(q)'
    BY <1>5, SameJobs DEF BecomeAggregator
  <2> QED BY <1>1, <2>2, <2>3
<1> QED BY <1>2, <1>3, <1>4, <1>5 DEF Sender

(* The steps of the aggregator keep it: one Add per item received, as many  *)
(* Done as items released.                                                  *)
LEMMA DelAggregator ==
  ASSUME DelInv, Aggregator \/ TimePasses
  PROVE  DelInv'
<1> USE DEF DelInv
<1>1. \A j \in Jobs : JobShape(j)'
  BY SameJobs DEF Aggregator, Receive, Count, Flush, Release, TimePasses
<1>2. CASE Receive
  <2>1. Head(chan) \in Entry /\ Tail(chan) \in Seq(Entry)
    BY <1>2 DEF TypeOK, Receive
  <2>2. buf' \in Seq(Entry) /\ Len(buf') = Len(buf) + 1 /\ buf' # << >>
    BY <1>2, <2>1 DEF TypeOK, Receive
  <2>3. TypeOK'
    BY <1>2, <2>1, <2>2 DEF TypeOK, Receive, jobVars
  <2>4. WgCounts'
    BY <1>2, <2>2, WorkingFinite DEF TypeOK, Receive, Running, WgCounts, Uncounted, Working
  <2> QED BY <1>1, <2>2, <2>3, <2>4
<1>3. CASE Count
  <2>1. TypeOK'
    BY <1>3 DEF TypeOK, Count, jobVars, chanVars
  <2>2. WgCounts'
    BY <1>3, WorkingFinite DEF TypeOK, Count, Running, WgCounts, Uncounted, Working
  <2> QED BY <1>1, <1>3, <2>1, <2>2 DEF Count
<1>4. CASE Flush
  <2>1. tables' \in [Stores -> SUBSET Row]
    <3>1. StoreOf[once] \in Stores
      BY <1>4, DeleteAssumption DEF TypeOK, Flush, Running
    <3>2. MarkDeleted(tables[StoreOf[once]], Buffered) \in SUBSET Row
      BY <3>1, MarkType DEF TypeOK
    <3> QED BY <1>4, <3>1, <3>2 DEF TypeOK, Flush
  <2>2. TypeOK'
    BY <1>4, <2>1 DEF TypeOK, Flush, jobVars, chanVars
  <2>3. WgCounts'
    BY <1>4 DEF Flush, Running, WgCounts, Uncounted, Working
  <2> QED BY <1>1, <1>4, <2>2, <2>3 DEF Flush
<1>5. CASE Release
  <2>1. wg = Len(buf) + Cardinality(Working) /\ Len(buf) \in Nat
    BY <1>5, WorkingFinite DEF TypeOK, Release, Running, WgCounts, Uncounted
  <2>2. wg' = Cardinality(Working) /\ wg' \in Nat
    BY <1>5, <2>1, WorkingFinite DEF Release, Done
  <2>3. WgCounts'
    BY <1>5, <2>2 DEF Release, WgCounts, Uncounted, Working
  <2>4. applied' \in [Jobs -> Nat]
    <3> SUFFICES ASSUME NEW j \in Jobs
                 PROVE  Leaving(j) \in Nat
      BY <1>5 DEF Release, TypeOK
    <3>1. IsFiniteSet(DOMAIN buf)
      BY FS_Interval DEF TypeOK
    <3> QED BY <3>1, FS_Subset, FS_CardinalityType DEF Leaving
  <2>5. phase' \in {phase, "woken"}
    BY <1>5 DEF Release, Done
  <2>6. /\ agg' = "select" /\ expired' = FALSE /\ buf' \in Seq(Entry)
        /\ UNCHANGED <<tables, jobVars, chanVars, once, creation>>
    BY <1>5 DEF Release
  <2>7. TypeOK'
    BY <2>2, <2>4, <2>5, <2>6 DEF TypeOK, jobVars, chanVars
  <2> QED BY <1>1, <2>3, <2>7, <2>6
<1>6. CASE TimePasses
  BY <1>1, <1>6, SameCount DEF TimePasses, TypeOK, jobVars, chanVars
<1> QED BY <1>2, <1>3, <1>4, <1>5, <1>6 DEF Aggregator

(* Batch creations keep it: one Add and one Done each.                      *)
LEMMA DelCreation ==
  ASSUME DelInv, NEW c \in Creations, EnterCreation(c) \/ Creating(c)
  PROVE  DelInv'
<1> USE DEF DelInv
<1>1. \A j \in Jobs : JobShape(j)'
  BY SameJobs DEF EnterCreation, Creating, BeginCreation, EndCreation, LeaveCreation, Proceed
<1>0. buf' = buf /\ agg' = agg
  BY DEF EnterCreation, Creating, BeginCreation, EndCreation, LeaveCreation, Proceed, aggVars
<1>2. CASE BeginCreation(c)
  <2>1. Working' = Working \cup {c} /\ c \notin Working
    BY <1>2 DEF TypeOK, BeginCreation, Proceed, Working
  <2>2. Cardinality(Working') = Cardinality(Working) + 1
    BY <2>1, WorkingFinite, FS_AddElement
  <2>0. creation' \in [Creations -> [at : {"idle", "entered", "counted", "uncounted", "done"},
                                     via : Servers \cup {None}]]
    BY <1>2 DEF TypeOK, BeginCreation, Proceed
  <2>3. TypeOK'
    BY <1>2, <2>0 DEF TypeOK, BeginCreation, Proceed, jobVars, chanVars, aggVars
  <2>4. WgCounts' /\ (agg' = "count" => buf' # << >>)
    <3>1. Len(buf) \in Nat
      BY DEF TypeOK
    <3>2. wg' = wg + 1
      BY <1>2 DEF BeginCreation
    <3> QED BY <1>0, <2>2, <3>1, <3>2, WorkingFinite DEF WgCounts, Uncounted
  <2> QED BY <1>1, <2>3, <2>4
<1>3. CASE EndCreation(c)
  <2>1. Working' = Working \ {c} /\ c \in Working
    BY <1>3 DEF TypeOK, EndCreation, Proceed, Working
  <2>2. Cardinality(Working') = Cardinality(Working) - 1
    BY <2>1, WorkingFinite, FS_RemoveElement
  <2>3. Len(buf) \in Nat /\ (agg = "count" => Len(buf) >= 1)
    BY DEF TypeOK
  <2>4. Cardinality(Working) \in Nat /\ Cardinality(Working) >= 1
    BY <1>3, WorkingFinite DEF EndCreation, Proceed
  <2>5. wg - 1 \in Nat
    BY <2>3, <2>4 DEF WgCounts, Uncounted
  <2>6. wg' = wg - 1 /\ phase' \in {phase, "woken"}
    BY <1>3 DEF EndCreation, Done
  <2>7. TypeOK'
    BY <1>3, <2>5, <2>6 DEF TypeOK, EndCreation, Proceed, jobVars, chanVars, aggVars
  <2>8. WgCounts'
    BY <1>0, <2>2, <2>3, <2>4, <2>6 DEF TypeOK, WgCounts, Uncounted
  <2> QED BY <1>0, <1>1, <2>7, <2>8
<1>4. CASE EnterCreation(c) \/ LeaveCreation(c)
  <2>1. Working' = Working
    <3>1. creation[c].at # "counted" /\ creation'[c].at # "counted"
      BY <1>4 DEF TypeOK, EnterCreation, LeaveCreation
    <3>2. \A d \in Creations \ {c} : creation'[d] = creation[d]
      BY <1>4 DEF TypeOK, EnterCreation, LeaveCreation
    <3> QED BY <3>1, <3>2 DEF Working
  <2>2. wg' = wg
    BY <1>4 DEF EnterCreation, LeaveCreation
  <2>3. creation' \in [Creations -> [at : {"idle", "entered", "counted", "uncounted", "done"},
                                     via : Servers \cup {None}]]
    BY <1>4 DEF TypeOK, EnterCreation, LeaveCreation
  <2>4. TypeOK'
    BY <1>4, <2>3 DEF TypeOK, EnterCreation, LeaveCreation, jobVars, chanVars, aggVars
  <2>5. WgCounts'
    BY <1>0, <2>1, <2>2 DEF WgCounts, Uncounted
  <2> QED BY <1>0, <1>1, <2>4, <2>5
<1> QED BY <1>2, <1>3, <1>4 DEF Creating

(* The steps of main() keep it: they only move its phase.                   *)
LEMMA DelMain ==
  ASSUME DelInv, Signal \/ Main \/ UNCHANGED vars
  PROVE  DelInv'
<1>1. UNCHANGED <<tables, jobVars, chanVars, once, aggVars, wg, creation>>
  BY DEF Signal, Main, ShutdownDone, ShutdownTimeout, Wait, WaitReturns, GracefulStop,
         Move, vars, jobVars, chanVars, aggVars
<1>2. phase' \in {phase, "draining", "waiting", "aborted", "asleep", "waited",
                  "stopping", "panicked", "exited"}
  BY DEF Signal, Main, ShutdownDone, ShutdownTimeout, Wait, WaitReturns, GracefulStop,
         Move, vars
<1>3. TypeOK'
  BY <1>1, <1>2 DEF DelInv, TypeOK, Dead, jobVars, chanVars, aggVars
<1> QED BY <1>1, <1>3, SameCount, SameJobs DEF DelInv, aggVars
-----------------------------------------------------------------------------
(* The invariant is inductive, and holds initially.                         *)
THEOREM DelInductive == Spec => []DelInv
<1>1. DelInv /\ [Next]_vars => DelInv'
  BY DelSender, DelAggregator, DelCreation, DelMain DEF Next
<1> QED BY <1>1, DelInit, PTL DEF Spec

(* Every variable of the pipeline keeps its type, the WaitGroup's counter   *)
(* staying a natural number in particular: Done never panics.               *)
THEOREM DeleteTypes == Spec => []TypeOK
<1>1. DelInv => TypeOK
  BY DEF DelInv
<1> QED BY <1>1, DelInductive, PTL

(* The WaitGroup counts what is buffered and the batches at work.           *)
THEOREM CounterIsExact == Spec => []WgCounts
<1>1. DelInv => WgCounts
  BY DEF DelInv
<1> QED BY <1>1, DelInductive, PTL

(* main() passes wg.Wait with no counted deletion unflushed and no batch    *)
(* creation at work.                                                        *)
THEOREM WaitSuffices == Spec => WaitMeansFlushed
<1>1. DelInv /\ [Next]_vars =>
        [phase # "waited" /\ phase' = "waited" =>
           Len(buf) = Uncounted /\ Working = {}]_vars
  <2> SUFFICES ASSUME DelInv, Next, phase # "waited", phase' = "waited"
               PROVE  Len(buf) = Uncounted /\ Working = {}
    OBVIOUS
  <2>1. wg = 0
    BY DEF Next, Arrive, Sender, Accept, DeleteUserURLs, LockChan, Send,
           BecomeAggregator, Aggregator, Receive, Count, Flush, Release, Done, TimePasses,
           EnterCreation, Creating, BeginCreation, EndCreation, LeaveCreation, Proceed, Signal, Main, ShutdownDone, ShutdownTimeout,
           Wait, WaitReturns, GracefulStop, Move
  <2>2. Len(buf) \in Nat /\ (agg = "count" => Len(buf) >= 1)
    BY DEF DelInv, TypeOK
  <2>3. Cardinality(Working) \in Nat /\ 0 = Len(buf) - Uncounted + Cardinality(Working)
    BY <2>1, WorkingFinite DEF DelInv, WgCounts
  <2>4. Uncounted \in {0, 1} /\ Uncounted <= Len(buf)
    BY <2>2 DEF Uncounted
  <2>5. Len(buf) = Uncounted /\ Cardinality(Working) = 0
    BY <2>2, <2>3, <2>4
  <2> QED BY <2>5, WorkingFinite, FS_EmptySet
<1> QED BY <1>1, DelInductive, PTL DEF Spec, WaitMeansFlushed
=============================================================================
