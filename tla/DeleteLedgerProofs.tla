-------------------------- MODULE DeleteLedgerProofs --------------------------
(***************************************************************************)
(* What happens to the items of a delete request, for every value of the   *)
(* constants: none is lost, doubled, mixed up or reordered between the     *)
(* request and the UPDATE, so the pipeline implements DeleteLedger.        *)
(***************************************************************************)
EXTENDS DeletePipelineProofs

(* Job j's places among the first n of a sequence of items, and how many.   *)
Places(j, s, n) == {i \in 1..n : s[i].by = j}
Rank(j, s, n) == Cardinality(Places(j, s, n))

(* Ranks are numbers.                                                       *)
LEMMA RankType ==
  ASSUME NEW j, NEW s, NEW n \in Nat
  PROVE  IsFiniteSet(Places(j, s, n)) /\ Rank(j, s, n) \in Nat
<1>1. IsFiniteSet(1..n)
  BY FS_Interval
<1> QED BY <1>1, FS_Subset, FS_CardinalityType DEF Places, Rank

(* Nothing precedes the first place.                                        *)
LEMMA RankZero ==
  ASSUME NEW j, NEW s
  PROVE  Rank(j, s, 0) = 0
<1>1. Places(j, s, 0) = {}
  BY DEF Places
<1> QED BY <1>1, FS_EmptySet DEF Rank

(* One place more counts one more item, if it is the job's.                 *)
LEMMA RankStep ==
  ASSUME NEW j, NEW s, NEW n \in Nat
  PROVE  Rank(j, s, n + 1) = IF s[n + 1].by = j THEN Rank(j, s, n) + 1 ELSE Rank(j, s, n)
<1>1. CASE s[n + 1].by = j
  <2>1. Places(j, s, n + 1) = Places(j, s, n) \cup {n + 1} /\ n + 1 \notin Places(j, s, n)
    BY <1>1 DEF Places
  <2> QED BY <1>1, <2>1, RankType, FS_AddElement DEF Rank
<1>2. CASE s[n + 1].by # j
  <2>1. Places(j, s, n + 1) = Places(j, s, n)
    BY <1>2 DEF Places
  <2> QED BY <1>2, <2>1 DEF Rank
<1> QED BY <1>1, <1>2

(* Only the first n items count.                                            *)
LEMMA RankSame ==
  ASSUME NEW j, NEW s, NEW t, NEW n \in Nat, \A i \in 1..n : s[i] = t[i]
  PROVE  Rank(j, s, n) = Rank(j, t, n)
<1>1. Places(j, s, n) = Places(j, t, n)
  BY DEF Places
<1> QED BY <1>1 DEF Rank

(* Ranks do not decrease, and a place of the job has more than all before.  *)
LEMMA RankGrows ==
  ASSUME NEW j, NEW s, NEW m \in Nat, NEW n \in Nat, m <= n
  PROVE  /\ Rank(j, s, m) <= Rank(j, s, n)
         /\ m < n /\ s[n].by = j => Rank(j, s, m) < Rank(j, s, n)
<1>1. \A k \in Nat : m <= k => Rank(j, s, m) <= Rank(j, s, k)
  <2> SUFFICES ASSUME NEW k \in Nat, m <= k
               PROVE  Rank(j, s, m) <= Rank(j, s, k)
    OBVIOUS
  <2>1. Places(j, s, m) \subseteq Places(j, s, k)
    BY DEF Places
  <2> QED BY <2>1, RankType, FS_Subset DEF Rank
<1>2. ASSUME m < n, s[n].by = j
      PROVE  Rank(j, s, m) < Rank(j, s, n)
  <2>1. n - 1 \in Nat /\ m <= n - 1 /\ (n - 1) + 1 = n
    BY <1>2
  <2>2. Rank(j, s, n) = Rank(j, s, n - 1) + 1
    BY <1>2, <2>1, RankStep
  <2> QED BY <1>1, <2>1, <2>2, RankType
<1> QED BY <1>1, <1>2

(* Ranks in a concatenation: those of the second part come on top of all of *)
(* the first.                                                               *)
LEMMA RankConcat ==
  ASSUME NEW E, NEW j, NEW s \in Seq(E), NEW t \in Seq(E), NEW n \in 0..Len(t)
  PROVE  Rank(j, s \o t, Len(s) + n) = Rank(j, s, Len(s)) + Rank(j, t, n)
<1> DEFINE m == Len(s)
           A == Places(j, s, m)
           B == Places(j, t, n)
           Moved == {i \in m + 1 .. m + n : t[i - m].by = j}
           Whole == Places(j, s \o t, m + n)
<1>1. m \in Nat /\ n \in Nat /\ n <= Len(t) /\ Len(t) \in Nat
  OBVIOUS
<1>2. IsFiniteSet(A) /\ IsFiniteSet(B)
  BY <1>1, RankType
<1>3. Whole = A \cup Moved
  <2>1. \A i \in 1..m : (s \o t)[i] = s[i]
    OBVIOUS
  <2>2. \A i \in m + 1 .. m + n : (s \o t)[i] = t[i - m]
    BY <1>1
  <2> QED BY <1>1, <2>1, <2>2 DEF Places
<1>4. A \cap Moved = {}
  BY <1>1 DEF Places
<1>5. IsFiniteSet(Moved) /\ Cardinality(Moved) = Cardinality(B)
  <2> DEFINE f == [i \in B |-> i + m]
  <2>1. f \in [B -> Moved]
    BY <1>1 DEF Places
  <2>2. \A x, y \in B : f[x] = f[y] => x = y
    BY <1>1 DEF Places
  <2>3. \A y \in Moved : \E x \in B : f[x] = y
    <3> SUFFICES ASSUME NEW y \in Moved
                 PROVE  \E x \in B : f[x] = y
      OBVIOUS
    <3>1. y - m \in B /\ (y - m) + m = y
      BY <1>1 DEF Places
    <3> QED BY <3>1
  <2>4. f \in Bijection(B, Moved)
    BY <2>1, <2>2, <2>3 DEF Bijection, Injection, Surjection, IsInjective
  <2> QED BY <1>2, <2>4, FS_Bijection DEF ExistsBijection
<1>6. Cardinality(A) \in Nat /\ Cardinality(B) \in Nat
  BY <1>2, FS_CardinalityType
<1>7. Cardinality(Whole) = Cardinality(A) + Cardinality(B)
  <2> HIDE DEF A, B, Moved, Whole
  <2>1. Cardinality(A \cup Moved) = Cardinality(A) + Cardinality(Moved) - Cardinality({})
    BY <1>2, <1>4, <1>5, FS_Union
  <2> QED BY <1>3, <1>5, <1>6, <2>1, FS_EmptySet
<1> QED BY <1>7 DEF Rank

(* Every rank up to the last is that of a place of the job.                 *)
LEMMA RankOnto ==
  ASSUME NEW j, NEW s, NEW n \in Nat, NEW k \in 1..Rank(j, s, n)
  PROVE  \E i \in Places(j, s, n) : Rank(j, s, i) = k
<1> DEFINE P == Places(j, s, n)
           R == 1..Rank(j, s, n)
           f == [i \in P |-> Rank(j, s, i)]
<1>1. \A i \in P : i \in 1..n /\ i - 1 \in Nat /\ s[i].by = j
  BY DEF Places
<1>2. f \in [P -> R]
  <2> SUFFICES ASSUME NEW i \in P
               PROVE  Rank(j, s, i) \in R
    OBVIOUS
  <2>1. i \in Nat /\ i <= n /\ i - 1 < i
    BY <1>1
  <2>2. Rank(j, s, i) <= Rank(j, s, n)
    BY <2>1, RankGrows
  <2>3. Rank(j, s, i - 1) < Rank(j, s, i)
    BY <1>1, <2>1, RankGrows
  <2> QED BY <1>1, <2>1, <2>2, <2>3, RankType
<1>3. \A x, y \in P : f[x] = f[y] => x = y
  <2> SUFFICES ASSUME NEW x \in P, NEW y \in P, x < y
               PROVE  f[x] # f[y]
    BY <1>1
  <2>1. Rank(j, s, x) < Rank(j, s, y)
    BY <1>1, RankGrows
  <2> QED BY <1>1, <2>1, RankType
<1>4. f \in Injection(P, R)
  BY <1>2, <1>3 DEF Injection, IsInjective
<1>5. IsFiniteSet(R) /\ Cardinality(R) = Cardinality(P)
  BY RankType, FS_Interval DEF Rank
<1>6. f \in Surjection(P, R)
  BY <1>4, <1>5, FS_Injection
<1> QED BY <1>6 DEF Surjection
-----------------------------------------------------------------------------
(* A request has its input from its arrival on, has sent all its items when *)
(* its sender is through, and holds the channel's mutex just while sending. *)
JobFlow(j) ==
  /\ stage[j] = "idle" => job[j] = None
  /\ stage[j] = "sent" => sent[j] = Len(job[j].shorts)
  /\ stage[j] = "sending" <=> chanMu = j

(* Every item sent is pending or has left.                                  *)
AllThere == \A j \in Jobs : sent[j] = applied[j] + Rank(j, Pending, Len(Pending))

(* The n-th pending item of a request is the n-th of those that have not    *)
(* left yet.                                                                *)
Placed ==
  \A p \in DOMAIN Pending :
     LET j == Pending[p].by
     IN  /\ stage[j] \in {"sending", "sent"}
         /\ Pending[p] = ItemOf(j, applied[j] + Rank(j, Pending, p))

(* The items of the request that holds the mutex are the last ones.         *)
AtTail ==
  \A p \in DOMAIN Pending : stage[Pending[p].by] = "sending" =>
     \A m \in p..Len(Pending) : Pending[m].by = Pending[p].by

(* The inductive invariant: what lies between a request and the UPDATE.     *)
FlowInv ==
  /\ DelInv
  /\ \A j \in Jobs : JobFlow(j)
  /\ AllThere
  /\ Placed
  /\ RequestsStayTogether
  /\ AtTail

(* What is pending is a sequence of items, each of a request.               *)
LEMMA PendingType ==
  ASSUME TypeOK
  PROVE  /\ Pending \in Seq(Entry)
         /\ Len(Pending) \in Nat /\ DOMAIN Pending = 1..Len(Pending)
         /\ \A p \in DOMAIN Pending : Pending[p].by \in Jobs
<1>1. Pending \in Seq(Entry)
  BY DEF TypeOK, Pending
<1>2. Len(Pending) \in Nat /\ DOMAIN Pending = 1..Len(Pending)
  BY <1>1
<1>3. \A p \in DOMAIN Pending : Pending[p] \in Entry
  BY <1>1, <1>2
<1> QED BY <1>1, <1>2, <1>3 DEF Entry

(* Nothing is under way at first.                                           *)
LEMMA FlowInit == Init => FlowInv
<1> SUFFICES ASSUME Init PROVE FlowInv
  OBVIOUS
<1>1. DelInv
  BY DelInit
<1>2. Pending = << >> /\ Len(Pending) = 0
  BY DEF Init, Pending
<1>3. AllThere
  BY <1>2, RankZero DEF Init, AllThere
<1>4. \A j \in Jobs : JobFlow(j)
  BY DeleteAssumption DEF Init, JobFlow
<1> QED BY <1>1, <1>2, <1>3, <1>4 DEF FlowInv, Placed, RequestsStayTogether, AtTail

(* A step that leaves the items where they are, and the requests they come  *)
(* from alone.                                                              *)
LEMMA FlowQuiet ==
  ASSUME FlowInv, DelInv', \A j \in Jobs : JobFlow(j)',
         Pending' = Pending, UNCHANGED <<sent, applied>>,
         \A j \in Jobs : stage[j] \in {"sending", "sent"} =>
            job'[j] = job[j] /\ stage'[j] = stage[j]
  PROVE  FlowInv'
<1> USE DEF FlowInv
<1>1. AllThere'
  BY DEF AllThere
<1>2. \A p \in DOMAIN Pending : /\ Pending[p].by \in Jobs
                                /\ stage[Pending[p].by] \in {"sending", "sent"}
  BY PendingType DEF DelInv, Placed
<1>3. Placed'
  BY <1>2 DEF Placed, ItemOf, Owner
<1>4. AtTail'
  BY <1>2 DEF AtTail
<1>5. RequestsStayTogether'
  BY DEF RequestsStayTogether
<1> QED BY <1>1, <1>3, <1>4, <1>5
(* A sender puts its next item behind all others, and lets go of the mutex  *)
(* after its last.                                                          *)
LEMMA FlowSend ==
  ASSUME FlowInv, DelInv', NEW j \in Jobs, Send(j)
  PROVE  FlowInv'
<1> DEFINE L == Len(Pending)
           e == ItemOf(j, sent[j] + 1)
<1> USE DEF FlowInv
<1>1. /\ stage[j] = "sending" /\ chanMu = j
      /\ sent[j] \in Nat /\ applied \in [Jobs -> Nat] /\ sent \in [Jobs -> Nat]
      /\ sent' = [sent EXCEPT ![j] = sent[j] + 1]
      /\ job' = job /\ applied' = applied /\ buf' = buf /\ chan' = Append(chan, e)
  BY DEF Send, DelInv, TypeOK, JobFlow, aggVars
<1>2. /\ L \in Nat /\ DOMAIN Pending = 1..L /\ Pending \in Seq(Entry)
      /\ \A p \in 1..L : Pending[p].by \in Jobs
  BY PendingType DEF DelInv
<1>3. /\ Len(Pending') = L + 1 /\ DOMAIN Pending' = 1..L + 1
      /\ \A p \in 1..L : Pending'[p] = Pending[p]
      /\ Pending'[L + 1] = e
  <2>1. buf \in Seq(Entry) /\ chan \in Seq(Entry)
    BY DEF DelInv, TypeOK
  <2>2. e \in Entry
    <3>1. job[j] \in JobInput /\ sent[j] + 1 \in 1..Len(job[j].shorts)
      BY <1>1 DEF DelInv, JobShape, JobInput
    <3> QED BY <3>1, ItemType
  <2>3. Pending' = Append(Pending, e)
    BY <1>1, <2>1, <2>2 DEF Pending
  <2> QED BY <1>2, <2>2, <2>3
<1>4. e.by = j
  BY DEF ItemOf
<1>5. \A q \in Jobs : \A p \in 1..L : Rank(q, Pending', p) = Rank(q, Pending, p)
  BY <1>2, <1>3, RankSame
<1>6. \A q \in Jobs : /\ Rank(q, Pending', L) = Rank(q, Pending, L)
                      /\ Rank(q, Pending', L + 1) = IF q = j THEN Rank(q, Pending, L) + 1
                                                    ELSE Rank(q, Pending, L)
  <2> SUFFICES ASSUME NEW q \in Jobs
               PROVE  /\ Rank(q, Pending', L) = Rank(q, Pending, L)
                      /\ Rank(q, Pending', L + 1) = IF q = j THEN Rank(q, Pending, L) + 1
                                                    ELSE Rank(q, Pending, L)
    OBVIOUS
  <2>1. Rank(q, Pending', L) = Rank(q, Pending, L)
    BY <1>2, <1>3, RankSame
  <2> QED BY <1>2, <1>3, <1>4, <2>1, RankStep
<1>7. \A q \in Jobs : Rank(q, Pending, L) \in Nat
  BY <1>2, RankType
<1>8. AllThere'
  BY <1>1, <1>3, <1>6, <1>7 DEF AllThere
<1>9. /\ stage'[j] \in {"sending", "sent"}
      /\ \A q \in Jobs \ {j} : stage'[q] = stage[q]
      /\ stage'[j] = "sent" => sent'[j] = Len(job[j].shorts)
      /\ stage'[j] = "sending" <=> chanMu' = j
      /\ chanMu' \in {chanMu, None}
  BY <1>1, DeleteAssumption DEF Send, DelInv, TypeOK
<1>10. Placed'
  <2> SUFFICES ASSUME NEW p \in 1..L + 1
               PROVE  /\ stage'[Pending'[p].by] \in {"sending", "sent"}
                      /\ Pending'[p] = ItemOf(Pending'[p].by, applied[Pending'[p].by]
                                                + Rank(Pending'[p].by, Pending', p))
    BY <1>1, <1>3 DEF Placed, ItemOf, Owner
  <2>1. CASE p = L + 1
    <3>1. Pending'[p] = e /\ Pending'[p].by = j
      BY <1>3, <1>4, <2>1
    <3>2. Rank(j, Pending', p) = Rank(j, Pending, L) + 1
      BY <1>6, <2>1
    <3>3. applied[j] + Rank(j, Pending', p) = sent[j] + 1
      BY <1>1, <1>7, <3>2 DEF AllThere
    <3> QED BY <1>9, <3>1, <3>3
  <2>2. CASE p \in 1..L
    BY <1>2, <1>3, <1>5, <1>9, <2>2 DEF Placed
  <2> QED BY <1>2, <2>1, <2>2
<1>11. \A q \in Jobs : JobFlow(q)'
  <2> SUFFICES ASSUME NEW q \in Jobs
               PROVE  JobFlow(q)'
    OBVIOUS
  <2>1. CASE q = j
    BY <1>1, <1>9, <2>1 DEF JobFlow
  <2>2. CASE q # j
    BY <1>1, <1>9, <2>2, DeleteAssumption DEF JobFlow
  <2> QED BY <2>1, <2>2
<1>12. \A p \in 1..L : Pending[p].by = j => \A m \in p..L : Pending[m].by = j
  BY <1>1, <1>2 DEF AtTail
<1>13. RequestsStayTogether'
  <2> SUFFICES ASSUME NEW i \in 1..L + 1, NEW k \in 1..L + 1, i < k,
                      Pending'[i].by = Pending'[k].by, NEW m \in i..k
               PROVE  Pending'[m].by = Pending'[i].by
    BY <1>3 DEF RequestsStayTogether
  <2>1. CASE k = L + 1
    <3>1. i \in 1..L /\ Pending[i].by = j
      BY <1>2, <1>3, <1>4, <2>1
    <3>2. m \in i..L \/ m = L + 1
      BY <1>2, <2>1
    <3>3. Pending'[i].by = j
      BY <1>3, <3>1
    <3>4. CASE m \in i..L
      <4>1. m \in 1..L /\ Pending[m].by = j
        BY <1>2, <1>12, <3>1, <3>4
      <4> QED BY <1>3, <3>3, <4>1
    <3>5. CASE m = L + 1
      BY <1>3, <1>4, <3>3, <3>5
    <3> QED BY <3>2, <3>4, <3>5
  <2>2. CASE k \in 1..L
    <3>1. i \in 1..L /\ m \in 1..L
      BY <1>2, <2>2
    <3>2. Pending[i].by = Pending[k].by
      BY <1>3, <2>2, <3>1
    <3>3. Pending[m].by = Pending[i].by
      BY <1>2, <2>2, <3>1, <3>2 DEF RequestsStayTogether
    <3> QED BY <1>3, <3>1, <3>3
  <2> QED BY <1>2, <2>1, <2>2
<1>14. AtTail'
  <2> SUFFICES ASSUME NEW p \in 1..L + 1, stage'[Pending'[p].by] = "sending",
                      NEW m \in p..L + 1
               PROVE  Pending'[m].by = Pending'[p].by
    BY <1>3 DEF AtTail
  <2>1. Pending'[p].by = j
    <3>1. Pending'[p].by \in Jobs
      BY <1>2, <1>3, <1>4
    <3> QED BY <1>1, <1>9, <3>1, DeleteAssumption DEF JobFlow
  <2> QED BY <1>2, <1>3, <1>4, <1>12, <2>1
<1> QED BY <1>8, <1>10, <1>11, <1>13, <1>14

(* The aggregator moves an item from the channel's head to the buffer's end, *)
(* which is no move of what is pending.                                     *)
LEMMA FlowReceive ==
  ASSUME FlowInv, DelInv', Receive
  PROVE  FlowInv'
<1>1. buf \in Seq(Entry) /\ chan \in Seq(Entry) /\ chan # << >>
  BY DEF FlowInv, DelInv, TypeOK, Receive
<1>2. Pending' = Pending
  BY <1>1 DEF Receive, Pending
<1>3. \A j \in Jobs : JobFlow(j)'
  BY DEF FlowInv, Receive, JobFlow, jobVars
<1> QED BY <1>2, <1>3, FlowQuiet DEF Receive, jobVars

(* With a release, what was buffered has left, and the channel is all that  *)
(* is pending.                                                              *)
LEMMA FlowRelease ==
  ASSUME FlowInv, DelInv', Release
  PROVE  FlowInv'
<1> DEFINE B == Len(buf)
           C == Len(chan)
<1> USE DEF FlowInv
<1>1. /\ buf \in Seq(Entry) /\ chan \in Seq(Entry) /\ B \in Nat /\ C \in Nat
      /\ applied \in [Jobs -> Nat]
      /\ UNCHANGED <<job, stage, sent, chanMu, chan>> /\ buf' = << >>
  BY DEF Release, DelInv, TypeOK, jobVars, chanVars
<1>2. /\ Len(Pending) = B + C /\ DOMAIN Pending = 1..B + C
      /\ \A p \in 1..C : B + p \in DOMAIN Pending /\ Pending[B + p] = chan[p]
      /\ \A p \in 1..C : chan[p].by \in Jobs
  <2>1. \A p \in 1..C : chan[p] \in Entry
    BY <1>1
  <2>2. Len(Pending) = B + C /\ DOMAIN Pending = 1..B + C
    BY <1>1 DEF Pending
  <2>3. \A p \in 1..C : B + p \in 1..B + C /\ Pending[B + p] = chan[p]
    BY <1>1 DEF Pending
  <2> QED BY <2>1, <2>2, <2>3 DEF Entry
<1>3. Pending' = chan /\ DOMAIN chan = 1..C
  BY <1>1 DEF Pending
<1>4. \A j \in Jobs : applied'[j] = applied[j] + Rank(j, buf, B)
  <2>1. \A j \in Jobs : Leaving(j) = Rank(j, buf, B)
    <3>1. DOMAIN buf = 1..B
      BY <1>1
    <3> QED BY <3>1 DEF Leaving, Rank, Places
  <2> QED BY <2>1 DEF Release
<1>5. \A j \in Jobs : \A p \in 0..C :
        Rank(j, Pending, B + p) = Rank(j, buf, B) + Rank(j, chan, p)
  BY <1>1, RankConcat DEF Pending
<1>6. \A j \in Jobs : /\ Rank(j, buf, B) \in Nat
                      /\ \A p \in 0..C : Rank(j, chan, p) \in Nat
  BY <1>1, RankType
<1>7. \A j \in Jobs : \A p \in 0..C :
        applied'[j] + Rank(j, chan, p) = applied[j] + Rank(j, Pending, B + p)
  BY <1>1, <1>4, <1>5, <1>6
<1>8. AllThere'
  <2> SUFFICES ASSUME NEW j \in Jobs
               PROVE  sent[j] = applied'[j] + Rank(j, chan, C)
    BY <1>1, <1>3 DEF AllThere
  <2>1. C \in 0..C
    BY <1>1
  <2> QED BY <1>2, <1>7, <2>1 DEF AllThere
<1>9. Placed'
  <2> SUFFICES ASSUME NEW p \in 1..C
               PROVE  /\ stage[chan[p].by] \in {"sending", "sent"}
                      /\ chan[p] = ItemOf(chan[p].by, applied'[chan[p].by]
                                            + Rank(chan[p].by, chan, p))
    BY <1>1, <1>3 DEF Placed, ItemOf, Owner
  <2> DEFINE j == chan[p].by
  <2>1. j \in Jobs /\ B + p \in DOMAIN Pending /\ Pending[B + p] = chan[p]
    BY <1>2
  <2>2. /\ stage[j] \in {"sending", "sent"}
        /\ chan[p] = ItemOf(j, applied[j] + Rank(j, Pending, B + p))
    BY <2>1 DEF Placed
  <2>3. applied'[j] + Rank(j, chan, p) = applied[j] + Rank(j, Pending, B + p)
    BY <1>7, <2>1
  <2> QED BY <2>2, <2>3
<1>10. \A j \in Jobs : JobFlow(j)'
  BY <1>1 DEF JobFlow
<1>11. RequestsStayTogether'
  <2> SUFFICES ASSUME NEW i \in 1..C, NEW k \in 1..C, i < k, chan[i].by = chan[k].by,
                      NEW m \in i..k
               PROVE  chan[m].by = chan[i].by
    BY <1>3 DEF RequestsStayTogether
  <2>1. m \in 1..C /\ B + m \in B + i .. B + k /\ B + i < B + k
    BY <1>1
  <2>2. Pending[B + i].by = Pending[B + k].by
    BY <1>2
  <2>3. Pending[B + m].by = Pending[B + i].by
    BY <1>2, <2>1, <2>2 DEF RequestsStayTogether
  <2> QED BY <1>2, <2>1, <2>3
<1>12. AtTail'
  <2> SUFFICES ASSUME NEW p \in 1..C, stage[chan[p].by] = "sending", NEW m \in p..C
               PROVE  chan[m].by = chan[p].by
    BY <1>1, <1>3 DEF AtTail
  <2>1. m \in 1..C /\ B + m \in B + p .. B + C
    BY <1>1
  <2>2. stage[Pending[B + p].by] = "sending"
    BY <1>2
  <2>3. Pending[B + m].by = Pending[B + p].by
    BY <1>2, <2>1, <2>2 DEF AtTail
  <2> QED BY <1>2, <2>1, <2>3
<1> QED BY <1>8, <1>9, <1>10, <1>11, <1>12
(* Every other step is quiet.                                               *)
LEMMA FlowStep ==
  ASSUME FlowInv, [Next]_vars
  PROVE  FlowInv'
<1> USE DEF FlowInv
<1>1. DelInv'
  BY DelSender, DelAggregator, DelCreation, DelMain DEF Next
<1>2. ASSUME NEW j \in Jobs, Send(j) PROVE FlowInv'
  BY <1>1, <1>2, FlowSend
<1>3. ASSUME Receive PROVE FlowInv'
  BY <1>1, <1>3, FlowReceive
<1>4. ASSUME Release PROVE FlowInv'
  BY <1>1, <1>4, FlowRelease
<1>5. ASSUME NEW j \in Jobs,
             Arrive(j) \/ Accept(j) \/ DeleteUserURLs(j) \/ LockChan(j) \/ BecomeAggregator(j)
      PROVE  FlowInv'
  <2>1. /\ UNCHANGED <<sent, applied, buf, chan>>
        /\ stage[j] = "sending" \/ stage[j] = "sent" => stage' = stage
        /\ \A q \in Jobs \ {j} : stage'[q] = stage[q] /\ job'[q] = job[q]
    BY <1>5 DEF Arrive, Accept, DeleteUserURLs, LockChan, BecomeAggregator, jobVars,
                chanVars, aggVars, DelInv, TypeOK
  <2>2. Pending' = Pending
    BY <2>1 DEF Pending
  <2>3. stage[j] \in {"sending", "sent"} => job'[j] = job[j]
    BY <1>5 DEF Arrive, Accept, DeleteUserURLs, LockChan, BecomeAggregator, jobVars
  <2>4. JobFlow(j)'
    BY <1>5, DeleteAssumption
    DEF Arrive, Accept, DeleteUserURLs, LockChan, BecomeAggregator, jobVars, chanVars,
        JobFlow, DelInv, TypeOK
  <2>5. \A q \in Jobs \ {j} : JobFlow(q)'
    <3>1. chanMu' = chanMu \/ (chanMu = None /\ chanMu' = j)
      BY <1>5 DEF Arrive, Accept, DeleteUserURLs, LockChan, BecomeAggregator, chanVars
    <3> QED BY <2>1, <3>1, DeleteAssumption DEF JobFlow
  <2> QED BY <1>1, <2>1, <2>2, <2>3, <2>4, <2>5, FlowQuiet
<1>6. ASSUME UNCHANGED <<job, stage, sent, applied, chanMu, chan, buf>>
      PROVE  FlowInv'
  <2>1. Pending' = Pending
    BY <1>6 DEF Pending
  <2>2. \A j \in Jobs : JobFlow(j)'
    BY <1>6 DEF JobFlow
  <2> QED BY <1>1, <1>6, <2>1, <2>2, FlowQuiet
<1>7. ASSUME \/ Count \/ Flush \/ TimePasses \/ Signal \/ Main
             \/ \E c \in Creations : EnterCreation(c) \/ Creating(c)
             \/ UNCHANGED vars
      PROVE  UNCHANGED <<job, stage, sent, applied, chanMu, chan, buf>>
  BY <1>7 DEF Count, Flush, TimePasses, Signal, Main, ShutdownDone, ShutdownTimeout, Wait,
              WaitReturns, GracefulStop, Move, EnterCreation, Creating,
              BeginCreation, EndCreation, LeaveCreation, Proceed, vars, jobVars,
              chanVars, aggVars
<1> QED BY <1>2, <1>3, <1>4, <1>5, <1>6, <1>7 DEF Next, Sender, Aggregator

(* The invariant is inductive, and holds initially.                         *)
THEOREM FlowInductive == Spec => []FlowInv
BY FlowInit, FlowStep, PTL DEF Spec

(* No deletion is lost or doubled between its request and the flush, with   *)
(* any number of senders and any capacity of the channel.                   *)
THEOREM NothingIsLost == Spec => []NothingLostInside
<1>1. FlowInv => NothingLostInside
  <2> SUFFICES ASSUME FlowInv, NEW j \in Jobs
               PROVE  sent[j] = CountOf(j, chan) + CountOf(j, buf) + applied[j]
    BY DEF NothingLostInside
  <2>1. /\ buf \in Seq(Entry) /\ chan \in Seq(Entry)
        /\ Len(buf) \in Nat /\ Len(chan) \in Nat /\ applied[j] \in Nat
    BY DEF FlowInv, DelInv, TypeOK
  <2>2. Rank(j, Pending, Len(buf) + Len(chan))
          = Rank(j, buf, Len(buf)) + Rank(j, chan, Len(chan))
    <3>1. Len(chan) \in 0..Len(chan)
      BY <2>1
    <3> QED BY <2>1, <3>1, RankConcat DEF Pending
  <2>3. Len(Pending) = Len(buf) + Len(chan)
    BY <2>1 DEF Pending
  <2>4. CountOf(j, chan) = Rank(j, chan, Len(chan)) /\ CountOf(j, buf) = Rank(j, buf, Len(buf))
    <3>1. DOMAIN chan = 1..Len(chan) /\ DOMAIN buf = 1..Len(buf)
      BY <2>1
    <3> QED BY <3>1 DEF CountOf, Rank, Places
  <2>5. Rank(j, chan, Len(chan)) \in Nat /\ Rank(j, buf, Len(buf)) \in Nat
    BY <2>1, RankType
  <2> QED BY <2>1, <2>2, <2>3, <2>4, <2>5 DEF FlowInv, AllThere
<1> QED BY <1>1, FlowInductive, PTL

(* The pending items of two requests never interleave: the mutex around the *)
(* sends is what keeps them together.                                       *)
THEOREM RequestsKeepTogether == Spec => []RequestsStayTogether
<1>1. FlowInv => RequestsStayTogether
  BY DEF FlowInv
<1> QED BY <1>1, FlowInductive, PTL
-----------------------------------------------------------------------------
(* The pairs of a request whose items are in the buffer.                    *)
Leavers(j) ==
  {<<job[j].shorts[n], Owner(j)>> : n \in applied[j] + 1 .. applied[j] + Leaving(j)}

(* What an UPDATE names is what it settles: the next items of each request, *)
(* as many as it has in the buffer, and no more than it has sent.           *)
LEMMA BufferedIsDue ==
  ASSUME FlowInv
  PROVE  /\ Buffered = UNION {Leavers(j) : j \in Jobs}
         /\ \A j \in Jobs : Leaving(j) \in Nat /\ applied[j] + Leaving(j) <= sent[j]
         /\ \A i \in DOMAIN buf : buf[i].by \in Jobs /\ Leaving(buf[i].by) >= 1
<1> DEFINE B == Len(buf)
<1>1. /\ buf \in Seq(Entry) /\ chan \in Seq(Entry) /\ B \in Nat /\ DOMAIN buf = 1..B
      /\ applied \in [Jobs -> Nat] /\ sent \in [Jobs -> Nat]
  BY DEF FlowInv, DelInv, TypeOK
<1>2. \A j \in Jobs : Leaving(j) = Rank(j, buf, B) /\ Leaving(j) \in Nat
  BY <1>1, RankType DEF Leaving, Rank, Places
<1>3. \A i \in 1..B : i \in DOMAIN Pending /\ Pending[i] = buf[i] /\ buf[i].by \in Jobs
  <2>1. \A i \in 1..B : buf[i] \in Entry
    BY <1>1
  <2>2. \A i \in 1..B : i \in DOMAIN Pending /\ Pending[i] = buf[i]
    BY <1>1 DEF Pending
  <2> QED BY <2>1, <2>2 DEF Entry
<1>4. Len(Pending) \in Nat /\ B <= Len(Pending)
  BY <1>1 DEF Pending
<1>5. \A j \in Jobs : \A i \in 0..B : Rank(j, Pending, i) = Rank(j, buf, i)
  BY <1>1, <1>3, RankSame
<1>6. \A i \in 1..B : LET j == buf[i].by
                          k == Rank(j, buf, i)
                      IN  /\ k \in 1..Leaving(j)
                          /\ <<buf[i].short, buf[i].user>>
                               = <<job[j].shorts[applied[j] + k], Owner(j)>>
  <2> SUFFICES ASSUME NEW i \in 1..B
               PROVE  LET j == buf[i].by
                          k == Rank(j, buf, i)
                      IN  /\ k \in 1..Leaving(j)
                          /\ <<buf[i].short, buf[i].user>>
                               = <<job[j].shorts[applied[j] + k], Owner(j)>>
    OBVIOUS
  <2> DEFINE j == buf[i].by
             k == Rank(j, buf, i)
  <2>1. j \in Jobs /\ i \in Nat /\ i - 1 \in Nat /\ i - 1 < i /\ i <= B
    BY <1>1, <1>3
  <2>2. k <= Rank(j, buf, B) /\ Rank(j, buf, i - 1) < k
    BY <1>1, <2>1, RankGrows
  <2>3. k \in 1..Leaving(j)
    BY <1>1, <1>2, <2>1, <2>2, RankType
  <2>4. buf[i] = ItemOf(j, applied[j] + k)
    BY <1>3, <1>5, <2>1 DEF FlowInv, Placed
  <2> QED BY <2>3, <2>4 DEF ItemOf
<1>7. \A j \in Jobs : applied[j] + Leaving(j) <= sent[j]
  <2> SUFFICES ASSUME NEW j \in Jobs
               PROVE  applied[j] + Leaving(j) <= sent[j]
    OBVIOUS
  <2>1. Rank(j, Pending, B) <= Rank(j, Pending, Len(Pending))
    BY <1>1, <1>4, RankGrows
  <2>2. Rank(j, Pending, B) = Leaving(j)
    BY <1>1, <1>2, <1>5
  <2> QED BY <1>1, <1>2, <1>4, <2>1, <2>2, RankType DEF FlowInv, AllThere
<1>8. ASSUME NEW x \in Buffered
      PROVE  x \in UNION {Leavers(j) : j \in Jobs}
  <2>1. PICK i \in 1..B : x = <<buf[i].short, buf[i].user>>
    BY <1>1, <1>8 DEF Buffered
  <2> DEFINE j == buf[i].by
             n == applied[j] + Rank(j, buf, i)
  <2>2. j \in Jobs /\ n \in applied[j] + 1 .. applied[j] + Leaving(j)
    BY <1>1, <1>2, <1>3, <1>6
  <2>3. x = <<job[j].shorts[n], Owner(j)>>
    BY <1>6, <2>1
  <2> HIDE DEF j, n
  <2> QED BY <2>2, <2>3 DEF Leavers
<1>9. ASSUME NEW j \in Jobs, NEW x \in Leavers(j)
      PROVE  x \in Buffered
  <2>1. PICK n \in applied[j] + 1 .. applied[j] + Leaving(j) :
               x = <<job[j].shorts[n], Owner(j)>>
    BY <1>9 DEF Leavers
  <2>2. n - applied[j] \in 1..Rank(j, buf, B)
    BY <1>1, <1>2
  <2>3. PICK i \in Places(j, buf, B) : Rank(j, buf, i) = n - applied[j]
    BY <1>1, <2>2, RankOnto
  <2>4. i \in 1..B /\ buf[i].by = j
    BY DEF Places
  <2>5. applied[j] + Rank(j, buf, i) = n
    BY <1>1, <2>3
  <2>6. x = <<buf[i].short, buf[i].user>>
    BY <1>6, <2>1, <2>4, <2>5
  <2> QED BY <1>1, <2>4, <2>6 DEF Buffered
<1>10. \A i \in DOMAIN buf : buf[i].by \in Jobs /\ Leaving(buf[i].by) >= 1
  BY <1>1, <1>2, <1>3, <1>6
<1> QED BY <1>2, <1>7, <1>8, <1>9, <1>10

(* A request has sent no more than it names, and nothing before it is       *)
(* accepted.                                                                *)
LEMMA SentWithin ==
  ASSUME FlowInv, NEW j \in Jobs
  PROVE  /\ sent[j] \in Nat
         /\ sent[j] >= 1 => Accepted(j)
         /\ Accepted(j) => job[j] \in JobInput /\ sent[j] <= Len(job[j].shorts)
<1>1. /\ stage[j] \in {"idle", "handling", "accepted", "locking", "sending", "sent"}
      /\ sent[j] \in Nat
  BY DEF FlowInv, DelInv, TypeOK
<1>2. JobShape(j) /\ JobFlow(j)
  BY DEF FlowInv, DelInv
<1>3. job[j] \in JobInput => Len(job[j].shorts) \in Nat
  BY DEF JobInput
<1> QED BY <1>1, <1>2, <1>3 DEF JobShape, JobFlow, Accepted

(* A request that was accepted keeps its input.                             *)
LEMMA InputStays ==
  ASSUME FlowInv, [Next]_vars, NEW j \in Jobs
  PROVE  /\ job[j] # None => job'[j] = job[j]
         /\ Accepted(j) => Accepted(j)' /\ job'[j] = job[j] /\ Owner(j)' = Owner(j)
<1>1. job[j] # None \/ Accepted(j) => stage[j] # "idle"
  BY DEF FlowInv, JobFlow, Accepted
<1>2. stage[j] # "idle" => job'[j] = job[j]
  BY DEF Next, Arrive, Sender, Accept, DeleteUserURLs, LockChan, Send, BecomeAggregator,
         Aggregator, Receive, Count, Flush, Release, TimePasses, EnterCreation, Creating,
              BeginCreation, EndCreation, LeaveCreation, Proceed, Signal, Main, ShutdownDone, ShutdownTimeout, Wait, WaitReturns,
         GracefulStop, Move, vars, jobVars, FlowInv, DelInv, TypeOK
<1>3. Accepted(j) => Accepted(j)'
  BY DEF Next, Arrive, Sender, Accept, DeleteUserURLs, LockChan, Send, BecomeAggregator,
         Aggregator, Receive, Count, Flush, Release, TimePasses, EnterCreation, Creating,
              BeginCreation, EndCreation, LeaveCreation, Proceed, Signal, Main, ShutdownDone, ShutdownTimeout, Wait, WaitReturns,
         GracefulStop, Move, vars, jobVars, FlowInv, DelInv, TypeOK, Accepted
<1> QED BY <1>1, <1>2, <1>3 DEF Owner
(* Only a flush settles anything, and the release that follows it does not  *)
(* settle it again.                                                         *)
LEMMA SettledMoves ==
  ASSUME FlowInv, [Next]_vars
  PROVE  \/ /\ Flush
            /\ \A j \in Jobs : Settled[j] = applied[j] /\ Settled'[j] = applied[j] + Leaving(j)
         \/ UNCHANGED <<tables, Settled>>
<1>1. /\ applied \in [Jobs -> Nat] /\ agg \in {"select", "count", "release"}
      /\ \A j \in Jobs : Leaving(j) \in Nat
  BY BufferedIsDue DEF FlowInv, DelInv, TypeOK
<1>2. CASE Flush
  <2>1. /\ agg = "select" /\ agg' = "release" /\ applied' = applied
        /\ \A j \in Jobs : Leaving(j)' = Leaving(j)
    BY <1>2 DEF Flush, Running, Leaving
  <2> QED BY <1>1, <1>2, <2>1 DEF Settled
<1>3. CASE Release
  <2>1. /\ tables' = tables /\ agg = "release" /\ agg' = "select"
        /\ applied' = [j \in Jobs |-> applied[j] + Leaving(j)]
    BY <1>3 DEF Release, Running
  <2>2. \A j \in Jobs : applied'[j] \in Nat
    BY <1>1, <2>1
  <2> QED BY <1>1, <2>1, <2>2 DEF Settled
<1>4. CASE Receive \/ Count
  <2>1. tables' = tables /\ agg # "release" /\ agg' # "release" /\ applied' = applied
    BY <1>4 DEF Receive, Count, Running
  <2> QED BY <2>1 DEF Settled
<1>5. ASSUME ~Flush, ~Release, ~Receive, ~Count
      PROVE  UNCHANGED <<tables, agg, applied, buf>>
  BY <1>5 DEF Next, Arrive, Sender, Accept, DeleteUserURLs, LockChan, Send, BecomeAggregator,
              Aggregator, TimePasses, EnterCreation, Creating,
              BeginCreation, EndCreation, LeaveCreation, Proceed, Signal, Main, ShutdownDone,
              ShutdownTimeout, Wait, WaitReturns, GracefulStop, Move, vars, aggVars
<1>6. CASE UNCHANGED <<tables, agg, applied, buf>>
  BY <1>6 DEF Settled, Leaving
<1> QED BY <1>2, <1>3, <1>4, <1>5, <1>6

(* Only an answer puts a request on the ledger.                             *)
LEMMA AskedMoves ==
  ASSUME FlowInv, [Next]_vars
  PROVE  \/ /\ UNCHANGED <<tables, Settled>>
            /\ \E j \in Jobs : /\ Asked[j] = None /\ Asked'[j] \in Asking
                               /\ Asked' = [Asked EXCEPT ![j] = Asked'[j]]
         \/ UNCHANGED Asked
<1>1. \A j \in Jobs : Accepted(j) => Accepted(j)' /\ job'[j] = job[j] /\ Owner(j)' = Owner(j)
  BY InputStays
<1>2. ASSUME NEW j \in Jobs, ~Accepted(j), Accepted(j)'
      PROVE  Accept(j)
  <2>1. stage \in [Jobs -> {"idle", "handling", "accepted", "locking", "sending", "sent"}]
    BY DEF FlowInv, DelInv, TypeOK
  <2>2. stage'[j] # stage[j]
    BY <1>2 DEF Accepted
  <2>3. PICK q \in Jobs : Arrive(q) \/ Sender(q)
    BY <2>2 DEF Next, BecomeAggregator, Aggregator, Receive, Count, Flush, Release,
                TimePasses, EnterCreation, Creating,
              BeginCreation, EndCreation, LeaveCreation, Proceed, Signal, Main, ShutdownDone,
                ShutdownTimeout, Wait, WaitReturns, GracefulStop, Move, vars, jobVars
  <2>4. q = j
    BY <2>1, <2>2, <2>3 DEF Arrive, Sender, Accept, DeleteUserURLs, LockChan, Send
  <2>5. ~Arrive(j)
    BY <1>2, <2>1 DEF Arrive, Accepted
  <2>6. ~DeleteUserURLs(j) /\ ~LockChan(j) /\ ~Send(j)
    BY <1>2 DEF DeleteUserURLs, LockChan, Send, Accepted
  <2> QED BY <2>3, <2>4, <2>5, <2>6 DEF Sender
<1>3. CASE \A j \in Jobs : Accepted(j)' => Accepted(j)
  BY <1>1, <1>3 DEF Asked
<1>4. ASSUME NEW j \in Jobs, Accept(j)
      PROVE  /\ UNCHANGED <<tables, Settled>>
             /\ Asked[j] = None /\ Asked'[j] \in Asking
             /\ Asked' = [Asked EXCEPT ![j] = Asked'[j]]
  <2>1. /\ stage[j] = "handling" /\ stage' = [stage EXCEPT ![j] = "accepted"] /\ job' = job
        /\ UNCHANGED <<tables, applied, agg, buf>>
    BY <1>4 DEF Accept, aggVars
  <2>2. Settled' = Settled
    BY <2>1 DEF Settled, Leaving
  <2>3. Asked[j] = None
    BY <2>1 DEF Asked, Accepted
  <2>4. Asked'[j] \in Asking
    <3>1. stage'[j] = "accepted"
      BY <2>1 DEF FlowInv, DelInv, TypeOK
    <3>2. job[j] \in JobInput
      BY <2>1 DEF FlowInv, DelInv, JobShape
    <3>3. Owner(j) \in Users /\ job[j].shorts \in Seq(Shorts)
      BY <3>2, DeleteAssumption DEF Owner, JobInput
    <3>4. Asked'[j] = [shorts |-> job[j].shorts, user |-> Owner(j)]
      BY <2>1, <3>1 DEF Asked, Accepted, Owner
    <3> QED BY <3>3, <3>4 DEF Asking
  <2>5. \A q \in Jobs \ {j} : Asked'[q] = Asked[q]
    BY <2>1 DEF Asked, Accepted, Owner
  <2>6. Asked' = [Asked EXCEPT ![j] = Asked'[j]]
    BY <2>5 DEF Asked
  <2> QED BY <2>1, <2>2, <2>3, <2>4, <2>6
<1> QED BY <1>2, <1>3, <1>4

(* The ledger's operators are those of Storage.                             *)
LEMMA LedgerMarks ==
  ASSUME NEW t, NEW pairs
  PROVE  Ledger!MarkDeleted(t, pairs) = MarkDeleted(t, pairs)
  BY DEF Ledger!MarkDeleted, Ledger!Marked, MarkDeleted, Marked

(* Asynchronous deletion implements the ledger: an UPDATE marks exactly the *)
(* rows named by the next items of the requests it carries, in whatever     *)
(* order goroutines, the channel, the timer and main() take their turns.    *)
THEOREM KeepsTheLedger == Spec => KeepsLedger
<1>1. Init => Ledger!LedgerInit
  BY DEF Init, Ledger!LedgerInit, Asked, Accepted, Settled
<1>2. ASSUME FlowInv, [Next]_vars
      PROVE  [Ledger!Ask \/ Ledger!Settle]_(Ledger!ledgerVars)
  <2>1. CASE Asked' = Asked /\ UNCHANGED <<tables, Settled>>
    BY <2>1 DEF Ledger!ledgerVars
  <2>2. CASE UNCHANGED <<tables, Settled>> /\ Asked' # Asked
    <3>1. PICK j \in Jobs : /\ Asked[j] = None /\ Asked'[j] \in Asking
                            /\ Asked' = [Asked EXCEPT ![j] = Asked'[j]]
      BY <1>2, <2>2, AskedMoves
    <3> QED BY <2>2, <3>1 DEF Ledger!Ask, Asking
  <2>3. CASE ~UNCHANGED <<tables, Settled>>
    <3>1. /\ Flush
          /\ \A j \in Jobs : Settled[j] = applied[j] /\ Settled'[j] = applied[j] + Leaving(j)
      BY <1>2, <2>3, SettledMoves
    <3>2. Asked' = Asked
      BY <1>2, <2>3, AskedMoves
    <3>3. /\ \A j \in Jobs : applied[j] \in Nat /\ Leaving(j) \in Nat
          /\ StoreOf[once] \in Stores
      BY <1>2, <3>1, BufferedIsDue, DeleteAssumption
      DEF FlowInv, DelInv, TypeOK, Flush, Running
    <3>4. Settled' # Settled
      <4>1. 1 \in DOMAIN buf
        BY <1>2, <3>1, DeleteAssumption DEF Flush, FlushDue, FlowInv, DelInv, TypeOK
      <4>2. buf[1].by \in Jobs /\ Leaving(buf[1].by) >= 1
        BY <1>2, <4>1, BufferedIsDue
      <4> QED BY <3>1, <3>3, <4>2
    <3>5. ASSUME NEW j \in Jobs
          PROVE  Settled[j] <= Settled'[j] /\ Settled'[j] <= Ledger!Length(j)
      <4>1. applied[j] + Leaving(j) <= sent[j]
        BY <1>2, BufferedIsDue
      <4>2. /\ sent[j] \in Nat /\ (sent[j] >= 1 => Accepted(j))
            /\ Accepted(j) => job[j] \in JobInput /\ sent[j] <= Len(job[j].shorts)
        BY <1>2, SentWithin
      <4>3. CASE Accepted(j)
        <5>1. Asked[j] = [shorts |-> job[j].shorts, user |-> Owner(j)]
          BY <4>3 DEF Asked
        <5>2. Asked[j] \in Asking
          BY <4>2, <4>3, <5>1, DeleteAssumption DEF Asking, JobInput, Owner
        <5>3. Ledger!Length(j) = Len(job[j].shorts) /\ Len(job[j].shorts) \in Nat
          BY <4>2, <4>3, <5>1, <5>2, DeleteAssumption DEF Ledger!Length, JobInput
        <5> QED BY <3>1, <3>3, <4>1, <4>2, <4>3, <5>3
      <4>4. CASE ~Accepted(j)
        <5>1. Ledger!Length(j) = 0
          BY <4>4 DEF Ledger!Length, Asked
        <5> QED BY <3>1, <3>3, <4>1, <4>2, <4>4, <5>1
      <4> QED BY <4>3, <4>4
    <3>6. ASSUME NEW j \in Jobs
          PROVE  Ledger!Due(j) = Leavers(j)
      <4>1. Accepted(j) \/ Leaving(j) = 0
        BY <1>2, <3>3, BufferedIsDue, SentWithin
      <4>2. CASE Accepted(j)
        BY <3>1, <4>2 DEF Ledger!Due, Leavers, Asked
      <4>3. CASE Leaving(j) = 0
        BY <3>1, <3>3, <4>3 DEF Ledger!Due, Leavers
      <4> QED BY <4>1, <4>2, <4>3
    <3>7. Buffered = UNION {Ledger!Due(j) : j \in Jobs}
      BY <1>2, <3>6, BufferedIsDue
    <3>8. \/ \E st \in Stores : tables' = [tables EXCEPT ![st] =
               Ledger!MarkDeleted(tables[st], UNION {Ledger!Due(j) : j \in Jobs})]
          \/ Faults /\ UNCHANGED tables
      BY <3>1, <3>3, <3>7, LedgerMarks DEF Flush
    <3> QED BY <3>2, <3>4, <3>5, <3>8 DEF Ledger!Settle
  <2> QED BY <2>1, <2>2, <2>3
<1> QED BY FlowInductive, <1>1, <1>2, PTL DEF Spec, KeepsLedger, Ledger!LedgerSpec
-----------------------------------------------------------------------------
(* With rows that start undeleted: a row is marked only for a request that  *)
(* named it together with its owner.                                        *)
THEOREM OnlyRequestsDelete ==
  ASSUME \A st \in Stores : \A row \in Table0[st] : ~row.deleted
  PROVE  Spec => []OnlyRequestedDeleted
<1>1. Init => OnlyRequestedDeleted
  BY DEF Init, OnlyRequestedDeleted
<1>2. ASSUME FlowInv, OnlyRequestedDeleted, [Next]_vars
      PROVE  OnlyRequestedDeleted'
  <2> DEFINE For(short, user) ==
               \E j \in Jobs : /\ job[j] # None
                               /\ \E i \in DOMAIN job[j].shorts :
                                     /\ ItemOf(j, i).short = short
                                     /\ ItemOf(j, i).user = user
  <2>1. \A j \in Jobs : job[j] # None => job'[j] = job[j]
    BY <1>2, InputStays
  <2>2. \A short, user : For(short, user) => For(short, user)'
    BY <2>1 DEF ItemOf, Owner
  <2>3. \A st \in Stores : \A row \in tables[st] : row.deleted => For(row.short, row.user)
    BY <1>2 DEF OnlyRequestedDeleted
  <2>4. ASSUME NEW short, NEW user, <<short, user>> \in Buffered
        PROVE  For(short, user)
    <3>1. PICK j \in Jobs : <<short, user>> \in Leavers(j)
      BY <1>2, <2>4, BufferedIsDue
    <3>2. PICK n \in applied[j] + 1 .. applied[j] + Leaving(j) :
                 short = job[j].shorts[n] /\ user = Owner(j)
      BY <3>1 DEF Leavers
    <3>3. applied[j] \in Nat /\ Leaving(j) \in Nat /\ applied[j] + Leaving(j) <= sent[j]
      BY <1>2, BufferedIsDue DEF FlowInv, DelInv, TypeOK
    <3>4. sent[j] \in Nat /\ job[j] \in JobInput /\ sent[j] <= Len(job[j].shorts)
      BY <1>2, <3>2, <3>3, SentWithin
    <3>5. n \in DOMAIN job[j].shorts
      BY <3>3, <3>4 DEF JobInput
    <3> QED BY <3>2, <3>4, <3>5, DeleteAssumption DEF ItemOf
  <2>5. \A st \in Stores : \A row \in tables'[st] : row.deleted => For(row.short, row.user)
    <3>1. CASE UNCHANGED tables
      BY <2>3, <3>1
    <3>2. CASE tables' = [tables EXCEPT ![StoreOf[once]] =
                            MarkDeleted(tables[StoreOf[once]], Buffered)]
      <4> SUFFICES ASSUME NEW st \in Stores, NEW row \in tables'[st], row.deleted
                   PROVE  For(row.short, row.user)
        OBVIOUS
      <4>1. tables \in [Stores -> SUBSET Row]
        BY <1>2 DEF FlowInv, DelInv, TypeOK
      <4>2. row \in tables[st] \/ row \in MarkDeleted(tables[st], Buffered)
        BY <3>2, <4>1
      <4>3. CASE row \in tables[st]
        BY <2>3, <4>3
      <4>4. CASE row \in MarkDeleted(tables[st], Buffered)
        <5>1. PICK old \in tables[st] : row = Marked(old, Buffered)
          BY <4>4 DEF MarkDeleted
        <5>2. /\ row.short = old.short /\ row.user = old.user
              /\ row.deleted => old.deleted \/ <<old.short, old.user>> \in Buffered
          BY <4>1, <5>1 DEF Marked, Row
        <5> QED BY <2>3, <2>4, <5>2
      <4> QED BY <4>2, <4>3, <4>4
    <3> QED BY <1>2, <3>1, <3>2, SettledMoves DEF Flush
  <2> QED BY <2>2, <2>5 DEF OnlyRequestedDeleted
<1> QED BY <1>1, <1>2, FlowInductive, PTL DEF Spec

(* Every item that was settled has marked its owner's rows.                 *)
Effects ==
  \A j \in Jobs : \A n \in 1..Settled[j] : \A row \in tables[StoreOf[job[j].via]] :
     row.short = job[j].shorts[n] /\ row.user = Owner(j) => row.deleted

(* With one database, whose UPDATEs do not fail: an HTTP request whose      *)
(* items have all been flushed has marked its caller's rows.                *)
THEOREM HttpDeletesDo ==
  ASSUME ~Faults, \A s, t \in Servers : StoreOf[s] = StoreOf[t]
  PROVE  Spec => []HttpDeletesTakeEffect
<1>1. Init => Effects
  BY DEF Init, Effects, Settled
<1>2. ASSUME FlowInv, Effects, [Next]_vars
      PROVE  Effects'
  <2>1. tables \in [Stores -> SUBSET Row] /\ applied \in [Jobs -> Nat]
    BY <1>2 DEF FlowInv, DelInv, TypeOK
  <2>2. \A j \in Jobs : Leaving(j) \in Nat /\ applied[j] + Leaving(j) <= sent[j]
    BY <1>2, BufferedIsDue
  <2>3. \A j \in Jobs : Settled[j] \in Nat /\ Settled[j] <= sent[j]
    <3> SUFFICES ASSUME NEW j \in Jobs
                 PROVE  Settled[j] \in Nat /\ Settled[j] <= sent[j]
      OBVIOUS
    <3>1. applied[j] \in Nat /\ sent[j] \in Nat
      BY <1>2, <2>1, SentWithin
    <3>2. Settled[j] \in {applied[j], applied[j] + Leaving(j)}
      BY <2>1, <2>2 DEF Settled
    <3> QED BY <2>2, <3>1, <3>2
  <2>4. ASSUME NEW j \in Jobs, sent[j] >= 1
        PROVE  job[j] \in JobInput /\ job'[j] = job[j] /\ Owner(j)' = Owner(j)
    BY <1>2, <2>4, SentWithin, InputStays
  <2>5. CASE UNCHANGED <<tables, Settled>>
    <3> SUFFICES ASSUME NEW j \in Jobs, NEW n \in 1..Settled[j]
                 PROVE  \A row \in tables[StoreOf[job'[j].via]] :
                          row.short = job'[j].shorts[n] /\ row.user = Owner(j)' => row.deleted
      BY <2>5 DEF Effects
    <3>1. sent[j] >= 1
      BY <1>2, <2>3, SentWithin
    <3> QED BY <1>2, <2>4, <3>1 DEF Effects
  <2>6. CASE ~UNCHANGED <<tables, Settled>>
    <3>1. /\ Flush
          /\ \A j \in Jobs : Settled[j] = applied[j] /\ Settled'[j] = applied[j] + Leaving(j)
      BY <1>2, <2>6, SettledMoves
    <3>2. tables' = [tables EXCEPT ![StoreOf[once]] =
                       MarkDeleted(tables[StoreOf[once]], Buffered)]
      BY <3>1 DEF Flush
    <3>3. once \in Servers
      BY <1>2, <3>1 DEF FlowInv, DelInv, TypeOK, Flush, Running
    <3> SUFFICES ASSUME NEW j \in Jobs, NEW n \in 1..applied[j] + Leaving(j),
                        NEW row \in tables'[StoreOf[job'[j].via]],
                        row.short = job'[j].shorts[n], row.user = Owner(j)'
                 PROVE  row.deleted
      BY <3>1 DEF Effects
    <3>4. sent[j] >= 1
      BY <1>2, <2>1, <2>2, SentWithin
    <3>5. job[j] \in JobInput /\ job'[j] = job[j] /\ Owner(j)' = Owner(j)
      BY <2>4, <3>4
    <3>6. StoreOf[job[j].via] = StoreOf[once] /\ StoreOf[once] \in Stores
      BY <3>3, <3>5, DeleteAssumption DEF JobInput
    <3>7. PICK old \in tables[StoreOf[once]] : row = Marked(old, Buffered)
      BY <2>1, <3>2, <3>5, <3>6 DEF MarkDeleted
    <3>8. /\ row.short = old.short /\ row.user = old.user
          /\ old.deleted \/ <<old.short, old.user>> \in Buffered => row.deleted
      BY <2>1, <3>6, <3>7 DEF Marked, Row
    <3>9. CASE n \in 1..applied[j]
      BY <1>2, <3>1, <3>5, <3>6, <3>8, <3>9 DEF Effects
    <3>10. CASE n \in applied[j] + 1 .. applied[j] + Leaving(j)
      <4>1. <<job[j].shorts[n], Owner(j)>> \in Leavers(j)
        BY <3>10 DEF Leavers
      <4>2. Leavers(j) \subseteq Buffered
        BY <1>2, BufferedIsDue
      <4> QED BY <3>5, <3>8, <4>1, <4>2
    <3> QED BY <2>1, <2>2, <3>9, <3>10
  <2> QED BY <2>5, <2>6
<1>3. FlowInv /\ Effects => HttpDeletesTakeEffect
  <2> SUFFICES ASSUME FlowInv, Effects, NEW j \in Jobs, Flushed(j), job[j].via = "http"
               PROVE  Effective(j)
    BY DEF HttpDeletesTakeEffect, TookEffect
  <2>1. job[j] \in JobInput /\ applied[j] = Len(job[j].shorts) /\ applied[j] \in Nat
    BY DEF Flushed, FlowInv, DelInv, TypeOK
  <2>2. DOMAIN job[j].shorts = 1..applied[j] /\ Owner(j) = job[j].caller
    BY <2>1 DEF JobInput, Owner
  <2>3. Leaving(j) \in Nat
    BY BufferedIsDue
  <2>4. Settled[j] \in Nat /\ applied[j] <= Settled[j]
    BY <2>1, <2>3 DEF Settled
  <2> QED BY <2>1, <2>2, <2>4 DEF Effects, Effective
<1> QED BY <1>1, <1>2, <1>3, FlowInductive, PTL DEF Spec
=============================================================================
