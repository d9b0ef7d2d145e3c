---------------------------- MODULE DeleteLedger ----------------------------
(***************************************************************************)
(* What asynchronous deletion promises, with no goroutine, channel, buffer *)
(* or timer in sight: a ledger of the deletions that were accepted, each   *)
(* of which is settled once, a request's in the order it named them.       *)
(* Settling some of them, of any requests, marks exactly the rows they     *)
(* name; only a database that fails lets them pass without effect.         *)
(***************************************************************************)
EXTENDS Storage

CONSTANTS Jobs, Stores, Faults

VARIABLES tables,  \* the rows of each database
          asked,   \* the short URLs and the user of each accepted request, else None
          settled  \* how many of them have been settled

ledgerVars == <<tables, asked, settled>>

LedgerInit ==
  /\ asked = [j \in Jobs |-> None]
  /\ settled = [j \in Jobs |-> 0]

\* A request is accepted, which changes no row yet.
Ask ==
  /\ asked' # asked
  /\ \E j \in Jobs : /\ asked[j] = None
                     /\ asked'[j] \in [shorts : Seq(Shorts), user : Users]
                     /\ asked' = [asked EXCEPT ![j] = asked'[j]]
  /\ UNCHANGED <<tables, settled>>

Length(j) == IF asked[j] = None THEN 0 ELSE Len(asked[j].shorts)

\* The pairs whose turn it is.
Due(j) == {<<asked[j].shorts[i], asked[j].user>> : i \in settled[j] + 1 .. settled'[j]}

\* One UPDATE in one of the databases settles some pairs of some requests.
Settle ==
  /\ settled' # settled
  /\ \A j \in Jobs : settled[j] <= settled'[j] /\ settled'[j] <= Length(j)
  /\ \/ \E st \in Stores :
          tables' = [tables EXCEPT ![st] = MarkDeleted(@, UNION {Due(j) : j \in Jobs})]
     \/ Faults /\ UNCHANGED tables
  /\ UNCHANGED asked

LedgerSpec == LedgerInit /\ [][Ask \/ Settle]_ledgerVars
=============================================================================
