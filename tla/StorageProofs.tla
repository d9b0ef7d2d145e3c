--------------------------- MODULE StorageProofs ---------------------------
(***************************************************************************)
(* Facts about the table operators of module Storage.                      *)
(***************************************************************************)
EXTENDS Storage, TLAPS

(* An INSERT keeps every pair and adds those of the new records.            *)
LEMMA InsertHolds ==
  ASSUME NEW t, NEW recs, NEW u
  PROVE  /\ \A o, s : Holds(t, o, s) => Holds(Insert(t, recs, u), o, s)
         /\ \A i \in DOMAIN recs :
              Holds(Insert(t, recs, u), recs[i].orig, recs[i].short)
<1>1. \A o, s : Holds(t, o, s) => Holds(Insert(t, recs, u), o, s)
  BY DEF Holds, Insert
<1>2. ASSUME NEW i \in DOMAIN recs
      PROVE  Holds(Insert(t, recs, u), recs[i].orig, recs[i].short)
  <2>1. NewRow(recs[i], u) \in Insert(t, recs, u)
    BY DEF Insert
  <2>2. NewRow(recs[i], u).orig = recs[i].orig /\ NewRow(recs[i], u).short = recs[i].short
    BY DEF NewRow
  <2> QED BY <2>1, <2>2 DEF Holds
<1> QED BY <1>1, <1>2

(* Marking a row as deleted changes nothing else of it.                     *)
LEMMA MarkedRow ==
  ASSUME NEW row \in Row, NEW pairs
  PROVE  /\ Marked(row, pairs) \in Row
         /\ Marked(row, pairs).orig = row.orig
         /\ Marked(row, pairs).short = row.short
  BY DEF Marked, Row

(* Marking rows as deleted keeps every pair and adds none.                  *)
LEMMA MarkHolds ==
  ASSUME NEW t \in SUBSET Row, NEW pairs, NEW o, NEW s
  PROVE  Holds(MarkDeleted(t, pairs), o, s) <=> Holds(t, o, s)
  BY MarkedRow DEF Holds, MarkDeleted

(* Marked rows are rows.                                                    *)
LEMMA MarkType ==
  ASSUME NEW t \in SUBSET Row, NEW pairs
  PROVE  MarkDeleted(t, pairs) \in SUBSET Row
  BY MarkedRow DEF MarkDeleted

(* `original` stays a primary key.                                          *)
UniqueKeys(t) == \A x, y \in t : x.orig = y.orig => x = y

(* An INSERT that meets no key of the table leaves `original` unique.       *)
LEMMA InsertUnique ==
  ASSUME NEW t \in SUBSET Row, NEW recs, NEW u, UniqueKeys(t), Fits(t, recs)
  PROVE  UniqueKeys(Insert(t, recs, u))
<1> SUFFICES ASSUME NEW x \in Insert(t, recs, u), NEW y \in Insert(t, recs, u),
                    x.orig = y.orig
             PROVE  x = y
  BY DEF UniqueKeys
<1>1. \A i \in DOMAIN recs : NewRow(recs[i], u).orig = recs[i].orig
  BY DEF NewRow
<1>2. CASE x \in t /\ y \in t
  BY <1>2 DEF UniqueKeys
<1>3. CASE \E i, j \in DOMAIN recs : x = NewRow(recs[i], u) /\ y = NewRow(recs[j], u)
  BY <1>3, <1>1 DEF Fits
<1>4. ASSUME NEW z \in t, NEW i \in DOMAIN recs
      PROVE  z.orig # NewRow(recs[i], u).orig
  BY <1>1 DEF Fits, Keys
<1> QED BY <1>2, <1>3, <1>4 DEF Insert

(* Marking rows as deleted leaves `original` unique.                        *)
LEMMA MarkUnique ==
  ASSUME NEW t \in SUBSET Row, NEW pairs, UniqueKeys(t)
  PROVE  UniqueKeys(MarkDeleted(t, pairs))
  BY MarkedRow DEF UniqueKeys, MarkDeleted

(* New rows have the table's columns.                                       *)
LEMMA InsertType ==
  ASSUME NEW t \in SUBSET Row, NEW recs, NEW u \in Users,
         \A i \in DOMAIN recs : recs[i].orig \in Originals /\ recs[i].short \in ShortValues
  PROVE  Insert(t, recs, u) \in SUBSET Row
<1>1. \A i \in DOMAIN recs : NewRow(recs[i], u) \in Row
  BY DEF NewRow, Row
<1> QED BY <1>1 DEF Insert
=============================================================================
