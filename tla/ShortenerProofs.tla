-------------------------- MODULE ShortenerProofs --------------------------
(***************************************************************************)
(* What holds of module Shortener for every value of its constants.        *)
(***************************************************************************)
EXTENDS Shortener, StorageProofs

(* Rows of the table stand for a map of current URLs.                       *)
LEMMA FromTableType ==
  ASSUME NEW rows \in SUBSET Row
  PROVE  FromTable(rows) \in Map
<1> SUFFICES ASSUME NEW o \in Originals, o \in Keys(rows)
             PROVE  (CHOOSE row \in rows : row.orig = o).short \in ShortValues
  BY DEF FromTable, Map
<1>1. PICK row \in rows : row.orig = o
  BY DEF Keys
<1>2. (CHOOSE x \in rows : x.orig = o) \in rows
  BY <1>1
<1> QED BY <1>2 DEF Row

(* So do the lines of the file, and the record of zero values.              *)
LEMMA FromFileType ==
  ASSUME NEW f \in File
  PROVE  FromFile(f) \in Map /\ BlankMap \in Map
<1>1. BlankMap \in Map
  BY DEF BlankMap, Map, ShortValues
<1>2. ASSUME f.state = "ok"
      PROVE  FromFile(f) \in Map
  <2> SUFFICES ASSUME NEW o \in Originals,
                      NEW k \in DOMAIN f.lines, IsLast(f, o, k)
               PROVE  f.lines[CHOOSE i \in DOMAIN f.lines : IsLast(f, o, i)].short
                        \in ShortValues
    BY <1>2 DEF FromFile, Map
  <2> DEFINE i == CHOOSE x \in DOMAIN f.lines : IsLast(f, o, x)
  <2>1. i \in DOMAIN f.lines
    OBVIOUS
  <2>2. f.lines \in Seq(Record)
    BY DEF File
  <2>3. f.lines[i] \in Record
    BY <2>1, <2>2
  <2> QED BY <2>3 DEF Record
<1> QED BY <1>1, <1>2 DEF FromFile

(* The map router() loads is a map of current URLs, whatever fails.         *)
LEMMA LoadsType ==
  ASSUME table \subseteq Row, file \in File, NEW pgUp \in BOOLEAN
  PROVE  \A m \in Loads(pgUp) : m \in Map
<1>1. BlankMap \in Map
  BY FromFileType
<1>2. ASSUME NEW f \in ReadOf(file)
      PROVE  FromFile(f) \in Map
  <2>1. file.lines \in Seq(Record)
    BY DEF File
  <2>2. ASSUME NEW n \in 0..Len(file.lines)
        PROVE  [state |-> "ok", lines |-> SubSeq(file.lines, 1, n)] \in File
    <3>1. SubSeq(file.lines, 1, n) \in Seq(Record)
      BY <2>1
    <3> QED BY <3>1 DEF File
  <2>3. f \in File
    BY <1>2, <2>2 DEF ReadOf
  <2> QED BY <2>3, FromFileType
<1>3. ASSUME NEW rows \in SUBSET table
      PROVE  FromTable(rows) \in Map
  BY FromTableType
<1>4. Loaded(pgUp) \in Map
  BY FromFileType, FromTableType DEF Loaded
<1> QED BY <1>1, <1>2, <1>3, <1>4 DEF Loads

-----------------------------------------------------------------------------
(* What a request's input and its elements look like at each stage: the     *)
(* part of the inductive invariant that does not depend on the stores.      *)
Creating == {"scan", "choose", "save", "reread", "append", "lock", "publish"}
Chosen   == {"save", "reread", "append", "lock", "publish"}

(* The input of a request that has arrived.                                 *)
InputOK(x) ==
  /\ x \in Input
  /\ x.kind = "read" => x.short \in Shorts
  /\ x.kind # "read" => x.seed \in Seeds /\ x.user \in Users /\ Len(x.origs) >= 1
  /\ x.kind = "create" => Len(x.origs) = 1

(* A request that creates is not a read; from the save on, every element    *)
(* of its input has been chosen; what is still to do are elements it has.   *)
Shape(r) ==
  /\ pc[r] # "idle" => InputOK(req[r])
  /\ pc[r] \in Creating => req[r].kind # "read"
  /\ pc[r] \in {"check", "find"} => req[r].kind = "read"
  /\ pc[r] \in Chosen => Len(items[r]) = Len(req[r].origs)
  /\ pc[r] \in {"idle", "scan", "choose", "check", "find"} => todo[r] = {}
  /\ todo[r] \subseteq DOMAIN items[r]

(* The inductive invariant of type correctness.                             *)
TypeInv == TypeOK /\ \A r \in Requests : Shape(r)

(* Init establishes the types and the shape of every request.               *)
LEMMA TypeInit == Init => TypeInv
<1> SUFFICES ASSUME Init PROVE TypeInv
  OBVIOUS
<1>1. connected \in BOOLEAN
  BY ShortenerAssumption DEF Connections, Init
<1>2. table \subseteq Row /\ file \in File
  BY DEF Init, NoFile, File
<1>3. mem \in Map
  BY <1>1, <1>2, LoadsType DEF Init
<1>4. TypeOK
  BY <1>1, <1>2, <1>3 DEF Init, TypeOK, PCs
<1>5. \A r \in Requests : Shape(r)
  BY DEF Init, Shape, Creating, Chosen
<1> QED BY <1>4, <1>5 DEF TypeInv

(* A step of request r leaves the other requests' locals alone, and so      *)
(* their shape.                                                             *)
Untouched(q) ==
  /\ pc'[q] = pc[q] /\ req'[q] = req[q] /\ items'[q] = items[q] /\ todo'[q] = todo[q]

(* A step that leaves a request alone leaves its shape alone.               *)
LEMMA ShapeElsewhere ==
  ASSUME NEW q \in Requests, Shape(q), Untouched(q)
  PROVE  Shape(q)'
  BY DEF Shape, Untouched

(* The arrival of a request keeps the types.                                *)
LEMMA TypeArrive ==
  ASSUME TypeInv, NEW r \in Requests, Arrive(r)
  PROVE  TypeInv'
<1> USE DEF TypeInv
<1>1. ASSUME NEW kind \in {"create", "batch"}, NEW origs \in Seq(Originals),
             Len(origs) >= 1, kind = "create" => Len(origs) = 1,
             StartCreation(r, kind, origs)
      PROVE  TypeInv'
  <2>1. PICK seed \in Seeds, u \in Users :
           req' = [req EXCEPT ![r] = Creation(kind, origs, seed, u)]
    BY <1>1 DEF StartCreation
  <2>2. InputOK(Creation(kind, origs, seed, u))
    BY <1>1 DEF StartCreation, Creation, InputOK, Input
  <2>3. TypeOK'
    BY <1>1, <2>1, <2>2 DEF StartCreation, TypeOK, Go, PCs, storeVars, mapVars, InputOK
  <2>4. Shape(r)'
    BY <1>1, <2>1, <2>2 DEF StartCreation, TypeOK, Go, Shape, Creation, Creating, Chosen
  <2>5. \A q \in Requests \ {r} : Untouched(q)
    BY <1>1, <2>1 DEF StartCreation, TypeOK, Go, Untouched
  <2> QED BY <2>3, <2>4, <2>5, ShapeElsewhere
<1>2. CASE CreateShortened(r)
  <2>1. PICK o \in Originals : StartCreation(r, "create", <<o>>)
    BY <1>2 DEF CreateShortened
  <2> DEFINE os == <<o>>
  <2>2. os \in Seq(Originals) /\ Len(os) >= 1 /\ Len(os) = 1
    OBVIOUS
  <2>3. StartCreation(r, "create", os)
    BY <2>1
  <2> HIDE DEF os
  <2>4. "create" \in {"create", "batch"}
    OBVIOUS
  <2> QED BY <2>2, <2>3, <2>4, <1>1
<1>3. CASE CreateShortenedFromBatch(r)
  <2>1. PICK os \in Batches : StartCreation(r, "batch", os)
    BY <1>3 DEF CreateShortenedFromBatch
  <2>2. PICK n \in 1..MaxBatch : os \in [1..n -> Originals]
    BY DEF Batches
  <2>3. os \in Seq(Originals) /\ Len(os) = n
    BY <2>2, ShortenerAssumption
  <2> QED BY <2>1, <2>2, <2>3, <1>1
<1>4. CASE ReadOriginal(r)
  <2>1. PICK s \in Shorts : req' = [req EXCEPT ![r] = Reading(s)]
    BY <1>4 DEF ReadOriginal
  <2>2. InputOK(Reading(s))
    BY <1>4 DEF ReadOriginal, Reading, InputOK, Input
  <2>3. TypeOK'
    BY <1>4, <2>1, <2>2 DEF ReadOriginal, TypeOK, Go, PCs, storeVars, mapVars, InputOK
  <2>4. Shape(r)'
    BY <1>4, <2>1, <2>2 DEF ReadOriginal, TypeOK, Go, Shape, Reading, Creating, Chosen
  <2>5. \A q \in Requests \ {r} : Untouched(q)
    BY <1>4, <2>1 DEF ReadOriginal, TypeOK, Go, Untouched
  <2> QED BY <2>3, <2>4, <2>5, ShapeElsewhere
<1> QED BY <1>2, <1>3, <1>4 DEF Arrive

(* The steps of a request under way: what each assigns keeps its type, and  *)
(* the request keeps its shape.                                             *)
LEMMA TypeScan ==
  ASSUME TypeInv, NEW r \in Requests, NEW o \in Originals, Scan(r, o) \/ Find(r, o)
  PROVE  TypeInv'
<1>1. \A q \in Requests \ {r} : Untouched(q)
  BY DEF TypeInv, Scan, Find, TypeOK, Go, Untouched
<1>2. CASE Scan(r, o)
  <2>1. mem[o] \in ShortValues \cup {None}
    BY DEF TypeInv, TypeOK, Map
  <2>2. TypeOK'
    BY <1>2, <2>1 DEF TypeInv, Scan, TypeOK, Go, PCs, storeVars, mapVars
  <2>3. Shape(r)'
    BY <1>2 DEF TypeInv, Scan, TypeOK, Go, Shape, Creating, Chosen
  <2> QED BY <2>2, <2>3, <1>1, ShapeElsewhere DEF TypeInv
<1>3. CASE Find(r, o)
  <2>1. ASSUME mem[o] = req[r].short
        PROVE  <<[orig |-> o, short |-> req[r].short, new |-> FALSE]>> \in Seq(Item)
    BY <1>3, <2>1 DEF TypeInv, Shape, Find, InputOK, Item, ShortValues
  <2>2. items' \in [Requests -> Seq(Item)]
    BY <1>3, <2>1 DEF TypeInv, Find, TypeOK
  <2>3. unseen' \in [Requests -> SUBSET Originals]
    BY <1>3 DEF TypeInv, Find, TypeOK
  <2>4. pc' \in [Requests -> PCs]
    <3>1. \E label \in PCs : Go(r, label)
      BY <1>3 DEF Find, PCs, Answers
    <3> QED BY <3>1 DEF Go, TypeInv, TypeOK
  <2>6. TypeOK'
    BY <1>3, <2>2, <2>3, <2>4 DEF TypeInv, Find, TypeOK, Go, PCs, Answers, storeVars, mapVars
  <2>5. Shape(r)'
    BY <1>3, <2>1 DEF TypeInv, Find, TypeOK, Go, Shape, Creating, Chosen
  <2> QED BY <2>6, <2>5, <1>1, ShapeElsewhere DEF TypeInv
<1> QED BY <1>2, <1>3

(* What a request answers with are pairs of URLs.                           *)
LEMMA PairsType ==
  ASSUME NEW r \in Requests, items[r] \in Seq(Item)
  PROVE  Pairs(r) \subseteq Originals \X ShortValues
<1>1. ASSUME NEW i \in DOMAIN items[r]
      PROVE  Pair(items[r][i]) \in Originals \X ShortValues
  <2>1. items[r][i] \in Item
    OBVIOUS
  <2> QED BY <2>1 DEF Item, Pair
<1> QED BY <1>1 DEF Pairs

(* The scan and the choice of short URLs keep the types.                    *)
LEMMA TypeChoose ==
  ASSUME TypeInv, NEW r \in Requests, ChooseShort(r) \/ AllChosen(r)
  PROVE  TypeInv'
<1>1. \A q \in Requests \ {r} : Untouched(q)
  BY DEF TypeInv, ChooseShort, AllChosen, TypeOK, Go, Answer, Untouched
<1>2. CASE ChooseShort(r)
  <2>1. InputOK(req[r]) /\ req[r].origs \in Seq(Originals) /\ items[r] \in Seq(Item)
    BY <1>2 DEF TypeInv, TypeOK, Shape, ChooseShort, InputOK, Input
  <2>2. NextOrig(r) \in Originals
    BY <1>2, <2>1 DEF NextOrig, ChooseShort
  <2>3. PICK s \in ShortValues :
          /\ items' = [items EXCEPT ![r] = Append(@, [orig |-> NextOrig(r), short |-> s,
                                                      new |-> ~Reused(r, NextOrig(r))])]
          /\ taken' = [taken EXCEPT ![r] =
                         IF Reused(r, NextOrig(r)) THEN @ ELSE @ \cup {s}]
    BY <1>2 DEF ChooseShort
  <2>4. (~Reused(r, NextOrig(r))) \in {TRUE, FALSE}
    BY Zenon
  <2>5. [orig |-> NextOrig(r), short |-> s, new |-> ~Reused(r, NextOrig(r))] \in Item
    BY <2>2, <2>4 DEF Item
  <2>6. items' \in [Requests -> Seq(Item)] /\ items'[r] \in Seq(Item)
    BY <2>1, <2>3, <2>5 DEF TypeInv, TypeOK
  <2>7. TypeOK'
    BY <1>2, <2>3, <2>6 DEF TypeInv, ChooseShort, TypeOK, storeVars, mapVars
  <2>8. Shape(r)'
    BY <1>2, <2>6 DEF TypeInv, ChooseShort, TypeOK, Shape, Creating, Chosen
  <2> QED BY <2>7, <2>8, <1>1, ShapeElsewhere DEF TypeInv
<1>3. CASE AllChosen(r)
  <2>1. items[r] \in Seq(Item) /\ NewItems(r) \subseteq DOMAIN items[r]
    BY DEF TypeInv, TypeOK, NewItems
  <2>2. NewItems(r) \subseteq Nat
    BY <2>1
  <2>3. Pairs(r) \subseteq Originals \X ShortValues
    BY PairsType DEF TypeInv, TypeOK
  <2>4. TypeOK'
    BY <1>3, <2>2, <2>3
    DEF TypeInv, AllChosen, Answer, TypeOK, Go, PCs, Answers, storeVars, mapVars
  <2>5. Shape(r)'
    BY <1>3, <2>1
    DEF TypeInv, AllChosen, Answer, TypeOK, Go, Shape, Creating, Chosen
  <2> QED BY <2>4, <2>5, <1>1, ShapeElsewhere DEF TypeInv
<1> QED BY <1>2, <1>3

(* What a request saves are records.                                        *)
LEMMA UnsavedType ==
  ASSUME TypeInv, NEW r \in Requests
  PROVE  /\ items[r] \in Seq(Item)
         /\ \A i \in todo[r] : items[r][i] \in Item
         /\ DOMAIN Unsaved(r) = todo[r]
         /\ \A i \in todo[r] : Unsaved(r)[i] = items[r][i]
<1>1. items[r] \in Seq(Item) /\ todo[r] \subseteq DOMAIN items[r]
  BY DEF TypeInv, TypeOK, Shape
<1> QED BY <1>1 DEF Unsaved

(* Saving to PostgreSQL, whatever its outcome, keeps the types.             *)
LEMMA TypePg ==
  ASSUME TypeInv, NEW r \in Requests,
         \/ Create(r) \/ CreateConflict(r) \/ CreateSwallowed(r)
         \/ CreateBatch(r) \/ CreateBatchRejected(r)
  PROVE  TypeInv'
<1>1. \A q \in Requests \ {r} : Untouched(q)
  BY DEF TypeInv, TypeOK, Create, CreateConflict, CreateSwallowed, CreateBatch,
         CreateBatchRejected, Go, Answer, Untouched, localVars
<1>2. ASSUME InsertRows(r), pc[r] = "save"
      PROVE  table' \in SUBSET Row
  <2>1. req[r].user \in Users
    BY <1>2 DEF TypeInv, Shape, Creating, InputOK
  <2>2. \A i \in DOMAIN Unsaved(r) :
          Unsaved(r)[i].orig \in Originals /\ Unsaved(r)[i].short \in ShortValues
    BY UnsavedType DEF Item
  <2> QED BY <1>2, <2>1, <2>2, InsertType DEF InsertRows, TypeInv, TypeOK
<1>3. CASE Create(r)
  <2>1. TypeOK'
    BY <1>2, <1>3 DEF TypeInv, TypeOK, Create, SavingToPg, InsertRows, Go, PCs,
                      mapVars, localVars
  <2>2. Shape(r)'
    BY <1>3 DEF TypeInv, TypeOK, Create, SavingToPg, Go, Shape, Creating, Chosen, localVars
  <2> QED BY <2>1, <2>2, <1>1, ShapeElsewhere DEF TypeInv
<1>4. CASE CreateConflict(r)
  <2>1. \A row \in table : {Pair(row)} \subseteq Originals \X ShortValues
    BY DEF TypeInv, TypeOK, Row, Pair
  <2>2. TypeOK'
    BY <1>4, <2>1 DEF TypeInv, TypeOK, CreateConflict, SavingToPg, Go, Answer, PCs,
                      Answers, storeVars, mapVars, localVars
  <2>3. Shape(r)'
    BY <1>4 DEF TypeInv, TypeOK, CreateConflict, SavingToPg, Go, Answer, Shape, Creating,
                Chosen, localVars
  <2> QED BY <2>2, <2>3, <1>1, ShapeElsewhere DEF TypeInv
<1>5. CASE CreateSwallowed(r)
  <2>1. TypeOK'
    BY <1>5 DEF TypeInv, TypeOK, CreateSwallowed, SavingToPg, Go, PCs,
                storeVars, mapVars, localVars
  <2>2. Shape(r)'
    BY <1>5 DEF TypeInv, TypeOK, CreateSwallowed, SavingToPg, Go, Shape, Creating, Chosen,
                localVars
  <2> QED BY <2>1, <2>2, <1>1, ShapeElsewhere DEF TypeInv
<1>6. CASE CreateBatch(r)
  <2>1. TypeOK'
    BY <1>2, <1>6 DEF TypeInv, TypeOK, CreateBatch, SavingToPg, InsertRows, Go, Answer,
                      PCs, Answers, mapVars, localVars
  <2>2. Shape(r)'
    BY <1>6 DEF TypeInv, TypeOK, CreateBatch, SavingToPg, Go, Answer, Shape, Creating,
                Chosen, localVars
  <2> QED BY <2>1, <2>2, <1>1, ShapeElsewhere DEF TypeInv
<1>7. CASE CreateBatchRejected(r)
  <2>1. TypeOK'
    BY <1>7 DEF TypeInv, TypeOK, CreateBatchRejected, SavingToPg, Go, Answer, PCs,
                Answers, storeVars, mapVars, localVars
  <2>2. Shape(r)'
    BY <1>7 DEF TypeInv, TypeOK, CreateBatchRejected, SavingToPg, Go, Answer, Shape,
                Creating, Chosen, localVars
  <2> QED BY <2>1, <2>2, <1>1, ShapeElsewhere DEF TypeInv
<1> QED BY <1>3, <1>4, <1>5, <1>6, <1>7

(* Falling back to the file, reading it and appending to it keep the        *)
(* types.                                                                   *)
LEMMA TypeFile ==
  ASSUME TypeInv, NEW r \in Requests,
         FallBack(r) \/ Reread(r) \/ AppendLine(r) \/ AppendFails(r)
  PROVE  TypeInv'
<1>1. \A q \in Requests \ {r} : Untouched(q)
  BY DEF TypeInv, TypeOK, FallBack, Reread, AppendLine, AppendFails, Go, Answer, Untouched,
         localVars
<1>2. CASE FallBack(r)
  <2>1. file' \in File
    BY <1>2 DEF FallBack, TypeInv, TypeOK, Opened, File
  <2>2. \E label \in {"lock", "reread", "append", "failed"} : Go(r, label)
    <3>1. req[r].kind \in {"create", "batch"}
      BY <1>2, ShortenerAssumption
      DEF FallBack, TypeInv, Shape, Creating, InputOK, Input
    <3>2. FileConfigured \in BOOLEAN
      BY ShortenerAssumption
    <3> QED BY <1>2, <3>1, <3>2 DEF FallBack, Answer
  <2>3. told' = told
    BY <1>2 DEF FallBack, Answer
  <2>4. TypeOK'
    BY <1>2, <2>1, <2>2, <2>3 DEF TypeInv, TypeOK, FallBack, Go, PCs, Answers, mapVars,
                                  localVars
  <2>5. Shape(r)'
    BY <1>2, <2>2 DEF TypeInv, TypeOK, FallBack, Go, Shape, Creating, Chosen, localVars
  <2> QED BY <2>4, <2>5, <1>1, ShapeElsewhere DEF TypeInv
<1>3. CASE Reread(r)
  <2>1. \E label \in {"lock", "append", "failed"} : Go(r, label)
    BY <1>3 DEF Reread, Answer
  <2>2. told' = told
    BY <1>3 DEF Reread, Answer
  <2>3. TypeOK'
    BY <1>3, <2>1, <2>2 DEF TypeInv, TypeOK, Reread, Go, PCs, Answers, storeVars,
                            mapVars, localVars
  <2>4. Shape(r)'
    BY <1>3, <2>1 DEF TypeInv, TypeOK, Reread, Go, Shape, Creating, Chosen, localVars
  <2> QED BY <2>3, <2>4, <1>1, ShapeElsewhere DEF TypeInv
<1>4. CASE AppendLine(r)
  <2>1. PICK i \in todo[r] :
          /\ file' = Appended(file, [orig |-> items[r][i].orig, short |-> items[r][i].short])
          /\ IF todo[r] = {i}
             THEN todo' = [todo EXCEPT ![r] = NewItems(r)] /\ Go(r, "lock")
             ELSE todo' = [todo EXCEPT ![r] = @ \ {i}] /\ UNCHANGED pc
    BY <1>4 DEF AppendLine
  <2>2. [orig |-> items[r][i].orig, short |-> items[r][i].short] \in Record
    BY UnsavedType DEF Item, Record
  <2>3. file' \in File
    BY <2>1, <2>2 DEF TypeInv, TypeOK, Appended, File
  <2>4. NewItems(r) \subseteq DOMAIN items[r] /\ NewItems(r) \subseteq Nat
    BY UnsavedType DEF NewItems
  <2>5. TypeOK'
    BY <1>4, <2>1, <2>3, <2>4 DEF TypeInv, TypeOK, AppendLine, Go, PCs, mapVars
  <2>6. Shape(r)'
    BY <1>4, <2>1, <2>4 DEF TypeInv, TypeOK, AppendLine, Go, Shape, Creating, Chosen
  <2> QED BY <2>5, <2>6, <1>1, ShapeElsewhere DEF TypeInv
<1>5. CASE AppendFails(r)
  <2>1. file' \in File
    BY <1>5 DEF AppendFails, TypeInv, TypeOK, Torn, File
  <2>2. TypeOK'
    BY <1>5, <2>1 DEF TypeInv, TypeOK, AppendFails, Go, Answer, PCs, Answers, mapVars,
                      localVars
  <2>3. Shape(r)'
    BY <1>5 DEF TypeInv, TypeOK, AppendFails, Go, Answer, Shape, Creating, Chosen, localVars
  <2> QED BY <2>2, <2>3, <1>1, ShapeElsewhere DEF TypeInv
<1> QED BY <1>2, <1>3, <1>4, <1>5

(* Publishing keeps the types.                                              *)
LEMMA TypePublish ==
  ASSUME TypeInv, NEW r \in Requests, Lock(r) \/ PublishOne(r) \/ PublishBatch(r)
  PROVE  TypeInv'
<1>1. \A q \in Requests \ {r} : Untouched(q)
  BY DEF TypeInv, TypeOK, Lock, PublishOne, PublishBatch, Go, Answer, Untouched, localVars
<1>2. CASE Lock(r)
  <2>1. TypeOK'
    BY <1>2 DEF TypeInv, TypeOK, Lock, Go, PCs, storeVars, localVars
  <2>2. Shape(r)'
    BY <1>2 DEF TypeInv, TypeOK, Lock, Go, Shape, Creating, Chosen, localVars
  <2> QED BY <2>1, <2>2, <1>1, ShapeElsewhere DEF TypeInv
<1>3. CASE PublishOne(r)
  <2>1. 1 \in DOMAIN items[r] /\ items[r][1] \in Item
    BY <1>3, UnsavedType DEF TypeInv, PublishOne, Shape, Chosen, InputOK
  <2>2. mem \in Map /\ mem[items[r][1].orig] \in ShortValues \cup {None}
    BY <2>1 DEF TypeInv, TypeOK, Map, Item
  <2>3. mem' \in Map
    BY <1>3, <2>1, <2>2 DEF PublishOne, Map, Item
  <2>4. told' \subseteq Originals \X ShortValues
    BY <1>3, <2>1, <2>2 DEF TypeInv, TypeOK, PublishOne, Answer, Pair, Item
  <2>5. TypeOK'
    BY <1>3, <2>3, <2>4 DEF TypeInv, TypeOK, PublishOne, Go, Answer, PCs, Answers,
                            storeVars, localVars
  <2>6. Shape(r)'
    BY <1>3 DEF TypeInv, TypeOK, PublishOne, Go, Answer, Shape, Creating, Chosen, localVars
  <2> QED BY <2>5, <2>6, <1>1, ShapeElsewhere DEF TypeInv
<1>4. CASE PublishBatch(r)
  <2>1. PICK i \in todo[r] :
          /\ mem' = [mem EXCEPT ![items[r][i].orig] = items[r][i].short]
          /\ todo' = [todo EXCEPT ![r] = @ \ {i}]
          /\ IF todo[r] = {i} THEN mu' = None /\ Answer(r, "created", Pairs(r))
                              ELSE UNCHANGED <<mu, pc, told>>
    BY <1>4 DEF PublishBatch
  <2>2. mem' \in Map
    BY <2>1, UnsavedType DEF TypeInv, TypeOK, Map, Item
  <2>3. Pairs(r) \subseteq Originals \X ShortValues
    BY PairsType, UnsavedType
  <2>4. TypeOK'
    BY <1>4, <2>1, <2>2, <2>3 DEF TypeInv, TypeOK, PublishBatch, Go, Answer, PCs,
                                  Answers, storeVars
  <2>5. Shape(r)'
    BY <1>4, <2>1 DEF TypeInv, TypeOK, PublishBatch, Go, Answer, Shape, Creating, Chosen
  <2> QED BY <2>4, <2>5, <1>1, ShapeElsewhere DEF TypeInv
<1> QED BY <1>2, <1>3, <1>4

(* The reads, the flush of deletions and a restart keep the types.          *)
LEMMA TypeElse ==
  ASSUME TypeInv,
         \/ \E r \in Requests : CheckDeleted(r)
         \/ FlushDeletions \/ Restart \/ UNCHANGED vars
  PROVE  TypeInv'
<1>1. ASSUME NEW r \in Requests, CheckDeleted(r)
      PROVE  TypeInv'
  <2>1. \A q \in Requests \ {r} : Untouched(q)
    BY <1>1 DEF TypeInv, TypeOK, CheckDeleted, Go, Untouched
  <2>2. \E label \in {"gone", "find"} : Go(r, label)
    BY <1>1 DEF CheckDeleted
  <2>3. unseen' \in [Requests -> SUBSET Originals]
    BY <1>1 DEF CheckDeleted, TypeInv, TypeOK
  <2>4. TypeOK'
    BY <1>1, <2>2, <2>3 DEF TypeInv, TypeOK, CheckDeleted, Go, PCs, Answers, storeVars,
                            mapVars
  <2>5. Shape(r)'
    BY <1>1, <2>2 DEF TypeInv, TypeOK, CheckDeleted, Go, Shape, Creating, Chosen
  <2> QED BY <2>1, <2>4, <2>5, ShapeElsewhere DEF TypeInv
<1>2. CASE FlushDeletions
  <2>1. table' \in SUBSET Row
    BY <1>2, MarkType DEF FlushDeletions, TypeInv, TypeOK
  <2>2. TypeOK'
    BY <1>2, <2>1 DEF TypeInv, TypeOK, FlushDeletions, mapVars, localVars
  <2>3. \A q \in Requests : Untouched(q)
    BY <1>2 DEF FlushDeletions, Untouched, localVars
  <2> QED BY <2>2, <2>3, ShapeElsewhere DEF TypeInv
<1>3. CASE Restart
  <2>1. connected' \in BOOLEAN
    BY <1>3, ShortenerAssumption DEF Connections, Restart
  <2>2. mem' \in Map
    BY <1>3, <2>1, LoadsType DEF Restart, TypeInv, TypeOK
  <2>3. TypeOK'
    BY <1>3, <2>1, <2>2 DEF TypeInv, TypeOK, Restart, PCs, Answers, localVars
  <2>4. \A q \in Requests : Shape(q)'
    BY <1>3 DEF TypeInv, TypeOK, Restart, Busy, Answers, PCs, Shape, Creating, Chosen,
                localVars
  <2> QED BY <2>3, <2>4 DEF TypeInv
<1>4. CASE UNCHANGED vars
  BY <1>4 DEF vars, TypeInv, TypeOK, Shape
<1> QED BY <1>1, <1>2, <1>3, <1>4

(* Every variable keeps its type and every request its shape, whatever the  *)
(* stores are and whether calls to them fail.                               *)
THEOREM TypeCorrect == Spec => []TypeInv
<1>1. TypeInv /\ [Next]_vars => TypeInv'
  BY TypeArrive, TypeScan, TypeChoose, TypePg, TypeFile, TypePublish, TypeElse
  DEF Next, Continue
<1> QED BY TypeInit, <1>1, PTL DEF Spec

(* The type invariant of the runs.                                          *)
THEOREM TypesHold == Spec => []TypeOK
<1>1. TypeInv => TypeOK
  BY DEF TypeInv
<1> QED BY TypeCorrect, <1>1, PTL

-----------------------------------------------------------------------------
(* A server on PostgreSQL whose calls do not fail.  Durable and MemBacked   *)
(* are not inductive: a request may tell or publish what it chose long      *)
(* before.  What makes them so is that an element is in the table from the  *)
(* moment it was reused from the map, or else from the INSERT on.           *)
PgOnly == PgConfigured = TRUE /\ Faults = FALSE

(* The table holds the pair of element x.                                   *)
Backed(x) == Holds(table, x.orig, x.short)

(* A request that saves to PostgreSQL: a reused element is backed, and      *)
(* when it may publish all of its elements are.                             *)
PgShape(r) ==
  /\ pc[r] \notin {"reread", "append"}
  /\ \A i \in DOMAIN items[r] : ~items[r][i].new => Backed(items[r][i])
  /\ pc[r] \in {"lock", "publish"} => \A i \in DOMAIN items[r] : Backed(items[r][i])
  /\ pc[r] = "save" => todo[r] = NewItems(r)

(* The inductive invariant of Durable, MemBacked and Agreement.             *)
PgInv ==
  /\ TypeInv
  /\ connected = TRUE
  /\ UniqueKeys(table)
  /\ Durable
  /\ MemBacked
  /\ \A r \in Requests : PgShape(r)

(* The table never loses a pair.                                            *)
Grows == \A o, s : Holds(table, o, s) => Holds(table', o, s)

(* A table that stays as it is loses no pair.                               *)
LEMMA SameTableGrows == ASSUME table' = table PROVE Grows
  BY DEF Grows

(* An INSERT loses no pair, keeps the primary key, and backs what it        *)
(* saves.                                                                   *)
LEMMA InsertGrows ==
  ASSUME TypeInv, NEW r \in Requests, InsertRows(r), Fits(table, Unsaved(r)),
         UniqueKeys(table)
  PROVE  /\ Grows
         /\ UniqueKeys(table')
         /\ \A i \in todo[r] : Holds(table', items[r][i].orig, items[r][i].short)
<1>1. table' = Insert(table, Unsaved(r), req[r].user)
  BY DEF InsertRows
<1>2. Grows
  BY <1>1, InsertHolds DEF Grows
<1>3. UniqueKeys(table')
  BY <1>1, InsertUnique DEF TypeInv, TypeOK
<1>4. \A i \in todo[r] : Holds(table', items[r][i].orig, items[r][i].short)
  BY <1>1, InsertHolds, UnsavedType
<1> QED BY <1>2, <1>3, <1>4

(* What a step of request r must do for PgInv: keep every pair, publish and *)
(* tell only backed pairs, and keep its own shape.                          *)
LEMMA PgStep ==
  ASSUME PgInv, TypeInv', connected' = TRUE, UniqueKeys(table'), Grows,
         NEW r \in Requests, PgShape(r)',
         \A q \in Requests \ {r} : Untouched(q),
         \A o \in Originals : mem'[o] # mem[o] => Holds(table', o, mem'[o]),
         \A p \in told' : p \notin told => Holds(table', p[1], p[2])
  PROVE  PgInv'
<1>1. Durable'
  BY DEF PgInv, Durable, Grows
<1>2. MemBacked'
  BY DEF PgInv, MemBacked, Grows
<1>3. ASSUME NEW q \in Requests, q # r
      PROVE  PgShape(q)'
  <2>1. Untouched(q) /\ PgShape(q)
    BY <1>3 DEF PgInv
  <2>2. NewItems(q)' = NewItems(q)
    BY <2>1 DEF Untouched, NewItems
  <2> QED BY <2>1, <2>2 DEF Untouched, PgShape, Backed, Grows
<1> QED BY <1>1, <1>2, <1>3 DEF PgInv

(* Init establishes the invariant: the map is loaded from the empty table.  *)
LEMMA PgInitially == ASSUME PgOnly PROVE Init => PgInv
<1> SUFFICES ASSUME Init PROVE PgInv
  OBVIOUS
<1>1. connected = TRUE /\ table = {}
  BY DEF Connections, Init, PgOnly
<1>2. MemBacked
  BY <1>1 DEF Init, PgOnly, Loads, Loaded, FromTable, Keys, MemBacked
<1>3. \A r \in Requests : PgShape(r)
  BY DEF Init, PgShape, NewItems
<1> QED BY <1>1, <1>2, <1>3, TypeInit DEF Init, PgInv, UniqueKeys, Durable

(* Arriving and scanning the map keep the invariant.                        *)
LEMMA PgArriveOrScan ==
  ASSUME PgOnly, PgInv, TypeInv', NEW r \in Requests,
         Arrive(r) \/ \E o \in Originals : Scan(r, o)
  PROVE  PgInv'
<1>1. /\ pc'[r] \in {"scan", "check", "choose"}
      /\ UNCHANGED <<storeVars, mapVars, items, told>>
      /\ \A q \in Requests \ {r} : Untouched(q)
  BY DEF PgInv, TypeInv, TypeOK, Arrive, CreateShortened, CreateShortenedFromBatch,
         StartCreation, ReadOriginal, Scan, Go, Untouched
<1>2. Grows
  BY <1>1, SameTableGrows DEF storeVars
<1>3. PgShape(r)'
  BY <1>1 DEF PgInv, PgShape, Backed, storeVars
<1> QED BY <1>1, <1>2, <1>3, PgStep DEF PgInv, storeVars, mapVars

(* The steps of a read keep the invariant.                                  *)
LEMMA PgFindOrCheck ==
  ASSUME PgOnly, PgInv, TypeInv', NEW r \in Requests,
         CheckDeleted(r) \/ \E o \in Originals : Find(r, o)
  PROVE  PgInv'
<1>1. /\ UNCHANGED <<storeVars, mapVars, told>>
      /\ \A q \in Requests \ {r} : Untouched(q)
      /\ pc'[r] \in {"gone", "find", "found", "unknown"}
  BY DEF PgInv, TypeInv, TypeOK, CheckDeleted, Find, Go, Untouched
<1>2. Grows
  BY <1>1, SameTableGrows DEF storeVars
<1>3. ASSUME NEW i \in DOMAIN items'[r], ~items'[r][i].new
      PROVE  Holds(table', items'[r][i].orig, items'[r][i].short)
  <2>1. CASE items' = items
    BY <1>1, <1>3, <2>1 DEF PgInv, PgShape, Backed, storeVars
  <2>2. ASSUME NEW o \in Originals, Find(r, o), mem[o] = req[r].short
        PROVE  Holds(table', items'[r][i].orig, items'[r][i].short)
    <3>1. req[r].short \in Shorts
      BY <2>2 DEF PgInv, TypeInv, Shape, Find, InputOK
    <3>2. Holds(table, o, req[r].short)
      BY <2>2, <3>1, StorageAssumption DEF PgInv, MemBacked
    <3>3. items'[r] = <<[orig |-> o, short |-> req[r].short, new |-> FALSE]>>
      BY <2>2 DEF Find, PgInv, TypeInv, TypeOK
    <3>4. i = 1
      BY <3>3
    <3> QED BY <1>1, <3>2, <3>3, <3>4 DEF storeVars
  <2> QED BY <2>1, <2>2 DEF CheckDeleted, Find
<1>4. PgShape(r)'
  BY <1>1, <1>3 DEF PgShape, Backed
<1> QED BY <1>1, <1>2, <1>4, PgStep DEF PgInv, storeVars, mapVars

(* Choosing keeps it: a reused short URL comes from the map, hence is       *)
(* backed.                                                                  *)
LEMMA PgChoose ==
  ASSUME PgOnly, PgInv, TypeInv', NEW r \in Requests, ChooseShort(r)
  PROVE  PgInv'
<1>1. /\ UNCHANGED <<storeVars, mapVars, told, pc>>
      /\ \A q \in Requests \ {r} : Untouched(q)
      /\ pc[r] = "choose"
  BY DEF PgInv, TypeInv, TypeOK, ChooseShort, Untouched
<1>2. Grows
  BY <1>1, SameTableGrows DEF storeVars
<1>3. InputOK(req[r]) /\ req[r].origs \in Seq(Originals) /\ items[r] \in Seq(Item)
  BY <1>1 DEF PgInv, TypeInv, TypeOK, Shape, InputOK, Input
<1>4. NextOrig(r) \in Originals
  BY <1>3 DEF NextOrig, ChooseShort
<1> DEFINE o == NextOrig(r)
<1>5. PICK s \in ShortValues :
        /\ ShortFor(r, o, s)
        /\ items' = [items EXCEPT ![r] =
                       Append(@, [orig |-> o, short |-> s, new |-> ~Reused(r, o)])]
  BY DEF ChooseShort
<1> DEFINE x == [orig |-> o, short |-> s, new |-> ~Reused(r, o)]
<1>6. x.orig = o /\ x.short = s /\ (~x.new => Reused(r, o))
  OBVIOUS
<1>7. Reused(r, o) => Holds(table, o, s)
  BY <1>4, <1>5 DEF ShortFor, Reused, PgInv, MemBacked
<1>8. ~x.new => Holds(table, x.orig, x.short)
  BY <1>6, <1>7
<1> HIDE DEF x
<1>9. items'[r] = Append(items[r], x)
  BY <1>5 DEF x, PgInv, TypeInv, TypeOK
<1>10. ASSUME NEW i \in DOMAIN items'[r], ~items'[r][i].new
       PROVE  Holds(table, items'[r][i].orig, items'[r][i].short)
  <2>1. CASE i \in DOMAIN items[r]
    <3>1. items'[r][i] = items[r][i]
      BY <1>3, <1>9, <2>1
    <3> QED BY <1>10, <2>1, <3>1 DEF PgInv, PgShape, Backed
  <2>2. CASE i \notin DOMAIN items[r]
    <3>1. items'[r][i] = x
      BY <1>3, <1>9, <2>2
    <3> QED BY <1>8, <1>10, <3>1
  <2> QED BY <2>1, <2>2
<1>11. PgShape(r)'
  BY <1>1, <1>10 DEF PgShape, Backed, storeVars
<1> QED BY <1>1, <1>2, <1>11, PgStep DEF PgInv, storeVars, mapVars

(* A batch with nothing to save is answered from backed elements.           *)
LEMMA PgAllChosen ==
  ASSUME PgOnly, PgInv, TypeInv', NEW r \in Requests, AllChosen(r)
  PROVE  PgInv'
<1>1. /\ UNCHANGED <<storeVars, mapVars, items>>
      /\ \A q \in Requests \ {r} : Untouched(q)
      /\ pc'[r] \in {"created", "save"}
      /\ todo'[r] = NewItems(r)
  BY DEF PgInv, TypeInv, TypeOK, AllChosen, Answer, Go, Untouched
<1>2. Grows
  BY <1>1, SameTableGrows DEF storeVars
<1>3. NewItems(r)' = NewItems(r)
  BY <1>1 DEF NewItems
<1>4. PgShape(r)'
  BY <1>1, <1>3 DEF PgInv, PgShape, Backed, storeVars
<1>5. ASSUME NEW p \in told', p \notin told
      PROVE  Holds(table', p[1], p[2])
  <2>1. NewItems(r) = {} /\ p \in Pairs(r)
    BY <1>5 DEF AllChosen, Answer
  <2>2. PICK i \in DOMAIN items[r] : p = Pair(items[r][i])
    BY <2>1 DEF Pairs
  <2>3. Backed(items[r][i])
    BY <2>1 DEF NewItems, PgInv, PgShape
  <2> QED BY <1>1, <2>2, <2>3 DEF Backed, Pair, storeVars
<1> QED BY <1>1, <1>2, <1>4, <1>5, PgStep DEF PgInv, storeVars, mapVars

(* Saving: the INSERT backs the new elements.                               *)
LEMMA PgSave ==
  ASSUME PgOnly, PgInv, TypeInv', NEW r \in Requests,
         \/ Create(r) \/ CreateConflict(r) \/ CreateSwallowed(r)
         \/ CreateBatch(r) \/ CreateBatchRejected(r)
  PROVE  PgInv'
<1>1. /\ UNCHANGED <<file, connected, mapVars, items, todo>>
      /\ \A q \in Requests \ {r} : Untouched(q)
      /\ pc[r] = "save"
  BY DEF PgInv, TypeInv, TypeOK, Create, CreateConflict, CreateSwallowed, CreateBatch,
         CreateBatchRejected, SavingToPg, InsertRows, Go, Answer, Untouched, localVars,
         storeVars
<1>2. CASE (Create(r) \/ CreateBatch(r)) /\ Fits(table, Unsaved(r)) /\ InsertRows(r)
  <2>1. pc'[r] = "lock" /\ told' = told
    BY <1>2 DEF PgOnly, PgInv, TypeInv, TypeOK, Create, CreateBatch, Go
  <2>2. /\ Grows /\ UniqueKeys(table')
        /\ \A i \in todo[r] : Holds(table', items[r][i].orig, items[r][i].short)
    BY <1>2, InsertGrows DEF PgInv
  <2>3. todo[r] = NewItems(r)
    BY <1>1 DEF PgInv, PgShape
  <2>4. ASSUME NEW i \in DOMAIN items[r]
        PROVE  Holds(table', items[r][i].orig, items[r][i].short)
    BY <2>2, <2>3 DEF NewItems, PgInv, PgShape, Backed, Grows
  <2>5. PgShape(r)'
    BY <1>1, <2>1, <2>4 DEF PgShape, Backed
  <2> QED BY <1>1, <2>1, <2>2, <2>5, PgStep DEF PgInv, mapVars
<1>3. CASE CreateConflict(r) \/ CreateBatchRejected(r)
  <2>1. table' = table /\ pc'[r] \in {"conflict", "failed"}
    BY <1>3 DEF PgInv, TypeInv, TypeOK, CreateConflict, CreateBatchRejected, Answer, Go,
                storeVars
  <2>2. Grows
    BY <2>1, SameTableGrows
  <2>3. PgShape(r)'
    BY <1>1, <2>1 DEF PgInv, PgShape, Backed
  <2>4. ASSUME NEW p \in told', p \notin told
        PROVE  Holds(table', p[1], p[2])
    <3>1. PICK row \in table : p = Pair(row)
      BY <1>3, <2>4 DEF CreateConflict, CreateBatchRejected, Answer
    <3> QED BY <2>1, <3>1 DEF Pair, Holds
  <2> QED BY <1>1, <2>1, <2>2, <2>3, <2>4, PgStep DEF PgInv, mapVars
<1> QED BY <1>2, <1>3 DEF PgOnly, Create, CreateBatch, CreateSwallowed

(* Publishing keeps it: all elements are backed by then, and an answer      *)
(* that takes an entry of the map takes a backed one.                       *)
LEMMA PgPublish ==
  ASSUME PgOnly, PgInv, TypeInv', NEW r \in Requests,
         Lock(r) \/ PublishOne(r) \/ PublishBatch(r)
  PROVE  PgInv'
<1>1. /\ UNCHANGED <<storeVars, items>>
      /\ \A q \in Requests \ {r} : Untouched(q)
      /\ pc'[r] \in {"publish", "created"}
      /\ pc[r] \in {"lock", "publish"}
  BY DEF PgInv, TypeInv, TypeOK, Lock, PublishOne, PublishBatch, Go, Answer, Untouched,
         localVars
<1>2. Grows
  BY <1>1, SameTableGrows DEF storeVars
<1>3. \A i \in DOMAIN items[r] : Holds(table, items[r][i].orig, items[r][i].short)
  BY <1>1 DEF PgInv, PgShape, Backed
<1>4. PgShape(r)'
  BY <1>1, <1>3 DEF PgShape, Backed, storeVars
<1>5. CASE Lock(r)
  BY <1>1, <1>2, <1>4, <1>5, PgStep DEF Lock, PgInv, storeVars
<1>6. CASE PublishOne(r)
  <2>1. 1 \in DOMAIN items[r] /\ items[r][1] \in Item
    BY <1>6, UnsavedType DEF PgInv, TypeInv, PublishOne, Shape, Chosen, InputOK
  <2>2. Holds(table, items[r][1].orig, items[r][1].short)
    BY <1>3, <2>1
  <2>3. \A o \in Originals : mem'[o] # mem[o] => Holds(table', o, mem'[o])
    BY <1>1, <1>6, <2>1, <2>2 DEF PublishOne, PgInv, TypeInv, TypeOK, Map, Item, storeVars
  <2>4. ASSUME NEW p \in told', p \notin told
        PROVE  Holds(table', p[1], p[2])
    <3>1. mem[items[r][1].orig] # None =>
            Holds(table, items[r][1].orig, mem[items[r][1].orig])
      BY <2>1 DEF PgInv, MemBacked, Item
    <3> QED BY <1>1, <1>6, <2>2, <2>4, <3>1 DEF PublishOne, Answer, Pair, storeVars
  <2> QED BY <1>1, <1>2, <1>4, <2>3, <2>4, PgStep DEF PgInv, storeVars
<1>7. CASE PublishBatch(r)
  <2>1. PICK i \in todo[r] :
          /\ mem' = [mem EXCEPT ![items[r][i].orig] = items[r][i].short]
          /\ told' = told \/ told' = told \cup Pairs(r)
    BY <1>7 DEF PublishBatch, Answer
  <2>2. i \in DOMAIN items[r] /\ items[r][i] \in Item
    BY UnsavedType DEF PgInv, TypeInv, Shape
  <2>3. \A o \in Originals : mem'[o] # mem[o] => Holds(table', o, mem'[o])
    BY <1>1, <1>3, <2>1, <2>2 DEF PgInv, TypeInv, TypeOK, Map, Item, storeVars
  <2>4. ASSUME NEW p \in told', p \notin told
        PROVE  Holds(table', p[1], p[2])
    <3>1. PICK k \in DOMAIN items[r] : p = Pair(items[r][k])
      BY <2>1, <2>4 DEF Pairs
    <3> QED BY <1>1, <1>3, <3>1 DEF Pair, storeVars
  <2> QED BY <1>1, <1>2, <1>4, <2>3, <2>4, PgStep DEF PgInv, storeVars
<1> QED BY <1>5, <1>6, <1>7

(* Without faults no request turns to the file.                             *)
LEMMA PgNoFile ==
  ASSUME PgOnly, PgInv, NEW r \in Requests
  PROVE  ~(FallBack(r) \/ Reread(r) \/ AppendLine(r) \/ AppendFails(r))
  BY DEF PgOnly, PgInv, PgShape, FallBack, Reread, AppendLine, AppendFails

(* Deletions keep every pair, and a restart loads the map from the table.   *)
LEMMA PgElse ==
  ASSUME PgOnly, PgInv, TypeInv', FlushDeletions \/ Restart \/ UNCHANGED vars
  PROVE  PgInv'
<1>1. CASE FlushDeletions
  <2>1. PICK pairs : table' = MarkDeleted(table, pairs)
    BY <1>1 DEF FlushDeletions
  <2>2. UniqueKeys(table') /\ \A o, s : Holds(table, o, s) <=> Holds(table', o, s)
    BY <2>1, MarkUnique, MarkHolds DEF PgInv, TypeInv, TypeOK
  <2>3. \A q \in Requests : PgShape(q)'
    BY <1>1, <2>2 DEF FlushDeletions, localVars, PgInv, PgShape, Backed, NewItems
  <2>4. Durable' /\ MemBacked'
    BY <1>1, <2>2 DEF FlushDeletions, mapVars, PgInv, Durable, MemBacked
  <2> QED BY <1>1, <2>2, <2>3, <2>4 DEF FlushDeletions, PgInv
<1>2. CASE Restart
  <2>1. connected' = TRUE /\ mem' = FromTable(table) /\ table' = table
    BY <1>2 DEF Connections, Restart, PgOnly, Loads, Loaded
  <2>2. ASSUME NEW o \in Originals, mem'[o] # None
        PROVE  Holds(table, o, mem'[o])
    <3>1. o \in Keys(table) /\ mem'[o] = (CHOOSE row \in table : row.orig = o).short
      BY <2>1, <2>2 DEF FromTable
    <3>2. PICK row \in table : row.orig = o
      BY <3>1 DEF Keys
    <3>3. /\ (CHOOSE x \in table : x.orig = o) \in table
          /\ (CHOOSE x \in table : x.orig = o).orig = o
      BY <3>2
    <3> QED BY <3>1, <3>3 DEF Holds
  <2>3. \A q \in Requests : PgShape(q)'
    BY <1>2, <2>1 DEF Restart, localVars, PgInv, TypeInv, TypeOK, PgShape, Backed,
                      NewItems, Busy, Answers
  <2> QED BY <1>2, <2>1, <2>2, <2>3 DEF Restart, PgInv, Durable, MemBacked
<1>3. CASE UNCHANGED vars
  BY <1>3 DEF vars, PgInv, UniqueKeys, Durable, MemBacked, PgShape, Backed, NewItems
<1> QED BY <1>1, <1>2, <1>3

(* The inductive invariant of a server on PostgreSQL.                       *)
THEOREM PgInvariant == ASSUME PgOnly PROVE Spec => []PgInv
<1>1. PgInv /\ TypeInv' /\ [Next]_vars => PgInv'
  BY PgOnly, PgArriveOrScan, PgFindOrCheck, PgChoose, PgAllChosen, PgSave, PgPublish,
     PgNoFile, PgElse
  DEF Next, Continue
<1>2. Init => PgInv
  BY PgOnly, PgInitially
<1> QED BY <1>1, <1>2, TypeCorrect, PTL DEF Spec

(* A short URL a client was told is in the table for good, and the map      *)
(* never shows a pair the table does not hold, through races and restarts.  *)
THEOREM ToldIsDurable == ASSUME PgOnly PROVE Spec => []Durable
<1>1. PgInv => Durable
  BY DEF PgInv
<1> QED BY PgOnly, PgInvariant, <1>1, PTL

(* The map never shows a pair the table does not hold.                      *)
THEOREM MapIsBacked == ASSUME PgOnly PROVE Spec => []MemBacked
<1>1. PgInv => MemBacked
  BY DEF PgInv
<1> QED BY PgOnly, PgInvariant, <1>1, PTL

(* No two clients are ever told two short URLs for one original.            *)
THEOREM ClientsAgree == ASSUME PgOnly PROVE Spec => []Agreement
<1>1. PgInv => Agreement
  <2> SUFFICES ASSUME PgInv, NEW p \in told, NEW q \in told, p[1] = q[1]
               PROVE  p = q
    BY DEF Agreement
  <2>1. p[2] = q[2]
    BY DEF PgInv, Durable, Holds, UniqueKeys
  <2> QED BY <2>1 DEF PgInv, TypeInv, TypeOK
<1> QED BY PgOnly, PgInvariant, <1>1, PTL

-----------------------------------------------------------------------------
(* Refinement of UrlBook: a step adds to the table or tells, never both.    *)
LEMMA HoldsIsBound ==
  ASSUME NEW t \in SUBSET Row
  PROVE  /\ {Pair(row) : row \in t} \subseteq Originals \X ShortValues
         /\ \A o, s : Holds(t, o, s) => <<o, s>> \in {Pair(row) : row \in t}
  BY DEF Pair, Holds, Row

(* One step either adds to the table or tells a client, never both, and     *)
(* never takes back what was told.                                          *)
LEMMA AddsOrTells ==
  ASSUME PgOnly, PgInv, [Next]_vars
  PROVE  /\ told \subseteq told'
         /\ told' = told \/ table' = table
<1>1. ASSUME NEW r \in Requests, Arrive(r) \/ Continue(r)
      PROVE  told \subseteq told' /\ (told' = told \/ table' = table)
  <2>1. CASE Create(r) \/ CreateBatch(r)
    BY <2>1 DEF PgOnly, Create, CreateBatch
  <2>2. CASE AllChosen(r) \/ CreateConflict(r) \/ CreateBatchRejected(r)
             \/ PublishOne(r) \/ PublishBatch(r)
    BY <2>2 DEF AllChosen, CreateConflict, CreateBatchRejected, PublishOne, PublishBatch,
                Answer, storeVars
  <2>3. CASE Arrive(r)
    BY <2>3 DEF Arrive, CreateShortened, CreateShortenedFromBatch, StartCreation,
                ReadOriginal
  <2>4. CASE \E o \in Originals : Scan(r, o) \/ Find(r, o)
    BY <2>4 DEF Scan, Find
  <2>5. CASE ChooseShort(r) \/ CreateSwallowed(r) \/ Lock(r) \/ CheckDeleted(r)
    BY <2>5 DEF ChooseShort, CreateSwallowed, Lock, CheckDeleted
  <2> QED BY <1>1, <2>1, <2>2, <2>3, <2>4, <2>5, PgNoFile DEF Continue
<1>2. CASE FlushDeletions \/ Restart \/ UNCHANGED vars
  BY <1>2 DEF FlushDeletions, Restart, vars
<1> QED BY <1>1, <1>2 DEF Next

(* The table never loses a pair.                                            *)
LEMMA PgGrows ==
  ASSUME PgOnly, PgInv, [Next]_vars
  PROVE  Grows
<1>1. CASE table' = table
  BY <1>1, SameTableGrows
<1>2. ASSUME NEW r \in Requests, Create(r) \/ CreateBatch(r)
      PROVE  Grows
  BY <1>2, InsertGrows DEF Create, CreateBatch, PgInv
<1>3. CASE FlushDeletions
  BY <1>3, MarkHolds DEF FlushDeletions, Grows, PgInv, TypeInv, TypeOK
<1>4. ASSUME NEW r \in Requests, Arrive(r) \/ Continue(r),
             ~(Create(r) \/ CreateBatch(r))
      PROVE  table' = table
  BY <1>4, PgNoFile
  DEF Continue, Arrive, CreateShortened, CreateShortenedFromBatch, StartCreation,
      ReadOriginal, Scan, Find, ChooseShort, AllChosen, CreateConflict, CreateSwallowed,
      CreateBatchRejected, Lock, PublishOne, PublishBatch, CheckDeleted, storeVars
<1> QED BY <1>1, <1>2, <1>3, <1>4 DEF Next, Restart, vars

(* What a restart loads for the original of a row is that row's short URL.  *)
LEMMA LoadedRow ==
  ASSUME PgInv, NEW row \in table
  PROVE  /\ row.orig \in Originals
         /\ FromTable(table)[row.orig] = row.short
         /\ row.short # None
<1>1. row \in Row
  BY DEF PgInv, TypeInv, TypeOK
<1>2. row.orig \in Originals /\ row.short \in ShortValues
  BY <1>1 DEF Row
<1>3. (CHOOSE x \in table : x.orig = row.orig) = row
  BY DEF PgInv, UniqueKeys
<1>4. row.orig \in Keys(table)
  BY DEF Keys
<1>5. FromTable(table)[row.orig] = row.short
  BY <1>2, <1>3, <1>4 DEF FromTable
<1> QED BY <1>2, <1>5, StorageAssumption DEF ShortValues

(* What a client was told is what a restart would load.                     *)
THEOREM ToldIsSaved == ASSUME PgOnly PROVE Spec => []Saved
<1>1. PgInv => Saved
  <2> SUFFICES ASSUME PgInv, NEW p \in told
               PROVE  FromTable(table)[p[1]] = p[2]
    BY DEF Saved, Loaded, PgInv
  <2>1. PICK row \in table : row.orig = p[1] /\ row.short = p[2]
    BY DEF PgInv, Durable, Holds
  <2> QED BY <2>1, LoadedRow
<1> QED BY PgOnly, PgInvariant, <1>1, PTL

(* No step removes an entry of the map.                                     *)
LEMMA MapGrows ==
  ASSUME PgOnly, PgInv, [Next]_vars, NEW o \in Originals, mem[o] # None
  PROVE  mem'[o] # None
<1>1. mem \in Map /\ TypeInv
  BY DEF PgInv, TypeInv, TypeOK
<1>2. ASSUME NEW r \in Requests, PublishOne(r) \/ PublishBatch(r)
      PROVE  mem'[o] # None
  <2>1. \A i \in DOMAIN items[r] : items[r][i] \in Item
    BY <1>1, UnsavedType
  <2>2. \A i \in DOMAIN items[r] : items[r][i].short # None
    BY <2>1, StorageAssumption DEF Item, ShortValues
  <2>3. CASE PublishOne(r)
    <3>1. 1 \in DOMAIN items[r]
      BY <1>1, <2>3, UnsavedType DEF PublishOne, TypeInv, Shape, Chosen, InputOK
    <3> QED BY <1>1, <2>2, <2>3, <3>1 DEF PublishOne, Map
  <2>4. CASE PublishBatch(r)
    <3>1. PICK i \in todo[r] : mem' = [mem EXCEPT ![items[r][i].orig] = items[r][i].short]
      BY <2>4 DEF PublishBatch
    <3>2. i \in DOMAIN items[r]
      BY <1>1 DEF TypeInv, Shape
    <3> QED BY <1>1, <2>2, <3>1, <3>2 DEF Map
  <2> QED BY <1>2, <2>3, <2>4
<1>3. CASE Restart
  <2>1. mem' = FromTable(table)
    BY <1>3 DEF Connections, Restart, PgOnly, Loads, Loaded
  <2>2. PICK row \in table : row.orig = o
    BY DEF PgInv, MemBacked, Holds
  <2> QED BY <2>1, <2>2, LoadedRow
<1>4. ASSUME NEW r \in Requests, Arrive(r) \/ Continue(r),
             ~(PublishOne(r) \/ PublishBatch(r))
      PROVE  mem' = mem
  BY <1>4, PgNoFile
  DEF Continue, Arrive, CreateShortened, CreateShortenedFromBatch, StartCreation,
      ReadOriginal, Scan, Find, ChooseShort, AllChosen, Create, CreateConflict,
      CreateSwallowed, CreateBatch, CreateBatchRejected, Lock, CheckDeleted, mapVars
<1>5. CASE FlushDeletions \/ UNCHANGED vars
  BY <1>5 DEF FlushDeletions, mapVars, vars
<1> QED BY <1>2, <1>3, <1>4, <1>5 DEF Next

(* No step changes an entry: before and after, it is what the table holds.  *)
LEMMA EntryStays ==
  ASSUME PgOnly, PgInv, PgInv', [Next]_vars
  PROVE  \A o \in Originals : mem[o] # None => mem'[o] = mem[o]
<1> SUFFICES ASSUME NEW o \in Originals, mem[o] # None
             PROVE  mem'[o] = mem[o]
  OBVIOUS
<1>1. mem'[o] # None
  BY MapGrows
<1>2. Holds(table', o, mem[o])
  BY PgGrows DEF PgInv, MemBacked, Grows
<1>3. Holds(table', o, mem'[o])
  BY <1>1 DEF PgInv, MemBacked
<1> QED BY <1>2, <1>3 DEF PgInv, UniqueKeys, Holds

(* An entry of the map stays as it is, though batches overwrite entries and *)
(* restarts load them anew.                                                 *)
THEOREM MapKeepsEntries == ASSUME PgOnly PROVE Spec => EntriesStay
<1>1. PgInv /\ PgInv' /\ [Next]_vars =>
        [\A o \in Originals : mem[o] # None => mem'[o] = mem[o]]_mem
  BY PgOnly, EntryStays
<1> QED BY PgOnly, PgInvariant, <1>1, PTL DEF Spec, EntriesStay

(* Every behaviour of a server on PostgreSQL is one of UrlBook's: original  *)
(* URLs are bound once, for good, and clients are told bindings only.       *)
THEOREM KeepsTheBook == ASSUME PgOnly PROVE Spec => KeepsBook
<1>1. Init => Book!BookInit
  BY DEF Init, Book!BookInit, Bindings
<1>2. ASSUME PgInv, PgInv', [Next]_vars
      PROVE  [Book!Assign \/ Book!Tell]_(Book!bookVars)
  <2>1. table \in SUBSET Row /\ table' \in SUBSET Row
    BY <1>2 DEF PgInv, TypeInv, TypeOK
  <2>2. Bindings' = {Pair(row) : row \in table'}
    BY DEF Bindings, Pair
  <2>3. Bindings \subseteq Bindings'
    <3> SUFFICES ASSUME NEW row \in table
                 PROVE  Pair(row) \in Bindings'
      BY DEF Bindings
    <3>1. Holds(table, row.orig, row.short)
      BY DEF Holds
    <3>2. Holds(table', row.orig, row.short)
      BY <1>2, <3>1, PgGrows DEF Grows
    <3> QED BY <2>1, <2>2, <3>2, HoldsIsBound DEF Pair
  <2>4. CASE told' = told
    <3>1. Bindings' \subseteq Originals \X ShortValues
      BY <2>1, <2>2, HoldsIsBound
    <3>2. \A x, y \in table' : x.orig = y.orig => x = y
      BY <1>2 DEF PgInv, UniqueKeys
    <3>3. Book!IsFunction(Bindings')
      BY <2>2, <3>2 DEF Pair, Book!IsFunction
    <3> QED BY <2>3, <2>4, <3>1, <3>3 DEF Book!Assign
  <2>5. CASE table' = table
    <3>1. Bindings' = Bindings
      BY <2>2, <2>5 DEF Bindings
    <3>2. ASSUME NEW p \in told'
          PROVE  p \in Bindings
      <4>1. p \in Originals \X ShortValues /\ Holds(table', p[1], p[2])
        BY <1>2 DEF PgInv, TypeInv, TypeOK, Durable
      <4>2. p = <<p[1], p[2]>>
        BY <4>1
      <4> QED BY <2>1, <2>2, <3>1, <4>1, <4>2, HoldsIsBound
    <3> QED BY <1>2, <3>1, <3>2, AddsOrTells DEF Book!Tell
  <2> QED BY <1>2, <2>4, <2>5, AddsOrTells
<1> QED BY PgOnly, PgInvariant, <1>1, <1>2, PTL DEF Spec, KeepsBook, Book!BookSpec

-----------------------------------------------------------------------------
(* What the steps of a request have in common, for the invariants below.    *)

(* The request is left alone altogether.                                    *)
Still(q) == Untouched(q) /\ unseen'[q] = unseen[q] /\ taken'[q] = taken[q]

(* Its new elements become rows, in one step.                               *)
Inserts(r) ==
  /\ pc[r] = "save" /\ connected
  /\ pc'[r] = "lock" \/ (Faults /\ pc'[r] = "failed")
  /\ Fits(table, Unsaved(r)) /\ InsertRows(r)
  /\ UNCHANGED <<mapVars, localVars>>

(* Any other step from the save to the answer: the table stays, and so does *)
(* what the request has chosen.                                             *)
Proceeds(r) ==
  /\ pc[r] \in Chosen
  /\ pc'[r] \in (Chosen \ {"save"}) \cup {"created", "conflict", "failed"}
  /\ UNCHANGED <<table, req, items, unseen, taken>>

(* A step of one request leaves the others alone.                           *)
LEMMA StillElsewhere ==
  ASSUME TypeInv, NEW r \in Requests, Arrive(r) \/ Continue(r)
  PROVE  \A q \in Requests \ {r} : Still(q)
<1> SUFFICES ASSUME NEW q \in Requests, q # r
             PROVE  Still(q)
  OBVIOUS
<1> USE DEF TypeInv, TypeOK, Still, Untouched, Go, localVars
<1>1. CASE Arrive(r)
  BY <1>1 DEF Arrive, CreateShortened, CreateShortenedFromBatch, StartCreation,
              ReadOriginal
<1>2. CASE \E o \in Originals : Scan(r, o) \/ Find(r, o)
  BY <1>2 DEF Scan, Find
<1>3. CASE ChooseShort(r)
  BY <1>3 DEF ChooseShort
<1>4. CASE AllChosen(r)
  BY <1>4 DEF AllChosen, Answer
<1>5. CASE Create(r) \/ CreateSwallowed(r) \/ CreateConflict(r)
  BY <1>5 DEF Create, CreateSwallowed, CreateConflict, Answer
<1>6. CASE CreateBatch(r) \/ CreateBatchRejected(r)
  BY <1>6 DEF CreateBatch, CreateBatchRejected, Answer
<1>7. CASE FallBack(r) \/ Reread(r)
  BY <1>7 DEF FallBack, Reread, Answer
<1>8. CASE AppendLine(r) \/ AppendFails(r)
  BY <1>8 DEF AppendLine, AppendFails, Answer
<1>9. CASE Lock(r) \/ PublishOne(r) \/ PublishBatch(r)
  BY <1>9 DEF Lock, PublishOne, PublishBatch, Answer
<1>10. CASE CheckDeleted(r)
  BY <1>10 DEF CheckDeleted
<1> QED BY <1>1, <1>2, <1>3, <1>4, <1>5, <1>6, <1>7, <1>8, <1>9, <1>10 DEF Continue

(* A creation that PostgreSQL accepts inserts.                              *)
LEMMA CreateInserts ==
  ASSUME TypeInv, NEW r \in Requests, Create(r) \/ CreateBatch(r)
  PROVE  Inserts(r)
  BY DEF TypeInv, TypeOK, Create, CreateBatch, Inserts, SavingToPg, Answer, Go

(* The steps of a request once it has chosen insert or proceed.             *)
LEMMA InsertsOrProceeds ==
  ASSUME TypeInv, NEW r \in Requests,
         \/ Create(r) \/ CreateConflict(r) \/ CreateSwallowed(r)
         \/ CreateBatch(r) \/ CreateBatchRejected(r)
         \/ FallBack(r) \/ Reread(r) \/ AppendLine(r) \/ AppendFails(r)
         \/ Lock(r) \/ PublishOne(r) \/ PublishBatch(r)
  PROVE  Inserts(r) \/ Proceeds(r)
<1>1. CASE Create(r) \/ CreateBatch(r)
  BY <1>1, CreateInserts
<1> SUFFICES ASSUME ~(Create(r) \/ CreateBatch(r))
             PROVE  Proceeds(r)
  BY <1>1
<1> USE DEF TypeInv, TypeOK, Proceeds, Go, localVars, storeVars, Chosen
<1>2. CASE CreateSwallowed(r) \/ CreateConflict(r) \/ CreateBatchRejected(r)
  BY <1>2 DEF CreateSwallowed, CreateConflict, CreateBatchRejected, SavingToPg, Answer
<1>3. CASE FallBack(r)
  <2>1. req[r].kind \in {"create", "batch"} /\ FileConfigured \in BOOLEAN
    BY <1>3, ShortenerAssumption DEF FallBack, Shape, Creating, InputOK, Input
  <2>2. \E label \in {"lock", "reread", "append", "failed"} : Go(r, label)
    BY <1>3, <2>1 DEF FallBack, Answer
  <2> QED BY <1>3, <2>2 DEF FallBack
<1>4. CASE Reread(r)
  <2>1. \E label \in {"lock", "append", "failed"} : Go(r, label)
    BY <1>4 DEF Reread, Answer
  <2> QED BY <1>4, <2>1 DEF Reread
<1>5. CASE AppendLine(r) \/ AppendFails(r)
  BY <1>5 DEF AppendLine, AppendFails, Answer
<1>6. CASE Lock(r) \/ PublishOne(r) \/ PublishBatch(r)
  BY <1>6 DEF Lock, PublishOne, PublishBatch, Answer
<1> QED BY <1>2, <1>3, <1>4, <1>5, <1>6

(* The element a request chooses next, and what it leaves as it is.         *)
LEMMA ChosenItem ==
  ASSUME TypeInv, NEW r \in Requests, ChooseShort(r)
  PROVE  \E x \in Item :
           /\ x.orig \in Originals
           /\ ShortFor(r, x.orig, x.short)
           /\ x.new <=> ~Reused(r, x.orig)
           /\ items'[r] = Append(items[r], x)
           /\ DOMAIN items'[r] = DOMAIN items[r] \cup {Len(items[r]) + 1}
           /\ items'[r][Len(items[r]) + 1] = x
           /\ \A i \in DOMAIN items[r] : items'[r][i] = items[r][i]
           /\ Len(items[r]) + 1 \notin DOMAIN items[r]
           /\ taken'[r] = IF x.new THEN taken[r] \cup {x.short} ELSE taken[r]
<1>1. InputOK(req[r]) /\ req[r].origs \in Seq(Originals) /\ items[r] \in Seq(Item)
  BY DEF TypeInv, TypeOK, Shape, ChooseShort, InputOK, Input
<1> DEFINE o == NextOrig(r)
<1>2. o \in Originals
  BY <1>1 DEF NextOrig, ChooseShort
<1>3. PICK s \in ShortValues :
        /\ ShortFor(r, o, s)
        /\ items' = [items EXCEPT ![r] =
                       Append(@, [orig |-> o, short |-> s, new |-> ~Reused(r, o)])]
        /\ taken' = [taken EXCEPT ![r] = IF Reused(r, o) THEN @ ELSE @ \cup {s}]
  BY DEF ChooseShort
<1> HIDE DEF o
<1> DEFINE x == [orig |-> o, short |-> s, new |-> ~Reused(r, o)]
<1>4. (~Reused(r, o)) \in {TRUE, FALSE}
  BY Zenon
<1>5. x \in Item /\ x.orig = o /\ x.short = s
  BY <1>2, <1>4 DEF Item
<1>6. x.new <=> ~Reused(r, o)
  OBVIOUS
<1>7. items'[r] = Append(items[r], x)
  BY <1>3 DEF TypeInv, TypeOK
<1>8. taken'[r] = IF x.new THEN taken[r] \cup {x.short} ELSE taken[r]
  BY <1>3, <1>5, <1>6 DEF TypeInv, TypeOK
<1> HIDE DEF x
<1>9. /\ DOMAIN items'[r] = DOMAIN items[r] \cup {Len(items[r]) + 1}
      /\ items'[r][Len(items[r]) + 1] = x
      /\ \A i \in DOMAIN items[r] : items'[r][i] = items[r][i]
      /\ Len(items[r]) + 1 \notin DOMAIN items[r]
  BY <1>1, <1>5, <1>7
<1> QED BY <1>2, <1>3, <1>5, <1>6, <1>7, <1>8, <1>9

-----------------------------------------------------------------------------
(* Strings and seeds.  What the shortener promises of one short URL for one *)
(* original needs generators that differ in seed to yield different         *)
(* strings, which is what time.Now().Unix() is there for.                   *)
Strings(seed) == {Stream[seed][k] : k \in DOMAIN Stream[seed]}
SeedsApart == \A a, b \in Seeds : a # b => Strings(a) \cap Strings(b) = {}

(* The generator of request r yields s.                                     *)
Yields(r, s) == /\ req[r] # None /\ req[r].kind # "read"
                /\ s \in Strings(req[r].seed)

(* Each new element has a string of its request's generator, and all of     *)
(* them are to be saved.                                                    *)
Drawn(r) ==
  /\ pc[r] = "idle" => req[r] = None
  /\ pc[r] \in {"idle", "scan", "check", "find"} => items[r] = << >>
  /\ pc[r] = "save" => todo[r] = NewItems(r)
  /\ \A i \in NewItems(r) : Yields(r, items[r][i].short)

(* Every row has a string of the generator of some request.                 *)
DrawnInv ==
  /\ TypeInv
  /\ \A r \in Requests : Drawn(r)
  /\ \A row \in table : \E q \in Requests : Yields(q, row.short)

(* Requests whose generators yield a common string have one seed.           *)
LEMMA OneSeed ==
  ASSUME SeedsApart, DrawnInv, NEW q \in Requests, NEW r \in Requests, NEW s,
         Yields(q, s), Yields(r, s)
  PROVE  req[q].seed = req[r].seed
<1>1. pc[q] # "idle" /\ pc[r] # "idle"
  BY DEF DrawnInv, Drawn, Yields
<1>2. req[q].seed \in Seeds /\ req[r].seed \in Seeds
  BY <1>1 DEF DrawnInv, TypeInv, Shape, InputOK, Yields
<1> QED BY <1>2 DEF SeedsApart, Yields

(* A step of request r keeps the invariant if it keeps r's part and adds    *)
(* only new elements of r to the table.                                     *)
LEMMA DrawnStep ==
  ASSUME DrawnInv, TypeInv', NEW r \in Requests, Drawn(r)',
         \A q \in Requests \ {r} : Still(q),
         req'[r] = req[r] \/ pc[r] = "idle",
         \A row \in table' : \/ \E old \in table : row.short = old.short
                             \/ \E i \in NewItems(r) : row.short = items[r][i].short
  PROVE  DrawnInv'
<1>1. ASSUME NEW q \in Requests, q # r
      PROVE  Drawn(q)'
  BY <1>1 DEF DrawnInv, Drawn, Still, Untouched, NewItems, Yields
<1>2. ASSUME NEW q \in Requests, NEW s, Yields(q, s)
      PROVE  Yields(q, s)'
  BY <1>2 DEF DrawnInv, Drawn, Still, Untouched, Yields
<1>3. ASSUME NEW row \in table'
      PROVE  \E q \in Requests : Yields(q, row.short)
  BY DEF DrawnInv, Drawn
<1> QED BY <1>1, <1>2, <1>3 DEF DrawnInv

(* An INSERT adds new elements of the request.                              *)
LEMMA InsertedRows ==
  ASSUME TypeInv, NEW r \in Requests, Inserts(r), todo[r] = NewItems(r)
  PROVE  /\ table \subseteq table'
         /\ \A row \in table' \ table : \E i \in NewItems(r) :
              row = NewRow(items[r][i], req[r].user)
         /\ \A i \in NewItems(r) : NewRow(items[r][i], req[r].user) \in table'
<1>1. table' = table \cup {NewRow(Unsaved(r)[i], req[r].user) : i \in DOMAIN Unsaved(r)}
  BY DEF Inserts, InsertRows, Insert
<1>2. DOMAIN Unsaved(r) = NewItems(r) /\ \A i \in NewItems(r) : Unsaved(r)[i] = items[r][i]
  BY UnsavedType
<1> QED BY <1>1, <1>2

(* Every step keeps the invariant: strings are drawn from the generator     *)
(* only, and rows are inserted from new elements only.                      *)
LEMMA DrawnNext ==
  ASSUME DrawnInv, TypeInv', [Next]_vars
  PROVE  DrawnInv'
<1>1. ASSUME NEW r \in Requests, Arrive(r) \/ Continue(r)
      PROVE  DrawnInv'
  <2>1. \A q \in Requests \ {r} : Still(q)
    BY <1>1, StillElsewhere DEF DrawnInv
  <2> USE DEF DrawnInv, TypeInv, TypeOK, Drawn
  <2>2. CASE Arrive(r)
    <3>1. /\ pc[r] = "idle" /\ table' = table /\ pc'[r] \in {"scan", "check"}
          /\ items' = items
      BY <2>2 DEF Arrive, CreateShortened, CreateShortenedFromBatch, StartCreation,
                  ReadOriginal, Go, storeVars
    <3>2. Drawn(r)'
      BY <3>1 DEF NewItems
    <3> QED BY <2>1, <3>1, <3>2, DrawnStep
  <2>3. CASE \E o \in Originals : Scan(r, o)
    <3>1. /\ pc[r] = "scan" /\ table' = table /\ pc'[r] \in {"scan", "choose"}
          /\ items' = items /\ req' = req
      BY <2>3 DEF Scan, Go, storeVars
    <3>2. Drawn(r)'
      BY <3>1 DEF NewItems
    <3> QED BY <2>1, <3>1, <3>2, DrawnStep
  <2>4. CASE CheckDeleted(r)
    <3>1. /\ pc[r] = "check" /\ table' = table /\ pc'[r] \in {"gone", "find"}
          /\ items' = items /\ req' = req
      BY <2>4 DEF CheckDeleted, Go, storeVars
    <3>2. Drawn(r)'
      BY <3>1 DEF NewItems
    <3> QED BY <2>1, <3>1, <3>2, DrawnStep
  <2>5. ASSUME NEW o \in Originals, Find(r, o)
        PROVE  DrawnInv'
    <3>1. /\ pc[r] = "find" /\ table' = table /\ req' = req
          /\ \/ pc'[r] = "found" /\ items'[r] = <<[orig |-> o, short |-> req[r].short,
                                                   new |-> FALSE]>>
             \/ pc'[r] \in {"unknown", "find"} /\ items'[r] = items[r]
      BY <2>5 DEF Find, Go, storeVars
    <3>2. NewItems(r)' = {}
      BY <3>1 DEF NewItems
    <3>3. Drawn(r)'
      BY <3>1, <3>2
    <3> QED BY <2>1, <3>1, <3>3, DrawnStep
  <2>6. CASE ChooseShort(r)
    <3>1. table' = table /\ req' = req /\ pc' = pc /\ pc[r] = "choose"
      BY <2>6 DEF ChooseShort, storeVars
    <3>2. PICK x \in Item :
            /\ ShortFor(r, x.orig, x.short) /\ (x.new <=> ~Reused(r, x.orig))
            /\ DOMAIN items'[r] = DOMAIN items[r] \cup {Len(items[r]) + 1}
            /\ items'[r][Len(items[r]) + 1] = x
            /\ \A i \in DOMAIN items[r] : items'[r][i] = items[r][i]
      BY <2>6, ChosenItem
    <3>3. x.new => Yields(r, x.short)
      <4>1. x.new => x.short \in Strings(req[r].seed)
        BY <3>2 DEF ShortFor, Strings
      <4>2. req[r] # None /\ req[r].kind # "read"
        BY <3>1, InputAssumption DEF Shape, Creating, InputOK
      <4> QED BY <4>1, <4>2 DEF Yields
    <3>4. \A i \in NewItems(r)' : Yields(r, items'[r][i].short)
      BY <3>2, <3>3 DEF NewItems
    <3>5. Drawn(r)'
      BY <3>1, <3>4 DEF Yields
    <3> QED BY <2>1, <3>1, <3>5, DrawnStep
  <2>7. CASE AllChosen(r)
    <3>1. /\ table' = table /\ req' = req /\ items' = items /\ todo'[r] = NewItems(r)
          /\ pc'[r] \in {"created", "save"}
      BY <2>7 DEF AllChosen, Answer, Go, storeVars
    <3>2. NewItems(r)' = NewItems(r)
      BY <3>1 DEF NewItems
    <3>3. Drawn(r)'
      BY <3>1, <3>2 DEF Yields
    <3> QED BY <2>1, <3>1, <3>3, DrawnStep
  <2>8. CASE Inserts(r)
    <3>1. /\ req' = req /\ items' = items /\ pc'[r] \in {"lock", "failed"}
          /\ todo[r] = NewItems(r)
      BY <2>8 DEF Inserts, localVars
    <3>2. NewItems(r)' = NewItems(r)
      BY <3>1 DEF NewItems
    <3>3. Drawn(r)'
      BY <3>1, <3>2 DEF Yields
    <3>4. \A row \in table' \ table : \E i \in NewItems(r) :
            row = NewRow(items[r][i], req[r].user)
      BY <2>8, <3>1, InsertedRows
    <3>5. \A i \in NewItems(r) : NewRow(items[r][i], req[r].user).short = items[r][i].short
      BY DEF NewRow
    <3>6. ASSUME NEW row \in table'
          PROVE  \/ \E old \in table : row.short = old.short
                 \/ \E i \in NewItems(r) : row.short = items[r][i].short
      <4>1. CASE row \in table
        BY <4>1
      <4>2. CASE row \notin table
        <5>1. PICK i \in NewItems(r) : row = NewRow(items[r][i], req[r].user)
          BY <3>4, <4>2
        <5>2. row.short = items[r][i].short
          BY <3>5, <5>1
        <5> QED BY <5>2
      <4> QED BY <4>1, <4>2
    <3> QED BY <2>1, <3>1, <3>3, <3>6, DrawnStep
  <2>9. CASE Proceeds(r)
    <3>1. NewItems(r)' = NewItems(r)
      BY <2>9 DEF NewItems, Proceeds
    <3>2. Drawn(r)'
      BY <2>9, <3>1 DEF Yields, Proceeds, Chosen
    <3>3. table' = table /\ req' = req
      BY <2>9 DEF Proceeds
    <3> QED BY <2>1, <3>2, <3>3, DrawnStep
  <2> HIDE DEF DrawnInv, TypeInv, TypeOK, Drawn
  <2>10. TypeInv
    BY DEF DrawnInv
  <2> QED BY <1>1, <2>2, <2>3, <2>4, <2>5, <2>6, <2>7, <2>8, <2>9, <2>10, InsertsOrProceeds
          DEF Continue
<1>2. CASE FlushDeletions
  <2>1. PICK pairs : table' = MarkDeleted(table, pairs)
    BY <1>2 DEF FlushDeletions
  <2>2. table \in SUBSET Row
    BY DEF DrawnInv, TypeInv, TypeOK
  <2>3. \A row \in table' : \E old \in table : row.short = old.short
    BY <2>1, <2>2, MarkedRow DEF MarkDeleted
  <2>4. UNCHANGED <<req, pc, items, todo>>
    BY <1>2 DEF FlushDeletions, localVars
  <2> QED BY <2>3, <2>4 DEF DrawnInv, Drawn, Yields, NewItems
<1>3. CASE Restart
  <2>1. UNCHANGED <<table, req, items, todo>>
    BY <1>3 DEF Restart, localVars
  <2>2. \A r \in Requests : pc'[r] = pc[r] \/ pc'[r] = "lost"
    BY <1>3 DEF Restart
  <2> QED BY <2>1, <2>2 DEF DrawnInv, Drawn, Yields, NewItems
<1>4. CASE UNCHANGED vars
  BY <1>4 DEF vars, DrawnInv, Drawn, Yields, NewItems
<1> QED BY <1>1, <1>2, <1>3, <1>4 DEF Next

(* Whatever the stores do, rows and new elements come from the generators.  *)
THEOREM StringsAreDrawn == Spec => []DrawnInv
<1>1. Init => DrawnInv
  <2> SUFFICES ASSUME Init PROVE DrawnInv
    OBVIOUS
  <2>1. \A r \in Requests : Drawn(r)
    BY DEF Init, Drawn, NewItems
  <2> QED BY <2>1, TypeInit DEF Init, DrawnInv
<1>2. DrawnInv /\ TypeInv' /\ [Next]_vars => DrawnInv'
  BY DrawnNext
<1> QED BY <1>1, <1>2, TypeCorrect, PTL DEF Spec

-----------------------------------------------------------------------------
(* A batch is saved as a whole or not at all, whatever fails.  What makes   *)
(* it inductive: until a batch is saved no row has a string of its          *)
(* generator, so whatever rows hold its pairs are its own.                  *)

(* A batch whose seed no other request had so far.                          *)
Alone(r) ==
  /\ req[r] # None /\ req[r].kind = "batch"
  /\ \A q \in Requests \ {r} : req[q] = None \/ req[q].seed # req[r].seed

(* The new elements whose pairs are in the table.                           *)
Kept(r) == {i \in NewItems(r) : Holds(table, items[r][i].orig, items[r][i].short)}

Unkept == {"scan", "choose", "save"}

Whole(r) ==
  Alone(r) =>
    /\ pc[r] \in Unkept => \A row \in table : ~Yields(r, row.short)
    /\ pc[r] \notin Unkept => Kept(r) \in {{}, NewItems(r)}

WholeInv == DrawnInv /\ \A r \in Requests : Whole(r)

(* While no row has a string of the generator, nothing of it is kept.       *)
LEMMA NothingKept ==
  ASSUME DrawnInv, NEW r \in Requests, \A row \in table : ~Yields(r, row.short)
  PROVE  Kept(r) = {}
<1> SUFFICES ASSUME NEW i \in Kept(r)
             PROVE  FALSE
  OBVIOUS
<1>1. i \in NewItems(r) /\ Holds(table, items[r][i].orig, items[r][i].short)
  BY DEF Kept
<1>2. Yields(r, items[r][i].short)
  BY <1>1 DEF DrawnInv, Drawn
<1> QED BY <1>1, <1>2 DEF Holds

(* A batch alone with its seed is not disturbed by another request, whose   *)
(* rows have other strings.                                                 *)
LEMMA WholeElsewhere ==
  ASSUME SeedsApart, WholeInv, NEW r \in Requests, NEW q \in Requests, q # r, Still(q),
         req'[r] = req[r] \/ req[r] = None,
         \A p \in Requests \ {r} : Still(p),
         table \subseteq table',
         \A row \in table' \ table : Yields(r, row.short)
  PROVE  Whole(q)'
<1> SUFFICES ASSUME Alone(q)'
             PROVE  /\ pc'[q] \in Unkept => \A row \in table' : ~Yields(q, row.short)'
                    /\ pc'[q] \notin Unkept => Kept(q)' \in {{}, NewItems(q)'}
  BY DEF Whole
<1>1. Alone(q)
  BY DEF Alone, Still, Untouched
<1>2. \A s : Yields(q, s)' <=> Yields(q, s)
  BY DEF Yields, Still, Untouched
<1>3. ASSUME NEW row \in table', row \notin table
      PROVE  ~Yields(q, row.short)
  <2>1. Yields(r, row.short)
    BY <1>3
  <2>2. req[r] # None /\ req[r].seed # req[q].seed
    BY <1>1, <2>1 DEF Alone, Yields
  <2>3. DrawnInv
    BY DEF WholeInv
  <2> QED BY <2>1, <2>2, <2>3, OneSeed
<1>4. CASE pc[q] \in Unkept
  BY <1>1, <1>2, <1>3, <1>4 DEF WholeInv, Whole, Still, Untouched
<1>5. CASE pc[q] \notin Unkept
  <2>1. NewItems(q)' = NewItems(q) /\ items'[q] = items[q]
    BY DEF NewItems, Still, Untouched
  <2>2. ASSUME NEW i \in NewItems(q)
        PROVE  Holds(table', items[q][i].orig, items[q][i].short)
                 <=> Holds(table, items[q][i].orig, items[q][i].short)
    <3>1. Yields(q, items[q][i].short)
      BY DEF WholeInv, DrawnInv, Drawn
    <3> QED BY <1>3, <3>1 DEF Holds
  <2>3. Kept(q)' = Kept(q)
    BY <2>1, <2>2 DEF Kept
  <2> QED BY <1>1, <1>5, <2>1, <2>3 DEF WholeInv, Whole, Still, Untouched
<1> QED BY <1>4, <1>5

(* A request of another kind is no batch.                                   *)
LEMMA NotAlone ==
  ASSUME NEW r \in Requests, req[r].kind # "batch"
  PROVE  Whole(r)
  BY DEF Whole, Alone

(* The arrival of a batch: the rows are of other requests, so of other      *)
(* seeds.                                                                   *)
LEMMA WholeArrives ==
  ASSUME SeedsApart, WholeInv, DrawnInv', NEW r \in Requests, Arrive(r)
  PROVE  Whole(r)'
<1>1. pc[r] = "idle" /\ pc'[r] \in {"scan", "check"} /\ table' = table /\ items' = items
  BY DEF WholeInv, DrawnInv, TypeInv, TypeOK, Arrive, CreateShortened,
         CreateShortenedFromBatch, StartCreation, ReadOriginal, Go, storeVars
<1>2. req[r] = None
  BY <1>1 DEF WholeInv, DrawnInv, Drawn
<1>3. CASE pc'[r] = "check"
  <2>1. req'[r].kind = "read"
    BY <1>3 DEF DrawnInv, TypeInv, Shape
  <2> QED BY <2>1 DEF Whole, Alone
<1>4. CASE pc'[r] = "scan"
  <2> SUFFICES ASSUME Alone(r)', NEW row \in table', Yields(r, row.short)'
               PROVE  FALSE
    BY <1>4 DEF Whole, Unkept
  <2>1. PICK q \in Requests : Yields(q, row.short)
    BY <1>1 DEF WholeInv, DrawnInv
  <2>2. q # r
    BY <1>2, <2>1 DEF Yields
  <2>3. Still(q)
    BY <2>2, StillElsewhere DEF WholeInv, DrawnInv
  <2>4. Yields(q, row.short)'
    BY <2>1, <2>3 DEF Yields, Still, Untouched
  <2>5. req'[q] # None /\ req'[r] # None /\ req'[q].seed # req'[r].seed
    BY <2>2, <2>4 DEF Alone, Yields
  <2>6. /\ req'[q].seed \in Seeds /\ req'[r].seed \in Seeds
    <3>1. pc'[q] # "idle"
      BY <2>4 DEF DrawnInv, Drawn, Yields
    <3> QED BY <1>4, <2>4, <3>1 DEF DrawnInv, TypeInv, Shape, InputOK, Yields
  <2> QED BY <2>4, <2>5, <2>6 DEF SeedsApart, Yields
<1> QED BY <1>1, <1>3, <1>4

(* The steps of a request under way keep its own part.                      *)
LEMMA WholeContinues ==
  ASSUME WholeInv, DrawnInv', NEW r \in Requests, Continue(r)
  PROVE  Whole(r)'
<1> USE DEF WholeInv, DrawnInv, TypeInv, TypeOK
<1>1. CASE \E o \in Originals : Scan(r, o)
  <2>1. /\ pc[r] = "scan" /\ pc'[r] \in {"scan", "choose"}
        /\ UNCHANGED <<table, req, items>>
    BY <1>1 DEF Scan, Go, storeVars
  <2> QED BY <2>1 DEF Whole, Alone, Unkept, Yields
<1>2. CASE CheckDeleted(r) \/ \E o \in Originals : Find(r, o)
  <2>1. req' = req /\ pc[r] \in {"check", "find"}
    BY <1>2 DEF CheckDeleted, Find
  <2>2. req'[r].kind = "read"
    BY <2>1 DEF Shape
  <2> QED BY <2>2 DEF Whole, Alone
<1>3. CASE ChooseShort(r)
  <2>1. UNCHANGED <<table, req, pc>> /\ pc[r] = "choose"
    BY <1>3 DEF ChooseShort, storeVars
  <2> QED BY <2>1 DEF Whole, Alone, Unkept, Yields
<1>4. CASE AllChosen(r)
  <2>1. /\ UNCHANGED <<table, req, items>> /\ pc[r] = "choose"
        /\ \/ pc'[r] = "created" /\ NewItems(r) = {}
           \/ pc'[r] = "save"
    BY <1>4 DEF AllChosen, Answer, Go, storeVars
  <2>2. Kept(r)' = Kept(r) /\ NewItems(r)' = NewItems(r)
    BY <2>1 DEF Kept, NewItems
  <2> QED BY <2>1, <2>2 DEF Whole, Alone, Unkept, Yields, Kept
<1>5. CASE Inserts(r)
  <2>1. UNCHANGED <<req, items>> /\ pc'[r] \notin Unkept /\ todo[r] = NewItems(r)
    BY <1>5 DEF Inserts, localVars, Unkept, Drawn
  <2>2. NewItems(r)' = NewItems(r)
    BY <2>1 DEF NewItems
  <2>3. ASSUME NEW i \in NewItems(r)
        PROVE  Holds(table', items[r][i].orig, items[r][i].short)
    <3>1. NewRow(items[r][i], req[r].user) \in table'
      BY <1>5, <2>1, InsertedRows
    <3>2. /\ NewRow(items[r][i], req[r].user).orig = items[r][i].orig
          /\ NewRow(items[r][i], req[r].user).short = items[r][i].short
      BY DEF NewRow
    <3> QED BY <3>1, <3>2 DEF Holds
  <2>4. Kept(r)' = NewItems(r)'
    BY <2>1, <2>2, <2>3 DEF Kept
  <2> QED BY <2>1, <2>4 DEF Whole
<1>6. CASE Proceeds(r)
  <2>1. UNCHANGED <<table, req, items>> /\ pc'[r] \notin Unkept
    BY <1>6 DEF Proceeds, Unkept, Chosen
  <2>2. Kept(r)' = Kept(r) /\ NewItems(r)' = NewItems(r) /\ Alone(r)' = Alone(r)
    BY <2>1 DEF Kept, NewItems, Alone
  <2>3. CASE pc[r] \in Unkept
    BY <2>1, <2>2, <2>3, NothingKept DEF Whole
  <2>4. CASE pc[r] \notin Unkept
    BY <2>1, <2>2, <2>4 DEF Whole
  <2> QED BY <2>3, <2>4
<1> HIDE DEF WholeInv, DrawnInv, TypeInv, TypeOK
<1>7. TypeInv
  BY DEF WholeInv, DrawnInv
<1> QED BY <1>1, <1>2, <1>3, <1>4, <1>5, <1>6, <1>7, InsertsOrProceeds DEF Continue

(* What a step of one request does to the table and to its input.           *)
LEMMA TableStep ==
  ASSUME DrawnInv, NEW r \in Requests, Arrive(r) \/ Continue(r)
  PROVE  /\ req'[r] = req[r] \/ req[r] = None
         /\ table \subseteq table'
         /\ \A row \in table' \ table : Yields(r, row.short) /\ pc[r] = "save"
<1>1. CASE Arrive(r)
  BY <1>1 DEF DrawnInv, Drawn, Arrive, CreateShortened, CreateShortenedFromBatch,
              StartCreation, ReadOriginal, storeVars
<1>2. CASE \/ \E o \in Originals : Scan(r, o) \/ Find(r, o)
           \/ ChooseShort(r) \/ AllChosen(r) \/ CheckDeleted(r)
  BY <1>2 DEF Scan, Find, ChooseShort, AllChosen, CheckDeleted, storeVars
<1>3. CASE Proceeds(r)
  BY <1>3 DEF Proceeds
<1>4. CASE Inserts(r)
  <2>1. req' = req /\ todo[r] = NewItems(r)
    BY <1>4 DEF Inserts, localVars, DrawnInv, Drawn
  <2>2. TypeInv
    BY DEF DrawnInv
  <2>3. ASSUME NEW row \in table', row \notin table
        PROVE  Yields(r, row.short) /\ pc[r] = "save"
    <3>1. PICK i \in NewItems(r) : row = NewRow(items[r][i], req[r].user)
      BY <1>4, <2>1, <2>2, <2>3, InsertedRows
    <3>2. row.short = items[r][i].short
      BY <3>1 DEF NewRow
    <3> QED BY <1>4, <3>2 DEF DrawnInv, Drawn, Inserts
  <2> QED BY <1>4, <2>1, <2>2, <2>3, InsertedRows
<1>5. TypeInv
  BY DEF DrawnInv
<1> QED BY <1>1, <1>2, <1>3, <1>4, <1>5, InsertsOrProceeds DEF Continue

(* Every step keeps the invariant.                                          *)
LEMMA WholeNext ==
  ASSUME SeedsApart, WholeInv, DrawnInv', [Next]_vars
  PROVE  WholeInv'
<1>1. ASSUME NEW r \in Requests, Arrive(r) \/ Continue(r)
      PROVE  WholeInv'
  <2>1. DrawnInv /\ TypeInv
    BY DEF WholeInv, DrawnInv
  <2>2. \A q \in Requests \ {r} : Still(q)
    BY <1>1, <2>1, StillElsewhere
  <2>3. Whole(r)'
    BY <1>1, WholeArrives, WholeContinues
  <2>4. /\ req'[r] = req[r] \/ req[r] = None
        /\ table \subseteq table'
        /\ \A row \in table' \ table : Yields(r, row.short)
    BY <1>1, <2>1, TableStep
  <2>5. ASSUME NEW q \in Requests, q # r
        PROVE  Whole(q)'
    BY <2>2, <2>4, <2>5, WholeElsewhere
  <2> QED BY <2>3, <2>5 DEF WholeInv
<1>2. CASE FlushDeletions
  <2>1. PICK pairs : table' = MarkDeleted(table, pairs)
    BY <1>2 DEF FlushDeletions
  <2>2. table \in SUBSET Row
    BY DEF WholeInv, DrawnInv, TypeInv, TypeOK
  <2>3. \A o, s : Holds(table', o, s) <=> Holds(table, o, s)
    BY <2>1, <2>2, MarkHolds
  <2>4. \A row \in table' : \E old \in table : row.short = old.short
    BY <2>1, <2>2, MarkedRow DEF MarkDeleted
  <2>5. UNCHANGED <<req, pc, items>>
    BY <1>2 DEF FlushDeletions, localVars
  <2>6. ASSUME NEW r \in Requests
        PROVE  Whole(r)'
    <3>1. NewItems(r)' = NewItems(r) /\ Kept(r)' = Kept(r)
      BY <2>3, <2>5 DEF NewItems, Kept
    <3> QED BY <2>4, <2>5, <3>1 DEF WholeInv, Whole, Alone, Yields
  <2> QED BY <2>6 DEF WholeInv
<1>3. CASE Restart
  <2>1. UNCHANGED <<table, req, items>>
    BY <1>3 DEF Restart, localVars
  <2>2. ASSUME NEW r \in Requests
        PROVE  Whole(r)'
    <3>1. /\ NewItems(r)' = NewItems(r) /\ Kept(r)' = Kept(r) /\ Alone(r)' = Alone(r)
          /\ \A s : Yields(r, s)' = Yields(r, s)
      BY <2>1 DEF NewItems, Kept, Alone, Yields
    <3>2. CASE pc'[r] = pc[r]
      BY <2>1, <3>1, <3>2 DEF WholeInv, Whole
    <3>3. CASE pc'[r] = "lost" /\ pc[r] \in Unkept
      BY <3>1, <3>3, NothingKept DEF WholeInv, Whole, Unkept
    <3>4. CASE pc'[r] = "lost" /\ pc[r] \notin Unkept
      BY <3>1, <3>4 DEF WholeInv, Whole, Unkept
    <3>5. pc'[r] = pc[r] \/ pc'[r] = "lost"
      BY <1>3 DEF Restart
    <3> QED BY <3>2, <3>3, <3>4, <3>5
  <2> QED BY <2>2 DEF WholeInv
<1>4. CASE UNCHANGED vars
  BY <1>4 DEF vars, WholeInv, Whole, Alone, Kept, NewItems, Yields
<1> QED BY <1>1, <1>2, <1>3, <1>4 DEF Next

(* A batch with a seed of its own is in the table as a whole or not at all, *)
(* through failed and unacknowledged commits, fallbacks to the file and     *)
(* restarts.                                                                *)
THEOREM BatchesAreWhole == ASSUME SeedsApart PROVE Spec => []BatchAllOrNothing
<1>1. Init /\ DrawnInv => WholeInv
  <2> SUFFICES ASSUME Init, DrawnInv PROVE WholeInv
    OBVIOUS
  <2> QED BY DEF Init, WholeInv, Whole, Alone
<1>2. WholeInv /\ DrawnInv' /\ [Next]_vars => WholeInv'
  BY SeedsApart, WholeNext
<1>3. WholeInv => BatchAllOrNothing
  <2> SUFFICES ASSUME WholeInv, NEW r \in Requests, Alone(r), pc[r] \in Answers
               PROVE  Kept(r) \in {{}, NewItems(r)}
    BY DEF BatchAllOrNothing, Alone, Kept
  <2> QED BY DEF WholeInv, Whole, Unkept, Answers
<1> QED BY <1>1, <1>2, <1>3, StringsAreDrawn, PTL DEF Spec

-----------------------------------------------------------------------------
(* One short URL stands for one original.  A request draws what it did not  *)
(* see in the map, but the map is read entry by entry, lags behind the      *)
(* table, and is not looked at again before the INSERT.  The table cannot   *)
(* hold what the request draws even so: a row with a string of its          *)
(* generator is in the map already, or its creator is in flight, with       *)
(* another seed.                                                            *)
SeedsInUse == SharedSeeds = FALSE /\ SeedsApart

(* Request q has saved the row and has still to publish it.                 *)
Publishing(q, row) ==
  /\ pc[q] \in {"lock", "publish"}
  /\ \E i \in todo[q] : /\ items[q][i].new
                        /\ items[q][i].orig = row.orig /\ items[q][i].short = row.short

Listed(row) == mem[row.orig] # None \/ \E q \in Requests : Publishing(q, row)

(* What a request has seen of the rows with strings of its generator, and   *)
(* that what it chose is none of them until it is saved.                    *)
Fresh(r) ==
  /\ pc[r] = "choose" => unseen[r] = {}
  /\ pc[r] \in {"scan", "choose"} =>
       \A row \in table :
         Yields(r, row.short) => row.orig \in unseen[r] \/ row.short \in taken[r]
  /\ pc[r] = "choose" => \A i \in NewItems(r) : items[r][i].short \in taken[r]
  /\ \A i, j \in NewItems(r) : items[r][i].short = items[r][j].short => i = j
  /\ pc[r] \in {"choose", "save"} =>
       \A i \in NewItems(r) : \A row \in table : row.short # items[r][i].short

(* No two creations in flight have one seed.                                *)
SeedEach ==
  \A q, r \in Requests :
    q # r /\ pc[q] \in Creating /\ pc[r] \in Creating => req[q].seed # req[r].seed

FreshInv ==
  /\ PgInv /\ DrawnInv
  /\ SeedEach
  /\ \A row \in table : Listed(row)
  /\ \A r \in Requests : Fresh(r)
  /\ ShortsDistinct

(* What the map shows for the original of a row is that row's short URL.    *)
LEMMA MapShowsRow ==
  ASSUME PgInv, NEW row \in table, mem[row.orig] # None
  PROVE  mem[row.orig] = row.short
  BY DEF PgInv, TypeInv, TypeOK, MemBacked, Row, Holds, UniqueKeys

(* A request that arrives takes a seed no other has; one that goes on keeps *)
(* the one it has.                                                          *)
LEMMA SeedEachKept ==
  ASSUME SeedsInUse, DrawnInv, SeedEach, NEW r \in Requests, Arrive(r) \/ Continue(r)
  PROVE  SeedEach'
<1> USE DEF DrawnInv, TypeInv, TypeOK
<1>1. \A q \in Requests \ {r} : Untouched(q)
  BY StillElsewhere DEF Still
<1>2. CASE Arrive(r)
  <2>1. pc'[r] \in Creating =>
          \A q \in Requests \ {r} : Busy(q) => req[q].seed # req'[r].seed
    <3>1. CASE ReadOriginal(r)
      BY <3>1 DEF ReadOriginal, Go, Creating
    <3>2. ASSUME NEW kind, NEW origs, StartCreation(r, kind, origs)
          PROVE  \A q \in Requests \ {r} : Busy(q) => req[q].seed # req'[r].seed
      BY <3>2 DEF StartCreation, SeedFor, SeedsInUse, Creation
    <3> QED BY <1>2, <3>1, <3>2 DEF Arrive, CreateShortened, CreateShortenedFromBatch
  <2>2. \A q \in Requests : pc[q] \in Creating => Busy(q)
    BY DEF Busy, Creating, Answers
  <2> QED BY <1>1, <2>1, <2>2 DEF SeedEach, Untouched
<1>3. CASE Continue(r)
  <2>1. req' = req /\ (pc'[r] \in Creating => pc[r] \in Creating)
    <3>1. CASE \E o \in Originals : Scan(r, o) \/ Find(r, o)
      BY <3>1 DEF Scan, Find, Go, Creating
    <3>2. CASE ChooseShort(r) \/ AllChosen(r) \/ CheckDeleted(r)
      BY <3>2 DEF ChooseShort, AllChosen, CheckDeleted, Answer, Go, Creating
    <3>3. CASE Inserts(r) \/ Proceeds(r)
      BY <3>3 DEF Inserts, Proceeds, localVars, Chosen, Creating
    <3> QED BY <1>3, <3>1, <3>2, <3>3, InsertsOrProceeds DEF Continue
  <2> QED BY <1>1, <2>1 DEF SeedEach, Untouched
<1> QED BY <1>2, <1>3

(* Rows of another request have other strings.                              *)
LEMMA OthersRows ==
  ASSUME SeedsApart, FreshInv, NEW q \in Requests, NEW r \in Requests, q # r,
         pc[q] \in Creating, pc[r] \in Creating, NEW s, Yields(r, s)
  PROVE  ~Yields(q, s)
<1>1. req[q].seed # req[r].seed
  BY DEF FreshInv, SeedEach
<1> QED BY <1>1, OneSeed DEF FreshInv

(* What a request has seen and chosen is not disturbed by another one.      *)
LEMMA FreshElsewhere ==
  ASSUME SeedsApart, FreshInv, NEW r \in Requests, NEW q \in Requests, q # r, Still(q),
         \A row \in table' \ table : Yields(r, row.short) /\ pc[r] = "save"
  PROVE  Fresh(q)'
<1>1. NewItems(q)' = NewItems(q) /\ items'[q] = items[q] /\ pc'[q] = pc[q]
  BY DEF NewItems, Still, Untouched
<1>2. \A s : Yields(q, s)' <=> Yields(q, s)
  BY DEF Yields, Still, Untouched
<1>3. ASSUME NEW row \in table', row \notin table, pc[q] \in Creating
      PROVE  ~Yields(q, row.short)
  <2>1. Yields(r, row.short) /\ pc[r] \in Creating
    BY <1>3 DEF Creating
  <2> QED BY <1>3, <2>1, OthersRows
<1>4. \A i \in NewItems(q) : Yields(q, items[q][i].short)
  BY DEF FreshInv, DrawnInv, Drawn
<1>5. Fresh(q)
  BY DEF FreshInv
<1>6. pc'[q] = "choose" => unseen'[q] = {}
  BY <1>1, <1>5 DEF Fresh, Still
<1>7. ASSUME pc'[q] \in {"scan", "choose"}, NEW row \in table', Yields(q, row.short)'
      PROVE  row.orig \in unseen'[q] \/ row.short \in taken'[q]
  <2>1. row \in table
    BY <1>1, <1>2, <1>3, <1>7 DEF Creating
  <2> QED BY <1>1, <1>2, <1>5, <1>7, <2>1 DEF Fresh, Still
<1>8. pc'[q] = "choose" => \A i \in NewItems(q)' : items'[q][i].short \in taken'[q]
  BY <1>1, <1>5 DEF Fresh, Still
<1>9. ASSUME pc'[q] \in {"choose", "save"}, NEW i \in NewItems(q), NEW row \in table',
             row.short = items[q][i].short
      PROVE  FALSE
  <2>1. row \in table
    BY <1>1, <1>3, <1>4, <1>9 DEF Creating
  <2> QED BY <1>1, <1>5, <1>9, <2>1 DEF Fresh
<1>10. \A i, j \in NewItems(q)' : items'[q][i].short = items'[q][j].short => i = j
  BY <1>1, <1>5 DEF Fresh
<1> QED BY <1>1, <1>6, <1>7, <1>8, <1>9, <1>10 DEF Fresh

(* Arriving and scanning: an entry that has been seen is taken if it is one *)
(* of the generator's, and an entry still missing is another request's.     *)
LEMMA FreshScan ==
  ASSUME SeedsApart, FreshInv, DrawnInv', NEW r \in Requests,
         Arrive(r) \/ \E o \in Originals : Scan(r, o)
  PROVE  Fresh(r)'
<1> USE DEF FreshInv, DrawnInv, TypeInv, TypeOK
<1>1. CASE Arrive(r)
  <2>1. /\ pc'[r] \in {"scan", "check"} /\ table' = table
        /\ pc'[r] = "scan" => unseen'[r] = Originals
    BY <1>1 DEF Arrive, CreateShortened, CreateShortenedFromBatch, StartCreation,
                ReadOriginal, Go, storeVars
  <2>2. NewItems(r)' = {}
    BY <2>1 DEF Drawn, NewItems
  <2>3. \A row \in table : row.orig \in Originals
    BY DEF Row
  <2> QED BY <2>1, <2>2, <2>3 DEF Fresh
<1>2. ASSUME NEW o \in Originals, Scan(r, o)
      PROVE  Fresh(r)'
  <2>1. /\ pc[r] = "scan" /\ pc'[r] \in {"scan", "choose"}
        /\ pc'[r] = "choose" => unseen'[r] = {}
        /\ unseen'[r] = unseen[r] \ {o}
        /\ taken'[r] = taken[r] \cup ({mem[o]} \ {None})
        /\ UNCHANGED <<table, req, items>>
    BY <1>2 DEF Scan, Go, storeVars
  <2>2. NewItems(r)' = {}
    BY <2>1 DEF Drawn, NewItems
  <2>3. ASSUME NEW row \in table, Yields(r, row.short), row.orig = o
        PROVE  row.short \in taken'[r]
    <3>1. ASSUME NEW q \in Requests, Publishing(q, row)
          PROVE  FALSE
      <4>1. Yields(q, row.short)
        BY <3>1 DEF Publishing, Drawn, NewItems, Shape
      <4>2. q # r /\ pc[q] \in Creating /\ pc[r] \in Creating
        BY <2>1, <3>1 DEF Publishing, Creating
      <4> QED BY <2>3, <4>1, <4>2, OthersRows
    <3>2. mem[row.orig] # None
      BY <3>1 DEF Listed
    <3>3. mem[o] = row.short
      BY <2>3, <3>2, MapShowsRow
    <3> QED BY <2>1, <2>3, <3>2, <3>3
  <2>4. ASSUME NEW row \in table, Yields(r, row.short)
        PROVE  row.orig \in unseen'[r] \/ row.short \in taken'[r]
    BY <2>1, <2>3, <2>4 DEF Fresh
  <2>5. \A s : Yields(r, s)' <=> Yields(r, s)
    BY <2>1 DEF Yields
  <2> QED BY <2>1, <2>2, <2>4, <2>5 DEF Fresh
<1> QED BY <1>1, <1>2

(* Choosing: what is drawn is not taken, so it is neither a row's nor an    *)
(* earlier element's.                                                       *)
LEMMA FreshChoose ==
  ASSUME FreshInv, DrawnInv', NEW r \in Requests, ChooseShort(r)
  PROVE  Fresh(r)'
<1>1. UNCHANGED <<table, req, pc, unseen>> /\ pc[r] = "choose"
  BY DEF ChooseShort, storeVars
<1>2. TypeInv /\ Fresh(r)
  BY DEF FreshInv, PgInv
<1> DEFINE n == Len(items[r]) + 1
<1>3. PICK x \in Item :
        /\ ShortFor(r, x.orig, x.short) /\ (x.new <=> ~Reused(r, x.orig))
        /\ DOMAIN items'[r] = DOMAIN items[r] \cup {n}
        /\ items'[r][n] = x
        /\ \A i \in DOMAIN items[r] : items'[r][i] = items[r][i]
        /\ n \notin DOMAIN items[r]
        /\ taken'[r] = IF x.new THEN taken[r] \cup {x.short} ELSE taken[r]
  BY <1>2, ChosenItem
<1> HIDE DEF n
<1>4. NewItems(r)' = NewItems(r) \cup (IF x.new THEN {n} ELSE {})
  BY <1>3 DEF NewItems
<1>5. \A i \in NewItems(r) : i \in DOMAIN items[r] /\ items'[r][i] = items[r][i]
  BY <1>3 DEF NewItems
<1>6. ASSUME x.new
      PROVE  /\ x.short \notin taken[r]
             /\ \A row \in table : row.short # x.short
  <2>1. x.short \notin taken[r]
    BY <1>3, <1>6 DEF ShortFor
  <2>2. Yields(r, x.short)
    <3>1. n \in NewItems(r)'
      BY <1>4, <1>6
    <3>2. Yields(r, x.short)'
      BY <1>3, <3>1 DEF DrawnInv, Drawn
    <3> QED BY <1>1, <3>2 DEF Yields
  <2> QED BY <1>1, <1>2, <2>1, <2>2 DEF Fresh
<1>7. \A s : Yields(r, s)' <=> Yields(r, s)
  BY <1>1 DEF Yields
<1>8. \A i \in NewItems(r)' : items'[r][i].short \in taken'[r]
  BY <1>1, <1>2, <1>3, <1>4, <1>5 DEF Fresh
<1>9. ASSUME NEW i \in NewItems(r)', NEW j \in NewItems(r)',
             items'[r][i].short = items'[r][j].short
      PROVE  i = j
  <2>1. \A k \in NewItems(r) : items[r][k].short \in taken[r]
    BY <1>1, <1>2 DEF Fresh
  <2>2. CASE i \in NewItems(r) /\ j \in NewItems(r)
    BY <1>2, <1>5, <1>9, <2>2 DEF Fresh
  <2>3. CASE i \notin NewItems(r) \/ j \notin NewItems(r)
    BY <1>3, <1>4, <1>5, <1>6, <1>9, <2>1, <2>3
  <2> QED BY <2>2, <2>3
<1>10. ASSUME NEW i \in NewItems(r)', NEW row \in table
       PROVE  row.short # items'[r][i].short
  <2>1. CASE i \in NewItems(r)
    BY <1>1, <1>2, <1>5, <2>1 DEF Fresh
  <2>2. CASE i \notin NewItems(r)
    BY <1>3, <1>4, <1>6, <2>2
  <2> QED BY <2>1, <2>2
<1>11. ASSUME NEW row \in table, Yields(r, row.short)
       PROVE  row.orig \in unseen'[r] \/ row.short \in taken'[r]
  BY <1>1, <1>2, <1>3, <1>11 DEF Fresh
<1>12. unseen'[r] = {}
  BY <1>1, <1>2 DEF Fresh
<1> QED BY <1>1, <1>7, <1>8, <1>9, <1>10, <1>11, <1>12 DEF Fresh

(* From the choice on, the elements stay what they are, and from the save   *)
(* on nothing is asked of them but to be distinct.                          *)
LEMMA FreshLater ==
  ASSUME FreshInv, NEW r \in Requests,
         \/ AllChosen(r) \/ Inserts(r) \/ Proceeds(r)
         \/ CheckDeleted(r) \/ \E o \in Originals : Find(r, o)
  PROVE  Fresh(r)'
<1> USE DEF FreshInv, DrawnInv, TypeInv, TypeOK
<1>1. CASE AllChosen(r)
  <2>1. UNCHANGED <<table, req, items>> /\ pc[r] = "choose" /\ pc'[r] \in {"created", "save"}
    BY <1>1 DEF AllChosen, Answer, Go, storeVars
  <2>2. NewItems(r)' = NewItems(r)
    BY <2>1 DEF NewItems
  <2> QED BY <2>1, <2>2 DEF Fresh
<1>2. CASE Inserts(r) \/ Proceeds(r)
  <2>1. UNCHANGED <<req, items>> /\ pc'[r] \notin {"scan", "choose", "save"}
    BY <1>2 DEF Inserts, Proceeds, localVars, Chosen
  <2>2. NewItems(r)' = NewItems(r)
    BY <2>1 DEF NewItems
  <2> QED BY <2>1, <2>2 DEF Fresh
<1>3. CASE CheckDeleted(r)
  <2>1. items' = items /\ pc[r] = "check" /\ pc'[r] \in {"gone", "find"}
    BY <1>3 DEF CheckDeleted, Go
  <2>2. NewItems(r)' = NewItems(r)
    BY <2>1 DEF NewItems
  <2> QED BY <2>1, <2>2 DEF Fresh
<1>4. ASSUME NEW o \in Originals, Find(r, o)
      PROVE  Fresh(r)'
  <2>1. /\ pc[r] = "find" /\ pc'[r] \in {"found", "find", "unknown"}
        /\ \/ items'[r] = items[r]
           \/ items'[r] = <<[orig |-> o, short |-> req[r].short, new |-> FALSE]>>
    BY <1>4 DEF Find, Go
  <2>2. NewItems(r)' = {}
    BY <2>1 DEF Drawn, NewItems
  <2> QED BY <2>1, <2>2 DEF Fresh
<1> QED BY <1>1, <1>2, <1>3, <1>4

(* A row stays listed under a step of request r that publishes what it      *)
(* takes off its list.                                                      *)
LEMMA ListedStep ==
  ASSUME NEW r \in Requests, \A q \in Requests \ {r} : Still(q), NEW row,
         Listed(row), mem[row.orig] # None => mem'[row.orig] # None,
         Publishing(r, row) => mem'[row.orig] # None \/ Publishing(r, row)'
  PROVE  Listed(row)'
<1>1. ASSUME NEW q \in Requests, q # r, Publishing(q, row)
      PROVE  Publishing(q, row)'
  BY <1>1 DEF Publishing, Still, Untouched
<1> QED BY <1>1 DEF Listed

(* Steps that neither insert nor publish.                                   *)
LEMMA ListedElse ==
  ASSUME FreshInv, NEW r \in Requests,
         \/ Arrive(r) \/ \E o \in Originals : Scan(r, o) \/ Find(r, o)
         \/ ChooseShort(r) \/ AllChosen(r) \/ CheckDeleted(r)
         \/ CreateConflict(r) \/ CreateBatchRejected(r) \/ Lock(r)
  PROVE  table' = table /\ \A row \in table : Listed(row)'
<1>1. \A q \in Requests \ {r} : Still(q)
  BY StillElsewhere DEF FreshInv, PgInv, Continue
<1> USE DEF FreshInv, PgInv, TypeInv, TypeOK, Go, storeVars, mapVars
<1>2. UNCHANGED <<table, mem>>
  BY DEF Arrive, CreateShortened, CreateShortenedFromBatch, StartCreation, ReadOriginal,
         Scan, Find, ChooseShort, AllChosen, CheckDeleted, CreateConflict,
         CreateBatchRejected, Lock
<1>3. CASE Lock(r)
  <2>1. \A row \in table : Publishing(r, row) => Publishing(r, row)'
    BY <1>3 DEF Lock, localVars, Publishing
  <2> QED BY <1>1, <1>2, <2>1, ListedStep
<1>4. CASE ~Lock(r)
  <2>1. pc[r] \notin {"lock", "publish"}
    BY <1>4 DEF Arrive, CreateShortened, CreateShortenedFromBatch, StartCreation,
         ReadOriginal, Scan, Find, ChooseShort, AllChosen, CheckDeleted, CreateConflict,
         CreateBatchRejected, SavingToPg
  <2>2. \A row \in table : ~Publishing(r, row)
    BY <2>1 DEF Publishing
  <2> QED BY <1>1, <1>2, <2>2, ListedStep
<1> QED BY <1>3, <1>4

(* An INSERT: its rows are the new elements, still to be published.         *)
LEMMA ListedInserts ==
  ASSUME PgOnly, FreshInv, NEW r \in Requests, Continue(r), Inserts(r)
  PROVE  \A row \in table' : Listed(row)'
<1>1. \A q \in Requests \ {r} : Still(q)
  BY StillElsewhere DEF FreshInv, PgInv
<1>2. /\ mem' = mem /\ pc[r] = "save" /\ pc'[r] = "lock"
      /\ items' = items /\ todo' = todo /\ todo[r] = NewItems(r)
  BY DEF PgOnly, Inserts, mapVars, localVars, FreshInv, DrawnInv, Drawn
<1>3. ASSUME NEW row \in table
      PROVE  Listed(row)'
  <2>1. ~Publishing(r, row)
    BY <1>2 DEF Publishing
  <2>2. Listed(row)
    BY DEF FreshInv
  <2> QED BY <1>1, <1>2, <2>1, <2>2, ListedStep
<1>4. ASSUME NEW row \in table', row \notin table
      PROVE  Listed(row)'
  <2>1. PICK i \in NewItems(r) : row = NewRow(items[r][i], req[r].user)
    BY <1>2, <1>4, InsertedRows DEF FreshInv, PgInv
  <2>2. row.orig = items[r][i].orig /\ row.short = items[r][i].short
    BY <2>1 DEF NewRow
  <2>3. Publishing(r, row)'
    BY <1>2, <2>2 DEF Publishing, NewItems
  <2> QED BY <2>3 DEF Listed
<1> QED BY <1>3, <1>4

(* Publishing: what is taken off the list has got its entry.                *)
LEMMA ListedPublish ==
  ASSUME FreshInv, NEW r \in Requests, PublishOne(r) \/ PublishBatch(r)
  PROVE  table' = table /\ \A row \in table : Listed(row)'
<1>1. TypeInv /\ items[r] \in Seq(Item) /\ todo[r] \subseteq DOMAIN items[r]
  BY DEF FreshInv, PgInv, TypeInv, TypeOK, Shape
<1>2. \A q \in Requests \ {r} : Still(q)
  BY <1>1, StillElsewhere DEF Continue
<1>3. \A i \in DOMAIN items[r] : /\ items[r][i].orig \in Originals
                                 /\ items[r][i].short # None
  <2>1. \A i \in DOMAIN items[r] : items[r][i] \in Item
    BY <1>1
  <2> QED BY <2>1, StorageAssumption DEF Item, ShortValues
<1>4. mem \in Map
  BY <1>1 DEF TypeInv, TypeOK
<1>5. table' = table
  BY DEF PublishOne, PublishBatch, storeVars
<1> SUFFICES ASSUME NEW row \in table
             PROVE  Listed(row)'
  BY <1>5
<1>6. Listed(row) /\ row.orig \in Originals
  BY DEF FreshInv, PgInv, TypeInv, TypeOK, Row
<1>7. CASE PublishOne(r)
  <2>1. 1 \in DOMAIN items[r] /\ DOMAIN items[r] = {1}
    BY <1>1, <1>7 DEF PublishOne, TypeInv, Shape, Chosen, InputOK
  <2>2. mem'[items[r][1].orig] # None
    BY <1>3, <1>4, <1>7, <2>1 DEF PublishOne, Map
  <2>3. mem[row.orig] # None => mem'[row.orig] # None
    BY <1>3, <1>4, <1>6, <1>7, <2>1 DEF PublishOne, Map
  <2>4. Publishing(r, row) => mem'[row.orig] # None
    BY <1>1, <2>1, <2>2 DEF Publishing
  <2> QED BY <1>2, <1>6, <2>3, <2>4, ListedStep
<1>8. CASE PublishBatch(r)
  <2>1. PICK i \in todo[r] :
          /\ mem' = [mem EXCEPT ![items[r][i].orig] = items[r][i].short]
          /\ todo' = [todo EXCEPT ![r] = @ \ {i}]
          /\ todo[r] = {i} \/ UNCHANGED pc
    BY <1>8 DEF PublishBatch
  <2>2. mem[row.orig] # None => mem'[row.orig] # None
    BY <1>1, <1>3, <1>4, <1>6, <2>1 DEF Map
  <2>3. items' = items /\ todo'[r] = todo[r] \ {i}
    BY <1>1, <1>8, <2>1 DEF PublishBatch, TypeInv, TypeOK
  <2>4. ASSUME NEW k \in todo[r], items[r][k].new, pc[r] \in {"lock", "publish"},
               items[r][k].orig = row.orig, items[r][k].short = row.short
        PROVE  mem'[row.orig] # None \/ Publishing(r, row)'
    <3>1. CASE k = i
      BY <1>1, <1>3, <1>4, <1>6, <2>1, <2>4, <3>1 DEF Map
    <3>2. CASE k # i
      <4>1. pc' = pc /\ k \in todo'[r]
        BY <2>1, <2>3, <3>2
      <4> QED BY <2>3, <2>4, <4>1 DEF Publishing
    <3> QED BY <3>1, <3>2
  <2>5. Publishing(r, row) => mem'[row.orig] # None \/ Publishing(r, row)'
    BY <2>4 DEF Publishing
  <2> QED BY <1>2, <1>6, <2>2, <2>5, ListedStep
<1> QED BY <1>7, <1>8

(* An INSERT keeps short URLs distinct: the new ones are no row's and not   *)
(* each other's.                                                            *)
LEMMA DistinctInserts ==
  ASSUME FreshInv, NEW r \in Requests, Inserts(r)
  PROVE  ShortsDistinct'
<1>1. TypeInv /\ pc[r] = "save" /\ todo[r] = NewItems(r)
  BY DEF FreshInv, PgInv, DrawnInv, Drawn, Inserts
<1>2. Fresh(r) /\ ShortsDistinct
  BY DEF FreshInv
<1>3. \A i \in NewItems(r) : NewRow(items[r][i], req[r].user).short = items[r][i].short
  BY DEF NewRow
<1>4. \A row \in table' \ table : \E i \in NewItems(r) :
        row = NewRow(items[r][i], req[r].user)
  BY <1>1, InsertedRows
<1>5. ASSUME NEW row \in table', row \notin table, NEW old \in table
      PROVE  row.short # old.short
  <2>1. PICK i \in NewItems(r) : row = NewRow(items[r][i], req[r].user)
    BY <1>4, <1>5
  <2> QED BY <1>1, <1>2, <1>3, <2>1 DEF Fresh
<1>6. ASSUME NEW x \in table', NEW y \in table', x \notin table, y \notin table,
             x.short = y.short
      PROVE  x = y
  <2>1. PICK i \in NewItems(r) : x = NewRow(items[r][i], req[r].user)
    BY <1>4, <1>6
  <2>2. PICK j \in NewItems(r) : y = NewRow(items[r][j], req[r].user)
    BY <1>4, <1>6
  <2>3. i = j
    BY <1>2, <1>3, <1>6, <2>1, <2>2 DEF Fresh
  <2> QED BY <2>1, <2>2, <2>3
<1> QED BY <1>2, <1>5, <1>6 DEF ShortsDistinct

(* The steps of requests keep the invariant.                                *)
LEMMA FreshRequests ==
  ASSUME PgOnly, SeedsInUse, FreshInv, PgInv', DrawnInv',
         NEW r \in Requests, Arrive(r) \/ Continue(r)
  PROVE  FreshInv'
<1>1. SeedsApart
  BY DEF SeedsInUse
<1>2. TypeInv /\ DrawnInv /\ PgInv
  BY DEF FreshInv, PgInv
<1>3. \A q \in Requests \ {r} : Still(q)
  BY <1>2, StillElsewhere
<1>4. SeedEach'
  BY <1>2, SeedEachKept DEF FreshInv
<1>5. \A row \in table' \ table : Yields(r, row.short) /\ pc[r] = "save"
  BY <1>2, TableStep
<1>6. Fresh(r)'
  <2>1. CASE Arrive(r) \/ \E o \in Originals : Scan(r, o)
    BY <1>1, <2>1, FreshScan
  <2>2. CASE ChooseShort(r)
    BY <2>2, FreshChoose
  <2>3. CASE ~(Arrive(r) \/ ChooseShort(r) \/ \E o \in Originals : Scan(r, o))
    BY <1>2, <2>3, FreshLater, InsertsOrProceeds DEF Continue
  <2> QED BY <2>1, <2>2, <2>3
<1>7. \A q \in Requests \ {r} : Fresh(q)'
  BY <1>1, <1>3, <1>5, FreshElsewhere
<1>8. CASE Create(r) \/ CreateBatch(r)
  <2>1. Inserts(r) /\ Continue(r)
    BY <1>2, <1>8, CreateInserts DEF Continue
  <2> QED BY <1>4, <1>6, <1>7, <2>1, ListedInserts, DistinctInserts DEF FreshInv
<1>9. CASE ~(Create(r) \/ CreateBatch(r))
  <2>1. table' = table /\ \A row \in table : Listed(row)'
    <3>1. ~CreateSwallowed(r)
      BY DEF PgOnly, CreateSwallowed
    <3>2. CASE PublishOne(r) \/ PublishBatch(r)
      BY <3>2, ListedPublish
    <3>3. CASE ~(PublishOne(r) \/ PublishBatch(r))
      BY <1>2, <1>9, <3>1, <3>3, ListedElse, PgNoFile DEF Continue
    <3> QED BY <3>2, <3>3
  <2>2. ShortsDistinct'
    BY <2>1 DEF FreshInv, ShortsDistinct
  <2> QED BY <1>4, <1>6, <1>7, <2>1, <2>2 DEF FreshInv
<1> QED BY <1>8, <1>9

(* Deletions change no short URL, and a restart finds every row saved.      *)
LEMMA FreshElse ==
  ASSUME PgOnly, FreshInv, PgInv', DrawnInv', FlushDeletions \/ Restart \/ UNCHANGED vars
  PROVE  FreshInv'
<1>1. CASE FlushDeletions
  <2>1. PICK pairs : table' = MarkDeleted(table, pairs)
    BY <1>1 DEF FlushDeletions
  <2>2. UNCHANGED <<mem, req, pc, unseen, taken, items, todo>>
    BY <1>1 DEF FlushDeletions, mapVars, localVars
  <2>3. table \in SUBSET Row
    BY DEF FreshInv, PgInv, TypeInv, TypeOK
  <2>4. \A x \in table' : \E y \in table :
          x = Marked(y, pairs) /\ x.orig = y.orig /\ x.short = y.short
    BY <2>1, <2>3, MarkedRow DEF MarkDeleted
  <2>5. \A row \in table' : Listed(row)'
    BY <2>2, <2>4 DEF FreshInv, Listed, Publishing
  <2>6. ASSUME NEW q \in Requests
        PROVE  Fresh(q)'
    <3>1. NewItems(q)' = NewItems(q) /\ \A s : Yields(q, s)' <=> Yields(q, s)
      BY <2>2 DEF NewItems, Yields
    <3> QED BY <2>2, <2>4, <3>1 DEF FreshInv, Fresh
  <2>7. ShortsDistinct'
    BY <2>4 DEF FreshInv, ShortsDistinct
  <2>8. SeedEach'
    BY <2>2 DEF FreshInv, SeedEach
  <2> QED BY <2>5, <2>6, <2>7, <2>8 DEF FreshInv
<1>2. CASE Restart
  <2>1. /\ UNCHANGED <<table, items>> /\ mem' = FromTable(table)
        /\ \A q \in Requests : pc'[q] = "lost" \/ (pc'[q] = pc[q] /\ ~Busy(q))
    BY <1>2 DEF Connections, Restart, PgOnly, Loads, Loaded, localVars
  <2>2. \A q \in Requests : pc'[q] \notin Creating
    BY <2>1 DEF Busy, Creating, Answers
  <2>3. \A row \in table : mem'[row.orig] # None
    BY <2>1, LoadedRow DEF FreshInv
  <2>4. \A q \in Requests : Fresh(q)'
    BY <2>1, <2>2 DEF FreshInv, Fresh, NewItems, Creating
  <2> QED BY <2>1, <2>2, <2>3, <2>4 DEF FreshInv, SeedEach, Listed, ShortsDistinct
<1>3. CASE UNCHANGED vars
  <2>1. UNCHANGED <<table, mem, req, pc, unseen, taken, items, todo>>
    BY <1>3 DEF vars
  <2>2. ASSUME NEW q \in Requests
        PROVE  Fresh(q)'
    BY <2>1 DEF FreshInv, Fresh, NewItems, Yields
  <2> QED BY <2>1, <2>2 DEF FreshInv, SeedEach, Listed, Publishing, ShortsDistinct
<1> QED BY <1>1, <1>2, <1>3

(* The inductive invariant of distinct short URLs.                          *)
THEOREM FreshInvariant ==
  ASSUME PgOnly, SeedsInUse PROVE Spec => []FreshInv
<1>1. Init /\ PgInv /\ DrawnInv => FreshInv
  <2> SUFFICES ASSUME Init, PgInv, DrawnInv PROVE FreshInv
    OBVIOUS
  <2>1. table = {} /\ \A r \in Requests : pc[r] = "idle" /\ NewItems(r) = {}
    BY DEF Init, NewItems
  <2>2. SeedEach /\ ShortsDistinct /\ \A r \in Requests : Fresh(r)
    BY <2>1 DEF SeedEach, ShortsDistinct, Fresh, Creating
  <2> QED BY <2>1, <2>2 DEF FreshInv
<1>2. FreshInv /\ PgInv' /\ DrawnInv' /\ [Next]_vars => FreshInv'
  BY PgOnly, SeedsInUse, FreshRequests, FreshElse DEF Next
<1> QED BY PgOnly, <1>1, <1>2, PgInvariant, StringsAreDrawn, PTL DEF Spec

(* One short URL never stands for two originals, as long as creations in    *)
(* flight together differ in seed, and seeds in strings.                    *)
THEOREM ShortUrlsAreDistinct ==
  ASSUME PgOnly, SeedsInUse PROVE Spec => []ShortsDistinct
<1>1. FreshInv => ShortsDistinct
  BY DEF FreshInv
<1> QED BY PgOnly, SeedsInUse, FreshInvariant, <1>1, PTL

-----------------------------------------------------------------------------
(* What reads answer.  A read that is under way when deletions and          *)
(* creations go on must not take a row that is not its own: distinct short  *)
(* URLs give it one row, which is never removed nor undeleted.              *)

(* Some row with that short URL is deleted.                                 *)
Deleted(s) == \E row \in table : row.short = s /\ row.deleted = TRUE

ReadShape(r) ==
  /\ pc[r] = "check" /\ req[r].wasGone => Deleted(req[r].short)
  /\ pc[r] \in {"find", "found"} => ~req[r].wasGone
  /\ pc[r] = "found" => /\ DOMAIN items[r] = {1} /\ ~items[r][1].new
                        /\ items[r][1].short = req[r].short

ReadInv == FreshInv /\ \A r \in Requests : ReadShape(r)

(* Where short URLs are distinct, a deleted one is answered as deleted.     *)
LEMMA DeletedAnswer ==
  ASSUME ShortsDistinct, NEW s
  PROVE  /\ Deleted(s) => DeletedAnswers(table, s) = {TRUE}
         /\ DeletedAnswers(table, s) = {TRUE} => Deleted(s)
<1>1. ASSUME NEW row \in table, row.short = s, row.deleted = TRUE
      PROVE  DeletedAnswers(table, s) = {TRUE}
  <2>1. \A x \in table : x.short = s => x = row
    BY <1>1 DEF ShortsDistinct
  <2> QED BY <1>1, <2>1 DEF DeletedAnswers
<1>2. ASSUME DeletedAnswers(table, s) = {TRUE}
      PROVE  Deleted(s)
  BY <1>2 DEF DeletedAnswers, Deleted
<1> QED BY <1>1, <1>2 DEF Deleted

(* The steps of a read.                                                     *)
LEMMA ReadSteps ==
  ASSUME PgOnly, ReadInv, NEW r \in Requests,
         ReadOriginal(r) \/ CheckDeleted(r) \/ \E o \in Originals : Find(r, o)
  PROVE  ReadShape(r)'
<1> USE DEF ReadInv, FreshInv, PgInv, TypeInv, TypeOK
<1>1. CASE ReadOriginal(r)
  <2>1. PICK s \in Shorts : req' = [req EXCEPT ![r] = Reading(s)]
    BY <1>1 DEF ReadOriginal
  <2>2. req'[r] = Reading(s) /\ pc'[r] = "check" /\ table' = table
    BY <1>1, <2>1 DEF ReadOriginal, Go, storeVars
  <2>3. Reading(s).short = s /\ (Reading(s).wasGone <=> DeletedAnswers(table, s) = {TRUE})
    BY DEF Reading
  <2>4. Reading(s).wasGone => Deleted(s)
    BY <2>3, DeletedAnswer
  <2> QED BY <2>2, <2>3, <2>4 DEF ReadShape, Deleted
<1>2. CASE CheckDeleted(r)
  <2>1. /\ pc[r] = "check" /\ req' = req /\ pc'[r] \in {"gone", "find"}
        /\ pc'[r] = "find" => \/ FALSE \in DeletedAnswers(table, req[r].short)
                              \/ DeletedAnswers(table, req[r].short) = {}
    BY <1>2 DEF CheckDeleted, Go, PgOnly
  <2>2. pc'[r] = "find" => ~Deleted(req[r].short)
    BY <2>1, DeletedAnswer
  <2> QED BY <2>1, <2>2 DEF ReadShape
<1>3. ASSUME NEW o \in Originals, Find(r, o)
      PROVE  ReadShape(r)'
  <2>1. /\ pc[r] = "find" /\ req' = req
        /\ \/ pc'[r] \in {"find", "unknown"}
           \/ /\ pc'[r] = "found"
              /\ items'[r] = <<[orig |-> o, short |-> req[r].short, new |-> FALSE]>>
    BY <1>3 DEF Find, Go
  <2> QED BY <2>1 DEF ReadShape
<1> QED BY <1>1, <1>2, <1>3

(* Creations are not searching.                                             *)
LEMMA CreationSearchesNot ==
  ASSUME TypeInv, NEW r \in Requests, Arrive(r) \/ Continue(r),
         ~ReadOriginal(r), ~CheckDeleted(r), ~\E o \in Originals : Find(r, o)
  PROVE  pc'[r] \notin {"check", "find", "found", "unknown"}
<1> USE DEF TypeInv, TypeOK
<1>1. CASE CreateShortened(r) \/ CreateShortenedFromBatch(r)
  BY <1>1 DEF CreateShortened, CreateShortenedFromBatch, StartCreation, Go
<1>2. CASE ChooseShort(r) \/ AllChosen(r) \/ \E o \in Originals : Scan(r, o)
  BY <1>2 DEF ChooseShort, AllChosen, Answer, Scan, Go
<1>3. CASE Inserts(r) \/ Proceeds(r)
  BY <1>3 DEF Inserts, Proceeds, Chosen
<1> QED BY <1>1, <1>2, <1>3, InsertsOrProceeds DEF Arrive, Continue

(* A creation is never where a read is.                                     *)
LEMMA CreationIsNoRead ==
  ASSUME TypeInv, NEW r \in Requests, Arrive(r) \/ Continue(r),
         ~ReadOriginal(r), ~CheckDeleted(r), ~\E o \in Originals : Find(r, o)
  PROVE  ReadShape(r)'
  BY CreationSearchesNot DEF ReadShape

(* Every step keeps the invariant: nothing that goes on beside a read       *)
(* removes the row it is about, or its mark.                                *)
LEMMA ReadNext ==
  ASSUME PgOnly, ReadInv, FreshInv', [Next]_vars
  PROVE  ReadInv'
<1>1. ASSUME NEW q \in Requests, Untouched(q) \/ pc'[q] = "lost",
             \A s : Deleted(s) => Deleted(s)'
      PROVE  ReadShape(q)'
  BY <1>1 DEF ReadInv, ReadShape, Untouched
<1>2. ASSUME NEW r \in Requests, Arrive(r) \/ Continue(r)
      PROVE  ReadInv'
  <2>1. TypeInv /\ DrawnInv
    BY DEF ReadInv, FreshInv, PgInv
  <2>2. \A q \in Requests \ {r} : Untouched(q)
    BY <1>2, <2>1, StillElsewhere DEF Still
  <2>3. table \subseteq table'
    BY <1>2, <2>1, TableStep
  <2>4. \A s : Deleted(s) => Deleted(s)'
    BY <2>3 DEF Deleted
  <2>5. ReadShape(r)'
    BY <1>2, <2>1, ReadSteps, CreationIsNoRead
  <2> QED BY <1>1, <2>2, <2>4, <2>5 DEF ReadInv
<1>3. CASE FlushDeletions
  <2>1. PICK pairs : table' = MarkDeleted(table, pairs)
    BY <1>3 DEF FlushDeletions
  <2>2. \A q \in Requests : Untouched(q)
    BY <1>3 DEF FlushDeletions, localVars, Untouched
  <2>3. ASSUME NEW s, Deleted(s)
        PROVE  Deleted(s)'
    <3>1. PICK row \in table : row.short = s /\ row.deleted = TRUE
      BY <2>3 DEF Deleted
    <3>2. row \in Row
      BY DEF ReadInv, FreshInv, PgInv, TypeInv, TypeOK
    <3>3. Marked(row, pairs) \in table'
      BY <2>1 DEF MarkDeleted
    <3>4. Marked(row, pairs).short = s /\ Marked(row, pairs).deleted = TRUE
      BY <3>1, <3>2 DEF Marked, Row
    <3> QED BY <3>3, <3>4 DEF Deleted
  <2> QED BY <1>1, <2>2, <2>3 DEF ReadInv
<1>4. CASE Restart
  <2>1. \A q \in Requests : Untouched(q) \/ pc'[q] = "lost"
    BY <1>4 DEF Restart, localVars, Untouched, ReadInv, FreshInv, PgInv, TypeInv, TypeOK
  <2>2. \A s : Deleted(s) => Deleted(s)'
    BY <1>4 DEF Restart, Deleted
  <2> QED BY <1>1, <2>1, <2>2 DEF ReadInv
<1>5. CASE UNCHANGED vars
  <2>1. \A q \in Requests : Untouched(q)
    BY <1>5 DEF vars, Untouched
  <2>2. \A s : Deleted(s) => Deleted(s)'
    BY <1>5 DEF vars, Deleted
  <2> QED BY <1>1, <2>1, <2>2 DEF ReadInv
<1> QED BY <1>2, <1>3, <1>4, <1>5 DEF Next

(* The inductive invariant of reads.                                        *)
THEOREM ReadInvariant ==
  ASSUME PgOnly, SeedsInUse PROVE Spec => []ReadInv
<1>1. Init /\ FreshInv => ReadInv
  BY DEF Init, ReadInv, ReadShape
<1>2. ReadInv /\ FreshInv' /\ [Next]_vars => ReadInv'
  BY PgOnly, ReadNext
<1> QED BY PgOnly, SeedsInUse, <1>1, <1>2, FreshInvariant, PTL DEF Spec

(* A read of a short URL that had been deleted when it arrived is not       *)
(* answered with the original, whatever is created and deleted meanwhile.   *)
THEOREM GoneIsGone ==
  ASSUME PgOnly, SeedsInUse PROVE Spec => []GoneStaysGone
<1>1. ReadInv => GoneStaysGone
  BY DEF ReadInv, ReadShape, GoneStaysGone
<1> QED BY PgOnly, SeedsInUse, ReadInvariant, <1>1, PTL

(* A client that asks for a short URL it was told gets its original: what   *)
(* is found is a row, what was told is one too, and they have one short     *)
(* URL.                                                                     *)
THEOREM ReadsAreTrue ==
  ASSUME PgOnly, SeedsInUse PROVE Spec => []ReadsWhatWasTold
<1>1. ReadInv => ReadsWhatWasTold
  <2> SUFFICES ASSUME ReadInv, NEW r \in Requests, pc[r] = "found",
                      NEW p \in told, p[2] = req[r].short
               PROVE  p = Pair(items[r][1])
    BY DEF ReadsWhatWasTold
  <2>1. 1 \in DOMAIN items[r] /\ ~items[r][1].new /\ items[r][1].short = req[r].short
    BY DEF ReadInv, ReadShape
  <2>2. Holds(table, items[r][1].orig, items[r][1].short)
    BY <2>1 DEF ReadInv, FreshInv, PgInv, PgShape, Backed
  <2>3. Holds(table, p[1], p[2]) /\ p \in Originals \X ShortValues
    BY DEF ReadInv, FreshInv, PgInv, Durable, TypeInv, TypeOK
  <2>4. p[1] = items[r][1].orig
    BY <2>1, <2>2, <2>3 DEF ReadInv, FreshInv, ShortsDistinct, Holds
  <2> QED BY <2>1, <2>3, <2>4 DEF Pair
<1> QED BY PgOnly, SeedsInUse, ReadInvariant, <1>1, PTL

-----------------------------------------------------------------------------
(* The search of the map.  While entries stay, one that was there when the  *)
(* read arrived is still among those to be visited.                         *)
Known(r) ==
  /\ pc[r] = "check" /\ req[r].wasKnown => \E o \in Originals : mem[o] = req[r].short
  /\ pc[r] = "find" /\ req[r].wasKnown => \E o \in unseen[r] : mem[o] = req[r].short
  /\ pc[r] = "unknown" => ~req[r].wasKnown

(* Steps of the read itself: an entry that is passed is not the one.        *)
LEMMA KnownSteps ==
  ASSUME TypeInv, NEW r \in Requests, Known(r),
         ReadOriginal(r) \/ CheckDeleted(r) \/ \E o \in Originals : Find(r, o)
  PROVE  Known(r)'
<1> USE DEF TypeInv, TypeOK
<1>1. CASE ReadOriginal(r)
  <2>1. PICK s \in Shorts : req' = [req EXCEPT ![r] = Reading(s)]
    BY <1>1 DEF ReadOriginal
  <2>2. req'[r] = Reading(s) /\ pc'[r] = "check" /\ mem' = mem
    BY <1>1, <2>1 DEF ReadOriginal, Go, mapVars
  <2>3. Reading(s).short = s /\ (Reading(s).wasKnown <=> \E o \in Originals : mem[o] = s)
    BY DEF Reading
  <2> QED BY <2>2, <2>3 DEF Known
<1>2. CASE CheckDeleted(r)
  <2>1. /\ pc[r] = "check" /\ req' = req /\ mem' = mem
        /\ \/ pc'[r] = "gone"
           \/ pc'[r] = "find" /\ unseen'[r] = Originals
    BY <1>2 DEF CheckDeleted, Go, mapVars
  <2> QED BY <2>1 DEF Known
<1>3. ASSUME NEW o \in Originals, Find(r, o)
      PROVE  Known(r)'
  <2>1. pc[r] = "find" /\ req' = req /\ mem' = mem
    BY <1>3 DEF Find, mapVars
  <2>2. CASE mem[o] = req[r].short
    BY <1>3, <2>2 DEF Find, Go, Known
  <2>3. CASE mem[o] # req[r].short
    <3>1. /\ unseen'[r] = unseen[r] \ {o}
          /\ \/ pc'[r] = "unknown" /\ unseen[r] = {o}
             \/ pc'[r] = "find"
      BY <1>3, <2>3 DEF Find, Go
    <3> QED BY <2>1, <2>3, <3>1 DEF Known
  <2> QED BY <2>2, <2>3
<1> QED BY <1>1, <1>2, <1>3

(* Every step that changes no entry keeps the one that is looked for.       *)
LEMMA KnownNext ==
  ASSUME TypeInv, \A r \in Requests : Known(r), [Next]_vars,
         \A o \in Originals : mem[o] # None => mem'[o] = mem[o]
  PROVE  \A r \in Requests : Known(r)'
<1>1. ASSUME NEW q \in Requests, req'[q] = req[q],
             \/ pc'[q] = pc[q] /\ unseen'[q] = unseen[q]
             \/ pc'[q] = "lost"
      PROVE  Known(q)'
  <2>1. pc'[q] = "lost" => Known(q)'
    BY DEF Known
  <2>2. pc[q] \in {"check", "find"} => req[q].short # None
    BY StorageAssumption DEF TypeInv, Shape, InputOK
  <2>3. unseen[q] \subseteq Originals
    BY DEF TypeInv, TypeOK
  <2>4. ASSUME pc[q] \in {"check", "find"}, NEW o \in Originals, mem[o] = req[q].short
        PROVE  mem'[o] = req[q].short
    BY <2>2, <2>4
  <2> QED BY <1>1, <2>1, <2>3, <2>4 DEF Known
<1>2. ASSUME NEW r \in Requests, Arrive(r) \/ Continue(r)
      PROVE  \A q \in Requests : Known(q)'
  <2>1. \A q \in Requests \ {r} : Still(q)
    BY <1>2, StillElsewhere
  <2>2. Known(r)'
    <3>1. CASE ReadOriginal(r) \/ CheckDeleted(r) \/ \E o \in Originals : Find(r, o)
      BY <3>1, KnownSteps
    <3>2. CASE ~(ReadOriginal(r) \/ CheckDeleted(r) \/ \E o \in Originals : Find(r, o))
      BY <1>2, <3>2, CreationSearchesNot DEF Known
    <3> QED BY <3>1, <3>2
  <2> QED BY <1>1, <2>1, <2>2 DEF Still, Untouched
<1>3. CASE FlushDeletions \/ UNCHANGED vars
  <2>1. UNCHANGED <<pc, req, unseen>>
    BY <1>3 DEF FlushDeletions, localVars, vars
  <2> QED BY <1>1, <2>1
<1>4. CASE Restart
  <2>1. UNCHANGED <<req, unseen>> /\ \A q \in Requests : pc'[q] = "lost" \/ pc'[q] = pc[q]
    BY <1>4 DEF Restart, localVars, TypeInv, TypeOK
  <2> QED BY <1>1, <2>1
<1> QED BY <1>2, <1>3, <1>4 DEF Next

(* A read never misses an entry the map had when it arrived.                *)
THEOREM SearchFinds == ASSUME PgOnly PROVE Spec => []KnownIsFound
<1> DEFINE Inv == \A r \in Requests : Known(r)
<1>1. Init => Inv
  BY DEF Init, Known
<1>2. PgInv /\ PgInv' /\ Inv /\ [Next]_vars => Inv'
  <2>1. PgInv => TypeInv
    BY DEF PgInv
  <2> QED BY PgOnly, <2>1, EntryStays, KnownNext
<1>3. Inv => KnownIsFound
  BY DEF Known, KnownIsFound
<1> HIDE DEF Inv
<1> QED BY PgOnly, PgInvariant, <1>1, <1>2, <1>3, PTL DEF Spec

-----------------------------------------------------------------------------
(* The mutex: a request publishes exactly while it holds it.                *)
HeldInv == TypeInv /\ \A r \in Requests : pc[r] = "publish" <=> mu = r

(* Steps that neither lock nor unlock leave the holder alone.               *)
LEMMA MutexUntouched ==
  ASSUME HeldInv, NEW r \in Requests, Arrive(r) \/ Continue(r),
         ~Lock(r), ~PublishOne(r), ~PublishBatch(r)
  PROVE  mu' = mu /\ pc[r] # "publish" /\ pc'[r] # "publish"
<1> USE DEF HeldInv, TypeInv, TypeOK, Go, mapVars
<1>1. CASE Arrive(r)
  BY <1>1 DEF Arrive, CreateShortened, CreateShortenedFromBatch, StartCreation,
              ReadOriginal
<1>2. CASE \E o \in Originals : Scan(r, o) \/ Find(r, o)
  BY <1>2 DEF Scan, Find
<1>3. CASE ChooseShort(r) \/ AllChosen(r) \/ CheckDeleted(r)
  BY <1>3 DEF ChooseShort, AllChosen, CheckDeleted, Answer
<1>4. CASE Create(r) \/ CreateConflict(r) \/ CreateSwallowed(r)
  BY <1>4 DEF Create, CreateConflict, CreateSwallowed, SavingToPg, Answer
<1>5. CASE CreateBatch(r) \/ CreateBatchRejected(r)
  BY <1>5 DEF CreateBatch, CreateBatchRejected, SavingToPg, Answer
<1>6. CASE FallBack(r)
  <2>1. req[r].kind \in {"create", "batch"} /\ FileConfigured \in BOOLEAN
    BY <1>6, ShortenerAssumption DEF FallBack, Shape, Creating, InputOK, Input
  <2>2. \E label \in {"lock", "reread", "append", "failed"} : Go(r, label)
    BY <1>6, <2>1 DEF FallBack, Answer
  <2> QED BY <1>6, <2>2 DEF FallBack
<1>7. CASE Reread(r) \/ AppendLine(r) \/ AppendFails(r)
  BY <1>7 DEF Reread, AppendLine, AppendFails, Answer
<1> QED BY <1>1, <1>2, <1>3, <1>4, <1>5, <1>6, <1>7 DEF Continue

(* Only the holder of the mutex publishes, one at a time, and none leaves   *)
(* with it: neither an answer, nor an error, nor a restart.                 *)
THEOREM HolderPublishes == Spec => []HeldInv
<1>1. Init /\ TypeInv => HeldInv
  BY ShortenerAssumption DEF Init, HeldInv
<1>2. ASSUME HeldInv, TypeInv', [Next]_vars
      PROVE  HeldInv'
  <2>1. ASSUME NEW r \in Requests, Arrive(r) \/ Continue(r)
        PROVE  HeldInv'
    <3>1. \A q \in Requests \ {r} : pc'[q] = pc[q]
      BY <1>2, <2>1, StillElsewhere DEF HeldInv, Still, Untouched
    <3>2. CASE Lock(r)
      <4>1. mu = None /\ mu' = r /\ pc'[r] = "publish"
        BY <1>2, <3>2 DEF Lock, Go, HeldInv, TypeInv, TypeOK
      <4> QED BY <1>2, <3>1, <4>1, ShortenerAssumption DEF HeldInv
    <3>3. CASE PublishOne(r) \/ PublishBatch(r)
      <4>1. /\ pc[r] = "publish"
            /\ \/ mu' = None /\ pc'[r] = "created"
               \/ mu' = mu /\ pc' = pc
        BY <1>2, <3>3 DEF PublishOne, PublishBatch, Answer, Go, HeldInv, TypeInv, TypeOK
      <4> QED BY <1>2, <3>1, <4>1, ShortenerAssumption DEF HeldInv
    <3>4. CASE ~(Lock(r) \/ PublishOne(r) \/ PublishBatch(r))
      BY <1>2, <2>1, <3>1, <3>4, MutexUntouched DEF HeldInv
    <3> QED BY <3>2, <3>3, <3>4
  <2>2. CASE FlushDeletions \/ UNCHANGED vars
    BY <1>2, <2>2 DEF FlushDeletions, mapVars, vars, HeldInv
  <2>3. CASE Restart
    <3>1. mu' = None /\ \A r \in Requests : pc'[r] # "publish"
      BY <2>3 DEF Restart, Busy, Answers
    <3> QED BY <1>2, <3>1, ShortenerAssumption DEF HeldInv
  <2> QED BY <1>2, <2>1, <2>2, <2>3 DEF Next
<1> QED BY <1>1, <1>2, TypeCorrect, PTL DEF Spec

-----------------------------------------------------------------------------
(* A server without PostgreSQL, for as long as its process runs.  Single    *)
(* creations never overwrite an entry, so that the map is what clients      *)
(* were told, whatever happens to the file.  (A batch does overwrite.)      *)
MapOnly == PgConfigured = FALSE /\ MaxRestarts = 0 /\ "batch" \notin Kinds

MapInv ==
  /\ DrawnInv
  /\ connected = FALSE
  /\ \A r \in Requests :
       pc[r] \in Creating => \A i \in DOMAIN items[r] : items[r][i].new
  /\ ToldInMem

(* There are no batches, and no restarts.                                   *)
LEMMA NoBatch ==
  ASSUME MapOnly, MapInv
  PROVE  /\ \A r \in Requests : pc[r] \in Creating => req[r].kind = "create"
         /\ ~Restart
<1>1. ASSUME NEW r \in Requests, pc[r] \in Creating
      PROVE  req[r].kind = "create"
  <2>1. req[r] \in Input /\ req[r].kind # "read"
    BY <1>1 DEF MapInv, DrawnInv, TypeInv, Shape, InputOK, Creating
  <2> QED BY <2>1, ShortenerAssumption DEF MapOnly, Input
<1>2. ~Restart
  BY DEF MapOnly, MapInv, DrawnInv, TypeInv, TypeOK, Restart
<1> QED BY <1>1, <1>2

(* Every element of a single creation is new.                               *)
LEMMA AllNew ==
  ASSUME MapOnly, MapInv, DrawnInv', NEW r \in Requests, Arrive(r) \/ Continue(r),
         pc'[r] \in Creating
  PROVE  \A i \in DOMAIN items'[r] : items'[r][i].new
<1> USE DEF MapInv, DrawnInv, TypeInv, TypeOK
<1>1. CASE Arrive(r)
  <2>1. items' = items /\ pc[r] = "idle"
    BY <1>1 DEF Arrive, CreateShortened, CreateShortenedFromBatch, StartCreation,
                ReadOriginal
  <2> QED BY <2>1 DEF Drawn
<1>2. CASE ChooseShort(r)
  <2>1. pc[r] \in Creating
    BY <1>2 DEF ChooseShort, Creating
  <2>2. req[r].kind = "create"
    BY <2>1, NoBatch
  <2>3. PICK x \in Item :
          /\ x.new <=> ~Reused(r, x.orig)
          /\ DOMAIN items'[r] = DOMAIN items[r] \cup {Len(items[r]) + 1}
          /\ items'[r][Len(items[r]) + 1] = x
          /\ \A i \in DOMAIN items[r] : items'[r][i] = items[r][i]
    BY <1>2, ChosenItem
  <2>4. x.new
    BY <2>2, <2>3 DEF Reused
  <2> QED BY <2>1, <2>3, <2>4
<1>3. CASE \E o \in Originals : Scan(r, o) \/ Find(r, o)
  BY <1>3 DEF Scan, Find, Go, Creating
<1>4. CASE AllChosen(r) \/ CheckDeleted(r)
  BY <1>4 DEF AllChosen, CheckDeleted, Answer, Go, Creating
<1>5. CASE Inserts(r) \/ Proceeds(r)
  BY <1>5 DEF Inserts, Proceeds, localVars, Chosen, Creating
<1> QED BY <1>1, <1>2, <1>3, <1>4, <1>5, InsertsOrProceeds DEF Continue

(* Every step keeps what was told in the map.                               *)
LEMMA MapNext ==
  ASSUME MapOnly, MapInv, DrawnInv', [Next]_vars
  PROVE  MapInv'
<1>1. ASSUME NEW r \in Requests, Arrive(r) \/ Continue(r)
      PROVE  MapInv'
  <2>1. TypeInv
    BY DEF MapInv, DrawnInv
  <2>2. \A q \in Requests \ {r} : pc'[q] = pc[q] /\ items'[q] = items[q]
    BY <1>1, <2>1, StillElsewhere DEF Still, Untouched
  <2>3. \A q \in Requests :
          pc'[q] \in Creating => \A i \in DOMAIN items'[q] : items'[q][i].new
    BY <1>1, <2>2, AllNew DEF MapInv
  <2>4. connected' = connected /\ ToldInMem'
    <3>1. ~Create(r) /\ ~CreateConflict(r) /\ ~CreateSwallowed(r) /\ ~CreateBatch(r)
          /\ ~CreateBatchRejected(r)
      BY DEF MapInv, Create, CreateConflict, CreateSwallowed, CreateBatch,
             CreateBatchRejected, SavingToPg
    <3>2. ~PublishBatch(r)
      BY NoBatch DEF PublishBatch, Creating
    <3>3. CASE PublishOne(r)
      <4>1. 1 \in DOMAIN items[r] /\ items[r][1] \in Item
        BY <2>1, <3>3, UnsavedType DEF TypeInv, PublishOne, Shape, Chosen, InputOK
      <4>2. items[r][1].orig \in Originals /\ mem \in Map
        BY <2>1, <4>1 DEF Item, TypeInv, TypeOK
      <4>3. \A p \in told : mem[p[1]] = p[2] /\ p[1] \in Originals /\ p[2] # None
        BY <2>1, StorageAssumption DEF MapInv, ToldInMem, TypeInv, TypeOK, ShortValues
      <4>4. connected' = connected
        BY <3>3 DEF PublishOne, storeVars
      <4>5. CASE mem[items[r][1].orig] = None
        <5>1. /\ mem' = [mem EXCEPT ![items[r][1].orig] = items[r][1].short]
              /\ told' = told \cup {<<items[r][1].orig, items[r][1].short>>}
          BY <3>3, <4>5 DEF PublishOne, Answer, Pair
        <5> QED BY <4>2, <4>3, <4>4, <4>5, <5>1 DEF ToldInMem, Map
      <4>6. CASE mem[items[r][1].orig] # None
        <5>1. /\ mem' = mem
              /\ told' = told \cup {<<items[r][1].orig, mem[items[r][1].orig]>>}
          BY <3>3, <4>6 DEF PublishOne, Answer, Pair
        <5> QED BY <4>3, <4>4, <5>1 DEF ToldInMem
      <4> QED BY <4>5, <4>6
    <3>4. CASE AllChosen(r)
      <4>1. pc[r] = "choose" /\ req[r].kind = "create"
        BY <3>4, NoBatch DEF AllChosen, Creating
      <4>2. Len(items[r]) = 1 /\ items[r] \in Seq(Item)
        BY <2>1, <3>4, <4>1 DEF AllChosen, TypeInv, TypeOK, Shape, InputOK
      <4>3. 1 \in NewItems(r)
        BY <4>1, <4>2 DEF MapInv, NewItems, Creating
      <4>4. UNCHANGED <<connected, mem, told>>
        BY <3>4, <4>3 DEF AllChosen, storeVars, mapVars
      <4> QED BY <4>4 DEF MapInv, ToldInMem
    <3>5. CASE Arrive(r) \/ \E o \in Originals : Scan(r, o) \/ Find(r, o)
      BY <3>5 DEF Arrive, CreateShortened, CreateShortenedFromBatch, StartCreation,
                  ReadOriginal, Scan, Find, storeVars, mapVars, MapInv, ToldInMem
    <3>6. CASE ChooseShort(r) \/ CheckDeleted(r) \/ Lock(r)
      BY <3>6 DEF ChooseShort, CheckDeleted, Lock, storeVars, mapVars, MapInv, ToldInMem
    <3>7. CASE FallBack(r) \/ Reread(r) \/ AppendLine(r) \/ AppendFails(r)
      <4>1. UNCHANGED <<connected, mem, told>>
        BY <3>7 DEF FallBack, Reread, AppendLine, AppendFails, Answer, storeVars, mapVars
      <4> QED BY <4>1 DEF MapInv, ToldInMem
    <3> QED BY <1>1, <3>1, <3>2, <3>3, <3>4, <3>5, <3>6, <3>7 DEF Continue
  <2> QED BY <2>3, <2>4 DEF MapInv
<1>2. CASE FlushDeletions \/ UNCHANGED vars
  BY <1>2 DEF FlushDeletions, localVars, mapVars, vars, MapInv, ToldInMem
<1> QED BY <1>1, <1>2, NoBatch DEF Next

(* The inductive invariant of a server without PostgreSQL.                  *)
THEOREM MapInvariant == ASSUME MapOnly PROVE Spec => []MapInv
<1>1. Init /\ DrawnInv => MapInv
  BY MapOnly DEF MapOnly, Init, Connections, MapInv, ToldInMem, Creating
<1>2. MapInv /\ DrawnInv' /\ [Next]_vars => MapInv'
  BY MapOnly, MapNext
<1> QED BY <1>1, <1>2, StringsAreDrawn, PTL DEF Spec

(* What a client was told stays in the map, whatever order the file got it  *)
(* in and whichever calls on it fail.                                       *)
THEOREM ToldStaysInMem == ASSUME MapOnly PROVE Spec => []ToldInMem
<1>1. MapInv => ToldInMem
  BY DEF MapInv
<1> QED BY MapOnly, MapInvariant, <1>1, PTL

(* No two clients are told two short URLs for one original, with no         *)
(* database to arbitrate between them.                                      *)
THEOREM ClientsAgreeOnMap == ASSUME MapOnly PROVE Spec => []Agreement
<1>1. MapInv => Agreement
  <2> SUFFICES ASSUME MapInv, NEW p \in told, NEW q \in told, p[1] = q[1]
               PROVE  p = q
    BY DEF Agreement
  <2>1. p[2] = q[2]
    BY DEF MapInv, ToldInMem
  <2>2. told \subseteq Originals \X ShortValues
    BY DEF MapInv, DrawnInv, TypeInv, TypeOK
  <2> QED BY <2>1, <2>2
<1> QED BY MapOnly, MapInvariant, <1>1, PTL

(* Single creations change no entry.                                        *)
LEMMA MapOnlyEntryStays ==
  ASSUME MapOnly, MapInv, [Next]_vars
  PROVE  \A o \in Originals : mem[o] # None => mem'[o] = mem[o]
<1>1. ASSUME NEW r \in Requests, Arrive(r) \/ Continue(r)
      PROVE  \A o \in Originals : mem[o] # None => mem'[o] = mem[o]
  <2>1. ~PublishBatch(r)
    BY NoBatch DEF PublishBatch, Creating
  <2>2. CASE PublishOne(r)
    BY <2>2 DEF PublishOne, MapInv, DrawnInv, TypeInv, TypeOK, Map
  <2>3. CASE ~PublishOne(r)
    <3>1. mem' = mem
      BY <1>1, <2>1, <2>3
      DEF Arrive, CreateShortened, CreateShortenedFromBatch, StartCreation, ReadOriginal,
          Continue, Scan, Find, ChooseShort, AllChosen, Create, CreateConflict,
          CreateSwallowed, CreateBatch, CreateBatchRejected, FallBack, Reread, AppendLine,
          AppendFails, Lock, CheckDeleted, mapVars
    <3> QED BY <3>1
  <2> QED BY <2>2, <2>3
<1>2. CASE FlushDeletions \/ UNCHANGED vars
  BY <1>2 DEF FlushDeletions, mapVars, vars
<1> QED BY <1>1, <1>2, NoBatch DEF Next

(* Without PostgreSQL, too, a read never misses an entry the map had.       *)
THEOREM SearchFindsOnMap == ASSUME MapOnly PROVE Spec => []KnownIsFound
<1> DEFINE Inv == \A r \in Requests : Known(r)
<1>1. Init => Inv
  BY DEF Init, Known
<1>2. MapInv /\ Inv /\ [Next]_vars => Inv'
  <2>1. MapInv => TypeInv
    BY DEF MapInv, DrawnInv
  <2> QED BY MapOnly, <2>1, MapOnlyEntryStays, KnownNext
<1>3. Inv => KnownIsFound
  BY DEF Known, KnownIsFound
<1> HIDE DEF Inv
<1> QED BY MapOnly, MapInvariant, <1>1, <1>2, <1>3, PTL DEF Spec
=============================================================================
