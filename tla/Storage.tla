------------------------------ MODULE Storage ------------------------------
(***************************************************************************)
(* The data the repository layer keeps, and what one statement does to it: *)
(* the table urlshrt of PostgreSQL and the JSON-lines file of records that *)
(* stands in for it.  Constant operators only: the modules that EXTEND     *)
(* this one say when each of them runs.                                    *)
(***************************************************************************)
EXTENDS Naturals, Sequences, FiniteSets

CONSTANTS Originals,   \* the original URLs in play
          Shorts,      \* the strings the random generator may yield
          Users,       \* user ids, as the jwt carries them
          BlankURL,    \* the empty original URL (outside Originals if unused)
          BlankShort,  \* the empty short URL
          None         \* "absent": no entry, no holder, no argument

ASSUME StorageAssumption ==
  /\ BlankShort \notin Shorts
  /\ None \notin Originals \cup Shorts \cup Users \cup {BlankURL, BlankShort}

\* state.URLStringJSON, less its UUID: nothing in the program reads a UUID back.
ShortValues == Shorts \cup {BlankShort}
Record == [orig : Originals, short : ShortValues]

-----------------------------------------------------------------------------
(* The table: a set of rows.  `original` is its primary key, `short` is not *)
(* unique.                                                                  *)
Row == [orig : Originals, short : ShortValues, user : Users, deleted : BOOLEAN]

Keys(table) == {row.orig : row \in table}
Holds(table, o, s) == \E row \in table : row.orig = o /\ row.short = s

NewRow(rec, u) ==
  [orig |-> rec.orig, short |-> rec.short, user |-> u, deleted |-> FALSE]

\* INSERTs of one transaction: none of them may meet a key that is there.
Fits(table, recs) ==
  /\ \A i \in DOMAIN recs : recs[i].orig \notin Keys(table)
  /\ \A i, j \in DOMAIN recs : recs[i].orig = recs[j].orig => i = j
Insert(table, recs, u) == table \cup {NewRow(recs[i], u) : i \in DOMAIN recs}

\* Mutant: short = ANY(shorts) AND user_id = ANY(users), not in lockstep.
MarkedCrossed(row, pairs) ==
  [row EXCEPT !.deleted = @ \/ \E p, q \in pairs : p[1] = row.short /\ q[2] = row.user]

\* Mutant: is_deleted is set from the pairs in every row.
MarkedAnew(row, pairs) ==
  [row EXCEPT !.deleted = <<row.short, row.user>> \in pairs]

\* UPDATE ... SET is_deleted = 1 WHERE (short, user_id) IN the pairs given.
Marked(row, pairs) ==
  [row EXCEPT !.deleted = IF <<row.short, row.user>> \in pairs THEN TRUE ELSE @]
MarkDeleted(table, pairs) == {Marked(row, pairs) : row \in table}

\* SELECT is_deleted WHERE short = s, of which QueryRow keeps any one row.
DeletedAnswers(table, s) == {row.deleted : row \in {x \in table : x.short = s}}

-----------------------------------------------------------------------------
(* The file: absent until the first open with O_CREATE, a sequence of      *)
(* lines, and unreadable for good once a write has left part of a line in  *)
(* it: the next record is appended to that part and ReadAll gives up there. *)
File == [state : {"absent", "ok", "broken"}, lines : Seq(Record)]
NoFile == [state |-> "absent", lines |-> << >>]

Opened(file) == IF file.state = "absent" THEN [file EXCEPT !.state = "ok"] ELSE file
Appended(file, rec) ==
  IF file.state = "broken" THEN file
  ELSE [state |-> "ok", lines |-> Append(file.lines, rec)]
Torn(file) == [file EXCEPT !.state = "broken"]
Written(file) == {file.lines[i].orig : i \in DOMAIN file.lines}

-----------------------------------------------------------------------------
(* What router() builds the map of current URLs from when the process      *)
(* starts: the rows, or the lines with a later one overriding an earlier   *)
(* one, or - when ReadAll fails - one record of zero values.               *)
Map == [Originals -> ShortValues \cup {None}]

BlankMap == [o \in Originals |-> IF o = BlankURL THEN BlankShort ELSE None]

\* Mutant: ReadAll scans the two columns in the wrong order.
FromTableSwapped(table) ==
  [o \in Originals |-> IF o \in Keys(table) THEN o ELSE None]

FromTable(table) ==
  [o \in Originals |->
     IF o \in Keys(table) THEN (CHOOSE row \in table : row.orig = o).short ELSE None]

\* Line i is the last one about o.
IsLast(file, o, i) ==
  /\ i \in DOMAIN file.lines /\ file.lines[i].orig = o
  /\ \A j \in DOMAIN file.lines : j > i => file.lines[j].orig # o

FromFile(file) ==
  IF file.state # "ok" THEN BlankMap
  ELSE [o \in Originals |->
          IF \E i \in DOMAIN file.lines : IsLast(file, o, i)
          THEN file.lines[CHOOSE i \in DOMAIN file.lines : IsLast(file, o, i)].short
          ELSE None]
=============================================================================
