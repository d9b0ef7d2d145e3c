------------------------------ MODULE UrlBook ------------------------------
(***************************************************************************)
(* What the shortener promises its clients, with no store, map, lock or    *)
(* goroutine in sight: a book in which an original URL is given a short    *)
(* URL once and for all, and answers that quote the book.                  *)
(***************************************************************************)
CONSTANTS Originals, ShortValues

VARIABLES book,   \* <<original, short>> pairs assigned
          told    \* the pairs clients were told

bookVars == <<book, told>>

IsFunction(pairs) == \A p, q \in pairs : p[1] = q[1] => p = q

BookInit == book = {} /\ told = {}

\* One or several originals that have none yet are given short URLs, all at once.
Assign ==
  /\ book \subseteq book'
  /\ book' \subseteq Originals \X ShortValues
  /\ IsFunction(book')
  /\ UNCHANGED told

\* A client is told what the book has.
Tell ==
  /\ told \subseteq told'
  /\ told' \subseteq told \cup book
  /\ UNCHANGED book

BookSpec == BookInit /\ [][Assign \/ Tell]_bookVars
=============================================================================
