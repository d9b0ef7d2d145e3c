-------------------------- MODULE MCDeletePipeline --------------------------
EXTENDS DeletePipeline, TLC

CONSTANTS j1, j2, j3, c1, s1, s2, u1, u2, o1, o2, o3, db, db2

Symmetric == Permutations(Jobs)

\* s1 belongs to both users (short is not unique), s2 to u1 only.
Rows == {[orig |-> o1, short |-> s1, user |-> u1, deleted |-> FALSE],
         [orig |-> o2, short |-> s2, user |-> u1, deleted |-> FALSE],
         [orig |-> o3, short |-> s1, user |-> u2, deleted |-> FALSE]}

\* One short URL, one named twice, two of both users' and one's.
FewLists == {<<s1>>, <<s2>>, <<s1, s1>>, <<s1, s2>>}
OneOrTwo == UNION {[1..n -> Shorts] : n \in 1..2}
Singles  == [1..1 -> Shorts]

OneDb   == [v \in Servers |-> db]
OneRows == db :> {row \in Rows : row.user \in Users /\ row.short \in Shorts}
=============================================================================
