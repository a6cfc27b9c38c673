------------------------------ MODULE MCReview ------------------------------
(* Three companies suspected of being one; 1 and 2 list the same posting.  *)
EXTENDS Review

CONSTANTS ax, bx, by, px, py, p12, p13, p23, t1, t2, t3, s1, s2

MCLister == [j \in Job |-> IF j = ax THEN 1 ELSE 2]
MCPosting == [j \in Job |-> IF j = by THEN py ELSE px]
MCSuspected ==
    [i \in PairId |-> CASE i = p12 -> <<1, 2>> [] i = p13 -> <<1, 3>> [] i = p23 -> <<2, 3>>]
MCRank == [i \in PairId |-> CASE i = p12 -> 1 [] i = p13 -> 2 [] i = p23 -> 3]

\* The user has written about 2 and starred the posting its copy of which 1 has;
\* of 1 there is nothing, an untouched form, or a note and a star, kept or taken back.
MCInit ==
    /\ Init
    /\ note[2] = t2 /\ note[3] = Null /\ mark[bx] = TRUE /\ mark[by] = Null
    /\ \/ note[1] \in {Null, Blank} /\ mark[ax] = Null /\ pair[p12] # Null
       \/ note[1] = t1 /\ mark[ax] \in BOOLEAN
    /\ pair[p13] # Null /\ pair[p23] # Null

MCSpec == MCInit /\ [][Next]_vars
=============================================================================
