---------------------------- MODULE MCComponents ----------------------------
(* For TLC, the totals of a sale, of which splitSupplyAndVat refuses two, and  *)
(* the orders of a sweep: two on the first site, one on the second.            *)
EXTENDS Components

CONSTANTS s1, s2, s3

MCAmount == {1, 6, 11, -1, Fraction}

MCPlaces == [o \in Sold |-> CASE o = s1 -> 1 [] o = s2 -> 2 [] o = s3 -> 3]
MCSitesOf == [o \in Sold |-> IF o = s3 THEN 2 ELSE 1]
=============================================================================
