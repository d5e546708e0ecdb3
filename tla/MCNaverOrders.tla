---------------------------- MODULE MCNaverOrders ----------------------------
(* Instances of NaverOrders for TLC: an order "a" of two lines and "b" of one. *)
EXTENDS NaverOrders

CONSTANTS a1, a2, b1

Orders == [l \in Line |-> IF l = b1 THEN "b" ELSE "a"]
=============================================================================
