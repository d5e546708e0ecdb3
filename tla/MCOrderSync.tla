---------------------------- MODULE MCOrderSync ----------------------------
(* Instances of OrderSync for TLC. *)
EXTENDS OrderSync, TLC

CONSTANTS c1, c2, c3, o1, o2, t1, t2, m1

HomeOne == [o \in Order |-> c1]
TickSymmetry == Permutations({t1, t2})
=============================================================================
