----------------------------- MODULE OrderMirror -----------------------------
(***************************************************************************)
(* What the order sync promises of the orders on file, whatever the        *)
(* engine's pages, cursors, runs and failures: a mirror that lags behind   *)
(* the marketplace.  An order on file is one the marketplace had, and it   *)
(* is only ever replaced by a later version of itself, one order at a      *)
(* time.                                                                   *)
(***************************************************************************)
EXTENDS Naturals

CONSTANT Order

VARIABLES mver,    \* version of each order at the marketplace
          stored   \* version on file

vars == <<mver, stored>>

Init ==
  /\ mver = [o \in Order |-> 0]
  /\ stored = [o \in Order |-> 0]

Change(o) ==
  /\ mver' = [mver EXCEPT ![o] = @ + 1]
  /\ UNCHANGED stored

Copy(o) ==
  /\ \E v \in stored[o] + 1 .. mver[o] : stored' = [stored EXCEPT ![o] = v]
  /\ UNCHANGED mver

Next == \E o \in Order : Change(o) \/ Copy(o)

Spec == Init /\ [][Next]_vars
=============================================================================
