---------------------------- MODULE PurchaseOrders ----------------------------
(***************************************************************************)
(* The B2B store (B2BStore): an account's price list, and purchase orders  *)
(* priced from it and moved through their approval by concurrent HTTP      *)
(* requests.  Every operation on an order is two queries with a decision   *)
(* between them: createPurchaseOrder reads the price list, prices, then    *)
(* inserts; transition reads the order, asserts that the move is allowed,  *)
(* then updates by id alone.  An action is one request up to its next      *)
(* await.  A request that is refused (a sku without price, a move that is  *)
(* not allowed, no such order) changes nothing and is not an action.       *)
(***************************************************************************)
EXTENDS Integers, FiniteSets, FiniteSetsExt

CONSTANTS
  Sku, Price,   \* what the account buys, and the unit prices it is offered
  Quantity,     \* quantities asked for
  Po,           \* purchase orders of one account of one tenant
  Request,      \* requests open at the same time
  Asked,        \* the moves requests ask for
  NoPrice,      \* for a sku that is not on the price list
  NoPo,         \* for a request on no order
  MaxUpserts    \* bound of the model: changes of the price list

Status == {"DRAFT", "SUBMITTED", "APPROVED", "REJECTED", "FULFILLED", "CANCELLED"}

ASSUME PurchaseAssumption ==
  /\ IsFiniteSet(Sku) /\ Price \subseteq Nat /\ Quantity \subseteq Nat \ {0}
  /\ IsFiniteSet(Quantity) /\ Asked \subseteq Status \ {"DRAFT"}
  /\ NoPrice \notin Price /\ NoPo \notin Po /\ MaxUpserts \in Nat

VARIABLES
  prices,    \* the account's price list
  upserts,   \* changes of it so far (bounded by MaxUpserts)
  po,        \* the purchase orders
  req,       \* the requests
  lists,     \* history: every price list that was in force
  raced      \* history: the orders two moves were under way for at once

vars == <<prices, upserts, po, req, lists, raced>>

PriceList == [Sku -> Price \cup {NoPrice}]
Line == [sku : Sku, quantity : Quantity]
Item == [sku : Sku, quantity : Quantity, unit : Price]
\* priceLines: each line at the list's price, and their sum.  The lines of a
\* request are a set: of two lines alike there is no instance.
Items(lines, list) ==
  {[sku |-> l.sku, quantity |-> l.quantity, unit |-> list[l.sku]] : l \in lines}
Total(items) == MapThenSumSet(LAMBDA i : i.unit * i.quantity, items)

Totals == {0} \cup {Total(items) : items \in SUBSET Item}

PurchaseOrder == [status : Status \cup {"none"}, items : SUBSET Item, total : Totals,
                  stamps : SUBSET {"submittedAt", "approvedAt", "rejectedAt"}]
OpenRequest == [pc : {"free", "insert", "update"}, po : Po \cup {NoPo},
                items : SUBSET Item, total : Totals, to : Asked \cup {"none"}]

NotCreated == [status |-> "none", items |-> {}, total |-> 0, stamps |-> {}]
Free == [pc |-> "free", po |-> NoPo, items |-> {}, total |-> 0, to |-> "none"]

TypeOK ==
  /\ prices \in PriceList /\ upserts \in Nat
  /\ po \in [Po -> PurchaseOrder]
  /\ req \in [Request -> OpenRequest]
  /\ \A r \in Request : req[r].pc = "free" <=> req[r].po = NoPo
  /\ \A r \in Request : req[r].pc = "update" => req[r].to # "none"
  /\ lists \subseteq PriceList /\ raced \subseteq Po

Init ==
  /\ prices = [s \in Sku |-> NoPrice] /\ upserts = 0
  /\ po = [o \in Po |-> NotCreated]
  /\ req = [r \in Request |-> Free]
  /\ lists = {prices} /\ raced = {}

-----------------------------------------------------------------------------
(* Helpers *)

\* Mutant: an order may be approved before it is submitted.
AllowedEarly(from) ==
  CASE from = "DRAFT" -> {"SUBMITTED", "APPROVED", "CANCELLED"}
    [] from = "SUBMITTED" -> {"APPROVED", "REJECTED", "CANCELLED"}
    [] from = "APPROVED" -> {"FULFILLED"}
    [] OTHER -> {}

\* ALLOWED_TRANSITIONS.
Allowed(from) ==
  CASE from = "DRAFT" -> {"SUBMITTED", "CANCELLED"}
    [] from = "SUBMITTED" -> {"APPROVED", "REJECTED", "CANCELLED"}
    [] from = "APPROVED" -> {"FULFILLED"}
    [] OTHER -> {}

\* The timestamp a move writes beside the status.
StampOf(to) ==
  CASE to = "SUBMITTED" -> {"submittedAt"}
    [] to = "APPROVED" -> {"approvedAt"}
    [] to = "REJECTED" -> {"rejectedAt"}
    [] OTHER -> {}

-----------------------------------------------------------------------------
(* Requests *)

UpsertPrice(s, p) ==
  /\ upserts < MaxUpserts /\ upserts' = upserts + 1
  /\ prices' = [prices EXCEPT ![s] = p]
  /\ lists' = lists \cup {prices'}
  /\ UNCHANGED <<po, req, raced>>

\* Mutant: a sku without a price is not refused.
ReadPricesUnchecked(r, o, lines) ==
  /\ req[r].pc = "free" /\ po[o] = NotCreated
  /\ \A q \in Request : req[q].po # o
  /\ req' = [req EXCEPT ![r] = [pc |-> "insert", po |-> o,
                                items |-> Items(lines, prices),
                                total |-> Total(Items(lines, prices)), to |-> "none"]]
  /\ UNCHANGED <<prices, upserts, po, lists, raced>>

\* createPurchaseOrder: the list is read in one query, every sku is on it, and
\* the lines are priced.  o is the id the insert will give.
ReadPrices(r, o, lines) ==
  /\ req[r].pc = "free" /\ po[o] = NotCreated
  /\ \A q \in Request : req[q].po # o
  /\ \A l \in lines : prices[l.sku] # NoPrice
  /\ req' = [req EXCEPT ![r] = [pc |-> "insert", po |-> o,
                                items |-> Items(lines, prices),
                                total |-> Total(Items(lines, prices)), to |-> "none"]]
  /\ UNCHANGED <<prices, upserts, po, lists, raced>>

\* Mutant: the total is taken from the list in force at the insert.
InsertRepriced(r) ==
  /\ req[r].pc = "insert"
  /\ po' = [po EXCEPT ![req[r].po] = [status |-> "DRAFT", items |-> req[r].items,
                                      total |-> Total(Items(req[r].items, prices)),
                                      stamps |-> {}]]
  /\ req' = [req EXCEPT ![r] = Free]
  /\ UNCHANGED <<prices, upserts, lists, raced>>

\* The order and its items, in one insert.
Insert(r) ==
  /\ req[r].pc = "insert"
  /\ po' = [po EXCEPT ![req[r].po] = [status |-> "DRAFT", items |-> req[r].items,
                                      total |-> req[r].total, stamps |-> {}]]
  /\ req' = [req EXCEPT ![r] = Free]
  /\ UNCHANGED <<prices, upserts, lists, raced>>

\* Mutant: the move is not asserted.
ReadOrderUnasserted(r, o, to) ==
  /\ req[r].pc = "free" /\ po[o].status # "none"
  /\ req' = [req EXCEPT ![r] = [Free EXCEPT !.pc = "update", !.po = o, !.to = to]]
  /\ raced' = raced \cup {u \in {o} : \E q \in Request : req[q].pc = "update"
                                                          /\ req[q].po = u}
  /\ UNCHANGED <<prices, upserts, po, lists>>

\* transition: findFirst, then assertTransition on what it returned.
ReadOrder(r, o, to) ==
  /\ req[r].pc = "free"
  /\ to \in Allowed(po[o].status)
  /\ req' = [req EXCEPT ![r] = [Free EXCEPT !.pc = "update", !.po = o, !.to = to]]
  /\ raced' = raced \cup {u \in {o} : \E q \in Request : req[q].pc = "update"
                                                          /\ req[q].po = u}
  /\ UNCHANGED <<prices, upserts, po, lists>>

\* Mutant: the timestamp is not written.
UpdateUnstamped(r) ==
  /\ req[r].pc = "update"
  /\ po' = [po EXCEPT ![req[r].po].status = req[r].to]
  /\ req' = [req EXCEPT ![r] = Free]
  /\ UNCHANGED <<prices, upserts, lists, raced>>

\* update by id, whatever the status is by now.
Update(r) ==
  /\ req[r].pc = "update"
  /\ po' = [po EXCEPT ![req[r].po].status = req[r].to,
                      ![req[r].po].stamps = @ \cup StampOf(req[r].to)]
  /\ req' = [req EXCEPT ![r] = Free]
  /\ UNCHANGED <<prices, upserts, lists, raced>>

\* The second query throws, or the process exits between the two.
Abort(r) ==
  /\ req[r].pc # "free"
  /\ req' = [req EXCEPT ![r] = Free]
  /\ UNCHANGED <<prices, upserts, po, lists, raced>>

Next ==
  \/ \E s \in Sku : \E p \in Price : UpsertPrice(s, p)
  \/ \E r \in Request : \E o \in Po :
       \E lines \in SUBSET Line \ {{}} : ReadPrices(r, o, lines)
  \/ \E r \in Request : Insert(r)
  \/ \E r \in Request : \E o \in Po : \E to \in Asked : ReadOrder(r, o, to)
  \/ \E r \in Request : Update(r)
  \/ \E r \in Request : Abort(r)

Spec == Init /\ [][Next]_vars

-----------------------------------------------------------------------------
(* Properties *)

\* An order's prices all come from one price list that was in force, and its
\* total is their sum, whatever the list becomes between the reading and the
\* insert or later (createPurchaseOrder, priceLines).
PricedFromOneList ==
  \A o \in Po : po[o].status # "none" =>
    /\ \E list \in lists : \A i \in po[o].items : i.unit = list[i.sku]
    /\ po[o].total = Total(po[o].items)

\* An order that is approved was submitted, one that is fulfilled was
\* approved, one that is rejected was submitted, and the timestamps say so:
\* also when several requests move it at once.
ApprovalTrail ==
  \A o \in Po :
    /\ po[o].status \in {"SUBMITTED", "APPROVED", "REJECTED", "FULFILLED"}
         => "submittedAt" \in po[o].stamps
    /\ po[o].status \in {"APPROVED", "FULFILLED"} => "approvedAt" \in po[o].stamps
    /\ po[o].status = "REJECTED" => "rejectedAt" \in po[o].stamps

\* Where two moves of one order were never under way at once, every step of
\* its status is one of ALLOWED_TRANSITIONS.
LegalUnlessRaced ==
  [][\A o \in Po \ raced :
       \/ po'[o].status = po[o].status
       \/ po[o].status = "none" /\ po'[o].status = "DRAFT"
       \/ po'[o].status \in Allowed(po[o].status)]_vars

\* Why: a request that may still write read a status its move was allowed
\* from, and unless the order was raced it has that status still.
RequestInv ==
  \A r \in Request :
    /\ req[r].pc = "insert" =>
         /\ \E list \in lists : \A i \in req[r].items : i.unit = list[i.sku]
         /\ req[r].total = Total(req[r].items)
         /\ po[req[r].po] = NotCreated
    /\ req[r].pc = "update" =>
         /\ req[r].po \notin raced => req[r].to \in Allowed(po[req[r].po].status)
         /\ po[req[r].po].status # "none"
         /\ req[r].to \in {"APPROVED", "REJECTED", "FULFILLED"}
              => "submittedAt" \in po[req[r].po].stamps
         /\ req[r].to = "FULFILLED" => "approvedAt" \in po[req[r].po].stamps
    /\ \A q \in Request : q # r /\ req[r].pc # "free" /\ req[q].po = req[r].po
         => req[r].pc = "update" /\ req[q].pc = "update" /\ req[r].po \in raced

\* test/b2b.test.ts: "rejects any transition out of a terminal state".
TerminalIsFinal ==
  [][\A o \in Po : po[o].status \in {"REJECTED", "FULFILLED", "CANCELLED"}
       => po'[o].status = po[o].status]_vars
=============================================================================
