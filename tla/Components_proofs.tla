-------------------------- MODULE Components_proofs --------------------------
(***************************************************************************)
(* Components and its parts, for any constants that meet their             *)
(* assumptions: PurchaseOrders here, SalesJournal and StatusSweep by the   *)
(* proofs about them.                                                      *)
(***************************************************************************)
EXTENDS Components, TLAPS

-----------------------------------------------------------------------------
(* Types *)

\* Pricing lines that are on a price list gives items, and their sum a total.
LEMMA ItemsType ==
  ASSUME NEW lines \in SUBSET Line, NEW list \in PriceList,
         \A l \in lines : list[l.sku] # NoPrice
  PROVE  Items(lines, list) \in SUBSET Item /\ Total(Items(lines, list)) \in Totals
<1>1. ASSUME NEW l \in lines
      PROVE  [sku |-> l.sku, quantity |-> l.quantity, unit |-> list[l.sku]] \in Item
  BY <1>1 DEF Line, PriceList, Item
<1>2. Items(lines, list) \in SUBSET Item
  BY <1>1 DEF Items
<1> QED
  BY <1>2 DEF Totals

\* A stamp is one of the three columns.
LEMMA StampType ==
  ASSUME NEW to
  PROVE  StampOf(to) \subseteq {"submittedAt", "approvedAt", "rejectedAt"}
BY DEF StampOf

\* A move that is allowed starts at a status of the machine, and reaches one.
LEMMA AllowedType ==
  ASSUME NEW from, NEW to \in Allowed(from)
  PROVE  /\ from \in {"DRAFT", "SUBMITTED", "APPROVED"}
         /\ to \in {"APPROVED", "REJECTED"} => from = "SUBMITTED"
         /\ to = "FULFILLED" => from = "APPROVED"
BY DEF Allowed

\* A request at rest, and an order not created, are well formed.
LEMMA RestType == Free \in OpenRequest /\ NotCreated \in PurchaseOrder
BY DEF Free, OpenRequest, NotCreated, PurchaseOrder, Totals

\* No request asks for a status that is none.
LEMMA AskedType ==
  ASSUME NEW to \in Asked PROVE to \in Status /\ to # "none" /\ to # "DRAFT"
BY PurchaseAssumption DEF PurchaseAssumption, Status

LEMMA TypeInit == Init => TypeOK
BY RestType DEF Init, TypeOK, PriceList, Free, NotCreated

LEMMA TypeStep == TypeOK /\ [Next]_vars => TypeOK'
<1> SUFFICES ASSUME TypeOK, [Next]_vars PROVE TypeOK'
  OBVIOUS
<1>0. \A r \in Request : req[r] \in OpenRequest
  BY DEF TypeOK
<1>1. ASSUME NEW s \in Sku, NEW p \in Price, UpsertPrice(s, p) PROVE TypeOK'
  <2>1. prices' \in PriceList
    BY <1>1 DEF UpsertPrice, TypeOK, PriceList
  <2>2. upserts' \in Nat
    BY <1>1 DEF UpsertPrice, TypeOK
  <2>3. lists' \subseteq PriceList
    BY <1>1, <2>1 DEF UpsertPrice, TypeOK
  <2> QED
    BY <1>1, <2>1, <2>2, <2>3 DEF UpsertPrice, TypeOK
<1>2. ASSUME NEW r \in Request, NEW o \in Po, NEW lines \in SUBSET Line \ {{}},
             ReadPrices(r, o, lines)
      PROVE  TypeOK'
  <2>1. /\ Items(lines, prices) \in SUBSET Item
        /\ Total(Items(lines, prices)) \in Totals
    BY <1>2, ItemsType DEF ReadPrices, TypeOK
  <2>2. o # NoPo
    BY PurchaseAssumption DEF PurchaseAssumption
  <2>3. req'[r] = [pc |-> "insert", po |-> o, items |-> Items(lines, prices),
                   total |-> Total(Items(lines, prices)), to |-> "none"]
        /\ \A q \in Request : q # r => req'[q] = req[q]
    BY <1>2 DEF ReadPrices, TypeOK
  <2>4. req'[r] \in OpenRequest
    BY <2>1, <2>3 DEF OpenRequest
  <2>5. req' \in [Request -> OpenRequest]
    BY <1>0, <1>2, <2>3, <2>4 DEF ReadPrices, TypeOK
  <2> QED
    BY <1>2, <2>2, <2>3, <2>5 DEF ReadPrices, TypeOK
<1>3. ASSUME NEW r \in Request, req' = [req EXCEPT ![r] = Free]
      PROVE  /\ req' \in [Request -> OpenRequest]
             /\ \A q \in Request : req'[q].pc = "free" <=> req'[q].po = NoPo
             /\ \A q \in Request : req'[q].pc = "update" => req'[q].to # "none"
  <2>1. req'[r] = Free /\ \A q \in Request : q # r => req'[q] = req[q]
    BY <1>3 DEF TypeOK
  <2>2. req' \in [Request -> OpenRequest]
    BY <1>3, RestType DEF TypeOK
  <2> QED
    BY <2>1, <2>2 DEF TypeOK, Free
<1>4. ASSUME NEW r \in Request, Insert(r) PROVE TypeOK'
  <2>1. [status |-> "DRAFT", items |-> req[r].items, total |-> req[r].total,
         stamps |-> {}] \in PurchaseOrder
    BY <1>0 DEF PurchaseOrder, OpenRequest, Status
  <2>2. po' \in [Po -> PurchaseOrder]
    BY <1>4, <2>1 DEF Insert, TypeOK
  <2> QED
    BY <1>3, <1>4, <2>2 DEF Insert, TypeOK
<1>5. ASSUME NEW r \in Request, NEW o \in Po, NEW to \in Asked, ReadOrder(r, o, to)
      PROVE  TypeOK'
  <2>1. to # "none" /\ o # NoPo
    BY AskedType, PurchaseAssumption DEF PurchaseAssumption
  <2>2. raced' \subseteq Po
    BY <1>5 DEF ReadOrder, TypeOK
  <2>3. req'[r] = [Free EXCEPT !.pc = "update", !.po = o, !.to = to]
        /\ \A q \in Request : q # r => req'[q] = req[q]
    BY <1>5 DEF ReadOrder, TypeOK
  <2>4. req'[r] \in OpenRequest /\ req'[r].po = o /\ req'[r].to = to
    BY <2>3 DEF OpenRequest, Free, Totals
  <2>5. req' \in [Request -> OpenRequest]
    BY <1>0, <1>5, <2>3, <2>4 DEF ReadOrder, TypeOK
  <2> QED
    BY <1>5, <2>1, <2>2, <2>3, <2>4, <2>5 DEF ReadOrder, TypeOK
<1>6. ASSUME NEW r \in Request, Update(r) PROVE TypeOK'
  <2> DEFINE o == req[r].po
  <2>1. o \in Po /\ req[r].to \in Status
    BY <1>0, <1>6, AskedType DEF Update, TypeOK, OpenRequest
  <2>2. po[o] \in PurchaseOrder
    BY <2>1 DEF TypeOK
  <2>3. [po[o] EXCEPT !.status = req[r].to, !.stamps = @ \cup StampOf(req[r].to)]
          \in PurchaseOrder
    BY <2>1, <2>2, StampType DEF PurchaseOrder
  <2>4. po' = [po EXCEPT ![o] = [po[o] EXCEPT !.status = req[r].to,
                                              !.stamps = @ \cup StampOf(req[r].to)]]
    BY <1>6, <2>1, <2>2 DEF Update, TypeOK, PurchaseOrder
  <2>5. po' \in [Po -> PurchaseOrder]
    BY <2>1, <2>3, <2>4 DEF TypeOK
  <2> QED
    BY <1>3, <1>6, <2>5 DEF Update, TypeOK
<1>7. ASSUME NEW r \in Request, Abort(r) PROVE TypeOK'
  BY <1>3, <1>7 DEF Abort, TypeOK
<1>8. CASE UNCHANGED vars
  BY <1>8 DEF vars, TypeOK
<1> QED
  BY <1>1, <1>2, <1>4, <1>5, <1>6, <1>7, <1>8 DEF Next

\* Type correctness of the orders, the requests and the price list.
THEOREM TypeCorrect == Spec => []TypeOK
BY TypeInit, TypeStep, PTL DEF Spec

-----------------------------------------------------------------------------
(* What a request that read may still write *)

Inv == TypeOK /\ PricedFromOneList /\ ApprovalTrail /\ RequestInv

\* The parts of RequestInv, of one request and of two.
InsertOK(r) ==
  req[r].pc = "insert" =>
    /\ \E list \in lists : \A i \in req[r].items : i.unit = list[i.sku]
    /\ req[r].total = Total(req[r].items)
    /\ po[req[r].po] = NotCreated
UpdateOK(r) ==
  req[r].pc = "update" =>
    /\ req[r].po \notin raced => req[r].to \in Allowed(po[req[r].po].status)
    /\ po[req[r].po].status # "none"
    /\ req[r].to \in {"APPROVED", "REJECTED", "FULFILLED"}
         => "submittedAt" \in po[req[r].po].stamps
    /\ req[r].to = "FULFILLED" => "approvedAt" \in po[req[r].po].stamps
PairOK(r, q) ==
  q # r /\ req[r].pc # "free" /\ req[q].po = req[r].po
    => req[r].pc = "update" /\ req[q].pc = "update" /\ req[r].po \in raced

LEMMA RequestParts ==
  RequestInv <=> \A r \in Request : InsertOK(r) /\ UpdateOK(r)
                                    /\ \A q \in Request : PairOK(r, q)
BY DEF RequestInv, InsertOK, UpdateOK, PairOK

\* Of one order.
PricedOK(o) ==
  po[o].status # "none" =>
    /\ \E list \in lists : \A i \in po[o].items : i.unit = list[i.sku]
    /\ po[o].total = Total(po[o].items)
TrailOK(o) ==
  /\ po[o].status \in {"SUBMITTED", "APPROVED", "REJECTED", "FULFILLED"}
       => "submittedAt" \in po[o].stamps
  /\ po[o].status \in {"APPROVED", "FULFILLED"} => "approvedAt" \in po[o].stamps
  /\ po[o].status = "REJECTED" => "rejectedAt" \in po[o].stamps

LEMMA OrderParts ==
  /\ PricedFromOneList <=> \A o \in Po : PricedOK(o)
  /\ ApprovalTrail <=> \A o \in Po : TrailOK(o)
BY DEF PricedFromOneList, PricedOK, ApprovalTrail, TrailOK

\* And of the state after a step.
LEMMA NextParts ==
  ASSUME \A o \in Po : PricedOK(o)' /\ TrailOK(o)',
         \A r \in Request : InsertOK(r)' /\ UpdateOK(r)',
         \A r, q \in Request : PairOK(r, q)'
  PROVE  PricedFromOneList' /\ ApprovalTrail' /\ RequestInv'
<1>1. PricedFromOneList' /\ ApprovalTrail'
  BY DEF PricedFromOneList, PricedOK, ApprovalTrail, TrailOK
<1>2. RequestInv'
  BY DEF RequestInv, InsertOK, UpdateOK, PairOK
<1> QED
  BY <1>1, <1>2

LEMMA InvInit == Init => Inv
<1> SUFFICES ASSUME Init PROVE Inv
  OBVIOUS
<1>1. \A o \in Po : PricedOK(o) /\ TrailOK(o)
  BY DEF Init, NotCreated, PricedOK, TrailOK
<1>2. \A r \in Request : InsertOK(r) /\ UpdateOK(r) /\ \A q \in Request : PairOK(r, q)
  BY DEF Init, Free, InsertOK, UpdateOK, PairOK
<1> QED
  BY <1>1, <1>2, TypeInit, RequestParts, OrderParts DEF Inv

\* A request put to rest leaves the others as they are.
LEMMA RestStep ==
  ASSUME Inv, NEW r \in Request, req' = [req EXCEPT ![r] = Free]
  PROVE  /\ req'[r] = Free
         /\ \A q \in Request : q # r => req'[q] = req[q]
         /\ raced' = raced => \A q, s \in Request : PairOK(q, s)'
<1>1. req'[r] = Free /\ \A q \in Request : q # r => req'[q] = req[q]
  BY DEF Inv, TypeOK
<1>2. ASSUME raced' = raced, NEW q \in Request, NEW s \in Request PROVE PairOK(q, s)'
  <2>1. PairOK(q, s)
    BY RequestParts DEF Inv
  <2>2. req[q].pc # "free" => req[q].po # NoPo
    BY DEF Inv, TypeOK
  <2> QED
    BY <1>1, <1>2, <2>1, <2>2 DEF PairOK, Free
<1> QED
  BY <1>1, <1>2

LEMMA UpsertStep ==
  ASSUME Inv, NEW s \in Sku, NEW p \in Price, UpsertPrice(s, p)
  PROVE  PricedFromOneList' /\ ApprovalTrail' /\ RequestInv'
<1>1. lists \subseteq lists' /\ UNCHANGED <<po, req, raced>>
  BY DEF UpsertPrice
<1>2. \A o \in Po : PricedOK(o)' /\ TrailOK(o)'
  BY <1>1, OrderParts DEF Inv, PricedOK, TrailOK
<1>3. \A r \in Request : InsertOK(r)' /\ UpdateOK(r)' /\ \A q \in Request : PairOK(r, q)'
  BY <1>1, RequestParts DEF Inv, InsertOK, UpdateOK, PairOK
<1> QED
  BY <1>2, <1>3, NextParts

\* What is read is priced from the list in force, which lists remembers.
LEMMA ListsInv == Spec => [](prices \in lists)
<1>1. Init => prices \in lists
  BY DEF Init
<1>2. prices \in lists /\ [Next]_vars => (prices \in lists)'
  <2> SUFFICES ASSUME prices \in lists, [Next]_vars PROVE (prices \in lists)'
    OBVIOUS
  <2>1. ASSUME NEW s \in Sku, NEW p \in Price, UpsertPrice(s, p)
        PROVE  prices' \in lists'
    BY <2>1 DEF UpsertPrice
  <2>2. CASE UNCHANGED <<prices, lists>>
    BY <2>2
  <2> QED
    BY <2>1, <2>2 DEF Next, vars, ReadPrices, Insert, ReadOrder, Update, Abort
<1> QED
  BY <1>1, <1>2, PTL DEF Spec

LEMMA ReadPricesStep ==
  ASSUME Inv, prices \in lists, NEW r \in Request, NEW o \in Po,
         NEW lines \in SUBSET Line \ {{}}, ReadPrices(r, o, lines)
  PROVE  PricedFromOneList' /\ ApprovalTrail' /\ RequestInv'
<1>1. UNCHANGED <<po, lists, raced>>
  BY DEF ReadPrices
<1>2. \A u \in Po : PricedOK(u)' /\ TrailOK(u)'
  BY <1>1, OrderParts DEF Inv, PricedOK, TrailOK
<1>3. /\ req'[r] = [pc |-> "insert", po |-> o, items |-> Items(lines, prices),
                    total |-> Total(Items(lines, prices)), to |-> "none"]
      /\ \A q \in Request : q # r => req'[q] = req[q]
  BY DEF ReadPrices, Inv, TypeOK
<1>4. po[o] = NotCreated /\ \A q \in Request : req[q].po # o
  BY DEF ReadPrices
<1>5. \A i \in Items(lines, prices) : i.unit = prices[i.sku]
  BY DEF Items
<1>6. InsertOK(r)' /\ UpdateOK(r)'
  BY <1>1, <1>3, <1>4, <1>5 DEF InsertOK, UpdateOK
<1>7. ASSUME NEW q \in Request, q # r PROVE InsertOK(q)' /\ UpdateOK(q)'
  BY <1>1, <1>3, <1>7, RequestParts DEF Inv, InsertOK, UpdateOK
<1>8. ASSUME NEW q \in Request, NEW s \in Request PROVE PairOK(q, s)'
  BY <1>1, <1>3, <1>4, RequestParts DEF Inv, PairOK
<1> QED
  BY <1>2, <1>6, <1>7, <1>8, NextParts

LEMMA InsertStep ==
  ASSUME Inv, NEW r \in Request, Insert(r)
  PROVE  PricedFromOneList' /\ ApprovalTrail' /\ RequestInv'
<1>1. /\ req[r].pc = "insert" /\ UNCHANGED <<prices, lists, raced>>
      /\ req' = [req EXCEPT ![r] = Free]
  BY DEF Insert
<1>2. PICK o \in Po : o = req[r].po
  BY <1>1 DEF Inv, TypeOK, OpenRequest
<1>3. /\ po'[o] = [status |-> "DRAFT", items |-> req[r].items,
                   total |-> req[r].total, stamps |-> {}]
      /\ \A u \in Po : u # o => po'[u] = po[u]
  BY <1>2 DEF Insert, Inv, TypeOK
<1>4. InsertOK(r)
  BY RequestParts DEF Inv
<1>5. PricedOK(o)' /\ TrailOK(o)'
  BY <1>1, <1>2, <1>3, <1>4 DEF InsertOK, PricedOK, TrailOK
<1>6. ASSUME NEW u \in Po, u # o PROVE PricedOK(u)' /\ TrailOK(u)'
  BY <1>1, <1>3, <1>6, OrderParts DEF Inv, PricedOK, TrailOK
<1>7. req'[r] = Free /\ \A q \in Request : q # r => req'[q] = req[q]
  BY <1>1, RestStep
<1>8. InsertOK(r)' /\ UpdateOK(r)'
  BY <1>7 DEF InsertOK, UpdateOK, Free
<1>9. ASSUME NEW q \in Request, q # r PROVE InsertOK(q)' /\ UpdateOK(q)'
  <2>1. InsertOK(q) /\ UpdateOK(q) /\ PairOK(r, q)
    BY RequestParts DEF Inv
  <2>2. req[q].po # o
    BY <1>1, <1>2, <1>9, <2>1 DEF PairOK
  <2>3. req[q].pc # "free" => req[q].po \in Po
    BY DEF Inv, TypeOK, OpenRequest
  <2>4. req'[q] = req[q]
    BY <1>7, <1>9
  <2>5. CASE req[q].pc = "free"
    BY <2>4, <2>5 DEF InsertOK, UpdateOK
  <2>6. CASE req[q].pc # "free"
    <3>1. po'[req[q].po] = po[req[q].po]
      BY <1>3, <2>2, <2>3, <2>6
    <3> QED
      BY <1>1, <2>1, <2>4, <3>1 DEF InsertOK, UpdateOK
  <2> QED
    BY <2>5, <2>6
<1>10. \A q, s \in Request : PairOK(q, s)'
  BY <1>1, RestStep
<1> QED
  BY <1>5, <1>6, <1>8, <1>9, <1>10, NextParts

\* A read that another move is under way beside marks the order as raced; one
\* that is not read a status the move is allowed from, and its timestamps.
LEMMA ReadOrderStep ==
  ASSUME Inv, NEW r \in Request, NEW o \in Po, NEW to \in Asked, ReadOrder(r, o, to)
  PROVE  PricedFromOneList' /\ ApprovalTrail' /\ RequestInv'
<1>1. /\ UNCHANGED <<po, lists>> /\ req[r].pc = "free" /\ to \in Allowed(po[o].status)
      /\ raced \subseteq raced'
      /\ \A q \in Request : req[q].pc = "update" /\ req[q].po = o => o \in raced'
  BY DEF ReadOrder
<1>2. /\ req'[r].pc = "update" /\ req'[r].po = o /\ req'[r].to = to
      /\ \A q \in Request : q # r => req'[q] = req[q]
  BY DEF ReadOrder, Inv, TypeOK, Free
<1>3. \A u \in Po : PricedOK(u)' /\ TrailOK(u)'
  BY <1>1, OrderParts DEF Inv, PricedOK, TrailOK
<1>4. InsertOK(r)' /\ UpdateOK(r)'
  <2>1. TrailOK(o)
    BY OrderParts DEF Inv
  <2>2. /\ po[o].status \in {"DRAFT", "SUBMITTED", "APPROVED"}
        /\ to \in {"APPROVED", "REJECTED"} => po[o].status = "SUBMITTED"
        /\ to = "FULFILLED" => po[o].status = "APPROVED"
    BY <1>1, AllowedType
  <2> QED
    BY <1>1, <1>2, <2>1, <2>2 DEF InsertOK, UpdateOK, TrailOK
<1>5. ASSUME NEW q \in Request, q # r PROVE InsertOK(q)' /\ UpdateOK(q)'
  BY <1>1, <1>2, <1>5, RequestParts DEF Inv, InsertOK, UpdateOK
<1>6. ASSUME NEW q \in Request, NEW s \in Request PROVE PairOK(q, s)'
  <2>1. ASSUME NEW t \in Request, t # r, req[t].po = o PROVE req[t].pc = "update"
    <3>1. o # NoPo /\ po[o] # NotCreated
      BY <1>1, AllowedType, PurchaseAssumption DEF PurchaseAssumption, NotCreated
    <3>2. req[t].pc # "insert"
      BY <2>1, <3>1, RequestParts DEF Inv, InsertOK
    <3>3. CASE req[t].pc = "free"
      BY <2>1, <3>1, <3>3 DEF Inv, TypeOK, OpenRequest
    <3> QED
      BY <3>2, <3>3 DEF Inv, TypeOK, OpenRequest
  <2>2. PairOK(q, s) /\ PairOK(s, q)
    BY RequestParts DEF Inv
  <2>3. CASE q = r
    BY <1>1, <1>2, <2>1, <2>3 DEF PairOK
  <2>4. CASE s = r /\ q # r
    BY <1>1, <1>2, <2>1, <2>4 DEF PairOK
  <2>5. CASE q # r /\ s # r
    BY <1>1, <1>2, <2>2, <2>5 DEF PairOK
  <2> QED
    BY <2>3, <2>4, <2>5
<1> QED
  BY <1>3, <1>4, <1>5, <1>6, NextParts

LEMMA UpdateStep ==
  ASSUME Inv, NEW r \in Request, Update(r)
  PROVE  PricedFromOneList' /\ ApprovalTrail' /\ RequestInv'
<1>1. /\ req[r].pc = "update" /\ UNCHANGED <<prices, lists, raced>>
      /\ req' = [req EXCEPT ![r] = Free]
  BY DEF Update
<1>2. PICK o \in Po : o = req[r].po /\ req[r].to \in Status /\ req[r].to # "none"
  BY <1>1, AskedType DEF Inv, TypeOK, OpenRequest
<1>3. /\ po'[o].status = req[r].to /\ po'[o].items = po[o].items
      /\ po'[o].total = po[o].total
      /\ po'[o].stamps = po[o].stamps \cup StampOf(req[r].to)
      /\ \A u \in Po : u # o => po'[u] = po[u]
  BY <1>2 DEF Update, Inv, TypeOK, PurchaseOrder
<1>4. UpdateOK(r) /\ PricedOK(o) /\ TrailOK(o)
  BY <1>2, RequestParts, OrderParts DEF Inv
<1>5. PricedOK(o)'
  BY <1>1, <1>2, <1>3, <1>4 DEF UpdateOK, PricedOK
<1>6. TrailOK(o)'
  BY <1>1, <1>2, <1>3, <1>4 DEF UpdateOK, TrailOK, StampOf
<1>7. ASSUME NEW u \in Po, u # o PROVE PricedOK(u)' /\ TrailOK(u)'
  BY <1>1, <1>3, <1>7, OrderParts DEF Inv, PricedOK, TrailOK
<1>8. req'[r] = Free /\ \A q \in Request : q # r => req'[q] = req[q]
  BY <1>1, RestStep
<1>9. InsertOK(r)' /\ UpdateOK(r)'
  BY <1>8 DEF InsertOK, UpdateOK, Free
<1>10. ASSUME NEW q \in Request, q # r PROVE InsertOK(q)' /\ UpdateOK(q)'
  <2>1. InsertOK(q) /\ UpdateOK(q) /\ PairOK(r, q)
    BY RequestParts DEF Inv
  <2>2. req'[q] = req[q]
    BY <1>8, <1>10
  <2>3. CASE req[q].pc = "free"
    BY <2>2, <2>3 DEF InsertOK, UpdateOK
  <2>4. CASE req[q].pc # "free" /\ req[q].po = o
    <3>1. req[q].pc = "update" /\ o \in raced
      BY <1>1, <1>2, <1>10, <2>1, <2>4 DEF PairOK
    <3> QED
      BY <1>1, <1>2, <1>3, <2>1, <2>2, <2>4, <3>1 DEF InsertOK, UpdateOK
  <2>5. CASE req[q].pc # "free" /\ req[q].po # o
    <3>1. req[q].po \in Po
      BY <2>5 DEF Inv, TypeOK, OpenRequest
    <3>2. po'[req[q].po] = po[req[q].po]
      BY <1>3, <2>5, <3>1
    <3> QED
      BY <1>1, <2>1, <2>2, <3>2 DEF InsertOK, UpdateOK
  <2> QED
    BY <2>3, <2>4, <2>5
<1>11. \A q, s \in Request : PairOK(q, s)'
  BY <1>1, RestStep
<1> QED
  BY <1>5, <1>6, <1>7, <1>9, <1>10, <1>11, NextParts

LEMMA AbortStep ==
  ASSUME Inv, NEW r \in Request, Abort(r)
  PROVE  PricedFromOneList' /\ ApprovalTrail' /\ RequestInv'
<1>1. UNCHANGED <<po, lists, raced>> /\ req' = [req EXCEPT ![r] = Free]
  BY DEF Abort
<1>2. \A u \in Po : PricedOK(u)' /\ TrailOK(u)'
  BY <1>1, OrderParts DEF Inv, PricedOK, TrailOK
<1>3. ASSUME NEW q \in Request PROVE InsertOK(q)' /\ UpdateOK(q)'
  BY <1>1, RestStep, RequestParts DEF Inv, InsertOK, UpdateOK, Free
<1>4. \A q, s \in Request : PairOK(q, s)'
  BY <1>1, RestStep
<1> QED
  BY <1>2, <1>3, <1>4, NextParts

LEMMA InvStep == Inv /\ prices \in lists /\ [Next]_vars => Inv'
<1> SUFFICES ASSUME Inv, prices \in lists, [Next]_vars
             PROVE  PricedFromOneList' /\ ApprovalTrail' /\ RequestInv'
  BY TypeStep DEF Inv
<1>1. CASE UNCHANGED vars
  <2>1. \A u \in Po : PricedOK(u)' /\ TrailOK(u)'
    BY <1>1, OrderParts DEF Inv, vars, PricedOK, TrailOK
  <2>2. \A r \in Request : InsertOK(r)' /\ UpdateOK(r)'
                          /\ \A q \in Request : PairOK(r, q)'
    BY <1>1, RequestParts DEF Inv, vars, InsertOK, UpdateOK, PairOK
  <2> QED
    BY <2>1, <2>2, NextParts
<1>2. CASE \E s \in Sku : \E p \in Price : UpsertPrice(s, p)
  BY <1>2, UpsertStep
<1>3. CASE \E r \in Request : \E o \in Po :
             \E lines \in SUBSET Line \ {{}} : ReadPrices(r, o, lines)
  BY <1>3, ReadPricesStep
<1>4. CASE \E r \in Request : Insert(r)
  BY <1>4, InsertStep
<1>5. CASE \E r \in Request : \E o \in Po : \E to \in Asked : ReadOrder(r, o, to)
  BY <1>5, ReadOrderStep
<1>6. CASE \E r \in Request : Update(r)
  BY <1>6, UpdateStep
<1>7. CASE \E r \in Request : Abort(r)
  BY <1>7, AbortStep
<1> QED
  BY <1>1, <1>2, <1>3, <1>4, <1>5, <1>6, <1>7 DEF Next

LEMMA Invariant == Spec => []Inv
BY InvInit, InvStep, ListsInv, PTL DEF Spec

-----------------------------------------------------------------------------
(* Theorems *)

\* Whatever the price list becomes between the reading and the insert, an
\* order is priced from one list (createPurchaseOrder).
THEOREM OnePriceList == Spec => []PricedFromOneList
BY Invariant, PTL DEF Inv

\* However many requests move an order at once, it is never approved without
\* having been submitted, nor fulfilled without having been approved
\* (transition).
THEOREM Trail == Spec => [](ApprovalTrail /\ RequestInv)
BY Invariant, PTL DEF Inv

\* Only a race of two moves of one order takes it along an edge that
\* ALLOWED_TRANSITIONS does not have.
THEOREM Legal == Spec => LegalUnlessRaced
<1> DEFINE Step == \A o \in Po \ raced :
                     \/ po'[o].status = po[o].status
                     \/ po[o].status = "none" /\ po'[o].status = "DRAFT"
                     \/ po'[o].status \in Allowed(po[o].status)
<1>1. ASSUME Inv, [Next]_vars PROVE [Step]_vars
  <2>1. CASE UNCHANGED vars
    BY <2>1
  <2>2. ASSUME NEW r \in Request, Insert(r) PROVE Step
    <3>1. req[r].po \in Po /\ po[req[r].po].status = "none"
      BY <1>1, <2>2, RequestParts DEF Inv, Insert, TypeOK, OpenRequest, InsertOK,
                                      NotCreated
    <3> QED
      BY <1>1, <2>2, <3>1 DEF Insert, Inv, TypeOK
  <2>3. ASSUME NEW r \in Request, Update(r) PROVE Step
    <3>1. req[r].po \in Po /\ UpdateOK(r) /\ req[r].pc = "update"
      BY <1>1, <2>3, RequestParts DEF Inv, Update, TypeOK, OpenRequest
    <3>2. /\ po'[req[r].po].status = req[r].to
          /\ \A o \in Po : o # req[r].po => po'[o] = po[o]
      BY <1>1, <2>3, <3>1 DEF Update, Inv, TypeOK, PurchaseOrder
    <3> QED
      BY <3>1, <3>2 DEF UpdateOK
  <2>4. CASE UNCHANGED po
    BY <2>4
  <2> QED
    BY <1>1, <2>1, <2>2, <2>3, <2>4 DEF Next, UpsertPrice, ReadPrices, ReadOrder, Abort
<1> QED
  BY <1>1, Invariant, PTL DEF Spec, LegalUnlessRaced
\* What a request has read still holds when it writes: the inductive invariant
\* the theorems above rest on (createPurchaseOrder, transition).
THEOREM ReadStillHolds == Spec => []RequestInv
BY Invariant, PTL DEF Inv

-----------------------------------------------------------------------------
(* The journal, by the proofs about SalesJournal *)

Posts == INSTANCE SalesJournal_proofs WITH raced <- posting

\* The two instances of SalesJournal are of one module and one substitution.
LEMMA SameJournal ==
  /\ Journal!Init => Posts!Init
  /\ [Journal!Next]_<<ledger, partner, journal, call, posting, fails>>
       => [Posts!Next]_<<ledger, partner, journal, call, posting, fails>>
  /\ Journal!JournalAssumption => Posts!JournalAssumption
<1>1. Journal!Init => Posts!Init
  BY DEF Journal!Init, Posts!Init, Journal!Free, Posts!Free
<1>2. [Journal!Next]_<<ledger, partner, journal, call, posting, fails>>
        => [Posts!Next]_<<ledger, partner, journal, call, posting, fails>>
  BY DEF Journal!Next, Posts!Next, Journal!Begin, Posts!Begin, Journal!Find, Posts!Find,
         Journal!Free, Posts!Free, Journal!Posting, Posts!Posting, Journal!Seed, Posts!Seed,
         Journal!Core, Posts!Core, Journal!Partner, Posts!Partner, Journal!Splits, Posts!Splits, Journal!Balanced,
         Posts!Balanced, Journal!AmountOf, Posts!AmountOf, Journal!SaleLines,
         Posts!SaleLines, Journal!Supply, Posts!Supply, Journal!Receivable,
         Posts!Receivable, Journal!Revenue, Posts!Revenue, Journal!Vat, Posts!Vat,
         Journal!ReadAccounts, Posts!ReadAccounts, Journal!Create, Posts!Create,
         Journal!Fail, Posts!Fail
<1>3. Journal!JournalAssumption => Posts!JournalAssumption
  BY DEF Journal!JournalAssumption, Posts!JournalAssumption
<1> QED
  BY <1>1, <1>2, <1>3

LEMMA JournalSpec == Journal!Spec => Posts!Spec
BY SameJournal, PTL DEF Journal!Spec, Posts!Spec, Journal!vars, Posts!vars

\* Every line of every entry is a natural number of won, and the calls keep to
\* their steps, for any orders, calls and amounts (splitSupplyAndVat).
THEOREM JournalTypeCorrect == Journal!Spec => []JournalTypeOK
<1>1. Posts!JournalAssumption
  BY ComponentsAssumption, SameJournal
<1>2. Posts!Spec => []Posts!TypeOK
  BY <1>1, Posts!TypeCorrect
<1>3. Posts!TypeOK => JournalTypeOK
  BY DEF Posts!TypeOK, JournalTypeOK, Journal!TypeOK, Posts!JournalLine, Journal!JournalLine,
         Posts!Core, Journal!Core, Posts!Receivable, Journal!Receivable, Posts!Revenue,
         Journal!Revenue, Posts!Vat, Journal!Vat
<1> QED
  BY <1>2, <1>3, JournalSpec, PTL

\* An order has one entry at most, however often it is posted and wherever a
\* call stopped, unless two calls were posting it at once
\* (postSalesJournalEntry).
THEOREM OneEntry == Journal!Spec => []OneEntryUnlessRaced
<1>1. Posts!JournalAssumption
  BY ComponentsAssumption, SameJournal
<1>2. Posts!Spec => []Posts!OneEntryUnlessRaced
  BY <1>1, Posts!OneEntry
<1>3. Posts!OneEntryUnlessRaced => OneEntryUnlessRaced
  BY DEF Posts!OneEntryUnlessRaced, OneEntryUnlessRaced, Journal!OneEntryUnlessRaced
<1> QED
  BY <1>2, <1>3, JournalSpec, PTL

\* Whichever calls have seeded the chart and wherever each of them stopped, the
\* accounts of a sale are found, and every entry on file balances, whatever
\* totals were asked for (postSalesJournalEntry, splitSupplyAndVat).
THEOREM FiledInFull == Journal!Spec => []PostedInFull
<1>1. Posts!JournalAssumption
  BY ComponentsAssumption, SameJournal
<1>2. Posts!Spec => []Posts!PostedInFull
  BY <1>1, Posts!FiledInFull
<1>3. Posts!PostedInFull => PostedInFull
  BY DEF Posts!PostedInFull, PostedInFull, Journal!PostedInFull,
         Journal!Balanced, Posts!Balanced, Journal!AmountOf, Posts!AmountOf,
         Journal!SaleLines, Posts!SaleLines, Journal!Supply, Posts!Supply,
         Journal!Receivable, Posts!Receivable, Journal!Revenue, Posts!Revenue,
         Journal!Vat, Posts!Vat
<1> QED
  BY <1>2, <1>3, JournalSpec, PTL
-----------------------------------------------------------------------------
(* The sweep, by the proofs about StatusSweep *)

Sweeps == INSTANCE StatusSweep_proofs WITH
  Order <- Sold, Rank <- Places, SiteOf <- SitesOf, fails <- sweepFails

\* The two instances of StatusSweep are of one module and one substitution.
LEMMA SameSweep ==
  /\ Sweep!Init => Sweeps!Init
  /\ [Sweep!Next]_<<market, now, born, status, resume, run, present, pulled, swept, shifted,
                    sweepFails>>
       => [Sweeps!Next]_<<market, now, born, status, resume, run, present, pulled, swept,
                          shifted, sweepFails>>
  /\ Sweep!SweepAssumption => Sweeps!SweepAssumption
<1>1. Sweep!Init => Sweeps!Init
  BY DEF Sweep!Init, Sweeps!Init, Sweep!Idle, Sweeps!Idle, Sweep!None, Sweeps!None
<1>2. [Sweep!Next]_<<market, now, born, status, resume, run, present, pulled, swept, shifted,
                     sweepFails>>
        => [Sweeps!Next]_<<market, now, born, status, resume, run, present, pulled, swept,
                           shifted, sweepFails>>
  <2>1. Sweep!RunStep => Sweeps!RunStep
    BY DEF Sweep!RunStep, Sweeps!RunStep, Sweep!Begin, Sweeps!Begin, Sweep!FetchOrders,
           Sweeps!FetchOrders, Sweep!StorePage, Sweeps!StorePage, Sweep!Idle, Sweeps!Idle,
           Sweep!None, Sweeps!None, Sweep!Start, Sweeps!Start, Sweep!Since, Sweeps!Since,
           Sweep!Placed, Sweeps!Placed, Sweep!WindowEnd, Sweeps!WindowEnd, Sweep!Page,
           Sweeps!Page, Sweep!List, Sweeps!List, Sweep!Before, Sweeps!Before, Sweep!Site,
           Sweeps!Site, Sweep!InDates, Sweeps!InDates, Sweep!NextCursor, Sweeps!NextCursor,
           Sweep!GoesOn, Sweeps!GoesOn, Sweep!Sites, Sweeps!Sites, Sweep!PagesLeft, Sweeps!PagesLeft,
           Sweep!Cardinality, Sweeps!Cardinality
  <2>2. Sweep!Fail => Sweeps!Fail
    BY DEF Sweep!Fail, Sweeps!Fail, Sweep!Idle, Sweeps!Idle, Sweep!None, Sweeps!None
  <2>3. \A o \in Sold : /\ Sweep!Place(o) => Sweeps!Place(o)
                        /\ \A s : Sweep!Move(o, s) => Sweeps!Move(o, s)
    BY DEF Sweep!Place, Sweeps!Place, Sweep!Move, Sweeps!Move, Sweep!Site, Sweeps!Site
  <2>4. Sweep!TimePasses => Sweeps!TimePasses
    BY DEF Sweep!TimePasses, Sweeps!TimePasses
  <2> QED
    BY <2>1, <2>2, <2>3, <2>4 DEF Sweep!Next, Sweeps!Next
<1>3. Sweep!SweepAssumption => Sweeps!SweepAssumption
  BY DEF Sweep!SweepAssumption, Sweeps!SweepAssumption, Sweep!IsFiniteSet,
         Sweeps!IsFiniteSet
<1> QED
  BY <1>1, <1>2, <1>3

LEMMA SweepSpec == Sweep!Spec => Sweeps!Spec
BY SameSweep, PTL DEF Sweep!Spec, Sweeps!Spec, Sweep!vars, Sweeps!vars

\* The orders, the cursors and the run of a sweep keep to their types.
THEOREM SweepTypeCorrect == Sweep!Spec => []SweepTypeOK
<1>1. Sweeps!SweepAssumption
  BY ComponentsAssumption, SameSweep
<1>2. Sweeps!Spec => []Sweeps!TypeOK
  BY <1>1, Sweeps!SweepTypeCorrect
<1>3. Sweeps!TypeOK => SweepTypeOK
  BY DEF Sweeps!TypeOK, SweepTypeOK, Sweep!TypeOK, Sweeps!Cursor, Sweep!Cursor, Sweeps!None,
         Sweep!None
<1> QED
  BY <1>2, <1>3, SweepSpec, PTL

\* An order that a sweep has passed is in the store, for any lists, pages and
\* windows, however the orders move on and whichever runs fail (fetchOrders of
\* the Coupang and the ESM adapter).
THEOREM Stored == Sweep!Spec => []SweptMeansStored
<1>1. Sweeps!SweepAssumption
  BY ComponentsAssumption, SameSweep
<1>2. Sweeps!Spec => []Sweeps!SweptMeansStored
  BY <1>1, Sweeps!Stored
<1>3. Sweeps!SweptMeansStored => SweptMeansStored
  BY DEF Sweeps!SweptMeansStored, SweptMeansStored, Sweep!SweptMeansStored, Sweeps!Passed,
         Sweep!Passed, Sweeps!None, Sweep!None, Sweeps!WindowEnd, Sweep!WindowEnd,
         Sweeps!Before, Sweep!Before, Sweeps!List, Sweep!List, Sweeps!Site, Sweep!Site,
         Sweeps!InDates, Sweep!InDates, Sweep!Cardinality, Sweeps!Cardinality
<1> QED
  BY <1>2, <1>3, SweepSpec, PTL

-----------------------------------------------------------------------------
(* The three together *)

LEMMA Each == ComponentsSpec => Spec /\ Journal!Spec /\ Sweep!Spec
<1> DEFINE All == PurchaseNext \/ JournalNext \/ SweepNext
<1>1. [All]_<<vars, journalVars, sweepVars>> => [Next]_vars
  BY DEF PurchaseNext, JournalNext, SweepNext
<1>2. [All]_<<vars, journalVars, sweepVars>>
        => [Journal!Next]_<<ledger, partner, journal, call, posting, fails>>
  BY DEF PurchaseNext, JournalNext, SweepNext, journalVars
<1>3. [All]_<<vars, journalVars, sweepVars>>
        => [Sweep!Next]_<<market, now, born, status, resume, run, present, pulled, swept,
                          shifted, sweepFails>>
  BY DEF PurchaseNext, JournalNext, SweepNext, sweepVars
<1>4. ComponentsInit => Init /\ Journal!Init /\ Sweep!Init
  BY DEF ComponentsInit
<1> QED
  BY <1>1, <1>2, <1>3, <1>4, PTL
  DEF ComponentsSpec, Spec, Journal!Spec, Journal!vars, Sweep!Spec, Sweep!vars

\* The composed run keeps every invariant proved of its parts.
THEOREM ComponentsCorrect ==
  ComponentsSpec => [](/\ PricedFromOneList /\ ApprovalTrail /\ RequestInv
                       /\ OneEntryUnlessRaced /\ PostedInFull /\ SweptMeansStored)
BY Each, OnePriceList, Trail, ReadStillHolds, OneEntry, FiledInFull, Stored, PTL
=============================================================================
