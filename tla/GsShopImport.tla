----------------------------- MODULE GsShopImport -----------------------------
(***************************************************************************)
(* The import of GS Shop's order sheets: the columns are found by their    *)
(* header, each row is checked, the good rows of an order number become    *)
(* one order, and the orders are stored one after the other.  Uploads of   *)
(* one seller may be under way at the same time.                           *)
(*                                                                         *)
(* A sheet is its set of header texts and its rows, each a function from   *)
(* header texts to cells; the texts are named here by the field they stand *)
(* for.  What a cell's text converts to is the cell.  Some of the rows of  *)
(* a sheet are the set of their places in it, and the orders of a sheet a  *)
(* function of the first rows they have.                                   *)
(***************************************************************************)
EXTENDS Integers, Sequences, FiniteSets, FiniteSetsExt, Functions, Statuses

CONSTANTS
  OrderNo,      \* order numbers
  Blank,        \* an empty cell, or one that converts to nothing
  Spaces,       \* an optional field's cell of whitespace alone
  Sheet,        \* the sheets a seller may upload: [header, rows]
  MaxUploads    \* bound of the model

Upload == 1..MaxUploads

VARIABLES
  stored,   \* the seller's orders of GS Shop
  up        \* the uploads

vars == <<stored, up>>

-----------------------------------------------------------------------------
(* The parser *)

\* HEADER_ALIASES: the texts that head a field's column, the first one that is
\* there counts.
HeaderAliases ==
  [orderNo |-> <<"orderNo">>,
   orderedAt |-> <<"ordered at", "ordered on", "paid at">>,
   status |-> <<"order status", "handling status">>,
   buyerName |-> <<"receiver's name", "receiver", "orderer", "customer">>,
   productCode |-> <<"product code", "product no", "option code">>,
   productName |-> <<"product name">>,
   quantity |-> <<"quantity", "order quantity">>,
   amountKrw |-> <<"product amount", "paid amount", "total amount", "settled amount">>]

Field == DOMAIN HeaderAliases
RequiredFields == Field \ {"buyerName", "productCode"}

\* resolveHeaderColumns: the aliases of a field that the sheet has, by their
\* place.
Columns(sheet, f) == {k \in DOMAIN HeaderAliases[f] : HeaderAliases[f][k] \in sheet.header}

Missing(sheet) == {f \in RequiredFields : Columns(sheet, f) = {}}

\* A row as the sheet's columns give it; a cell without a column is blank.
Raw(sheet, row) ==
  [f \in Field |-> IF Columns(sheet, f) = {} THEN Blank
                   ELSE row[HeaderAliases[f][Min(Columns(sheet, f))]]]
Rows(sheet) == [i \in DOMAIN sheet.rows |-> Raw(sheet, sheet.rows[i])]

\* A cell has been converted to what its field is, or to nothing.
GsShopAssumption ==
  /\ MaxUploads \in Nat /\ Blank \notin OrderNo /\ Blank \notin Int
  /\ \A s \in Sheet :
       /\ Len(s.rows) \in Nat /\ DOMAIN s.rows = 1..Len(s.rows)
       /\ \A i \in DOMAIN s.rows :
            /\ s.header \subseteq DOMAIN s.rows[i]
            /\ Rows(s)[i].orderNo \in OrderNo \cup {Blank}
            /\ {Rows(s)[i].quantity, Rows(s)[i].amountKrw} \subseteq Int \cup {Blank}

\* GsShopRow: what the schema of a row asks for.  An optional field may be empty,
\* and may not be whitespace alone.
GsShopRow(r) ==
  /\ \A f \in RequiredFields : r[f] # Blank
  /\ \A f \in Field \ RequiredFields : r[f] # Spaces
  /\ r.quantity > 0 /\ r.amountKrw >= 0

\* parseGsShopExcel: the rows that pass, and the numbers of those that do not,
\* counted with the header.
GoodRows(rows) == {i \in DOMAIN rows : GsShopRow(rows[i])}
RowErrors(sheet) == {i + 1 : i \in DOMAIN sheet.rows \ GoodRows(Rows(sheet))}

-----------------------------------------------------------------------------
(* The mapper *)

\* Math.round(amountKrw / quantity)
UnitPrice(line) == (2 * line.amountKrw + line.quantity) \div (2 * line.quantity)

\* The order of some rows of one number; its status is theirs if they agree.
ToOrder(rows, lines) ==
  LET first == rows[Min(lines)]
      statuses == {rows[i].status : i \in lines}
  IN [orderNo |-> first.orderNo,
      orderedAt |-> first.orderedAt,
      status |-> IF statuses = {first.status} THEN first.status ELSE "MIXED",
      total |-> SumFunctionOnSet([i \in lines |-> rows[i].amountKrw], lines),
      items |-> [i \in lines |->
                   [quantity |-> rows[i].quantity, unitPrice |-> UnitPrice(rows[i])]]]

\* Mutant: only rows that follow each other are put together.
MapRowsInRuns(rows, good) ==
  LET run(i) == {j \in good : i <= j /\ \A k \in good \cap (i..j) :
                                           rows[k].orderNo = rows[i].orderNo}
      starts == {i \in good : \A j \in good : j < i => i \notin run(j)}
  IN [i \in starts |-> ToOrder(rows, run(i))]

\* mapGsShopRowsToOrders: one order per number, with all the rows of it.
SameNumber(rows, good, i) == {j \in good : rows[j].orderNo = rows[i].orderNo}
MapRows(rows, good) ==
  LET firsts == {i \in good : i = Min(SameNumber(rows, good, i))}
  IN [i \in firsts |-> ToOrder(rows, SameNumber(rows, good, i))]

-----------------------------------------------------------------------------
(* The route *)

NoOrder == [status |-> "UNKNOWN", total |-> 0, items |-> <<>>]
NotSent == [pc |-> "new", sheet |-> [header |-> {}, rows |-> <<>>], left |-> <<>>,
            errors |-> {}]

TypeOK ==
  /\ DOMAIN stored = OrderNo
  /\ \A o \in OrderNo : /\ stored[o].status \in UnifiedOrderStatus
                        /\ stored[o].total \in Nat
                        /\ \A i \in DOMAIN stored[o].items :
                             stored[o].items[i].quantity \in Nat \ {0}
  /\ \A u \in Upload :
       /\ up[u].pc \in {"new", "storing", "imported", "refused", "broken"}
       /\ up[u].sheet \in Sheet \cup {NotSent.sheet}
       /\ DOMAIN up[u].left \subseteq DOMAIN up[u].sheet.rows
       /\ up[u].errors \subseteq 2..(Len(up[u].sheet.rows) + 1)

Init ==
  /\ stored = [o \in OrderNo |-> NoOrder]
  /\ up = [u \in Upload |-> NotSent]

\* The upload of a sheet, parsed at once.  A required column is missing: 422.
Post(u) ==
  /\ up[u].pc = "new" /\ \A v \in 1..(u - 1) : up[v].pc # "new"
  /\ \E s \in Sheet :
       up' = [up EXCEPT ![u] =
         IF Missing(s) # {}
           THEN [pc |-> "refused", sheet |-> s, left |-> <<>>, errors |-> {}]
           ELSE [pc |-> "storing", sheet |-> s, left |-> MapRows(Rows(s), GoodRows(Rows(s))),
                 errors |-> RowErrors(s)]]
  /\ UNCHANGED stored

\* toIso keeps a text that is no date, which the row's schema lets pass and the
\* store does not take.
Storable(order) == order.orderedAt # "no date"

\* upsertOrders: the next order replaces the one of its number; the count ends
\* the request.
UpsertOrder(u) ==
  /\ up[u].pc = "storing" /\ DOMAIN up[u].left # {}
  /\ LET i == Min(DOMAIN up[u].left)
         order == up[u].left[i]
     IN /\ Storable(order)
        /\ stored' = [stored EXCEPT ![order.orderNo] =
             [status |-> ToUnifiedOrderStatus("gsshop", order.status),
              total |-> order.total, items |-> order.items]]
        /\ up' = [up EXCEPT ![u].left = Restrict(@, DOMAIN @ \ {i})]

Answer(u) ==
  /\ up[u].pc = "storing" /\ DOMAIN up[u].left = {}
  /\ up' = [up EXCEPT ![u].pc = "imported"]
  /\ UNCHANGED stored

\* The store refuses an order, or the process exits: what is stored stays.
Break(u) ==
  /\ up[u].pc = "storing"
  /\ up' = [up EXCEPT ![u].pc = "broken"]
  /\ UNCHANGED stored

Next == \E u \in Upload : Post(u) \/ UpsertOrder(u) \/ Answer(u) \/ Break(u)

Spec == Init /\ [][Next]_vars

-----------------------------------------------------------------------------
(* Properties *)

\* The rows of a sheet with the number o that can be read, by their place.
Lines(sheet, o) ==
  {i \in DOMAIN sheet.rows : Rows(sheet)[i].orderNo = o /\ i + 1 \notin RowErrors(sheet)}

\* What those rows say of the order, whatever stands between them.
Says(sheet, o, order) ==
  LET lines == Lines(sheet, o)
      said == {Rows(sheet)[i].status : i \in lines}
  IN /\ order.total = SumFunctionOnSet([i \in lines |-> Rows(sheet)[i].amountKrw], lines)
     /\ DOMAIN order.items = lines
     /\ \A i \in lines : order.items[i].quantity = Rows(sheet)[i].quantity
     /\ \E s \in said : order.status = IF said = {s} THEN ToUnifiedOrderStatus("gsshop", s)
                                       ELSE "MIXED"

\* The rows of the sheet with the number o that have all their cells.
Complete(sheet, o) ==
  {i \in DOMAIN sheet.rows : Rows(sheet)[i].orderNo = o
                              /\ \A f \in RequiredFields : Rows(sheet)[i][f] # Blank}

\* An order on file is what one sheet says of it, in all its readable rows,
\* never a mixture of two uploads nor a part of a sheet's rows; and an upload
\* that was answered has stored or reported every row (mapGsShopRowsToOrders,
\* parseGsShopExcel, upsertOrders).
ImportedIsItsSheet ==
  /\ \A o \in OrderNo : stored[o] # NoOrder =>
       \E u \in Upload : up[u].pc # "refused" /\ Says(up[u].sheet, o, stored[o])
  /\ \A u \in Upload : up[u].pc = "imported" =>
       \A i \in DOMAIN up[u].sheet.rows :
         \/ i + 1 \in up[u].errors
         \/ /\ stored[Rows(up[u].sheet)[i].orderNo] # NoOrder
            /\ i \in Complete(up[u].sheet, Rows(up[u].sheet)[i].orderNo)
=============================================================================
