------------------------------- MODULE MCSeller -------------------------------
(* The values of Seller's constants for TLC. *)
EXTENDS Seller, SequencesExt, TLC

CONSTANTS s1, m1, a1, a2, b1, o1, o2, q1, q2

\* An order of two lines and one of one.
MCOrders == [l \in Line |-> IF l = b1 THEN "b" ELSE "a"]

MCMarkets == [o \in Order |-> IF o = o1 THEN "naver_smartstore" ELSE "coupang"]

\* Sheets of up to three rows of two orders: of one status or of two, with a
\* blank amount, a receiver of spaces, a quantity of zero, a status of no table
\* or a date that is none; and sheets that lack a column.
Texts == {"orderNo", "ordered at", "order status", "product name", "quantity",
          "receiver", "paid amount", "settled amount"}
SheetRow(o, status, quantity, amount, at) ==
  "orderNo" :> o @@ "ordered at" :> at @@ "order status" :> status
    @@ "product name" :> "p" @@ "quantity" :> quantity @@ "receiver" :> "r"
    @@ "paid amount" :> amount @@ "settled amount" :> 1
Paid == SheetRow("a", "paid", 2, 3, "day")
Other == SheetRow("b", "paid", 1, 2, "day")
SheetRows == {Paid, Other, SheetRow("a", "shipping", 1, 1, "no date"),
              SheetRow("a", "paid", 1, Blank, "day"), SheetRow("b", "lost", 0, 1, "day"),
              [Paid EXCEPT !["receiver"] = Spaces]}
MCSheets ==
  {[header |-> Texts, rows |-> r] :
     r \in SeqOf(SheetRows, 2) \cup {<<Paid, Other, x>> : x \in SheetRows}}
  \cup {[header |-> Texts \ {text}, rows |-> <<Paid>>] :
          text \in {"order status", "paid amount"}}

\* Books of up to three lines of two partners: invoices on and beside a
\* boundary, of one day, older than the last boundary and in the future,
\* collections of a part and of more than there is; all states of the quotes.
Posted(side, partner, amount, day) ==
  [side |-> side, partner |-> partner, amount |-> amount, day |-> day]
MCEntries == {Posted("DEBIT", "p", 3, 70), Posted("DEBIT", "p", 2, 69),
            Posted("DEBIT", "q", 2, 5), Posted("DEBIT", "q", 1, 120),
            Posted("CREDIT", "p", 4, 98), Posted("CREDIT", "q", 1, 70)}
NoMore == [q \in Quote |-> "EXPIRED"]
MCStarts ==
  {[journal |-> j, deposits |-> <<>>, quote |-> NoMore] :
     j \in SeqOf(MCEntries, 2)
           \cup {<<Posted("DEBIT", "p", 3, 70), Posted("DEBIT", "p", 2, 69), e>> : e \in MCEntries}}
  \cup {[journal |-> <<>>, deposits |-> <<Posted("CREDIT", "p", 4, 98)>>, quote |-> f] :
          f \in [Quote -> {"DRAFT", "SENT", "ACCEPTED", "EXPIRED"}]}
MCBounds == <<30, 60, 90>>

\* All that a script may need, and too little for any of them.
AllSet == {"NAVER_COMMERCE_CLIENT_ID", "NAVER_COMMERCE_CLIENT_SECRET", "COUPANG_VENDOR_ID",
           "COUPANG_ACCESS_KEY", "COUPANG_SECRET_KEY", "ESM_MASTER_ID",
           "ESM_SECRET_KEY", "ESM_CLIENT_DOMAIN", "ESM_GMARKET_SELLER_ID",
           "ESM_AUCTION_SELLER_ID"}
MCEnvs == {AllSet, AllSet \ {"NAVER_COMMERCE_CLIENT_ID", "COUPANG_VENDOR_ID",
                           "ESM_GMARKET_SELLER_ID", "ESM_AUCTION_SELLER_ID"}}

\* Each run is answered a later part of the orders, and all of the products.
MCLists == [r \in Run |-> [orders |-> [n \in 1..Pages |-> {r + n, r + n + 1}],
                         products |-> [n \in 1..Pages |-> {n}]]]
=============================================================================
