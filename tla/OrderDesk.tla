------------------------------ MODULE OrderDesk ------------------------------
(***************************************************************************)
(* The orders page in one browser, the routes it calls and the stored      *)
(* orders, which the sync goes on replacing.  Every handler of the page    *)
(* runs to its fetch and goes on when the answer arrives; answers arrive   *)
(* in any order, or not at all, and what the seller clicks in the meantime *)
(* goes through.  The list's limit and the texts shown are left out.       *)
(***************************************************************************)
EXTENDS Integers, Statuses

CONSTANTS
  Order,        \* the seller's stored orders
  MarketOf,     \* [Order -> marketplaces]
  RawStatus,    \* the raw statuses a page of the sync may hold
  Filter,       \* what is chosen in the filter, of UnifiedOrderStatus or All
  Pick,         \* what is chosen in the order's status, of UnifiedOrderStatus
  None, All,
  MaxInFlight,  \* bound of the model: calls the browser has open
  MaxClicks,    \* bound of the model: clicks that send a call
  MaxPages      \* bound of the model: pages of the sync

Slot == 1..MaxInFlight

OrderDeskAssumption ==
  /\ DOMAIN MarketOf = Order /\ None \notin Order
  /\ Filter \subseteq UnifiedOrderStatus \cup {All} /\ All \in Filter
  /\ Pick \subseteq UnifiedOrderStatus
  /\ MaxInFlight \in Nat \ {0} /\ MaxClicks \in Nat /\ MaxPages \in Nat

VARIABLES
  stored,   \* status and raw status of each stored order
  session,  \* whether the seller's cookie is valid
  page,     \* the page in the browser
  call,     \* the calls it has open
  clicks,   \* calls clicked so far (bounded by MaxClicks)
  pages     \* pages of the sync so far (bounded by MaxPages)

vars == <<stored, session, page, call, clicks, pages>>

\* A call: what it asks, how far it is, its answer.  History of a save: whose
\* details were on the screen at the click (screen), and whether the order was
\* written by another between this write and its answer (raced).
Free == [kind |-> "free", pc |-> "sent", id |-> None, value |-> All,
         answer |-> {}, screen |-> None, raced |-> FALSE]

\* A call that was just sent.
Call(kind, id, value) == [Free EXCEPT !.kind = kind, !.id = id, !.value = value]

Row == [id : Order, status : UnifiedOrderStatus]

\* The page: the filter, the table's rows, the line above it, the order whose
\* details are rendered (screen), the one a save will name (shown), the status
\* selected for it, and the line beside the button.  History: the filter the
\* table was asked with (tableOf), whether two loads overlapped since the page
\* last began alone, and the save that was last confirmed.
NewPage == [at |-> "orders", filter |-> All, table |-> {}, line |-> "loading",
            screen |-> None, shown |-> None, select |-> "PENDING", msg |-> "",
            tableOf |-> All, overlap |-> FALSE, said |-> Free]

CallOK(c) ==
  /\ c.kind \in {"free", "list", "detail", "save", "sync"}
  /\ c.pc \in {"sent", "updated", "served", "failed", "denied"}
  /\ c.id \in Order \cup {None} /\ c.value \in UnifiedOrderStatus \cup {All}
  /\ c.answer \subseteq Row
  /\ c.screen \in Order \cup {None} /\ c.raced \in BOOLEAN

TypeOK ==
  /\ stored \in [Order -> [status : UnifiedOrderStatus, raw : RawStatus]]
  /\ session \in BOOLEAN
  /\ DOMAIN call = Slot /\ \A k \in Slot : CallOK(call[k])
  /\ page.at \in {"orders", "login"} /\ page.filter \in Filter
  /\ page.table \subseteq Row /\ page.tableOf \in Filter
  /\ page.line \in {"loading", "loaded", "syncing", "failed"}
  /\ page.screen \in Order \cup {None} /\ page.shown \in Order \cup {None}
  /\ page.select \in UnifiedOrderStatus
  /\ page.msg \in {"", "loading", "saving", "saved", "failed"}
  /\ page.overlap \in BOOLEAN /\ CallOK(page.said)
  /\ clicks \in 0..MaxClicks /\ pages \in 0..MaxPages

\* What a page of the sync stores of an order (toOrderScalarFields).
Synced(o, raw) == [status |-> ToUnifiedOrderStatus(MarketOf[o], raw), raw |-> raw]

\* The page was just opened: its script calls load().
Init ==
  /\ \E raw \in RawStatus : stored = [o \in Order |-> Synced(o, raw)]
  /\ session = TRUE /\ page = NewPage
  /\ call = [k \in Slot |-> IF k = 1 THEN Call("list", None, All) ELSE Free]
  /\ clicks = 0 /\ pages = 0

-----------------------------------------------------------------------------
(* The page: what the seller does *)

Loading == \E k \in Slot : call[k].kind = "list"

\* A click whose handler sends c, in the first slot that is free.
Click(c, page1) ==
  /\ page.at = "orders" /\ clicks < MaxClicks
  /\ \E k \in Slot :
       /\ call[k] = Free /\ \A j \in 1..(k - 1) : call[j] # Free
       /\ call' = [call EXCEPT ![k] = c]
  /\ page' = page1
  /\ clicks' = clicks + 1
  /\ UNCHANGED <<stored, session, pages>>

\* load() with the filter as it is when it is called.
LoadWith(filter) == [page EXCEPT !.filter = filter, !.line = "loading",
                                 !.overlap = Loading]

\* The filter's change event, and the refresh button.
ChooseFilter(f) == Click(Call("list", None, f), LoadWith(f))

ClickSync == Click(Call("sync", None, page.filter), [page EXCEPT !.line = "syncing"])

\* Mutant: the order that was clicked is the one a save will name at once.
OpenDetailAtOnce(o) ==
  /\ \E row \in page.table : row.id = o
  /\ Click(Call("detail", o, All), [page EXCEPT !.msg = "loading", !.shown = o])

\* openDetail, of a row of the table.
OpenDetail(o) ==
  /\ \E row \in page.table : row.id = o
  /\ Click(Call("detail", o, All), [page EXCEPT !.msg = "loading"])

\* A detail was asked for, be it answered or not: its card is there, until it is
\* closed, which nothing else depends on.
DetailOpen == page.msg # "" \/ page.shown # None

\* Another status is selected; nothing is sent.
PickStatus(s) ==
  /\ page.at = "orders" /\ DetailOpen
  /\ page' = [page EXCEPT !.select = s]
  /\ UNCHANGED <<stored, session, call, clicks, pages>>

\* The call names dataset.id, which may be unset.
SaveStatus ==
  /\ DetailOpen
  /\ Click([Call("save", page.shown, page.select) EXCEPT !.screen = page.screen],
           [page EXCEPT !.msg = "saving"])

-----------------------------------------------------------------------------
(* The server *)

\* The routes' check of the session.
Denied(k) ==
  /\ call[k].kind \in {"list", "detail", "save"} /\ call[k].pc = "sent" /\ ~session
  /\ call' = [call EXCEPT ![k].pc = "denied"]
  /\ UNCHANGED <<stored, session, page, clicks, pages>>

Serve(k, kind) == call[k].kind = kind /\ call[k].pc = "sent" /\ session

Rows(S) == {[id |-> o, status |-> stored[o].status] : o \in S}

\* listOrders: the status filter is All or one of VALID_STATUSES.
ListOrders(k) ==
  /\ Serve(k, "list")
  /\ LET f == call[k].value
     IN call' = [call EXCEPT ![k].pc = "served",
                   ![k].answer = Rows({o \in Order : f \in {All, stored[o].status}})]
  /\ UNCHANGED <<stored, session, page, clicks, pages>>

GetOrderById(k) ==
  /\ Serve(k, "detail")
  /\ call' = [call EXCEPT ![k].pc = "served", ![k].answer = Rows({call[k].id})]
  /\ UNCHANGED <<stored, session, page, clicks, pages>>

\* The saves of o that are written and not answered, but for k's.
Raced(k, o) ==
  [j \in Slot |-> IF j # k /\ call[j].pc = "updated" /\ call[j].id = o
                    THEN [call[j] EXCEPT !.raced = TRUE] ELSE call[j]]

\* updateOrderStatus: found and updated, at once as no order is ever deleted in
\* between; no order has the id: 404.
UpdateOrderStatus(k) ==
  LET o == call[k].id IN
  /\ Serve(k, "save")
  /\ IF o = None
       THEN /\ call' = [call EXCEPT ![k].pc = "failed"]
            /\ UNCHANGED stored
       ELSE /\ stored' = [stored EXCEPT ![o].status = call[k].value]
            /\ call' = [Raced(k, o) EXCEPT ![k].pc = "updated"]
  /\ UNCHANGED <<session, page, clicks, pages>>

\* updateOrderStatus: getOrderById reads the row again for the answer.
ReadBack(k) ==
  /\ call[k].pc = "updated"
  /\ call' = [call EXCEPT ![k].pc = "served", ![k].answer = Rows({call[k].id})]
  /\ UNCHANGED <<stored, session, page, clicks, pages>>

\* POST /api/sync/run has run its cycle, or cannot: no session is asked for.
RunSync(k) ==
  /\ call[k].kind = "sync" /\ call[k].pc = "sent"
  /\ \E pc \in {"served", "failed"} : call' = [call EXCEPT ![k].pc = pc]
  /\ UNCHANGED <<stored, session, page, clicks, pages>>

\* A page of a sync, this seller's or the timer's, holds the order: upsertOrders
\* writes its status over whatever the seller has saved.
SyncPage(o) ==
  /\ pages < MaxPages
  /\ \E raw \in RawStatus : stored' = [stored EXCEPT ![o] = Synced(o, raw)]
  /\ call' = Raced(0, o)
  /\ pages' = pages + 1
  /\ UNCHANGED <<session, page, clicks>>

\* The cookie expires.
Expire ==
  /\ session /\ session' = FALSE
  /\ UNCHANGED <<stored, page, call, clicks, pages>>

-----------------------------------------------------------------------------
(* The page: answers *)

\* The answer of k arrives: what it makes of the page, and of k itself.
Arrive(k, kind, pc, page1, next) ==
  /\ page.at = "orders" /\ call[k].kind = kind /\ call[k].pc = pc
  /\ page' = page1 /\ call' = [call EXCEPT ![k] = next]
  /\ UNCHANGED <<stored, session, clicks, pages>>

ListArrives(k) ==
  Arrive(k, "list", "served",
         [page EXCEPT !.table = call[k].answer, !.tableOf = call[k].value,
                      !.line = "loaded"],
         Free)

\* renderDetail of the order in the answer.
Rendered(k, msg) ==
  LET row == CHOOSE r \in call[k].answer : TRUE
  IN [page EXCEPT !.screen = row.id, !.shown = row.id, !.select = row.status,
                  !.msg = msg]

DetailArrives(k) ==
  \E row \in call[k].answer : Arrive(k, "detail", "served", Rendered(k, ""), Free)

\* The handler goes on with load(), with the filter of now.
Reload == Call("list", None, page.filter)

SaveArrives(k) ==
  \E row \in call[k].answer :
    Arrive(k, "save", "served",
           [Rendered(k, "saved") EXCEPT !.line = "loading", !.overlap = Loading,
                                        !.said = call[k]],
           Reload)

\* Mutant: the list is asked for with the filter of the click.
SyncArrivesLate(k) ==
  Arrive(k, "sync", "served", LoadWith(page.filter), Call("list", None, call[k].value))

SyncArrives(k) == Arrive(k, "sync", "served", LoadWith(page.filter), Reload)

\* An error, or no answer, whatever the server has done of it by then.  A list
\* that is answered with an error empties the table.
Fails(k) ==
  \E pc \in {"sent", "updated", "served", "failed"} :
    \/ \E rows \in {page.table, {}} :
         Arrive(k, "list", pc, [page EXCEPT !.line = "failed", !.table = rows], Free)
    \/ Arrive(k, "sync", pc, [page EXCEPT !.line = "failed"], Free)
    \/ \E kind \in {"detail", "save"} :
         Arrive(k, kind, pc, [page EXCEPT !.msg = "failed"], Free)

\* 401: to the login page, but for a save, which shows the error.
DeniedArrives(k) ==
  \/ \E kind \in {"list", "detail"} :
       Arrive(k, kind, "denied", [NewPage EXCEPT !.at = "login"], Free)
  \/ Arrive(k, "save", "denied", [page EXCEPT !.msg = "failed"], Free)

Next ==
  \/ \E f \in Filter : ChooseFilter(f)
  \/ ClickSync \/ SaveStatus
  \/ \E o \in Order : OpenDetail(o) \/ SyncPage(o)
  \/ \E s \in Pick : PickStatus(s)
  \/ \E k \in Slot :
       \/ Denied(k) \/ ListOrders(k) \/ GetOrderById(k) \/ UpdateOrderStatus(k)
       \/ ReadBack(k) \/ RunSync(k)
       \/ ListArrives(k) \/ DetailArrives(k) \/ SaveArrives(k) \/ SyncArrives(k)
       \/ Fails(k) \/ DeniedArrives(k)
  \/ Expire

Spec == Init /\ [][Next]_vars

-----------------------------------------------------------------------------
(* Properties *)

\* A save is of the order whose details the seller had before him, however
\* late the details of another one are; and what is called saved is what he
\* selected, unless the order was written again before it was read back
\* (renderDetail, openDetail, updateOrderStatus).
SavedAsShown ==
  /\ \A k \in Slot : call[k].kind = "save" => call[k].id = call[k].screen
  /\ page.msg = "saved" =>
       \/ page.said.raced
       \/ page.said.answer = {[id |-> page.said.screen, status |-> page.said.value]}

\* The table under "n orders" is the one of the filter above it, through saves
\* and syncs that end after the filter was changed; only two loads at the same
\* time may leave the older one's rows (load, ordersUrl).
TableIsOfFilter ==
  page.line = "loaded" /\ ~Loading /\ ~page.overlap => page.tableOf = page.filter
=============================================================================
