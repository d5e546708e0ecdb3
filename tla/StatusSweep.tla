----------------------------- MODULE StatusSweep -----------------------------
(***************************************************************************)
(* Pulling orders from a marketplace that lists them by status only: the   *)
(* fetchOrders of the Coupang and the ESM 2.0 adapter.  A sweep goes       *)
(* through the windows of time, in each through the sites and the          *)
(* statuses, and in each list through its pages, one request a page, while *)
(* the orders go on moving from status to status.  Coupang continues a     *)
(* list by a token, ESM by a page number.                                  *)
(*                                                                         *)
(* A status is its index in the adapter's ORDER_STATUSES.                  *)
(***************************************************************************)
EXTENDS Integers, FiniteSets

CONSTANTS
  Order,       \* orders of one seller
  Rank,        \* [Order -> Nat], one to one: their places in every list
  SiteOf,      \* [Order -> 1 .. 2]: ESM's storefront (sitesFor)
  Statuses,    \* Len(ORDER_STATUSES)
  Window,      \* MAX_WINDOW_MS
  Unit,        \* what a date in a request tells apart: a day, a minute
  Lookback,    \* defaultSinceDays of the engine
  PageSize,    \* ORDER_PAGE_SIZE
  MaxPages,    \* maxPagesPerCycle of the engine
  MaxNow, MaxFails   \* bounds of the model

SweepAssumption ==
  /\ IsFiniteSet(Order)
  /\ Rank \in [Order -> Nat \ {0}] /\ SiteOf \in [Order -> 1 .. 2]
  /\ \A o, q \in Order : Rank[o] = Rank[q] => o = q
  /\ Statuses \in Nat \ {0} /\ Unit \in Nat \ {0} /\ Window \in Nat \ {0} /\ Lookback \in Nat
  /\ PageSize \in Nat \ {0} /\ MaxPages \in Nat \ {0}
  /\ MaxNow \in Nat /\ MaxFails \in Nat

VARIABLES
  market,   \* the adapter: "coupang" or "esm"
  now,      \* the time
  born,     \* the time an order was placed (paid)
  status,   \* its status, 0 before it is placed, Statuses + 1 once no list
            \* the adapter reads has it (cancelled, returned)
  resume,   \* cursor of the last successful run
  run,      \* the run in progress
  present,  \* history: the orders placed when this sweep began
  pulled,   \* history: those of them this sweep has brought to the store
  swept,    \* history: the cursor the last page stored led to
  shifted,  \* history: those of them ahead of which an order left their
            \* list of numbered pages
  fails     \* failed runs so far (bounded by MaxFails)

vars == <<market, now, born, status, resume, run, present, pulled, swept,
          shifted, fails>>

Sites == IF market = "esm" THEN 2 ELSE 1

\* Where a sweep stands.  pos: the place of the last order returned (the
\* token), or the pages of the list already read (pageIndex - 1).
Cursor == [from : Nat, site : 1 .. 2, st : 1 .. Statuses, pos : Nat]
None == [from |-> 0, site |-> 0, st |-> 0, pos |-> 0]
Idle == [pc |-> "idle", cur |-> None, next |-> None, to |-> 0, page |-> {},
         pages |-> 0]
Start(from) == [from |-> from, site |-> 1, st |-> 1, pos |-> 0]

TypeOK ==
  /\ market \in {"coupang", "esm"}
  /\ now \in Nat /\ fails \in Nat
  /\ born \in [Order -> Nat] /\ status \in [Order -> 0 .. Statuses + 1]
  /\ resume \in Cursor \cup {None} /\ swept \in Cursor \cup {None}
  /\ run \in [pc : {"idle", "fetch", "store"}, cur : Cursor \cup {None},
              next : Cursor \cup {None}, to : Nat, page : SUBSET Order, pages : 0 .. (MaxPages - 1)]
  /\ present \subseteq Order /\ pulled \subseteq Order /\ shifted \subseteq Order

Init ==
  /\ market \in {"coupang", "esm"}
  /\ now = 0 /\ fails = 0
  /\ born = [o \in Order |-> 0] /\ status = [o \in Order |-> 0]
  /\ resume = None /\ run = Idle
  /\ present = {} /\ pulled = {} /\ swept = None /\ shifted = {}

-----------------------------------------------------------------------------
(* Helpers *)

\* The time a lookback starts at; nothing in the model is older than time 0.
Since == IF now >= Lookback THEN now - Lookback ELSE 0
WindowEnd(from) == IF from + Window < now THEN from + Window ELSE now

Placed == {o \in Order : status[o] > 0}
Site(o) == IF market = "esm" THEN SiteOf[o] ELSE 1

\* formatOrderDate and formatEsmDate cut a time to its unit, and a list goes
\* to the end of the last one.
InDates(t, from, to) == from \div Unit <= t \div Unit /\ t \div Unit <= to \div Unit

\* The list a request is about: placed from the first date to the last, on the
\* site, with the status.  The marketplace orders it by Rank.
List(c, to) == {o \in Order : /\ Site(o) = c.site /\ status[o] = c.st
                              /\ InDates(born[o], c.from, to)}
Before(o, S) == Cardinality({q \in S : Rank[q] < Rank[o]})

\* The page after the token: the first orders past it.  The numbered page:
\* the orders whose places in the list fall in it.
Page(c, to) ==
  LET list == List(c, to)
      rest == {o \in list : Rank[o] > c.pos}
  IN IF market = "coupang"
       THEN {o \in rest : Before(o, rest) < PageSize}
       ELSE {o \in list : /\ c.pos * PageSize <= Before(o, list)
                          /\ Before(o, list) < (c.pos + 1) * PageSize}

\* Whether a list goes on after the page: a token is returned while orders
\* are left; a full page is taken to have a next one.
GoesOn(c, to) ==
  IF market = "coupang"
    THEN \E o \in List(c, to) : Rank[o] > c.pos /\ o \notin Page(c, to)
    ELSE Cardinality(Page(c, to)) = PageSize

\* Mutant: the last status is not reached.
NextCursorShort(c, to) ==
  IF GoesOn(c, to)
    THEN [c EXCEPT !.pos = IF market = "esm" THEN @ + 1
                           ELSE CHOOSE r \in {Rank[o] : o \in Page(c, to)} :
                                  \A o \in Page(c, to) : Rank[o] <= r]
  ELSE IF c.st + 1 < Statuses THEN [c EXCEPT !.st = @ + 1, !.pos = 0]
  ELSE IF c.site < Sites THEN [c EXCEPT !.site = @ + 1, !.st = 1, !.pos = 0]
  ELSE IF to < now THEN Start(to) ELSE None

\* The next page, else the next status, the next site, the next window.
NextCursor(c, to) ==
  IF GoesOn(c, to)
    THEN [c EXCEPT !.pos = IF market = "esm" THEN @ + 1
                           ELSE CHOOSE r \in {Rank[o] : o \in Page(c, to)} :
                                  \A o \in Page(c, to) : Rank[o] <= r]
  ELSE IF c.st < Statuses THEN [c EXCEPT !.st = @ + 1, !.pos = 0]
  ELSE IF c.site < Sites THEN [c EXCEPT !.site = @ + 1, !.st = 1, !.pos = 0]
  ELSE IF to < now THEN Start(to) ELSE None

\* Mutant: one page over the cap.
PagesLeftAtCap(n) == n <= MaxPages

\* Whether a run that has read n pages may read another.
PagesLeft(n) == n < MaxPages

-----------------------------------------------------------------------------
(* A run *)

\* syncConnection starts: the last cursor, else a new sweep of the lookback.
Begin ==
  /\ run.pc = "idle"
  /\ IF resume = None
       THEN /\ run' = [Idle EXCEPT !.pc = "fetch", !.cur = Start(Since)]
            /\ present' = {o \in Placed : Since <= born[o] /\ born[o] < now}
            /\ pulled' = {} /\ shifted' = {}
            /\ swept' = Start(Since)
       ELSE /\ run' = [Idle EXCEPT !.pc = "fetch", !.cur = resume]
            /\ UNCHANGED <<present, pulled, shifted, swept>>
  /\ UNCHANGED <<market, now, born, status, resume, fails>>

\* fetchOrders: one page and the next cursor.  The window's end and the list
\* are taken at one instant: an order that moves between the two has moved
\* before them, and one placed between them is not in present.
FetchOrders ==
  /\ run.pc = "fetch"
  /\ LET to == WindowEnd(run.cur.from)
     IN run' = [run EXCEPT !.pc = "store", !.to = to, !.page = Page(run.cur, to),
                           !.next = NextCursor(run.cur, to)]
  /\ UNCHANGED <<market, now, born, status, resume, present, pulled, swept,
                 shifted, fails>>

\* upsertOrders, and the engine's loop: the next page, or the run succeeds.
StorePage ==
  /\ run.pc = "store"
  /\ pulled' = pulled \cup (run.page \cap present)
  /\ swept' = IF run.next = None THEN Start(run.to) ELSE run.next
  /\ IF run.next # None /\ PagesLeft(run.pages + 1)
       THEN /\ run' = [Idle EXCEPT !.pc = "fetch", !.cur = run.next,
                                   !.pages = run.pages + 1]
            /\ UNCHANGED resume
       ELSE /\ run' = Idle
            /\ resume' = run.next
  /\ UNCHANGED <<market, now, born, status, present, shifted, fails>>

\* A call throws or the process exits: the run's cursor is not used.
Fail ==
  /\ run.pc # "idle" /\ fails < MaxFails
  /\ fails' = fails + 1
  /\ run' = Idle
  /\ UNCHANGED <<market, now, born, status, resume, present, pulled, swept, shifted>>

RunStep == Begin \/ FetchOrders \/ StorePage

-----------------------------------------------------------------------------
(* The environment *)

Place(o) ==
  /\ status[o] = 0
  /\ status' = [status EXCEPT ![o] = 1]
  /\ born' = [born EXCEPT ![o] = now]
  /\ UNCHANGED <<market, now, resume, run, present, pulled, swept, shifted, fails>>

\* The order moves forward, over a status or more, or leaves the lists.
Move(o, s) ==
  /\ 0 < status[o] /\ status[o] < s
  /\ status' = [status EXCEPT ![o] = s]
  /\ shifted' = shifted \cup {q \in present : /\ market = "esm" /\ Site(q) = Site(o)
                                              /\ status[q] = status[o]
                                              /\ Rank[q] > Rank[o]}
  /\ UNCHANGED <<market, now, born, resume, run, present, pulled, swept, fails>>

TimePasses ==
  /\ now < MaxNow
  /\ now' = now + 1
  /\ UNCHANGED <<market, born, status, resume, run, present, pulled, swept,
                 shifted, fails>>

Next ==
  \/ RunStep
  \/ Fail
  \/ \E o \in Order : Place(o)
  \/ \E o \in Order : \E s \in 2 .. Statuses + 1 : Move(o, s)
  \/ TimePasses

Spec == Init /\ [][Next]_vars

-----------------------------------------------------------------------------
(* Properties *)

\* A sweep at cursor c will not come to o any more.
Passed(o, c) ==
  LET to == WindowEnd(c.from)
      place == IF market = "coupang" THEN Rank[o] <= c.pos
               ELSE Before(o, List(c, to)) < c.pos * PageSize
  IN \/ born[o] < c.from
     \/ /\ born[o] < to
        /\ \/ Site(o) < c.site
           \/ Site(o) = c.site /\ status[o] < c.st
           \/ Site(o) = c.site /\ status[o] = c.st /\ place

\* An order placed before a sweep began that is still in one of the lists has
\* been stored once the sweep has passed it, however it moved on meanwhile
\* and whichever page failed: the adapters read the statuses in the order an
\* order goes through them.  With numbered pages (ESM) this excepts an order
\* ahead of which another has left their list, which may slide back over the
\* page boundary unread.
SweptMeansStored ==
  \A o \in present : \A c \in {resume, swept} :
    c # None /\ status[o] <= Statuses /\ Passed(o, c) /\ o \notin shifted
      => o \in pulled

=============================================================================
