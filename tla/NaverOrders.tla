----------------------------- MODULE NaverOrders -----------------------------
(***************************************************************************)
(* How an order of several lines travels from Naver to the store: the      *)
(* adapter's fetchOrders (which lines changed in the window, then their    *)
(* details in batches), the mapper that folds the lines of one batch into  *)
(* orders, and upsertOrders, which replaces an order by what it is given.  *)
(* The engine's loop is kept as far as the adapter's cursor goes: one run  *)
(* at a time, resumed from the cursor of the last successful one.          *)
(*                                                                         *)
(* Times are counted in instants at which at most one line changes, so a   *)
(* line's version is the instant of its last change.                       *)
(***************************************************************************)
EXTENDS Integers, Sequences, FiniteSets

CONSTANTS
  Line,        \* productOrders of one seller
  OrderOf,     \* [Line -> orders]: the orderId a productOrder belongs to
  Window,      \* MAX_WINDOW_MS
  Lookback,    \* defaultSinceDays of the engine
  BatchSize,   \* ORDER_QUERY_BATCH
  MaxPages,    \* maxPagesPerCycle of the engine
  MaxClock, MaxFails   \* bounds of the model

NaverAssumption ==
  /\ IsFiniteSet(Line) /\ DOMAIN OrderOf = Line
  /\ Window \in Nat \ {0} /\ Lookback \in Nat
  /\ BatchSize \in Nat \ {0} /\ MaxPages \in Nat \ {0}
  /\ MaxClock \in Nat /\ MaxFails \in Nat

VARIABLES
  clock,   \* the present instant, after every change so far
  ver,     \* version of each line at Naver, 0 before it exists
  file,    \* version of each line on file, 0 if its order has no such item
  resume,  \* cursor of the last successful run
  run,     \* the run in progress
  seen,    \* history: the last version of each line that reached the file
  swept,   \* history: the cursor the last finished page led to
  fails    \* failed runs so far (bounded by MaxFails)

vars == <<clock, ver, file, resume, run, seen, swept, fails>>

\* A cursor: the window's lower bound, and the last change listed of a window
\* whose list was cut off (moreSequence), else 0.
Cursor == [from : Nat \cup {-1}, more : Nat]
NoCursor == [from |-> -1, more |-> 0]

\* What the mapper makes of some lines of one order: their versions, 0 for the
\* lines it was not given.
Normalized == [Line -> Nat]

Idle == [pc |-> "idle", cur |-> NoCursor, next |-> NoCursor, to |-> 0,
         ids |-> {}, page |-> <<>>, pages |-> 0]

TypeOK ==
  /\ clock \in Nat /\ fails \in Nat
  /\ ver \in [Line -> Nat] /\ file \in [Line -> Nat] /\ seen \in [Line -> Nat]
  /\ resume \in Cursor /\ swept \in Cursor
  /\ run \in [pc : {"idle", "statuses", "asked", "details", "upsert"},
              cur : Cursor, next : Cursor, to : Nat,
              ids : SUBSET Line, page : Seq(SUBSET Normalized), pages : 0 .. (MaxPages - 1)]

Init ==
  /\ clock = 1 /\ fails = 0
  /\ ver = [l \in Line |-> 0] /\ file = [l \in Line |-> 0]
  /\ resume = NoCursor /\ run = Idle
  /\ seen = [l \in Line |-> 0] /\ swept = NoCursor

-----------------------------------------------------------------------------
(* Helpers *)

\* The instant a lookback starts at; nothing in the model is older than 0.
Since(n) == IF n >= Lookback THEN n - Lookback ELSE 0

WindowEnd(from) == IF from + Window < clock THEN from + Window ELSE clock

\* The lines last changed in [from, to), past what an earlier answer listed.
Changed(c, to) == {l \in Line : /\ ver[l] > 0 /\ c.from <= ver[l] /\ ver[l] < to
                                /\ ver[l] > c.more}

\* Naver lists them all, or the oldest of them and where they end: what its
\* limit is the adapter does not know.
Answers(c, to) ==
  LET all == Changed(c, to)
      upTo(k) == {l \in all : ver[l] <= ver[k]}
  IN {[lines |-> all, more |-> 0]}
     \cup {[lines |-> upTo(k), more |-> ver[k]] : k \in {j \in all : upTo(j) # all}}

\* Mutant: a list that was cut off counts as the whole window.
NextCursorIgnoringMore(c, next, more) == next

\* The rest of a list that was cut off, else the next window, else none.
NextCursor(c, next, more) ==
  IF more # 0 THEN [from |-> c.from, more |-> more] ELSE next

\* chunk: the batches the ids may be asked for in.
Batches(ids) == {b \in SUBSET ids :
                   Cardinality(b) = IF Cardinality(ids) < BatchSize
                                      THEN Cardinality(ids) ELSE BatchSize}

\* mapProductOrdersToOrders: one order per orderId, of the lines of the batch.
Normalize(batch) ==
  {[l \in Line |-> IF l \in batch /\ OrderOf[l] = o THEN ver[l] ELSE 0]
     : o \in {OrderOf[l] : l \in batch}}

\* The lines of the order d is a part of.
LinesOf(d) == {l \in Line : \E k \in Line : d[k] # 0 /\ OrderOf[k] = OrderOf[l]}

\* Mutant: one page over the cap.
PagesLeftAtCap(n) == n <= MaxPages

\* Whether a run that has read n pages may read another.
PagesLeft(n) == n < MaxPages

-----------------------------------------------------------------------------
(* A run *)

\* syncConnection starts: the last cursor, else the lookback.
Begin ==
  /\ run.pc = "idle"
  /\ run' = [Idle EXCEPT
       !.pc = "statuses",
       !.cur = IF resume = NoCursor THEN [from |-> Since(clock), more |-> 0]
                                    ELSE resume]
  /\ UNCHANGED <<clock, ver, file, resume, seen, swept, fails>>

\* fetchOrders asks for the changes of a window that ends in the present at
\* the latest; if it ends before, there is a next one.
AskStatuses ==
  /\ run.pc = "statuses"
  /\ LET to == WindowEnd(run.cur.from)
     IN run' = [run EXCEPT !.pc = "asked", !.to = to, !.page = <<>>,
                           !.next = IF to < clock THEN [from |-> to, more |-> 0]
                                                  ELSE NoCursor]
  /\ UNCHANGED <<clock, ver, file, resume, seen, swept, fails>>

\* 1) and 3): which lines changed by the time Naver answers, and the cursor.
AnswerStatuses ==
  /\ run.pc = "asked"
  /\ \E answer \in Answers(run.cur, run.to) :
       run' = [run EXCEPT !.pc = "details", !.ids = answer.lines,
                          !.next = NextCursor(run.cur, run.next, answer.more)]
  /\ UNCHANGED <<clock, ver, file, resume, seen, swept, fails>>

\* fetchOrders, 2): the present details of the next batch, normalized.
QueryDetails ==
  /\ run.pc = "details" /\ run.ids # {}
  /\ \E batch \in Batches(run.ids) :
       run' = [run EXCEPT !.ids = @ \ batch, !.page = Append(@, Normalize(batch))]
  /\ UNCHANGED <<clock, ver, file, resume, seen, swept, fails>>

EndFetch ==
  /\ run.pc = "details" /\ run.ids = {}
  /\ run' = [run EXCEPT !.pc = "upsert"]
  /\ UNCHANGED <<clock, ver, file, resume, seen, swept, fails>>

\* upsertOrders: the items of d's order are deleted and those of d created.
UpsertOrder ==
  /\ run.pc = "upsert" /\ run.page # <<>>
  /\ \E d \in Head(run.page) :
       /\ file' = [l \in Line |-> IF l \in LinesOf(d) THEN d[l] ELSE file[l]]
       /\ seen' = [l \in Line |-> IF d[l] # 0 THEN d[l] ELSE seen[l]]
       /\ run' = [run EXCEPT !.page = IF Head(@) = {d} THEN Tail(@)
                                      ELSE <<Head(@) \ {d}>> \o Tail(@)]
  /\ UNCHANGED <<clock, ver, resume, swept, fails>>

\* The loop's condition; at its end the run succeeds with the cursor it has.
EndPage ==
  /\ run.pc = "upsert" /\ run.page = <<>>
  /\ swept' = IF run.next = NoCursor THEN [from |-> run.to, more |-> 0] ELSE run.next
  /\ IF run.next # NoCursor /\ PagesLeft(run.pages + 1)
       THEN /\ run' = [run EXCEPT !.pc = "statuses", !.cur = run.next, !.pages = @ + 1]
            /\ UNCHANGED resume
       ELSE /\ run' = Idle
            /\ resume' = run.next
  /\ UNCHANGED <<clock, ver, file, seen, fails>>

\* A call throws or the process exits: the run fails, its cursor is not used.
Fail ==
  /\ run.pc # "idle" /\ fails < MaxFails
  /\ fails' = fails + 1
  /\ run' = Idle
  /\ UNCHANGED <<clock, ver, file, resume, seen, swept>>

RunStep ==
  \/ Begin \/ AskStatuses \/ AnswerStatuses \/ QueryDetails \/ EndFetch
  \/ UpsertOrder \/ EndPage

-----------------------------------------------------------------------------
(* The environment *)

\* A line is placed or changes (paid, shipped, cancelled, ...).
Change(l) ==
  /\ clock < MaxClock
  /\ ver' = [ver EXCEPT ![l] = clock]
  /\ clock' = clock + 1
  /\ UNCHANGED <<file, resume, run, seen, swept, fails>>

TimePasses ==
  /\ clock < MaxClock
  /\ clock' = clock + 1
  /\ UNCHANGED <<ver, file, resume, run, seen, swept, fails>>

Next ==
  \/ RunStep
  \/ Fail
  \/ \E l \in Line : Change(l)
  \/ TimePasses

Spec == Init /\ [][Next]_vars

\* The scheduler keeps starting runs and every call answers or throws.
Fairness == WF_vars(RunStep)
FairSpec == Spec /\ Fairness

-----------------------------------------------------------------------------
(* Properties *)

Passed(l, c) == ver[l] < c.from \/ ver[l] <= c.more

\* Whatever a sweep has left behind is on file: no change of the lookback
\* falls between two windows, between a list that was cut off and its rest,
\* between two batches of details, or between a query and the change of a
\* line while it is answered (fetchOrders, decodeCursor, the engine's resume).
SweptMeansFiled ==
  \A l \in Line : \A c \in {swept, resume} :
    Since(clock) <= ver[l] /\ ver[l] > 0 /\ Passed(l, c) => seen[l] = ver[l]

\* Every change reaches the file, unless it leaves the lookback first.
EveryChangeFiled ==
  \A l \in Line : <>[](seen[l] = ver[l] \/ ver[l] < Since(clock))

\* docs/naver-commerce-integration.md: each productOrder of an orderId is
\* folded into the items of its order.  Lines never leave their order at
\* Naver (a cancelled line stays with its status), so none leaves the file.
LinesStayOnFile == [][\A l \in Line : file[l] # 0 => file'[l] # 0]_file
=============================================================================
