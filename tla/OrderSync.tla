------------------------------ MODULE OrderSync ------------------------------
(***************************************************************************)
(* The order-sync loop: OrderSyncEngine over PrismaDomainStore, driven by  *)
(* the in-process scheduler and by POST /api/sync/run.  A cycle is one     *)
(* call of syncAll: a scheduler tick (Tick holds the activations of the    *)
(* setInterval callback that can be pending at once) or a manual run.      *)
(* Node runs one callback at a time, so a cycle gives way to the others    *)
(* only at an await: every action below is the code between two awaits,    *)
(* the effect of the awaited call included.                                *)
(*                                                                         *)
(* The marketplace is a set of orders, each with the version of its last   *)
(* change and the time of that change.  Time is counted in the adapter's   *)
(* query windows (24 hours for Naver): a page is one window, a cursor is   *)
(* the window the next page starts at.  Pages within a window are the      *)
(* adapters' business and are not distinguished here.                      *)
(***************************************************************************)
EXTENDS Integers, Sequences

CONSTANTS
  Conn,        \* active marketplace connections
  Order,       \* orders of all connections
  Home,        \* [Order -> Conn]: the connection an order arrives through
  Tick,        \* activations of the scheduler's tick callback
  Manual,      \* concurrent calls of POST /api/sync/run
  Lookback,    \* windows read by a run that has no cursor (defaultSinceDays)
  MaxPages,    \* maxPagesPerCycle
  NoAdapter,   \* connections whose marketplace has no adapter registered
  Broken,      \* connections whose marketplace rejects every call
  Corrupt,     \* connections whose stored credential does not decrypt
  None,        \* no cycle, no connection
  MaxNow, MaxVersion, MaxFaults, MaxCalls   \* bounds of the model

Cycle == Tick \cup Manual
NoCursor == -1

ASSUME ConnAssumption ==
  /\ Home \in [Order -> Conn]
  /\ NoAdapter \subseteq Conn /\ Broken \subseteq Conn /\ Corrupt \subseteq Conn
  /\ None \notin Conn /\ None \notin Cycle
  /\ Tick \cap Manual = {}
ASSUME NumberAssumption ==
  /\ Lookback \in Nat /\ MaxPages \in Nat \ {0}
  /\ MaxNow \in Nat /\ MaxVersion \in Nat
  /\ MaxFaults \in Nat /\ MaxCalls \in Nat

VARIABLES
  now,      \* the current window
  mver,     \* version of each order at its marketplace, 0 before it exists
  chg,      \* window of the order's last change at the marketplace
  stored,   \* version of each order on file (Order and its OrderItem rows)
  runs,     \* SyncRun rows of each connection in startedAt order, less those
            \* no query returns again: the ones before the latest success,
            \* and a failed one once a later run has started
  running,  \* the scheduler's flag
  cyc,      \* the local state of each cycle
  faults,   \* awaited calls that threw and process exits (bounded by MaxFaults)
  calls     \* manual runs asked for so far (bounded by MaxCalls)

market == <<now, mver, chg>>
vars == <<now, mver, chg, stored, runs, running, cyc, faults, calls>>

Cursor == Nat \cup {NoCursor}
Row == [by : Cycle \cup {None}, status : {"running", "success", "failed"},
        cursor : Cursor]
Local == [pc : {"idle", "load", "next", "cursor", "fetch", "upsert",
                "finish", "fail"},
          todo : SUBSET Conn, conn : Conn \cup {None}, since : Nat,
          cursor : Cursor, pages : 0 .. MaxPages, page : SUBSET (Order \X Nat),
          next : Cursor]

Idle == [pc |-> "idle", todo |-> {}, conn |-> None, since |-> 0,
         cursor |-> NoCursor, pages |-> 0, page |-> {}, next |-> NoCursor]

\* A cycle between recordSyncStart and the end of its run.
Syncing(p) == cyc[p].pc \in {"cursor", "fetch", "upsert", "finish", "fail"}

TypeOK ==
  /\ now \in Nat
  /\ mver \in [Order -> Nat] /\ chg \in [Order -> Nat] /\ stored \in [Order -> Nat]
  /\ runs \in [Conn -> Seq(Row)]
  /\ running \in BOOLEAN
  /\ cyc \in [Cycle -> Local]
  /\ \A p \in Cycle :
       /\ Syncing(p) => cyc[p].conn # None
       /\ cyc[p].pc \in {"fetch", "upsert"} => cyc[p].pages < MaxPages
  /\ faults \in Nat /\ calls \in Nat

Init ==
  /\ now = 0
  /\ mver = [o \in Order |-> 0] /\ chg = [o \in Order |-> 0]
  /\ stored = [o \in Order |-> 0]
  /\ runs = [c \in Conn |-> <<>>]
  /\ running = FALSE
  /\ cyc = [p \in Cycle |-> Idle]
  /\ faults = 0 /\ calls = 0

-----------------------------------------------------------------------------
(* Helpers *)

\* The window a lookback taken at window n starts at; nothing in the model is
\* older than its first window.
Since(n) == IF n >= Lookback THEN n - Lookback ELSE 0

\* getLastCursor: the cursor of the latest success, which is the first row kept.
ResumePoint(s) ==
  IF s # <<>> /\ s[1].status = "success" THEN s[1].cursor ELSE NoCursor
LastCursor(c) == ResumePoint(runs[c])

\* The window a cycle reads next: its cursor, or its lookback without one.
Position(p) == IF cyc[p].cursor = NoCursor THEN cyc[p].since ELSE cyc[p].cursor

\* What an adapter returns for window w of connection c: the orders last
\* changed in it at their present version, and the next window while one is
\* left before the present.
Page(c, w) == {<<o, mver[o]>> : o \in {q \in Order : /\ Home[q] = c
                                                     /\ chg[q] = w
                                                     /\ mver[q] > 0}}
\* Mutant: the present window is left behind as well.
NextCursorPastPresent(w) == IF w <= now THEN w + 1 ELSE NoCursor

\* Mutant: at the present window the cursor is kept and not dropped.
NextCursorHeld(w) == IF w < now THEN w + 1 ELSE w

NextCursor(w) == IF w < now THEN w + 1 ELSE NoCursor

\* Mutant: one page over the cap.
PagesLeftAtCap(n) == n <= MaxPages

\* Whether a run that has read n pages may read another.
PagesLeft(n) == n < MaxPages

\* The rows still read once another run starts.
Kept(s) == IF s # <<>> /\ s[Len(s)].status = "failed"
             THEN SubSeq(s, 1, Len(s) - 1) ELSE s

\* The rows s with the one cycle p holds replaced by row.
SetRow(s, p, row) == [i \in DOMAIN s |-> IF s[i].by = p THEN row ELSE s[i]]

\* The row of a run nobody will finish: it stays "running".
Orphan(s, p) ==
  SetRow(s, p, [by |-> None, status |-> "running", cursor |-> NoCursor])

\* Mutant: the flag is not cleared (no finally).
EndKeepsFlag(p) ==
  /\ cyc' = [cyc EXCEPT ![p] = Idle]
  /\ UNCHANGED running

\* The cycle ends: syncAll returns, or rejects and onError("scheduler") or
\* the route's error handler takes over; a tick's finally clears the flag.
End(p) ==
  /\ cyc' = [cyc EXCEPT ![p] = Idle]
  /\ running' = IF p \in Tick THEN FALSE ELSE running

\* An awaited call throws, or the process exits.
Fault ==
  /\ faults < MaxFaults
  /\ faults' = faults + 1

-----------------------------------------------------------------------------
(* A cycle *)

\* Mutant: the flag is not looked at.
BeginTickUnchecked(t) ==
  /\ cyc[t].pc = "idle"
  /\ running' = TRUE
  /\ cyc' = [cyc EXCEPT ![t].pc = "load"]
  /\ UNCHANGED <<market, stored, runs, faults, calls>>

\* tick: nothing while another tick runs.
BeginTick(t) ==
  /\ cyc[t].pc = "idle" /\ ~running
  /\ running' = TRUE
  /\ cyc' = [cyc EXCEPT ![t].pc = "load"]
  /\ UNCHANGED <<market, stored, runs, faults, calls>>

\* POST /api/sync/run calls runSync, which does not look at the flag.
BeginManual(m) ==
  /\ cyc[m].pc = "idle" /\ calls < MaxCalls
  /\ calls' = calls + 1
  /\ cyc' = [cyc EXCEPT ![m].pc = "load"]
  /\ UNCHANGED <<market, stored, runs, running, faults>>

\* loadConnections: every active connection, all credentials decrypted.
Load(p) ==
  /\ cyc[p].pc = "load" /\ Corrupt = {}
  /\ cyc' = [cyc EXCEPT ![p].pc = "next", ![p].todo = Conn]
  /\ UNCHANGED <<market, stored, runs, running, faults, calls>>

\* One credential that does not decrypt rejects the Promise.all.
LoadFails(p) ==
  /\ cyc[p].pc = "load"
  /\ IF Corrupt = {} THEN Fault ELSE UNCHANGED faults
  /\ End(p)
  /\ UNCHANGED <<market, stored, runs, calls>>

\* syncConnection of a marketplace without adapter: a failed summary, no run.
Skip(p, c) ==
  /\ cyc[p].pc = "next" /\ c \in cyc[p].todo /\ c \in NoAdapter
  /\ cyc' = [cyc EXCEPT ![p].todo = @ \ {c}]
  /\ UNCHANGED <<market, stored, runs, running, faults, calls>>

\* recordSyncStart inserts the row; the lookback is computed when it returns.
StartRun(p, c) ==
  /\ cyc[p].pc = "next" /\ c \in cyc[p].todo \ NoAdapter
  /\ runs' = [runs EXCEPT ![c] = Append(Kept(@),
                [by |-> p, status |-> "running", cursor |-> NoCursor])]
  /\ cyc' = [cyc EXCEPT ![p].pc = "cursor", ![p].todo = @ \ {c},
                        ![p].conn = c, ![p].since = Since(now)]
  /\ UNCHANGED <<market, stored, running, faults, calls>>

\* recordSyncStart throws outside the try: the cycle ends for every connection.
StartFails(p) ==
  /\ cyc[p].pc = "next" /\ cyc[p].todo \ NoAdapter # {}
  /\ Fault /\ End(p)
  /\ UNCHANGED <<market, stored, runs, calls>>

ReadCursor(p) ==
  /\ cyc[p].pc = "cursor"
  /\ cyc' = [cyc EXCEPT ![p].pc = "fetch", ![p].pages = 0,
                        ![p].cursor = LastCursor(cyc[p].conn)]
  /\ UNCHANGED <<market, stored, runs, running, faults, calls>>

\* getLastCursor throws, outside the try too: the run is never closed.
ReadCursorFails(p) ==
  /\ cyc[p].pc = "cursor"
  /\ Fault /\ End(p)
  /\ runs' = [runs EXCEPT ![cyc[p].conn] = Orphan(@, p)]
  /\ UNCHANGED <<market, stored, calls>>

Fetch(p) ==
  /\ cyc[p].pc = "fetch" /\ cyc[p].conn \notin Broken
  /\ cyc' = [cyc EXCEPT ![p].pc = "upsert",
                        ![p].page = Page(cyc[p].conn, Position(p)),
                        ![p].next = NextCursor(Position(p))]
  /\ UNCHANGED <<market, stored, runs, running, faults, calls>>

FetchFails(p) ==
  /\ cyc[p].pc = "fetch"
  /\ IF cyc[p].conn \in Broken THEN UNCHANGED faults ELSE Fault
  /\ cyc' = [cyc EXCEPT ![p].pc = "fail"]
  /\ UNCHANGED <<market, stored, runs, running, calls>>

\* upsertOrders: one transaction per order, scalars and items replaced.
UpsertOrder(p) ==
  /\ cyc[p].pc = "upsert"
  /\ \E e \in cyc[p].page :
       /\ stored' = [stored EXCEPT ![e[1]] = e[2]]
       /\ cyc' = [cyc EXCEPT ![p].page = @ \ {e}]
  /\ UNCHANGED <<market, runs, running, faults, calls>>

\* One upsert (or the count after them) throws: the orders before it stay.
UpsertFails(p) ==
  /\ cyc[p].pc = "upsert"
  /\ Fault
  /\ cyc' = [cyc EXCEPT ![p].pc = "fail", ![p].page = {}]
  /\ UNCHANGED <<market, stored, runs, running, calls>>

\* The page is on file: the cursor moves on, and the loop's condition decides.
EndPage(p) ==
  /\ cyc[p].pc = "upsert" /\ cyc[p].page = {}
  /\ cyc' = [cyc EXCEPT
       ![p].pc = IF cyc[p].next # NoCursor /\ PagesLeft(cyc[p].pages + 1)
                   THEN "fetch" ELSE "finish",
       ![p].cursor = cyc[p].next, ![p].pages = @ + 1]
  /\ UNCHANGED <<market, stored, runs, running, faults, calls>>

\* recordSyncFinish "success" with the last page's cursor.  The rows started
\* before it will not be read again.  (A commit whose answer is lost is
\* overwritten by the catch block and adds no behaviour to FinishFails.)
Finish(p) ==
  /\ cyc[p].pc = "finish"
  /\ LET c == cyc[p].conn
         row == [by |-> None, status |-> "success", cursor |-> cyc[p].cursor]
     IN \/ \E i \in DOMAIN runs[c] :
             /\ runs[c][i].by = p
             /\ runs' = [runs EXCEPT
                  ![c] = SubSeq([@ EXCEPT ![i] = row], i, Len(@))]
        \/ /\ \A i \in DOMAIN runs[c] : runs[c][i].by # p
           /\ UNCHANGED runs
  /\ cyc' = [cyc EXCEPT ![p] = [Idle EXCEPT !.pc = "next", !.todo = cyc[p].todo]]
  /\ UNCHANGED <<market, stored, running, faults, calls>>

FinishFails(p) ==
  /\ cyc[p].pc = "finish"
  /\ Fault
  /\ cyc' = [cyc EXCEPT ![p].pc = "fail"]
  /\ UNCHANGED <<market, stored, runs, running, calls>>

\* The catch block: recordSyncFinish "failed" with the cursor reached.
RecordFailure(p) ==
  /\ cyc[p].pc = "fail"
  /\ runs' = [runs EXCEPT ![cyc[p].conn] = SetRow(@, p,
                [by |-> None, status |-> "failed", cursor |-> cyc[p].cursor])]
  /\ cyc' = [cyc EXCEPT ![p] = [Idle EXCEPT !.pc = "next", !.todo = cyc[p].todo]]
  /\ UNCHANGED <<market, stored, running, faults, calls>>

\* It throws out of the catch block: the cycle ends, the row stays "running".
RecordFailureFails(p) ==
  /\ cyc[p].pc = "fail"
  /\ Fault /\ End(p)
  /\ runs' = [runs EXCEPT ![cyc[p].conn] = Orphan(@, p)]
  /\ UNCHANGED <<market, stored, calls>>

EndCycle(p) ==
  /\ cyc[p].pc = "next" /\ cyc[p].todo = {}
  /\ End(p)
  /\ UNCHANGED <<market, stored, runs, faults, calls>>

-----------------------------------------------------------------------------
(* The environment *)

\* An order is placed or changes at its marketplace.
Change(o) ==
  /\ mver[o] < MaxVersion
  /\ mver' = [mver EXCEPT ![o] = @ + 1]
  /\ chg' = [chg EXCEPT ![o] = now]
  /\ UNCHANGED <<now, stored, runs, running, cyc, faults, calls>>

TimePasses ==
  /\ now < MaxNow
  /\ now' = now + 1
  /\ UNCHANGED <<mver, chg, stored, runs, running, cyc, faults, calls>>

\* The process dies, or close() exits it under a running cycle, and a new one
\* starts: nothing repairs the rows the old one left.
Crash ==
  /\ Fault
  /\ cyc' = [p \in Cycle |-> Idle]
  /\ running' = FALSE
  /\ runs' = [c \in Conn |-> [i \in DOMAIN runs[c] |->
                IF runs[c][i].by = None THEN runs[c][i]
                ELSE [runs[c][i] EXCEPT !.by = None]]]
  /\ UNCHANGED <<market, stored, calls>>

CycleStep(p) ==
  \/ Load(p) \/ LoadFails(p)
  \/ \E c \in Conn : Skip(p, c) \/ StartRun(p, c)
  \/ StartFails(p) \/ ReadCursor(p) \/ ReadCursorFails(p)
  \/ Fetch(p) \/ FetchFails(p)
  \/ UpsertOrder(p) \/ UpsertFails(p) \/ EndPage(p)
  \/ Finish(p) \/ FinishFails(p)
  \/ RecordFailure(p) \/ RecordFailureFails(p)
  \/ EndCycle(p)

Next ==
  \/ \E t \in Tick : BeginTick(t)
  \/ \E m \in Manual : BeginManual(m)
  \/ \E p \in Cycle : CycleStep(p)
  \/ \E o \in Order : Change(o)
  \/ TimePasses
  \/ Crash

Spec == Init /\ [][Next]_vars

\* The interval timer keeps firing and every awaited call answers or throws.
Fairness ==
  /\ WF_vars(\E t \in Tick : BeginTick(t))
  /\ \A p \in Cycle : WF_vars(CycleStep(p))

FairSpec == Spec /\ Fairness

-----------------------------------------------------------------------------
(* Properties *)

\* At most one tick is past the flag's check ("Ticks never overlap",
\* startScheduler), whatever throws in between and wherever it returns.
TicksNeverOverlap ==
  \A t, u \in Tick : cyc[t].pc # "idle" /\ cyc[u].pc # "idle" => t = u

\* Every change of the last Lookback windows that lies behind the cursor the
\* next run resumes from is on file: a resume skips nothing (getLastCursor,
\* syncConnection's loop, the catch block).
Behind(c, w) ==
  \A o \in Order : Home[o] = c /\ Since(now) <= chg[o] /\ chg[o] < w
                     => stored[o] = mver[o]
ResumeSkipsNothing == \A c \in Conn : Behind(c, LastCursor(c))

\* Why a resume skips nothing when the scheduler alone runs (the inductive
\* form): the flag says whether a tick is busy; only the first row kept is a
\* success; and the busy cycle has on file, or in the page it holds, whatever
\* lies behind the window it has reached, which is never behind the cursor
\* that the next run would resume from.
FlagInv ==
  /\ TicksNeverOverlap
  /\ running <=> \E t \in Tick : cyc[t].pc # "idle"

OneSuccess(s) ==
  \A i \in DOMAIN s : s[i].status = "success" => i = 1 /\ s[i].by = None
RowsInv == \A c \in Conn : OneSuccess(runs[c])

OrdersInv == \A o \in Order : chg[o] <= now /\ stored[o] <= mver[o]

Reached(p, w) ==
  /\ w <= now /\ Behind(cyc[p].conn, w)
  /\ LastCursor(cyc[p].conn) <= w

PageInv(p) ==
  /\ cyc[p].next # NoCursor => cyc[p].next = Position(p) + 1 /\ cyc[p].next <= now
  /\ \A e \in cyc[p].page :
       /\ Home[e[1]] = cyc[p].conn
       /\ Position(p) <= chg[e[1]]
       /\ stored[e[1]] <= e[2] /\ e[2] <= mver[e[1]]
       /\ cyc[p].next # NoCursor /\ chg[e[1]] = Position(p) => e[2] = mver[e[1]]
       /\ \A f \in cyc[p].page : f[1] = e[1] => f = e
  /\ cyc[p].next # NoCursor =>
       \A o \in Order : Home[o] = cyc[p].conn /\ chg[o] = Position(p) =>
         stored[o] = mver[o] \/ <<o, mver[o]>> \in cyc[p].page

CycleInv(p) ==
  /\ cyc[p].since <= Since(now)
  /\ cyc[p].pc # "upsert" => cyc[p].page = {}
  /\ cyc[p].pc \in {"fetch", "upsert"} => Reached(p, Position(p))
  /\ cyc[p].pc = "upsert" => PageInv(p)
  /\ cyc[p].pc = "finish" /\ cyc[p].cursor # NoCursor => Reached(p, cyc[p].cursor)

ScanInv ==
  /\ FlagInv /\ RowsInv /\ OrdersInv
  /\ \A c \in Conn : LastCursor(c) <= now /\ Behind(c, LastCursor(c))
  /\ \A p \in Cycle : CycleInv(p)

\* The version on file never goes back (upsertOrders replaces the whole order
\* by what an earlier fetch returned).
StoredNeverRegresses ==
  [][\A o \in Order : stored'[o] >= stored[o]]_stored

\* A page that was fetched, held over other steps and written order by order
\* never puts back an older version, nor one the marketplace did not have.
Mirror == INSTANCE OrderMirror
ImplementsMirror == Mirror!Spec

\* Once the marketplace is quiet the store comes to hold every order at its
\* present version and stays there, unless the last change left the lookback
\* first: through faults, crashes, page caps, cycles that overlap and other
\* connections that always fail.
ConvergesToMarketplace ==
  \A o \in Order : Home[o] \notin Broken \cup NoAdapter =>
    <>[](stored[o] = mver[o] \/ chg[o] < Since(now))

\* docs/order-sync-mvp.md: the lookback is used only on a first sync.
LookbackOnlyOnFirstSync ==
  \A p \in Cycle : cyc[p].pc = "fetch" /\ cyc[p].cursor = NoCursor =>
    \A i \in DOMAIN runs[cyc[p].conn] : runs[cyc[p].conn][i].status # "success"

\* A run that nobody will close does not stay the latest of its connection,
\* the one the connections screen shows as running.
LatestIsLost(c) ==
  runs[c] # <<>> /\ runs[c][Len(runs[c])].status = "running"
                 /\ runs[c][Len(runs[c])].by = None
LostRunIsSuperseded == \A c \in Conn : LatestIsLost(c) ~> ~LatestIsLost(c)
=============================================================================
