--------------------------- MODULE OrderSync_proofs ---------------------------
(***************************************************************************)
(* Proofs about OrderSync, for every set of connections, orders and cycles *)
(* and every value of the bounds.                                          *)
(***************************************************************************)
EXTENDS OrderSync, SequenceTheorems, TLAPS

USE ConnAssumption, NumberAssumption DEF Cycle, NoCursor, Cursor, market

-----------------------------------------------------------------------------
(* The rows of a connection *)

LEMMA SeqOf ==
  ASSUME NEW S, NEW n \in Nat, NEW s \in [1 .. n -> S] PROVE s \in Seq(S)
BY IsASeq

\* Appending, dropping a failed last row and closing a row keep a table a
\* sequence of rows.
LEMMA RowsType ==
  ASSUME NEW s \in Seq(Row), NEW p \in Cycle, NEW row \in Row
  PROVE  /\ SetRow(s, p, row) \in Seq(Row)
         /\ Len(SetRow(s, p, row)) = Len(s)
         /\ Kept(s) \in Seq(Row)
         /\ Append(Kept(s), row) \in Seq(Row)
<1> DEFINE t == SetRow(s, p, row)
<1>1. t \in Seq(Row) /\ Len(t) = Len(s)
  <2>1. DOMAIN s = 1 .. Len(s) /\ Len(s) \in Nat
    BY LenProperties
  <2>2. t \in [1 .. Len(s) -> Row]
    BY <2>1, ElementOfSeq DEF SetRow
  <2>3. QED
    BY <2>1, <2>2, IsASeq, LenProperties
<1>2. Kept(s) \in Seq(Row)
  BY SubSeqProperties, LenProperties DEF Kept
<1>3. Append(Kept(s), row) \in Seq(Row)
  BY <1>2, AppendProperties
<1> QED
  BY <1>1, <1>2, <1>3

-----------------------------------------------------------------------------
(* Types *)

\* A page is a set of pairs of an order and a version, and its successor a
\* cursor.
LEMMA PageType ==
  ASSUME TypeOK, NEW c, NEW w \in Nat
  PROVE  Page(c, w) \in SUBSET (Order \X Nat) /\ NextCursor(w) \in Nat \cup {-1}
BY DEF TypeOK, Page, NextCursor

LEMMA SinceType == ASSUME NEW n \in Nat PROVE Since(n) \in Nat
BY DEF Since

LEMMA CursorType ==
  ASSUME TypeOK, NEW c \in Conn PROVE LastCursor(c) \in Nat \cup {-1}
<1>1. runs[c] \in Seq(Row)
  BY DEF TypeOK
<1>2. CASE runs[c] # <<>>
  <2>1. runs[c][1] \in Row
    BY <1>1, <1>2, LenProperties, ElementOfSeq, EmptySeq
  <2> QED
    BY <2>1 DEF LastCursor, ResumePoint, Row
<1>3. CASE runs[c] = <<>>
  BY <1>3 DEF LastCursor, ResumePoint
<1> QED
  BY <1>2, <1>3

LEMMA PositionType ==
  ASSUME TypeOK, NEW p \in Cycle PROVE Position(p) \in Nat
BY DEF TypeOK, Local, Position

LEMMA CapType == MaxPages \in Nat /\ 0 < MaxPages /\ 0 \in 0 .. MaxPages
BY NumberAssumption

LEMMA IdleType == Idle \in Local /\ \A S \in SUBSET Conn :
                    [Idle EXCEPT !.pc = "next", !.todo = S] \in Local
BY CapType DEF Idle, Local

\* The step of one cycle touches its own record only.
LEMMA OwnRecord ==
  ASSUME TypeOK, NEW p \in Cycle, NEW r \in Local,
         cyc' = [cyc EXCEPT ![p] = r],
         r.pc \in {"cursor", "fetch", "upsert", "finish", "fail"} => r.conn # None,
         r.pc \in {"fetch", "upsert"} => r.pages < MaxPages
  PROVE  /\ cyc' \in [Cycle -> Local]
         /\ \A q \in Cycle :
              /\ Syncing(q)' => cyc'[q].conn # None
              /\ cyc'[q].pc \in {"fetch", "upsert"} => cyc'[q].pages < MaxPages
BY DEF TypeOK, Syncing

\* Every step of a cycle keeps the types.
LEMMA CycleType ==
  ASSUME TypeOK, NEW p \in Cycle, CycleStep(p) PROVE TypeOK'
<1> USE DEF TypeOK
<1>1. cyc[p] \in Local
  OBVIOUS
<1>2. ASSUME NEW row \in Row, NEW c \in Conn
      PROVE  /\ SetRow(runs[c], p, row) \in Seq(Row)
             /\ Len(SetRow(runs[c], p, row)) = Len(runs[c])
             /\ Append(Kept(runs[c]), row) \in Seq(Row)
  BY <1>2, RowsType
<1>3. ASSUME Fault PROVE faults' \in Nat
  BY <1>3 DEF Fault
<1>4. ASSUME End(p)
      PROVE  /\ cyc' \in [Cycle -> Local] /\ running' \in BOOLEAN
             /\ \A q \in Cycle :
                  /\ Syncing(q)' => cyc'[q].conn # None
                  /\ cyc'[q].pc \in {"fetch", "upsert"} => cyc'[q].pages < MaxPages
  BY <1>4, IdleType, OwnRecord DEF End, Idle
<1>5. ASSUME NEW c \in Conn
      PROVE Orphan(runs[c], p) \in Seq(Row)
  BY <1>5, <1>2 DEF Orphan, Row
<1>6. Syncing(p) => cyc[p].conn \in Conn
  BY <1>1 DEF Local
<1> DEFINE ToNext == [Idle EXCEPT !.pc = "next", !.todo = cyc[p].todo]
<1>7. ASSUME cyc' = [cyc EXCEPT ![p] = ToNext]
      PROVE  /\ cyc' \in [Cycle -> Local]
             /\ \A q \in Cycle :
                  /\ Syncing(q)' => cyc'[q].conn # None
                  /\ cyc'[q].pc \in {"fetch", "upsert"} => cyc'[q].pages < MaxPages
  <2>1. ToNext \in Local
    BY <1>1, IdleType DEF Local
  <2>2. ToNext.pc = "next"
    BY DEF Idle
  <2> QED
    BY <1>7, <2>1, <2>2, OwnRecord
<1>a. CASE Load(p)
  <2> DEFINE r == [cyc[p] EXCEPT !.pc = "next", !.todo = Conn]
  <2>1. r \in Local /\ r.pc = "next" /\ r.conn = cyc[p].conn
    BY <1>a, <1>1 DEF Load, Local
  <2>2. cyc' = [cyc EXCEPT ![p] = r]
    BY <1>a, <1>1 DEF Load, Local
  <2>3. Syncing(p) => cyc[p].conn # None
    OBVIOUS
  <2> QED
    BY <1>a, <1>3, <2>1, <2>2, <2>3, OwnRecord DEF Load, Syncing
<1>b. CASE LoadFails(p)
  BY <1>b, <1>3, <1>4 DEF LoadFails
<1>c. ASSUME NEW c \in Conn, Skip(p, c) PROVE TypeOK'
  <2> DEFINE r == [cyc[p] EXCEPT !.todo = @ \ {c}]
  <2>1. r \in Local /\ r.pc = "next"
    BY <1>c, <1>1 DEF Skip, Local
  <2>2. cyc' = [cyc EXCEPT ![p] = r]
    BY <1>c, <1>1 DEF Skip, Local
  <2> QED
    BY <1>c, <2>1, <2>2, OwnRecord DEF Skip
<1>d. ASSUME NEW c \in Conn, StartRun(p, c) PROVE TypeOK'
  <2> DEFINE r == [cyc[p] EXCEPT !.pc = "cursor", !.todo = @ \ {c},
                                 !.conn = c, !.since = Since(now)]
  <2>1. runs' \in [Conn -> Seq(Row)]
    BY <1>d, <1>2 DEF StartRun, Row
  <2>2. r \in Local /\ r.pc = "cursor" /\ r.conn = c
    BY <1>d, <1>1, SinceType DEF Local
  <2>3. cyc' = [cyc EXCEPT ![p] = r]
    BY <1>d, <1>1 DEF StartRun, Local
  <2>4. c # None
    OBVIOUS
  <2> HIDE DEF r
  <2>5. /\ cyc' \in [Cycle -> Local]
        /\ \A q \in Cycle :
             /\ Syncing(q)' => cyc'[q].conn # None
             /\ cyc'[q].pc \in {"fetch", "upsert"} => cyc'[q].pages < MaxPages
    BY <2>2, <2>3, <2>4, OwnRecord
  <2> QED
    BY <1>d, <2>1, <2>5 DEF StartRun
<1>e. CASE StartFails(p)
  BY <1>e, <1>3, <1>4 DEF StartFails
<1>f. CASE ReadCursor(p)
  <2> DEFINE r == [cyc[p] EXCEPT !.pc = "fetch", !.pages = 0, !.cursor = LastCursor(cyc[p].conn)]
  <2>1. r \in Local /\ r.pc = "fetch" /\ r.conn = cyc[p].conn /\ r.pages < MaxPages
    BY <1>f, <1>1, <1>6, CursorType, CapType DEF ReadCursor, Local, Syncing
  <2>2. cyc' = [cyc EXCEPT ![p] = r]
    BY <1>f, <1>1 DEF ReadCursor, Local
  <2>3. Syncing(p) => cyc[p].conn # None
    OBVIOUS
  <2> QED
    BY <1>f, <1>3, <2>1, <2>2, <2>3, OwnRecord DEF ReadCursor, Syncing
<1>g. CASE ReadCursorFails(p)
  BY <1>g, <1>3, <1>4, <1>5, <1>6 DEF ReadCursorFails, Syncing
<1>h. CASE Fetch(p)
  <2> DEFINE r == [cyc[p] EXCEPT !.pc = "upsert", !.page = Page(cyc[p].conn, Position(p)), !.next = NextCursor(Position(p))]
  <2>1. r \in Local /\ r.pc = "upsert" /\ r.conn = cyc[p].conn /\ r.pages < MaxPages
    BY <1>h, <1>1, PageType, PositionType DEF Fetch, Local
  <2>2. cyc' = [cyc EXCEPT ![p] = r]
    BY <1>h, <1>1 DEF Fetch, Local
  <2>3. Syncing(p) => cyc[p].conn # None
    OBVIOUS
  <2> QED
    BY <1>h, <1>3, <2>1, <2>2, <2>3, OwnRecord DEF Fetch, Syncing
<1>i. CASE FetchFails(p)
  <2> DEFINE r == [cyc[p] EXCEPT !.pc = "fail"]
  <2>1. r \in Local /\ r.pc = "fail" /\ r.conn = cyc[p].conn
    BY <1>i, <1>1 DEF FetchFails, Local
  <2>2. cyc' = [cyc EXCEPT ![p] = r]
    BY <1>i, <1>1 DEF FetchFails, Local
  <2>3. Syncing(p) => cyc[p].conn # None
    OBVIOUS
  <2> QED
    BY <1>i, <1>3, <2>1, <2>2, <2>3, OwnRecord DEF FetchFails, Syncing
<1>j. CASE UpsertOrder(p)
  <2>1. PICK e \in cyc[p].page : stored' = [stored EXCEPT ![e[1]] = e[2]]
                              /\ cyc' = [cyc EXCEPT ![p].page = @ \ {e}]
    BY <1>j DEF UpsertOrder
  <2> DEFINE r == [cyc[p] EXCEPT !.page = @ \ {e}]
  <2>2. r \in Local /\ r.pc = cyc[p].pc /\ r.conn = cyc[p].conn /\ r.pages = cyc[p].pages
    BY <1>1 DEF Local
  <2>3. cyc' = [cyc EXCEPT ![p] = r]
    BY <1>1, <2>1 DEF Local
  <2>4. stored' \in [Order -> Nat]
    BY <1>1, <2>1 DEF Local
  <2>5. Syncing(p) => cyc[p].conn # None
    OBVIOUS
  <2> QED
    BY <1>j, <2>2, <2>3, <2>4, <2>5, OwnRecord DEF UpsertOrder, Syncing
<1>k. CASE UpsertFails(p)
  <2> DEFINE r == [cyc[p] EXCEPT !.pc = "fail", !.page = {}]
  <2>1. r \in Local /\ r.pc = "fail" /\ r.conn = cyc[p].conn
    BY <1>k, <1>1 DEF UpsertFails, Local
  <2>2. cyc' = [cyc EXCEPT ![p] = r]
    BY <1>k, <1>1 DEF UpsertFails, Local
  <2>3. Syncing(p) => cyc[p].conn # None
    OBVIOUS
  <2> QED
    BY <1>k, <1>3, <2>1, <2>2, <2>3, OwnRecord DEF UpsertFails, Syncing
<1>l. CASE EndPage(p)
  <2> DEFINE after == IF cyc[p].next # NoCursor /\ PagesLeft(cyc[p].pages + 1)
                        THEN "fetch" ELSE "finish"
             count == cyc[p].pages + 1
             r == [cyc[p] EXCEPT !.pc = after, !.cursor = cyc[p].next, !.pages = count]
  <2>1. after \in {"fetch", "finish"}
    OBVIOUS
  <2>2. cyc' = [cyc EXCEPT ![p] = r]
    BY <1>l, <1>1 DEF EndPage, Local
  <2>3. cyc[p].conn # None
    BY <1>l DEF EndPage, Syncing
  <2>5. /\ count \in 0 .. MaxPages /\ cyc[p].next \in Cursor
        /\ after = "fetch" => count < MaxPages
    BY <1>l, <1>1, CapType DEF EndPage, PagesLeft, Local
  <2> HIDE DEF after, count
  <2>4. /\ r \in Local /\ r.conn = cyc[p].conn
        /\ r.pc \in {"fetch", "upsert"} => r.pages < MaxPages
    BY <1>1, <2>1, <2>5 DEF Local
  <2> HIDE DEF r
  <2> QED
    BY <1>l, <2>2, <2>3, <2>4, OwnRecord DEF EndPage
<1>m. CASE Finish(p)
  <2> DEFINE c == cyc[p].conn
             row == [by |-> None, status |-> "success", cursor |-> cyc[p].cursor]
  <2>1. c \in Conn /\ row \in Row
    BY <1>m, <1>1, <1>6 DEF Finish, Syncing, Row, Local
  <2>2. runs' \in [Conn -> Seq(Row)]
    <3>1. CASE UNCHANGED runs
      BY <3>1
    <3>2. CASE ~ UNCHANGED runs
      <4>1. PICK i \in DOMAIN runs[c] : runs' = [runs EXCEPT
              ![c] = SubSeq([runs[c] EXCEPT ![i] = row], i, Len(runs[c]))]
        BY <1>m, <3>2 DEF Finish
      <4>2. runs[c] \in Seq(Row)
        BY <2>1
      <4>3. i \in 1 .. Len(runs[c])
        BY <4>1, <4>2, LenProperties
      <4>4. [runs[c] EXCEPT ![i] = row] \in Seq(Row)
            /\ Len([runs[c] EXCEPT ![i] = row]) = Len(runs[c])
        BY <2>1, <4>2, <4>3, ExceptSeq
      <4>5. SubSeq([runs[c] EXCEPT ![i] = row], i, Len(runs[c])) \in Seq(Row)
        BY <4>2, <4>3, <4>4, LenProperties, SubSeqProperties
      <4> QED
        BY <4>1, <4>5
    <3> QED
      BY <3>1, <3>2
  <2> QED
    BY <1>m, <1>7, <2>2 DEF Finish
<1>n. CASE FinishFails(p)
  <2> DEFINE r == [cyc[p] EXCEPT !.pc = "fail"]
  <2>1. r \in Local /\ r.pc = "fail" /\ r.conn = cyc[p].conn
    BY <1>n, <1>1 DEF FinishFails, Local
  <2>2. cyc' = [cyc EXCEPT ![p] = r]
    BY <1>n, <1>1 DEF FinishFails, Local
  <2>3. Syncing(p) => cyc[p].conn # None
    OBVIOUS
  <2> QED
    BY <1>n, <1>3, <2>1, <2>2, <2>3, OwnRecord DEF FinishFails, Syncing
<1>o. CASE RecordFailure(p)
  <2> DEFINE c == cyc[p].conn
             row == [by |-> None, status |-> "failed", cursor |-> cyc[p].cursor]
  <2>1. c \in Conn /\ row \in Row
    BY <1>o, <1>1, <1>6 DEF RecordFailure, Syncing, Row, Local
  <2>2. runs' \in [Conn -> Seq(Row)]
    BY <1>o, <1>2, <2>1 DEF RecordFailure
  <2> QED
    BY <1>o, <1>7, <2>2 DEF RecordFailure
<1>q. CASE RecordFailureFails(p)
  BY <1>q, <1>3, <1>4, <1>5, <1>6 DEF RecordFailureFails, Syncing
<1>r. CASE EndCycle(p)
  BY <1>r, <1>4 DEF EndCycle
<1> QED
  BY <1>a, <1>b, <1>c, <1>d, <1>e, <1>f, <1>g, <1>h, <1>i, <1>j, <1>k, <1>l,
     <1>m, <1>n, <1>o, <1>q, <1>r DEF CycleStep

\* The process and the marketplace keep the types.
LEMMA EnvironmentType ==
  ASSUME TypeOK,
         \/ \E t \in Tick : BeginTick(t)
         \/ \E m \in Manual : BeginManual(m)
         \/ \E o \in Order : Change(o)
         \/ TimePasses \/ Crash
  PROVE  TypeOK'
<1> USE DEF TypeOK
<1>1. ASSUME NEW p \in Cycle, cyc' = [cyc EXCEPT ![p].pc = "load"]
      PROVE  /\ cyc' \in [Cycle -> Local]
             /\ \A q \in Cycle :
                  /\ Syncing(q)' => cyc'[q].conn # None
                  /\ cyc'[q].pc \in {"fetch", "upsert"} => cyc'[q].pages < MaxPages
  <2> DEFINE r == [cyc[p] EXCEPT !.pc = "load"]
  <2>1. cyc[p] \in Local
    OBVIOUS
  <2>2. r \in Local /\ r.pc = "load"
    BY <2>1 DEF Local
  <2>3. cyc' = [cyc EXCEPT ![p] = r]
    BY <1>1, <2>1 DEF Local
  <2> HIDE DEF r
  <2> QED
    BY <2>2, <2>3, OwnRecord
<1>2. ASSUME NEW t \in Tick, BeginTick(t) PROVE TypeOK'
  BY <1>1, <1>2 DEF BeginTick
<1>3. ASSUME NEW m \in Manual, BeginManual(m) PROVE TypeOK'
  <2>1. /\ cyc' \in [Cycle -> Local]
        /\ \A q \in Cycle :
             /\ Syncing(q)' => cyc'[q].conn # None
             /\ cyc'[q].pc \in {"fetch", "upsert"} => cyc'[q].pages < MaxPages
    BY <1>1, <1>3 DEF BeginManual
  <2>2. calls' \in Nat
    BY <1>3 DEF BeginManual
  <2> QED
    BY <1>3, <2>1, <2>2 DEF BeginManual
<1>4. ASSUME NEW o \in Order, Change(o) PROVE TypeOK'
  BY <1>4 DEF Change, Syncing
<1>5. CASE TimePasses
  BY <1>5 DEF TimePasses, Syncing
<1>6. CASE Crash
  <2>1. ASSUME NEW c \in Conn PROVE runs'[c] \in Seq(Row)
    <3>1. runs[c] \in Seq(Row) /\ DOMAIN runs[c] = 1 .. Len(runs[c])
      BY LenProperties
    <3>2. Len(runs[c]) \in Nat
      BY <3>1, LenProperties
    <3>3. \A i \in 1 .. Len(runs[c]) : runs[c][i] \in Row
      BY <3>1, ElementOfSeq
    <3>4. \A i \in 1 .. Len(runs[c]) : [runs[c][i] EXCEPT !.by = None] \in Row
      BY <3>3 DEF Row
    <3>5. runs'[c] = [i \in 1 .. Len(runs[c]) |->
                        IF runs[c][i].by = None THEN runs[c][i]
                        ELSE [runs[c][i] EXCEPT !.by = None]]
      BY <1>6, <3>1 DEF Crash
    <3>6. runs'[c] \in [1 .. Len(runs[c]) -> Row]
      BY <3>3, <3>4, <3>5
    <3> QED
      BY <3>2, <3>6, SeqOf
  <2>2. runs' \in [Conn -> Seq(Row)]
    BY <1>6, <2>1 DEF Crash
  <2>3. /\ cyc' \in [Cycle -> Local]
        /\ \A q \in Cycle :
             /\ Syncing(q)' => cyc'[q].conn # None
             /\ cyc'[q].pc \in {"fetch", "upsert"} => cyc'[q].pages < MaxPages
    BY <1>6, IdleType DEF Crash, Syncing, Idle
  <2>4. faults' \in Nat
    BY <1>6 DEF Crash, Fault
  <2>5. /\ running' = FALSE
        /\ UNCHANGED <<now, mver, chg, stored, calls>>
    BY <1>6 DEF Crash
  <2> QED
    BY <1>6, <2>2, <2>3, <2>4, <2>5
<1> QED
  BY <1>2, <1>3, <1>4, <1>5, <1>6

LEMMA TypeStep == TypeOK /\ [Next]_vars => TypeOK'
<1> SUFFICES ASSUME TypeOK, [Next]_vars PROVE TypeOK'
  OBVIOUS
<1>1. CASE \E p \in Cycle : CycleStep(p)
  BY <1>1, CycleType
<1>2. CASE UNCHANGED vars
  BY <1>2 DEF vars, TypeOK, Syncing
<1> QED
  BY <1>1, <1>2, EnvironmentType DEF Next

LEMMA TypeInit == Init => TypeOK
<1> SUFFICES ASSUME Init PROVE TypeOK
  OBVIOUS
<1>1. <<>> \in Seq(Row)
  BY EmptySeq
<1> QED
  BY <1>1, IdleType DEF Init, TypeOK, Syncing, Idle

\* Every state of the engine, the store and the marketplace is well typed.
THEOREM TypeCorrect == Spec => []TypeOK
BY TypeInit, TypeStep, PTL DEF Spec

-----------------------------------------------------------------------------
(* Ticks *)

\* A step of a cycle leaves the other cycles alone; it ends the cycle, or the
\* cycle stays busy and the flag as it was.
LEMMA StepShape ==
  ASSUME TypeOK, NEW p \in Cycle, CycleStep(p)
  PROVE  /\ cyc[p].pc # "idle"
         /\ \A q \in Cycle \ {p} : cyc'[q] = cyc[q]
         /\ \/ End(p)
            \/ running' = running /\ cyc'[p].pc # "idle"
<1> DEFINE Shape == /\ cyc[p].pc # "idle"
                    /\ \A q \in Cycle \ {p} : cyc'[q] = cyc[q]
                    /\ \/ End(p)
                       \/ running' = running /\ cyc'[p].pc # "idle"
<1>1. cyc \in [Cycle -> Local] /\ cyc[p] \in Local
  BY DEF TypeOK
<1>2. End(p) => \A q \in Cycle \ {p} : cyc'[q] = cyc[q]
  BY <1>1 DEF End
<1>3. ASSUME LoadFails(p) \/ StartFails(p) \/ ReadCursorFails(p)
             \/ RecordFailureFails(p) \/ EndCycle(p)
      PROVE  Shape
  BY <1>2, <1>3 DEF LoadFails, StartFails, ReadCursorFails, RecordFailureFails, EndCycle
<1>4. ASSUME Load(p) \/ ReadCursor(p) \/ Fetch(p) \/ FetchFails(p) \/ UpsertFails(p)
             \/ FinishFails(p)
      PROVE  Shape
  BY <1>1, <1>4 DEF Load, ReadCursor, Fetch, FetchFails, UpsertFails, FinishFails, Local
<1>5. ASSUME NEW c \in Conn, Skip(p, c) \/ StartRun(p, c) PROVE Shape
  BY <1>1, <1>5 DEF Skip, StartRun, Local
<1>6. ASSUME UpsertOrder(p) PROVE Shape
  BY <1>1, <1>6 DEF UpsertOrder, Local
<1>7. ASSUME EndPage(p) PROVE Shape
  BY <1>1, <1>7 DEF EndPage, Local
<1>8. ASSUME Finish(p) \/ RecordFailure(p) PROVE Shape
  <2> DEFINE r == [Idle EXCEPT !.pc = "next", !.todo = cyc[p].todo]
  <2>1. r.pc = "next"
    BY DEF Idle
  <2>2. cyc' = [cyc EXCEPT ![p] = r] /\ running' = running /\ cyc[p].pc # "idle"
    BY <1>8 DEF Finish, RecordFailure
  <2> HIDE DEF r
  <2> QED
    BY <1>1, <2>1, <2>2
<1> QED
  BY <1>3, <1>4, <1>5, <1>6, <1>7, <1>8 DEF CycleStep

LEMMA FlagStep == TypeOK /\ FlagInv /\ [Next]_vars => FlagInv'
<1> SUFFICES ASSUME TypeOK, FlagInv, [Next]_vars PROVE FlagInv'
  OBVIOUS
<1> USE DEF FlagInv, TicksNeverOverlap
<1>1. cyc \in [Cycle -> Local]
  BY DEF TypeOK
<1>2. ASSUME NEW p \in Cycle, CycleStep(p) PROVE FlagInv'
  <2>1. CASE End(p)
    <3>1. cyc'[p].pc = "idle" /\ \A q \in Cycle \ {p} : cyc'[q] = cyc[q]
      BY <1>1, <2>1 DEF End, Idle
    <3>2. CASE p \in Tick
      <4>1. cyc[p].pc # "idle" /\ running' = FALSE
        BY <1>2, <2>1, <3>2, StepShape DEF End
      <4>2. \A t \in Tick : cyc'[t].pc = "idle"
        BY <3>1, <3>2, <4>1
      <4> QED
        BY <4>1, <4>2
    <3>3. CASE p \notin Tick
      BY <2>1, <3>1, <3>3 DEF End
    <3> QED
      BY <3>2, <3>3
  <2>2. CASE running' = running /\ cyc'[p].pc # "idle"
    BY <1>2, <2>2, StepShape
  <2> QED
    BY <1>2, <2>1, <2>2, StepShape
<1>3. ASSUME NEW t \in Tick, BeginTick(t) PROVE FlagInv'
  <2>1. cyc'[t].pc = "load" /\ \A q \in Cycle \ {t} : cyc'[q] = cyc[q]
    BY <1>1, <1>3 DEF BeginTick, Local
  <2>2. ~ running /\ running' = TRUE
    BY <1>3 DEF BeginTick
  <2>3. \A u \in Tick : cyc'[u].pc # "idle" => u = t
    BY <2>1, <2>2
  <2> QED
    BY <2>1, <2>2, <2>3
<1>4. ASSUME NEW m \in Manual, BeginManual(m) PROVE FlagInv'
  <2>1. \A t \in Tick : cyc'[t] = cyc[t]
    BY <1>1, <1>4 DEF BeginManual, Local
  <2> QED
    BY <1>4, <2>1 DEF BeginManual
<1>5. ASSUME NEW o \in Order, Change(o) PROVE FlagInv'
  BY <1>5 DEF Change
<1>6. CASE TimePasses
  BY <1>6 DEF TimePasses
<1>7. CASE Crash
  BY <1>7 DEF Crash, Idle
<1>8. CASE UNCHANGED vars
  BY <1>8 DEF vars
<1> QED
  BY <1>2, <1>3, <1>4, <1>5, <1>6, <1>7, <1>8 DEF Next

\* Ticks never overlap, and the flag is set exactly while one is busy: no
\* exception leaves it set, no early return clears it.
THEOREM NoOverlap == Spec => [](TicksNeverOverlap /\ FlagInv)
<1>1. Init => FlagInv
  <2> SUFFICES ASSUME Init PROVE FlagInv
    OBVIOUS
  <2>1. \A t \in Tick : cyc[t].pc = "idle"
    BY DEF Init, Idle
  <2>2. running = FALSE
    BY DEF Init
  <2> QED
    BY <2>1, <2>2 DEF FlagInv, TicksNeverOverlap
<1>2. FlagInv => TicksNeverOverlap
  BY DEF FlagInv
<1> QED
  BY <1>1, <1>2, FlagStep, TypeCorrect, PTL DEF Spec

-----------------------------------------------------------------------------
(* A resume skips nothing, the version on file never goes back, and the      *)
(* engine implements OrderMirror, when the scheduler is the only caller of   *)
(* syncAll.  The argument is ScanInv: what the busy cycle knows about the    *)
(* windows it has left behind.                                               *)


-----------------------------------------------------------------------------
(* The rows a resume reads *)

\* Starting a run leaves the resume point alone.
LEMMA RowsStart ==
  ASSUME NEW s \in Seq(Row), OneSuccess(s), NEW row \in Row, row.status = "running"
  PROVE  /\ ResumePoint(Append(Kept(s), row)) = ResumePoint(s)
         /\ OneSuccess(Append(Kept(s), row))
<1> DEFINE k == Kept(s)
           t == Append(k, row)
<1>1. /\ Len(s) \in Nat /\ DOMAIN s = 1 .. Len(s)
      /\ \A i \in 1 .. Len(s) : s[i] \in Row
  BY LenProperties, ElementOfSeq
<1>2. /\ k \in Seq(Row) /\ Len(k) \in Nat
      /\ Len(k) <= Len(s)
      /\ \A i \in 1 .. Len(k) : k[i] = s[i]
      /\ Len(k) = 0 => ResumePoint(s) = NoCursor
      /\ Len(k) > 0 => s # <<>>
  <2>1. CASE s # <<>> /\ s[Len(s)].status = "failed"
    <3>1. Len(s) >= 1
      BY <1>1, <2>1, EmptySeq
    <3>2. k = SubSeq(s, 1, Len(s) - 1)
      BY <2>1 DEF Kept
    <3>3. /\ k \in Seq(Row) /\ Len(k) = Len(s) - 1
          /\ \A i \in 1 .. Len(s) - 1 : k[i] = s[i]
      <4>1. \A i \in 1 .. Len(s) - 1 : s[i] \in Row
        BY <1>1
      <4> HIDE DEF k
      <4> QED
        BY <1>1, <3>1, <3>2, <4>1, SubSeqProperties
    <3>4. Len(s) = 1 => ResumePoint(s) = NoCursor
      BY <2>1 DEF ResumePoint
    <3> HIDE DEF k
    <3> QED
      BY <1>1, <2>1, <3>1, <3>3, <3>4
  <2>2. CASE ~ (s # <<>> /\ s[Len(s)].status = "failed")
    <3>1. k = s
      BY <2>2 DEF Kept
    <3>2. Len(s) = 0 <=> s = <<>>
      BY EmptySeq
    <3> HIDE DEF k
    <3> QED
      BY <1>1, <3>1, <3>2 DEF ResumePoint
  <2> QED
    BY <2>1, <2>2
<1> HIDE DEF k
<1>3. /\ t \in Seq(Row) /\ t # <<>> /\ Len(t) = Len(k) + 1
      /\ DOMAIN t = 1 .. Len(k) + 1
      /\ \A i \in 1 .. Len(k) : t[i] = k[i]
      /\ t[Len(k) + 1] = row
  BY <1>2, AppendProperties, LenProperties
<1> HIDE DEF t
<1>4. ResumePoint(t) = ResumePoint(s)
  <2>1. CASE Len(k) = 0
    BY <1>2, <1>3, <2>1 DEF ResumePoint
  <2>2. CASE Len(k) > 0
    BY <1>2, <1>3, <2>2 DEF ResumePoint
  <2> QED
    BY <1>2, <2>1, <2>2
<1>5. OneSuccess(t)
  <2> SUFFICES ASSUME NEW i \in 1 .. Len(k) + 1, t[i].status = "success"
               PROVE  i = 1 /\ t[i].by = None
    BY <1>3 DEF OneSuccess
  <2>1. i \in 1 .. Len(k)
    BY <1>2, <1>3
  <2>2. i \in 1 .. Len(s) /\ t[i] = s[i]
    BY <1>1, <1>2, <1>3, <2>1
  <2> QED
    BY <1>1, <2>2 DEF OneSuccess
<1> QED
  BY <1>4, <1>5 DEF t, k

\* Closing a cycle's row as failed, or losing it, leaves it alone.
LEMMA RowsClose ==
  ASSUME NEW s \in Seq(Row), OneSuccess(s), NEW p \in Cycle,
         NEW row \in Row, row.status # "success"
  PROVE  /\ ResumePoint(SetRow(s, p, row)) = ResumePoint(s)
         /\ OneSuccess(SetRow(s, p, row))
<1> DEFINE t == SetRow(s, p, row)
<1>1. Len(s) \in Nat /\ DOMAIN s = 1 .. Len(s)
  BY LenProperties
<1>2. /\ DOMAIN t = 1 .. Len(s)
      /\ \A i \in 1 .. Len(s) : t[i] = IF s[i].by = p THEN row ELSE s[i]
  BY <1>1 DEF SetRow
<1>3. t \in Seq(Row) /\ Len(t) = Len(s)
  BY RowsType
<1>4. t = <<>> <=> s = <<>>
  BY <1>3, EmptySeq
<1>5. s # <<>> => 1 \in 1 .. Len(s)
  BY <1>1, EmptySeq
<1> HIDE DEF t
<1>6. \A i \in 1 .. Len(s) : s[i].status = "success" => t[i] = s[i]
  BY <1>1, <1>2 DEF OneSuccess
<1>7. \A i \in 1 .. Len(s) : t[i].status = "success" => t[i] = s[i]
  BY <1>2
<1>8. ResumePoint(t) = ResumePoint(s)
  BY <1>4, <1>5, <1>6, <1>7 DEF ResumePoint
<1>9. OneSuccess(t)
  BY <1>1, <1>2, <1>7 DEF OneSuccess
<1> QED
  BY <1>8, <1>9 DEF t

\* Closing a row as a success makes its cursor the resume point.
LEMMA RowsFinish ==
  ASSUME NEW s \in Seq(Row), OneSuccess(s), NEW i \in 1 .. Len(s),
         NEW row \in Row, row.status = "success", row.by = None
  PROVE  /\ ResumePoint(SubSeq([s EXCEPT ![i] = row], i, Len(s))) = row.cursor
         /\ OneSuccess(SubSeq([s EXCEPT ![i] = row], i, Len(s)))
<1> DEFINE u == [s EXCEPT ![i] = row]
           t == SubSeq(u, i, Len(s))
<1>1. Len(s) \in Nat /\ DOMAIN s = 1 .. Len(s)
  BY LenProperties
<1>2. /\ u \in Seq(Row)
      /\ \A j \in 1 .. Len(s) : u[j] = IF j = i THEN row ELSE s[j]
  BY ExceptSeq
<1> HIDE DEF u
<1>3. \A j \in i .. Len(s) : u[j] \in Row
  BY <1>1, <1>2, ElementOfSeq
<1>4. /\ t \in Seq(Row) /\ Len(t) = Len(s) - i + 1
      /\ \A j \in 1 .. Len(s) - i + 1 : t[j] = u[i + j - 1]
  BY <1>1, <1>3, SubSeqProperties
<1> HIDE DEF t
<1>5. DOMAIN t = 1 .. Len(s) - i + 1 /\ t # <<>>
  BY <1>1, <1>4, LenProperties, EmptySeq
<1>6. t[1] = row
  BY <1>1, <1>2, <1>4
<1>7. ASSUME NEW j \in 1 .. Len(s) - i + 1, j # 1 PROVE t[j].status # "success"
  <2>1. i + j - 1 \in 1 .. Len(s) /\ i + j - 1 # i /\ i + j - 1 # 1
    BY <1>1, <1>7
  <2>2. t[j] = s[i + j - 1]
    BY <1>2, <1>4, <2>1
  <2> QED
    BY <1>1, <2>1, <2>2 DEF OneSuccess
<1>8. ResumePoint(t) = row.cursor
  BY <1>5, <1>6 DEF ResumePoint
<1>9. OneSuccess(t)
  BY <1>5, <1>6, <1>7 DEF OneSuccess
<1> QED
  BY <1>8, <1>9 DEF t, u

\* A crash leaves it alone.
LEMMA RowsCrash ==
  ASSUME NEW s \in Seq(Row), OneSuccess(s)
  PROVE  LET t == [i \in DOMAIN s |-> IF s[i].by = None THEN s[i]
                                      ELSE [s[i] EXCEPT !.by = None]]
         IN  ResumePoint(t) = ResumePoint(s) /\ OneSuccess(t)
<1> DEFINE t == [i \in DOMAIN s |-> IF s[i].by = None THEN s[i]
                                    ELSE [s[i] EXCEPT !.by = None]]
<1>1. /\ Len(s) \in Nat /\ DOMAIN s = 1 .. Len(s)
      /\ \A i \in 1 .. Len(s) : s[i] \in Row
  BY LenProperties, ElementOfSeq
<1>2. DOMAIN t = 1 .. Len(s)
  BY <1>1
<1>3. \A i \in 1 .. Len(s) : /\ t[i] \in Row
                             /\ t[i].status = s[i].status
                             /\ t[i].cursor = s[i].cursor
                             /\ t[i].by = None
  BY <1>1 DEF Row
<1>4. t \in Seq(Row)
  <2>1. t \in [1 .. Len(s) -> Row]
    BY <1>1, <1>3
  <2> HIDE DEF t
  <2> QED
    BY <1>1, <2>1, SeqOf
<1> HIDE DEF t
<1>5. t = <<>> <=> s = <<>>
  BY <1>1, <1>2, <1>4, EmptySeq, LenProperties
<1>6. s # <<>> => 1 \in 1 .. Len(s)
  BY <1>1, EmptySeq
<1> QED
  BY <1>1, <1>2, <1>3, <1>5, <1>6 DEF ResumePoint, OneSuccess, t

\* The steps that start, close or lose a run.
LEMMA RowsFrame ==
  ASSUME TypeOK, RowsInv, NEW p \in Cycle, NEW c \in Conn, NEW row \in Row,
         \/ UNCHANGED runs
         \/ /\ row.status = "running"
            /\ runs' = [runs EXCEPT ![c] = Append(Kept(@), row)]
         \/ /\ row.status # "success"
            /\ runs' = [runs EXCEPT ![c] = SetRow(@, p, row)]
  PROVE  /\ RowsInv'
         /\ \A d \in Conn : ResumePoint(runs'[d]) = ResumePoint(runs[d])
<1>1. runs[c] \in Seq(Row) /\ OneSuccess(runs[c]) /\ runs \in [Conn -> Seq(Row)]
  BY DEF TypeOK, RowsInv
<1>2. CASE UNCHANGED runs
  BY <1>2 DEF RowsInv
<1>3. CASE runs' = [runs EXCEPT ![c] = Append(Kept(@), row)] /\ row.status = "running"
  BY <1>1, <1>3, RowsStart DEF RowsInv
<1>4. CASE runs' = [runs EXCEPT ![c] = SetRow(@, p, row)] /\ row.status # "success"
  BY <1>1, <1>4, RowsClose DEF RowsInv
<1> QED
  BY <1>2, <1>3, <1>4

-----------------------------------------------------------------------------
(* One busy cycle *)

\* A cycle outside the loop over the pages claims nothing.
LEMMA Outside ==
  ASSUME NEW p \in Cycle, now' \in Nat, cyc'[p].since <= Since(now'),
         cyc'[p].pc \notin {"fetch", "upsert", "finish"}, cyc'[p].page = {}
  PROVE  CycleInv(p)'
BY DEF CycleInv

\* What a later present leaves of a lookback.
LEMMA SinceGrows ==
  ASSUME NEW m \in Nat, NEW n \in Nat, m <= n PROVE Since(m) <= Since(n)
BY DEF Since

\* A step that moves neither the marketplace, the orders on file nor a resume
\* point preserves ScanInv if the busy cycle's claims are preserved.
LEMMA Frame ==
  ASSUME TypeOK, ScanInv, NEW p \in Cycle,
         \A q \in Cycle \ {p} : cyc[q].pc = "idle" /\ cyc'[q] = cyc[q],
         UNCHANGED <<market, stored>>, FlagInv', RowsInv',
         \A c \in Conn : ResumePoint(runs'[c]) = ResumePoint(runs[c]),
         CycleInv(p)'
  PROVE  ScanInv'
<1>1. OrdersInv'
  BY DEF ScanInv, OrdersInv
<1>2. ASSUME NEW c \in Conn PROVE (LastCursor(c) <= now /\ Behind(c, LastCursor(c)))'
  BY <1>2 DEF ScanInv, LastCursor, Behind
<1>3. ASSUME NEW q \in Cycle \ {p} PROVE CycleInv(q)'
  <2>1. CycleInv(q) /\ now \in Nat
    BY DEF ScanInv, TypeOK
  <2> QED
    BY <1>3, <2>1, Outside DEF CycleInv
<1> QED
  BY <1>1, <1>2, <1>3 DEF ScanInv

\* With the scheduler alone, the cycle that takes a step is the only busy one.
LEMMA Alone ==
  ASSUME Manual = {}, TypeOK, FlagInv, NEW p \in Cycle, CycleStep(p)
  PROVE  \A q \in Cycle \ {p} : cyc[q].pc = "idle" /\ cyc'[q] = cyc[q]
<1>1. cyc[p].pc # "idle" /\ \A q \in Cycle \ {p} : cyc'[q] = cyc[q]
  BY StepShape
<1> QED
  BY <1>1 DEF FlagInv, TicksNeverOverlap

\* The steps that end the cycle or stay outside the loop over the pages.
LEMMA OutsideStep ==
  ASSUME TypeOK, ScanInv, NEW p \in Cycle, TypeOK', FlagInv',
         \A q \in Cycle \ {p} : cyc[q].pc = "idle" /\ cyc'[q] = cyc[q],
         \/ Load(p) \/ LoadFails(p) \/ StartFails(p) \/ ReadCursorFails(p)
         \/ \E c \in Conn : Skip(p, c) \/ StartRun(p, c)
         \/ FetchFails(p) \/ UpsertFails(p) \/ FinishFails(p)
         \/ RecordFailure(p) \/ RecordFailureFails(p) \/ EndCycle(p)
  PROVE  ScanInv'
<1> DEFINE Kept0 == /\ UNCHANGED <<market, stored>>
                    /\ RowsInv'
                    /\ \A c \in Conn : ResumePoint(runs'[c]) = ResumePoint(runs[c])
           Out == /\ cyc'[p].since <= Since(now')
                  /\ cyc'[p].pc \notin {"fetch", "upsert", "finish"}
                  /\ cyc'[p].page = {}
<1>1. /\ cyc \in [Cycle -> Local] /\ cyc[p] \in Local
      /\ now \in Nat /\ now' \in Nat /\ Since(now) \in Nat /\ Since(now') \in Nat
      /\ RowsInv
      /\ runs \in [Conn -> Seq(Row)]
  BY SinceType DEF TypeOK, ScanInv
<1>2. cyc[p].since <= Since(now) /\ (cyc[p].pc # "upsert" => cyc[p].page = {})
  BY DEF ScanInv, CycleInv
<1>3. ASSUME Kept0, Out PROVE ScanInv'
  BY <1>1, <1>3, Outside, Frame
<1>4. ASSUME UNCHANGED <<market, stored, runs>> PROVE Kept0
  BY <1>1, <1>4 DEF RowsInv
<1>5. ASSUME NEW row \in Row, row.status # "success", NEW c \in Conn,
             UNCHANGED <<market, stored>>,
             runs' = [runs EXCEPT ![c] = SetRow(@, p, row)]
      PROVE  Kept0
  BY <1>1, <1>5, RowsFrame
<1>6. ASSUME End(p) PROVE Out
  BY <1>1, <1>6 DEF End, Idle
<1>7. ASSUME cyc' = [cyc EXCEPT ![p] = [Idle EXCEPT !.pc = "next", !.todo = cyc[p].todo]],
             now' = now
      PROVE  Out
  <2> DEFINE r == [Idle EXCEPT !.pc = "next", !.todo = cyc[p].todo]
  <2>1. r.since = 0 /\ r.pc = "next" /\ r.page = {}
    BY DEF Idle
  <2>2. cyc'[p] = r
    BY <1>1, <1>7
  <2> HIDE DEF r
  <2>3. cyc'[p].since = 0 /\ cyc'[p].pc = "next" /\ cyc'[p].page = {}
    BY <2>1, <2>2
  <2> QED
    BY <1>1, <2>3
<1>8. Syncing(p) => cyc[p].conn \in Conn
  BY <1>1 DEF TypeOK, Local
<1>9. ASSUME Syncing(p), UNCHANGED <<market, stored>>,
             runs' = [runs EXCEPT ![cyc[p].conn] = Orphan(@, p)]
      PROVE  Kept0
  <2> DEFINE row == [by |-> None, status |-> "running", cursor |-> NoCursor]
  <2>1. row \in Row /\ row.status # "success"
    BY DEF Row
  <2>2. runs' = [runs EXCEPT ![cyc[p].conn] = SetRow(@, p, row)]
    BY <1>9 DEF Orphan
  <2> HIDE DEF row, Kept0
  <2> QED
    BY <1>5, <1>8, <1>9, <2>1, <2>2
<1>a. CASE Load(p)
  <2>1. Out
    BY <1>1, <1>2, <1>a DEF Load, Local
  <2>2. Kept0
    BY <1>4, <1>a DEF Load
  <2> QED
    BY <1>3, <2>1, <2>2
<1>b. CASE LoadFails(p) \/ StartFails(p) \/ EndCycle(p)
  <2>1. Out
    BY <1>6, <1>b DEF LoadFails, StartFails, EndCycle
  <2>2. Kept0
    BY <1>4, <1>b DEF LoadFails, StartFails, EndCycle
  <2> QED
    BY <1>3, <2>1, <2>2
<1>c. CASE ReadCursorFails(p) \/ RecordFailureFails(p)
  <2>1. Out
    BY <1>6, <1>c DEF ReadCursorFails, RecordFailureFails
  <2>2. Syncing(p) /\ UNCHANGED <<market, stored>>
        /\ runs' = [runs EXCEPT ![cyc[p].conn] = Orphan(@, p)]
    BY <1>c DEF ReadCursorFails, RecordFailureFails, Syncing
  <2>3. Kept0
    BY <1>9, <2>2
  <2> QED
    BY <1>3, <2>1, <2>3
<1>d. ASSUME NEW c \in Conn, Skip(p, c) PROVE ScanInv'
  <2>1. Out
    BY <1>1, <1>2, <1>d DEF Skip, Local
  <2>2. Kept0
    BY <1>4, <1>d DEF Skip
  <2> QED
    BY <1>3, <2>1, <2>2
<1>e. ASSUME NEW c \in Conn, StartRun(p, c) PROVE ScanInv'
  <2>1. Out
    <3>1. now' = now /\ cyc[p].page = {}
      BY <1>2, <1>e DEF StartRun
    <3>2. cyc'[p] = [cyc[p] EXCEPT !.pc = "cursor", !.todo = @ \ {c},
                                   !.conn = c, !.since = Since(now)]
      BY <1>1, <1>e DEF StartRun, Local
    <3>3. cyc'[p].since = Since(now) /\ cyc'[p].pc = "cursor" /\ cyc'[p].page = cyc[p].page
      BY <1>1, <3>2 DEF Local
    <3> QED
      BY <1>1, <3>1, <3>3
  <2>2. Kept0
    <3> DEFINE row == [by |-> p, status |-> "running", cursor |-> NoCursor]
    <3>1. row \in Row /\ row.status = "running"
      BY DEF Row
    <3>2. runs' = [runs EXCEPT ![c] = Append(Kept(@), row)]
          /\ UNCHANGED <<market, stored>>
      BY <1>e DEF StartRun
    <3> HIDE DEF row
    <3> QED
      BY <1>1, <3>1, <3>2, RowsFrame
  <2> QED
    BY <1>3, <2>1, <2>2
<1>f. CASE FetchFails(p) \/ FinishFails(p) \/ UpsertFails(p)
  <2>1. now' = now /\ cyc'[p].pc = "fail" /\ cyc'[p].since = cyc[p].since
    BY <1>1, <1>f DEF FetchFails, FinishFails, UpsertFails, Local
  <2>3. cyc'[p].page = {}
    <3>1. CASE FetchFails(p) \/ FinishFails(p)
      <4>1. cyc' = [cyc EXCEPT ![p].pc = "fail"] /\ cyc[p].page = {}
        BY <1>2, <3>1 DEF FetchFails, FinishFails
      <4> QED
        BY <1>1, <4>1 DEF Local
    <3>2. CASE UpsertFails(p)
      BY <1>1, <3>2 DEF UpsertFails, Local
    <3> QED
      BY <1>f, <3>1, <3>2
  <2>2. Kept0
    BY <1>4, <1>f DEF FetchFails, FinishFails, UpsertFails
  <2>4. Out
    BY <1>2, <2>1, <2>3
  <2> QED
    BY <1>3, <2>2, <2>4
<1>g. CASE RecordFailure(p)
  <2> DEFINE row == [by |-> None, status |-> "failed", cursor |-> cyc[p].cursor]
  <2>1. Out
    BY <1>7, <1>g DEF RecordFailure
  <2>2. row \in Row /\ row.status # "success"
    BY <1>1 DEF Row, Local
  <2>3. runs' = [runs EXCEPT ![cyc[p].conn] = SetRow(@, p, row)]
        /\ Syncing(p) /\ UNCHANGED <<market, stored>>
    BY <1>g DEF RecordFailure, Syncing
  <2> HIDE DEF row, Kept0
  <2>4. Kept0
    BY <1>5, <1>8, <2>2, <2>3
  <2> QED
    BY <1>3, <2>1, <2>4
<1> QED
  BY <1>a, <1>b, <1>c, <1>d, <1>e, <1>f, <1>g

\* Reading the cursor puts the cycle at the resume point, or at its lookback,
\* before which no change counts.
LEMMA ReadCursorStep ==
  ASSUME TypeOK, ScanInv, NEW p \in Cycle, ReadCursor(p), FlagInv',
         \A q \in Cycle \ {p} : cyc[q].pc = "idle" /\ cyc'[q] = cyc[q]
  PROVE  ScanInv'
<1> DEFINE c == cyc[p].conn
           l == LastCursor(c)
<1>1. /\ cyc \in [Cycle -> Local] /\ cyc[p] \in Local /\ c \in Conn
      /\ now \in Nat /\ Since(now) \in Nat /\ chg \in [Order -> Nat]
      /\ cyc[p].since \in Nat
  BY SinceType DEF TypeOK, Local, ReadCursor, Syncing
<1>2. l \in Cursor /\ l <= now /\ Behind(c, l)
  BY <1>1, CursorType DEF ScanInv
<1>3. cyc[p].since <= Since(now) /\ cyc[p].page = {} /\ Since(now) <= now
  BY <1>1 DEF ScanInv, CycleInv, ReadCursor, Since
<1>4. cyc'[p] = [cyc[p] EXCEPT !.pc = "fetch", !.pages = 0, !.cursor = l]
  BY <1>1 DEF ReadCursor, Local
<1>5. /\ UNCHANGED <<market, stored, runs>>
      /\ cyc'[p].pc = "fetch" /\ cyc'[p].cursor = l /\ cyc'[p].since = cyc[p].since
      /\ cyc'[p].conn = c /\ cyc'[p].page = {}
  BY <1>1, <1>3, <1>4 DEF ReadCursor, Local
<1> DEFINE w == IF l = NoCursor THEN cyc[p].since ELSE l
<1>6. Position(p)' = w
  BY <1>5 DEF Position
<1>7. w <= now /\ l <= w
  BY <1>1, <1>2, <1>3
<1>8. Behind(c, w)
  <2>1. CASE l = NoCursor
    <3>1. w = cyc[p].since
      BY <2>1
    <3>2. \A o \in Order : chg[o] \in Nat
      BY <1>1
    <3> HIDE DEF w
    <3> QED
      BY <1>1, <1>3, <3>1, <3>2 DEF Behind
  <2>2. CASE l # NoCursor
    BY <1>2, <2>2
  <2> QED
    BY <2>1, <2>2
<1> HIDE DEF w
<1>9. CycleInv(p)'
  <2>1. (Reached(p, Position(p)))'
    <3>1. now' = now /\ chg' = chg /\ stored' = stored /\ mver' = mver /\ runs' = runs
      BY <1>5
    <3> QED
      BY <1>5, <1>6, <1>7, <1>8, <3>1 DEF Reached, Behind, LastCursor
  <2> QED
    BY <1>3, <1>5, <2>1 DEF CycleInv
<1> QED
  <2>1. RowsInv' /\ \A d \in Conn : ResumePoint(runs'[d]) = ResumePoint(runs[d])
    BY <1>5 DEF ScanInv, RowsInv
  <2> QED
    BY <1>5, <1>9, <2>1, Frame

\* A page holds every order of its window at its present version.
LEMMA FetchStep ==
  ASSUME TypeOK, ScanInv, NEW p \in Cycle, Fetch(p), FlagInv',
         \A q \in Cycle \ {p} : cyc[q].pc = "idle" /\ cyc'[q] = cyc[q]
  PROVE  ScanInv'
<1> DEFINE w == Position(p)
           c == cyc[p].conn
<1>1. /\ cyc \in [Cycle -> Local] /\ cyc[p] \in Local /\ c \in Conn
      /\ now \in Nat /\ w \in Nat
      /\ chg \in [Order -> Nat] /\ mver \in [Order -> Nat] /\ stored \in [Order -> Nat]
  BY PositionType DEF TypeOK, Local, Fetch, Syncing
<1>2. cyc'[p] = [cyc[p] EXCEPT !.pc = "upsert", !.page = Page(c, w), !.next = NextCursor(w)]
  BY <1>1 DEF Fetch, Local
<1>3. /\ UNCHANGED <<market, stored, runs>>
      /\ cyc'[p].pc = "upsert" /\ cyc'[p].cursor = cyc[p].cursor
      /\ cyc'[p].since = cyc[p].since /\ cyc'[p].conn = c
      /\ cyc'[p].page = Page(c, w) /\ cyc'[p].next = NextCursor(w)
  BY <1>1, <1>2 DEF Fetch, Local
<1>4. Reached(p, w) /\ cyc[p].since <= Since(now)
  BY DEF ScanInv, CycleInv, Fetch
<1>5. Position(p)' = w
  BY <1>3 DEF Position
<1>6. \A e \in Page(c, w) : /\ e[1] \in Order /\ Home[e[1]] = c /\ chg[e[1]] = w
                            /\ e[2] = mver[e[1]] /\ e = <<e[1], mver[e[1]]>>
  BY DEF Page
<1>7. \A o \in Order : Home[o] = c /\ chg[o] = w /\ mver[o] > 0 => <<o, mver[o]>> \in Page(c, w)
  BY DEF Page
<1>8. NextCursor(w) # NoCursor => NextCursor(w) = w + 1 /\ NextCursor(w) <= now
  BY <1>1 DEF NextCursor
<1>9. \A o \in Order : stored[o] <= mver[o]
  BY DEF ScanInv, OrdersInv
<1> HIDE DEF w
<1>10. PageInv(p)'
  <2> DEFINE pg == Page(c, w)
             nx == NextCursor(w)
  <2> HIDE DEF pg, nx
  <2>1. /\ cyc'[p].page = pg /\ cyc'[p].next = nx /\ cyc'[p].conn = c /\ Position(p)' = w
        /\ chg' = chg /\ stored' = stored /\ mver' = mver /\ now' = now
    BY <1>3, <1>5 DEF pg, nx
  <2>2. nx # NoCursor => nx = w + 1 /\ nx <= now
    BY <1>8 DEF nx
  <2>3. \A e \in pg : /\ Home[e[1]] = c /\ w <= chg[e[1]]
                      /\ stored[e[1]] <= e[2] /\ e[2] <= mver[e[1]] /\ e[2] = mver[e[1]]
    BY <1>1, <1>6, <1>9 DEF pg
  <2>4. \A e, f \in pg : f[1] = e[1] => f = e
    BY <1>6 DEF pg
  <2>5. \A o \in Order : Home[o] = c /\ chg[o] = w => stored[o] = mver[o] \/ <<o, mver[o]>> \in pg
    <3> SUFFICES ASSUME NEW o \in Order, Home[o] = c, chg[o] = w, mver[o] = 0
                 PROVE  stored[o] = mver[o]
      BY <1>1, <1>7 DEF pg
    <3> QED
      BY <1>1, <1>9
  <2> HIDE DEF c
  <2> QED
    BY <2>1, <2>2, <2>3, <2>4, <2>5 DEF PageInv
<1>11. (Reached(p, Position(p)))'
  <2>1. now' = now /\ chg' = chg /\ stored' = stored /\ mver' = mver /\ runs' = runs
    BY <1>3
  <2> QED
    BY <1>3, <1>4, <1>5, <2>1 DEF Reached, Behind, LastCursor
<1>12. CycleInv(p)'
  BY <1>3, <1>4, <1>10, <1>11 DEF CycleInv
<1> QED
  <2>1. RowsInv' /\ \A d \in Conn : ResumePoint(runs'[d]) = ResumePoint(runs[d])
    BY <1>3 DEF ScanInv, RowsInv
  <2> QED
    BY <1>3, <1>12, <2>1, Frame

\* An order on file is raised to the version the page holds, no further than
\* the marketplace's and no lower than it was, and lies at or past the window
\* the cycle is in.
LEMMA UpsertStep ==
  ASSUME TypeOK, ScanInv, NEW p \in Cycle, UpsertOrder(p), FlagInv',
         \A q \in Cycle \ {p} : cyc[q].pc = "idle" /\ cyc'[q] = cyc[q]
  PROVE  /\ ScanInv'
         /\ \E o \in Order, v \in Nat :
              /\ stored' = [stored EXCEPT ![o] = v]
              /\ stored[o] <= v /\ v <= mver[o]
<1> DEFINE w == Position(p)
           c == cyc[p].conn
           pg == cyc[p].page
           nx == cyc[p].next
<1>1. /\ cyc \in [Cycle -> Local] /\ cyc[p] \in Local /\ c \in Conn
      /\ now \in Nat /\ w \in Nat /\ nx \in Cursor /\ pg \subseteq Order \X Nat
      /\ chg \in [Order -> Nat] /\ mver \in [Order -> Nat] /\ stored \in [Order -> Nat]
  BY PositionType DEF TypeOK, Local, UpsertOrder, Syncing
<1>2. PICK e \in pg : /\ stored' = [stored EXCEPT ![e[1]] = e[2]]
                     /\ cyc' = [cyc EXCEPT ![p].page = @ \ {e}]
  BY DEF UpsertOrder
<1>3. e[1] \in Order /\ e[2] \in Nat /\ e = <<e[1], e[2]>>
  BY <1>1
<1>4. cyc'[p] = [cyc[p] EXCEPT !.page = pg \ {e}]
  BY <1>1, <1>2 DEF Local
<1>5. /\ UNCHANGED <<market, runs>> /\ cyc[p].pc = "upsert"
      /\ cyc'[p].pc = "upsert" /\ cyc'[p].cursor = cyc[p].cursor
      /\ cyc'[p].since = cyc[p].since /\ cyc'[p].conn = c
      /\ cyc'[p].page = pg \ {e} /\ cyc'[p].next = nx
  BY <1>1, <1>4 DEF UpsertOrder, Local
<1>6. Position(p)' = w
  BY <1>5 DEF Position
<1>7. Reached(p, w) /\ PageInv(p) /\ cyc[p].since <= Since(now)
  BY <1>5 DEF ScanInv, CycleInv
<1>8. /\ Home[e[1]] = c /\ w <= chg[e[1]] /\ stored[e[1]] <= e[2] /\ e[2] <= mver[e[1]]
      /\ nx # NoCursor /\ chg[e[1]] = w => e[2] = mver[e[1]]
      /\ \A f \in pg : f[1] = e[1] => f = e
  BY <1>7 DEF PageInv
<1>9. \A o \in Order : stored'[o] = IF o = e[1] THEN e[2] ELSE stored[o]
  BY <1>1, <1>2
<1>10. /\ now' = now /\ chg' = chg /\ mver' = mver /\ runs' = runs
  BY <1>5
<1> HIDE DEF w
\* Nothing that counts as behind is disturbed.
<1>11. ASSUME NEW d \in Conn, NEW x, x \in Nat \cup {-1}, d = c => x <= w, Behind(d, x)
       PROVE  \A o \in Order : Home[o] = d /\ Since(now') <= chg'[o] /\ chg'[o] < x
                              => stored'[o] = mver'[o]
  <2> SUFFICES ASSUME NEW o \in Order, Home[o] = d, Since(now) <= chg[o], chg[o] < x
               PROVE  stored'[o] = mver[o]
    BY <1>10
  <2>1. stored[o] = mver[o]
    BY <1>11 DEF Behind
  <2>2. o # e[1]
    <3> SUFFICES ASSUME o = e[1] PROVE FALSE
      OBVIOUS
    <3>1. chg[o] \in Nat
      BY <1>1
    <3> QED
      BY <1>1, <1>8, <1>11, <3>1
  <2> QED
    BY <1>9, <2>1, <2>2
<1>12. ASSUME NEW d \in Conn PROVE (LastCursor(d) <= now /\ Behind(d, LastCursor(d)))'
  <2> DEFINE l == ResumePoint(runs[d])
  <2>1. l \in Nat \cup {-1} /\ l <= now /\ Behind(d, l)
    BY <1>12, CursorType DEF ScanInv, LastCursor
  <2>2. d = c => l <= w
    BY <1>7 DEF Reached, LastCursor
  <2>3. ResumePoint(runs'[d]) = l
    BY <1>10
  <2> HIDE DEF l
  <2>4. \A o \in Order : Home[o] = d /\ Since(now') <= chg'[o] /\ chg'[o] < l
                          => stored'[o] = mver'[o]
    BY <1>11, <2>1, <2>2
  <2> QED
    BY <1>10, <2>1, <2>3, <2>4 DEF LastCursor, Behind
<1>13. OrdersInv'
  BY <1>1, <1>3, <1>8, <1>9, <1>10 DEF ScanInv, OrdersInv
<1>14. (Reached(p, Position(p)))'
  <2>1. w <= now /\ Behind(c, w) /\ ResumePoint(runs[c]) <= w
    BY <1>7 DEF Reached, LastCursor
  <2>2. \A o \in Order : Home[o] = c /\ Since(now') <= chg'[o] /\ chg'[o] < w
                          => stored'[o] = mver'[o]
    BY <1>1, <1>11, <2>1
  <2> HIDE DEF c
  <2> QED
    BY <1>5, <1>6, <1>10, <2>1, <2>2 DEF Reached, Behind, LastCursor
<1>15. PageInv(p)'
  <2> HIDE DEF c, pg, nx
  <2>1. /\ nx # NoCursor => nx = w + 1 /\ nx <= now
        /\ \A f \in pg : /\ Home[f[1]] = c /\ w <= chg[f[1]]
                         /\ stored[f[1]] <= f[2] /\ f[2] <= mver[f[1]]
                         /\ nx # NoCursor /\ chg[f[1]] = w => f[2] = mver[f[1]]
                         /\ \A g \in pg : g[1] = f[1] => g = f
        /\ nx # NoCursor =>
             \A o \in Order : Home[o] = c /\ chg[o] = w => stored[o] = mver[o] \/ <<o, mver[o]>> \in pg
    BY <1>7 DEF PageInv, pg, nx, c, w
  <2>2. /\ cyc'[p].page = pg \ {e} /\ cyc'[p].next = nx /\ cyc'[p].conn = c
        /\ Position(p)' = w /\ now' = now /\ chg' = chg /\ mver' = mver
    BY <1>5, <1>6, <1>10 DEF pg, nx, c
  <2>3. \A f \in pg \ {e} : f[1] \in Order /\ f[1] # e[1] /\ stored'[f[1]] = stored[f[1]]
    BY <1>1, <1>8, <1>9 DEF pg
  <2>4. nx # NoCursor => \A o \in Order : Home[o] = c /\ chg[o] = w =>
          stored'[o] = mver[o] \/ <<o, mver[o]>> \in pg \ {e}
    <3> SUFFICES ASSUME nx # NoCursor, NEW o \in Order, Home[o] = c, chg[o] = w,
                        <<o, mver[o]>> \notin pg \ {e}
                 PROVE  stored'[o] = mver[o]
      OBVIOUS
    <3>1. CASE o = e[1]
      BY <1>8, <1>9, <3>1 DEF nx
    <3>2. CASE o # e[1]
      <4>1. <<o, mver[o]>> # e
        BY <1>3, <3>2
      <4>2. stored[o] = mver[o]
        BY <2>1, <4>1
      <4> QED
        BY <1>9, <3>2, <4>2
    <3> QED
      BY <3>1, <3>2
  <2>5. \A f \in pg \ {e} :
          /\ Home[f[1]] = c /\ w <= chg[f[1]]
          /\ stored'[f[1]] <= f[2] /\ f[2] <= mver[f[1]]
          /\ nx # NoCursor /\ chg[f[1]] = w => f[2] = mver[f[1]]
          /\ \A g \in pg \ {e} : g[1] = f[1] => g = f
    <3> SUFFICES ASSUME NEW h \in pg \ {e}
                 PROVE  /\ Home[h[1]] = c /\ w <= chg[h[1]]
                        /\ stored'[h[1]] <= h[2] /\ h[2] <= mver[h[1]]
                        /\ nx # NoCursor /\ chg[h[1]] = w => h[2] = mver[h[1]]
                        /\ \A g \in pg \ {e} : g[1] = h[1] => g = h
      OBVIOUS
    <3>1. /\ Home[h[1]] = c /\ w <= chg[h[1]]
          /\ stored[h[1]] <= h[2] /\ h[2] <= mver[h[1]]
          /\ nx # NoCursor /\ chg[h[1]] = w => h[2] = mver[h[1]]
          /\ \A g \in pg : g[1] = h[1] => g = h
      BY <2>1
    <3>2. stored'[h[1]] = stored[h[1]]
      BY <2>3
    <3> QED
      BY <3>1, <3>2
  <2> DEFINE left == pg \ {e}
  <2> HIDE DEF left
  <2>6. /\ cyc'[p].page = left
        /\ nx # NoCursor => nx = w + 1 /\ nx <= now
    BY <2>1, <2>2 DEF left
  <2>7. \A f \in left :
          /\ Home[f[1]] = c /\ w <= chg[f[1]]
          /\ stored'[f[1]] <= f[2] /\ f[2] <= mver[f[1]]
          /\ nx # NoCursor /\ chg[f[1]] = w => f[2] = mver[f[1]]
          /\ \A g \in left : g[1] = f[1] => g = f
    BY <2>5 DEF left
  <2>8. nx # NoCursor => \A o \in Order : Home[o] = c /\ chg[o] = w =>
          stored'[o] = mver[o] \/ <<o, mver[o]>> \in left
    BY <2>4 DEF left
  <2> QED
    BY <2>2, <2>6, <2>7, <2>8 DEF PageInv
<1>16. CycleInv(p)'
  BY <1>5, <1>7, <1>10, <1>14, <1>15 DEF CycleInv
<1>17. ASSUME NEW q \in Cycle \ {p} PROVE CycleInv(q)'
  <2>1. CycleInv(q)
    BY DEF ScanInv
  <2> QED
    BY <1>1, <1>10, <1>17, <2>1, Outside DEF CycleInv
<1>18. RowsInv'
  BY <1>10 DEF ScanInv, RowsInv
<1> QED
  BY <1>2, <1>3, <1>8, <1>12, <1>13, <1>16, <1>17, <1>18 DEF ScanInv

\* A page on file in full moves the claim one window on.
LEMMA EndPageStep ==
  ASSUME TypeOK, ScanInv, NEW p \in Cycle, EndPage(p), FlagInv',
         \A q \in Cycle \ {p} : cyc[q].pc = "idle" /\ cyc'[q] = cyc[q]
  PROVE  ScanInv'
<1> DEFINE w == Position(p)
           c == cyc[p].conn
           nx == cyc[p].next
           after == IF nx # NoCursor /\ PagesLeft(cyc[p].pages + 1)
                      THEN "fetch" ELSE "finish"
           count == cyc[p].pages + 1
<1>1. /\ cyc \in [Cycle -> Local] /\ cyc[p] \in Local /\ c \in Conn
      /\ now \in Nat /\ w \in Nat /\ nx \in Cursor
      /\ chg \in [Order -> Nat]
  BY PositionType DEF TypeOK, Local, EndPage, Syncing
<1>2. after \in {"fetch", "finish"} /\ (after = "fetch" => nx # NoCursor)
  OBVIOUS
<1>3. cyc' = [cyc EXCEPT ![p].pc = after, ![p].cursor = nx, ![p].pages = count]
      /\ cyc[p].pc = "upsert" /\ cyc[p].page = {} /\ UNCHANGED <<market, stored, runs>>
  BY DEF EndPage
<1> HIDE DEF after, count
<1>4. cyc'[p] = [cyc[p] EXCEPT !.pc = after, !.cursor = nx, !.pages = count]
  BY <1>1, <1>3 DEF Local
<1>5. /\ cyc'[p].pc = after /\ cyc'[p].cursor = nx /\ cyc'[p].since = cyc[p].since
      /\ cyc'[p].conn = c /\ cyc'[p].page = {}
  BY <1>1, <1>3, <1>4 DEF Local
<1>6. Reached(p, w) /\ PageInv(p) /\ cyc[p].since <= Since(now)
  BY <1>3 DEF ScanInv, CycleInv
<1>7. /\ w <= now /\ Behind(c, w) /\ ResumePoint(runs[c]) <= w
      /\ ResumePoint(runs[c]) \in Nat \cup {-1}
  BY <1>1, <1>6, CursorType DEF Reached, LastCursor
<1>8. nx # NoCursor => /\ nx = w + 1 /\ nx <= now
                       /\ \A o \in Order : Home[o] = c /\ chg[o] = w => stored[o] = mver[o]
  BY <1>3, <1>6 DEF PageInv
<1> HIDE DEF w
<1>9. nx # NoCursor => Behind(c, nx)
  <2> SUFFICES ASSUME nx # NoCursor, NEW o \in Order,
                      Home[o] = c, Since(now) <= chg[o], chg[o] < nx
               PROVE  stored[o] = mver[o]
    BY DEF Behind
  <2>1. chg[o] < w \/ chg[o] = w
    BY <1>1, <1>8
  <2> QED
    BY <1>7, <1>8, <2>1 DEF Behind
<1>10. now' = now /\ chg' = chg /\ stored' = stored /\ mver' = mver /\ runs' = runs
  BY <1>3
<1>11. nx # NoCursor => nx <= now /\ ResumePoint(runs[c]) <= nx
  BY <1>1, <1>7, <1>8
<1>12. nx # NoCursor => (Reached(p, cyc[p].cursor))' /\ Position(p)' = cyc'[p].cursor
  <2> HIDE DEF nx, c
  <2> QED
    BY <1>5, <1>9, <1>10, <1>11 DEF Reached, Behind, LastCursor, Position
<1>13. CycleInv(p)'
  <2>1. after = "fetch" => (Reached(p, Position(p)))'
    BY <1>2, <1>12 DEF Reached
  <2>2. cyc'[p].cursor # NoCursor => (Reached(p, cyc[p].cursor))'
    BY <1>5, <1>12
  <2> QED
    BY <1>2, <1>5, <1>6, <1>10, <2>1, <2>2 DEF CycleInv
<1> QED
  <2>1. RowsInv' /\ \A d \in Conn : ResumePoint(runs'[d]) = ResumePoint(runs[d])
    BY <1>10 DEF ScanInv, RowsInv
  <2> QED
    BY <1>3, <1>13, <2>1, Frame

\* A success closes the run at a window up to which everything is on file.
LEMMA FinishStep ==
  ASSUME TypeOK, ScanInv, NEW p \in Cycle, Finish(p), FlagInv',
         \A q \in Cycle \ {p} : cyc[q].pc = "idle" /\ cyc'[q] = cyc[q]
  PROVE  ScanInv'
<1> DEFINE c == cyc[p].conn
           l == cyc[p].cursor
           row == [by |-> None, status |-> "success", cursor |-> l]
           r == [Idle EXCEPT !.pc = "next", !.todo = cyc[p].todo]
<1>1. /\ cyc \in [Cycle -> Local] /\ cyc[p] \in Local /\ c \in Conn
      /\ now \in Nat /\ Since(now) \in Nat /\ l \in Cursor
      /\ runs \in [Conn -> Seq(Row)] /\ cyc[p].pc = "finish"
  BY SinceType DEF TypeOK, Local, Finish, Syncing
<1>2. RowsInv /\ OrdersInv /\ (l # NoCursor => l <= now /\ Behind(c, l))
  BY <1>1 DEF ScanInv, CycleInv, Reached
<1>3. row \in Row /\ row.status = "success" /\ row.by = None /\ row.cursor = l
  BY <1>1 DEF Row
<1>4. /\ now' = now /\ chg' = chg /\ stored' = stored /\ mver' = mver
      /\ cyc'[p] = r
  BY <1>1 DEF Finish
<1>5. CycleInv(p)'
  <2>1. r.since = 0 /\ r.pc = "next" /\ r.page = {}
    BY DEF Idle
  <2> HIDE DEF r
  <2> QED
    BY <1>1, <1>4, <2>1, Outside
<1>6. ASSUME NEW q \in Cycle \ {p} PROVE CycleInv(q)'
  <2>1. CycleInv(q)
    BY DEF ScanInv
  <2> QED
    BY <1>1, <1>4, <1>6, <2>1, Outside DEF CycleInv
<1> HIDE DEF r
<1>7. /\ RowsInv'
      /\ \A d \in Conn \ {c} : ResumePoint(runs'[d]) = ResumePoint(runs[d])
      /\ ResumePoint(runs'[c]) \in {ResumePoint(runs[c]), l}
  <2>1. CASE UNCHANGED runs
    BY <1>2, <2>1 DEF RowsInv
  <2>2. CASE ~ UNCHANGED runs
    <3>1. PICK i \in DOMAIN runs[c] : runs' = [runs EXCEPT
            ![c] = SubSeq([runs[c] EXCEPT ![i] = row], i, Len(runs[c]))]
      BY <2>2 DEF Finish
    <3>2. i \in 1 .. Len(runs[c]) /\ runs[c] \in Seq(Row) /\ OneSuccess(runs[c])
      BY <1>1, <1>2, <3>1, LenProperties DEF RowsInv
    <3> DEFINE t == SubSeq([runs[c] EXCEPT ![i] = row], i, Len(runs[c]))
    <3>3. ResumePoint(t) = l /\ OneSuccess(t)
      BY <1>3, <3>2, RowsFinish
    <3>4. runs' = [runs EXCEPT ![c] = t]
      BY <3>1
    <3> HIDE DEF t, row, c, l
    <3>5. runs'[c] = t /\ \A d \in Conn \ {c} : runs'[d] = runs[d]
      BY <1>1, <3>4
    <3> QED
      BY <1>2, <3>3, <3>5 DEF RowsInv
  <2> QED
    BY <2>1, <2>2
<1>8. ASSUME NEW d \in Conn PROVE (LastCursor(d) <= now /\ Behind(d, LastCursor(d)))'
  <2>1. ResumePoint(runs[d]) <= now /\ Behind(d, ResumePoint(runs[d]))
    BY <1>8 DEF ScanInv, LastCursor
  <2>2. d = c => l <= now /\ (l # NoCursor => Behind(d, l))
    BY <1>1, <1>2
  <2>3. l = NoCursor => Behind(d, l)
    <3>1. \A o \in Order : chg[o] \in Nat
      BY DEF TypeOK
    <3> QED
      BY <3>1 DEF Behind
  <2>4. PICK x : x = ResumePoint(runs'[d]) /\ x <= now /\ Behind(d, x)
    BY <1>7, <1>8, <2>1, <2>2, <2>3
  <2> QED
    BY <1>4, <2>4 DEF LastCursor, Behind
<1>9. OrdersInv'
  BY <1>2, <1>4 DEF OrdersInv
<1> QED
  BY <1>5, <1>6, <1>7, <1>8, <1>9 DEF ScanInv

-----------------------------------------------------------------------------
(* The environment and the whole step *)

\* An order changes in the present window, which no cycle has left behind.
LEMMA ChangeStep ==
  ASSUME TypeOK, ScanInv, NEW o \in Order, Change(o), FlagInv'
  PROVE  ScanInv'
<1>1. /\ now \in Nat /\ chg \in [Order -> Nat] /\ mver \in [Order -> Nat]
      /\ stored \in [Order -> Nat] /\ cyc \in [Cycle -> Local]
  BY DEF TypeOK
<1>2. /\ now' = now /\ stored' = stored /\ runs' = runs /\ cyc' = cyc
      /\ \A q \in Order : /\ chg'[q] = IF q = o THEN now ELSE chg[q]
                          /\ mver'[q] = IF q = o THEN mver[o] + 1 ELSE mver[q]
                          /\ mver[q] \in Nat /\ chg[q] \in Nat /\ stored[q] \in Nat
  BY <1>1 DEF Change
<1>3. OrdersInv' /\ RowsInv'
  BY <1>1, <1>2 DEF ScanInv, OrdersInv, RowsInv
<1>4. ASSUME NEW c, NEW w \in Nat \cup {-1}, w <= now, Behind(c, w)
      PROVE  \A q \in Order : Home[q] = c /\ Since(now) <= chg'[q] /\ chg'[q] < w
                             => stored[q] = mver'[q]
  BY <1>1, <1>2, <1>4 DEF Behind
<1>5. ASSUME NEW c \in Conn PROVE (LastCursor(c) <= now /\ Behind(c, LastCursor(c)))'
  <2>1. /\ ResumePoint(runs[c]) <= now /\ Behind(c, ResumePoint(runs[c]))
        /\ ResumePoint(runs[c]) \in Nat \cup {-1}
    BY <1>5, CursorType DEF ScanInv, LastCursor
  <2> QED
    BY <1>2, <1>4, <2>1 DEF LastCursor, Behind
<1>6. ASSUME NEW p \in Cycle PROVE CycleInv(p)'
  <2> DEFINE w == Position(p)
             c == cyc[p].conn
             nx == cyc[p].next
             pg == cyc[p].page
  <2>1. CycleInv(p) /\ w \in Nat /\ nx \in Cursor /\ pg \subseteq Order \X Nat
        /\ cyc[p].cursor \in Cursor
    BY <1>1, PositionType DEF ScanInv, Local
  <2>2. Position(p)' = w
    BY <1>2 DEF Position
  <2>3. ASSUME NEW x, x \in Nat \cup {-1}, Reached(p, x) PROVE Reached(p, x)'
    <3>1. x <= now /\ Behind(c, x) /\ ResumePoint(runs[c]) <= x
      BY <2>3 DEF Reached, LastCursor
    <3>2. \A q \in Order : Home[q] = c /\ Since(now) <= chg'[q] /\ chg'[q] < x
                             => stored[q] = mver'[q]
      BY <1>4, <2>3, <3>1
    <3> QED
      BY <1>2, <3>1, <3>2 DEF Reached, Behind, LastCursor
  <2>4. ASSUME cyc[p].pc \in {"fetch", "upsert"} PROVE (Reached(p, Position(p)))'
    <3>1. Reached(p, w)
      BY <2>1, <2>4 DEF CycleInv
    <3>2. PICK x : x = w
      OBVIOUS
    <3>3. Reached(p, x)'
      BY <2>1, <2>3, <3>1, <3>2
    <3> QED
      BY <2>2, <3>2, <3>3 DEF Reached, Behind, LastCursor
  <2>5. ASSUME cyc[p].pc = "finish", cyc[p].cursor # NoCursor
        PROVE  (Reached(p, cyc[p].cursor))'
    <3>1. PICK x : x = cyc[p].cursor
      OBVIOUS
    <3>2. Reached(p, x)'
      BY <2>1, <2>3, <2>5, <3>1 DEF CycleInv
    <3> QED
      BY <1>2, <3>1, <3>2 DEF Reached, Behind, LastCursor
  <2>6. ASSUME cyc[p].pc = "upsert" PROVE PageInv(p)'
    <3>1. PageInv(p) /\ Reached(p, w)
      BY <2>1, <2>6 DEF CycleInv
    <3>2. w <= now /\ (nx # NoCursor => w < now)
      BY <1>1, <2>1, <3>1 DEF PageInv, Reached
    <3>3. \A e \in pg : e[1] \in Order /\ e[2] \in Nat
      BY <2>1
    <3> HIDE DEF w, c, nx, pg
    <3>4. /\ cyc'[p].page = pg /\ cyc'[p].next = nx /\ cyc'[p].conn = c
          /\ now' = now /\ stored' = stored /\ Position(p)' = w
      BY <1>2, <2>2 DEF c, nx, pg
    <3>5. /\ nx # NoCursor => nx = w + 1 /\ nx <= now
          /\ \A e \in pg : /\ Home[e[1]] = c /\ w <= chg[e[1]]
                           /\ stored[e[1]] <= e[2] /\ e[2] <= mver[e[1]]
                           /\ nx # NoCursor /\ chg[e[1]] = w => e[2] = mver[e[1]]
                           /\ \A f \in pg : f[1] = e[1] => f = e
          /\ nx # NoCursor =>
               \A q \in Order : Home[q] = c /\ chg[q] = w =>
                 stored[q] = mver[q] \/ <<q, mver[q]>> \in pg
      BY <3>1 DEF PageInv, pg, nx, c, w
    <3>6. \A e \in pg :
            /\ Home[e[1]] = c /\ w <= chg'[e[1]]
            /\ stored[e[1]] <= e[2] /\ e[2] <= mver'[e[1]]
            /\ nx # NoCursor /\ chg'[e[1]] = w => e[2] = mver'[e[1]]
            /\ \A f \in pg : f[1] = e[1] => f = e
      <4> SUFFICES ASSUME NEW h \in pg
                   PROVE  /\ Home[h[1]] = c /\ w <= chg'[h[1]]
                          /\ stored[h[1]] <= h[2] /\ h[2] <= mver'[h[1]]
                          /\ nx # NoCursor /\ chg'[h[1]] = w => h[2] = mver'[h[1]]
                          /\ \A f \in pg : f[1] = h[1] => f = h
        OBVIOUS
      <4>1. /\ Home[h[1]] = c /\ w <= chg[h[1]]
            /\ stored[h[1]] <= h[2] /\ h[2] <= mver[h[1]]
            /\ nx # NoCursor /\ chg[h[1]] = w => h[2] = mver[h[1]]
            /\ \A f \in pg : f[1] = h[1] => f = h
        BY <3>5
      <4>2. h[1] \in Order /\ h[2] \in Nat /\ w \in Nat
        BY <2>1, <3>3 DEF w
      <4> DEFINE q == h[1]
                 v == h[2]
      <4> HIDE DEF q, v
      <4>3. mver[q] \in Nat /\ w <= chg'[q] /\ v <= mver'[q]
            /\ (nx # NoCursor /\ chg'[q] = w => v = mver'[q])
        <5>1. /\ w <= chg[q] /\ v <= mver[q] /\ q \in Order /\ v \in Nat
              /\ nx # NoCursor /\ chg[q] = w => v = mver[q]
              /\ mver[q] \in Nat
          BY <1>2, <4>1, <4>2 DEF q, v
        <5>2. CASE q = o
          BY <1>1, <1>2, <3>2, <4>2, <5>1, <5>2
        <5>3. CASE q # o
          BY <1>2, <5>1, <5>3
        <5> QED
          BY <5>2, <5>3
      <4> QED
        BY <4>1, <4>3 DEF q, v
    <3>7. nx # NoCursor => \A q \in Order : Home[q] = c /\ chg'[q] = w =>
            stored[q] = mver'[q] \/ <<q, mver'[q]>> \in pg
      <4> SUFFICES ASSUME nx # NoCursor, NEW q \in Order, Home[q] = c, chg'[q] = w
                   PROVE  stored[q] = mver'[q] \/ <<q, mver'[q]>> \in pg
        OBVIOUS
      <4>1. q # o
        BY <1>1, <1>2, <2>1, <3>2 DEF w
      <4>2. chg[q] = w /\ mver'[q] = mver[q]
        BY <1>2, <4>1
      <4> QED
        BY <3>5, <4>2
    <3> QED
      BY <3>4, <3>5, <3>6, <3>7 DEF PageInv
  <2> QED
    BY <1>2, <2>1, <2>4, <2>5, <2>6 DEF CycleInv
<1> QED
  BY <1>3, <1>5, <1>6 DEF ScanInv

\* Later, fewer changes lie within the lookback and more windows in the past.
LEMMA TimeStep ==
  ASSUME TypeOK, ScanInv, TimePasses, FlagInv'
  PROVE  ScanInv'
<1>1. /\ now \in Nat /\ now' = now + 1 /\ now' \in Nat
      /\ chg \in [Order -> Nat] /\ cyc \in [Cycle -> Local]
  BY DEF TypeOK, TimePasses
<1>2. /\ chg' = chg /\ mver' = mver /\ stored' = stored /\ runs' = runs /\ cyc' = cyc
  BY DEF TimePasses
<1>3. /\ Since(now) \in Nat /\ Since(now') \in Nat /\ Since(now) <= Since(now')
      /\ now <= now'
  BY <1>1, SinceType, SinceGrows
<1>4. ASSUME NEW c, NEW w, Behind(c, w) PROVE Behind(c, w)'
  <2> SUFFICES ASSUME NEW o \in Order, Home[o] = c, Since(now') <= chg[o], chg[o] < w
               PROVE  stored[o] = mver[o]
    BY <1>2 DEF Behind
  <2>1. Since(now) <= chg[o]
    BY <1>1, <1>3
  <2> QED
    BY <1>4, <2>1 DEF Behind
<1>5. ASSUME NEW c \in Conn PROVE (LastCursor(c) <= now /\ Behind(c, LastCursor(c)))'
  <2>1. PICK l \in Cursor : l = ResumePoint(runs[c]) /\ l <= now /\ Behind(c, l)
    BY <1>5, CursorType DEF ScanInv, LastCursor
  <2>2. Behind(c, l)' /\ l <= now'
    BY <1>1, <1>4, <2>1
  <2> QED
    BY <1>2, <2>1, <2>2 DEF LastCursor, Behind
<1>6. ASSUME NEW p \in Cycle PROVE CycleInv(p)'
  <2>1. /\ CycleInv(p) /\ Position(p) \in Nat /\ cyc[p].cursor \in Cursor
        /\ cyc[p].next \in Cursor /\ cyc[p].since \in Nat
    BY <1>1, PositionType DEF ScanInv, Local
  <2>2. ASSUME NEW w \in Cursor, Reached(p, w) PROVE Reached(p, w)'
    <3>1. Behind(cyc[p].conn, w)
      BY <2>2 DEF Reached
    <3>2. PICK c : c = cyc[p].conn
      OBVIOUS
    <3>3. Behind(c, w)'
      BY <1>4, <3>1, <3>2
    <3> QED
      BY <1>1, <1>2, <2>2, <3>2, <3>3 DEF Reached, LastCursor, Behind
  <2>3. cyc'[p].since <= Since(now')
    BY <1>2, <1>3, <2>1 DEF CycleInv
  <2>4. PICK w \in Nat : w = Position(p) /\ w = Position(p)'
    BY <1>2, <2>1 DEF Position
  <2>5. cyc[p].pc \in {"fetch", "upsert"} => (Reached(p, Position(p)))'
    <3>1. cyc[p].pc \in {"fetch", "upsert"} => Reached(p, w)'
      BY <2>1, <2>2, <2>4 DEF CycleInv
    <3> QED
      BY <2>4, <3>1 DEF Reached, Behind, LastCursor
  <2>6. cyc[p].pc = "finish" /\ cyc[p].cursor # NoCursor => (Reached(p, cyc[p].cursor))'
    <3>1. PICK l \in Cursor : l = cyc[p].cursor
      BY <2>1
    <3>2. cyc[p].pc = "finish" /\ cyc[p].cursor # NoCursor => Reached(p, l)'
      BY <2>1, <2>2, <3>1 DEF CycleInv
    <3> QED
      BY <1>2, <3>1, <3>2 DEF Reached, Behind, LastCursor
  <2>7. cyc[p].pc = "upsert" => PageInv(p)'
    <3> SUFFICES ASSUME PageInv(p) PROVE PageInv(p)'
      BY <2>1 DEF CycleInv
    <3>1. cyc[p].next # NoCursor => cyc[p].next <= now'
      BY <1>1, <2>1 DEF PageInv
    <3> QED
      BY <1>2, <2>4, <3>1 DEF PageInv
  <2> QED
    BY <1>2, <2>1, <2>3, <2>5, <2>6, <2>7 DEF CycleInv
<1>7. OrdersInv' /\ RowsInv'
  <2>1. \A o \in Order : chg[o] \in Nat
    BY <1>1
  <2> QED
    BY <1>1, <1>2, <2>1 DEF ScanInv, OrdersInv, RowsInv
<1> QED
  BY <1>5, <1>6, <1>7 DEF ScanInv

\* A crash forgets the cycles and leaves the resume points; a cycle that
\* starts claims nothing yet.
LEMMA ProcessStep ==
  ASSUME TypeOK, ScanInv, TypeOK', FlagInv',
         \/ Crash
         \/ \E t \in Tick : BeginTick(t)
         \/ \E m \in Manual : BeginManual(m)
         \/ UNCHANGED vars
  PROVE  ScanInv'
<1>1. /\ now \in Nat /\ Since(now) \in Nat /\ cyc \in [Cycle -> Local]
      /\ runs \in [Conn -> Seq(Row)] /\ RowsInv
  BY SinceType DEF TypeOK, ScanInv
<1>2. UNCHANGED <<market, stored>>
  BY DEF Crash, BeginTick, BeginManual, vars
<1>3. ASSUME NEW c \in Conn
      PROVE  ResumePoint(runs'[c]) = ResumePoint(runs[c]) /\ OneSuccess(runs'[c])
  <2>1. OneSuccess(runs[c])
    BY <1>1 DEF RowsInv
  <2>2. CASE Crash
    <3> DEFINE t == [i \in DOMAIN runs[c] |->
                       IF runs[c][i].by = None THEN runs[c][i]
                       ELSE [runs[c][i] EXCEPT !.by = None]]
    <3>1. runs'[c] = t
      BY <2>2 DEF Crash
    <3>2. ResumePoint(t) = ResumePoint(runs[c]) /\ OneSuccess(t)
      BY <1>1, <2>1, RowsCrash
    <3> HIDE DEF t
    <3> QED
      BY <3>1, <3>2
  <2>3. CASE UNCHANGED runs
    BY <2>1, <2>3
  <2> QED
    BY <2>2, <2>3 DEF BeginTick, BeginManual, vars
<1>4. ASSUME NEW c \in Conn PROVE (LastCursor(c) <= now /\ Behind(c, LastCursor(c)))'
  <2>1. PICK l : l = ResumePoint(runs[c]) /\ l <= now /\ Behind(c, l)
    BY <1>4 DEF ScanInv, LastCursor
  <2> QED
    BY <1>2, <1>3, <2>1 DEF LastCursor, Behind
<1>5. ASSUME NEW p \in Cycle PROVE CycleInv(p)'
  <2>1. CycleInv(p) /\ cyc[p] \in Local
    BY <1>1 DEF ScanInv
  <2>2. CASE Crash
    <3>1. cyc'[p] = Idle
      BY <2>2 DEF Crash
    <3>2. Idle.since = 0 /\ Idle.pc = "idle" /\ Idle.page = {}
      BY DEF Idle
    <3>3. now' = now
      BY <1>2
    <3>4. /\ cyc'[p].since <= Since(now') /\ cyc'[p].page = {}
          /\ cyc'[p].pc \notin {"fetch", "upsert", "finish"}
      BY <1>1, <3>1, <3>2, <3>3
    <3> QED
      BY <1>1, <3>3, <3>4, Outside
  <2>3. CASE cyc'[p] = cyc[p] /\ UNCHANGED runs
    <3>1. now' = now /\ chg' = chg /\ mver' = mver /\ stored' = stored /\ runs' = runs
      BY <1>2, <2>3
    <3>2. PICK w : w = Position(p) /\ w = Position(p)'
      BY <2>3 DEF Position
    <3>3. \A x : Reached(p, x) => Reached(p, x)'
      BY <2>3, <3>1 DEF Reached, Behind, LastCursor
    <3>4. Reached(p, w) => (Reached(p, Position(p)))'
      BY <3>2, <3>3 DEF Reached, Behind, LastCursor
    <3>5. Reached(p, cyc[p].cursor) => (Reached(p, cyc[p].cursor))'
      BY <2>3, <3>3 DEF Reached, Behind, LastCursor
    <3>6. PageInv(p) => PageInv(p)'
      BY <2>3, <3>1, <3>2 DEF PageInv
    <3> QED
      BY <2>1, <2>3, <3>1, <3>2, <3>4, <3>5, <3>6 DEF CycleInv
  <2>4. CASE cyc[p].pc = "idle" /\ cyc'[p] = [cyc[p] EXCEPT !.pc = "load"]
    <3>1. cyc'[p].pc = "load" /\ cyc'[p].since = cyc[p].since /\ cyc'[p].page = cyc[p].page
      BY <2>1, <2>4 DEF Local
    <3>2. cyc[p].page = {} /\ cyc[p].since <= Since(now)
      BY <2>1, <2>4 DEF CycleInv
    <3> QED
      BY <1>1, <1>2, <3>1, <3>2, Outside
  <2> QED
    BY <1>1, <2>2, <2>3, <2>4 DEF BeginTick, BeginManual, vars
<1>6. OrdersInv'
  BY <1>2 DEF ScanInv, OrdersInv
<1> QED
  BY <1>3, <1>4, <1>5, <1>6 DEF ScanInv, RowsInv

LEMMA ScanStep ==
  ASSUME Manual = {}, TypeOK, ScanInv, [Next]_vars
  PROVE  ScanInv'
<1>1. TypeOK' /\ FlagInv'
  BY TypeStep, FlagStep DEF ScanInv
<1>2. ASSUME NEW p \in Cycle, CycleStep(p) PROVE ScanInv'
  <2>1. \A q \in Cycle \ {p} : cyc[q].pc = "idle" /\ cyc'[q] = cyc[q]
    BY <1>2, Alone DEF ScanInv
  <2>2. CASE ReadCursor(p)
    BY <1>1, <2>1, <2>2, ReadCursorStep
  <2>3. CASE Fetch(p)
    BY <1>1, <2>1, <2>3, FetchStep
  <2>4. CASE UpsertOrder(p)
    BY <1>1, <2>1, <2>4, UpsertStep
  <2>5. CASE EndPage(p)
    BY <1>1, <2>1, <2>5, EndPageStep
  <2>6. CASE Finish(p)
    BY <1>1, <2>1, <2>6, FinishStep
  <2> QED
    BY <1>1, <1>2, <2>1, <2>2, <2>3, <2>4, <2>5, <2>6, OutsideStep DEF CycleStep
<1>3. ASSUME NEW o \in Order, Change(o) PROVE ScanInv'
  BY <1>1, <1>3, ChangeStep
<1>4. CASE TimePasses
  BY <1>1, <1>4, TimeStep
<1> QED
  BY <1>1, <1>2, <1>3, <1>4, ProcessStep DEF Next

LEMMA ScanInit == ASSUME Init PROVE ScanInv
<1>1. /\ now = 0 /\ \A o \in Order : mver[o] = 0 /\ chg[o] = 0 /\ stored[o] = 0
      /\ \A c \in Conn : runs[c] = <<>>
      /\ \A p \in Cycle : cyc[p] = Idle
      /\ running = FALSE
  BY DEF Init
<1>2. Idle.pc = "idle" /\ Idle.since = 0 /\ Idle.page = {}
  BY DEF Idle
<1>3. FlagInv
  BY <1>1, <1>2 DEF FlagInv, TicksNeverOverlap
<1>4. RowsInv
  <2>1. DOMAIN <<>> = {}
    OBVIOUS
  <2> QED
    BY <1>1, <2>1 DEF RowsInv, OneSuccess
<1>5. OrdersInv
  BY <1>1 DEF OrdersInv
<1>6. \A c \in Conn : LastCursor(c) <= now /\ Behind(c, LastCursor(c))
  <2> SUFFICES ASSUME NEW c \in Conn PROVE LastCursor(c) <= now /\ Behind(c, LastCursor(c))
    OBVIOUS
  <2>1. LastCursor(c) = -1
    BY <1>1 DEF LastCursor, ResumePoint
  <2>2. \A o \in Order : ~ chg[o] < -1
    BY <1>1
  <2> QED
    BY <1>1, <2>1, <2>2 DEF Behind
<1>7. \A p \in Cycle : CycleInv(p)
  <2>1. Since(now) >= 0
    BY <1>1 DEF Since
  <2> QED
    BY <1>1, <1>2, <2>1 DEF CycleInv
<1> QED
  BY <1>3, <1>4, <1>5, <1>6, <1>7 DEF ScanInv

\* With the scheduler alone, ScanInv holds throughout.
THEOREM Scan == ASSUME Manual = {} PROVE Spec => []ScanInv
<1>1. Init => ScanInv
  BY ScanInit
<1>2. TypeOK /\ ScanInv /\ [Next]_vars => ScanInv'
  BY ScanStep
<1> QED
  BY <1>1, <1>2, TypeCorrect, PTL DEF Spec

\* A resume skips no change of the lookback, whatever fails and wherever the
\* page limit or a crash cuts a run (getLastCursor, syncConnection).
THEOREM Resume == ASSUME Manual = {} PROVE Spec => []ResumeSkipsNothing
<1>1. ScanInv => ResumeSkipsNothing
  BY DEF ScanInv, ResumeSkipsNothing
<1> QED
  BY <1>1, Scan, PTL

-----------------------------------------------------------------------------
(* The orders on file *)

\* Every step leaves the orders on file alone, or raises one of them.
LEMMA StoredStep ==
  ASSUME Manual = {}, TypeOK, ScanInv, [Next]_vars
  PROVE  \/ stored' = stored
         \/ /\ \E o \in Order, v \in Nat :
                 /\ stored' = [stored EXCEPT ![o] = v]
                 /\ stored[o] <= v /\ v <= mver[o]
            /\ mver' = mver
<1>1. ASSUME NEW p \in Cycle, UpsertOrder(p)
      PROVE  /\ \E o \in Order, v \in Nat :
                 /\ stored' = [stored EXCEPT ![o] = v]
                 /\ stored[o] <= v /\ v <= mver[o]
             /\ mver' = mver
  <2>1. CycleStep(p) /\ FlagInv'
    BY <1>1, FlagStep DEF CycleStep, ScanInv
  <2>2. \A q \in Cycle \ {p} : cyc[q].pc = "idle" /\ cyc'[q] = cyc[q]
    BY <2>1, Alone DEF ScanInv
  <2> QED
    BY <1>1, <2>1, <2>2, UpsertStep DEF UpsertOrder
<1>2. ASSUME NEW p \in Cycle, CycleStep(p), ~ UpsertOrder(p) PROVE stored' = stored
  BY <1>2 DEF CycleStep, Load, LoadFails, Skip, StartRun, StartFails, ReadCursor,
     ReadCursorFails, Fetch, FetchFails, UpsertFails, EndPage, Finish, FinishFails,
     RecordFailure, RecordFailureFails, EndCycle
<1> QED
  BY <1>1, <1>2 DEF Next, BeginTick, BeginManual, Change, TimePasses, Crash, vars

\* The version on file never goes back (upsertOrders under one scheduler).
THEOREM Regress == ASSUME Manual = {} PROVE Spec => StoredNeverRegresses
<1>1. TypeOK /\ ScanInv /\ [Next]_vars
        => [\A o \in Order : stored'[o] >= stored[o]]_stored
  <2> SUFFICES ASSUME TypeOK, ScanInv, [Next]_vars, stored' # stored, NEW q \in Order
               PROVE  stored'[q] >= stored[q]
    OBVIOUS
  <2>1. PICK o \in Order, v \in Nat : stored' = [stored EXCEPT ![o] = v] /\ stored[o] <= v
    BY StoredStep
  <2> QED
    BY <2>1 DEF TypeOK
<1> QED
  BY <1>1, TypeCorrect, Scan, PTL DEF Spec, StoredNeverRegresses

\* The engine with its pages, cursors, runs and failures implements the
\* mirror.
THEOREM Implements == ASSUME Manual = {} PROVE Spec => ImplementsMirror
<1>1. Init => Mirror!Init
  BY DEF Init, Mirror!Init
<1>2. TypeOK /\ ScanInv /\ [Next]_vars => [Mirror!Next]_(Mirror!vars)
  <2> SUFFICES ASSUME TypeOK, ScanInv, [Next]_vars
               PROVE  Mirror!Next \/ UNCHANGED <<mver, stored>>
    BY DEF Mirror!vars
  <2>1. ASSUME NEW o \in Order, Change(o) PROVE Mirror!Change(o)
    BY <2>1 DEF Change, Mirror!Change
  <2>2. CASE stored' # stored
    <3>1. PICK o \in Order, v \in Nat : /\ stored' = [stored EXCEPT ![o] = v]
                                        /\ stored[o] <= v /\ v <= mver[o] /\ mver' = mver
      BY <2>2, StoredStep
    <3>2. v # stored[o]
      BY <2>2, <3>1 DEF TypeOK
    <3>3. v \in stored[o] + 1 .. mver[o]
      BY <3>1, <3>2 DEF TypeOK
    <3> QED
      BY <3>1, <3>3 DEF Mirror!Next, Mirror!Copy
  <2>3. ASSUME NEW p \in Cycle, CycleStep(p) PROVE mver' = mver
    BY <2>3 DEF CycleStep, Load, LoadFails, Skip, StartRun, StartFails, ReadCursor,
       ReadCursorFails, Fetch, FetchFails, UpsertOrder, UpsertFails, EndPage, Finish,
       FinishFails, RecordFailure, RecordFailureFails, EndCycle
  <2>4. CASE stored' = stored
    BY <2>1, <2>3, <2>4 DEF Next, BeginTick, BeginManual, TimePasses, Crash, vars, Mirror!Next
  <2> QED
    BY <2>2, <2>4
<1> QED
  BY <1>1, <1>2, TypeCorrect, Scan, PTL DEF Spec, ImplementsMirror, Mirror!Spec
=============================================================================
