------------------------- MODULE NaverOrders_proofs -------------------------
(***************************************************************************)
(* Proofs about NaverOrders, for every set of lines, orders, window,       *)
(* lookback, batch and page limit: what a sweep has left behind is on      *)
(* file, however Naver cuts its lists off and lines change meanwhile.      *)
(***************************************************************************)
EXTENDS NaverOrders, TLAPS

\* A run, named for the proofs.
RunType == [pc : {"idle", "statuses", "asked", "details", "upsert"},
            cur : Cursor, next : Cursor, to : Nat,
            ids : SUBSET Line, page : Seq(SUBSET Normalized),
            pages : 0 .. (MaxPages - 1)]

-----------------------------------------------------------------------------
(* The inductive invariant *)

\* A change that the lookback still holds, and that a sweep at c has behind it.
Due(l) == Since(clock) <= ver[l] /\ ver[l] > 0
Covered(c) == \A l \in Line : Due(l) /\ Passed(l, c) => seen[l] = ver[l]

\* Nothing is past the present: no cursor, no version.
Reached(c) == c.from <= clock /\ c.more < clock
Timely ==
  /\ clock >= 1 /\ \A l \in Line : ver[l] < clock
  /\ Reached(resume) /\ Reached(swept) /\ Reached(run.cur) /\ Reached(run.next)
  /\ run.to <= clock

\* Where the page under way leads to.
EndOf(r) == IF r.next = NoCursor THEN [from |-> r.to, more |-> 0] ELSE r.next

\* What the page has normalized and not yet stored.
Entries(page) == UNION {page[i] : i \in DOMAIN page}

\* A page's lines are stored, to be stored or to be asked for, and what is to
\* be stored is no older than what it replaces, as far as the sweep gets.
Covering ==
  /\ \A l \in Line : Due(l) /\ Passed(l, EndOf(run)) =>
       \/ seen[l] = ver[l] \/ l \in run.ids
       \/ \E d \in Entries(run.page) : d[l] = ver[l]
  /\ \A d \in Entries(run.page), l \in Line : d[l] # 0 =>
       \/ d[l] = ver[l]
       \/ ~Passed(l, swept) /\ ~Passed(l, resume) /\ ~Passed(l, EndOf(run))

SweepInv ==
  /\ Timely /\ Covered(swept) /\ Covered(resume)
  /\ run.pc \in {"statuses", "asked"} => Covered(run.cur)
  /\ run.pc = "asked" => run.page = <<>> /\ run.next \in {NoCursor, [from |-> run.to, more |-> 0]}
  /\ run.pc \in {"details", "upsert"} => Covering
  /\ run.pc = "upsert" => run.ids = {}

NInv == NaverAssumption /\ TypeOK /\ SweepInv

-----------------------------------------------------------------------------
(* Lemmas *)

LEMMA Types ==
  ASSUME NaverAssumption, TypeOK
  PROVE  /\ clock \in Nat /\ fails \in Nat /\ Window \in Nat \ {0} /\ Lookback \in Nat
         /\ ver \in [Line -> Nat] /\ file \in [Line -> Nat] /\ seen \in [Line -> Nat]
         /\ resume \in Cursor /\ swept \in Cursor /\ run \in RunType
         /\ Cursor = [from : Nat \cup {-1}, more : Nat]
BY DEF NaverAssumption, TypeOK, RunType, Cursor

LEMMA RunFields ==
  ASSUME NEW r \in RunType
  PROVE  /\ r.pc \in {"idle", "statuses", "asked", "details", "upsert"}
         /\ r.cur \in Cursor /\ r.next \in Cursor /\ r.to \in Nat /\ r.ids \subseteq Line
         /\ r.page \in Seq(SUBSET Normalized)
         /\ r.pages \in 0 .. (MaxPages - 1)
BY DEF RunType

LEMMA Rest ==
  ASSUME NaverAssumption
  PROVE  /\ NoCursor \in Cursor /\ NoCursor.from = -1 /\ NoCursor.more = 0
         /\ Idle \in RunType /\ Idle.pc = "idle" /\ Idle.cur = NoCursor
         /\ Idle.next = NoCursor /\ Idle.to = 0
<1>1. NoCursor \in Cursor /\ NoCursor.from = -1 /\ NoCursor.more = 0
  BY DEF NoCursor, Cursor
<1>2. <<>> \in Seq(SUBSET Normalized)
  OBVIOUS
<1>3. 0 \in 0 .. (MaxPages - 1)
  BY DEF NaverAssumption
<1> QED
  BY <1>1, <1>2, <1>3 DEF Idle, RunType

LEMMA SinceType ==
  ASSUME NaverAssumption, NEW n \in Nat
  PROVE  Since(n) \in Nat /\ Since(n) <= n /\ Since(n) <= Since(n + 1)
BY DEF Since, NaverAssumption

LEMMA EntriesOfNone == Entries(<<>>) = {}
BY DEF Entries

LEMMA EntriesType ==
  ASSUME NEW page \in Seq(SUBSET Normalized)
  PROVE  Entries(page) \subseteq Normalized
BY DEF Entries

LEMMA EntriesAppended ==
  ASSUME NEW page \in Seq(SUBSET Normalized), NEW b \in SUBSET Normalized
  PROVE  Entries(Append(page, b)) = Entries(page) \cup b
<1> DEFINE p == Append(page, b)
<1>1. /\ Len(p) = Len(page) + 1 /\ DOMAIN p = 1 .. Len(page) + 1 /\ DOMAIN page = 1 .. Len(page)
      /\ p[Len(page) + 1] = b /\ \A i \in 1 .. Len(page) : p[i] = page[i]
      /\ Len(page) \in Nat
  OBVIOUS
<1> HIDE DEF p
<1>2. ASSUME NEW x \in Entries(p) PROVE x \in Entries(page) \cup b
  BY <1>1, <1>2 DEF Entries
<1>3. ASSUME NEW x \in Entries(page) \cup b PROVE x \in Entries(p)
  <2>1. CASE x \in b
    BY <1>1, <2>1 DEF Entries
  <2>2. CASE x \in Entries(page)
    BY <1>1, <2>2 DEF Entries
  <2> QED
    BY <1>3, <2>1, <2>2
<1>4. Entries(p) = Entries(page) \cup b
  BY <1>2, <1>3
<1> QED
  BY <1>4 DEF p

\* Storing d takes it, and nothing else, off what is to be stored.
LEMMA EntriesStored ==
  ASSUME NEW page \in Seq(SUBSET Normalized), page # <<>>, NEW d \in Head(page)
  PROVE  LET p == IF Head(page) = {d} THEN Tail(page) ELSE <<Head(page) \ {d}>> \o Tail(page)
         IN  /\ p \in Seq(SUBSET Normalized) /\ d \in Entries(page)
             /\ Entries(p) \subseteq Entries(page) /\ Entries(page) \subseteq Entries(p) \cup {d}
<1>1. /\ Len(page) \in Nat \ {0} /\ DOMAIN page = 1 .. Len(page) /\ Head(page) = page[1]
      /\ Tail(page) \in Seq(SUBSET Normalized) /\ Len(Tail(page)) = Len(page) - 1
      /\ \A i \in 1 .. Len(page) - 1 : Tail(page)[i] = page[i + 1]
      /\ Head(page) \subseteq Normalized
  OBVIOUS
<1>2. d \in Entries(page)
  BY <1>1 DEF Entries
<1>3. Entries(page) = Head(page) \cup Entries(Tail(page))
  <2>1. ASSUME NEW x \in Entries(page) PROVE x \in Head(page) \cup Entries(Tail(page))
    <3>1. PICK i \in 1 .. Len(page) : x \in page[i]
      BY <1>1, <2>1 DEF Entries
    <3>2. CASE i = 1
      BY <1>1, <3>1, <3>2
    <3>3. CASE i # 1
      <4>1. i - 1 \in 1 .. Len(page) - 1 /\ Tail(page)[i - 1] = page[i]
        BY <1>1, <3>3
      <4>2. i - 1 \in DOMAIN Tail(page)
        BY <1>1, <4>1
      <4> QED
        BY <3>1, <4>1, <4>2 DEF Entries
    <3> QED
      BY <3>2, <3>3
  <2>2. ASSUME NEW x \in Head(page) \cup Entries(Tail(page)) PROVE x \in Entries(page)
    <3>1. CASE x \in Head(page)
      BY <1>1, <3>1 DEF Entries
    <3>2. CASE x \in Entries(Tail(page))
      <4>1. PICK i \in DOMAIN Tail(page) : x \in Tail(page)[i]
        BY <3>2 DEF Entries
      <4>2. i \in 1 .. Len(page) - 1
        BY <1>1, <4>1
      <4>3. i + 1 \in 1 .. Len(page) /\ x \in page[i + 1]
        BY <1>1, <4>1, <4>2
      <4> QED
        BY <1>1, <4>3 DEF Entries
    <3> QED
      BY <2>2, <3>1, <3>2
  <2> QED
    BY <2>1, <2>2
<1>4. CASE Head(page) = {d}
  BY <1>1, <1>2, <1>3, <1>4
<1>5. CASE Head(page) # {d}
  <2> DEFINE p == <<Head(page) \ {d}>> \o Tail(page)
  <2>1. /\ p \in Seq(SUBSET Normalized) /\ Len(p) = Len(page) /\ DOMAIN p = 1 .. Len(page)
        /\ p[1] = Head(page) \ {d}
        /\ \A i \in 2 .. Len(page) : p[i] = page[i]
    <3>1. <<Head(page) \ {d}>> \in Seq(SUBSET Normalized)
      BY <1>1
    <3>2. p \in Seq(SUBSET Normalized) /\ Len(p) = Len(page) /\ p[1] = Head(page) \ {d}
      BY <1>1, <3>1
    <3>3. \A i \in 2 .. Len(page) : p[i] = Tail(page)[i - 1] /\ i - 1 \in 1 .. Len(page) - 1
      BY <1>1, <3>1
    <3>4. \A i \in 2 .. Len(page) : p[i] = page[i]
      BY <1>1, <3>3
    <3> QED
      BY <3>2, <3>4
  <2> HIDE DEF p
  <2>2. Entries(p) \subseteq Entries(page)
    <3> SUFFICES ASSUME NEW x \in Entries(p) PROVE x \in Entries(page)
      OBVIOUS
    <3>1. PICK i \in 1 .. Len(page) : x \in p[i]
      BY <2>1 DEF Entries
    <3>2. x \in page[i]
      BY <1>1, <2>1, <3>1
    <3> QED
      BY <1>1, <3>2 DEF Entries
  <2>3. Entries(page) \subseteq Entries(p) \cup {d}
    <3> SUFFICES ASSUME NEW x \in Entries(page), x # d PROVE x \in Entries(p)
      OBVIOUS
    <3>1. PICK i \in 1 .. Len(page) : x \in page[i]
      BY <1>1 DEF Entries
    <3>2. x \in p[i]
      BY <1>1, <2>1, <3>1
    <3> QED
      BY <2>1, <3>2 DEF Entries
  <2> QED
    BY <1>2, <1>5, <2>1, <2>2, <2>3 DEF p
<1> QED
  BY <1>4, <1>5

\* What an answer lists, and where it leads, leaves nothing out.
LEMMA AnswerCovers ==
  ASSUME NaverAssumption, ver \in [Line -> Nat], NEW c \in Cursor, NEW to \in Nat, NEW a \in Answers(c, to)
  PROVE  /\ a.lines \subseteq Line /\ a.more \in Nat
         /\ a.more = 0 \/ \E k \in Line : a.more = ver[k]
         /\ a.more = 0 => \A l \in Line :
              ver[l] > 0 /\ ver[l] < to => l \in a.lines \/ Passed(l, c)
         /\ a.more # 0 => \A l \in Line :
              ver[l] > 0 /\ Passed(l, [from |-> c.from, more |-> a.more])
                => l \in a.lines \/ Passed(l, c)
<1> DEFINE all == Changed(c, to)
           upTo(k) == {l \in all : ver[l] <= ver[k]}
<1>0. c.from \in Int /\ c.more \in Nat
  BY DEF Cursor
<1>1. all \subseteq Line /\ \A l \in Line : ver[l] > 0 /\ ver[l] < to => l \in all \/ Passed(l, c)
  BY <1>0 DEF Changed, Passed
<1>2. CASE a = [lines |-> all, more |-> 0]
  BY <1>1, <1>2
<1>3. ASSUME NEW k \in all, a = [lines |-> upTo(k), more |-> ver[k]]
      PROVE  /\ a.lines \subseteq Line /\ a.more \in Nat /\ a.more # 0 /\ a.more = ver[k] /\ k \in Line
             /\ \A l \in Line :
                  ver[l] > 0 /\ Passed(l, [from |-> c.from, more |-> a.more])
                    => l \in a.lines \/ Passed(l, c)
  <2>1. a.lines = upTo(k) /\ a.more = ver[k] /\ k \in Line /\ ver[k] > 0 /\ ver[k] < to
    BY <1>3 DEF Changed
  <2>2. \A l \in Line : ver[l] > 0 /\ ver[l] <= ver[k] => l \in upTo(k) \/ Passed(l, c)
    BY <1>1, <2>1
  <2> QED
    BY <1>1, <2>1, <2>2 DEF Passed
<1> QED
  BY <1>2, <1>3 DEF Answers

-----------------------------------------------------------------------------
(* The steps *)

LEMMA NInit == NaverAssumption /\ Init => NInv
<1> SUFFICES ASSUME NaverAssumption, Init PROVE NInv
  OBVIOUS
<1>1. TypeOK
  BY Rest DEF Init, TypeOK, RunType
<1>2. SweepInv
  BY Rest DEF Init, SweepInv, Timely, Reached, Covered, Passed, Due
<1> QED
  BY <1>1, <1>2 DEF NInv

\* What a step of the run must show if only the run changes.
LEMMA RunChanges ==
  ASSUME NInv, UNCHANGED <<clock, ver, file, resume, seen, swept>>, fails' \in Nat,
         run' \in RunType,
         Reached(run'.cur), Reached(run'.next), run'.to <= clock,
         run'.pc \in {"statuses", "asked"} => Covered(run'.cur),
         run'.pc = "asked" =>
           run'.page = <<>> /\ run'.next \in {NoCursor, [from |-> run'.to, more |-> 0]},
         run'.pc \in {"details", "upsert"} =>
           /\ \A l \in Line : Due(l) /\ Passed(l, EndOf(run')) =>
                \/ seen[l] = ver[l] \/ l \in run'.ids
                \/ \E d \in Entries(run'.page) : d[l] = ver[l]
           /\ \A d \in Entries(run'.page), l \in Line : d[l] # 0 =>
                \/ d[l] = ver[l]
                \/ ~Passed(l, swept) /\ ~Passed(l, resume) /\ ~Passed(l, EndOf(run')),
         run'.pc = "upsert" => run'.ids = {}
  PROVE  NInv'
<1>1. TypeOK'
  BY DEF NInv, TypeOK, RunType
<1>2. Timely'
  BY DEF NInv, SweepInv, Timely, Reached
<1>3. Covered(swept)' /\ Covered(resume)'
  BY DEF NInv, SweepInv, Covered, Due, Since, Passed
<1>4. (run.pc \in {"statuses", "asked"} => Covered(run.cur))'
  BY DEF Covered, Due, Since, Passed
<1>5. (run.pc \in {"details", "upsert"} => Covering)'
  BY DEF Covering, Due, Since, Passed, EndOf, Entries
<1> QED
  BY <1>1, <1>2, <1>3, <1>4, <1>5 DEF NInv, SweepInv, NaverAssumption

LEMMA BeginStep == NInv /\ Begin => NInv'
<1> SUFFICES ASSUME NInv, Begin PROVE NInv'
  OBVIOUS
<1> DEFINE c == IF resume = NoCursor THEN [from |-> Since(clock), more |-> 0] ELSE resume
<1>0. NaverAssumption /\ TypeOK /\ SweepInv /\ clock \in Nat /\ resume \in Cursor
      /\ ver \in [Line -> Nat]
  BY Types DEF NInv
<1>1. c \in Cursor /\ Reached(c) /\ Covered(c)
  <2>1. CASE resume = NoCursor
    <3>1. c = [from |-> Since(clock), more |-> 0] /\ Since(clock) \in Nat /\ Since(clock) <= clock
      BY <1>0, <2>1, SinceType
    <3>2. c \in Cursor /\ Reached(c)
      BY <1>0, <3>1 DEF Cursor, Reached, SweepInv, Timely
    <3>3. Covered(c)
      BY <1>0, <3>1 DEF Covered, Due, Passed
    <3> QED
      BY <3>2, <3>3
  <2>2. CASE resume # NoCursor
    BY <1>0, <2>2 DEF SweepInv, Timely
  <2> QED
    BY <2>1, <2>2
<1>2. run' = [Idle EXCEPT !.pc = "statuses", !.cur = c]
  BY DEF Begin
<1> HIDE DEF c
<1>3. /\ run' \in RunType /\ run'.pc = "statuses" /\ run'.cur = c /\ run'.next = NoCursor
      /\ run'.to = 0
  <2>1. run' = [pc |-> "statuses", cur |-> c, next |-> NoCursor, to |-> 0,
                ids |-> {}, page |-> <<>>, pages |-> 0]
    BY <1>2 DEF Idle
  <2>2. /\ <<>> \in Seq(SUBSET Normalized) /\ NoCursor \in Cursor
        /\ 0 \in 0 .. (MaxPages - 1)
    BY <1>0, Rest DEF NaverAssumption
  <2> QED
    BY <1>1, <2>1, <2>2 DEF RunType
<1>4. Reached(NoCursor) /\ 0 <= clock
  BY <1>0, Rest DEF SweepInv, Timely, Reached
<1>5. UNCHANGED <<clock, ver, file, resume, seen, swept>> /\ fails' \in Nat
  BY Types DEF NInv, Begin
<1> QED
  BY <1>1, <1>3, <1>4, <1>5, RunChanges

LEMMA AskStep == NInv /\ AskStatuses => NInv'
<1> SUFFICES ASSUME NInv, AskStatuses PROVE NInv'
  OBVIOUS
<1> DEFINE to == WindowEnd(run.cur.from)
           next == IF to < clock THEN [from |-> to, more |-> 0] ELSE NoCursor
<1>0. NaverAssumption /\ TypeOK /\ SweepInv /\ clock \in Nat /\ clock >= 1 /\ run \in RunType
      /\ run.cur \in Cursor /\ run.cur.from \in Nat \cup {-1} /\ Window \in Nat \ {0}
  BY Types, RunFields DEF NInv, SweepInv, Timely
<1>1. to \in Nat /\ to <= clock
  BY <1>0 DEF WindowEnd
<1> HIDE DEF to
<1>2. next \in Cursor /\ Reached(next) /\ next \in {NoCursor, [from |-> to, more |-> 0]}
  BY <1>0, <1>1, Rest DEF Cursor, Reached
<1> HIDE DEF next
<1>3. /\ run' \in RunType /\ run'.pc = "asked" /\ run'.to = to /\ run'.page = <<>>
      /\ run'.next = next /\ run'.cur = run.cur
  <2> DEFINE f == [run EXCEPT !.pc = "asked", !.to = to]
             g == [f EXCEPT !.page = <<>>]
  <2>1. f \in RunType /\ f.pc = "asked" /\ f.to = to /\ f.cur = run.cur
    BY <1>0, <1>1 DEF RunType
  <2>2. run' = [g EXCEPT !.next = next]
    BY DEF AskStatuses, to, next
  <2> HIDE DEF f
  <2>3. g \in RunType /\ g.pc = "asked" /\ g.to = to /\ g.cur = run.cur /\ g.page = <<>>
    <3>1. <<>> \in Seq(SUBSET Normalized)
      OBVIOUS
    <3> QED
      BY <2>1, <3>1 DEF RunType
  <2> HIDE DEF g
  <2> QED
    BY <1>2, <2>2, <2>3 DEF RunType
<1>4. Covered(run.cur) /\ Reached(run.cur)
  BY <1>0 DEF AskStatuses, SweepInv, Timely
<1>5. UNCHANGED <<clock, ver, file, resume, seen, swept>> /\ fails' \in Nat
  BY Types DEF NInv, AskStatuses
<1> QED
  BY <1>1, <1>2, <1>3, <1>4, <1>5, RunChanges

LEMMA AnswerStep == NInv /\ AnswerStatuses => NInv'
<1> SUFFICES ASSUME NInv, AnswerStatuses PROVE NInv'
  OBVIOUS
<1>0. NaverAssumption /\ TypeOK /\ SweepInv /\ clock \in Nat /\ clock >= 1 /\ run \in RunType
      /\ run.cur \in Cursor /\ run.next \in Cursor /\ run.to \in Nat /\ ver \in [Line -> Nat]
      /\ run.pc = "asked" /\ run.page = <<>> /\ Covered(run.cur) /\ Reached(run.cur)
      /\ run.next \in {NoCursor, [from |-> run.to, more |-> 0]} /\ Reached(run.next)
      /\ run.to <= clock /\ \A l \in Line : ver[l] < clock
  BY Types, RunFields DEF NInv, SweepInv, Timely, AnswerStatuses
<1>1. PICK a \in Answers(run.cur, run.to) :
        run' = [run EXCEPT !.pc = "details", !.ids = a.lines,
                           !.next = NextCursor(run.cur, run.next, a.more)]
  BY DEF AnswerStatuses
<1> DEFINE next == NextCursor(run.cur, run.next, a.more)
<1>2. /\ a.lines \subseteq Line /\ a.more \in Nat
      /\ a.more = 0 \/ \E k \in Line : a.more = ver[k]
      /\ a.more = 0 => \A l \in Line :
           ver[l] > 0 /\ ver[l] < run.to => l \in a.lines \/ Passed(l, run.cur)
      /\ a.more # 0 => \A l \in Line :
           ver[l] > 0 /\ Passed(l, [from |-> run.cur.from, more |-> a.more])
             => l \in a.lines \/ Passed(l, run.cur)
  BY <1>0, AnswerCovers
<1>3. next \in Cursor /\ Reached(next)
  BY <1>0, <1>2 DEF NextCursor, Cursor, Reached
<1>4. /\ run' \in RunType /\ run'.pc = "details" /\ run'.ids = a.lines /\ run'.next = next
      /\ run'.to = run.to /\ run'.cur = run.cur /\ run'.page = <<>>
  <2> DEFINE f == [run EXCEPT !.pc = "details", !.ids = a.lines]
  <2>1. /\ f \in RunType /\ f.pc = "details" /\ f.ids = a.lines /\ f.to = run.to
        /\ f.cur = run.cur /\ f.page = <<>>
    BY <1>0, <1>2 DEF RunType
  <2>2. run' = [f EXCEPT !.next = next]
    BY <1>1
  <2> HIDE DEF f, next
  <2> QED
    BY <1>3, <2>1, <2>2 DEF RunType
<1>5. ASSUME NEW l \in Line, Due(l), Passed(l, EndOf(run'))
      PROVE  seen[l] = ver[l] \/ l \in run'.ids
  <2>1. ver[l] \in Nat /\ ver[l] > 0 /\ (Passed(l, run.cur) => seen[l] = ver[l])
    BY <1>0, <1>5 DEF Due, Covered
  <2>2. CASE a.more = 0
    <3>1. EndOf(run') = [from |-> run.to, more |-> 0]
      BY <1>0, <1>4, <2>2 DEF EndOf, NextCursor
    <3>2. ver[l] < run.to
      BY <1>5, <2>1, <3>1 DEF Passed
    <3> QED
      BY <1>2, <1>4, <2>1, <2>2, <3>2
  <2>3. CASE a.more # 0
    <3>1. next = [from |-> run.cur.from, more |-> a.more] /\ next # NoCursor
      BY <1>2, <2>3 DEF NextCursor, NoCursor
    <3>2. EndOf(run') = next
      BY <1>4, <3>1 DEF EndOf
    <3> QED
      BY <1>2, <1>4, <1>5, <2>1, <2>3, <3>1, <3>2
  <2> QED
    BY <2>2, <2>3
<1>6. UNCHANGED <<clock, ver, file, resume, seen, swept>> /\ fails' \in Nat
  BY Types DEF NInv, AnswerStatuses
<1>7. Entries(run'.page) = {}
  BY <1>4, EntriesOfNone
<1> QED
  BY <1>0, <1>3, <1>4, <1>5, <1>6, <1>7, RunChanges

\* What is normalized is what Naver has.
LEMMA NormalizeType ==
  ASSUME ver \in [Line -> Nat], NEW b \in SUBSET Line
  PROVE  /\ Normalize(b) \in SUBSET Normalized
         /\ \A l \in b : \E d \in Normalize(b) : d[l] = ver[l]
         /\ \A d \in Normalize(b), l \in Line : d[l] # 0 => d[l] = ver[l]
<1> DEFINE one(o) == [l \in Line |-> IF l \in b /\ OrderOf[l] = o THEN ver[l] ELSE 0]
<1>1. \A o : /\ one(o) \in Normalized
             /\ \A l \in Line : one(o)[l] # 0 => one(o)[l] = ver[l]
  BY DEF Normalized
<1>2. \A l \in b : one(OrderOf[l])[l] = ver[l]
  OBVIOUS
<1>3. Normalize(b) = {one(o) : o \in {OrderOf[l] : l \in b}}
  BY DEF Normalize
<1> HIDE DEF one
<1> QED
  BY <1>1, <1>2, <1>3

LEMMA QueryStep == NInv /\ QueryDetails => NInv'
<1> SUFFICES ASSUME NInv, QueryDetails PROVE NInv'
  OBVIOUS
<1>0. NaverAssumption /\ TypeOK /\ SweepInv /\ run \in RunType /\ ver \in [Line -> Nat]
      /\ run.ids \subseteq Line /\ run.page \in Seq(SUBSET Normalized) /\ Covering
      /\ Reached(run.cur) /\ Reached(run.next) /\ run.to <= clock
  BY Types, RunFields DEF NInv, SweepInv, Timely, QueryDetails
<1>1. PICK b \in SUBSET run.ids :
        run' = [run EXCEPT !.ids = @ \ b, !.page = Append(@, Normalize(b))]
  BY DEF QueryDetails, Batches
<1>2. /\ Normalize(b) \in SUBSET Normalized
      /\ \A l \in b : \E d \in Normalize(b) : d[l] = ver[l]
      /\ \A d \in Normalize(b), l \in Line : d[l] # 0 => d[l] = ver[l]
  BY <1>0, NormalizeType
<1>3. /\ run' \in RunType /\ run'.pc = "details" /\ run'.ids = run.ids \ b
      /\ run'.page = Append(run.page, Normalize(b))
      /\ run'.cur = run.cur /\ run'.next = run.next /\ run'.to = run.to
  <2>1. Append(run.page, Normalize(b)) \in Seq(SUBSET Normalized)
    BY <1>0, <1>2
  <2>2. run.pc = "details"
    BY DEF QueryDetails
  <2> QED
    BY <1>0, <1>1, <2>1, <2>2 DEF RunType
<1>4. Entries(run'.page) = Entries(run.page) \cup Normalize(b) /\ EndOf(run') = EndOf(run)
  BY <1>0, <1>2, <1>3, EntriesAppended DEF EndOf
<1>5. UNCHANGED <<clock, ver, file, resume, seen, swept>> /\ fails' \in Nat
  BY Types DEF NInv, QueryDetails
<1>6. ASSUME NEW l \in Line, Due(l), Passed(l, EndOf(run'))
      PROVE  \/ seen[l] = ver[l] \/ l \in run'.ids
             \/ \E d \in Entries(run'.page) : d[l] = ver[l]
  <2>1. CASE l \in b
    BY <1>2, <1>4, <2>1
  <2>2. CASE l \notin b
    BY <1>0, <1>3, <1>4, <1>6, <2>2 DEF Covering
  <2> QED
    BY <2>1, <2>2
<1>7. ASSUME NEW d \in Entries(run'.page), NEW l \in Line, d[l] # 0
      PROVE  \/ d[l] = ver[l]
             \/ ~Passed(l, swept) /\ ~Passed(l, resume) /\ ~Passed(l, EndOf(run'))
  BY <1>0, <1>2, <1>4, <1>7 DEF Covering
<1> QED
  BY <1>0, <1>3, <1>5, <1>6, <1>7, RunChanges

LEMMA EndFetchStep == NInv /\ EndFetch => NInv'
<1> SUFFICES ASSUME NInv, EndFetch PROVE NInv'
  OBVIOUS
<1>0. run \in RunType /\ Reached(run.cur) /\ Reached(run.next) /\ run.to <= clock /\ Covering
      /\ run.pc = "details" /\ run.ids = {}
  BY Types DEF NInv, SweepInv, Timely, EndFetch
<1>1. /\ run' \in RunType /\ run'.pc = "upsert" /\ run'.ids = {} /\ run'.page = run.page
      /\ run'.cur = run.cur /\ run'.next = run.next /\ run'.to = run.to
  BY <1>0 DEF EndFetch, RunType
<1>2. UNCHANGED <<clock, ver, file, resume, seen, swept>> /\ fails' \in Nat
  BY Types DEF NInv, EndFetch
<1>3. EndOf(run') = EndOf(run)
  BY <1>1 DEF EndOf
<1> QED
  BY <1>0, <1>1, <1>2, <1>3, RunChanges DEF Covering

LEMMA UpsertStep == NInv /\ UpsertOrder => NInv'
<1> SUFFICES ASSUME NInv, UpsertOrder PROVE NInv'
  OBVIOUS
<1>0. NaverAssumption /\ TypeOK /\ SweepInv /\ run \in RunType /\ ver \in [Line -> Nat]
      /\ seen \in [Line -> Nat] /\ file \in [Line -> Nat]
      /\ run.page \in Seq(SUBSET Normalized) /\ run.page # <<>> /\ Covering
      /\ run.pc = "upsert" /\ run.ids = {}
      /\ UNCHANGED <<clock, ver, resume, swept, fails>>
  BY Types, RunFields DEF NInv, SweepInv, UpsertOrder
<1>1. PICK d \in Head(run.page) :
        /\ file' = [l \in Line |-> IF l \in LinesOf(d) THEN d[l] ELSE file[l]]
        /\ seen' = [l \in Line |-> IF d[l] # 0 THEN d[l] ELSE seen[l]]
        /\ run' = [run EXCEPT !.page = IF Head(@) = {d} THEN Tail(@)
                                       ELSE <<Head(@) \ {d}>> \o Tail(@)]
  BY DEF UpsertOrder
<1> DEFINE p == IF Head(run.page) = {d} THEN Tail(run.page)
                ELSE <<Head(run.page) \ {d}>> \o Tail(run.page)
<1>2. /\ p \in Seq(SUBSET Normalized) /\ d \in Entries(run.page)
      /\ Entries(p) \subseteq Entries(run.page) /\ Entries(run.page) \subseteq Entries(p) \cup {d}
  BY <1>0, EntriesStored
<1>3. run' = [run EXCEPT !.page = p]
  BY <1>1
<1> HIDE DEF p
<1>4. /\ run' \in RunType /\ run'.pc = "upsert" /\ run'.ids = {} /\ run'.page = p
      /\ run'.cur = run.cur /\ run'.next = run.next /\ run'.to = run.to
  BY <1>0, <1>2, <1>3 DEF RunType
<1>5. d \in [Line -> Nat]
  BY <1>0, <1>2, EntriesType DEF Normalized
<1>6. file' \in [Line -> Nat] /\ seen' \in [Line -> Nat]
  BY <1>0, <1>1, <1>5
<1>7. TypeOK'
  BY <1>0, <1>4, <1>6 DEF TypeOK, RunType
<1>8. ASSUME NEW l \in Line, Due(l), seen[l] = ver[l],
             Passed(l, swept) \/ Passed(l, resume) \/ Passed(l, EndOf(run))
      PROVE  seen'[l] = ver[l]
  BY <1>0, <1>1, <1>2, <1>8 DEF Covering
<1>9. EndOf(run') = EndOf(run)
  BY <1>4 DEF EndOf
<1>10. Timely'
  BY <1>0, <1>4 DEF SweepInv, Timely, Reached
<1>11. Covered(swept)' /\ Covered(resume)'
  <2>1. \A l \in Line : Due(l)' = Due(l) /\ Passed(l, swept)' = Passed(l, swept)
                        /\ Passed(l, resume)' = Passed(l, resume)
    BY <1>0 DEF Due, Since, Passed
  <2>2. \A l \in Line : Due(l) /\ (Passed(l, swept) \/ Passed(l, resume)) => seen[l] = ver[l]
    BY <1>0 DEF SweepInv, Covered
  <2> QED
    BY <1>0, <1>8, <2>1, <2>2 DEF Covered
<1>12. Covering'
  <2>1. \A l \in Line : Due(l)' = Due(l) /\ Passed(l, swept)' = Passed(l, swept)
                        /\ Passed(l, resume)' = Passed(l, resume)
                        /\ Passed(l, EndOf(run))' = Passed(l, EndOf(run))
    BY <1>0, <1>9 DEF Due, Since, Passed, EndOf
  <2>2. ASSUME NEW l \in Line, Due(l), Passed(l, EndOf(run))
        PROVE  seen'[l] = ver[l] \/ \E e \in Entries(p) : e[l] = ver[l]
    <3>1. CASE seen[l] = ver[l]
      BY <1>8, <2>2, <3>1
    <3>2. ASSUME NEW e \in Entries(run.page), e[l] = ver[l]
          PROVE  seen'[l] = ver[l] \/ e \in Entries(p)
      <4>1. ver[l] # 0
        BY <1>0, <2>2 DEF Due
      <4> QED
        BY <1>1, <1>2, <3>2, <4>1
    <3> QED
      BY <1>0, <2>2, <3>1, <3>2 DEF Covering
  <2>3. Entries(run.page)' = Entries(p)
    BY <1>4
  <2>4. \A e \in Entries(p), l \in Line : e[l] # 0 =>
          \/ e[l] = ver[l]
          \/ ~Passed(l, swept) /\ ~Passed(l, resume) /\ ~Passed(l, EndOf(run))
    BY <1>0, <1>2 DEF Covering
  <2> QED
    BY <1>0, <2>1, <2>2, <2>3, <2>4 DEF Covering
<1> QED
  BY <1>0, <1>4, <1>7, <1>10, <1>11, <1>12 DEF NInv, SweepInv, NaverAssumption

LEMMA EndPageStep == NInv /\ EndPage => NInv'
<1> SUFFICES ASSUME NInv, EndPage PROVE NInv'
  OBVIOUS
<1>0. /\ NaverAssumption /\ TypeOK /\ SweepInv /\ run \in RunType /\ ver \in [Line -> Nat]
      /\ clock \in Nat /\ clock >= 1 /\ Reached(run.next) /\ run.to <= clock
      /\ run.next \in Cursor /\ run.to \in Nat /\ run.pages \in 0 .. (MaxPages - 1) /\ run.cur \in Cursor
      /\ run.pc = "upsert" /\ run.page = <<>> /\ Covering /\ run.ids = {}
      /\ UNCHANGED <<clock, ver, file, seen, fails>>
  BY Types, RunFields DEF NInv, SweepInv, EndPage, Timely
<1>1. Covered(EndOf(run))
  BY <1>0, EntriesOfNone DEF Covering, Covered
<1>2. EndOf(run) \in Cursor /\ Reached(EndOf(run)) /\ swept' = EndOf(run)
  BY <1>0 DEF EndOf, EndPage, Cursor, Reached
<1>3. Covered(NoCursor) /\ Reached(NoCursor)
  BY <1>0, Rest DEF Covered, Due, Passed, Reached
<1>4. Covered(run.next)
  BY <1>1, <1>3 DEF EndOf
<1>5. Covered(swept)'
  <2>1. \A l \in Line : Due(l)' = Due(l) /\ Passed(l, swept)' = Passed(l, EndOf(run))
    BY <1>0, <1>2 DEF Due, Since, Passed
  <2> QED
    BY <1>0, <1>1, <2>1 DEF Covered
<1>6. CASE run.next # NoCursor /\ PagesLeft(run.pages + 1)
  <2>1. /\ run' \in RunType /\ run'.pc = "statuses" /\ run'.cur = run.next
        /\ run'.next = run.next /\ run'.to = run.to
    <3> DEFINE f == [run EXCEPT !.pc = "statuses", !.cur = run.next]
    <3>1. /\ f \in RunType /\ f.pc = "statuses" /\ f.cur = run.next
          /\ f.next = run.next /\ f.to = run.to
      BY <1>0 DEF RunType
    <3>2. run' = [f EXCEPT !.pages = run.pages + 1]
      BY <1>6 DEF EndPage
    <3>3. run.pages + 1 \in 0 .. (MaxPages - 1)
      BY <1>0, <1>6 DEF PagesLeft, NaverAssumption
    <3> HIDE DEF f
    <3> QED
      BY <3>1, <3>2, <3>3 DEF RunType
  <2>2. resume' = resume
    BY <1>6 DEF EndPage
  <2>3. Covered(run.cur)' /\ Covered(resume)'
    BY <1>0, <1>4, <2>1, <2>2 DEF Covered, Due, Since, Passed, SweepInv
  <2>4. Timely'
    BY <1>0, <1>2, <2>1, <2>2 DEF SweepInv, Timely, Reached
  <2>5. TypeOK'
    BY <1>0, <1>2, <2>1, <2>2 DEF TypeOK, RunType
  <2> QED
    BY <1>0, <1>5, <2>1, <2>3, <2>4, <2>5 DEF NInv, SweepInv, NaverAssumption
<1>7. CASE ~(run.next # NoCursor /\ PagesLeft(run.pages + 1))
  <2>1. run' = Idle /\ resume' = run.next
    BY <1>7 DEF EndPage
  <2>2. /\ run' \in RunType /\ run'.pc = "idle" /\ run'.cur = NoCursor
        /\ run'.next = NoCursor /\ run'.to = 0
    BY <1>0, <2>1, Rest
  <2>3. Covered(resume)'
    BY <1>0, <1>4, <2>1 DEF Covered, Due, Since, Passed
  <2>4. Timely'
    BY <1>0, <1>2, <1>3, <2>1, <2>2 DEF SweepInv, Timely, Reached
  <2>5. TypeOK'
    BY <1>0, <1>2, <2>1, <2>2 DEF TypeOK, RunType
  <2> QED
    BY <1>0, <1>5, <2>2, <2>3, <2>4, <2>5 DEF NInv, SweepInv, NaverAssumption
<1> QED
  BY <1>6, <1>7

LEMMA FailStep == NInv /\ Fail => NInv'
<1> SUFFICES ASSUME NInv, Fail PROVE NInv'
  OBVIOUS
<1>1. UNCHANGED <<clock, ver, file, resume, seen, swept>> /\ fails' \in Nat /\ run' = Idle
      /\ clock \in Nat /\ clock >= 1 /\ NaverAssumption
  BY Types DEF NInv, Fail, SweepInv, Timely
<1>2. Reached(NoCursor) /\ 0 <= clock
  BY <1>1, Rest DEF Reached
<1> QED
  BY <1>1, <1>2, Rest, RunChanges

\* A line that changes is ahead of every cursor there is.
LEMMA EnvStep == NInv /\ (TimePasses \/ \E l \in Line : Change(l)) => NInv'
<1> SUFFICES ASSUME NInv, TimePasses \/ \E l \in Line : Change(l) PROVE NInv'
  OBVIOUS
<1>0. /\ NaverAssumption /\ TypeOK /\ SweepInv /\ clock \in Nat /\ ver \in [Line -> Nat]
      /\ clock' = clock + 1 /\ UNCHANGED <<file, resume, run, seen, swept, fails>>
      /\ run \in RunType /\ resume \in Cursor /\ swept \in Cursor
      /\ run.next \in Cursor /\ run.cur \in Cursor /\ run.to \in Nat /\ clock >= 1
  BY Types, RunFields DEF NInv, TimePasses, Change, SweepInv, Timely
<1>1. /\ ver' \in [Line -> Nat]
      /\ \A l \in Line : ver'[l] = ver[l] \/ ver'[l] = clock
  BY <1>0 DEF TimePasses, Change
<1>2. TypeOK'
  BY <1>0, <1>1 DEF TypeOK
<1>3. \A c \in Cursor : Reached(c) => Reached(c)'
  BY <1>0 DEF Reached, Cursor
<1>4. Timely'
  <2>1. \A l \in Line : ver'[l] < clock'
    BY <1>0, <1>1 DEF SweepInv, Timely
  <2> QED
    BY <1>0, <1>3, <2>1 DEF SweepInv, Timely
<1>5. Since(clock) <= Since(clock') /\ Since(clock) \in Nat /\ Since(clock') \in Nat
  <2>1. clock + 1 \in Nat
    BY <1>0
  <2> QED
    BY <1>0, <2>1, SinceType
\* What a cursor has behind it afterwards it had before, and it has not changed.
<1>6. ASSUME NEW c \in Cursor, Reached(c), NEW l \in Line,
             ver'[l] < c.from \/ ver'[l] <= c.more
      PROVE  Passed(l, c) /\ ver'[l] = ver[l] /\ (Due(l)' => Due(l))
  <2>1. ver'[l] = ver[l]
    BY <1>0, <1>1, <1>6 DEF Reached, Cursor
  <2>2. Due(l)' => Due(l)
    BY <1>0, <1>1, <1>5, <2>1 DEF Due
  <2> QED
    BY <1>6, <2>1, <2>2 DEF Passed
<1>7. ASSUME NEW c \in Cursor, Reached(c), Covered(c)
      PROVE  \A l \in Line : Due(l)' /\ (ver'[l] < c.from \/ ver'[l] <= c.more)
                               => seen'[l] = ver'[l]
  BY <1>0, <1>6, <1>7 DEF Covered
<1>8. Reached(resume) /\ Reached(swept) /\ Reached(run.cur) /\ Reached(run.next)
      /\ Covered(swept) /\ Covered(resume) /\ run.to <= clock
  BY <1>0 DEF SweepInv, Timely
<1>9. Covered(swept)' /\ Covered(resume)'
  <2>1. Covered(swept)'
    BY <1>0, <1>7, <1>8 DEF Covered, Passed
  <2>2. Covered(resume)'
    BY <1>0, <1>7, <1>8 DEF Covered, Passed
  <2> QED
    BY <2>1, <2>2
<1>10. (run.pc \in {"statuses", "asked"} => Covered(run.cur))'
  <2> SUFFICES ASSUME run.pc \in {"statuses", "asked"} PROVE Covered(run.cur)'
    BY <1>0
  <2>1. Covered(run.cur)
    BY <1>0 DEF SweepInv
  <2> QED
    BY <1>0, <1>7, <1>8, <2>1 DEF Covered, Passed
<1>11. (run.pc \in {"details", "upsert"} => Covering)'
  <2> SUFFICES ASSUME run.pc \in {"details", "upsert"} PROVE Covering'
    BY <1>0
  <2> DEFINE e == EndOf(run)
  <2>0. Covering
    BY <1>0 DEF SweepInv
  <2>1. e \in Cursor /\ Reached(e)
    BY <1>0, <1>8 DEF EndOf, Cursor, Reached
  <2>2. e' = e /\ Entries(run.page)' = Entries(run.page)
    BY <1>0 DEF EndOf
  <2>3. ASSUME NEW l \in Line, Due(l)', ver'[l] < e.from \/ ver'[l] <= e.more
        PROVE  \/ seen[l] = ver'[l] \/ l \in run.ids
               \/ \E d \in Entries(run.page) : d[l] = ver'[l]
    <3>1. Passed(l, e) /\ ver'[l] = ver[l] /\ Due(l)
      BY <1>6, <2>1, <2>3
    <3> HIDE DEF e
    <3> QED
      BY <2>0, <3>1 DEF Covering, e
  <2>4. ASSUME NEW d \in Entries(run.page), NEW l \in Line, d[l] # 0, d[l] # ver'[l],
               NEW c \in {swept, resume, e}, ver'[l] < c.from \/ ver'[l] <= c.more
        PROVE  FALSE
    <3>1. c \in Cursor /\ Reached(c)
      BY <1>0, <1>8, <2>1
    <3>2. Passed(l, c) /\ ver'[l] = ver[l]
      BY <1>6, <2>4, <3>1
    <3> QED
      BY <2>0, <2>4, <3>2 DEF Covering
  <2>5. (\A l \in Line : Due(l) /\ Passed(l, EndOf(run)) =>
           \/ seen[l] = ver[l] \/ l \in run.ids
           \/ \E d \in Entries(run.page) : d[l] = ver[l])'
    BY <1>0, <2>2, <2>3 DEF Passed
  <2>6. (\A d \in Entries(run.page), l \in Line : d[l] # 0 =>
           \/ d[l] = ver[l]
           \/ ~Passed(l, swept) /\ ~Passed(l, resume) /\ ~Passed(l, EndOf(run)))'
    BY <1>0, <2>2, <2>4 DEF Passed
  <2> QED
    BY <2>5, <2>6 DEF Covering
<1> QED
  BY <1>0, <1>2, <1>4, <1>9, <1>10, <1>11 DEF NInv, SweepInv, NaverAssumption

LEMMA NStep == NInv /\ [Next]_vars => NInv'
<1> SUFFICES ASSUME NInv, [Next]_vars PROVE NInv'
  OBVIOUS
<1>1. CASE RunStep
  BY <1>1, BeginStep, AskStep, AnswerStep, QueryStep, EndFetchStep, UpsertStep, EndPageStep
  DEF RunStep
<1>2. CASE Fail
  BY <1>2, FailStep
<1>3. CASE TimePasses \/ \E l \in Line : Change(l)
  BY <1>3, EnvStep
<1>4. CASE UNCHANGED vars
  <2>0. UNCHANGED <<clock, ver, file, resume, run, seen, swept, fails>> /\ NaverAssumption
        /\ TypeOK /\ SweepInv
    BY <1>4 DEF vars, NInv
  <2>1. TypeOK'
    BY <2>0 DEF TypeOK
  <2>2. Timely'
    BY <2>0 DEF SweepInv, Timely, Reached
  <2>3. Covered(swept)' /\ Covered(resume)'
    BY <2>0 DEF SweepInv, Covered, Due, Since, Passed
  <2>4. (run.pc \in {"statuses", "asked"} => Covered(run.cur))'
    BY <2>0 DEF SweepInv, Covered, Due, Since, Passed
  <2>5. (run.pc \in {"details", "upsert"} => Covering)'
    BY <2>0 DEF SweepInv, Covering, Due, Since, Passed, EndOf, Entries
  <2> QED
    BY <2>0, <2>1, <2>2, <2>3, <2>4, <2>5 DEF NInv, SweepInv, NaverAssumption
<1> QED
  BY <1>1, <1>2, <1>3, <1>4 DEF Next

-----------------------------------------------------------------------------
(* The theorems *)

\* The lines, the file and the run keep to their types.
THEOREM NaverTypeCorrect == ASSUME NaverAssumption PROVE Spec => []TypeOK
<1>1. NInv => TypeOK
  BY DEF NInv
<1> QED
  BY <1>1, NInit, NStep, PTL DEF Spec

\* No change of the lookback is lost between two windows, a list that was cut
\* off and its rest, two batches, or a query and a change of its line
\* (fetchOrders, upsertOrders, the engine's cursor).
THEOREM Filed == ASSUME NaverAssumption PROVE Spec => []SweptMeansFiled
<1>1. NInv => SweptMeansFiled
  BY DEF NInv, SweepInv, Covered, Due, SweptMeansFiled
<1> QED
  BY <1>1, NInit, NStep, PTL DEF Spec
=============================================================================
