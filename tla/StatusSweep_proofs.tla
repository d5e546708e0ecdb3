-------------------------- MODULE StatusSweep_proofs --------------------------
(***************************************************************************)
(* Proofs about StatusSweep, for every set of orders, every order of the   *)
(* lists, and every number of statuses, window, lookback and page size:    *)
(* what a sweep by statuses has passed is in the store.                    *)
(***************************************************************************)
EXTENDS StatusSweep, FiniteSetTheorems, WellFoundedInduction, TLAPS

-----------------------------------------------------------------------------
(* Finite sets of orders *)

\* A set of subsets of a finite set has one that contains no other of them.
LEMMA SmallestSet ==
  ASSUME NEW S, IsFiniteSet(S), NEW F \in SUBSET SUBSET S, F # {}
  PROVE  \E x \in F : \A y \in F : ~ (y \subseteq x /\ y # x)
<1> DEFINE R == StrictSubsetOrdering(S)
<1>1. IsWellFoundedOn(R, FiniteSubsetsOf(S))
  BY FS_StrictSubsetOrderingWellFounded
<1>2. F \subseteq FiniteSubsetsOf(S)
  BY FS_Subset DEF FiniteSubsetsOf
<1>3. \A x, y \in SUBSET S : (x \subseteq y /\ x # y) => <<x, y>> \in R
  BY DEF StrictSubsetOrdering
<1> HIDE DEF R
<1>4. PICK x \in F : \A y \in F : ~ (<<y, x>> \in R)
  BY <1>1, <1>2, WFMin
<1> QED
  BY <1>3, <1>4

\* Of finitely many orders one comes first in the list,
LEMMA First ==
  ASSUME Rank \in [Order -> Nat \ {0}], NEW S \in SUBSET Order, IsFiniteSet(S), S # {}
  PROVE  \E m \in S : \A o \in S : Rank[m] <= Rank[o]
<1> DEFINE upTo(m) == {q \in S : Rank[q] <= Rank[m]}
           F == {upTo(m) : m \in S}
<1>1. F \in SUBSET SUBSET S /\ F # {}
  OBVIOUS
<1> HIDE DEF F
<1>0. PICK x \in F : \A y \in F : ~ (y \subseteq x /\ y # x)
  BY <1>1, SmallestSet
<1>2. PICK m \in S : \A y \in F : ~ (y \subseteq upTo(m) /\ y # upTo(m))
  BY <1>0 DEF F
<1>3. ASSUME NEW o \in S, Rank[o] < Rank[m] PROVE FALSE
  <2>1. upTo(o) \subseteq upTo(m) /\ m \in upTo(m) /\ m \notin upTo(o) /\ upTo(o) \in F
    BY <1>3 DEF F
  <2> QED
    BY <1>2, <2>1
<1> QED
  BY <1>3

\* and one comes last.
LEMMA Last ==
  ASSUME Rank \in [Order -> Nat \ {0}], NEW S \in SUBSET Order, IsFiniteSet(S), S # {}
  PROVE  \E m \in S : \A o \in S : Rank[o] <= Rank[m]
<1> DEFINE from(m) == {q \in S : Rank[m] <= Rank[q]}
           F == {from(m) : m \in S}
<1>1. F \in SUBSET SUBSET S /\ F # {}
  OBVIOUS
<1> HIDE DEF F
<1>0. PICK x \in F : \A y \in F : ~ (y \subseteq x /\ y # x)
  BY <1>1, SmallestSet
<1>2. PICK m \in S : \A y \in F : ~ (y \subseteq from(m) /\ y # from(m))
  BY <1>0 DEF F
<1>3. ASSUME NEW o \in S, Rank[m] < Rank[o] PROVE FALSE
  <2>1. from(o) \subseteq from(m) /\ m \in from(m) /\ m \notin from(o) /\ from(o) \in F
    BY <1>3 DEF F
  <2> QED
    BY <1>2, <2>1
<1> QED
  BY <1>3

\* Before(o, S) is o's place in the list of S, counted from 0.
LEMMA BeforeType ==
  ASSUME Rank \in [Order -> Nat \ {0}], NEW S \in SUBSET Order, IsFiniteSet(S),
         NEW o \in Order
  PROVE  Before(o, S) \in Nat
<1>1. {q \in S : Rank[q] < Rank[o]} \in SUBSET S
  OBVIOUS
<1> QED
  BY <1>1, FS_Subset, FS_CardinalityType DEF Before

\* More orders put an order no further ahead.
LEMMA BeforeGrows ==
  ASSUME Rank \in [Order -> Nat \ {0}], NEW T \in SUBSET Order, IsFiniteSet(T),
         NEW S \in SUBSET Order, NEW o \in Order,
         {q \in S : Rank[q] < Rank[o]} \subseteq {q \in T : Rank[q] < Rank[o]}
  PROVE  Before(o, S) <= Before(o, T)
<1> DEFINE s == {q \in S : Rank[q] < Rank[o]}
           t == {q \in T : Rank[q] < Rank[o]}
<1>1. IsFiniteSet(t)
  BY FS_Subset
<1>2. s \in SUBSET t
  OBVIOUS
<1>3. Cardinality(s) <= Cardinality(t)
  BY <1>1, <1>2, FS_Subset
<1> QED
  BY <1>3 DEF Before

\* A later order has a higher place.
LEMMA BeforeOrders ==
  ASSUME Rank \in [Order -> Nat \ {0}], NEW S \in SUBSET Order, IsFiniteSet(S),
         NEW p \in S, NEW q \in S, Rank[p] < Rank[q]
  PROVE  Before(p, S) < Before(q, S)
<1> DEFINE s == {x \in S : Rank[x] < Rank[p]}
           t == {x \in S : Rank[x] < Rank[q]}
<1>1. s \in SUBSET t /\ p \in t /\ p \notin s
  OBVIOUS
<1>2. IsFiniteSet(t) /\ IsFiniteSet(s)
  BY FS_Subset
<1>3. Cardinality(s) <= Cardinality(t) /\ Cardinality(t) # Cardinality(s)
  BY <1>1, <1>2, FS_Subset
<1>4. Cardinality(s) \in Nat /\ Cardinality(t) \in Nat
  BY <1>2, FS_CardinalityType
<1>5. Cardinality(s) < Cardinality(t)
  BY <1>3, <1>4
<1> QED
  BY <1>5 DEF Before

\* No place below that of an order is empty.
LEMMA NoGap ==
  ASSUME Rank \in [Order -> Nat \ {0}], NEW S \in SUBSET Order, IsFiniteSet(S),
         NEW o \in S, NEW k \in Nat, k <= Before(o, S),
         \A x, y \in Order : Rank[x] = Rank[y] => x = y
  PROVE  \E q \in S : Before(q, S) = k
<1> DEFINE T == {q \in S : k <= Before(q, S)}
<1>1. T \in SUBSET Order /\ T # {} /\ IsFiniteSet(T)
  BY FS_Subset
<1>2. PICK q \in T : \A x \in T : Rank[q] <= Rank[x]
  BY <1>1, First
<1> DEFINE s == {x \in S : Rank[x] < Rank[q]}
           f == [x \in s |-> Before(x, S)]
<1>3. q \in S /\ q \in Order /\ k <= Before(q, S) /\ Before(q, S) \in Nat
  BY BeforeType
<1>4. IsFiniteSet(s) /\ Before(q, S) = Cardinality(s)
  BY FS_Subset DEF Before
<1>5. \A x \in s : Before(x, S) \in 0 .. k - 1
  <2> SUFFICES ASSUME NEW x \in s PROVE Before(x, S) \in 0 .. k - 1
    OBVIOUS
  <2>1. x \notin T /\ x \in S /\ x \in Order
    BY <1>2, <1>3
  <2>2. Before(x, S) \in Nat
    BY <2>1, BeforeType
  <2> QED
    BY <2>1, <2>2
<1>6. ASSUME Before(q, S) # k PROVE FALSE
  <2>1. f \in [s -> 0 .. k - 1]
    BY <1>5
  <2>2. IsFiniteSet(0 .. k - 1) /\ Cardinality(0 .. k - 1) = k
    <3>1. k - 1 \in Int /\ 0 \in Int /\ (0 > k - 1 => k = 0) /\ (k - 1) - 0 + 1 = k
      OBVIOUS
    <3> HIDE DEF s
    <3>2. /\ IsFiniteSet(0 .. k - 1)
          /\ Cardinality(0 .. k - 1) = IF 0 > k - 1 THEN 0 ELSE (k - 1) - 0 + 1
      BY <3>1, FS_Interval
    <3> QED
      BY <3>1, <3>2
  <2>3. Cardinality(0 .. k - 1) < Cardinality(s)
    BY <1>3, <1>4, <1>6, <2>2
  <2>9. \A x \in s : f[x] = Before(x, S)
    OBVIOUS
  <2> HIDE DEF f
  <2>10. \E x, y \in s : x # y /\ f[x] = f[y]
    <3> HIDE DEF s
    <3> QED
      BY <1>4, <2>1, <2>2, <2>3, FS_PigeonHole
  <2>4. PICK x, y \in s : x # y /\ f[x] = f[y]
    BY <2>10
  <2>5. x \in S /\ y \in S /\ Rank[x] # Rank[y] /\ Rank[x] \in Nat /\ Rank[y] \in Nat
    BY <2>4
  <2>6. Before(x, S) = Before(y, S) /\ Before(x, S) \in Nat
    BY <2>4, <2>9, <1>5
  <2>7. Before(x, S) < Before(y, S) \/ Before(y, S) < Before(x, S)
    BY <2>5, BeforeOrders
  <2> QED
    BY <2>6, <2>7
<1> QED
  BY <1>3, <1>6

\* A page that ends before an order of the list is full.
LEMMA FullPage ==
  ASSUME Rank \in [Order -> Nat \ {0}], NEW S \in SUBSET Order, IsFiniteSet(S),
         NEW o \in S, NEW a \in Nat, NEW n \in Nat, a + n <= Before(o, S),
         \A x, y \in Order : Rank[x] = Rank[y] => x = y
  PROVE  Cardinality({q \in S : a <= Before(q, S) /\ Before(q, S) < a + n}) = n
<1> DEFINE P == {q \in S : a <= Before(q, S) /\ Before(q, S) < a + n}
           I == a .. a + n - 1
           f == [q \in P |-> Before(q, S)]
<1>1. IsFiniteSet(P)
  BY FS_Subset
<1>2. \A q \in S : Before(q, S) \in Nat
  BY BeforeType
<1>3. f \in [P -> I]
  BY <1>2
<1>4. \A x, y \in P : f[x] = f[y] => x = y
  <2> SUFFICES ASSUME NEW x \in P, NEW y \in P, f[x] = f[y], x # y PROVE FALSE
    OBVIOUS
  <2>1. Rank[x] # Rank[y] /\ Rank[x] \in Nat /\ Rank[y] \in Nat /\ x \in S /\ y \in S
    OBVIOUS
  <2>2. Before(x, S) < Before(y, S) \/ Before(y, S) < Before(x, S)
    BY <2>1, BeforeOrders
  <2> QED
    BY <1>2, <2>2
<1>5. \A k \in I : \E q \in P : f[q] = k
  <2> SUFFICES ASSUME NEW k \in I PROVE \E q \in P : f[q] = k
    OBVIOUS
  <2>1. k \in Nat /\ k <= Before(o, S) /\ a <= k /\ k < a + n
    BY <1>2
  <2>2. PICK q \in S : Before(q, S) = k
    BY <2>1, NoGap
  <2> QED
    BY <2>1, <2>2
<1> HIDE DEF f, P, I
<1>6. f \in Bijection(P, I)
  BY <1>3, <1>4, <1>5 DEF Bijection, Injection, Surjection, IsInjective
<1>7. Cardinality(I) = Cardinality(P)
  BY <1>1, <1>6, FS_Bijection DEF ExistsBijection
<1>8. Cardinality(I) = n
  BY FS_Interval DEF I
<1> QED
  BY <1>7, <1>8 DEF P

\* A day or a minute that is cut off keeps the order of two times.
LEMMA CutKeepsOrder ==
  ASSUME NEW u \in Nat \ {0}, NEW a \in Nat, NEW b \in Nat, a <= b
  PROVE  a \div u <= b \div u
OBVIOUS
-----------------------------------------------------------------------------
(* The inductive invariant *)

\* What has been stored of what a sweep has behind it at cursor c, if S is.
StoredBy(c, S) ==
  \A o \in present : status[o] <= Statuses /\ Passed(o, c) /\ o \notin shifted => o \in S

\* Where the page under way leads to.
Ahead(r) == IF r.next = None THEN Start(r.to) ELSE r.next

RunType == [pc : {"idle", "fetch", "store"}, cur : Cursor \cup {None},
            next : Cursor \cup {None}, to : Nat, page : SUBSET Order,
            pages : 0 .. (MaxPages - 1)]

\* The orders a sweep began with were placed, and before the present.
Known == \A o \in present : 0 < status[o] /\ born[o] < now

SweepInv ==
  /\ SweepAssumption /\ TypeOK /\ Known
  /\ resume # None => StoredBy(resume, pulled)
  /\ swept # None => StoredBy(swept, pulled)
  /\ run.pc # "idle" => run.cur \in Cursor
  /\ run.pc = "fetch" => StoredBy(run.cur, pulled)
  /\ run.pc = "store" => StoredBy(Ahead(run), pulled \cup run.page)

LEMMA Types ==
  ASSUME SweepAssumption, TypeOK
  PROVE  /\ Rank \in [Order -> Nat \ {0}] /\ SiteOf \in [Order -> 1 .. 2] /\ IsFiniteSet(Order)
         /\ \A o, q \in Order : Rank[o] = Rank[q] => o = q
         /\ Statuses \in Nat \ {0} /\ Unit \in Nat \ {0} /\ Window \in Nat \ {0}
         /\ Lookback \in Nat /\ PageSize \in Nat \ {0}
         /\ market \in {"coupang", "esm"} /\ now \in Nat /\ fails \in Nat
         /\ born \in [Order -> Nat] /\ status \in [Order -> 0 .. Statuses + 1]
         /\ resume \in Cursor \cup {None} /\ swept \in Cursor \cup {None} /\ run \in RunType
         /\ present \subseteq Order /\ pulled \subseteq Order /\ shifted \subseteq Order
BY DEF SweepAssumption, TypeOK, RunType

LEMMA CursorFields ==
  ASSUME NEW c \in Cursor
  PROVE  /\ c.from \in Nat /\ c.site \in 1 .. 2 /\ c.st \in 1 .. Statuses /\ c.pos \in Nat
         /\ c # None
BY DEF Cursor, None

LEMMA RunFields ==
  ASSUME NEW r \in RunType
  PROVE  /\ r.pc \in {"idle", "fetch", "store"} /\ r.cur \in Cursor \cup {None}
         /\ r.next \in Cursor \cup {None} /\ r.to \in Nat /\ r.page \subseteq Order
         /\ r.pages \in 0 .. (MaxPages - 1)
BY DEF RunType

LEMMA StartType ==
  ASSUME SweepAssumption, NEW n \in Nat
  PROVE  /\ Start(n) \in Cursor /\ Start(n).from = n /\ Start(n).site = 1
         /\ Start(n).st = 1 /\ Start(n).pos = 0 /\ Start(n) # None
BY DEF SweepAssumption, Start, Cursor, None

LEMMA AtRest ==
  ASSUME SweepAssumption
  PROVE  Idle \in RunType /\ Idle.pc = "idle" /\ Idle.pages = 0 /\ MaxPages \in Nat \ {0}
BY DEF SweepAssumption, Idle, RunType

LEMMA WindowType ==
  ASSUME SweepAssumption, TypeOK, NEW n \in Nat
  PROVE  WindowEnd(n) \in Nat /\ WindowEnd(n) <= now /\ Since \in Nat
<1>1. now \in Nat /\ Window \in Nat /\ Lookback \in Nat
  BY Types
<1> QED
  BY <1>1 DEF WindowEnd, Since

LEMMA ListType ==
  ASSUME SweepAssumption, TypeOK, NEW c, NEW to
  PROVE  /\ List(c, to) \subseteq Order /\ IsFiniteSet(List(c, to))
         /\ \A o \in Order : Before(o, List(c, to)) \in Nat
<1>1. List(c, to) \in SUBSET Order
  BY DEF List
<1>2. IsFiniteSet(List(c, to))
  BY <1>1, FS_Subset, Types
<1>3. \A o \in Order : Before(o, List(c, to)) \in Nat
  BY <1>1, <1>2, BeforeType, Types
<1> QED
  BY <1>1, <1>2, <1>3

\* The sweep comes to the start of a list before it comes to an order of it.
LEMMA NothingBefore ==
  ASSUME SweepAssumption, TypeOK, NEW o \in Order, NEW c \in Cursor, c.pos = 0, Passed(o, c)
  PROVE  \/ born[o] < c.from
         \/ /\ born[o] < WindowEnd(c.from)
            /\ Site(o) < c.site \/ (Site(o) = c.site /\ status[o] < c.st)
<1>1. Rank[o] \in Nat \ {0} /\ PageSize \in Nat \ {0}
  BY Types
<1>2. Before(o, List(c, WindowEnd(c.from))) \in Nat
  BY ListType
<1>3. ~ (Rank[o] <= c.pos) /\ ~ (Before(o, List(c, WindowEnd(c.from))) < c.pos * PageSize)
  BY <1>1, <1>2
<1> QED
  BY <1>3 DEF Passed

-----------------------------------------------------------------------------
(* The environment: what is passed afterwards was passed before *)

LEMMA StillPassed ==
  ASSUME SweepAssumption, TypeOK, TypeOK', market' = market, now <= now',
         NEW o \in Order, born'[o] = born[o], born[o] < now, status[o] <= status'[o],
         NEW c \in Cursor, Passed(o, c)',
         market = "esm" /\ Site(o) = c.site /\ status[o] = c.st /\ status'[o] = c.st =>
           {q \in List(c, WindowEnd(c.from)) : Rank[q] < Rank[o]}
             \subseteq {q \in List(c, WindowEnd(c.from))' : Rank[q] < Rank[o]}
  PROVE  Passed(o, c)
<1> DEFINE to == WindowEnd(c.from)
<1>1. /\ Rank \in [Order -> Nat \ {0}] /\ PageSize \in Nat \ {0} /\ now \in Nat
      /\ born \in [Order -> Nat] /\ status[o] \in Nat /\ status'[o] \in Nat
      /\ market \in {"coupang", "esm"} /\ Window \in Nat /\ now' \in Nat
      /\ c.from \in Nat /\ c.st \in Nat /\ c.pos \in Nat /\ c.site \in Nat
  <2>1. status \in [Order -> 0 .. Statuses + 1] /\ status' \in [Order -> 0 .. Statuses + 1]
        /\ now' \in Nat
    BY DEF TypeOK
  <2> QED
    BY <2>1, Types, CursorFields
<1>2. born[o] < to' => born[o] < to
  BY <1>1 DEF WindowEnd
<1>3. Site(o)' = Site(o)
  BY DEF Site
<1>4. CASE born[o] < c.from
  BY <1>4 DEF Passed
<1>5. CASE born[o] < to' /\ (Site(o) < c.site \/ (Site(o) = c.site /\ status'[o] < c.st))
  BY <1>1, <1>2, <1>5 DEF Passed
<1>6. CASE /\ born[o] < to' /\ Site(o) = c.site /\ status'[o] = c.st
           /\ market = "coupang" /\ Rank[o] <= c.pos
  BY <1>1, <1>2, <1>6 DEF Passed
<1>7. CASE /\ born[o] < to' /\ Site(o) = c.site /\ status'[o] = c.st
           /\ market # "coupang" /\ Before(o, List(c, to))' < c.pos * PageSize
  <2>1. CASE status[o] < c.st
    BY <1>2, <1>7, <2>1 DEF Passed
  <2>2. CASE status[o] = c.st
    <3> DEFINE L == List(c, to)
    <3>1. {q \in L : Rank[q] < Rank[o]} \subseteq {q \in L' : Rank[q] < Rank[o]}
      BY <1>1, <1>7, <2>2
    <3>2. L \in SUBSET Order /\ Before(o, L) \in Nat
      BY ListType
    <3>3. L' \in SUBSET Order /\ IsFiniteSet(L')
      <4>1. L' \in SUBSET Order
        BY DEF List
      <4> QED
        BY <4>1, FS_Subset, Types
    <3> HIDE DEF L
    <3>4. Before(o, L) <= Before(o, L') /\ Before(o, L') \in Nat
      BY <1>1, <3>1, <3>2, <3>3, BeforeGrows, BeforeType
    <3>5. Before(o, L)' = Before(o, L')
      BY DEF Before
    <3>6. Before(o, L) < c.pos * PageSize
      <4>1. Before(o, L') < c.pos * PageSize
        BY <1>7, <3>5 DEF L
      <4> QED
        BY <1>1, <3>2, <3>4, <4>1
    <3> QED
      BY <1>2, <1>7, <2>2, <3>6 DEF Passed, L
  <2> QED
    BY <1>1, <1>7, <2>1, <2>2
<1> QED
  BY <1>1, <1>3, <1>4, <1>5, <1>6, <1>7 DEF Passed
-----------------------------------------------------------------------------
(* A page *)

\* The orders of the window on the site with the status are in the list.
LEMMA InList ==
  ASSUME SweepAssumption, TypeOK, NEW o \in Order, NEW c \in Cursor, NEW to \in Nat,
         c.from <= born[o], born[o] < to, Site(o) = c.site, status[o] = c.st
  PROVE  o \in List(c, to)
<1>1. c.from \in Nat /\ born[o] \in Nat /\ Unit \in Nat \ {0}
  BY Types, CursorFields
<1>2. c.from \div Unit <= born[o] \div Unit /\ born[o] \div Unit <= to \div Unit
  BY <1>1, CutKeepsOrder
<1> QED
  BY <1>2 DEF List, InDates

\* What the list has at c or before is passed.
LEMMA PassedInList ==
  ASSUME SweepAssumption, TypeOK, NEW o \in Order, NEW c \in Cursor,
         born[o] < WindowEnd(c.from), Site(o) = c.site, status[o] = c.st,
         IF market = "coupang" THEN Rank[o] <= c.pos
           ELSE Before(o, List(c, WindowEnd(c.from))) < c.pos * PageSize
  PROVE  Passed(o, c)
BY DEF Passed

\* A page that the list does not go on after leaves nothing of it.
LEMMA ListEnds ==
  ASSUME SweepAssumption, TypeOK, NEW o \in Order, NEW c \in Cursor,
         o \in List(c, WindowEnd(c.from)), born[o] < WindowEnd(c.from),
         ~ GoesOn(c, WindowEnd(c.from))
  PROVE  Passed(o, c) \/ o \in Page(c, WindowEnd(c.from))
<1> DEFINE to == WindowEnd(c.from)
           L == List(c, to)
<1>1. /\ Rank \in [Order -> Nat \ {0}] /\ PageSize \in Nat \ {0} /\ c.pos \in Nat
      /\ market \in {"coupang", "esm"} /\ Before(o, L) \in Nat
      /\ Site(o) = c.site /\ status[o] = c.st
      /\ \A x, y \in Order : Rank[x] = Rank[y] => x = y
  <2>1. Site(o) = c.site /\ status[o] = c.st
    BY DEF List
  <2> QED
    BY <2>1, Types, CursorFields, ListType
<1>2. L \in SUBSET Order /\ IsFiniteSet(L) /\ o \in L
  BY ListType
<1>3. CASE market = "coupang"
  <2>1. Rank[o] > c.pos => o \in Page(c, to)
    BY <1>3 DEF GoesOn
  <2>2. ~ (Rank[o] > c.pos) => Rank[o] <= c.pos
    BY <1>1
  <2> QED
    BY <1>1, <1>3, <2>1, <2>2, PassedInList
<1>4. CASE market # "coupang"
  <2> DEFINE a == c.pos * PageSize
  <2>1. a \in Nat /\ (c.pos + 1) * PageSize = a + PageSize
    BY <1>1
  <2>2. Page(c, to) = {q \in L : a <= Before(q, L) /\ Before(q, L) < a + PageSize}
    BY <1>4, <2>1 DEF Page
  <2>3. Cardinality(Page(c, to)) # PageSize
    BY <1>4 DEF GoesOn
  <2> HIDE DEF L, to
  <2>4. ~ (a + PageSize <= Before(o, L))
    <3> HIDE DEF a
    <3> QED
      BY <1>1, <1>2, <2>1, <2>2, <2>3, FullPage
  <2>5. CASE a <= Before(o, L)
    <3> HIDE DEF a
    <3>1. Before(o, L) < a + PageSize
      BY <1>1, <2>1, <2>4
    <3>2. o \in Page(c, to)
      BY <1>2, <2>2, <2>5, <3>1
    <3> QED
      BY <3>2 DEF to
  <2>6. CASE ~ (a <= Before(o, L))
    <3>1. Before(o, L) < c.pos * PageSize
      BY <1>1, <2>1, <2>6
    <3> QED
      BY <1>1, <1>4, <3>1, PassedInList DEF L, to
  <2> QED
    BY <2>5, <2>6
<1> QED
  BY <1>3, <1>4

\* The orders a token may continue after.
Ranks(page) == {Rank[o] : o \in page}
Highest(page) == CHOOSE r \in Ranks(page) : \A o \in page : Rank[o] <= r

LEMMA HighestRank ==
  ASSUME Rank \in [Order -> Nat \ {0}], NEW S \in SUBSET Order, IsFiniteSet(S), S # {}
  PROVE  /\ Highest(S) \in Ranks(S) /\ Highest(S) \in Nat
         /\ \A o \in S : Rank[o] <= Highest(S)
<1>1. PICK m \in S : \A o \in S : Rank[o] <= Rank[m]
  BY Last
<1>2. Rank[m] \in Ranks(S)
  BY DEF Ranks
<1>3. Highest(S) \in Ranks(S) /\ \A o \in S : Rank[o] <= Highest(S)
  BY <1>1, <1>2 DEF Highest
<1>4. Ranks(S) \subseteq Nat
  BY DEF Ranks
<1> QED
  BY <1>3, <1>4

\* A list of tokens that goes on has had a page.
LEMMA PageOfTokens ==
  ASSUME SweepAssumption, TypeOK, NEW c \in Cursor, NEW to, market = "coupang",
         GoesOn(c, to)
  PROVE  /\ Page(c, to) # {} /\ Page(c, to) \in SUBSET Order /\ IsFiniteSet(Page(c, to))
         /\ Highest(Page(c, to)) \in Nat
         /\ \A o \in List(c, to) :
              Rank[o] > c.pos /\ Rank[o] <= Highest(Page(c, to)) => o \in Page(c, to)
<1> DEFINE rest == {o \in List(c, to) : Rank[o] > c.pos}
<1>1. Rank \in [Order -> Nat \ {0}] /\ PageSize \in Nat \ {0}
  BY Types
<1>2. rest \in SUBSET Order /\ IsFiniteSet(rest)
  BY ListType, FS_Subset
<1>3. Page(c, to) = {o \in rest : Before(o, rest) < PageSize}
  BY DEF Page
<1>4. rest # {}
  BY DEF GoesOn
<1> HIDE DEF rest
<1>5. PICK m \in rest : \A o \in rest : Rank[m] <= Rank[o]
  BY <1>1, <1>2, <1>4, First
<1>6. Before(m, rest) = 0
  <2>1. {q \in rest : Rank[q] < Rank[m]} = {}
    BY <1>1, <1>2, <1>5
  <2> QED
    BY <2>1, FS_EmptySet DEF Before
<1>7. m \in Page(c, to)
  BY <1>1, <1>3, <1>6
<1>8. Page(c, to) \in SUBSET Order /\ IsFiniteSet(Page(c, to))
  BY <1>2, <1>3, FS_Subset
<1>9. /\ Highest(Page(c, to)) \in Ranks(Page(c, to)) /\ Highest(Page(c, to)) \in Nat
  BY <1>1, <1>7, <1>8, HighestRank
<1>10. PICK h \in Page(c, to) : Highest(Page(c, to)) = Rank[h]
  BY <1>9 DEF Ranks
<1>11. ASSUME NEW o \in List(c, to), Rank[o] > c.pos, Rank[o] <= Rank[h]
       PROVE  o \in Page(c, to)
  <2>1. o \in rest /\ h \in rest /\ Before(h, rest) < PageSize
    BY <1>3, <1>11 DEF rest
  <2>2. {q \in rest : Rank[q] < Rank[o]} \subseteq {q \in rest : Rank[q] < Rank[h]}
    BY <1>1, <1>2, <1>11, <2>1
  <2>3. Before(o, rest) <= Before(h, rest)
    <3>1. {q \in rest : Rank[q] < Rank[h]} \in SUBSET Order
          /\ IsFiniteSet({q \in rest : Rank[q] < Rank[h]})
      BY <1>2, FS_Subset
    <3>2. {q \in rest : Rank[q] < Rank[o]} \in SUBSET {q \in rest : Rank[q] < Rank[h]}
      BY <2>2
    <3> QED
      BY <3>1, <3>2, FS_Subset DEF Before
  <2>4. Before(o, rest) \in Nat /\ Before(h, rest) \in Nat
    BY <1>1, <1>2, <2>1, BeforeType
  <2> QED
    BY <1>1, <1>3, <2>1, <2>3, <2>4
<1> QED
  BY <1>7, <1>8, <1>9, <1>10, <1>11

\* Where a page leads to.
LEMMA NextCursors ==
  ASSUME SweepAssumption, TypeOK, NEW c \in Cursor, NEW to \in Nat
  PROVE  LET n == NextCursor(c, to)
         IN \/ /\ GoesOn(c, to) /\ n \in Cursor
               /\ n.from = c.from /\ n.site = c.site /\ n.st = c.st
               /\ n.pos = IF market = "esm" THEN c.pos + 1 ELSE Highest(Page(c, to))
            \/ /\ ~ GoesOn(c, to) /\ c.st < Statuses /\ n \in Cursor
               /\ n.from = c.from /\ n.site = c.site /\ n.st = c.st + 1 /\ n.pos = 0
            \/ /\ ~ GoesOn(c, to) /\ c.st = Statuses /\ c.site < Sites /\ n \in Cursor
               /\ n.from = c.from /\ n.site = c.site + 1 /\ n.st = 1 /\ n.pos = 0
            \/ /\ ~ GoesOn(c, to) /\ c.st = Statuses /\ Sites <= c.site
               /\ n = None \/ n = Start(to)
<1> DEFINE n == NextCursor(c, to)
<1>1. /\ c.from \in Nat /\ c.site \in 1 .. 2 /\ c.st \in 1 .. Statuses /\ c.pos \in Nat
      /\ Statuses \in Nat \ {0} /\ market \in {"coupang", "esm"}
  BY Types, CursorFields
<1>2. CASE GoesOn(c, to)
  <2> DEFINE pos == IF market = "esm" THEN c.pos + 1 ELSE Highest(Page(c, to))
  <2>1. pos \in Nat
    BY <1>1, <1>2, PageOfTokens
  <2>2. n = [c EXCEPT !.pos = pos]
    BY <1>2 DEF NextCursor, Highest, Ranks
  <2> HIDE DEF pos
  <2>3. n \in Cursor /\ n.from = c.from /\ n.site = c.site /\ n.st = c.st /\ n.pos = pos
    BY <2>1, <2>2 DEF Cursor
  <2> QED
    BY <1>2, <2>3 DEF pos
<1>3. CASE ~ GoesOn(c, to) /\ c.st < Statuses
  <2> DEFINE m == [c EXCEPT !.st = c.st + 1]
  <2>1. n = [m EXCEPT !.pos = 0]
    BY <1>3 DEF NextCursor
  <2>2. m \in Cursor /\ m.from = c.from /\ m.site = c.site /\ m.st = c.st + 1
    BY <1>1, <1>3 DEF Cursor
  <2> HIDE DEF m
  <2>3. n \in Cursor /\ n.from = c.from /\ n.site = c.site /\ n.st = c.st + 1 /\ n.pos = 0
    BY <2>1, <2>2 DEF Cursor
  <2> QED
    BY <1>3, <2>3
<1>4. CASE ~ GoesOn(c, to) /\ ~ (c.st < Statuses) /\ c.site < Sites
  <2> DEFINE m == [c EXCEPT !.site = c.site + 1]
             k == [m EXCEPT !.st = 1]
  <2>1. n = [k EXCEPT !.pos = 0]
    BY <1>4 DEF NextCursor
  <2>2. m \in Cursor /\ m.from = c.from /\ m.site = c.site + 1
    BY <1>1, <1>4 DEF Cursor, Sites
  <2> HIDE DEF m
  <2>3. k \in Cursor /\ k.from = c.from /\ k.site = c.site + 1 /\ k.st = 1
    BY <1>1, <2>2 DEF Cursor
  <2> HIDE DEF k
  <2>4. n \in Cursor /\ n.from = c.from /\ n.site = c.site + 1 /\ n.st = 1 /\ n.pos = 0
    BY <2>1, <2>3 DEF Cursor
  <2> QED
    BY <1>1, <1>4, <2>4
<1>5. CASE ~ GoesOn(c, to) /\ ~ (c.st < Statuses) /\ ~ (c.site < Sites)
  <2>1. n = None \/ n = Start(to)
    BY <1>5 DEF NextCursor
  <2>2. c.st = Statuses /\ Sites <= c.site
    BY <1>1, <1>5 DEF Sites
  <2> QED
    BY <1>5, <2>1, <2>2
<1> HIDE DEF n
<1>6. CASE TRUE
  BY <1>2, <1>3, <1>4, <1>5
<1> QED
  BY <1>6 DEF n

\* What a page leads past was passed before it or is on it.
LEMMA PageCovers ==
  ASSUME SweepAssumption, TypeOK, NEW c \in Cursor, NEW o \in Order,
         0 < status[o], status[o] <= Statuses,
         LET n == NextCursor(c, WindowEnd(c.from))
         IN  Passed(o, IF n = None THEN Start(WindowEnd(c.from)) ELSE n)
  PROVE  Passed(o, c) \/ o \in Page(c, WindowEnd(c.from))
<1> DEFINE to == WindowEnd(c.from)
           n == NextCursor(c, to)
           e == IF n = None THEN Start(to) ELSE n
           ended == /\ born[o] < to
                    /\ Site(o) < c.site \/ (Site(o) = c.site /\ status[o] <= c.st)
<1>0. /\ c.from \in Nat /\ c.site \in 1 .. 2 /\ c.st \in 1 .. Statuses /\ c.pos \in Nat
      /\ Statuses \in Nat \ {0} /\ market \in {"coupang", "esm"} /\ to \in Nat
      /\ born[o] \in Nat /\ status[o] \in Nat /\ Site(o) \in 1 .. 2 /\ Site(o) <= Sites
      /\ Rank[o] \in Nat /\ PageSize \in Nat
  BY Types, CursorFields, WindowType DEF Site, Sites
<1>1. Passed(o, e)
  OBVIOUS
<1> HIDE DEF to, n, e
<1>2. CASE born[o] < c.from
  BY <1>2 DEF Passed
<1>3. CASE ~ GoesOn(c, to) /\ ended
  <2>1. CASE Site(o) < c.site \/ (Site(o) = c.site /\ status[o] < c.st)
    BY <1>3, <2>1 DEF Passed, to
  <2>2. CASE Site(o) = c.site /\ status[o] = c.st /\ ~ (born[o] < c.from)
    <3>1. c.from <= born[o]
      BY <1>0, <2>2
    <3>2. o \in List(c, to)
      BY <1>0, <1>3, <2>2, <3>1, InList
    <3> QED
      BY <1>3, <3>2, ListEnds DEF to
  <2> QED
    BY <1>0, <1>2, <1>3, <2>1, <2>2
<1>4. CASE GoesOn(c, to) /\ ~ (born[o] < c.from)
  <2>1. /\ e \in Cursor /\ e.from = c.from /\ e.site = c.site /\ e.st = c.st
        /\ e.pos = IF market = "esm" THEN c.pos + 1 ELSE Highest(Page(c, to))
    <3>1. n \in Cursor /\ n # None /\ n.from = c.from /\ n.site = c.site /\ n.st = c.st
          /\ n.pos = IF market = "esm" THEN c.pos + 1 ELSE Highest(Page(c, to))
      BY <1>0, <1>4, NextCursors, CursorFields DEF n
    <3> QED
      BY <3>1 DEF e
  <2>2. List(e, to) = List(c, to)
    BY <2>1 DEF List
  <2>3. born[o] < to
    BY <1>1, <1>4, <2>1 DEF Passed, to
  <2>4. CASE Site(o) < c.site \/ (Site(o) = c.site /\ status[o] < c.st)
    BY <2>3, <2>4 DEF Passed, to
  <2>5. CASE Site(o) = c.site /\ status[o] = c.st
    <3>1. o \in List(c, to)
      <4>1. c.from <= born[o]
        BY <1>0, <1>4
      <4> QED
        BY <1>0, <2>3, <2>5, <4>1, InList
    <3>2. CASE market = "coupang"
      <4>1. Rank[o] <= Highest(Page(c, to))
        BY <1>0, <1>1, <1>4, <2>1, <2>5, <3>2 DEF Passed
      <4>2. Rank[o] > c.pos => o \in Page(c, to)
        BY <1>4, <3>1, <3>2, <4>1, PageOfTokens
      <4>3. Rank[o] <= c.pos => Passed(o, c)
        BY <2>3, <2>5, <3>2, PassedInList DEF to
      <4> QED
        BY <1>0, <4>2, <4>3 DEF to
    <3>3. CASE market = "esm"
      <4>1. Before(o, List(c, to)) < (c.pos + 1) * PageSize
        BY <1>0, <1>1, <1>4, <2>1, <2>2, <2>5, <3>3 DEF Passed, to
      <4>2. Before(o, List(c, to)) \in Nat
        BY ListType
      <4>3. c.pos * PageSize \in Nat
        BY <1>0
      <4>4. c.pos * PageSize <= Before(o, List(c, to)) => o \in Page(c, to)
        BY <3>1, <3>3, <4>1 DEF Page
      <4>5. Before(o, List(c, to)) < c.pos * PageSize => Passed(o, c)
        BY <2>3, <2>5, <3>3, PassedInList DEF to
      <4>6. \/ c.pos * PageSize <= Before(o, List(c, to))
            \/ Before(o, List(c, to)) < c.pos * PageSize
        BY <4>2, <4>3
      <4> QED
        BY <4>4, <4>5, <4>6 DEF to
    <3> QED
      BY <1>0, <3>2, <3>3
  <2> QED
    BY <1>1, <1>4, <2>1, <2>4, <2>5 DEF Passed
<1>5. CASE ~ GoesOn(c, to) /\ ~ (born[o] < c.from)
  <2>1. \/ /\ c.st < Statuses /\ e \in Cursor
           /\ e.from = c.from /\ e.site = c.site /\ e.st = c.st + 1 /\ e.pos = 0
        \/ /\ c.st = Statuses /\ e \in Cursor
           /\ e.from = c.from /\ e.site = c.site + 1 /\ e.st = 1 /\ e.pos = 0
        \/ c.st = Statuses /\ Sites <= c.site /\ e = Start(to)
    <3>1. \/ /\ c.st < Statuses /\ n \in Cursor
             /\ n.from = c.from /\ n.site = c.site /\ n.st = c.st + 1 /\ n.pos = 0
          \/ /\ c.st = Statuses /\ n \in Cursor
             /\ n.from = c.from /\ n.site = c.site + 1 /\ n.st = 1 /\ n.pos = 0
          \/ c.st = Statuses /\ Sites <= c.site /\ (n = None \/ n = Start(to))
      BY <1>0, <1>5, NextCursors DEF n
    <3>2. \A d \in Cursor : d # None
      BY CursorFields
    <3> QED
      BY <3>1, <3>2 DEF e
  <2>2. CASE e \in Cursor /\ e.from = c.from /\ e.pos = 0
    <3>1. /\ born[o] < to
          /\ Site(o) < e.site \/ (Site(o) = e.site /\ status[o] < e.st)
      BY <1>1, <1>5, <2>2, NothingBefore DEF to
    <3>2. ended
      BY <1>0, <2>1, <2>2, <3>1, StartType
    <3> QED
      BY <1>3, <1>5, <3>2 DEF to
  <2>3. CASE c.st = Statuses /\ Sites <= c.site /\ e = Start(to)
    <3>1. /\ e \in Cursor /\ e.from = to /\ e.site = 1 /\ e.st = 1 /\ e.pos = 0
      BY <1>0, <2>3, StartType
    <3>2. born[o] < to
      BY <1>0, <1>1, <3>1, NothingBefore
    <3>3. ended
      BY <1>0, <2>3, <3>2 DEF Sites
    <3> QED
      BY <1>3, <1>5, <3>3 DEF to
  <2> QED
    BY <2>1, <2>2, <2>3
<1> QED
  BY <1>2, <1>4, <1>5 DEF to
-----------------------------------------------------------------------------
(* The steps *)

LEMMA SweepInit == SweepAssumption /\ Init => SweepInv
<1> SUFFICES ASSUME SweepAssumption, Init PROVE SweepInv
  OBVIOUS
<1>1. TypeOK
  BY AtRest DEF Init, TypeOK, SweepAssumption, RunType
<1> QED
  BY <1>1, AtRest DEF Init, SweepInv, Known

LEMMA BeginStep == SweepInv /\ Begin => SweepInv'
<1> SUFFICES ASSUME SweepInv, Begin PROVE SweepInv'
  OBVIOUS
<1>0. /\ SweepAssumption /\ TypeOK /\ Known /\ run.pc = "idle"
      /\ UNCHANGED <<market, now, born, status, resume, fails>>
      /\ born \in [Order -> Nat] /\ Since \in Nat /\ Lookback \in Nat
  BY Types, WindowType DEF SweepInv, Begin, Since
<1>1. CASE resume = None
  <2>0. PICK c \in Cursor : c = Start(Since)
    BY <1>0, StartType
  <2>1. c \in Cursor /\ c.pos = 0 /\ c.site = 1 /\ c.st = 1 /\ c.from = Since /\ c # None
    BY <1>0, <2>0, StartType
  <2>2. /\ run' \in RunType /\ run'.pc = "fetch" /\ run'.cur = c
        /\ present' = {o \in Placed : Since <= born[o] /\ born[o] < now}
        /\ pulled' = {} /\ shifted' = {} /\ swept' = c
    <3>1. run' = [Idle EXCEPT !.pc = "fetch", !.cur = c]
      BY <1>1, <2>0 DEF Begin
    <3>2. run' \in RunType /\ run'.pc = "fetch" /\ run'.cur = c
      BY <1>0, <2>1, <3>1, AtRest DEF RunType
    <3> QED
      BY <1>1, <2>0, <3>2 DEF Begin
  <2>3. TypeOK'
    BY <1>0, <2>1, <2>2 DEF TypeOK, Placed, RunType
  <2>4. Known'
    BY <1>0, <2>2 DEF Known, Placed
  <2>5. ASSUME NEW o \in present' PROVE ~ Passed(o, c)
    <3>1. o \in Order /\ Since <= born[o] /\ status[o] \in Nat \ {0} /\ born[o] \in Nat
      BY <1>0, <2>2, <2>5, Types DEF Placed
    <3>2. Site(o) \in 1 .. 2
      BY <1>0, <3>1, Types DEF Site
    <3>3. ~ (born[o] < c.from) /\ ~ (Site(o) < c.site) /\ ~ (status[o] < c.st)
      BY <1>0, <2>1, <3>1, <3>2
    <3> QED
      BY <1>0, <2>1, <3>1, <3>3, NothingBefore
  <2>6. \A o \in present' : ~ Passed(o, c)'
    BY <1>0, <2>5 DEF Passed, Before, List, Site, InDates, WindowEnd
  <2>7. StoredBy(swept, pulled)' /\ StoredBy(run.cur, pulled)'
    BY <2>2, <2>6 DEF StoredBy, Passed, Before, List, Site, InDates, WindowEnd
  <2> QED
    BY <1>0, <1>1, <2>1, <2>2, <2>3, <2>4, <2>7 DEF SweepInv, SweepAssumption
<1>2. CASE resume # None
  <2>1. resume \in Cursor
    BY <1>0, <1>2, Types
  <2>2. /\ run' \in RunType /\ run'.pc = "fetch" /\ run'.cur = resume
        /\ UNCHANGED <<present, pulled, shifted, swept>>
    <3>1. run' = [Idle EXCEPT !.pc = "fetch", !.cur = resume]
      BY <1>2 DEF Begin
    <3>2. run' \in RunType /\ run'.pc = "fetch" /\ run'.cur = resume
      BY <1>0, <2>1, <3>1, AtRest DEF RunType
    <3> QED
      BY <1>2, <3>2 DEF Begin
  <2>3. TypeOK' /\ Known'
    BY <1>0, <2>2 DEF TypeOK, Known, RunType
  <2>4. (swept # None => StoredBy(swept, pulled))'
    BY <1>0, <2>2 DEF SweepInv, StoredBy, Passed, Before, List, Site, InDates, WindowEnd
  <2>5. StoredBy(resume, pulled)'
    BY <1>0, <1>2, <2>2
    DEF SweepInv, StoredBy, Passed, Before, List, Site, InDates, WindowEnd
  <2>6. StoredBy(run.cur, pulled)'
    BY <1>0, <2>2, <2>5
  <2> QED
    BY <1>0, <2>1, <2>2, <2>3, <2>4, <2>5, <2>6 DEF SweepInv, SweepAssumption
<1> QED
  BY <1>1, <1>2

LEMMA FetchStep == SweepInv /\ FetchOrders => SweepInv'
<1> SUFFICES ASSUME SweepInv, FetchOrders PROVE SweepInv'
  OBVIOUS
<1> DEFINE c == run.cur
           to == WindowEnd(c.from)
           page == Page(c, to)
           next == NextCursor(c, to)
           e == IF next = None THEN Start(to) ELSE next
<1>0. /\ SweepAssumption /\ TypeOK /\ Known /\ run \in RunType /\ run.pc = "fetch"
      /\ UNCHANGED <<market, now, born, status, resume, present, pulled, swept, shifted, fails>>
      /\ c \in Cursor /\ StoredBy(c, pulled)
  BY Types DEF SweepInv, FetchOrders
<1>1. to \in Nat
  BY <1>0, CursorFields, WindowType
<1>2. page \in SUBSET Order
  BY <1>0, ListType DEF Page
<1>3. next \in Cursor \cup {None}
  <2> HIDE DEF c, to
  <2>1. \A n \in Nat : Start(n) \in Cursor
    BY <1>0, StartType
  <2> QED
    BY <1>0, <1>1, <2>1, NextCursors
<1>4. /\ run' \in RunType /\ run'.pc = "store" /\ run'.cur = c /\ run'.to = to
      /\ run'.page = page /\ run'.next = next
  <2> DEFINE f == [run EXCEPT !.pc = "store", !.to = to]
             g == [f EXCEPT !.page = page]
  <2>1. run' = [g EXCEPT !.next = next]
    BY DEF FetchOrders
  <2> HIDE DEF to, page, next
  <2>2. f \in RunType /\ f.pc = "store" /\ f.to = to /\ f.cur = c
    BY <1>0, <1>1 DEF RunType
  <2> HIDE DEF f
  <2>3. g \in RunType /\ g.pc = "store" /\ g.to = to /\ g.cur = c /\ g.page = page
    BY <1>2, <2>2 DEF RunType
  <2> HIDE DEF g
  <2> QED
    BY <1>3, <2>1, <2>3 DEF RunType
<1>5. \A o \in present : status[o] <= Statuses /\ Passed(o, e) /\ o \notin shifted
                           => o \in pulled \cup page
  <2> SUFFICES ASSUME NEW o \in present, status[o] <= Statuses, Passed(o, e), o \notin shifted
               PROVE  o \in pulled \cup page
    OBVIOUS
  <2>1. o \in Order /\ 0 < status[o]
    BY <1>0, Types DEF Known
  <2>2. Passed(o, c) \/ o \in page
    BY <1>0, <2>1, PageCovers
  <2> QED
    BY <1>0, <2>2 DEF StoredBy
<1>6. Ahead(run') = e
  BY <1>4 DEF Ahead
<1> HIDE DEF c, to, page, next, e
<1>7. TypeOK' /\ Known'
  BY <1>0, <1>4 DEF TypeOK, Known, RunType
<1>8. (swept # None => StoredBy(swept, pulled))' /\ (resume # None => StoredBy(resume, pulled))'
  BY <1>0 DEF SweepInv, StoredBy, Passed, Before, List, Site, InDates, WindowEnd
<1>9. StoredBy(Ahead(run), pulled \cup run.page)'
  <2>1. Ahead(run)' = e
    BY <1>6 DEF Ahead
  <2>2. \A o : Passed(o, Ahead(run))' => Passed(o, e)
    BY <1>0, <2>1 DEF Passed, Before, List, Site, InDates, WindowEnd
  <2> QED
    BY <1>0, <1>4, <1>5, <2>2 DEF StoredBy
<1> QED
  BY <1>0, <1>4, <1>7, <1>8, <1>9 DEF SweepInv, SweepAssumption

LEMMA StoreStep == SweepInv /\ StorePage => SweepInv'
<1> SUFFICES ASSUME SweepInv, StorePage PROVE SweepInv'
  OBVIOUS
<1>0. /\ SweepAssumption /\ TypeOK /\ Known /\ run \in RunType /\ run.pc = "store"
      /\ UNCHANGED <<market, now, born, status, present, shifted, fails>>
      /\ pulled' = pulled \cup (run.page \cap present)
      /\ swept' = IF run.next = None THEN Start(run.to) ELSE run.next
      /\ run.next \in Cursor \cup {None} /\ run.to \in Nat /\ run.pages \in 0 .. (MaxPages - 1)
      /\ StoredBy(Ahead(run), pulled \cup run.page) /\ present \subseteq Order
  BY Types, RunFields DEF SweepInv, StorePage
<1>1. /\ run' \in RunType
      /\ \/ /\ run'.pc = "fetch" /\ run'.cur = run.next /\ run.next # None /\ resume' = resume
         \/ run'.pc = "idle" /\ resume' = run.next
  <2>1. CASE run.next # None /\ PagesLeft(run.pages + 1)
    <3> DEFINE f == [Idle EXCEPT !.pc = "fetch", !.cur = run.next]
    <3>1. run' = [f EXCEPT !.pages = run.pages + 1] /\ resume' = resume
      BY <2>1 DEF StorePage
    <3>2. f \in RunType /\ f.pc = "fetch" /\ f.cur = run.next
      BY <1>0, AtRest DEF RunType
    <3> HIDE DEF f
    <3>3. run.pages + 1 \in 0 .. (MaxPages - 1)
      BY <1>0, <2>1, AtRest DEF PagesLeft
    <3>4. run' \in RunType /\ run'.pc = "fetch" /\ run'.cur = run.next
      BY <1>0, <3>1, <3>2, <3>3 DEF RunType
    <3> QED
      BY <2>1, <3>1, <3>4
  <2>2. CASE ~ (run.next # None /\ PagesLeft(run.pages + 1))
    BY <1>0, <2>2, AtRest DEF StorePage
  <2> QED
    BY <2>1, <2>2
<1>2. swept' = Ahead(run) /\ swept' \in Cursor
  BY <1>0, StartType DEF Ahead
<1>3. TypeOK' /\ Known'
  <2>1. pulled' \subseteq Order /\ resume' \in Cursor \cup {None}
    BY <1>0, <1>1, Types
  <2> QED
    BY <1>0, <1>1, <1>2, <2>1 DEF TypeOK, Known, RunType
\* The page is stored.
<1>4. \A o \in present : status[o] <= Statuses /\ Passed(o, Ahead(run)) /\ o \notin shifted
                           => o \in pulled'
  BY <1>0 DEF StoredBy
<1>5. \A o, c : Passed(o, c)' <=> Passed(o, c)
  BY <1>0 DEF Passed, Before, List, Site, InDates, WindowEnd
<1>6. StoredBy(swept, pulled)'
  <2>1. \A o : Passed(o, swept)' => Passed(o, Ahead(run))
    BY <1>0, <1>2 DEF Passed, Before, List, Site, InDates, WindowEnd
  <2> QED
    BY <1>0, <1>4, <2>1 DEF StoredBy
<1>7. \A o, c : Passed(o, c)' => Passed(o, c)
  BY <1>5
<1>8. (resume # None => StoredBy(resume, pulled))'
  <2>1. CASE resume' = resume
    BY <1>0, <2>1 DEF SweepInv, StoredBy, Passed, Before, List, Site, InDates, WindowEnd
  <2>2. CASE resume' = run.next
    <3>1. resume' # None => resume' = Ahead(run)
      BY <2>2 DEF Ahead
    <3>2. ASSUME resume' # None PROVE \A o : Passed(o, resume)' => Passed(o, Ahead(run))
      BY <1>0, <3>1, <3>2 DEF Passed, Before, List, Site, InDates, WindowEnd
    <3> QED
      BY <1>0, <1>4, <3>2 DEF StoredBy
  <2> QED
    BY <1>1, <2>1, <2>2
<1>9. (run.pc # "idle" => run.cur \in Cursor)' /\ (run.pc = "fetch" => StoredBy(run.cur, pulled))'
  <2>1. CASE run'.pc = "fetch" /\ run'.cur = run.next /\ run.next # None
    <3>1. run'.cur = Ahead(run) /\ run'.cur \in Cursor
      BY <1>0, <2>1 DEF Ahead
    <3>2. \A o : Passed(o, run.cur)' => Passed(o, Ahead(run))
      BY <1>0, <3>1 DEF Passed, Before, List, Site, InDates, WindowEnd
    <3> QED
      BY <1>0, <1>4, <3>1, <3>2 DEF StoredBy
  <2>2. CASE run'.pc = "idle"
    BY <2>2
  <2> QED
    BY <1>1, <2>1, <2>2
<1>10. run'.pc # "store"
  BY <1>1
<1> QED
  BY <1>0, <1>3, <1>6, <1>8, <1>9, <1>10 DEF SweepInv, SweepAssumption

LEMMA FailStep == SweepInv /\ Fail => SweepInv'
<1> SUFFICES ASSUME SweepInv, Fail PROVE SweepInv'
  OBVIOUS
<1>0. /\ SweepAssumption /\ TypeOK /\ Known /\ run' = Idle
      /\ UNCHANGED <<market, now, born, status, resume, present, pulled, swept, shifted>>
  BY DEF SweepInv, Fail
<1>1. TypeOK' /\ Known'
  BY <1>0, AtRest DEF TypeOK, Known, RunType, Fail
<1>2. (swept # None => StoredBy(swept, pulled))' /\ (resume # None => StoredBy(resume, pulled))'
  BY <1>0 DEF SweepInv, StoredBy, Passed, Before, List, Site, InDates, WindowEnd
<1> QED
  BY <1>0, <1>1, <1>2, AtRest DEF SweepInv, SweepAssumption

\* What the environment may do: no order of the sweep moves back, and what it
\* takes out of a numbered list from ahead of another is on record.
LEMMA EnvKeeps ==
  ASSUME SweepInv, TypeOK', Known',
         UNCHANGED <<market, resume, run, present, pulled, swept>>, shifted \subseteq shifted',
         now <= now',
         \A o \in present : born'[o] = born[o] /\ status[o] <= status'[o],
         \A o \in present \ shifted', c \in Cursor :
           market = "esm" /\ Site(o) = c.site /\ status[o] = c.st /\ status'[o] = c.st =>
             {q \in List(c, WindowEnd(c.from)) : Rank[q] < Rank[o]}
               \subseteq {q \in List(c, WindowEnd(c.from))' : Rank[q] < Rank[o]}
  PROVE  SweepInv'
<1>0. /\ SweepAssumption /\ TypeOK /\ Known /\ present \subseteq Order /\ run \in RunType
      /\ resume \in Cursor \cup {None} /\ swept \in Cursor \cup {None}
      /\ status \in [Order -> 0 .. Statuses + 1] /\ Statuses \in Nat
      /\ status' \in [Order -> 0 .. Statuses + 1]
  BY Types DEF SweepInv, TypeOK
<1>1. ASSUME NEW c \in Cursor, NEW S, StoredBy(c, S),
             NEW o \in present, status'[o] <= Statuses, Passed(o, c)', o \notin shifted'
      PROVE  o \in S
  <2>1. o \in Order /\ born'[o] = born[o] /\ born[o] < now /\ status[o] <= status'[o]
    BY <1>0, <1>1 DEF Known
  <2>2. Passed(o, c)
    BY <1>0, <1>1, <2>1, StillPassed
  <2>3. status[o] <= Statuses
    BY <1>0, <1>1, <2>1
  <2> QED
    BY <1>1, <2>2, <2>3 DEF StoredBy
<1>2. ASSUME swept # None PROVE StoredBy(swept, pulled)'
  <2>1. PICK c \in Cursor : c = swept
    BY <1>0, <1>2
  <2>2. StoredBy(c, pulled)
    BY <1>2, <2>1 DEF SweepInv
  <2>3. \A o : Passed(o, swept)' <=> Passed(o, c)'
    BY <2>1 DEF Passed, Before, List, Site, InDates, WindowEnd
  <2> QED
    BY <1>1, <2>2, <2>3 DEF StoredBy
<1>3. ASSUME resume # None PROVE StoredBy(resume, pulled)'
  <2>1. PICK c \in Cursor : c = resume
    BY <1>0, <1>3
  <2>2. StoredBy(c, pulled)
    BY <1>3, <2>1 DEF SweepInv
  <2>3. \A o : Passed(o, resume)' <=> Passed(o, c)'
    BY <2>1 DEF Passed, Before, List, Site, InDates, WindowEnd
  <2> QED
    BY <1>1, <2>2, <2>3 DEF StoredBy
<1>4. ASSUME run.pc = "fetch" PROVE StoredBy(run.cur, pulled)'
  <2>1. PICK c \in Cursor : c = run.cur
    BY <1>4 DEF SweepInv
  <2>2. StoredBy(c, pulled)
    BY <1>4, <2>1 DEF SweepInv
  <2>3. \A o : Passed(o, run.cur)' <=> Passed(o, c)'
    BY <2>1 DEF Passed, Before, List, Site, InDates, WindowEnd
  <2> QED
    BY <1>1, <2>2, <2>3 DEF StoredBy
<1>5. ASSUME run.pc = "store" PROVE StoredBy(Ahead(run), pulled \cup run.page)'
  <2>1. PICK c \in Cursor : c = Ahead(run)
    BY <1>0, RunFields, StartType DEF Ahead
  <2>2. StoredBy(c, pulled \cup run.page)
    BY <1>5, <2>1 DEF SweepInv
  <2>3. Ahead(run)' = c
    BY <2>1 DEF Ahead
  <2>4. \A o : Passed(o, Ahead(run))' <=> Passed(o, c)'
    BY <2>3 DEF Passed, Before, List, Site, InDates, WindowEnd
  <2> QED
    BY <1>1, <2>2, <2>4 DEF StoredBy
<1> QED
  BY <1>0, <1>2, <1>3, <1>4, <1>5 DEF SweepInv, SweepAssumption

LEMMA EnvStep ==
  SweepInv /\ (TimePasses \/ \E o \in Order : Place(o) \/ \E s \in 2 .. Statuses + 1 : Move(o, s))
    => SweepInv'
<1>0. ASSUME SweepInv
      PROVE  /\ SweepAssumption /\ TypeOK /\ Known /\ present \subseteq Order
             /\ now \in Nat /\ born \in [Order -> Nat] /\ Unit \in Nat \ {0}
             /\ status \in [Order -> 0 .. Statuses + 1] /\ Statuses \in Nat \ {0}
             /\ Rank \in [Order -> Nat \ {0}] /\ Window \in Nat
  BY <1>0, Types DEF SweepInv
<1>1. ASSUME SweepInv, TimePasses PROVE SweepInv'
  <2>1. now' = now + 1 /\ UNCHANGED <<market, born, status, resume, run, present, pulled,
                                     swept, shifted, fails>>
    BY <1>1 DEF TimePasses
  <2>2. TypeOK' /\ Known'
    BY <1>0, <1>1, <2>1 DEF TypeOK, Known
  <2>3. ASSUME NEW c \in Cursor, NEW q \in List(c, WindowEnd(c.from))
        PROVE  q \in List(c, WindowEnd(c.from))'
    <3>1. /\ q \in Order /\ Site(q) = c.site /\ status[q] = c.st
          /\ InDates(born[q], c.from, WindowEnd(c.from))
      BY <2>3 DEF List
    <3>2. /\ WindowEnd(c.from) \in Nat /\ WindowEnd(c.from)' \in Nat
          /\ WindowEnd(c.from) <= WindowEnd(c.from)'
      BY <1>0, <1>1, <2>1, CursorFields DEF WindowEnd
    <3>3. WindowEnd(c.from) \div Unit <= WindowEnd(c.from)' \div Unit
      BY <1>0, <1>1, <3>2, CutKeepsOrder
    <3>4. InDates(born[q], c.from, WindowEnd(c.from))'
      BY <1>0, <1>1, <2>1, <3>1, <3>2, <3>3 DEF InDates
    <3> QED
      BY <2>1, <3>1, <3>4 DEF List, Site
  <2>4. now <= now' /\ \A o \in present : born'[o] = born[o] /\ status[o] <= status'[o]
    BY <1>0, <1>1, <2>1
  <2>5. \A o \in present \ shifted', c \in Cursor :
          {q \in List(c, WindowEnd(c.from)) : Rank[q] < Rank[o]}
            \subseteq {q \in List(c, WindowEnd(c.from))' : Rank[q] < Rank[o]}
    BY <2>3
  <2> QED
    BY <1>1, <2>1, <2>2, <2>4, <2>5, EnvKeeps
<1>2. ASSUME SweepInv, NEW p \in Order, Place(p) PROVE SweepInv'
  <2>1. /\ status[p] = 0 /\ status' = [status EXCEPT ![p] = 1]
        /\ born' = [born EXCEPT ![p] = now]
        /\ UNCHANGED <<market, now, resume, run, present, pulled, swept, shifted, fails>>
    BY <1>2 DEF Place
  <2>2. TypeOK'
    BY <1>0, <1>2, <2>1 DEF TypeOK
  <2>3. \A o \in present : o # p /\ born'[o] = born[o] /\ status'[o] = status[o]
    BY <1>0, <1>2, <2>1 DEF Known
  <2>4. Known'
    BY <1>0, <1>2, <2>1, <2>3 DEF Known
  <2>5. ASSUME NEW c \in Cursor, NEW q \in List(c, WindowEnd(c.from))
        PROVE  q \in List(c, WindowEnd(c.from))'
    <3>1. q \in Order /\ status[q] = c.st /\ q # p
      BY <2>1, <2>5, CursorFields DEF List
    <3>2. status'[q] = status[q] /\ born'[q] = born[q]
      BY <1>0, <1>2, <2>1, <3>1
    <3> QED
      BY <2>1, <2>5, <3>1, <3>2 DEF List, Site, InDates, WindowEnd
  <2>6. now <= now' /\ \A o \in present : born'[o] = born[o] /\ status[o] <= status'[o]
    BY <1>0, <1>2, <2>1, <2>3
  <2>7. \A o \in present \ shifted', c \in Cursor :
          {q \in List(c, WindowEnd(c.from)) : Rank[q] < Rank[o]}
            \subseteq {q \in List(c, WindowEnd(c.from))' : Rank[q] < Rank[o]}
    BY <2>5
  <2> QED
    BY <1>2, <2>1, <2>2, <2>4, <2>6, <2>7, EnvKeeps
<1>3. ASSUME SweepInv, NEW p \in Order, NEW s \in 2 .. Statuses + 1, Move(p, s)
      PROVE  SweepInv'
  <2>1. /\ 0 < status[p] /\ status[p] < s /\ status' = [status EXCEPT ![p] = s]
        /\ shifted' = shifted \cup {q \in present : /\ market = "esm" /\ Site(q) = Site(p)
                                                    /\ status[q] = status[p]
                                                    /\ Rank[q] > Rank[p]}
        /\ UNCHANGED <<market, now, born, resume, run, present, pulled, swept, fails>>
    BY <1>3 DEF Move
  <2>2. TypeOK'
    <3>1. status' \in [Order -> 0 .. Statuses + 1] /\ shifted' \subseteq Order
      BY <1>0, <1>3, <2>1 DEF TypeOK
    <3> QED
      BY <1>0, <1>3, <2>1, <3>1 DEF TypeOK
  <2>3. \A o \in Order : status[o] <= status'[o] /\ (o # p => status'[o] = status[o])
    BY <1>0, <1>3, <2>1
  <2>4. Known'
    BY <1>0, <1>3, <2>1, <2>3 DEF Known
  <2>5. ASSUME NEW o \in present \ shifted', NEW c \in Cursor, market = "esm",
               Site(o) = c.site, status[o] = c.st,
               NEW q \in List(c, WindowEnd(c.from)), Rank[q] < Rank[o]
        PROVE  q \in List(c, WindowEnd(c.from))'
    <3>1. q \in Order /\ status[q] = c.st /\ Site(q) = c.site
      BY <2>5 DEF List
    <3>2. q # p
      <4>1. Rank[q] \in Nat /\ Rank[o] \in Nat
        BY <1>0, <1>3, <3>1
      <4> QED
        BY <2>1, <2>5, <3>1, <4>1
    <3> QED
      BY <2>1, <2>3, <2>5, <3>1, <3>2 DEF List, Site, InDates, WindowEnd
  <2>6. now <= now' /\ \A o \in present : born'[o] = born[o] /\ status[o] <= status'[o]
    BY <1>0, <1>3, <2>1, <2>3
  <2>7. \A o \in present \ shifted', c \in Cursor :
          market = "esm" /\ Site(o) = c.site /\ status[o] = c.st /\ status'[o] = c.st =>
            {q \in List(c, WindowEnd(c.from)) : Rank[q] < Rank[o]}
              \subseteq {q \in List(c, WindowEnd(c.from))' : Rank[q] < Rank[o]}
    BY <2>5
  <2>8. shifted \subseteq shifted'
    BY <2>1
  <2> QED
    BY <1>3, <2>1, <2>2, <2>4, <2>6, <2>7, <2>8, EnvKeeps
<1> QED
  BY <1>1, <1>2, <1>3

LEMMA SweepStep == SweepInv /\ [Next]_vars => SweepInv'
<1> SUFFICES ASSUME SweepInv, [Next]_vars PROVE SweepInv'
  OBVIOUS
<1>1. CASE RunStep
  BY <1>1, BeginStep, FetchStep, StoreStep DEF RunStep
<1>2. CASE Fail
  BY <1>2, FailStep
<1>3. CASE TimePasses \/ \E o \in Order : Place(o) \/ \E s \in 2 .. Statuses + 1 : Move(o, s)
  BY <1>3, EnvStep
<1>4. CASE UNCHANGED vars
  <2>1. /\ UNCHANGED <<market, now, born, status, resume, run, present, pulled, swept,
                       shifted, fails>>
        /\ SweepAssumption /\ TypeOK /\ Known
    BY <1>4 DEF vars, SweepInv
  <2>2. TypeOK' /\ Known'
    BY <2>1 DEF TypeOK, Known
  <2>3. now <= now' /\ \A o \in present : born'[o] = born[o] /\ status[o] <= status'[o]
    BY <2>1, Types
  <2>4. \A o \in present \ shifted', c \in Cursor :
          {q \in List(c, WindowEnd(c.from)) : Rank[q] < Rank[o]}
            \subseteq {q \in List(c, WindowEnd(c.from))' : Rank[q] < Rank[o]}
    BY <2>1 DEF List, Site, InDates, WindowEnd
  <2> QED
    BY <2>1, <2>2, <2>3, <2>4, EnvKeeps
<1> QED
  BY <1>1, <1>2, <1>3, <1>4 DEF Next

-----------------------------------------------------------------------------
(* The theorems *)

\* The orders, the cursors and the run keep to their types: the token a list
\* goes on after is always the place of an order of the page.
THEOREM SweepTypeCorrect == ASSUME SweepAssumption PROVE Spec => []TypeOK
<1>1. SweepInv => TypeOK
  BY DEF SweepInv
<1> QED
  BY <1>1, SweepInit, SweepStep, PTL DEF Spec

\* An order that a sweep has passed is in the store, whatever status it went on
\* to meanwhile and whichever runs failed (fetchOrders of the Coupang and the
\* ESM adapter).
THEOREM Stored == ASSUME SweepAssumption PROVE Spec => []SweptMeansStored
<1>1. SweepInv => SweptMeansStored
  BY DEF SweepInv, StoredBy, SweptMeansStored
<1> QED
  BY <1>1, SweepInit, SweepStep, PTL DEF Spec
=============================================================================
