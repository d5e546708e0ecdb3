------------------------------ MODULE NorthStar ------------------------------
(***************************************************************************)
(* The metrics engine: computeNorthStar sends five queries at once, each   *)
(* answered from the store as it is at a moment of its own, and hands the  *)
(* answers to pure functions: the aging of receivables, the rate of cash   *)
(* to revenue by month, the conversion of quotes and the health score.     *)
(* Dates are days.  A rate or a score is a double in the code and here a   *)
(* whole number of grains, Grain of them a point of a scale of 100, Null   *)
(* where the code has null.  A grain is coarser than what the doubles lose *)
(* on the way (the tests of the score count on nine digits), and where     *)
(* that can decide on which side of a grain a value falls, every grain it  *)
(* may fall on is a choice (HealthScores).  Some of the rows of an answer  *)
(* are the set of their places in it.                                      *)
(***************************************************************************)
EXTENDS Integers, Sequences, FiniteSets, FiniteSetsExt, Functions

CONSTANTS
  Quote,         \* the tenant's quotes
  Entry,         \* what may be posted: [side, partner, amount, day]
  Start,         \* the books at first: [journal, deposits, quote]
  AsOf,          \* the day the metrics are of
  Boundaries,    \* agingBucketsDays
  Lookback,      \* cashScoreLookbackMonths
  MonthDays,     \* monthKeyFn: a month is so many days
  Grain,         \* grains of a point
  Margin, Speed, \* the scores the caller supplies, in grains, or Null
  Null,
  MaxPosts, MaxMoves   \* bounds of the model

Status == {"DRAFT", "SENT", "ACCEPTED", "EXPIRED"}

\* A full score, 100 points, and a rate of one.
Full == 100 * Grain

NorthStarAssumption ==
  /\ IsFiniteSet(Quote)
  /\ \A e \in Entry : e.amount \in Nat /\ e.day \in Nat
  /\ \A s \in Start : /\ s.journal \in Seq(Entry) /\ s.deposits \in Seq(Entry)
                      /\ s.quote \in [Quote -> Status]
  /\ AsOf \in Nat /\ Lookback \in Nat \ {0} /\ MonthDays \in Nat \ {0}
  /\ Boundaries \in Seq(Nat) /\ Boundaries # <<>>
  /\ \A i \in 1..(Len(Boundaries) - 1) : Boundaries[i] < Boundaries[i + 1]
  /\ Grain \in Nat \ {0} /\ Grain <= 10^9 /\ Null \notin Int
  /\ {Margin, Speed} \subseteq (0..Full) \cup {Null}
  /\ MaxPosts \in Nat /\ MaxMoves \in Nat

VARIABLES
  journal,   \* posted lines of accounts receivable: a debit is a sale, whose
             \* entry has the same amount of revenue, a credit a collection
  deposits,  \* bank transactions in
  quote,     \* status of each quote
  read,      \* the answers of the five queries, Null before
  posts, moves,   \* changes so far (bounded by MaxPosts, MaxMoves)
  missed     \* history: the quotes first sent after the sent ones were counted
             \* and before the accepted ones were

vars == <<journal, deposits, quote, read, posts, moves, missed>>

Query == {"ar", "revenue", "cash", "sent", "accepted"}

TypeOK ==
  /\ journal \in Seq(Entry) /\ deposits \in Seq(Entry)
  /\ quote \in [Quote -> Status]
  /\ DOMAIN read = Query
  /\ read["sent"] \in Nat \cup {Null} /\ read["accepted"] \in Nat \cup {Null}
  /\ posts \in 0..MaxPosts /\ moves \in 0..MaxMoves /\ missed \subseteq Quote

Init ==
  /\ \E s \in Start : journal = s.journal /\ deposits = s.deposits /\ quote = s.quote
  /\ read = [q \in Query |-> Null]
  /\ posts = 0 /\ moves = 0 /\ missed = {}

-----------------------------------------------------------------------------
(* Aging *)

\* Mutant: an age on a boundary is put into the next bucket.
BucketBelow(age) ==
  Min({i \in DOMAIN Boundaries : age < Boundaries[i]} \cup {Len(Boundaries) + 1})

\* bucketLabelForAgeDays: the first bucket whose boundary the age is within.
BucketOf(age) ==
  Min({i \in DOMAIN Boundaries : age <= Boundaries[i]} \cup {Len(Boundaries) + 1})

\* agingBucketLabels
Buckets == 1..(Len(Boundaries) + 1)

AgeOf(line) == Max({0, AsOf - line.day})

LinesOf(lines, p) == {i \in DOMAIN lines : lines[i].partner = p}
OfSide(lines, side) == {i \in DOMAIN lines : lines[i].side = side}
Total(lines, those) == SumFunctionOnSet([i \in those |-> lines[i].amount], those)

\* The invoices and the collections among a partner's lines.
Invoices(lines, own) == own \cap OfSide(lines, "DEBIT")
Credits(lines, own) == Total(lines, own \cap OfSide(lines, "CREDIT"))

\* The order of the invoices: by date, those of a day as they were read.
Before(lines, i, j) ==
  lines[i].day < lines[j].day \/ (lines[i].day = lines[j].day /\ i < j)
Latest(lines, those) == CHOOSE i \in those : \A j \in those \ {i} : Before(lines, j, i)

\* What is left of a partner's credits after some of the invoices, the oldest.
Pool(lines, own) ==
  LET pool[paid \in SUBSET Invoices(lines, own)] ==
        IF paid = {} THEN Credits(lines, own)
        ELSE LET i == Latest(lines, paid)
             IN pool[paid \ {i}] - Min({lines[i].amount, pool[paid \ {i}]})
  IN pool

\* What the credits leave open of each invoice.
Remaining(lines, own) ==
  LET invoices == Invoices(lines, own)
      pool == Pool(lines, own)
      earlier(i) == {j \in invoices : Before(lines, j, i)}
  IN [i \in invoices |-> lines[i].amount - Min({lines[i].amount, pool[earlier(i)]})]

\* computeAgingFifo of one partner: what is open, by bucket.
PartnerAging(lines, own) ==
  LET remaining == Remaining(lines, own)
  IN [b \in Buckets |->
        SumFunctionOnSet(remaining, {i \in DOMAIN remaining : BucketOf(AgeOf(lines[i])) = b})]

\* computeAgingFifo: by partner, those who owe nothing left out, and of the
\* tenant.
ComputeAging(lines) ==
  LET partners == {lines[i].partner : i \in DOMAIN lines}
      aging == [p \in partners |-> PartnerAging(lines, LinesOf(lines, p))]
      owing == {p \in partners : \E b \in Buckets : aging[p][b] > 0}
      buckets == [b \in Buckets |-> SumFunctionOnSet([p \in owing |-> aging[p][b]], owing)]
      open == SumFunctionOnSet(buckets, Buckets)
  IN [byPartner |-> [p \in owing |-> aging[p]], buckets |-> buckets, open |-> open,
      overShare |-> IF open = 0 THEN Null
                    ELSE (Full * buckets[Len(Boundaries) + 1]) \div open]

-----------------------------------------------------------------------------
(* The other metrics *)

MonthOf(line) == line.day \div MonthDays

\* computeCcrByMonth: cash over revenue of each month either is in; Null
\* without revenue.
ComputeCcr(revenue, cash) ==
  LET monthly(lines, m) == Total(lines, {i \in DOMAIN lines : MonthOf(lines[i]) = m})
      months == {MonthOf(line) : line \in Range(revenue) \cup Range(cash)}
  IN [m \in months |-> IF monthly(revenue, m) = 0 THEN Null
                       ELSE (Full * monthly(cash, m)) \div monthly(revenue, m)]

Clamp(x) == Max({0, Min({Full, x})})

\* cashScoreFromCcr: the mean of the last months that have a rate.
CashScore(ccr) ==
  LET months == DOMAIN ccr
      recent == {m \in months : /\ Cardinality({n \in months : n > m}) < Lookback
                                /\ ccr[m] # Null}
  IN IF recent = {} THEN Null
     ELSE Clamp(SumFunctionOnSet(ccr, recent) \div Cardinality(recent))

\* receivablesScoreFromAging: nothing open is a perfect score.
ReceivablesScore(overShare) == IF overShare = Null THEN Full ELSE Clamp(Full - overShare)

\* computeQuoteConversion and conversionScoreFromRate; it throws if more quotes
\* were accepted than sent.
Throws == read["accepted"] > read["sent"]
ConversionScore ==
  IF read["sent"] = 0 THEN Null ELSE Clamp((Full * read["accepted"]) \div read["sent"])

\* HEALTH_SCORE_WEIGHTS, in hundredths; the code's are the doubles next to them,
\* whose sum is a little less than one.
Weight == [cash |-> 30, receivables |-> 20, conversion |-> 20, margin |-> 20, speed |-> 10]

\* The sum of some axes, each by its weight.
Weighed(axes, those) == SumFunctionOnSet([a \in those |-> Weight[a] * axes[a]], those)

\* Mutant: a missing axis counts as zero, with its weight.
HealthScoresFilled(axes) ==
  LET mean == Weighed(axes, {a \in DOMAIN Weight : axes[a] # Null})
                \div SumFunctionOnSet(Weight, DOMAIN Weight)
  IN (mean - 1)..(mean + 1)

\* computeHealthScore: the weighted mean of the axes there are.  The products and
\* sums of doubles leave it within a grain of the exact one, on either side: five
\* full axes score a little more than 100.
HealthScores(axes) ==
  LET there == {a \in DOMAIN Weight : axes[a] # Null}
      mean == Weighed(axes, there) \div SumFunctionOnSet(Weight, there)
  IN IF there = {} THEN {Null} ELSE (mean - 1)..(mean + 1)

-----------------------------------------------------------------------------
(* computeNorthStar *)

\* Mutant: what is accepted is not counted as sent.
SentCountOpen == Cardinality({q \in Quote : quote[q] \in {"SENT", "EXPIRED"}})

\* The two counts of quotes.
SentCount == Cardinality({q \in Quote : quote[q] \in {"SENT", "ACCEPTED", "EXPIRED"}})
AcceptedCount == Cardinality({q \in Quote : quote[q] = "ACCEPTED"})

\* A query is answered, from the store as it is.
AnswerQuery(q) ==
  /\ read[q] = Null
  /\ read' = [read EXCEPT ![q] =
       CASE q = "ar" -> journal
         [] q = "revenue" -> Restrict(journal, OfSide(journal, "DEBIT"))
         [] q = "cash" -> deposits
         [] q = "sent" -> SentCount
         [] q = "accepted" -> AcceptedCount]
  /\ UNCHANGED <<journal, deposits, quote, posts, moves, missed>>

Done == \A q \in Query : read[q] # Null

\* The metrics, of the five answers.
Aging == ComputeAging(read["ar"])
Axes == [cash |-> CashScore(ComputeCcr(read["revenue"], read["cash"])),
         receivables |-> ReceivablesScore(Aging.overShare),
         conversion |-> ConversionScore, margin |-> Margin, speed |-> Speed]

-----------------------------------------------------------------------------
(* The store changes *)

\* An entry is posted, of a sale or of a collection, or money comes in.
PostEntry ==
  /\ posts < MaxPosts /\ posts' = posts + 1
  /\ \E e \in Entry : journal' = Append(journal, e)
  /\ UNCHANGED <<deposits, quote, read, moves, missed>>

Deposit ==
  /\ posts < MaxPosts /\ posts' = posts + 1
  /\ \E e \in Entry : e.side = "CREDIT" /\ deposits' = Append(deposits, e)
  /\ UNCHANGED <<journal, quote, read, moves, missed>>

\* A quote is sent, and later accepted or expired.
MoveQuote(q) ==
  /\ moves < MaxMoves /\ moves' = moves + 1
  /\ \/ quote[q] = "DRAFT" /\ quote' = [quote EXCEPT ![q] = "SENT"]
     \/ quote[q] = "SENT" /\ \E s \in {"ACCEPTED", "EXPIRED"} :
                               quote' = [quote EXCEPT ![q] = s]
  /\ missed' = IF quote[q] = "DRAFT" /\ read["sent"] # Null /\ read["accepted"] = Null
                 THEN missed \cup {q} ELSE missed
  /\ UNCHANGED <<journal, deposits, read, posts>>

Next ==
  \/ \E q \in Query : AnswerQuery(q)
  \/ PostEntry \/ Deposit
  \/ \E q \in Quote : MoveQuote(q)

Spec == Init /\ [][Next]_vars

-----------------------------------------------------------------------------
(* Properties *)

\* What is open of the invoice i among a partner's lines: the part of it that
\* lies above the credits when the older invoices are piled under it.
OpenOf(lines, own, i) ==
  LET under == {j \in own : /\ lines[j].side = "DEBIT"
                            /\ \/ lines[j].day < lines[i].day
                               \/ lines[j].day = lines[i].day /\ j <= i}
      pile == Total(lines, under)
      credits == Total(lines, {j \in own : lines[j].side = "CREDIT"})
  IN Max({0, Min({lines[i].amount, pile - credits})})

\* The invoices of between lo + 1 and hi days.
Aged(lines, own, lo, hi) ==
  {i \in own : lines[i].side = "DEBIT" /\ lo < AgeOf(lines[i]) /\ AgeOf(lines[i]) <= hi}

\* For any books the aging is first in, first out: in each bucket, the part of
\* its invoices that the partner's collections have not paid, the oldest being
\* paid first; each partner's sum is what he owes, and nobody's surplus pays for
\* another (computeAgingFifo, bucketLabelForAgeDays).
AgingIsFifo ==
  Done => \A lines \in {read["ar"]}, owed \in {Aging.byPartner} :
    \A p \in {lines[i].partner : i \in DOMAIN lines} :
      LET own == LinesOf(lines, p)
          aging == IF p \in DOMAIN owed THEN owed[p] ELSE [b \in Buckets |-> 0]
          open == [i \in own |-> OpenOf(lines, own, i)]
          lo(b) == IF b = 1 THEN -1 ELSE Boundaries[b - 1]
          hi(b) == IF b \in DOMAIN Boundaries THEN Boundaries[b] ELSE AsOf + 1
      IN /\ \A b \in Buckets :
              aging[b] = SumFunctionOnSet(open, Aged(lines, own, lo(b), hi(b)))
         /\ SumFunctionOnSet(aging, Buckets)
              = Max({0, Total(lines, own \cap OfSide(lines, "DEBIT"))
                          - Total(lines, own \cap OfSide(lines, "CREDIT"))})

\* computeNorthStar throws only if a quote was sent and accepted between its two
\* counts, never for a tenant whose quotes stand still, and the excess is no
\* more than those quotes (computeQuoteConversion, computeNorthStar).
ThrowsOnlyWhenRaced ==
  Done => read["accepted"] - read["sent"] <= Cardinality(missed)

\* Whatever is missing or out of scale among the figures (a month without
\* revenue, more cash than revenue, nothing open), each axis is between 0 and 100
\* and the health score between the lowest and the highest of the axes it has,
\* but for what the doubles lose: a grain (computeHealthScore, cashScoreFromCcr).
HealthWithinAxes ==
  Done /\ ~Throws => \A axes \in {Axes} :
    LET there == {axes[a] : a \in DOMAIN axes} \ {Null}
    IN /\ there \subseteq 0..Full
       /\ HealthScores(axes) \subseteq (Min(there) - 1)..(Max(there) + 1)
=============================================================================
