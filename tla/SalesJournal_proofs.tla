-------------------------- MODULE SalesJournal_proofs --------------------------
(***************************************************************************)
(* Proofs about SalesJournal, for any orders, calls, amounts and number of *)
(* failures.                                                               *)
(***************************************************************************)
EXTENDS SalesJournal, TLAPS

Accounts == {Receivable, Revenue, Vat}

\* The first n accounts of the chart are there.
SeededTo(n) == \A i \in 1..n : Core[i] \in ledger

\* What a call has behind it: the accounts it has seeded, of which the last may
\* be another's doing, and those that it found.
SeedOf(c) ==
  /\ call[c].pc = "find" => call[c].seed = 1
  /\ call[c].pc = "seed" => call[c].seed <= Len(Core) /\ SeededTo(call[c].seed - 1)
  /\ call[c].pc \in {"partner", "accounts", "create"} => Accounts \subseteq ledger
  /\ call[c].pc = "create" => call[c].found = Accounts
  /\ call[c].pc \in {"accounts", "create"} => Splits(call[c].total)
SeedInv == \A c \in Call : SeedOf(c)

\* An order that no two calls were posting at once is posted by one call at
\* most, and by none if it has an entry.
EntryOf(o) ==
  /\ Len(journal[o]) <= 1
  /\ \A c \in Call : Posting(c) /\ call[c].order = o =>
       /\ journal[o] = <<>>
       /\ \A d \in Call : Posting(d) /\ call[d].order = o => d = c
EntryInv == \A o \in Order \ raced : EntryOf(o)

\* A call that is open is on an order.
OrderInv == \A c \in Call : call[c].pc # "free" => call[c].order \in Order

\* Every entry on file is of a total that was split.
FiledOf(o) == \A i \in DOMAIN journal[o] : \E t \in Nat : journal[o][i] = SaleLines(t)
FiledInv == \A o \in Order : FiledOf(o)

IInv == TypeOK /\ OrderInv /\ SeedInv /\ EntryInv /\ FiledInv

-----------------------------------------------------------------------------
(* The split of a total *)

\* Supply and tax are both amounts, for every total.
LEMMA SupplyType ==
  ASSUME NEW total \in Nat
  PROVE  Supply(total) \in Nat /\ total - Supply(total) \in Nat
  BY DEF Supply

LEMMA SaleLinesType ==
  ASSUME NEW total \in Nat
  PROVE  SaleLines(total) \in SUBSET JournalLine
  BY SupplyType DEF SaleLines, JournalLine

\* The lines of a sale balance, for every total that is split.
LEMMA SaleBalances ==
  ASSUME NEW total \in Nat
  PROVE  Balanced(SaleLines(total))
<1> DEFINE r == [account |-> Receivable, side |-> "DEBIT", amount |-> total]
           s == [account |-> Revenue, side |-> "CREDIT", amount |-> Supply(total)]
           t == [account |-> Vat, side |-> "CREDIT", amount |-> total - Supply(total)]
<1>1. SaleLines(total) = {r, s, t} BY DEF SaleLines
<1>2. r.account = "108" /\ s.account = "404" /\ t.account = "255"
  BY DEF Receivable, Revenue, Vat
<1>3. /\ r.amount = total /\ s.amount = Supply(total)
      /\ t.amount = total - Supply(total)
  OBVIOUS
<1> HIDE DEF r, s, t
<1>4. (CHOOSE l \in SaleLines(total) : l.account = "108") = r BY <1>1, <1>2
<1>5. (CHOOSE l \in SaleLines(total) : l.account = "404") = s BY <1>1, <1>2
<1>6. (CHOOSE l \in SaleLines(total) : l.account = "255") = t BY <1>1, <1>2
<1>7. /\ AmountOf(SaleLines(total), Receivable) = total
      /\ AmountOf(SaleLines(total), Revenue) = Supply(total)
      /\ AmountOf(SaleLines(total), Vat) = total - Supply(total)
  BY <1>3, <1>4, <1>5, <1>6 DEF AmountOf, Receivable, Revenue, Vat
<1> QED BY <1>7, SupplyType DEF Balanced

\* The six accounts of the chart have the three of a sale among them.
LEMMA ChartHasAccounts ==
  ASSUME SeededTo(Len(Core)) PROVE Accounts \subseteq ledger
  BY DEF SeededTo, Core, Accounts, Receivable, Revenue, Vat

-----------------------------------------------------------------------------
(* The steps *)

\* What a call that is open may hold.
CallType == [pc : {"free", "find", "seed", "partner", "accounts", "create"},
             order : Order \cup {NoOrder}, total : Int \cup {Fraction},
             seed : 1 .. Len(Core) + 1, found : SUBSET ledger]

LEMMA ChartLength == Len(Core) = 6 /\ DOMAIN Core = 1..6 BY DEF Core

LEMMA FreeType == Free \in CallType BY ChartLength DEF Free, CallType

LEMMA InitInv == JournalAssumption /\ Init => IInv
<1> SUFFICES ASSUME JournalAssumption, Init PROVE IInv OBVIOUS
<1>1. TypeOK
  <2>1. call \in [Call -> CallType] BY FreeType DEF Init
  <2>2. journal \in [Order -> Seq(SUBSET JournalLine)] BY DEF Init
  <2>3. ledger \subseteq {Core[i] : i \in DOMAIN Core} /\ partner \in BOOLEAN
        /\ raced \subseteq Order /\ fails \in Nat
    BY DEF Init
  <2> QED BY <2>1, <2>2, <2>3 DEF TypeOK, CallType
<1>2. \A c \in Call : call[c].pc = "free" BY DEF Init, Free
<1>3. OrderInv /\ SeedInv BY <1>2 DEF OrderInv, SeedInv, SeedOf
<1>4. \A o \in Order : journal[o] = <<>> /\ Len(journal[o]) <= 1
  <2>1. \A o \in Order : journal[o] = <<>> BY DEF Init
  <2>2. \A o \in Order : Len(journal[o]) = Len(<<>>) BY <2>1, Zenon
  <2>3. Len(<<>>) <= 1 OBVIOUS
  <2> QED BY <2>1, <2>2, <2>3, Zenon
<1>5. EntryInv BY <1>2, <1>4 DEF EntryInv, EntryOf, Posting
<1>6. FiledInv BY DEF Init, FiledInv, FiledOf
<1> QED BY <1>1, <1>3, <1>5, <1>6 DEF IInv

\* Calls that begin nothing, while no entry is made, disturb no entry.
LEMMA EntryKept ==
  ASSUME EntryInv, UNCHANGED <<journal, raced>>,
         \A d \in Call : Posting(d)' => Posting(d) /\ call'[d].order = call[d].order
  PROVE  EntryInv'
  BY DEF EntryInv, EntryOf

LEMMA FiledKept ==
  ASSUME FiledInv, UNCHANGED journal
  PROVE  FiledInv'
  BY DEF FiledInv, FiledOf

LEMMA BeginInv ==
  ASSUME JournalAssumption, IInv, NEW c \in Call, NEW o \in Order, NEW amount \in Amount,
         Begin(c, o, amount)
  PROVE  IInv'
<1> DEFINE new == [Free EXCEPT !.pc = "find", !.order = o, !.total = amount]
<1>1. /\ call' = [call EXCEPT ![c] = new]
      /\ UNCHANGED <<ledger, partner, journal, raced, fails>>
  BY DEF Begin
<1>2. new.pc = "find" /\ new.order = o /\ new.seed = 1 BY DEF Free
<1>3. new \in CallType
  BY FreeType, ChartLength DEF JournalAssumption, CallType, Free
<1> HIDE DEF new
<1>4. call'[c] = new /\ \A d \in Call \ {c} : call'[d] = call[d]
  BY <1>1 DEF IInv, TypeOK
<1>5. TypeOK' BY <1>1, <1>3 DEF IInv, TypeOK, CallType
<1>6. OrderInv' BY <1>2, <1>4 DEF IInv, OrderInv
<1>7. SeedInv' BY <1>1, <1>2, <1>4 DEF IInv, SeedInv, SeedOf, SeededTo
<1>8. \A d \in Call : Posting(d)' => Posting(d) /\ call'[d].order = call[d].order
  BY <1>2, <1>4 DEF Posting
<1>9. EntryInv' BY <1>1, <1>8, EntryKept DEF IInv
<1>10. FiledInv' BY <1>1, FiledKept DEF IInv
<1> QED BY <1>5, <1>6, <1>7, <1>9, <1>10 DEF IInv

\* A call that ends, with nothing else changed.
LEMMA FreedInv ==
  ASSUME IInv, NEW c \in Call, call' = [call EXCEPT ![c] = Free],
         UNCHANGED <<ledger, journal, raced>>, partner' \in BOOLEAN, fails' \in Nat
  PROVE  IInv'
<1>1. Free.pc = "free" BY DEF Free
<1>2. call'[c] = Free /\ \A d \in Call \ {c} : call'[d] = call[d]
  BY DEF IInv, TypeOK
<1>3. TypeOK' BY FreeType DEF IInv, TypeOK, CallType
<1>4. OrderInv' BY <1>1, <1>2 DEF IInv, OrderInv
<1>5. SeedInv' BY <1>1, <1>2 DEF IInv, SeedInv, SeedOf, SeededTo
<1>6. \A d \in Call : Posting(d)' => Posting(d) /\ call'[d].order = call[d].order
  BY <1>1, <1>2 DEF Posting
<1>7. EntryInv' BY <1>6, EntryKept DEF IInv
<1>8. FiledInv' BY FiledKept DEF IInv
<1> QED BY <1>3, <1>4, <1>5, <1>7, <1>8 DEF IInv

LEMMA FindInv ==
  ASSUME IInv, NEW c \in Call, Find(c)
  PROVE  IInv'
<1>1. CASE journal[call[c].order] # <<>>
  <2>1. /\ call' = [call EXCEPT ![c] = Free]
        /\ UNCHANGED <<ledger, partner, journal, raced, fails>>
    BY <1>1 DEF Find
  <2> QED BY <2>1, FreedInv DEF IInv, TypeOK
<1>2. CASE journal[call[c].order] = <<>>
  <2>1. /\ call[c].pc = "find" /\ call' = [call EXCEPT ![c].pc = "seed"]
        /\ raced' = raced \cup {o \in {call[c].order} :
                                  \E d \in Call : Posting(d) /\ call[d].order = o}
        /\ UNCHANGED <<ledger, partner, journal, fails>>
    BY <1>2 DEF Find
  <2>2. /\ call'[c].pc = "seed" /\ call'[c].order = call[c].order
        /\ call'[c].seed = call[c].seed
        /\ \A d \in Call \ {c} : call'[d] = call[d]
    BY <2>1 DEF IInv, TypeOK
  <2>3. call[c].order \in Order BY <2>1 DEF IInv, OrderInv
  <2>4. TypeOK' BY <2>1, <2>3 DEF IInv, TypeOK
  <2>5. OrderInv' BY <2>2, <2>3 DEF IInv, OrderInv
  <2>6. SeedInv'
    <3>1. call[c].seed = 1 BY <2>1 DEF IInv, SeedInv, SeedOf
    <3>2. SeededTo(0)' BY DEF SeededTo
    <3> QED BY <2>1, <2>2, <3>1, <3>2, ChartLength DEF IInv, SeedInv, SeedOf, SeededTo
  <2>7. EntryInv'
    <3> SUFFICES ASSUME NEW o \in Order \ raced'
                 PROVE  EntryOf(o)'
      BY DEF EntryInv, EntryOf
    <3>1. Posting(c)' BY <2>2 DEF Posting
    <3>2. \A d \in Call \ {c} : Posting(d)' <=> Posting(d) BY <2>2 DEF Posting
    <3>3. EntryOf(o) BY <2>1 DEF IInv, EntryInv, EntryOf
    <3>4. CASE o # call[c].order
      BY <2>1, <2>2, <3>2, <3>3, <3>4 DEF EntryOf
    <3>5. CASE o = call[c].order
      <4>1. ~\E d \in Call : Posting(d) /\ call[d].order = o BY <2>1, <3>5
      <4> QED BY <1>2, <2>1, <2>2, <3>2, <3>3, <3>5, <4>1 DEF EntryOf
    <3> QED BY <3>4, <3>5
  <2>8. FiledInv' BY <2>1, FiledKept DEF IInv
  <2> QED BY <2>4, <2>5, <2>6, <2>7, <2>8 DEF IInv
<1> QED BY <1>1, <1>2

\* A call that goes on from posting to posting, while the chart may grow.
LEMMA OnInv ==
  ASSUME IInv, NEW c \in Call, NEW next \in CallType', call' = [call EXCEPT ![c] = next],
         Posting(c), next.pc \in {"seed", "partner", "accounts", "create"},
         next.order = call[c].order,
         ledger \subseteq ledger', ledger' \subseteq {Core[i] : i \in DOMAIN Core},
         UNCHANGED <<journal, raced, fails>>, partner' \in BOOLEAN
  PROVE  TypeOK' /\ OrderInv' /\ EntryInv' /\ FiledInv'
<1>1. call'[c] = next /\ \A d \in Call \ {c} : call'[d] = call[d]
  BY DEF IInv, TypeOK
<1>2. TypeOK'
  <2>1. \A d \in Call : call[d] \in CallType' BY DEF IInv, TypeOK, CallType
  <2>2. call' \in [Call -> CallType'] BY <2>1 DEF IInv, TypeOK
  <2> QED BY <2>2 DEF IInv, TypeOK, CallType
<1>3. OrderInv' BY <1>1 DEF IInv, OrderInv, Posting
<1>4. \A d \in Call : Posting(d)' => Posting(d) /\ call'[d].order = call[d].order
  BY <1>1 DEF Posting
<1>5. EntryInv' BY <1>4, EntryKept DEF IInv
<1>6. FiledInv' BY FiledKept DEF IInv
<1> QED BY <1>2, <1>3, <1>5, <1>6

LEMMA SeedStepInv ==
  ASSUME IInv, NEW c \in Call, Seed(c)
  PROVE  IInv'
<1>1. call[c].pc = "seed" /\ SeededTo(call[c].seed - 1) /\ call[c].seed \in 1..6
  BY ChartLength DEF Seed, IInv, TypeOK, SeedInv, SeedOf
<1>2. PICK n \in 1..6 : n = call[c].seed BY <1>1
<1> DEFINE next == [call[c] EXCEPT !.seed = n + 1,
                                   !.pc = IF n < 6 THEN "seed" ELSE "partner"]
<1>3. /\ ledger' = ledger \cup {Core[n]}
      /\ call' = [call EXCEPT ![c] = next] /\ UNCHANGED <<partner, journal, raced, fails>>
  BY <1>2, ChartLength DEF Seed, IInv, TypeOK
<1>4. /\ next.pc = (IF n < 6 THEN "seed" ELSE "partner") /\ next.seed = n + 1
      /\ next.order = call[c].order
  BY DEF IInv, TypeOK
<1>5. next \in CallType'
  <2>1. call[c] \in CallType BY DEF IInv, TypeOK, CallType
  <2>2. next.seed \in 1..(Len(Core) + 1) BY <1>4, ChartLength
  <2>3. next \in CallType
    BY <1>4, <2>1, <2>2 DEF CallType
  <2>4. SUBSET ledger \subseteq SUBSET ledger' BY <1>3
  <2> QED BY <2>3, <2>4 DEF CallType
<1>6. ledger' \subseteq {Core[i] : i \in DOMAIN Core}
  BY <1>3, ChartLength DEF IInv, TypeOK
<1> HIDE DEF next
<1>7. TypeOK' /\ OrderInv' /\ EntryInv' /\ FiledInv'
  BY <1>1, <1>3, <1>4, <1>5, <1>6, OnInv DEF Posting, IInv, TypeOK
<1>8. SeedInv'
  <2>1. SeededTo(n)' BY <1>1, <1>2, <1>3 DEF SeededTo
  <2>2. n = 6 => Accounts \subseteq ledger'
    <3>1. n = 6 => SeededTo(6)' BY <2>1
    <3> QED BY <3>1 DEF SeededTo, Core, Accounts, Receivable, Revenue, Vat
  <2>3. call'[c] = next /\ \A d \in Call \ {c} : call'[d] = call[d]
    BY <1>3 DEF IInv, TypeOK
  <2>4. SeedOf(c)'
    <3>1. n + 1 - 1 = n /\ (n < 6 => n + 1 <= Len(Core)) BY ChartLength
    <3> QED BY <1>4, <2>1, <2>2, <2>3, <3>1 DEF SeedOf
  <2>5. ASSUME NEW d \in Call \ {c} PROVE SeedOf(d)'
    BY <1>3, <2>3 DEF IInv, SeedInv, SeedOf, SeededTo
  <2> QED BY <2>4, <2>5 DEF SeedInv
<1> QED BY <1>7, <1>8 DEF IInv

\* A total is refused before there is an entry, or is one that is split.
LEMMA PartnerInv ==
  ASSUME IInv, NEW c \in Call, Partner(c)
  PROVE  IInv'
<1>0. CASE ~ (Splits(call[c].total) /\ Balanced(SaleLines(call[c].total)))
  <2>1. /\ partner' = TRUE /\ call' = [call EXCEPT ![c] = Free]
        /\ UNCHANGED <<ledger, journal, raced, fails>>
    BY <1>0 DEF Partner
  <2> QED BY <2>1, FreedInv DEF IInv, TypeOK
<1> SUFFICES ASSUME Splits(call[c].total), Balanced(SaleLines(call[c].total))
             PROVE  IInv'
  BY <1>0
<1> DEFINE next == [call[c] EXCEPT !.pc = "accounts"]
<1>2. /\ call[c].pc = "partner" /\ partner' = TRUE
      /\ call' = [call EXCEPT ![c] = next] /\ UNCHANGED <<ledger, journal, raced, fails>>
  BY DEF Partner, IInv, TypeOK
<1>3. /\ next.pc = "accounts" /\ next.order = call[c].order /\ next \in CallType'
      /\ Splits(next.total)
  BY <1>2 DEF IInv, TypeOK, CallType, Splits
<1> HIDE DEF next
<1>4. TypeOK' /\ OrderInv' /\ EntryInv' /\ FiledInv'
  BY <1>2, <1>3, OnInv DEF Posting, IInv, TypeOK
<1>5. SeedInv'
  <2>1. call'[c] = next /\ \A d \in Call \ {c} : call'[d] = call[d]
    BY <1>2 DEF IInv, TypeOK
  <2>2. SeedOf(c)' BY <1>2, <1>3, <2>1 DEF IInv, SeedInv, SeedOf, Splits
  <2>3. ASSUME NEW d \in Call \ {c} PROVE SeedOf(d)'
    BY <1>2, <2>1 DEF IInv, SeedInv, SeedOf, SeededTo, Splits
  <2> QED BY <2>2, <2>3 DEF SeedInv
<1> QED BY <1>4, <1>5 DEF IInv

LEMMA ReadAccountsInv ==
  ASSUME IInv, NEW c \in Call, ReadAccounts(c)
  PROVE  IInv'
<1> DEFINE next == [call[c] EXCEPT !.pc = "create", !.found = ledger \cap Accounts]
<1>1. /\ call[c].pc = "accounts" /\ call' = [call EXCEPT ![c] = next]
      /\ UNCHANGED <<ledger, partner, journal, raced, fails>>
  BY DEF ReadAccounts, Accounts, IInv, TypeOK
<1>2. /\ next.pc = "create" /\ next.order = call[c].order
      /\ next.found = ledger \cap Accounts /\ next.total = call[c].total
      /\ next \in CallType'
  BY <1>1 DEF IInv, TypeOK, CallType
<1> HIDE DEF next
<1>3. TypeOK' /\ OrderInv' /\ EntryInv' /\ FiledInv'
  BY <1>1, <1>2, OnInv DEF Posting, IInv, TypeOK
<1>4. SeedInv'
  <2>1. call'[c] = next /\ \A d \in Call \ {c} : call'[d] = call[d]
    BY <1>1 DEF IInv, TypeOK
  <2>2. Accounts \subseteq ledger BY <1>1 DEF IInv, SeedInv, SeedOf
  <2>3. Splits(next.total) BY <1>1, <1>2 DEF IInv, SeedInv, SeedOf
  <2>4. SeedOf(c)' BY <1>1, <1>2, <2>1, <2>2, <2>3 DEF SeedOf, Splits
  <2>5. ASSUME NEW d \in Call \ {c} PROVE SeedOf(d)'
    BY <1>1, <2>1 DEF IInv, SeedInv, SeedOf, SeededTo, Splits
  <2> QED BY <2>4, <2>5 DEF SeedInv
<1> QED BY <1>3, <1>4 DEF IInv

\* The entry is made by the one call that was posting its order, or the order
\* is one of those two calls were posting.
LEMMA CreateInv ==
  ASSUME IInv, NEW c \in Call, Create(c)
  PROVE  IInv'
<1> DEFINE o == call[c].order
           lines == SaleLines(call[c].total)
<1>1. /\ call[c].pc = "create" /\ o \in Order /\ lines \in SUBSET JournalLine
      /\ call[c].found = Accounts /\ call[c].total \in Nat
  BY SaleLinesType DEF Create, IInv, TypeOK, OrderInv, SeedInv, SeedOf, Splits
<1>2. /\ journal' = [journal EXCEPT ![o] = Append(@, lines)]
      /\ call' = [call EXCEPT ![c] = Free] /\ UNCHANGED <<ledger, partner, raced, fails>>
  BY <1>1 DEF Create, Accounts
<1>3. call'[c] = Free /\ Free.pc = "free" /\ \A d \in Call \ {c} : call'[d] = call[d]
  BY <1>2 DEF IInv, TypeOK, Free
<1>8. FiledInv'
  <2> SUFFICES ASSUME NEW p \in Order PROVE FiledOf(p)'
    BY DEF FiledInv
  <2>1. FiledOf(p) BY DEF IInv, FiledInv
  <2>2. CASE p # o
    BY <1>1, <1>2, <2>1, <2>2 DEF FiledOf, IInv, TypeOK
  <2>3. CASE p = o
    <3> DEFINE s == journal[p]
    <3>1. s \in Seq(SUBSET JournalLine) /\ journal'[p] = Append(s, lines)
      BY <1>1, <1>2, <2>3 DEF IInv, TypeOK
    <3>2. lines = SaleLines(call[c].total) /\ call[c].total \in Nat
      BY <1>1
    <3> HIDE DEF s, lines, o
    <3> SUFFICES ASSUME NEW i \in DOMAIN journal'[p]
                 PROVE  \E t \in Nat : journal'[p][i] = SaleLines(t)
      BY DEF FiledOf
    <3>3. CASE i = Len(s) + 1
      BY <3>1, <3>2, <3>3
    <3>4. CASE i # Len(s) + 1
      <4>1. i \in 1 .. Len(s) /\ journal'[p][i] = s[i] BY <3>1, <3>4
      <4> QED BY <2>1, <3>1, <4>1 DEF FiledOf, s
    <3> QED BY <3>3, <3>4
  <2> QED BY <2>2, <2>3
<1> HIDE DEF o, lines
<1>4. TypeOK'
  <2>1. journal[o] \in Seq(SUBSET JournalLine) BY <1>1 DEF IInv, TypeOK
  <2>2. Append(journal[o], lines) \in Seq(SUBSET JournalLine) BY <1>1, <2>1
  <2>3. journal' \in [Order -> Seq(SUBSET JournalLine)] BY <1>2, <2>2 DEF IInv, TypeOK
  <2>4. call' \in [Call -> CallType] BY <1>2, FreeType DEF IInv, TypeOK, CallType
  <2> QED BY <1>2, <2>3, <2>4 DEF IInv, TypeOK, CallType
<1>5. OrderInv' BY <1>3 DEF IInv, OrderInv
<1>6. SeedInv' BY <1>2, <1>3 DEF IInv, SeedInv, SeedOf, SeededTo
<1>7. EntryInv'
  <2> SUFFICES ASSUME NEW p \in Order \ raced PROVE EntryOf(p)'
    BY <1>2 DEF EntryInv
  <2>1. EntryOf(p) BY DEF IInv, EntryInv
  <2>2. ~Posting(c)' /\ \A d \in Call \ {c} : Posting(d)' <=> Posting(d)
    BY <1>3 DEF Posting
  <2>3. CASE p = o
    <3>1. Posting(c) /\ call[c].order = p BY <1>1, <2>3 DEF Posting, o
    <3>2. journal[p] = <<>> /\ \A d \in Call : Posting(d) /\ call[d].order = p => d = c
      BY <2>1, <3>1 DEF EntryOf
    <3>3. journal'[p] = Append(<<>>, lines) BY <1>1, <1>2, <2>3, <3>2 DEF IInv, TypeOK
    <3>4. Len(journal'[p]) = 1 BY <1>1, <3>3
    <3>5. ~\E d \in Call : Posting(d)' /\ call'[d].order = p BY <1>3, <2>2, <3>2
    <3> QED BY <3>4, <3>5 DEF EntryOf
  <2>4. CASE p # o
    <3>1. journal'[p] = journal[p] BY <1>2, <2>4 DEF IInv, TypeOK
    <3> QED BY <1>3, <2>1, <2>2, <3>1 DEF EntryOf
  <2> QED BY <2>3, <2>4
<1> QED BY <1>4, <1>5, <1>6, <1>7, <1>8 DEF IInv

LEMMA FailInv ==
  ASSUME JournalAssumption, IInv, NEW c \in Call, Fail(c)
  PROVE  IInv'
<1>1. /\ call' = [call EXCEPT ![c] = Free] /\ UNCHANGED <<ledger, partner, journal, raced>>
      /\ fails' \in Nat
  BY DEF Fail, IInv, TypeOK
<1> QED BY <1>1, FreedInv DEF IInv, TypeOK

LEMMA StepInv ==
  ASSUME JournalAssumption, IInv, [Next]_vars
  PROVE  IInv'
<1>1. CASE Next
  BY <1>1, BeginInv, FindInv, SeedStepInv, PartnerInv, ReadAccountsInv, CreateInv, FailInv
     DEF Next
<1>2. CASE UNCHANGED vars
  BY <1>2 DEF vars, IInv, TypeOK, OrderInv, SeedInv, SeedOf, SeededTo, EntryInv,
              EntryOf, Posting, FiledInv, FiledOf, Splits
<1> QED BY <1>1, <1>2

-----------------------------------------------------------------------------
(* The theorems *)

\* The types of the journal hold for any orders, calls and amounts; above all,
\* every line's amount is a natural number (splitSupplyAndVat).
THEOREM TypeCorrect ==
  ASSUME JournalAssumption
  PROVE  Spec => []TypeOK
<1>1. Init => IInv BY InitInv
<1>2. IInv /\ [Next]_vars => IInv' BY StepInv
<1>3. IInv => TypeOK BY DEF IInv
<1> QED BY <1>1, <1>2, <1>3, PTL DEF Spec

\* An order has one entry at most, however many calls post it one after the
\* other and wherever each of them fails (postSalesJournalEntry).
THEOREM OneEntry ==
  ASSUME JournalAssumption
  PROVE  Spec => []OneEntryUnlessRaced
<1>1. Init => IInv BY InitInv
<1>2. IInv /\ [Next]_vars => IInv' BY StepInv
<1>3. IInv => OneEntryUnlessRaced
  BY DEF IInv, EntryInv, EntryOf, OneEntryUnlessRaced
<1> QED BY <1>1, <1>2, <1>3, PTL DEF Spec

\* Whichever calls have seeded the chart and wherever each of them stopped, the
\* accounts of a sale are found, and every entry on file balances, whatever
\* totals were asked for (postSalesJournalEntry, splitSupplyAndVat).
THEOREM FiledInFull ==
  ASSUME JournalAssumption
  PROVE  Spec => []PostedInFull
<1>1. Init => IInv BY InitInv
<1>2. IInv /\ [Next]_vars => IInv' BY StepInv
<1>3. IInv => PostedInFull
  <2> SUFFICES ASSUME IInv PROVE PostedInFull OBVIOUS
  <2>1. \A c \in Call : call[c].pc = "create" => call[c].found = {Receivable, Revenue, Vat}
    BY DEF IInv, SeedInv, SeedOf, Accounts
  <2>2. \A o \in Order : \A i \in DOMAIN journal[o] : Balanced(journal[o][i])
    BY SaleBalances DEF IInv, FiledInv, FiledOf
  <2> QED BY <2>1, <2>2 DEF PostedInFull
<1> QED BY <1>1, <1>2, <1>3, PTL DEF Spec
=============================================================================
