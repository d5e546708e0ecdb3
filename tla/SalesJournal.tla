----------------------------- MODULE SalesJournal -----------------------------
(***************************************************************************)
(* Posting an order's sale to the journal: postSalesJournalEntry, of one   *)
(* tenant.  Six awaited parts, one action each: find an entry that is      *)
(* there already, seed the core ledger accounts one by one, get or create  *)
(* the marketplace's settlement partner, read the accounts, create the     *)
(* entry with its lines.  Nothing in src/ calls it yet but the tests: that *)
(* it may be called for any order at any time, again after a failure, and  *)
(* more than once at a time, is an assumption on the caller to come.       *)
(***************************************************************************)
EXTENDS Integers, Sequences

CONSTANTS
  Order,      \* orders of the tenant
  Call,       \* calls open at the same time
  Amount,     \* totals a call may be given
  Fraction,   \* a total that is not an integer
  NoOrder,    \* for a call on no order
  MaxFails    \* bound of the model: calls that throw

JournalAssumption ==
  /\ Amount \subseteq Int \cup {Fraction} /\ Fraction \notin Int
  /\ NoOrder \notin Order /\ MaxFails \in Nat

VARIABLES
  ledger,     \* codes of the accounts there are (unique by tenant and code)
  partner,    \* whether the settlement partner is there
  journal,    \* the entries posted for each order
  call,       \* the calls
  raced,      \* history: the orders two calls were posting at once
  fails       \* calls that threw so far (bounded by MaxFails)

vars == <<ledger, partner, journal, call, raced, fails>>

\* CORE_LEDGER_ACCOUNTS, and the three a sale is posted to.
Core == <<"103", "108", "251", "253", "255", "404">>
Receivable == "108"
Revenue == "404"
Vat == "255"

JournalLine == [account : {Receivable, Revenue, Vat}, side : {"DEBIT", "CREDIT"},
                amount : Nat]
Free == [pc |-> "free", order |-> NoOrder, total |-> 0, seed |-> 1, found |-> {}]

TypeOK ==
  /\ ledger \subseteq {Core[i] : i \in DOMAIN Core} /\ partner \in BOOLEAN
  /\ journal \in [Order -> Seq(SUBSET JournalLine)]
  /\ call \in [Call -> [pc : {"free", "find", "seed", "partner", "accounts", "create"},
                        order : Order \cup {NoOrder}, total : Int \cup {Fraction},
                        seed : 1 .. Len(Core) + 1, found : SUBSET ledger]]
  /\ raced \subseteq Order /\ fails \in Nat

Init ==
  /\ ledger = {} /\ partner = FALSE
  /\ journal = [o \in Order |-> <<>>]
  /\ call = [c \in Call |-> Free]
  /\ raced = {} /\ fails = 0

-----------------------------------------------------------------------------
(* Helpers *)

\* Mutant: the total is taken for the price without tax.
SupplyOfNet(total) == (22 * total + 10) \div 20

\* The totals splitSupplyAndVat takes; it throws at the others.
Splits(total) == total \in Nat

\* Math.round(total / 1.1): 10 total / 11 is never within 1 / 22 of half way
\* between two integers, and a double is nearer than that for any total the
\* integer columns hold.
Supply(total) == (20 * total + 11) \div 22

\* buildSalesJournalLines with splitSupplyAndVat.
SaleLines(total) ==
  {[account |-> Receivable, side |-> "DEBIT", amount |-> total],
   [account |-> Revenue, side |-> "CREDIT", amount |-> Supply(total)],
   [account |-> Vat, side |-> "CREDIT", amount |-> total - Supply(total)]}

\* assertBalanced, of lines that name each account once.
AmountOf(lines, code) == (CHOOSE l \in lines : l.account = code).amount
Balanced(lines) ==
  AmountOf(lines, Receivable) = AmountOf(lines, Revenue) + AmountOf(lines, Vat)

\* Between the search for an entry and its creation.
Posting(c) == call[c].pc \in {"seed", "partner", "accounts", "create"}

-----------------------------------------------------------------------------
(* A call *)

Begin(c, o, amount) ==
  /\ call[c].pc = "free"
  /\ call' = [call EXCEPT ![c] = [Free EXCEPT !.pc = "find", !.order = o,
                                              !.total = amount]]
  /\ UNCHANGED <<ledger, partner, journal, raced, fails>>

\* Mutant: the entry is not looked for.
FindNothing(c) ==
  /\ call[c].pc = "find"
  /\ call' = [call EXCEPT ![c].pc = "seed"]
  /\ raced' = raced \cup {o \in {call[c].order} :
                            \E d \in Call : Posting(d) /\ call[d].order = o}
  /\ UNCHANGED <<ledger, partner, journal, fails>>

\* An entry of the order is returned as it is; otherwise the call goes on.
Find(c) ==
  /\ call[c].pc = "find"
  /\ IF journal[call[c].order] # <<>>
       THEN call' = [call EXCEPT ![c] = Free] /\ UNCHANGED raced
       ELSE /\ call' = [call EXCEPT ![c].pc = "seed"]
            /\ raced' = raced \cup {o \in {call[c].order} :
                                      \E d \in Call : Posting(d) /\ call[d].order = o}
  /\ UNCHANGED <<ledger, partner, journal, fails>>

\* Mutant: the last account is not seeded.
SeedShort(c) ==
  /\ call[c].pc = "seed"
  /\ ledger' = ledger \cup {Core[call[c].seed]}
  /\ call' = [call EXCEPT ![c].seed = @ + 1,
                          ![c].pc = IF call[c].seed + 1 < Len(Core) THEN "seed"
                                                                   ELSE "partner"]
  /\ UNCHANGED <<partner, journal, raced, fails>>

\* seedCoreLedgerAccounts: one upsert, that leaves an account there as it is.
Seed(c) ==
  /\ call[c].pc = "seed"
  /\ ledger' = ledger \cup {Core[call[c].seed]}
  /\ call' = [call EXCEPT ![c].seed = @ + 1,
                          ![c].pc = IF call[c].seed < Len(Core) THEN "seed"
                                                               ELSE "partner"]
  /\ UNCHANGED <<partner, journal, raced, fails>>

\* getOrCreateMarketSettlementPartner, then buildSalesJournalLines, which
\* throws at a total it does not split and unless the lines balance: the
\* accounts and the partner are there by then, and stay.
Partner(c) ==
  /\ call[c].pc = "partner"
  /\ partner' = TRUE
  /\ call' = [call EXCEPT ![c] =
                 IF Splits(call[c].total) /\ Balanced(SaleLines(call[c].total))
                   THEN [@ EXCEPT !.pc = "accounts"] ELSE Free]
  /\ UNCHANGED <<ledger, journal, raced, fails>>

ReadAccounts(c) ==
  /\ call[c].pc = "accounts"
  /\ call' = [call EXCEPT ![c].pc = "create",
                          ![c].found = ledger \cap {Receivable, Revenue, Vat}]
  /\ UNCHANGED <<ledger, partner, journal, raced, fails>>

\* The entry with its lines; it throws if an account was not found.
Create(c) ==
  /\ call[c].pc = "create"
  /\ journal' = IF call[c].found = {Receivable, Revenue, Vat}
                  THEN [journal EXCEPT ![call[c].order] =
                          Append(@, SaleLines(call[c].total))]
                  ELSE journal
  /\ call' = [call EXCEPT ![c] = Free]
  /\ UNCHANGED <<ledger, partner, raced, fails>>

\* A query throws or the process exits; the caller may call again.  (If the
\* entry was created and only the answer lost, that is Create.)
Fail(c) ==
  /\ call[c].pc # "free" /\ fails < MaxFails
  /\ fails' = fails + 1
  /\ call' = [call EXCEPT ![c] = Free]
  /\ UNCHANGED <<ledger, partner, journal, raced>>

Next ==
  \E c \in Call :
    \/ \E o \in Order : \E amount \in Amount : Begin(c, o, amount)
    \/ Find(c) \/ Seed(c) \/ Partner(c) \/ ReadAccounts(c) \/ Create(c)
    \/ Fail(c)

Spec == Init /\ [][Next]_vars

-----------------------------------------------------------------------------
(* Properties *)

\* An order has at most one entry, however often it is posted again, after
\* whatever failure, as long as no two calls were posting it at once.
OneEntryUnlessRaced == \A o \in Order \ raced : Len(journal[o]) <= 1

\* Whatever is posted is posted in full: a call whose total is split finds the
\* three accounts, whichever calls seeded them and wherever one of them
\* stopped or was refused, and every entry on file balances.
PostedInFull ==
  /\ \A c \in Call : call[c].pc = "create" => call[c].found = {Receivable, Revenue, Vat}
  /\ \A o \in Order : \A i \in DOMAIN journal[o] : Balanced(journal[o][i])

\* postSalesJournalEntry: the entry that is there is found and reused and "no
\* duplicate is created", whenever it is called.
OneEntryPerOrder == \A o \in Order : Len(journal[o]) <= 1
=============================================================================
