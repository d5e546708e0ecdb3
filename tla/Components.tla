----------------------------- MODULE Components -----------------------------
(* PurchaseOrders, SalesJournal and StatusSweep, side by side.  The three    *)
(* share nothing: a behaviour is one of one of them with the others at rest, *)
(* so that TLC adds their state spaces and does not multiply them.           *)
EXTENDS PurchaseOrders

CONSTANTS Order, Call, Amount, Fraction, NoOrder, MaxFails,
          Sold, Places, SitesOf, Statuses, Window, Unit, Lookback, PageSize, MaxPages, MaxNow

VARIABLES ledger, partner, journal, call, posting, fails,
          market, now, born, status, resume, run, present, pulled, swept, shifted,
          sweepFails

journalVars == <<ledger, partner, journal, call, posting, fails>>
sweepVars == <<market, now, born, status, resume, run, present, pulled, swept,
               shifted, sweepFails>>

Journal == INSTANCE SalesJournal WITH raced <- posting
Sweep == INSTANCE StatusSweep WITH
  Order <- Sold, Rank <- Places, SiteOf <- SitesOf, fails <- sweepFails

ASSUME ComponentsAssumption == Journal!JournalAssumption /\ Sweep!SweepAssumption

ComponentsInit == Init /\ Journal!Init /\ Sweep!Init

PurchaseAtRest == upserts = 0 /\ \A r \in Request : req[r] = Free
JournalAtRest == ledger = {} /\ fails = 0 /\ \A c \in Call : call[c].pc = "free"
SweepAtRest == /\ market = "coupang" /\ now = 0 /\ sweepFails = 0 /\ swept = Sweep!None
               /\ \A o \in Sold : status[o] = 0

PurchaseNext == JournalAtRest /\ SweepAtRest /\ Next
                /\ UNCHANGED <<journalVars, sweepVars>>
JournalNext == PurchaseAtRest /\ SweepAtRest /\ Journal!Next
               /\ UNCHANGED <<vars, sweepVars>>
SweepNext == PurchaseAtRest /\ JournalAtRest /\ Sweep!Next
             /\ UNCHANGED <<vars, journalVars>>

ComponentsSpec ==
  ComponentsInit /\ [][PurchaseNext \/ JournalNext \/ SweepNext]_<<vars, journalVars, sweepVars>>

JournalTypeOK == Journal!TypeOK
OneEntryUnlessRaced == Journal!OneEntryUnlessRaced
PostedInFull == Journal!PostedInFull
OneEntryPerOrder == Journal!OneEntryPerOrder
SweepTypeOK == Sweep!TypeOK
SweptMeansStored == Sweep!SweptMeansStored
=============================================================================
