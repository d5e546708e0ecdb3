-------------------------------- MODULE Seller --------------------------------
(* Connections and what else serves one seller, side by side: NaverOrders,   *)
(* OrderDesk, GsShopImport, NorthStar and PullScript.  They share nothing: a *)
(* behaviour is one of one of them, the others stay at rest, so that TLC     *)
(* adds their state spaces and does not multiply them.                       *)
EXTENDS Connections

CONSTANTS Line, Orders, Window, Lookback, BatchSize, MaxPages, MaxClock, MaxFails,
          Order, Markets, RawStatus, Filter, Pick, None, All, MaxInFlight, MaxClicks,
          MaxSyncPages,
          OrderNo, Sheets, Blank, Spaces, MaxUploads,
          Entries, Quote, Starts, AsOf, Bounds, Months, MonthDays, Grain, Margin,
          Speed, Null,
          MaxPosts, MaxMoves,
          Run, Pages, Lists, Envs, MaxPullFaults

VARIABLES which,   \* the component that is at work
          clock, ver, file, resume, run, seen, swept, fails,
          stored, session, page, call, clicks, pages,
          imported, up,
          journal, deposits, quote, read, posts, moves, missed,
          script, env, files, runs, pullFaults, pulled, damaged

naverVars == <<clock, ver, file, resume, run, seen, swept, fails>>
deskVars == <<stored, session, page, call, clicks, pages>>
sheetVars == <<imported, up>>
metricVars == <<journal, deposits, quote, read, posts, moves, missed>>
scriptVars == <<script, env, files, runs, pullFaults, pulled, damaged>>
allVars == <<which, vars, naverVars, deskVars, sheetVars, metricVars, scriptVars>>

-----------------------------------------------------------------------------
(* The instances *)

Naver == INSTANCE NaverOrders WITH OrderOf <- Orders
Desk == INSTANCE OrderDesk WITH MarketOf <- Markets, MaxPages <- MaxSyncPages
Import == INSTANCE GsShopImport WITH stored <- imported, Sheet <- Sheets
Metrics == INSTANCE NorthStar WITH
  Entry <- Entries, Start <- Starts, Boundaries <- Bounds, Lookback <- Months
Scripts == INSTANCE PullScript WITH
  Listed <- Lists, EnvChoices <- Envs, MaxFaults <- MaxPullFaults,
  file <- files, run <- runs, faults <- pullFaults

ASSUME SellerAssumption ==
       /\ Naver!NaverAssumption /\ Desk!OrderDeskAssumption
       /\ Import!GsShopAssumption /\ Metrics!NorthStarAssumption
       /\ Scripts!PullAssumption

-----------------------------------------------------------------------------
(* One at a time *)

Component == {"conns", "naver", "desk", "import", "metrics", "scripts"}

\* Where there is a choice of initial states, one of them for a component that
\* stays there.
SellerInit ==
  /\ which \in Component
  /\ Metrics!Init
  /\ which # "metrics" =>
       [journal |-> journal, deposits |-> deposits, quote |-> quote] = CHOOSE b \in Starts : TRUE
  /\ Scripts!Init
  /\ which # "scripts" => script = "naver" /\ env = CHOOSE e \in Envs : TRUE
  /\ Init /\ Naver!Init /\ Desk!Init /\ Import!Init

ConnsNext(Step) == /\ which = "conns" /\ Step
                   /\ UNCHANGED <<which, naverVars, deskVars, sheetVars, metricVars, scriptVars>>
NaverNext(Step) == /\ which = "naver" /\ Step
                   /\ UNCHANGED <<which, vars, deskVars, sheetVars, metricVars, scriptVars>>
DeskNext == /\ which = "desk" /\ Desk!Next
            /\ UNCHANGED <<which, vars, naverVars, sheetVars, metricVars, scriptVars>>
ImportNext == /\ which = "import" /\ Import!Next
              /\ UNCHANGED <<which, vars, naverVars, deskVars, metricVars, scriptVars>>
MetricsNext == /\ which = "metrics" /\ Metrics!Next
               /\ UNCHANGED <<which, vars, naverVars, deskVars, sheetVars, scriptVars>>
ScriptsNext == /\ which = "scripts" /\ Scripts!Next
               /\ UNCHANGED <<which, vars, naverVars, deskVars, sheetVars, metricVars>>

SellerNext ==
  \/ ConnsNext(Next) \/ NaverNext(Naver!Next) \/ DeskNext \/ ImportNext
  \/ MetricsNext \/ ScriptsNext

\* With the fairness of Connections and of NaverOrders.
SellerSpec ==
  /\ SellerInit /\ [][SellerNext]_allVars
  /\ WF_allVars(ConnsNext(Tick))
  /\ \A p \in Cycle : WF_allVars(ConnsNext(CycleStep(p)))
  /\ WF_allVars(NaverNext(Naver!RunStep))

SellerTypeOK ==
  CASE which = "conns" -> TypeOK
    [] which = "naver" -> Naver!TypeOK
    [] which = "desk" -> Desk!TypeOK
    [] which = "import" -> Import!TypeOK
    [] which = "metrics" -> Metrics!TypeOK
    [] which = "scripts" -> Scripts!TypeOK
SweptMeansFiled == Naver!SweptMeansFiled
EveryChangeFiled == Naver!EveryChangeFiled
SavedAsShown == Desk!SavedAsShown
TableIsOfFilter == Desk!TableIsOfFilter
ImportedIsItsSheet == Import!ImportedIsItsSheet
AgingIsFifo == Metrics!AgingIsFifo
ThrowsOnlyWhenRaced == Metrics!ThrowsOnlyWhenRaced
HealthWithinAxes == Metrics!HealthWithinAxes
PulledIsKept == Scripts!PulledIsKept
=============================================================================
