----------------------------- MODULE Connections -----------------------------
(***************************************************************************)
(* Connecting a seller to a marketplace beside the sync that uses the      *)
(* connection.  A connect request verifies the credential with the         *)
(* marketplace, seals it and replaces the connection's row; the wizard     *)
(* that sent it then asks for a first sync.  A sync cycle loads and opens  *)
(* every row at once and uses what it loaded, connection by connection,    *)
(* however long that takes.  Meanwhile a marketplace may issue a new       *)
(* credential in place of the one on file.  An action is an activity up to *)
(* its next await.  What a run pulls is the subject of OrderSync.          *)
(***************************************************************************)
EXTENDS Integers, FiniteSets

CONSTANTS
  Seller, Market,   \* a connection is a seller's with a marketplace
  Timer, Manual,    \* the scheduler's cycle; those of POST /api/sync/run
  NoCycle,
  MaxSecret,        \* bound of the model: credentials a marketplace issues
  MaxRequests,      \* bound of the model: connect requests
  MaxCalls,         \* bound of the model: manual cycles
  MaxFaults         \* bound of the model: calls that throw, and exits

Conn == Seller \X Market
Cycle == {Timer} \cup Manual
Secret == 0..MaxSecret          \* 0: mistyped; the others in order of issue
Request == 1..MaxRequests

ASSUME ConnectionsAssumption ==
  /\ Timer \notin Manual /\ NoCycle \notin Cycle
  /\ MaxSecret \in Nat \ {0} /\ MaxRequests \in Nat
  /\ MaxCalls \in Nat /\ MaxFaults \in Nat

VARIABLES
  accepted,   \* the credential each marketplace takes for the seller now
  key,        \* CREDENTIAL_ENC_KEY of the process, in the order they were set
  row,        \* MarketplaceConnection: the sealed credential of each connection
  last,       \* the SyncRun that started last, of each connection
  req,        \* the connect requests
  cyc,        \* the cycles of the sync
  calls,      \* manual cycles so far (bounded by MaxCalls)
  faults,     \* faults so far (bounded by MaxFaults)
  verified    \* history: the credentials a marketplace has called valid

vars == <<accepted, key, row, last, req, cyc, calls, faults, verified>>

-----------------------------------------------------------------------------
(* Data *)

Box == [owner : Conn, key : 0..MaxFaults, secret : Secret]
NoRow == [owner |-> <<>>, key |-> 0, secret |-> 0]
Unreadable == MaxSecret + 1     \* what opens to nothing
NotLoaded == MaxSecret + 2

\* Mutant: the additional data leaves out the marketplace.
SealAs(c, s) == [owner |-> <<c[1], CHOOSE m \in Market : TRUE>>, key |-> key,
                 secret |-> s]

\* EnvelopeCredentialStore.put: encrypted, and bound to the connection.
Seal(c, s) == [owner |-> c, key |-> key, secret |-> s]

\* EnvelopeCredentialStore.get: fails for a box that was sealed for another
\* connection or with another key.
Open(c, box) ==
  IF box.owner = c /\ box.key = key THEN box.secret ELSE Unreadable

\* listActiveConnections: an upsert makes a row active and nothing undoes it.
Active == {c \in Conn : row[c] # NoRow}

\* loadConnections: what it opens of every active row.
Opened == [c \in Conn |-> IF c \in Active THEN Open(c, row[c]) ELSE NotLoaded]

NoRequest(pc) == [pc |-> pc, conn |-> <<>>, secret |-> 0]

\* A cycle: the credentials it has loaded and not used up, the connection it
\* is at, and (history) those whose row was replaced behind it.
Idle == [pc |-> "idle", loaded |-> [c \in Conn |-> NotLoaded], now |-> <<>>,
         replaced |-> {}]

Todo(p) == {c \in Conn : cyc[p].loaded[c] # NotLoaded}

TypeOK ==
  /\ accepted \in [Conn -> 1..MaxSecret]
  /\ key \in 0..MaxFaults
  /\ row \in [Conn -> Box \cup {NoRow}]
  /\ last \in [Conn -> [status : {"none", "running", "success", "failed"},
                        by : Cycle \cup {NoCycle}]]
  /\ req \in [Request -> [pc : {"new", "verify", "upsert", "answered", "done"},
                          conn : Conn \cup {<<>>}, secret : Secret]]
  /\ cyc \in [Cycle -> [pc : {"idle", "load", "next", "fetch"},
                        loaded : [Conn -> Secret \cup {NotLoaded}],
                        now : Conn \cup {<<>>}, replaced : SUBSET Conn]]
  /\ calls \in 0..MaxCalls /\ faults \in 0..MaxFaults
  /\ verified \subseteq Conn \X Secret

Init ==
  /\ accepted = [c \in Conn |-> 1]
  /\ key = 0 /\ row = [c \in Conn |-> NoRow]
  /\ last = [c \in Conn |-> [status |-> "none", by |-> NoCycle]]
  /\ req = [r \in Request |-> NoRequest("new")]
  /\ cyc = [p \in Cycle |-> Idle]
  /\ calls = 0 /\ faults = 0 /\ verified = {}

Fault == faults < MaxFaults /\ faults' = faults + 1

-----------------------------------------------------------------------------
(* Connecting *)

\* The route, its checks passed: verifyCredential is called.
Ask(r, c, s) ==
  /\ req[r].pc = "new" /\ \A k \in 1..(r - 1) : req[k].pc # "new"
  /\ req' = [req EXCEPT ![r] = [pc |-> "verify", conn |-> c, secret |-> s]]
  /\ UNCHANGED <<accepted, key, row, last, cyc, calls, faults, verified>>

\* The marketplace's verdict: yes.
VerifyGood(r) ==
  /\ req[r].pc = "verify" /\ req[r].secret = accepted[req[r].conn]
  /\ verified' = verified \cup {<<req[r].conn, req[r].secret>>}
  /\ req' = [req EXCEPT ![r].pc = "upsert"]
  /\ UNCHANGED <<accepted, key, row, last, cyc, calls, faults>>

\* No: the request is answered 422; no verdict, for the call throws: 500.
\* Nothing is stored.
VerifyBad(r) ==
  /\ req[r].pc = "verify"
  /\ \/ req[r].secret # accepted[req[r].conn] /\ UNCHANGED faults
     \/ Fault
  /\ req' = [req EXCEPT ![r] = NoRequest("done")]
  /\ UNCHANGED <<accepted, key, row, last, cyc, calls, verified>>

\* put and upsertConnection: created, or replaced.
UpsertConnection(r) ==
  LET c == req[r].conn IN
  /\ req[r].pc = "upsert"
  /\ row' = [row EXCEPT ![c] = Seal(c, req[r].secret)]
  /\ req' = [req EXCEPT ![r] = NoRequest("answered")]
  /\ cyc' = [p \in Cycle |-> IF cyc[p].pc \in {"next", "fetch"} /\ c \in Todo(p)
               THEN [cyc[p] EXCEPT !.replaced = @ \cup {c}] ELSE cyc[p]]
  /\ UNCHANGED <<accepted, key, last, calls, faults, verified>>

\* upsertConnection throws: 500.
UpsertFails(r) ==
  /\ req[r].pc = "upsert" /\ Fault
  /\ req' = [req EXCEPT ![r] = NoRequest("done")]
  /\ UNCHANGED <<accepted, key, row, last, cyc, calls, verified>>

\* The wizard, once answered: a first sync, unless the seller has left.
FirstSync(r) ==
  /\ req[r].pc = "answered"
  /\ req' = [req EXCEPT ![r] = NoRequest("done")]
  /\ \/ UNCHANGED <<cyc, calls>>
     \/ \E p \in Manual :
          /\ cyc[p].pc = "idle" /\ calls < MaxCalls
          /\ cyc' = [cyc EXCEPT ![p].pc = "load"]
          /\ calls' = calls + 1
  /\ UNCHANGED <<accepted, key, row, last, faults, verified>>

-----------------------------------------------------------------------------
(* The sync *)

\* The timer fires with no tick under way.
Tick ==
  /\ cyc[Timer].pc = "idle"
  /\ cyc' = [cyc EXCEPT ![Timer].pc = "load"]
  /\ UNCHANGED <<accepted, key, row, last, req, calls, faults, verified>>

\* loadConnections: all active rows opened, or, if one cannot be, no cycle.
Load(p) ==
  /\ cyc[p].pc = "load"
  /\ cyc' = [cyc EXCEPT ![p] =
       IF \E c \in Conn : Opened[c] = Unreadable THEN Idle
       ELSE [@ EXCEPT !.pc = "next", !.loaded = Opened]]
  /\ UNCHANGED <<accepted, key, row, last, req, calls, faults, verified>>

\* syncConnection of one of the connections left, in the order of the rows,
\* which the query leaves open: recordSyncStart.
StartRun(p) ==
  /\ cyc[p].pc = "next"
  /\ \E c \in Todo(p) :
       /\ cyc' = [cyc EXCEPT ![p].pc = "fetch", ![p].now = c]
       /\ last' = [last EXCEPT ![c] = [status |-> "running", by |-> p]]
  /\ UNCHANGED <<accepted, key, row, req, calls, faults, verified>>

\* recordSyncFinish, of a run that need not be the last one any more.
Finished(p, c, outcome) ==
  IF last[c].by = p THEN [last EXCEPT ![c] = [status |-> outcome, by |-> NoCycle]]
  ELSE last

\* The record of a cycle that goes on to the next connection.
OnFrom(p, c) == [cyc EXCEPT ![p].pc = "next", ![p].now = <<>>,
                            ![p].loaded[c] = NotLoaded, ![p].replaced = @ \ {c}]

\* fetchOrders with the credential that was loaded, which the marketplace
\* still takes.
Pull(p) ==
  LET c == cyc[p].now IN
  /\ cyc[p].pc = "fetch" /\ cyc[p].loaded[c] = accepted[c]
  /\ last' = Finished(p, c, "success")
  /\ cyc' = OnFrom(p, c)
  /\ UNCHANGED <<accepted, key, row, req, calls, faults, verified>>

\* Mutant: what a connection throws ends the cycle.
RefusedStops(p) ==
  LET c == cyc[p].now IN
  /\ cyc[p].pc = "fetch"
  /\ \/ cyc[p].loaded[c] # accepted[c] /\ UNCHANGED faults
     \/ Fault
  /\ last' = Finished(p, c, "failed")
  /\ cyc' = [cyc EXCEPT ![p] = Idle]
  /\ UNCHANGED <<accepted, key, row, req, calls, verified>>

\* The marketplace refuses it, or the call throws: the run has failed, and the
\* cycle goes on.
Refused(p) ==
  LET c == cyc[p].now IN
  /\ cyc[p].pc = "fetch"
  /\ \/ cyc[p].loaded[c] # accepted[c] /\ UNCHANGED faults
     \/ Fault
  /\ last' = Finished(p, c, "failed")
  /\ cyc' = OnFrom(p, c)
  /\ UNCHANGED <<accepted, key, row, req, calls, verified>>

\* Mutant: the timer keeps what its cycle ends with for the next one.
EndCycleKept(p) ==
  /\ cyc[p].pc = "next" /\ Todo(p) = {}
  /\ cyc' = [cyc EXCEPT ![p] = [Idle EXCEPT !.loaded = Opened]]
  /\ UNCHANGED <<accepted, key, row, last, req, calls, faults, verified>>

\* syncAll returns, and what it was given is forgotten.
EndCycle(p) ==
  /\ cyc[p].pc = "next" /\ Todo(p) = {}
  /\ cyc' = [cyc EXCEPT ![p] = Idle]
  /\ UNCHANGED <<accepted, key, row, last, req, calls, faults, verified>>

-----------------------------------------------------------------------------
(* The world *)

\* The marketplace issues a new credential; the old one is taken no more.
Reissue(c) ==
  /\ accepted[c] < MaxSecret
  /\ accepted' = [accepted EXCEPT ![c] = @ + 1]
  /\ UNCHANGED <<key, row, last, req, cyc, calls, faults, verified>>

\* The process exits, and starts with the same key or with another.  The rows
\* stay as they are sealed.
Crash ==
  /\ Fault /\ key' \in {key, faults'}
  /\ req' = [r \in Request |-> IF req[r].pc = "new" THEN req[r] ELSE NoRequest("done")]
  /\ cyc' = [p \in Cycle |-> Idle]
  /\ UNCHANGED <<accepted, row, last, calls, verified>>

CycleStep(p) == Load(p) \/ StartRun(p) \/ Pull(p) \/ Refused(p) \/ EndCycle(p)

Next ==
  \/ \E r \in Request :
       \/ \E c \in Conn, s \in Secret : Ask(r, c, s)
       \/ VerifyGood(r) \/ VerifyBad(r) \/ UpsertConnection(r) \/ UpsertFails(r)
       \/ FirstSync(r)
  \/ Tick \/ \E p \in Cycle : CycleStep(p)
  \/ \E c \in Conn : Reissue(c)
  \/ Crash

Spec == Init /\ [][Next]_vars

\* The timer keeps firing, and every call of a cycle ends.
Fairness == WF_vars(Tick) /\ \A p \in Cycle : WF_vars(CycleStep(p))

-----------------------------------------------------------------------------
(* Properties *)

\* What the next cycle opens of a connection is a credential its marketplace
\* has called valid: never one that was mistyped, refused or never judged,
\* nor one sealed for another connection (connectNaverSeller, put, get).
StoredWasVerified ==
  \A c \in Active : row[c].key = key => <<c, Open(c, row[c])>> \in verified

\* A credential other than the one on file is held by a cycle under way alone,
\* and only if the row was replaced after that cycle had loaded it: a cycle
\* that begins after a reconnect was answered uses the new one
\* (loadConnections: opened per cycle, never held between ticks).
StaleOnlyUnderWay ==
  \A p \in Cycle : \A c \in Todo(p) \ cyc[p].replaced :
    cyc[p].loaded[c] = Open(c, row[c])

\* Once a connection has a credential that its marketplace goes on taking, it
\* is shown as synced again and again, whatever happens to the runs of the
\* other connections (syncAll, startScheduler).  But it takes one row, of any
\* seller, that the key does not open, and nobody is synced (loadConnections).
ReconnectHeals ==
  \A c \in Conn :
    <>[]( /\ c \in Active /\ Open(c, row[c]) = accepted[c]
          /\ \A d \in Active : row[d].key = key )
      => []<>(last[c].status = "success")
=============================================================================
