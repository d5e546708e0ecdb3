---------------------------- MODULE Seller_proofs ----------------------------
(***************************************************************************)
(* Seller and its parts, for any constants that meet their assumptions:    *)
(* Connections (types, what is on file was verified, no cycle carries a    *)
(* credential over), NaverOrders and NorthStar (by their own proofs), the  *)
(* orders page and the pull scripts (types and their safety properties).   *)
(***************************************************************************)
EXTENDS Seller, Sequences, FiniteSetTheorems, TLAPS

\* The constants' assumption, and what the two marks of a loaded credential are.
LEMMA Marks ==
  /\ Unreadable \notin Secret /\ NotLoaded \notin Secret /\ Unreadable # NotLoaded
  /\ Timer \in Cycle /\ Manual \subseteq Cycle
BY ConnectionsAssumption DEF Unreadable, NotLoaded, Secret, Cycle

-----------------------------------------------------------------------------
(* Types *)

\* The records of the cycles and the requests, named for the proofs.
CycleState == [pc : {"idle", "load", "next", "fetch"},
               loaded : [Conn -> Secret \cup {NotLoaded}],
               now : Conn \cup {<<>>}, replaced : SUBSET Conn]
RequestState == [pc : {"new", "verify", "upsert", "answered", "done"},
                 conn : Conn \cup {<<>>}, secret : Secret]
RunState == [status : {"none", "running", "success", "failed"}, by : Cycle \cup {NoCycle}]

\* A request that is still to be decided names a connection.
Named == \A r \in Request : req[r].pc \in {"verify", "upsert"} => req[r].conn \in Conn

TypeInv == TypeOK /\ Named

LEMMA IdleType ==
  /\ Idle \in CycleState
  /\ Idle.pc = "idle" /\ Idle.replaced = {} /\ \A c \in Conn : Idle.loaded[c] = NotLoaded
BY DEF Idle, CycleState

\* What a row opens to is a credential or nothing.
LEMMA OpenType ==
  ASSUME TypeOK, NEW c \in Active
  PROVE  Open(c, row[c]) \in Secret \cup {Unreadable}
<1>1. row[c] \in Box
  BY DEF TypeOK, Active
<1>2. QED
  BY <1>1 DEF Open, Box

\* What a cycle that goes on has loaded is credentials.
LEMMA OpenedType ==
  ASSUME TypeOK, ~ \E c \in Conn : Opened[c] = Unreadable
  PROVE  Opened \in [Conn -> Secret \cup {NotLoaded}]
<1>1. ASSUME NEW c \in Conn PROVE Opened[c] \in Secret \cup {NotLoaded}
  BY OpenType DEF Opened
<1>2. QED
  BY <1>1 DEF Opened

\* The start: no row, no request, no cycle.
LEMMA InitType == Init => TypeInv
<1>1. SUFFICES ASSUME Init PROVE TypeInv
  OBVIOUS
<1>2. MaxSecret \in Nat \ {0} /\ MaxRequests \in Nat /\ MaxCalls \in Nat /\ MaxFaults \in Nat
  BY ConnectionsAssumption
<1>3. cyc \in [Cycle -> CycleState]
  BY <1>1, IdleType DEF Init
<1>4. req \in [Request -> RequestState] /\ Named
  BY <1>1, <1>2 DEF Init, NoRequest, Secret, RequestState, Named
<1>5. /\ accepted \in [Conn -> 1..MaxSecret]
      /\ key \in 0..MaxFaults
      /\ row \in [Conn -> Box \cup {NoRow}]
      /\ calls \in 0..MaxCalls /\ faults \in 0..MaxFaults
      /\ verified \subseteq Conn \X Secret
  BY <1>1, <1>2 DEF Init
<1>6. last \in [Conn -> RunState]
  BY <1>1 DEF Init, RunState
<1>7. QED
  BY <1>3, <1>4, <1>5, <1>6 DEF TypeInv, TypeOK, CycleState, RequestState, RunState

\* Going on to the next connection, and the end of a run, keep their types.
LEMMA OnFromType ==
  ASSUME TypeOK, NEW p \in Cycle, NEW c
  PROVE  OnFrom(p, c) \in [Cycle -> CycleState]
<1>1. cyc[p] \in CycleState
  BY DEF TypeOK, CycleState
<1>2. [cyc[p] EXCEPT !.pc = "next", !.now = <<>>, !.loaded[c] = NotLoaded,
                     !.replaced = cyc[p].replaced \ {c}] \in CycleState
  BY <1>1 DEF CycleState
<1>3. QED
  BY <1>2 DEF OnFrom, TypeOK, CycleState

\* A cycle that opens a run turns to its connection.
LEMMA FetchType ==
  ASSUME NEW f \in [Cycle -> CycleState], NEW p \in Cycle, NEW c \in Conn
  PROVE  [f EXCEPT ![p].pc = "fetch", ![p].now = c] \in [Cycle -> CycleState]
<1>1. [f EXCEPT ![p].pc = "fetch"] \in [Cycle -> CycleState]
  BY DEF CycleState
<1>2. ASSUME NEW g \in [Cycle -> CycleState]
      PROVE  [g EXCEPT ![p].now = c] \in [Cycle -> CycleState]
  BY DEF CycleState
<1>3. QED
  BY <1>1, <1>2

\* A run that ends, with either outcome.
LEMMA FinishedType ==
  ASSUME TypeOK, NEW p \in Cycle, NEW c, NEW outcome \in {"success", "failed"}
  PROVE  Finished(p, c, outcome) \in [Conn -> RunState]
BY DEF Finished, TypeOK, RunState

\* A fault that is allowed is counted within its bound.
LEMMA FaultType == TypeOK /\ Fault => faults' \in 0..MaxFaults
BY ConnectionsAssumption DEF TypeOK, Fault

\* A request that ends, in whichever way, and one that goes on.
LEMMA RequestType ==
  ASSUME TypeInv, NEW r \in Request, NEW pc \in {"upsert", "answered", "done"},
         \/ req' = [req EXCEPT ![r] = NoRequest(pc)] /\ pc # "upsert"
         \/ req' = [req EXCEPT ![r].pc = pc] /\ req[r].pc = "verify"
  PROVE  req' \in [Request -> RequestState] /\ Named'
<1>1. NoRequest(pc) \in RequestState
  BY ConnectionsAssumption DEF NoRequest, RequestState, Secret
<1>2. req \in [Request -> RequestState]
  BY DEF TypeInv, TypeOK, RequestState
<1>3. req' \in [Request -> RequestState]
  BY <1>1, <1>2 DEF RequestState
<1>4. Named'
  BY <1>2 DEF TypeInv, Named, NoRequest, RequestState
<1>5. QED
  BY <1>3, <1>4

LEMMA TypeStep == TypeInv /\ [Next]_vars => TypeInv'
<1> SUFFICES ASSUME TypeInv, [Next]_vars PROVE TypeInv'
  OBVIOUS
<1> USE DEF TypeInv
<1>0. /\ req \in [Request -> RequestState] /\ cyc \in [Cycle -> CycleState]
      /\ last \in [Conn -> RunState]
  BY DEF TypeOK, CycleState, RequestState, RunState
<1>1. ASSUME NEW r \in Request, NEW c \in Conn, NEW s \in Secret, Ask(r, c, s)
      PROVE  TypeInv'
  <2>1. req' \in [Request -> RequestState] /\ Named'
    BY <1>0, <1>1 DEF Ask, RequestState, Named
  <2> QED
    BY <1>1, <2>1 DEF Ask, TypeOK, RequestState
<1>2. ASSUME NEW r \in Request, VerifyGood(r) PROVE TypeInv'
  <2>1. req' \in [Request -> RequestState] /\ Named'
    BY <1>2, RequestType DEF VerifyGood
  <2>2. verified' \subseteq Conn \X Secret
    BY <1>0, <1>2 DEF VerifyGood, TypeOK, Named, RequestState
  <2> QED
    BY <1>2, <2>1, <2>2 DEF VerifyGood, TypeOK, RequestState
<1>3. ASSUME NEW r \in Request, VerifyBad(r) PROVE TypeInv'
  <2>1. req' \in [Request -> RequestState] /\ Named'
    BY <1>3, RequestType DEF VerifyBad
  <2>2. faults' \in 0..MaxFaults
    BY <1>3, FaultType DEF VerifyBad, TypeOK
  <2> QED
    BY <1>3, <2>1, <2>2 DEF VerifyBad, TypeOK, RequestState
<1>4. ASSUME NEW r \in Request, UpsertConnection(r) PROVE TypeInv'
  <2>1. req' \in [Request -> RequestState] /\ Named'
    BY <1>4, RequestType DEF UpsertConnection
  <2>2. Seal(req[r].conn, req[r].secret) \in Box
    BY <1>0, <1>4 DEF UpsertConnection, Seal, Box, Named, TypeOK, RequestState
  <2>3. row' \in [Conn -> Box \cup {NoRow}]
    BY <1>4, <2>2 DEF UpsertConnection, TypeOK
  <2>4. req[r].conn \in Conn
    BY <1>4 DEF UpsertConnection, Named
  <2>5. ASSUME NEW p \in Cycle
        PROVE  [cyc[p] EXCEPT !.replaced = cyc[p].replaced \cup {req[r].conn}] \in CycleState
    BY <1>0, <2>4 DEF CycleState
  <2>6. cyc' \in [Cycle -> CycleState]
    BY <1>0, <1>4, <2>5 DEF UpsertConnection
  <2> QED
    BY <1>4, <2>1, <2>3, <2>6 DEF UpsertConnection, TypeOK, RequestState, CycleState
<1>5. ASSUME NEW r \in Request, UpsertFails(r) PROVE TypeInv'
  <2>1. req' \in [Request -> RequestState] /\ Named'
    BY <1>5, RequestType DEF UpsertFails
  <2> QED
    BY <1>5, <2>1, FaultType DEF UpsertFails, TypeOK, RequestState
<1>6. ASSUME NEW r \in Request, FirstSync(r) PROVE TypeInv'
  <2>1. req' \in [Request -> RequestState] /\ Named'
    BY <1>6, RequestType DEF FirstSync
  <2>2. ASSUME NEW p \in Manual, cyc' = [cyc EXCEPT ![p].pc = "load"]
        PROVE  cyc' \in [Cycle -> CycleState]
    <3>1. [cyc[p] EXCEPT !.pc = "load"] \in CycleState
      BY <1>0, Marks DEF CycleState
    <3> QED
      BY <1>0, <2>2, <3>1
  <2>4. cyc' \in [Cycle -> CycleState]
    BY <1>0, <1>6, <2>2 DEF FirstSync
  <2>3. calls' \in 0..MaxCalls
    BY <1>6, ConnectionsAssumption DEF FirstSync, TypeOK
  <2> QED
    BY <1>6, <2>1, <2>3, <2>4 DEF FirstSync, TypeOK, RequestState, CycleState
<1>7. CASE Tick
  <2>1. cyc' \in [Cycle -> CycleState]
    BY <1>0, <1>7 DEF Tick, CycleState
  <2> QED
    BY <1>7, <2>1 DEF Tick, TypeOK, CycleState, Named
<1>8. ASSUME NEW p \in Cycle, Load(p) PROVE TypeInv'
  <2>1. CASE \E c \in Conn : Opened[c] = Unreadable
    BY <1>0, <1>8, <2>1, IdleType DEF Load, TypeOK, CycleState, Named
  <2>2. CASE ~ \E c \in Conn : Opened[c] = Unreadable
    <3>1. [cyc[p] EXCEPT !.pc = "next", !.loaded = Opened] \in CycleState
      BY <1>0, <2>2, OpenedType DEF CycleState
    <3>2. cyc' \in [Cycle -> CycleState]
      BY <1>0, <1>8, <2>2, <3>1 DEF Load
    <3> QED
      BY <1>8, <3>2 DEF Load, TypeOK, CycleState, Named
  <2> QED
    BY <2>1, <2>2
<1>9. ASSUME NEW p \in Cycle, StartRun(p) PROVE TypeInv'
  <2>1. PICK c \in Todo(p) :
          /\ cyc' = [cyc EXCEPT ![p].pc = "fetch", ![p].now = c]
          /\ last' = [last EXCEPT ![c] = [status |-> "running", by |-> p]]
    BY <1>9 DEF StartRun
  <2>2. c \in Conn
    BY <2>1 DEF Todo
  <2>3. cyc' \in [Cycle -> CycleState]
    BY <1>0, <2>1, <2>2, FetchType
  <2>4. last' \in [Conn -> RunState]
    BY <1>0, <2>1 DEF RunState
  <2> QED
    BY <1>9, <2>3, <2>4 DEF StartRun, TypeOK, CycleState, RunState, Named
<1>10. ASSUME NEW p \in Cycle, Pull(p) PROVE TypeInv'
  <2>1. cyc' \in [Cycle -> CycleState] /\ last' \in [Conn -> RunState]
    BY <1>10, OnFromType, FinishedType DEF Pull
  <2> QED
    BY <1>10, <2>1 DEF Pull, TypeOK, CycleState, RunState, Named
<1>11. ASSUME NEW p \in Cycle, Refused(p) PROVE TypeInv'
  <2>1. cyc' \in [Cycle -> CycleState] /\ last' \in [Conn -> RunState]
    BY <1>11, OnFromType, FinishedType DEF Refused
  <2>2. faults' \in 0..MaxFaults
    BY <1>11, FaultType DEF Refused, TypeOK
  <2> QED
    BY <1>11, <2>1, <2>2 DEF Refused, TypeOK, CycleState, RunState, Named
<1>12. ASSUME NEW p \in Cycle, EndCycle(p) PROVE TypeInv'
  <2>1. cyc' \in [Cycle -> CycleState]
    BY <1>0, <1>12, IdleType DEF EndCycle
  <2> QED
    BY <1>12, <2>1 DEF EndCycle, TypeOK, CycleState, Named
<1>13. ASSUME NEW c \in Conn, Reissue(c) PROVE TypeInv'
  <2>1. accepted' \in [Conn -> 1..MaxSecret]
    BY <1>13, ConnectionsAssumption DEF Reissue, TypeOK
  <2> QED
    BY <1>13, <2>1 DEF Reissue, TypeOK, Named
<1>14. CASE Crash
  <2>1. req' \in [Request -> RequestState] /\ Named'
    BY <1>0, <1>14, ConnectionsAssumption DEF Crash, NoRequest, RequestState, Secret, Named
  <2>2. cyc' \in [Cycle -> CycleState]
    BY <1>14, IdleType DEF Crash
  <2>3. faults' \in 0..MaxFaults /\ key' \in 0..MaxFaults
    BY <1>14, FaultType DEF Crash, TypeOK
  <2> QED
    BY <1>14, <2>1, <2>2, <2>3 DEF Crash, TypeOK, RequestState, CycleState
<1>15. CASE UNCHANGED vars
  BY <1>15 DEF vars, TypeOK, Named
<1> QED
  BY <1>1, <1>2, <1>3, <1>4, <1>5, <1>6, <1>7, <1>8, <1>9, <1>10, <1>11, <1>12, <1>13,
     <1>14, <1>15 DEF Next, CycleStep

\* Every variable keeps its type.
THEOREM TypeCorrect == Spec => []TypeOK
<1>1. Init => TypeInv
  BY InitType
<1>2. TypeInv /\ [Next]_vars => TypeInv'
  BY TypeStep
<1>3. TypeInv => TypeOK
  BY DEF TypeInv
<1> QED
  BY <1>1, <1>2, <1>3, PTL DEF Spec

-----------------------------------------------------------------------------
(* What is on file *)

\* What is put is what was verified, and it is sealed for its own connection,
\* be it with the key of now or with an earlier one.
Sealed ==
  /\ \A c \in Active : row[c].owner = c /\ <<c, row[c].secret>> \in verified
  /\ \A r \in Request : req[r].pc = "upsert" => <<req[r].conn, req[r].secret>> \in verified

\* A step that leaves rows and verdicts alone keeps what is sealed, if no
\* request comes to its upsert.
LEMMA SealedKept ==
  ASSUME Sealed, UNCHANGED <<row, verified>>,
         \A r \in Request : req'[r].pc = "upsert" => req'[r] = req[r]
  PROVE  Sealed'
BY DEF Sealed, Active

LEMMA SealedStep == TypeInv /\ Sealed /\ [Next]_vars => Sealed'
<1> SUFFICES ASSUME TypeInv, Sealed, [Next]_vars PROVE Sealed'
  OBVIOUS
<1>0. req \in [Request -> RequestState]
  BY DEF TypeInv, TypeOK, RequestState
<1>1. ASSUME NEW r \in Request, NEW c \in Conn, NEW s \in Secret, Ask(r, c, s)
      PROVE  Sealed'
  BY <1>0, <1>1, SealedKept DEF Ask
<1>2. ASSUME NEW r \in Request, VerifyGood(r) PROVE Sealed'
  <2>1. verified' = verified \cup {<<req[r].conn, req[r].secret>>} /\ row' = row
    BY <1>2 DEF VerifyGood
  <2>2. /\ req'[r].conn = req[r].conn /\ req'[r].secret = req[r].secret
        /\ \A q \in Request : q # r => req'[q] = req[q]
    BY <1>0, <1>2 DEF VerifyGood, RequestState
  <2> QED
    BY <2>1, <2>2 DEF Sealed, Active
<1>3. ASSUME NEW r \in Request, VerifyBad(r) PROVE Sealed'
  BY <1>0, <1>3, SealedKept DEF VerifyBad, NoRequest
<1>4. ASSUME NEW r \in Request, UpsertConnection(r) PROVE Sealed'
  <2>1. /\ row'[req[r].conn] = Seal(req[r].conn, req[r].secret)
        /\ \A c \in Conn : c # req[r].conn => row'[c] = row[c]
        /\ verified' = verified
    BY <1>4 DEF UpsertConnection, TypeInv, TypeOK, Named
  <2>2. <<req[r].conn, req[r].secret>> \in verified
    BY <1>4 DEF UpsertConnection, Sealed
  <2>3. \A q \in Request : req'[q].pc = "upsert" => req'[q] = req[q]
    BY <1>0, <1>4 DEF UpsertConnection, NoRequest
  <2> QED
    BY <2>1, <2>2, <2>3 DEF Sealed, Active, Seal
<1>5. ASSUME NEW r \in Request, UpsertFails(r) PROVE Sealed'
  BY <1>0, <1>5, SealedKept DEF UpsertFails, NoRequest
<1>6. ASSUME NEW r \in Request, FirstSync(r) PROVE Sealed'
  BY <1>0, <1>6, SealedKept DEF FirstSync, NoRequest
<1>7. CASE Tick
  BY <1>7, SealedKept DEF Tick
<1>8. ASSUME NEW p \in Cycle, CycleStep(p) PROVE Sealed'
  BY <1>8, SealedKept DEF CycleStep, Load, StartRun, Pull, Refused, EndCycle
<1>9. ASSUME NEW c \in Conn, Reissue(c) PROVE Sealed'
  BY <1>9, SealedKept DEF Reissue
<1>10. CASE Crash
  BY <1>0, <1>10, SealedKept DEF Crash, NoRequest
<1>11. CASE UNCHANGED vars
  BY <1>11, SealedKept DEF vars
<1> QED
  BY <1>1, <1>2, <1>3, <1>4, <1>5, <1>6, <1>7, <1>8, <1>9, <1>10, <1>11 DEF Next

\* The credential of every connection that the process can open has been called
\* valid by its marketplace, for any number of connect requests.
THEOREM StoredIsVerified == Spec => []StoredWasVerified
<1>1. Init => TypeInv /\ Sealed
  BY InitType DEF Init, Sealed, Active, NoRequest
<1>2. TypeInv /\ Sealed /\ [Next]_vars => (TypeInv /\ Sealed)'
  BY TypeStep, SealedStep
<1>3. Sealed => StoredWasVerified
  BY DEF Sealed, StoredWasVerified, Open
<1> QED
  BY <1>1, <1>2, <1>3, PTL DEF Spec

-----------------------------------------------------------------------------
(* What a cycle holds *)

\* A cycle that has not loaded holds nothing, and none holds a credential that
\* differs from its row's, unless the row was replaced in the meantime.
Empty(p) == cyc[p].pc \in {"idle", "load"} => Todo(p) = {}
Current(p) == \A c \in Todo(p) \ cyc[p].replaced : cyc[p].loaded[c] = Open(c, row[c])

Fresh == \A p \in Cycle : Empty(p) /\ Current(p)

\* A cycle that is left alone keeps both, if the rows are too.
LEMMA FreshKept ==
  ASSUME Fresh, NEW p \in Cycle, cyc'[p] = cyc[p], UNCHANGED <<row, key>>
  PROVE  Empty(p)' /\ Current(p)'
BY DEF Fresh, Empty, Current, Todo, Open

\* So does one that is at rest.
LEMMA RestIsFresh ==
  ASSUME NEW p \in Cycle, cyc'[p] = Idle
  PROVE  Empty(p)' /\ Current(p)'
BY IdleType DEF Empty, Current, Todo

\* The cycle that takes a step; the others keep theirs.
LEMMA CycleFresh ==
  ASSUME TypeInv, Fresh, NEW p \in Cycle, CycleStep(p)
  PROVE  Empty(p)' /\ Current(p)'
<1>0. cyc \in [Cycle -> CycleState] /\ row' = row /\ key' = key
  BY DEF TypeInv, TypeOK, CycleState, CycleStep, Load, StartRun, Pull, Refused, EndCycle
<1>1. CASE Load(p)
  <2>1. CASE cyc'[p] = Idle
    BY <2>1, RestIsFresh
  <2>2. CASE cyc'[p] # Idle
    <3>1. cyc' = [cyc EXCEPT ![p] = [cyc[p] EXCEPT !.pc = "next", !.loaded = Opened]]
      BY <1>0, <1>1, <2>2 DEF Load
    <3>2. cyc'[p].pc = "next" /\ cyc'[p].loaded = Opened
      BY <1>0, <3>1 DEF CycleState
    <3> QED
      BY <1>0, <3>2 DEF Empty, Current, Todo, Opened, Open
  <2> QED
    BY <2>1, <2>2
<1>2. CASE StartRun(p)
  <2>1. PICK c : cyc' = [cyc EXCEPT ![p].pc = "fetch", ![p].now = c]
    BY <1>2 DEF StartRun
  <2>2. /\ cyc'[p].pc = "fetch" /\ cyc'[p].loaded = cyc[p].loaded
        /\ cyc'[p].replaced = cyc[p].replaced
    BY <1>0, <2>1 DEF CycleState
  <2> QED
    BY <1>0, <2>2 DEF Fresh, Empty, Current, Todo, Open
<1>3. CASE Pull(p) \/ Refused(p)
  <2>1. PICK c : cyc' = OnFrom(p, c)
    BY <1>3 DEF Pull, Refused
  <2>2. /\ cyc'[p].pc = "next"
        /\ cyc'[p].loaded = [cyc[p].loaded EXCEPT ![c] = NotLoaded]
        /\ cyc'[p].replaced = cyc[p].replaced \ {c}
    BY <1>0, <2>1 DEF OnFrom, CycleState
  <2>3. \A d \in Conn : cyc'[p].loaded[d] # NotLoaded =>
          d # c /\ cyc'[p].loaded[d] = cyc[p].loaded[d]
    BY <1>0, <2>2 DEF CycleState
  <2> QED
    BY <1>0, <2>2, <2>3 DEF Fresh, Empty, Current, Todo, Open
<1>4. CASE EndCycle(p)
  BY <1>0, <1>4, RestIsFresh DEF EndCycle
<1> QED
  BY <1>1, <1>2, <1>3, <1>4 DEF CycleStep

\* A cycle step is of one cycle.
LEMMA OthersKept ==
  ASSUME TypeInv, NEW p \in Cycle, CycleStep(p), NEW q \in Cycle, q # p
  PROVE  cyc'[q] = cyc[q] /\ UNCHANGED <<row, key>>
BY DEF CycleStep, Load, StartRun, Pull, Refused, EndCycle, OnFrom, TypeInv, TypeOK

LEMMA FreshStep == TypeInv /\ Fresh /\ [Next]_vars => Fresh'
<1> SUFFICES ASSUME TypeInv, Fresh, [Next]_vars, NEW p \in Cycle
             PROVE  Empty(p)' /\ Current(p)'
  BY DEF Fresh
<1>0. cyc \in [Cycle -> CycleState]
  BY DEF TypeInv, TypeOK, CycleState
<1>1. CASE UNCHANGED <<cyc, row, key>>
  BY <1>1, FreshKept
<1>2. ASSUME NEW r \in Request, UpsertConnection(r) PROVE Empty(p)' /\ Current(p)'
  <2>1. /\ cyc'[p].pc = cyc[p].pc /\ cyc'[p].loaded = cyc[p].loaded
        /\ cyc'[p].replaced = IF cyc[p].pc \in {"next", "fetch"} /\ req[r].conn \in Todo(p)
                                THEN cyc[p].replaced \cup {req[r].conn}
                                ELSE cyc[p].replaced
    BY <1>0, <1>2 DEF UpsertConnection, CycleState
  <2>2. cyc[p].pc \in {"idle", "load", "next", "fetch"}
    BY <1>0 DEF CycleState
  <2>3. \A c \in Conn : c # req[r].conn => row'[c] = row[c]
    BY <1>2 DEF UpsertConnection, TypeInv, TypeOK
  <2>4. key' = key
    BY <1>2 DEF UpsertConnection
  <2>5. Empty(p)'
    BY <2>1 DEF Fresh, Empty, Todo
  <2>6. ASSUME NEW c \in Todo(p)', c \notin cyc'[p].replaced
        PROVE  c \in Todo(p) \ cyc[p].replaced /\ c # req[r].conn
    BY <2>1, <2>2, <2>6 DEF Fresh, Empty, Todo
  <2>7. Current(p)'
    BY <2>1, <2>3, <2>4, <2>6 DEF Fresh, Current, Todo, Open
  <2> QED
    BY <2>5, <2>7
<1>3. ASSUME NEW q \in Cycle, q = p => cyc[p].pc = "idle", cyc' = [cyc EXCEPT ![q].pc = "load"],
             UNCHANGED <<row, key>>
      PROVE  Empty(p)' /\ Current(p)'
  <2>1. cyc'[p].loaded = cyc[p].loaded /\ cyc'[p].replaced = cyc[p].replaced
    BY <1>0, <1>3 DEF CycleState
  <2>2. cyc'[p] = cyc[p] \/ Todo(p) = {}
    BY <1>0, <1>3 DEF Fresh, Empty
  <2> QED
    BY <1>3, <2>1, <2>2, FreshKept DEF Empty, Current, Todo
<1>4. ASSUME NEW r \in Request, FirstSync(r) PROVE Empty(p)' /\ Current(p)'
  BY <1>1, <1>3, <1>4, Marks DEF FirstSync
<1>5. CASE Tick
  BY <1>3, <1>5, Marks DEF Tick
<1>6. ASSUME NEW q \in Cycle, CycleStep(q) PROVE Empty(p)' /\ Current(p)'
  BY <1>6, CycleFresh, OthersKept, FreshKept
<1>7. CASE Crash
  BY <1>7, RestIsFresh DEF Crash
<1>8. CASE \/ \E r \in Request : \/ \E c \in Conn, s \in Secret : Ask(r, c, s)
                               \/ VerifyGood(r) \/ VerifyBad(r) \/ UpsertFails(r)
           \/ \E c \in Conn : Reissue(c)
  BY <1>1, <1>8 DEF Ask, VerifyGood, VerifyBad, UpsertFails, Reissue
<1>9. CASE UNCHANGED vars
  BY <1>1, <1>9 DEF vars
<1> QED
  BY <1>1, <1>2, <1>4, <1>5, <1>6, <1>7, <1>8, <1>9 DEF Next

\* No credential that was replaced outlives the cycle that had loaded it, for
\* any number of cycles, reconnects and exits.
THEOREM StaleIsUnderWay == Spec => []StaleOnlyUnderWay
<1>1. Init => TypeInv /\ Fresh
  BY InitType, IdleType DEF Init, Fresh, Empty, Current, Todo
<1>2. TypeInv /\ Fresh /\ [Next]_vars => (TypeInv /\ Fresh)'
  BY TypeStep, FreshStep
<1>3. Fresh => StaleOnlyUnderWay
  BY DEF Fresh, Current, StaleOnlyUnderWay
<1> QED
  BY <1>1, <1>2, <1>3, PTL DEF Spec

-----------------------------------------------------------------------------
(* Naver's orders, by the proofs about NaverOrders *)

Changes == INSTANCE NaverOrders_proofs WITH OrderOf <- Orders

\* The two instances of NaverOrders are of one module and one substitution.
LEMMA SameNaver ==
  /\ Naver!Init => Changes!Init
  /\ [Naver!Next]_<<clock, ver, file, resume, run, seen, swept, fails>>
       => [Changes!Next]_<<clock, ver, file, resume, run, seen, swept, fails>>
  /\ Naver!NaverAssumption => Changes!NaverAssumption
<1>1. Naver!Init => Changes!Init
  BY DEF Naver!Init, Changes!Init, Naver!Idle, Changes!Idle, Naver!NoCursor, Changes!NoCursor
<1>2. [Naver!Next]_<<clock, ver, file, resume, run, seen, swept, fails>>
        => [Changes!Next]_<<clock, ver, file, resume, run, seen, swept, fails>>
  <2>1. Naver!RunStep => Changes!RunStep
    BY DEF Naver!RunStep, Changes!RunStep, Naver!Begin, Changes!Begin, Naver!AskStatuses,
           Changes!AskStatuses, Naver!AnswerStatuses, Changes!AnswerStatuses,
           Naver!QueryDetails, Changes!QueryDetails, Naver!EndFetch, Changes!EndFetch,
           Naver!UpsertOrder, Changes!UpsertOrder, Naver!EndPage, Changes!EndPage,
           Naver!Idle, Changes!Idle, Naver!NoCursor, Changes!NoCursor, Naver!Since,
           Changes!Since, Naver!WindowEnd, Changes!WindowEnd, Naver!Answers, Changes!Answers,
           Naver!Changed, Changes!Changed, Naver!NextCursor, Changes!NextCursor,
           Naver!Batches, Changes!Batches, Naver!Normalize, Changes!Normalize,
           Naver!LinesOf, Changes!LinesOf, Naver!PagesLeft, Changes!PagesLeft,
           Naver!Cardinality, Changes!Cardinality
  <2>2. Naver!Fail => Changes!Fail
    BY DEF Naver!Fail, Changes!Fail, Naver!Idle, Changes!Idle, Naver!NoCursor,
           Changes!NoCursor
  <2>3. \A l \in Line : Naver!Change(l) => Changes!Change(l)
    BY DEF Naver!Change, Changes!Change
  <2>4. Naver!TimePasses => Changes!TimePasses
    BY DEF Naver!TimePasses, Changes!TimePasses
  <2> QED
    BY <2>1, <2>2, <2>3, <2>4 DEF Naver!Next, Changes!Next
<1>3. Naver!NaverAssumption => Changes!NaverAssumption
  BY DEF Naver!NaverAssumption, Changes!NaverAssumption, Naver!IsFiniteSet,
         Changes!IsFiniteSet
<1> QED
  BY <1>1, <1>2, <1>3

LEMMA NaverSpec == Naver!Spec => Changes!Spec
BY SameNaver, PTL DEF Naver!Spec, Changes!Spec, Naver!vars, Changes!vars

\* No change of the lookback is lost between two windows, a list that was cut
\* off and its rest, two batches, or a query and a change of its line
\* (fetchOrders, upsertOrders, the engine's cursor).
THEOREM Filed == Naver!Spec => []SweptMeansFiled
<1>1. Changes!NaverAssumption
  BY SellerAssumption, SameNaver
<1>2. Changes!Spec => []Changes!SweptMeansFiled
  BY <1>1, Changes!Filed
<1>3. Changes!SweptMeansFiled => SweptMeansFiled
  BY DEF Changes!SweptMeansFiled, SweptMeansFiled, Naver!SweptMeansFiled, Changes!Passed,
         Naver!Passed, Changes!Since, Naver!Since
<1> QED
  BY <1>2, <1>3, NaverSpec, PTL

\* The types of the fetches and of the file.
LEMMA NaverTypes == Naver!Spec => []Naver!TypeOK
<1>1. Changes!Spec => []Changes!TypeOK
  BY SellerAssumption, SameNaver, Changes!NaverTypeCorrect
<1>2. Changes!TypeOK => Naver!TypeOK
  BY DEF Changes!TypeOK, Naver!TypeOK, Changes!Cursor, Naver!Cursor, Changes!Normalized,
         Naver!Normalized
<1> QED
  BY <1>1, <1>2, NaverSpec, PTL

-----------------------------------------------------------------------------
(* The metrics, by the proofs about NorthStar *)

Figures == INSTANCE NorthStar_proofs WITH
  Entry <- Entries, Start <- Starts, Boundaries <- Bounds, Lookback <- Months

\* The two instances of NorthStar are of one module and one substitution.
LEMMA SameMetrics ==
  /\ Metrics!Init => Figures!Init
  /\ [Metrics!Next]_<<journal, deposits, quote, read, posts, moves, missed>>
       => [Figures!Next]_<<journal, deposits, quote, read, posts, moves, missed>>
  /\ Metrics!NorthStarAssumption => Figures!NorthStarAssumption
<1>1. Metrics!Init => Figures!Init
  BY DEF Metrics!Init, Figures!Init, Metrics!Query, Figures!Query
<1>2. [Metrics!Next]_<<journal, deposits, quote, read, posts, moves, missed>>
        => [Figures!Next]_<<journal, deposits, quote, read, posts, moves, missed>>
  <2>1. Metrics!SentCount = Figures!SentCount /\ Metrics!AcceptedCount = Figures!AcceptedCount
    BY DEF Metrics!SentCount, Figures!SentCount, Metrics!AcceptedCount, Figures!AcceptedCount,
           Metrics!Cardinality, Figures!Cardinality
  <2>2. /\ Metrics!OfSide(journal, "DEBIT") = Figures!OfSide(journal, "DEBIT")
        /\ \A S : Metrics!Restrict(journal, S) = Figures!Restrict(journal, S)
    BY DEF Metrics!OfSide, Figures!OfSide, Metrics!Restrict, Figures!Restrict
  <2>3. \A q : Metrics!AnswerQuery(q) => Figures!AnswerQuery(q)
    BY <2>1, <2>2 DEF Metrics!AnswerQuery, Figures!AnswerQuery
  <2>4. (Metrics!PostEntry => Figures!PostEntry) /\ (Metrics!Deposit => Figures!Deposit)
    BY DEF Metrics!PostEntry, Figures!PostEntry, Metrics!Deposit, Figures!Deposit
  <2>5. \A q : Metrics!MoveQuote(q) => Figures!MoveQuote(q)
    BY DEF Metrics!MoveQuote, Figures!MoveQuote
  <2> QED
    BY <2>3, <2>4, <2>5 DEF Metrics!Next, Figures!Next, Metrics!Query, Figures!Query
<1>3. Metrics!NorthStarAssumption => Figures!NorthStarAssumption
  BY DEF Metrics!NorthStarAssumption, Figures!NorthStarAssumption, Metrics!IsFiniteSet,
         Figures!IsFiniteSet, Metrics!Status, Figures!Status, Metrics!Full, Figures!Full
<1> QED
  BY <1>1, <1>2, <1>3

LEMMA MetricsSpec == Metrics!Spec => Figures!Spec
BY SameMetrics, PTL DEF Metrics!Spec, Figures!Spec, Metrics!vars, Figures!vars

\* computeNorthStar finds no more quotes accepted than sent but for those that
\* were sent between its two counts.
THEOREM ThrownWhenRaced == Metrics!Spec => []ThrowsOnlyWhenRaced
<1>1. Figures!NorthStarAssumption
  BY SellerAssumption, SameMetrics
<1>2. Figures!Spec => []Figures!ThrowsOnlyWhenRaced
  BY <1>1, Figures!ThrownWhenRaced
<1>3. Figures!ThrowsOnlyWhenRaced => ThrowsOnlyWhenRaced
  BY DEF Figures!ThrowsOnlyWhenRaced, ThrowsOnlyWhenRaced, Metrics!ThrowsOnlyWhenRaced,
         Figures!Done, Metrics!Done, Figures!Query, Metrics!Query, Metrics!Cardinality,
         Figures!Cardinality
<1> QED
  BY <1>2, <1>3, MetricsSpec, PTL

\* The two instances agree on the operators of the library,
LEMMA SameTools ==
  /\ \A f, S : Metrics!SumFunctionOnSet(f, S) = Figures!SumFunctionOnSet(f, S)
  /\ \A S : Metrics!Min(S) = Figures!Min(S)
  /\ \A S : Metrics!Max(S) = Figures!Max(S)
  /\ \A S : Metrics!Cardinality(S) = Figures!Cardinality(S)
  /\ \A f : Metrics!Range(f) = Figures!Range(f)
<1>1. \A f, S : Metrics!SumFunctionOnSet(f, S) = Figures!SumFunctionOnSet(f, S)
  BY DEF Metrics!SumFunctionOnSet, Figures!SumFunctionOnSet, Metrics!FoldFunctionOnSet,
         Figures!FoldFunctionOnSet, Metrics!MapThenFoldSet, Figures!MapThenFoldSet
<1>2. \A S : Metrics!Min(S) = Figures!Min(S)
  BY DEF Metrics!Min, Figures!Min
<1>3. \A S : Metrics!Max(S) = Figures!Max(S)
  BY DEF Metrics!Max, Figures!Max
<1>4. \A S : Metrics!Cardinality(S) = Figures!Cardinality(S)
  BY DEF Metrics!Cardinality, Figures!Cardinality
<1>5. \A f : Metrics!Range(f) = Figures!Range(f)
  BY DEF Metrics!Range, Figures!Range
<1> QED
  BY <1>1, <1>2, <1>3, <1>4, <1>5

\* on what is read from the books and left of the invoices,
LEMMA SameBooks ==
  /\ \A lines, side : Metrics!OfSide(lines, side) = Figures!OfSide(lines, side)
  /\ \A lines, p : Metrics!LinesOf(lines, p) = Figures!LinesOf(lines, p)
  /\ \A lines, those : Metrics!Total(lines, those) = Figures!Total(lines, those)
  /\ \A lines, own : Metrics!Invoices(lines, own) = Figures!Invoices(lines, own)
  /\ \A lines, own : Metrics!Credits(lines, own) = Figures!Credits(lines, own)
  /\ \A lines, i, j : Metrics!Before(lines, i, j) = Figures!Before(lines, i, j)
  /\ \A lines, those : Metrics!Latest(lines, those) = Figures!Latest(lines, those)
  /\ \A lines, own : Metrics!Pool(lines, own) = Figures!Pool(lines, own)
  /\ \A lines, own : Metrics!Remaining(lines, own) = Figures!Remaining(lines, own)
  /\ \A line : Metrics!AgeOf(line) = Figures!AgeOf(line)
  /\ \A lines, own, i : Metrics!OpenOf(lines, own, i) = Figures!OpenOf(lines, own, i)
  /\ \A lines, own, lo, hi : Metrics!Aged(lines, own, lo, hi) = Figures!Aged(lines, own, lo, hi)
<1>1. \A lines, side : Metrics!OfSide(lines, side) = Figures!OfSide(lines, side)
  BY DEF Metrics!OfSide, Figures!OfSide
<1>2. \A lines, p : Metrics!LinesOf(lines, p) = Figures!LinesOf(lines, p)
  BY DEF Metrics!LinesOf, Figures!LinesOf
<1>3. \A lines, those : Metrics!Total(lines, those) = Figures!Total(lines, those)
  BY SameTools DEF Metrics!Total, Figures!Total
<1>4. \A lines, own : Metrics!Invoices(lines, own) = Figures!Invoices(lines, own)
  BY <1>1 DEF Metrics!Invoices, Figures!Invoices
<1>5. \A lines, own : Metrics!Credits(lines, own) = Figures!Credits(lines, own)
  BY <1>1, <1>3 DEF Metrics!Credits, Figures!Credits
<1>6. \A lines, i, j : Metrics!Before(lines, i, j) = Figures!Before(lines, i, j)
  BY DEF Metrics!Before, Figures!Before
<1>7. \A lines, those : Metrics!Latest(lines, those) = Figures!Latest(lines, those)
  BY <1>6 DEF Metrics!Latest, Figures!Latest
<1>8. \A lines, own : Metrics!Pool(lines, own) = Figures!Pool(lines, own)
  <2>1. SUFFICES ASSUME NEW lines, NEW own
                 PROVE  Metrics!Pool(lines, own) = Figures!Pool(lines, own)
    OBVIOUS
  <2>2. \A S : Metrics!Min(S) = Figures!Min(S)
    BY SameTools
  <2>3. /\ Metrics!Invoices(lines, own) = Figures!Invoices(lines, own)
        /\ Metrics!Credits(lines, own) = Figures!Credits(lines, own)
        /\ \A those : Metrics!Latest(lines, those) = Figures!Latest(lines, those)
    BY <1>4, <1>5, <1>7
  <2> DEFINE PaidM(pool) ==
        [paid \in SUBSET Metrics!Invoices(lines, own) |->
          IF paid = {} THEN Metrics!Credits(lines, own)
          ELSE LET i == Metrics!Latest(lines, paid)
               IN pool[paid \ {i}] - Metrics!Min({lines[i].amount, pool[paid \ {i}]})]
  <2> DEFINE PaidF(pool) ==
        [paid \in SUBSET Figures!Invoices(lines, own) |->
          IF paid = {} THEN Figures!Credits(lines, own)
          ELSE LET i == Figures!Latest(lines, paid)
               IN pool[paid \ {i}] - Figures!Min({lines[i].amount, pool[paid \ {i}]})]
  <2>4. \A pool : PaidM(pool) = PaidF(pool)
    BY <2>2, <2>3
  <2>5. Metrics!Pool(lines, own) = CHOOSE pool : pool = PaidM(pool)
    BY DEF Metrics!Pool
  <2>6. Figures!Pool(lines, own) = CHOOSE pool : pool = PaidF(pool)
    BY DEF Figures!Pool
  <2> HIDE DEF PaidM, PaidF
  <2> QED
    BY <2>4, <2>5, <2>6
<1>9. \A lines, own : Metrics!Remaining(lines, own) = Figures!Remaining(lines, own)
  BY <1>4, <1>6, <1>8, SameTools DEF Metrics!Remaining, Figures!Remaining
<1>10. \A line : Metrics!AgeOf(line) = Figures!AgeOf(line)
  BY SameTools DEF Metrics!AgeOf, Figures!AgeOf
<1>11. \A lines, own, i : Metrics!OpenOf(lines, own, i) = Figures!OpenOf(lines, own, i)
  BY <1>3, SameTools DEF Metrics!OpenOf, Figures!OpenOf
<1>12. \A lines, own, lo, hi :
         Metrics!Aged(lines, own, lo, hi)
           = Figures!Aged(lines, own, lo, hi)
  BY <1>10 DEF Metrics!Aged, Figures!Aged
<1> QED
  BY <1>1, <1>2, <1>3, <1>4, <1>5, <1>6, <1>7, <1>8, <1>9, <1>10, <1>11, <1>12

\* on the aging,
LEMMA SameAging ==
  /\ \A age : Metrics!BucketOf(age) = Figures!BucketOf(age)
  /\ Metrics!Buckets = Figures!Buckets
  /\ \A lines, own : Metrics!PartnerAging(lines, own) = Figures!PartnerAging(lines, own)
  /\ \A lines : Metrics!ComputeAging(lines) = Figures!ComputeAging(lines)
<1>1. \A age : Metrics!BucketOf(age) = Figures!BucketOf(age)
  BY SameTools DEF Metrics!BucketOf, Figures!BucketOf
<1>2. Metrics!Buckets = Figures!Buckets
  BY DEF Metrics!Buckets, Figures!Buckets
<1>3. \A lines, own : Metrics!PartnerAging(lines, own) = Figures!PartnerAging(lines, own)
  BY <1>1, <1>2, SameBooks, SameTools DEF Metrics!PartnerAging, Figures!PartnerAging
<1>0. Metrics!Full = Figures!Full
  BY DEF Metrics!Full, Figures!Full
<1>4. \A lines : Metrics!ComputeAging(lines) = Figures!ComputeAging(lines)
  <2> SUFFICES ASSUME NEW lines PROVE Metrics!ComputeAging(lines) = Figures!ComputeAging(lines)
    OBVIOUS
  <2> DEFINE partners == {lines[i].partner : i \in DOMAIN lines}
             one == [p \in partners |-> Metrics!PartnerAging(lines, Metrics!LinesOf(lines, p))]
             other == [p \in partners |->
                         Figures!PartnerAging(lines, Figures!LinesOf(lines, p))]
             owe(of, bs) == {p \in partners : \E b \in bs : of[p][b] > 0}
             part(of, owing, b) == [p \in owing |-> of[p][b]]
             sums1(of, bs) ==
               [b \in bs |-> Metrics!SumFunctionOnSet(part(of, owe(of, bs), b), owe(of, bs))]
             sums2(of, bs) ==
               [b \in bs |-> Figures!SumFunctionOnSet(part(of, owe(of, bs), b), owe(of, bs))]
             figures(of, bs, sums, open) ==
               [byPartner |-> [p \in owe(of, bs) |-> of[p]], buckets |-> sums, open |-> open,
                overShare |-> IF open = 0 THEN Null
                              ELSE (Figures!Full * sums[Len(Bounds) + 1]) \div open]
  <2>1. one = other
    BY <1>3, SameBooks
  <2>2. \A of, bs : sums1(of, bs) = sums2(of, bs)
    <3> HIDE DEF owe, part
    <3> QED
      BY SameTools
  <2>3. Metrics!ComputeAging(lines)
          = figures(one, Metrics!Buckets, sums1(one, Metrics!Buckets),
                    Metrics!SumFunctionOnSet(sums1(one, Metrics!Buckets), Metrics!Buckets))
    BY <1>0 DEF Metrics!ComputeAging
  <2>4. Figures!ComputeAging(lines)
          = figures(other, Figures!Buckets, sums2(other, Figures!Buckets),
                    Figures!SumFunctionOnSet(sums2(other, Figures!Buckets), Figures!Buckets))
    BY DEF Figures!ComputeAging
  <2> HIDE DEF figures, sums1, sums2, one, other
  <2> QED
    BY <2>1, <2>2, <2>3, <2>4, <1>2, SameTools
<1> QED
  BY <1>1, <1>2, <1>3, <1>4

\* and on the scores.
LEMMA SameScores ==
  /\ Metrics!Full = Figures!Full
  /\ \A line : Metrics!MonthOf(line) = Figures!MonthOf(line)
  /\ \A revenue, cash : Metrics!ComputeCcr(revenue, cash) = Figures!ComputeCcr(revenue, cash)
  /\ \A x : Metrics!Clamp(x) = Figures!Clamp(x)
  /\ \A ccr : Metrics!CashScore(ccr) = Figures!CashScore(ccr)
  /\ \A share : Metrics!ReceivablesScore(share) = Figures!ReceivablesScore(share)
  /\ Metrics!ConversionScore = Figures!ConversionScore
  /\ Metrics!Weight = Figures!Weight
  /\ \A axes, those : Metrics!Weighed(axes, those) = Figures!Weighed(axes, those)
  /\ \A axes : Metrics!HealthScores(axes) = Figures!HealthScores(axes)
<1>0. Metrics!Full = Figures!Full
  BY DEF Metrics!Full, Figures!Full
<1>1. \A line : Metrics!MonthOf(line) = Figures!MonthOf(line)
  BY DEF Metrics!MonthOf, Figures!MonthOf
<1>2. \A revenue, cash :
         Metrics!ComputeCcr(revenue, cash)
           = Figures!ComputeCcr(revenue, cash)
  <2> DEFINE of(lines, m) == {i \in DOMAIN lines : Figures!MonthOf(lines[i]) = m}
             months(revenue, cash) ==
               {Figures!MonthOf(line) :
                  line \in Figures!Range(revenue) \cup Figures!Range(cash)}
             rate(a, b) == IF b = 0 THEN Null ELSE (Figures!Full * a) \div b
  <2>1. \A lines, m : Metrics!Total(lines, of(lines, m)) = Figures!Total(lines, of(lines, m))
    BY SameBooks
  <2>2. \A revenue, cash : Metrics!ComputeCcr(revenue, cash)
          = [m \in months(revenue, cash) |->
               rate(Metrics!Total(cash, of(cash, m)), Metrics!Total(revenue, of(revenue, m)))]
    <3>1. \A revenue, cash : Metrics!ComputeCcr(revenue, cash)
            = [m \in {Metrics!MonthOf(line) :
                        line \in Metrics!Range(revenue) \cup Metrics!Range(cash)} |->
                 rate(Metrics!Total(cash, {i \in DOMAIN cash : Metrics!MonthOf(cash[i]) = m}),
                      Metrics!Total(revenue,
                        {i \in DOMAIN revenue : Metrics!MonthOf(revenue[i]) = m}))]
      BY <1>0 DEF Metrics!ComputeCcr
    <3>2. \A lines, m : {i \in DOMAIN lines : Metrics!MonthOf(lines[i]) = m} = of(lines, m)
      BY <1>1
    <3>3. \A revenue, cash : {Metrics!MonthOf(line) :
                        line \in Metrics!Range(revenue) \cup Metrics!Range(cash)}
                             = months(revenue, cash)
      BY <1>1, SameTools
    <3> HIDE DEF of, months, rate
    <3> QED
      BY <3>1, <3>2, <3>3
  <2>3. \A revenue, cash : Figures!ComputeCcr(revenue, cash)
          = [m \in months(revenue, cash) |->
               rate(Figures!Total(cash, of(cash, m)), Figures!Total(revenue, of(revenue, m)))]
    BY DEF Figures!ComputeCcr
  <2> HIDE DEF of, months, rate
  <2> QED
    BY <2>1, <2>2, <2>3
<1>3. \A x : Metrics!Clamp(x) = Figures!Clamp(x)
  BY <1>0, SameTools DEF Metrics!Clamp, Figures!Clamp
<1>4. \A ccr : Metrics!CashScore(ccr) = Figures!CashScore(ccr)
  BY <1>3, SameTools DEF Metrics!CashScore, Figures!CashScore
<1>5. \A share : Metrics!ReceivablesScore(share) = Figures!ReceivablesScore(share)
  BY <1>0, <1>3 DEF Metrics!ReceivablesScore, Figures!ReceivablesScore
<1>6. Metrics!ConversionScore = Figures!ConversionScore
  BY <1>0, <1>3 DEF Metrics!ConversionScore, Figures!ConversionScore
<1>7. Metrics!Weight = Figures!Weight
  BY DEF Metrics!Weight, Figures!Weight
<1>8. \A axes, those : Metrics!Weighed(axes, those) = Figures!Weighed(axes, those)
  BY <1>7, SameTools DEF Metrics!Weighed, Figures!Weighed
<1>9. \A axes : Metrics!HealthScores(axes) = Figures!HealthScores(axes)
  BY <1>7, <1>8, SameTools DEF Metrics!HealthScores, Figures!HealthScores
<1> QED
  BY <1>0, <1>1, <1>2, <1>3, <1>4, <1>5, <1>6, <1>7, <1>8, <1>9

\* The books keep their types whatever is posted while the metrics are computed.
THEOREM MetricsTypeCorrect == Metrics!Spec => []Metrics!TypeOK
<1>1. Figures!Spec => []Figures!TypeOK
  BY SellerAssumption, SameMetrics, Figures!MetricsTypeCorrect
<1>2. Figures!TypeOK => Metrics!TypeOK
  BY DEF Metrics!TypeOK, Figures!TypeOK, Metrics!Query, Figures!Query, Metrics!Status,
         Figures!Status
<1> QED
  BY <1>1, <1>2, MetricsSpec, PTL

\* For all books the aging is first in, first out (computeAgingFifo).
THEOREM FirstInFirstOut == Metrics!Spec => []AgingIsFifo
<1>1. Figures!Spec => []Figures!AgingIsFifo
  BY SellerAssumption, SameMetrics, Figures!FirstInFirstOut
<1>2. Figures!AgingIsFifo => AgingIsFifo
  BY SameTools, SameBooks, SameAging
  DEF AgingIsFifo, Metrics!AgingIsFifo, Figures!AgingIsFifo, Metrics!Aging, Figures!Aging,
      Metrics!Done, Figures!Done, Metrics!Query, Figures!Query
<1> QED
  BY <1>1, <1>2, MetricsSpec, PTL

\* For all answers each axis is a score and the health score lies between the
\* axes it has, but for the grain the doubles may lose (computeHealthScore).
THEOREM ScoreWithinAxes == Metrics!Spec => []HealthWithinAxes
<1>1. Figures!Spec => []Figures!HealthWithinAxes
  BY SellerAssumption, SameMetrics, Figures!ScoreWithinAxes
<1>2. Metrics!Axes = Figures!Axes
  BY SameScores, SameAging DEF Metrics!Axes, Figures!Axes, Metrics!Aging, Figures!Aging
<1>3. Figures!HealthWithinAxes => HealthWithinAxes
  BY <1>2, SameScores, SameTools
  DEF HealthWithinAxes, Metrics!HealthWithinAxes, Figures!HealthWithinAxes, Metrics!Done,
      Figures!Done, Metrics!Query, Figures!Query, Metrics!Throws, Figures!Throws
<1> QED
  BY <1>1, <1>3, MetricsSpec, PTL

-----------------------------------------------------------------------------
(* The orders page *)

CallType == [kind : {"free", "list", "detail", "save", "sync"},
             pc : {"sent", "updated", "served", "failed", "denied"},
             id : Order \cup {None}, value : Desk!UnifiedOrderStatus \cup {All},
             answer : SUBSET Desk!Row, screen : Order \cup {None}, raced : BOOLEAN]
PageType == [at : {"orders", "login"}, filter : Filter, table : SUBSET Desk!Row,
             line : {"loading", "loaded", "syncing", "failed"},
             screen : Order \cup {None}, shown : Order \cup {None},
             select : Desk!UnifiedOrderStatus, msg : {"", "loading", "saving", "saved", "failed"},
             tableOf : Filter, overlap : BOOLEAN, said : CallType]

DeskType ==
  /\ stored \in [Order -> [status : Desk!UnifiedOrderStatus, raw : RawStatus]]
  /\ session \in BOOLEAN /\ call \in [Desk!Slot -> CallType] /\ page \in PageType
  /\ clicks \in 0 .. MaxClicks /\ pages \in 0 .. MaxSyncPages

\* A save names the order on its screen; once it is written the store has its
\* value, unless another wrote the order since, and the answer then is that.
Saved(c) == c.raced \/ c.answer = {[id |-> c.screen, status |-> c.value]}
GoodCall(c) ==
  /\ c.kind = "list" => c.value \in Filter
  /\ c.kind = "detail" => c.id \in Order
  /\ c.kind = "save" => c.id = c.screen /\ c.value \in Desk!UnifiedOrderStatus
  /\ c.pc = "updated" => /\ c.kind = "save" /\ c.id \in Order
                         /\ c.raced \/ stored[c.id].status = c.value
  /\ c.kind = "save" /\ c.pc = "served" => Saved(c)

\* A load that no other overlaps is the only one, and of the filter there is.
LoadInv ==
  /\ page.at = "login" => page.line = "loading"
  /\ page.at = "orders" /\ ~page.overlap =>
       /\ \A j, k \in Desk!Slot : call[j].kind = "list" /\ call[k].kind = "list" => j = k
       /\ \A k \in Desk!Slot : call[k].kind = "list" => call[k].value = page.filter
       /\ page.line = "loaded" /\ ~Desk!Loading => page.tableOf = page.filter

DeskInv ==
  /\ DeskType
  /\ \A k \in Desk!Slot : GoodCall(call[k])
  /\ page.shown = page.screen
  /\ page.msg = "saved" => Saved(page.said)
  /\ LoadInv

-----------------------------------------------------------------------------

LEMMA StatusType == \A m, raw : Desk!ToUnifiedOrderStatus(m, raw) \in Desk!UnifiedOrderStatus
<1>1. /\ \A x \in DOMAIN Desk!NaverOrderStatus :
           Desk!NaverOrderStatus[x] \in Desk!UnifiedOrderStatus
      /\ \A x \in DOMAIN Desk!CoupangOrderStatus :
           Desk!CoupangOrderStatus[x] \in Desk!UnifiedOrderStatus
      /\ \A x \in DOMAIN Desk!GsShopOrderStatus :
           Desk!GsShopOrderStatus[x] \in Desk!UnifiedOrderStatus
  BY DEF Desk!NaverOrderStatus, Desk!CoupangOrderStatus, Desk!GsShopOrderStatus,
     Desk!UnifiedOrderStatus
<1>2. \A x \in DOMAIN Desk!EsmOrderStatus : Desk!EsmOrderStatus[x] \in Desk!UnifiedOrderStatus
  BY DEF Desk!EsmOrderStatus, Desk!UnifiedOrderStatus
<1>3. \A m \in DOMAIN Desk!OrderStatusByMarketplace :
        Desk!OrderStatusByMarketplace[m] \in {Desk!NaverOrderStatus, Desk!CoupangOrderStatus,
                                         Desk!EsmOrderStatus, Desk!GsShopOrderStatus}
  BY DEF Desk!OrderStatusByMarketplace
<1>4. "UNKNOWN" \in Desk!UnifiedOrderStatus
  BY DEF Desk!UnifiedOrderStatus
<1> QED
  BY <1>1, <1>2, <1>3, <1>4 DEF Desk!ToUnifiedOrderStatus

LEMMA CallFields ==
  ASSUME NEW c \in CallType
  PROVE  /\ c.kind \in {"free", "list", "detail", "save", "sync"}
         /\ c.pc \in {"sent", "updated", "served", "failed", "denied"}
         /\ c.id \in Order \cup {None} /\ c.value \in Desk!UnifiedOrderStatus \cup {All}
         /\ c.answer \subseteq Desk!Row /\ c.screen \in Order \cup {None}
         /\ c.raced \in BOOLEAN
BY DEF CallType

LEMMA PageFields ==
  ASSUME NEW p \in PageType
  PROVE  /\ p.at \in {"orders", "login"} /\ p.filter \in Filter /\ p.table \subseteq Desk!Row
         /\ p.line \in {"loading", "loaded", "syncing", "failed"}
         /\ p.screen \in Order \cup {None} /\ p.shown \in Order \cup {None}
         /\ p.select \in Desk!UnifiedOrderStatus
         /\ p.msg \in {"", "loading", "saving", "saved", "failed"}
         /\ p.tableOf \in Filter /\ p.overlap \in BOOLEAN /\ p.said \in CallType
BY DEF PageType

LEMMA FreeType ==
  /\ Desk!Free \in CallType /\ GoodCall(Desk!Free) /\ Desk!Free.kind = "free"
<1>1. {} \in SUBSET Desk!Row /\ FALSE \in BOOLEAN
  OBVIOUS
<1>2. Desk!Free \in CallType
  BY <1>1 DEF Desk!Free, CallType
<1> QED
  BY <1>2 DEF Desk!Free, GoodCall

\* A call that was just sent.
LEMMA SentType ==
  ASSUME NEW kind \in {"list", "detail", "save", "sync"}, NEW id \in Order \cup {None},
         NEW value \in Desk!UnifiedOrderStatus \cup {All}
  PROVE  /\ Desk!Call(kind, id, value) \in CallType /\ Desk!Call(kind, id, value).kind = kind
         /\ Desk!Call(kind, id, value).id = id /\ Desk!Call(kind, id, value).value = value
         /\ Desk!Call(kind, id, value).pc = "sent"
<1> DEFINE f == [Desk!Free EXCEPT !.kind = kind, !.id = id]
<1>1. f \in CallType /\ f.kind = kind /\ f.id = id /\ f.pc = "sent"
  BY FreeType DEF CallType, Desk!Free
<1>2. Desk!Call(kind, id, value) = [f EXCEPT !.value = value]
  BY DEF Desk!Call
<1> HIDE DEF f
<1> QED
  BY <1>1, <1>2 DEF CallType

-----------------------------------------------------------------------------
(* What a step does to the calls, the loads and the page *)

LEMMA DeskNames == /\ Filter \subseteq Desk!UnifiedOrderStatus \cup {All} /\ All \in Filter
                   /\ Pick \subseteq Desk!UnifiedOrderStatus
                   /\ MaxInFlight \in Nat \ {0} /\ MaxClicks \in Nat /\ MaxSyncPages \in Nat
BY SellerAssumption DEF Desk!OrderDeskAssumption

LEMMA RowsType ==
  ASSUME DeskType, NEW S \in SUBSET Order
  PROVE  Desk!Rows(S) \subseteq Desk!Row
BY DEF DeskType, Desk!Rows, Desk!Row

\* One call becomes d, the store stays.
LEMMA CallBecomes ==
  ASSUME DeskType, \A j \in Desk!Slot : GoodCall(call[j]), UNCHANGED stored,
         NEW k \in Desk!Slot, NEW d \in CallType, GoodCall(d),
         call' = [call EXCEPT ![k] = d]
  PROVE  /\ call' \in [Desk!Slot -> CallType] /\ (\A j \in Desk!Slot : GoodCall(call[j]))'
         /\ \A j \in Desk!Slot : call'[j] = IF j = k THEN d ELSE call[j]
<1>1. call \in [Desk!Slot -> CallType]
  BY DEF DeskType
<1>2. /\ call' \in [Desk!Slot -> CallType]
      /\ \A j \in Desk!Slot : call'[j] = IF j = k THEN d ELSE call[j]
  BY <1>1
<1>3. ASSUME NEW j \in Desk!Slot PROVE GoodCall(call[j])'
  <2>1. GoodCall(call'[j])
    BY <1>2
  <2> QED
    BY <2>1 DEF GoodCall, Saved
<1> QED
  BY <1>2, <1>3

\* No load begins or ends.
LEMMA LoadsStay ==
  ASSUME DeskType, LoadInv, NEW k \in Desk!Slot, NEW d,
         \A j \in Desk!Slot : call'[j] = IF j = k THEN d ELSE call[j],
         d.kind = "list" <=> call[k].kind = "list",
         d.kind = "list" => d.value = call[k].value,
         page'.at = page.at, page'.filter = page.filter, page'.overlap = page.overlap,
         page'.tableOf = page.tableOf,
         page'.line = page.line \/ (page.at = "orders" /\ page'.line # "loaded")
  PROVE  LoadInv'
<1>1. \A j \in Desk!Slot : /\ call'[j].kind = "list" <=> call[j].kind = "list"
                      /\ call'[j].kind = "list" => call'[j].value = call[j].value
  OBVIOUS
<1>2. Desk!Loading' <=> Desk!Loading
  BY <1>1 DEF Desk!Loading
<1>3. page.at \in {"orders", "login"}
  BY PageFields DEF DeskType
<1> QED
  BY <1>1, <1>2, <1>3 DEF LoadInv

\* A load begins, with the filter there is.
LEMMA LoadBegins ==
  ASSUME DeskType, LoadInv, NEW k \in Desk!Slot, NEW d,
         \A j \in Desk!Slot : call'[j] = IF j = k THEN d ELSE call[j],
         call[k].kind # "list", d.kind = "list", d.value = page'.filter,
         page'.at = "orders", page'.overlap = Desk!Loading, page'.line = "loading"
  PROVE  LoadInv'
<1>1. ~page'.overlap => \A j \in Desk!Slot : call'[j].kind = "list" => j = k
  BY DEF Desk!Loading
<1> QED
  BY <1>1 DEF LoadInv

\* A load ends.
LEMMA LoadEnds ==
  ASSUME DeskType, LoadInv, NEW k \in Desk!Slot, NEW d,
         \A j \in Desk!Slot : call'[j] = IF j = k THEN d ELSE call[j],
         page.at = "orders", call[k].kind = "list", d.kind # "list",
         page'.at = page.at, page'.filter = page.filter, page'.overlap = page.overlap,
         page'.line # "loaded" \/ page'.tableOf = call[k].value
  PROVE  LoadInv'
<1>1. \A j \in Desk!Slot : call'[j].kind = "list" => /\ call[j].kind = "list" /\ j # k
                                               /\ call'[j].value = call[j].value
  OBVIOUS
<1>2. ~page.overlap => /\ \A i, j \in Desk!Slot : call[i].kind = "list" /\ call[j].kind = "list"
                                               => i = j
                       /\ call[k].value = page.filter
  BY DEF LoadInv
<1> QED
  BY <1>1, <1>2 DEF LoadInv

\* The bounded counters, the store and the session, where they stay.
LEMMA Rest ==
  ASSUME DeskType, UNCHANGED <<stored, session>>, call' \in [Desk!Slot -> CallType],
         page' \in PageType, clicks' \in 0 .. MaxClicks, UNCHANGED pages
  PROVE  DeskType'
BY DEF DeskType

LEMMA LoadingType == Desk!Loading \in BOOLEAN
BY DEF Desk!Loading

-----------------------------------------------------------------------------
(* The actions *)

LEMMA DeskStart == Desk!Init => DeskInv
<1> SUFFICES ASSUME Desk!Init PROVE DeskInv
  OBVIOUS
<1> USE DeskNames
<1>1. stored \in [Order -> [status : Desk!UnifiedOrderStatus, raw : RawStatus]]
  BY StatusType DEF Desk!Init, Desk!Synced
<1>2. Desk!Call("list", None, All) \in CallType
  BY SentType
<1>3. /\ call \in [Desk!Slot -> CallType]
      /\ \A k \in Desk!Slot : call[k] \in {Desk!Call("list", None, All), Desk!Free}
      /\ \A k \in Desk!Slot : call[k].kind = "list" => k = 1 /\ call[k].value = All
  BY <1>2, SentType, FreeType DEF Desk!Init
<1>4. Desk!NewPage \in PageType
  BY FreeType DEF Desk!NewPage, PageType, Desk!UnifiedOrderStatus
<1>5. DeskType
  BY <1>1, <1>3, <1>4 DEF DeskType, Desk!Init
<1>6. GoodCall(Desk!Call("list", None, All))
  BY SentType DEF GoodCall
<1>7. LoadInv
  BY <1>3 DEF LoadInv, Desk!Init, Desk!NewPage, Desk!Loading
<1> QED
  BY <1>3, <1>5, <1>6, <1>7, FreeType DEF DeskInv, Desk!Init, Desk!NewPage

\* A click that sends a call.
LEMMA ClickStep ==
  ASSUME DeskInv, NEW c \in CallType, GoodCall(c), NEW p \in PageType, Desk!Click(c, p),
         p.at = page.at, p.shown = p.screen, p.msg = "saved" => Saved(p.said),
         \/ /\ c.kind # "list" /\ p.filter = page.filter /\ p.overlap = page.overlap
            /\ p.tableOf = page.tableOf
            /\ p.line = page.line \/ p.line # "loaded"
         \/ /\ c.kind = "list" /\ c.value = p.filter
            /\ p.overlap = Desk!Loading /\ p.line = "loading"
  PROVE  DeskInv'
<1> USE DeskNames
<1>1. DeskType /\ LoadInv /\ \A j \in Desk!Slot : GoodCall(call[j])
  BY DEF DeskInv
<1>2. PICK k \in Desk!Slot : call[k] = Desk!Free /\ call' = [call EXCEPT ![k] = c]
  BY DEF Desk!Click
<1>3. /\ page.at = "orders" /\ clicks < MaxClicks /\ page' = p /\ clicks' = clicks + 1
      /\ UNCHANGED <<stored, session, pages>>
  BY DEF Desk!Click
<1>4. /\ call' \in [Desk!Slot -> CallType] /\ (\A j \in Desk!Slot : GoodCall(call[j]))'
      /\ \A j \in Desk!Slot : call'[j] = IF j = k THEN c ELSE call[j]
  BY <1>1, <1>2, <1>3, CallBecomes
<1>5. clicks' \in 0 .. MaxClicks
  BY <1>1, <1>3 DEF DeskType
<1>6. DeskType'
  BY <1>1, <1>3, <1>4, <1>5, Rest
<1>7. call[k].kind # "list"
  BY <1>2, FreeType
<1>8. LoadInv'
  <2>1. CASE c.kind # "list"
    BY <2>1, <1>1, <1>3, <1>4, <1>7, LoadsStay
  <2>2. CASE c.kind = "list"
    BY <2>2, <1>1, <1>3, <1>4, <1>7, LoadBegins
  <2> QED
    BY <2>1, <2>2
<1>9. page'.msg = "saved" => Saved(page.said)'
  BY <1>3 DEF Saved
<1> QED
  BY <1>3, <1>4, <1>6, <1>8, <1>9 DEF DeskInv

\* What a handler sets of the page, and nothing else.
LEMMA PageLine ==
  ASSUME NEW p \in PageType, NEW l \in {"loading", "loaded", "syncing", "failed"}
  PROVE  [p EXCEPT !.line = l] \in PageType
BY DEF PageType

LEMMA PageMsg ==
  ASSUME NEW p \in PageType, NEW m \in {"", "loading", "saving", "saved", "failed"}
  PROVE  [p EXCEPT !.msg = m] \in PageType
BY DEF PageType

LEMMA PageLoad ==
  ASSUME NEW p \in PageType, NEW f \in Filter, NEW o \in BOOLEAN
  PROVE  [p EXCEPT !.filter = f, !.line = "loading", !.overlap = o] \in PageType
<1> DEFINE q == [p EXCEPT !.filter = f, !.line = "loading"]
<1>2. q \in PageType
  BY DEF PageType
<1>3. [p EXCEPT !.filter = f, !.line = "loading", !.overlap = o] = [q EXCEPT !.overlap = o]
  BY DEF PageType
<1> HIDE DEF q
<1>4. [q EXCEPT !.overlap = o] \in PageType
  BY <1>2 DEF PageType
<1> QED
  BY <1>3, <1>4

LEMMA ChooseFilterStep ==
  ASSUME DeskInv, NEW f \in Filter, Desk!ChooseFilter(f)
  PROVE  DeskInv'
<1>1. page \in PageType
  BY DEF DeskInv, DeskType
<1>2. Desk!LoadWith(f) \in PageType
  BY <1>1, PageLoad, LoadingType DEF Desk!LoadWith
<1>3. /\ Desk!LoadWith(f).at = page.at /\ Desk!LoadWith(f).shown = page.shown
      /\ Desk!LoadWith(f).screen = page.screen /\ Desk!LoadWith(f).msg = page.msg
      /\ Desk!LoadWith(f).said = page.said /\ Desk!LoadWith(f).filter = f
      /\ Desk!LoadWith(f).overlap = Desk!Loading /\ Desk!LoadWith(f).line = "loading"
  BY <1>1 DEF Desk!LoadWith, PageType
<1>4. Desk!Call("list", None, f) \in CallType
  BY DeskNames, SentType
<1>5. GoodCall(Desk!Call("list", None, f)) /\ Desk!Call("list", None, f).kind = "list"
      /\ Desk!Call("list", None, f).value = f
  BY DeskNames, SentType DEF GoodCall
<1>6. /\ Desk!LoadWith(f).shown = Desk!LoadWith(f).screen
      /\ (Desk!LoadWith(f).msg = "saved" => Saved(Desk!LoadWith(f).said))
  BY <1>3 DEF DeskInv
<1> QED
  BY <1>2, <1>3, <1>4, <1>5, <1>6, ClickStep DEF Desk!ChooseFilter

LEMMA ClickSyncStep ==
  ASSUME DeskInv, Desk!ClickSync
  PROVE  DeskInv'
<1> DEFINE p == [page EXCEPT !.line = "syncing"]
           c == Desk!Call("sync", None, page.filter)
<1>1. page \in PageType
  BY DEF DeskInv, DeskType
<1>2. p \in PageType
  BY <1>1, PageLine
<1>3. /\ p.at = page.at /\ p.shown = page.shown /\ p.screen = page.screen
      /\ p.msg = page.msg /\ p.said = page.said /\ p.filter = page.filter
      /\ p.overlap = page.overlap /\ p.tableOf = page.tableOf /\ p.line # "loaded"
  BY <1>1 DEF PageType
<1>4. c \in CallType /\ c.kind = "sync" /\ GoodCall(c)
  <2>1. page.filter \in Desk!UnifiedOrderStatus \cup {All}
    BY <1>1, DeskNames, PageFields
  <2>2. c \in CallType /\ c.kind = "sync" /\ c.pc = "sent"
    BY <2>1, SentType
  <2> QED
    BY <2>2 DEF GoodCall
<1>5. Desk!Click(c, p)
  BY DEF Desk!ClickSync
<1>6. p.shown = p.screen /\ (p.msg = "saved" => Saved(p.said))
  BY <1>3 DEF DeskInv
<1> HIDE DEF p, c
<1> QED
  BY <1>2, <1>3, <1>4, <1>5, <1>6, ClickStep

LEMMA OpenDetailStep ==
  ASSUME DeskInv, NEW o \in Order, Desk!OpenDetail(o)
  PROVE  DeskInv'
<1> DEFINE p == [page EXCEPT !.msg = "loading"]
           c == Desk!Call("detail", o, All)
<1>1. page \in PageType
  BY DEF DeskInv, DeskType
<1>2. p \in PageType
  BY <1>1, PageMsg
<1>3. /\ p.at = page.at /\ p.shown = page.shown /\ p.screen = page.screen
      /\ p.msg # "saved" /\ p.line = page.line /\ p.filter = page.filter
      /\ p.overlap = page.overlap /\ p.tableOf = page.tableOf
  BY <1>1 DEF PageType
<1>4. c \in CallType /\ c.kind = "detail" /\ GoodCall(c)
  BY SentType DEF GoodCall
<1>5. Desk!Click(c, p)
  BY DEF Desk!OpenDetail
<1>6. p.shown = p.screen
  BY <1>3 DEF DeskInv
<1> HIDE DEF p, c
<1> QED
  BY <1>2, <1>3, <1>4, <1>5, <1>6, ClickStep

LEMMA SaveStatusStep ==
  ASSUME DeskInv, Desk!SaveStatus
  PROVE  DeskInv'
<1> DEFINE p == [page EXCEPT !.msg = "saving"]
           d == Desk!Call("save", page.shown, page.select)
           c == [d EXCEPT !.screen = page.screen]
<1>1. page \in PageType /\ page.shown = page.screen
  BY DEF DeskInv, DeskType
<1>2. p \in PageType
  BY <1>1, PageMsg
<1>3. /\ p.at = page.at /\ p.shown = page.shown /\ p.screen = page.screen
      /\ p.msg # "saved" /\ p.line = page.line /\ p.filter = page.filter
      /\ p.overlap = page.overlap /\ p.tableOf = page.tableOf
  BY <1>1 DEF PageType
<1>4. d \in CallType /\ d.kind = "save" /\ d.pc = "sent" /\ d.id = page.shown
      /\ d.value = page.select
  <2>1. page.shown \in Order \cup {None} /\ page.select \in Desk!UnifiedOrderStatus \cup {All}
    BY <1>1, PageFields
  <2> QED
    BY <2>1, SentType
<1>5. c \in CallType /\ c.kind = "save" /\ GoodCall(c)
  <2> HIDE DEF d
  <2>1. page.screen \in Order \cup {None}
    BY <1>1, PageFields
  <2>2. /\ c \in CallType /\ c.kind = "save" /\ c.pc = "sent" /\ c.id = c.screen
        /\ c.value = page.select
    BY <1>1, <1>4, <2>1 DEF CallType
  <2>3. page.select \in Desk!UnifiedOrderStatus
    BY <1>1, PageFields
  <2> QED
    BY <2>2, <2>3 DEF GoodCall
<1>6. Desk!Click(c, p)
  BY DEF Desk!SaveStatus
<1> HIDE DEF p, c
<1> QED
  BY <1>1, <1>2, <1>3, <1>5, <1>6, ClickStep

\* The seller picks a status.
LEMMA PickStatusStep ==
  ASSUME DeskInv, NEW s \in Pick, Desk!PickStatus(s)
  PROVE  DeskInv'
<1>1. /\ page \in PageType /\ s \in Desk!UnifiedOrderStatus
  BY DeskNames DEF DeskInv, DeskType
<1>2. page' = [page EXCEPT !.select = s] /\ UNCHANGED <<stored, session, call, clicks, pages>>
  BY DEF Desk!PickStatus
<1>3. /\ page' \in PageType /\ page'.at = page.at /\ page'.filter = page.filter
      /\ page'.line = page.line /\ page'.overlap = page.overlap
      /\ page'.tableOf = page.tableOf /\ page'.shown = page.shown
      /\ page'.screen = page.screen /\ page'.msg = page.msg /\ page'.said = page.said
  BY <1>1, <1>2 DEF PageType
<1>4. DeskType'
  BY <1>2, <1>3 DEF DeskInv, DeskType
<1>5. LoadInv'
  BY <1>2, <1>3 DEF DeskInv, LoadInv, Desk!Loading
<1>6. \A k \in Desk!Slot : GoodCall(call[k])'
  BY <1>2 DEF DeskInv, GoodCall, Saved
<1> QED
  BY <1>3, <1>4, <1>5, <1>6 DEF DeskInv, Saved

\* A call with another pc, and one with another answer too.
LEMMA MovedType ==
  ASSUME NEW c \in CallType, NEW pc \in {"sent", "updated", "served", "failed", "denied"}
  PROVE  LET d == [c EXCEPT !.pc = pc]
         IN /\ d \in CallType /\ d.kind = c.kind /\ d.value = c.value /\ d.pc = pc
            /\ d.id = c.id /\ d.screen = c.screen /\ d.raced = c.raced
BY DEF CallType

LEMMA AnsweredType ==
  ASSUME NEW c \in CallType, NEW answer \in SUBSET Desk!Row
  PROVE  LET d == [c EXCEPT !.pc = "served", !.answer = answer]
         IN /\ d \in CallType /\ d.kind = c.kind /\ d.value = c.value /\ d.pc = "served"
            /\ d.id = c.id /\ d.screen = c.screen /\ d.raced = c.raced
            /\ d.answer = answer
BY DEF CallType

\* The server does something about k, and nothing else changes.
LEMMA ServerStep ==
  ASSUME DeskInv, NEW k \in Desk!Slot, NEW d \in CallType, GoodCall(d),
         d.kind = call[k].kind, d.value = call[k].value,
         call' = [call EXCEPT ![k] = d], UNCHANGED <<stored, session, page, clicks, pages>>
  PROVE  DeskInv'
<1>1. DeskType /\ LoadInv /\ \A j \in Desk!Slot : GoodCall(call[j])
  BY DEF DeskInv
<1>2. /\ call' \in [Desk!Slot -> CallType] /\ (\A j \in Desk!Slot : GoodCall(call[j]))'
      /\ \A j \in Desk!Slot : call'[j] = IF j = k THEN d ELSE call[j]
  BY <1>1, CallBecomes
<1>3. DeskType'
  BY <1>1, <1>2 DEF DeskType
<1>4. LoadInv'
  BY <1>1, <1>2, LoadsStay
<1> QED
  BY <1>2, <1>3, <1>4 DEF DeskInv, Saved

LEMMA DeniedStep ==
  ASSUME DeskInv, NEW k \in Desk!Slot, Desk!Denied(k)
  PROVE  DeskInv'
<1> DEFINE d == [call[k] EXCEPT !.pc = "denied"]
<1>1. call \in [Desk!Slot -> CallType] /\ call[k] \in CallType /\ GoodCall(call[k])
  BY DEF DeskInv, DeskType
<1>2. /\ d \in CallType /\ d.kind = call[k].kind /\ d.value = call[k].value
      /\ d.pc = "denied" /\ d.id = call[k].id /\ d.screen = call[k].screen
  BY <1>1, MovedType
<1>3. /\ call' = [call EXCEPT ![k] = d]
      /\ UNCHANGED <<stored, session, page, clicks, pages>>
  BY <1>1 DEF Desk!Denied
<1> HIDE DEF d
<1>4. GoodCall(d)
  BY <1>1, <1>2 DEF GoodCall
<1> QED
  BY <1>2, <1>3, <1>4, ServerStep

LEMMA ListOrdersStep ==
  ASSUME DeskInv, NEW k \in Desk!Slot, Desk!ListOrders(k)
  PROVE  DeskInv'
<1> DEFINE rows == Desk!Rows({o \in Order : call[k].value \in {All, stored[o].status}})
           d == [call[k] EXCEPT !.pc = "served", !.answer = rows]
<1>1. call \in [Desk!Slot -> CallType] /\ call[k] \in CallType /\ GoodCall(call[k])
  BY DEF DeskInv, DeskType
<1>2. rows \in SUBSET Desk!Row
  BY RowsType DEF DeskInv
<1>3. /\ call' = [call EXCEPT ![k] = d]
      /\ UNCHANGED <<stored, session, page, clicks, pages>>
      /\ call[k].kind = "list"
  BY <1>1 DEF Desk!ListOrders, Desk!Serve
<1> HIDE DEF rows
<1>4. /\ d \in CallType /\ d.kind = call[k].kind /\ d.value = call[k].value
      /\ d.pc = "served"
  BY <1>1, <1>2, AnsweredType
<1> HIDE DEF d
<1>5. GoodCall(d)
  BY <1>1, <1>3, <1>4 DEF GoodCall
<1> QED
  BY <1>3, <1>4, <1>5, ServerStep

LEMMA GetOrderByIdStep ==
  ASSUME DeskInv, NEW k \in Desk!Slot, Desk!GetOrderById(k)
  PROVE  DeskInv'
<1> DEFINE rows == Desk!Rows({call[k].id})
           d == [call[k] EXCEPT !.pc = "served", !.answer = rows]
<1>1. call \in [Desk!Slot -> CallType] /\ call[k] \in CallType /\ GoodCall(call[k])
  BY DEF DeskInv, DeskType
<1>2. /\ call' = [call EXCEPT ![k] = d]
      /\ UNCHANGED <<stored, session, page, clicks, pages>>
      /\ call[k].kind = "detail"
  BY <1>1 DEF Desk!GetOrderById, Desk!Serve
<1>3. rows \in SUBSET Desk!Row
  BY <1>1, <1>2, RowsType DEF DeskInv, GoodCall
<1> HIDE DEF rows
<1>4. /\ d \in CallType /\ d.kind = call[k].kind /\ d.value = call[k].value
      /\ d.pc = "served"
      /\ d.id = call[k].id
  BY <1>1, <1>3, AnsweredType
<1> HIDE DEF d
<1>5. GoodCall(d)
  BY <1>1, <1>2, <1>4 DEF GoodCall
<1> QED
  BY <1>2, <1>4, <1>5, ServerStep

LEMMA RunSyncStep ==
  ASSUME DeskInv, NEW k \in Desk!Slot, Desk!RunSync(k)
  PROVE  DeskInv'
<1>1. call \in [Desk!Slot -> CallType] /\ call[k] \in CallType /\ GoodCall(call[k])
  BY DEF DeskInv, DeskType
<1>2. PICK pc \in {"served", "failed"} : call' = [call EXCEPT ![k].pc = pc]
  BY DEF Desk!RunSync
<1> DEFINE d == [call[k] EXCEPT !.pc = pc]
<1>3. /\ d \in CallType /\ d.kind = call[k].kind /\ d.value = call[k].value
      /\ d.pc = pc
  <2>1. pc \in {"sent", "updated", "served", "failed", "denied"}
    OBVIOUS
  <2> QED
    BY <1>1, <2>1, MovedType
<1>4. /\ call' = [call EXCEPT ![k] = d]
      /\ UNCHANGED <<stored, session, page, clicks, pages>>
      /\ call[k].kind = "sync"
  BY <1>1, <1>2 DEF Desk!RunSync
<1> HIDE DEF d
<1>5. GoodCall(d)
  BY <1>3, <1>4 DEF GoodCall
<1> QED
  BY <1>3, <1>4, <1>5, ServerStep

\* What is read back is what was saved, but for a write in between.
LEMMA ReadBackStep ==
  ASSUME DeskInv, NEW k \in Desk!Slot, Desk!ReadBack(k)
  PROVE  DeskInv'
<1> DEFINE rows == Desk!Rows({call[k].id})
           d == [call[k] EXCEPT !.pc = "served", !.answer = rows]
<1>1. call \in [Desk!Slot -> CallType] /\ call[k] \in CallType /\ GoodCall(call[k])
  BY DEF DeskInv, DeskType
<1>2. /\ call' = [call EXCEPT ![k] = d]
      /\ UNCHANGED <<stored, session, page, clicks, pages>>
      /\ call[k].pc = "updated"
  BY <1>1 DEF Desk!ReadBack
<1>3. /\ call[k].kind = "save" /\ call[k].id \in Order /\ call[k].id = call[k].screen
      /\ call[k].raced \/ stored[call[k].id].status = call[k].value
      /\ call[k].value \in Desk!UnifiedOrderStatus
  BY <1>1, <1>2 DEF GoodCall
<1>4. rows \in SUBSET Desk!Row
  BY <1>3, RowsType DEF DeskInv
<1>5. rows = {[id |-> call[k].id, status |-> stored[call[k].id].status]}
  BY DEF Desk!Rows
<1> HIDE DEF rows
<1>6. /\ d \in CallType /\ d.kind = call[k].kind /\ d.value = call[k].value
      /\ d.pc = "served"
      /\ d.id = call[k].id /\ d.screen = call[k].screen /\ d.raced = call[k].raced
      /\ d.answer = rows
  BY <1>1, <1>4, AnsweredType
<1> HIDE DEF d
<1>7. GoodCall(d)
  BY <1>3, <1>5, <1>6 DEF GoodCall, Saved
<1> QED
  BY <1>2, <1>6, <1>7, ServerStep

\* A call's mark of a write in between changes nothing else of it.
LEMMA RacedType ==
  ASSUME DeskType, NEW k, NEW o
  PROVE  /\ Desk!Raced(k, o) \in [Desk!Slot -> CallType]
         /\ \A j \in Desk!Slot :
              LET c == Desk!Raced(k, o)[j] IN
              /\ c.kind = call[j].kind /\ c.pc = call[j].pc /\ c.id = call[j].id
              /\ c.value = call[j].value /\ c.answer = call[j].answer
              /\ c.screen = call[j].screen
              /\ c.raced = (call[j].raced \/ (j # k /\ call[j].pc = "updated"
                                                   /\ call[j].id = o))
<1>1. ASSUME NEW j \in Desk!Slot
      PROVE  LET c == Desk!Raced(k, o)[j] IN
             /\ c \in CallType
             /\ c.kind = call[j].kind /\ c.pc = call[j].pc /\ c.id = call[j].id
             /\ c.value = call[j].value /\ c.answer = call[j].answer
             /\ c.screen = call[j].screen
             /\ c.raced = (call[j].raced \/ (j # k /\ call[j].pc = "updated"
                                                  /\ call[j].id = o))
  <2>1. call[j] \in CallType
    BY DEF DeskType
  <2>2. Desk!Raced(k, o)[j] = IF j # k /\ call[j].pc = "updated" /\ call[j].id = o
                           THEN [call[j] EXCEPT !.raced = TRUE] ELSE call[j]
    BY DEF Desk!Raced
  <2>3. CASE j # k /\ call[j].pc = "updated" /\ call[j].id = o
    BY <2>1, <2>2, <2>3 DEF CallType
  <2>4. CASE ~(j # k /\ call[j].pc = "updated" /\ call[j].id = o)
    BY <2>1, <2>2, <2>4, CallFields
  <2> QED
    BY <2>3, <2>4
<1>2. Desk!Raced(k, o) \in [Desk!Slot -> CallType]
  BY <1>1 DEF Desk!Raced
<1> QED
  BY <1>1, <1>2

LEMMA UpdateStep ==
  ASSUME DeskInv, NEW k \in Desk!Slot, Desk!UpdateOrderStatus(k)
  PROVE  DeskInv'
<1> DEFINE o == call[k].id
<1>1. /\ DeskType /\ LoadInv /\ call \in [Desk!Slot -> CallType] /\ call[k] \in CallType
      /\ GoodCall(call[k]) /\ \A j \in Desk!Slot : GoodCall(call[j])
  BY DEF DeskInv, DeskType
<1>2. call[k].kind = "save" /\ UNCHANGED <<session, page, clicks, pages>>
  BY DEF Desk!UpdateOrderStatus, Desk!Serve
<1>3. CASE o = None
  <2> DEFINE d == [call[k] EXCEPT !.pc = "failed"]
  <2>1. /\ d \in CallType /\ d.kind = call[k].kind /\ d.value = call[k].value
        /\ d.pc = "failed" /\ d.id = call[k].id /\ d.screen = call[k].screen
    BY <1>1, MovedType
  <2>2. call' = [call EXCEPT ![k] = d] /\ UNCHANGED stored
    BY <1>1, <1>3 DEF Desk!UpdateOrderStatus
  <2> HIDE DEF d
  <2>3. GoodCall(d)
    BY <1>1, <2>1 DEF GoodCall
  <2> QED
    BY <1>2, <2>1, <2>2, <2>3, ServerStep
<1>4. CASE o # None
  <2> DEFINE q == Desk!Raced(k, o)
             d == [q[k] EXCEPT !.pc = "updated"]
  <2>1. /\ stored' = [stored EXCEPT ![o].status = call[k].value]
        /\ call' = [q EXCEPT ![k].pc = "updated"]
    BY <1>4 DEF Desk!UpdateOrderStatus
  <2>2. o \in Order
    BY <1>1, <1>4, CallFields
  <2>3. /\ q \in [Desk!Slot -> CallType]
        /\ \A j \in Desk!Slot :
             /\ q[j].kind = call[j].kind /\ q[j].pc = call[j].pc /\ q[j].id = call[j].id
             /\ q[j].value = call[j].value /\ q[j].answer = call[j].answer
             /\ q[j].screen = call[j].screen
             /\ q[j].raced = (call[j].raced \/ (j # k /\ call[j].pc = "updated"
                                                      /\ call[j].id = o))
    BY <1>1, RacedType
  <2> HIDE DEF q
  <2>4. /\ d \in CallType /\ d.kind = call[k].kind /\ d.value = call[k].value
        /\ d.pc = "updated" /\ d.id = o /\ d.screen = call[k].screen
    <3>1. q[k] \in CallType
      BY <2>3
    <3>2. /\ d \in CallType /\ d.kind = q[k].kind /\ d.value = q[k].value
          /\ d.pc = "updated" /\ d.id = q[k].id /\ d.screen = q[k].screen
      BY <3>1, MovedType
    <3> HIDE DEF d
    <3> QED
      BY <2>3, <3>2
  <2>5. call' = [q EXCEPT ![k] = d]
    BY <2>1, <2>3
  <2> HIDE DEF d
  <2>6. /\ call' \in [Desk!Slot -> CallType]
        /\ \A j \in Desk!Slot : call'[j] = IF j = k THEN d ELSE q[j]
    BY <2>3, <2>4, <2>5
  <2>7. call[k].value \in Desk!UnifiedOrderStatus
    BY <1>1, <1>2 DEF GoodCall
  <2>8. /\ stored' \in [Order -> [status : Desk!UnifiedOrderStatus, raw : RawStatus]]
        /\ stored'[o].status = call[k].value
        /\ \A p \in Order : p # o => stored'[p] = stored[p]
    BY <1>1, <2>1, <2>2, <2>7 DEF DeskType
  <2>9. DeskType'
    BY <1>1, <1>2, <2>6, <2>8 DEF DeskType
  <2>10. ASSUME NEW j \in Desk!Slot PROVE GoodCall(call[j])'
    <3>1. GoodCall(call[j]) /\ call[j] \in CallType
      BY <1>1
    <3>2. CASE j = k
      BY <1>1, <1>2, <2>2, <2>4, <2>6, <2>8, <3>2 DEF GoodCall, Saved
    <3>3. CASE j # k
      <4>1. call'[j] = q[j]
        BY <2>6, <3>3
      <4>2. q[j].raced = (call[j].raced \/ (call[j].pc = "updated" /\ call[j].id = o))
        BY <2>3, <3>3
      <4>3. ASSUME call'[j].pc = "updated"
            PROVE  /\ call'[j].kind = "save" /\ call'[j].id \in Order
                   /\ call'[j].raced \/ stored'[call'[j].id].status = call'[j].value
        <5>1. /\ call[j].pc = "updated" /\ call'[j].id = call[j].id
              /\ call'[j].kind = call[j].kind /\ call'[j].value = call[j].value
          BY <2>3, <4>1, <4>3
        <5>2. CASE call[j].id = o
          BY <3>1, <4>1, <4>2, <5>1, <5>2 DEF GoodCall
        <5>3. CASE call[j].id # o
          BY <2>8, <3>1, <4>1, <4>2, <5>1, <5>3 DEF GoodCall
        <5> QED
          BY <5>2, <5>3
      <4>4. ASSUME call'[j].kind = "save", call'[j].pc = "served"
            PROVE  call'[j].raced
                     \/ call'[j].answer = {[id |-> call'[j].screen, status |-> call'[j].value]}
        BY <2>3, <3>1, <4>1, <4>2, <4>4 DEF GoodCall, Saved
      <4>5. /\ call'[j].kind = "list" => call'[j].value \in Filter
            /\ call'[j].kind = "detail" => call'[j].id \in Order
            /\ call'[j].kind = "save" => /\ call'[j].id = call'[j].screen
                                         /\ call'[j].value \in Desk!UnifiedOrderStatus
        BY <2>3, <3>1, <4>1 DEF GoodCall
      <4> QED
        BY <4>3, <4>4, <4>5 DEF GoodCall, Saved
    <3> QED
      BY <3>2, <3>3
  <2>11. LoadInv'
    <3>1. \A j \in Desk!Slot : call'[j].kind = call[j].kind /\ call'[j].value = call[j].value
      BY <2>3, <2>4, <2>6
    <3> QED
      BY <1>1, <1>2, <3>1 DEF LoadInv, Desk!Loading
  <2> QED
    BY <1>2, <2>9, <2>10, <2>11 DEF DeskInv, Saved
<1> QED
  BY <1>3, <1>4

\* A sync's page: what was saved of the order is overwritten.
LEMMA SyncPageStep ==
  ASSUME DeskInv, NEW o \in Order, Desk!SyncPage(o)
  PROVE  DeskInv'
<1>1. /\ DeskType /\ LoadInv /\ \A j \in Desk!Slot : GoodCall(call[j])
  BY DEF DeskInv
<1>2. PICK raw \in RawStatus : stored' = [stored EXCEPT ![o] = Desk!Synced(o, raw)]
  BY DEF Desk!SyncPage
<1>3. /\ call' = Desk!Raced(0, o) /\ pages < MaxSyncPages /\ pages' = pages + 1
      /\ UNCHANGED <<session, page, clicks>>
  BY DEF Desk!SyncPage
<1>4. Desk!Synced(o, raw) \in [status : Desk!UnifiedOrderStatus, raw : RawStatus]
  BY StatusType DEF Desk!Synced
<1>5. /\ stored' \in [Order -> [status : Desk!UnifiedOrderStatus, raw : RawStatus]]
      /\ \A p \in Order : p # o => stored'[p] = stored[p]
  BY <1>1, <1>2, <1>4 DEF DeskType
<1>6. /\ call' \in [Desk!Slot -> CallType]
      /\ \A j \in Desk!Slot :
           /\ call'[j].kind = call[j].kind /\ call'[j].pc = call[j].pc
           /\ call'[j].id = call[j].id /\ call'[j].value = call[j].value
           /\ call'[j].answer = call[j].answer /\ call'[j].screen = call[j].screen
           /\ call'[j].raced = (call[j].raced \/ (j # 0 /\ call[j].pc = "updated"
                                                        /\ call[j].id = o))
  BY <1>1, <1>3, RacedType
<1>7. pages' \in 0 .. MaxSyncPages
  BY <1>1, <1>3, DeskNames DEF DeskType
<1>8. DeskType'
  BY <1>1, <1>3, <1>5, <1>6, <1>7 DEF DeskType
<1>9. ASSUME NEW j \in Desk!Slot PROVE GoodCall(call[j])'
  <2>1. GoodCall(call[j])
    BY <1>1
  <2>2. j # 0
    BY DEF Desk!Slot
  <2>3. ASSUME call'[j].pc = "updated"
        PROVE  /\ call'[j].kind = "save" /\ call'[j].id \in Order
               /\ call'[j].raced \/ stored'[call'[j].id].status = call'[j].value
    BY <1>5, <1>6, <2>1, <2>2, <2>3 DEF GoodCall
  <2>4. ASSUME call'[j].kind = "save", call'[j].pc = "served"
        PROVE  call'[j].raced
                 \/ call'[j].answer = {[id |-> call'[j].screen, status |-> call'[j].value]}
    BY <1>6, <2>1, <2>4 DEF GoodCall, Saved
  <2>5. /\ call'[j].kind = "list" => call'[j].value \in Filter
        /\ call'[j].kind = "detail" => call'[j].id \in Order
        /\ call'[j].kind = "save" => /\ call'[j].id = call'[j].screen
                                     /\ call'[j].value \in Desk!UnifiedOrderStatus
    BY <1>6, <2>1 DEF GoodCall
  <2> QED
    BY <2>3, <2>4, <2>5 DEF GoodCall, Saved
<1>10. LoadInv'
  BY <1>1, <1>3, <1>6 DEF LoadInv, Desk!Loading
<1> QED
  BY <1>3, <1>8, <1>9, <1>10 DEF DeskInv, Saved

LEMMA ExpireStep ==
  ASSUME DeskInv, Desk!Expire
  PROVE  DeskInv'
BY DEF DeskInv, Desk!Expire, DeskType, GoodCall, Saved, LoadInv, Desk!Loading

-----------------------------------------------------------------------------
(* The answers *)

\* An answer arrives: the page becomes p, the call d.
LEMMA ArriveStep ==
  ASSUME DeskInv, NEW k \in Desk!Slot, NEW kind, NEW pc, NEW p \in PageType, NEW d \in CallType,
         GoodCall(d), Desk!Arrive(k, kind, pc, p, d), p.shown = p.screen,
         p.msg = "saved" => Saved(p.said),
         \/ /\ kind # "list" /\ d.kind # "list" /\ p.at = page.at /\ p.filter = page.filter
            /\ p.overlap = page.overlap /\ p.tableOf = page.tableOf
            /\ p.line = page.line \/ p.line # "loaded"
         \/ /\ kind # "list" /\ d.kind = "list" /\ d.value = p.filter /\ p.at = "orders"
            /\ p.overlap = Desk!Loading /\ p.line = "loading"
         \/ /\ kind = "list" /\ d.kind # "list" /\ p.at = page.at /\ p.filter = page.filter
            /\ p.overlap = page.overlap
            /\ p.line # "loaded" \/ p.tableOf = call[k].value
         \/ p.at = "login" /\ p.line = "loading"
  PROVE  DeskInv'
<1>1. DeskType /\ LoadInv /\ \A j \in Desk!Slot : GoodCall(call[j])
  BY DEF DeskInv
<1>2. /\ page.at = "orders" /\ call[k].kind = kind /\ page' = p
      /\ call' = [call EXCEPT ![k] = d] /\ UNCHANGED <<stored, session, clicks, pages>>
  BY DEF Desk!Arrive
<1>3. /\ call' \in [Desk!Slot -> CallType] /\ (\A j \in Desk!Slot : GoodCall(call[j]))'
      /\ \A j \in Desk!Slot : call'[j] = IF j = k THEN d ELSE call[j]
  BY <1>1, <1>2, CallBecomes
<1>4. DeskType'
  BY <1>1, <1>2, <1>3 DEF DeskType
<1>5. LoadInv'
  <2>1. CASE /\ kind # "list" /\ d.kind # "list" /\ p.at = page.at /\ p.filter = page.filter
             /\ p.overlap = page.overlap /\ p.tableOf = page.tableOf
             /\ p.line = page.line \/ p.line # "loaded"
    BY <2>1, <1>1, <1>2, <1>3, LoadsStay
  <2>2. CASE /\ kind # "list" /\ d.kind = "list" /\ d.value = p.filter /\ p.at = "orders"
             /\ p.overlap = Desk!Loading /\ p.line = "loading"
    BY <2>2, <1>1, <1>2, <1>3, LoadBegins
  <2>3. CASE /\ kind = "list" /\ d.kind # "list" /\ p.at = page.at /\ p.filter = page.filter
             /\ p.overlap = page.overlap
             /\ p.line # "loaded" \/ p.tableOf = call[k].value
    BY <2>3, <1>1, <1>2, <1>3, LoadEnds
  <2>4. CASE p.at = "login" /\ p.line = "loading"
    BY <2>4, <1>2 DEF LoadInv
  <2> QED
    BY <2>1, <2>2, <2>3, <2>4
<1>6. page'.shown = page'.screen /\ (page'.msg = "saved" => Saved(page.said)')
  BY <1>2 DEF Saved
<1> QED
  BY <1>3, <1>4, <1>5, <1>6 DEF DeskInv

LEMMA ListArrivesStep ==
  ASSUME DeskInv, NEW k \in Desk!Slot, Desk!ListArrives(k)
  PROVE  DeskInv'
<1> DEFINE q == [page EXCEPT !.table = call[k].answer, !.tableOf = call[k].value]
           p == [page EXCEPT !.table = call[k].answer, !.tableOf = call[k].value,
                             !.line = "loaded"]
<1>1. page \in PageType /\ call[k] \in CallType /\ GoodCall(call[k]) /\ call[k].kind = "list"
  BY DEF DeskInv, DeskType, Desk!ListArrives, Desk!Arrive
<1>2. call[k].value \in Filter /\ call[k].answer \subseteq Desk!Row
  BY <1>1, CallFields DEF GoodCall
<1>3. /\ q \in PageType /\ q.at = page.at /\ q.filter = page.filter
      /\ q.overlap = page.overlap
      /\ q.tableOf = call[k].value /\ q.shown = page.shown /\ q.screen = page.screen
      /\ q.msg = page.msg /\ q.said = page.said
  BY <1>1, <1>2 DEF PageType
<1>4. p = [q EXCEPT !.line = "loaded"]
  BY <1>1 DEF PageType
<1> HIDE DEF q
<1>5. /\ p \in PageType /\ p.at = q.at /\ p.filter = q.filter /\ p.overlap = q.overlap
      /\ p.tableOf = q.tableOf /\ p.shown = q.shown /\ p.screen = q.screen
      /\ p.msg = q.msg /\ p.said = q.said
  BY <1>3, <1>4 DEF PageType
<1>6. Desk!Arrive(k, "list", "served", p, Desk!Free)
  BY DEF Desk!ListArrives
<1>7. p.shown = p.screen /\ (p.msg = "saved" => Saved(p.said))
  BY <1>3, <1>5 DEF DeskInv
<1> HIDE DEF p
<1> QED
  BY <1>3, <1>5, <1>6, <1>7, FreeType, ArriveStep

\* The order in the answer is rendered.
LEMMA RenderedType ==
  ASSUME DeskType, NEW k \in Desk!Slot, call[k].answer # {},
         NEW m \in {"", "loading", "saving", "saved", "failed"}
  PROVE  LET p == Desk!Rendered(k, m)
         IN /\ p \in PageType /\ p.at = page.at /\ p.filter = page.filter
            /\ p.overlap = page.overlap /\ p.tableOf = page.tableOf /\ p.line = page.line
            /\ p.shown = p.screen /\ p.msg = m /\ p.said = page.said
<1> DEFINE r == CHOOSE x \in call[k].answer : TRUE
           q == [page EXCEPT !.screen = r.id, !.shown = r.id]
           t == [q EXCEPT !.select = r.status, !.msg = m]
<1>1. page \in PageType /\ call[k] \in CallType
  BY DEF DeskType
<1>2. r \in call[k].answer
  OBVIOUS
<1>3. r.id \in Order /\ r.status \in Desk!UnifiedOrderStatus
  BY <1>1, <1>2, CallFields DEF Desk!Row
<1>4. Desk!Rendered(k, m) = [page EXCEPT !.screen = r.id, !.shown = r.id, !.select = r.status,
                                    !.msg = m]
  BY DEF Desk!Rendered
<1> HIDE DEF r
<1>5. t = [page EXCEPT !.screen = r.id, !.shown = r.id, !.select = r.status, !.msg = m]
  BY <1>1 DEF PageType
<1>6. /\ q \in PageType /\ q.at = page.at /\ q.filter = page.filter
      /\ q.overlap = page.overlap /\ q.tableOf = page.tableOf /\ q.line = page.line
      /\ q.shown = q.screen /\ q.said = page.said
  BY <1>1, <1>3 DEF PageType
<1> HIDE DEF q
<1>7. /\ t \in PageType /\ t.at = q.at /\ t.filter = q.filter
      /\ t.overlap = q.overlap /\ t.tableOf = q.tableOf /\ t.line = q.line
      /\ t.shown = q.shown /\ t.screen = q.screen /\ t.msg = m /\ t.said = q.said
  BY <1>3, <1>6 DEF PageType
<1> HIDE DEF t
<1> QED
  BY <1>4, <1>5, <1>6, <1>7

LEMMA DetailArrivesStep ==
  ASSUME DeskInv, NEW k \in Desk!Slot, Desk!DetailArrives(k)
  PROVE  DeskInv'
<1> DEFINE p == Desk!Rendered(k, "")
<1>1. call[k].answer # {} /\ Desk!Arrive(k, "detail", "served", p, Desk!Free)
  BY DEF Desk!DetailArrives
<1>2. /\ p \in PageType /\ p.at = page.at /\ p.filter = page.filter
      /\ p.overlap = page.overlap /\ p.tableOf = page.tableOf /\ p.line = page.line
      /\ p.shown = p.screen /\ p.msg = ""
  BY <1>1, RenderedType DEF DeskInv
<1> HIDE DEF p
<1> QED
  BY <1>1, <1>2, FreeType, ArriveStep

LEMMA ReloadType ==
  ASSUME DeskInv
  PROVE  /\ Desk!Reload \in CallType /\ GoodCall(Desk!Reload)
         /\ Desk!Reload.kind = "list" /\ Desk!Reload.value = page.filter
<1>1. page.filter \in Filter
  BY PageFields DEF DeskInv, DeskType
<1>2. page.filter \in Desk!UnifiedOrderStatus \cup {All}
  BY <1>1, DeskNames
<1>3. /\ Desk!Reload \in CallType /\ Desk!Reload.kind = "list"
      /\ Desk!Reload.value = page.filter
      /\ Desk!Reload.pc = "sent"
  BY <1>2, SentType DEF Desk!Reload
<1> QED
  BY <1>1, <1>3 DEF GoodCall

LEMMA SaveArrivesStep ==
  ASSUME DeskInv, NEW k \in Desk!Slot, Desk!SaveArrives(k)
  PROVE  DeskInv'
<1> DEFINE r == Desk!Rendered(k, "saved")
           q == [r EXCEPT !.line = "loading", !.overlap = Desk!Loading]
           p == [r EXCEPT !.line = "loading", !.overlap = Desk!Loading, !.said = call[k]]
<1>1. call[k].answer # {} /\ Desk!Arrive(k, "save", "served", p, Desk!Reload)
  BY DEF Desk!SaveArrives
<1>2. /\ call[k] \in CallType /\ GoodCall(call[k]) /\ call[k].kind = "save"
      /\ call[k].pc = "served" /\ page.at = "orders"
  BY <1>1 DEF Desk!Arrive, DeskInv, DeskType
<1>3. /\ r \in PageType /\ r.at = page.at /\ r.filter = page.filter
      /\ r.shown = r.screen /\ r.msg = "saved"
  BY <1>1, RenderedType DEF DeskInv
<1> HIDE DEF r
<1>4. /\ q \in PageType /\ q.at = r.at /\ q.filter = r.filter /\ q.overlap = Desk!Loading
      /\ q.line = "loading" /\ q.shown = r.shown /\ q.screen = r.screen
  BY <1>3, LoadingType DEF PageType
<1>5. p = [q EXCEPT !.said = call[k]]
  BY <1>3 DEF PageType
<1> HIDE DEF q
<1>6. /\ p \in PageType /\ p.at = q.at /\ p.filter = q.filter /\ p.overlap = q.overlap
      /\ p.line = q.line /\ p.shown = q.shown /\ p.screen = q.screen /\ p.said = call[k]
  BY <1>2, <1>4, <1>5 DEF PageType
<1>7. Saved(p.said)
  BY <1>2, <1>6 DEF GoodCall
<1> HIDE DEF p
<1> QED
  BY <1>1, <1>2, <1>3, <1>4, <1>6, <1>7, ReloadType, ArriveStep

LEMMA SyncArrivesStep ==
  ASSUME DeskInv, NEW k \in Desk!Slot, Desk!SyncArrives(k)
  PROVE  DeskInv'
<1> DEFINE p == Desk!LoadWith(page.filter)
<1>1. Desk!Arrive(k, "sync", "served", p, Desk!Reload) /\ page.at = "orders"
  BY DEF Desk!SyncArrives, Desk!Arrive
<1>2. page \in PageType /\ page.filter \in Filter
  BY PageFields DEF DeskInv, DeskType
<1>3. p \in PageType
  BY <1>2, PageLoad, LoadingType DEF Desk!LoadWith
<1>4. /\ p.at = page.at /\ p.shown = page.shown /\ p.screen = page.screen
      /\ p.msg = page.msg /\ p.said = page.said /\ p.filter = page.filter
      /\ p.overlap = Desk!Loading /\ p.line = "loading"
  BY <1>2 DEF Desk!LoadWith, PageType
<1>5. p.shown = p.screen /\ (p.msg = "saved" => Saved(p.said))
  BY <1>4 DEF DeskInv
<1> HIDE DEF p
<1> QED
  BY <1>1, <1>3, <1>4, <1>5, ReloadType, ArriveStep

LEMMA FailsStep ==
  ASSUME DeskInv, NEW k \in Desk!Slot, Desk!Fails(k)
  PROVE  DeskInv'
<1>1. page \in PageType
  BY DEF DeskInv, DeskType
<1>2. PICK pc \in {"sent", "updated", "served", "failed"} :
        \/ \E rows \in {page.table, {}} :
             Desk!Arrive(k, "list", pc, [page EXCEPT !.line = "failed", !.table = rows], Desk!Free)
        \/ Desk!Arrive(k, "sync", pc, [page EXCEPT !.line = "failed"], Desk!Free)
        \/ \E kind \in {"detail", "save"} :
             Desk!Arrive(k, kind, pc, [page EXCEPT !.msg = "failed"], Desk!Free)
  BY DEF Desk!Fails
<1>3. ASSUME NEW rows \in {page.table, {}},
             Desk!Arrive(k, "list", pc, [page EXCEPT !.line = "failed", !.table = rows], Desk!Free)
      PROVE  DeskInv'
  <2> DEFINE p == [page EXCEPT !.line = "failed", !.table = rows]
  <2>1. rows \subseteq Desk!Row
    BY <1>1, PageFields
  <2>2. /\ p \in PageType /\ p.at = page.at /\ p.filter = page.filter
        /\ p.overlap = page.overlap /\ p.line = "failed" /\ p.shown = page.shown
        /\ p.screen = page.screen /\ p.msg = page.msg /\ p.said = page.said
    BY <1>1, <2>1 DEF PageType
  <2>3. p.shown = p.screen /\ (p.msg = "saved" => Saved(p.said))
    BY <2>2 DEF DeskInv
  <2>4. Desk!Arrive(k, "list", pc, p, Desk!Free)
    BY <1>3
  <2> HIDE DEF p
  <2> QED
    BY <2>2, <2>3, <2>4, FreeType, ArriveStep
<1>4. ASSUME Desk!Arrive(k, "sync", pc, [page EXCEPT !.line = "failed"], Desk!Free)
      PROVE  DeskInv'
  <2> DEFINE p == [page EXCEPT !.line = "failed"]
  <2>1. /\ p \in PageType /\ p.at = page.at /\ p.filter = page.filter
        /\ p.overlap = page.overlap /\ p.line = "failed" /\ p.shown = page.shown
        /\ p.screen = page.screen /\ p.msg = page.msg /\ p.said = page.said
        /\ p.tableOf = page.tableOf
    BY <1>1 DEF PageType
  <2>2. p.shown = p.screen /\ (p.msg = "saved" => Saved(p.said))
    BY <2>1 DEF DeskInv
  <2>3. Desk!Arrive(k, "sync", pc, p, Desk!Free)
    BY <1>4
  <2> HIDE DEF p
  <2> QED
    BY <2>1, <2>2, <2>3, FreeType, ArriveStep
<1>5. ASSUME NEW kind \in {"detail", "save"},
             Desk!Arrive(k, kind, pc, [page EXCEPT !.msg = "failed"], Desk!Free)
      PROVE  DeskInv'
  <2> DEFINE p == [page EXCEPT !.msg = "failed"]
  <2>1. /\ p \in PageType /\ p.at = page.at /\ p.filter = page.filter
        /\ p.overlap = page.overlap /\ p.line = page.line /\ p.shown = page.shown
        /\ p.screen = page.screen /\ p.msg = "failed" /\ p.tableOf = page.tableOf
    BY <1>1 DEF PageType
  <2>2. p.shown = p.screen /\ (p.msg = "saved" => Saved(p.said))
    BY <2>1 DEF DeskInv
  <2>3. Desk!Arrive(k, kind, pc, p, Desk!Free)
    BY <1>5
  <2> HIDE DEF p
  <2> QED
    BY <2>1, <2>2, <2>3, FreeType, ArriveStep
<1> QED
  BY <1>2, <1>3, <1>4, <1>5

LEMMA NewPageType ==
  LET p == [Desk!NewPage EXCEPT !.at = "login"]
  IN /\ p \in PageType /\ p.at = "login" /\ p.line = "loading" /\ p.shown = p.screen
     /\ p.msg # "saved"
<1>1. Desk!NewPage \in PageType
  BY FreeType, DeskNames DEF Desk!NewPage, PageType, Desk!UnifiedOrderStatus
<1>2. /\ Desk!NewPage.shown = Desk!NewPage.screen
      /\ Desk!NewPage.msg = ""
      /\ Desk!NewPage.line = "loading"
  BY DEF Desk!NewPage
<1> QED
  BY <1>1, <1>2 DEF PageType

LEMMA DeniedArrivesStep ==
  ASSUME DeskInv, NEW k \in Desk!Slot, Desk!DeniedArrives(k)
  PROVE  DeskInv'
<1>1. page \in PageType
  BY DEF DeskInv, DeskType
<1>2. ASSUME NEW kind \in {"list", "detail"},
             Desk!Arrive(k, kind, "denied", [Desk!NewPage EXCEPT !.at = "login"], Desk!Free)
      PROVE  DeskInv'
  <2> DEFINE p == [Desk!NewPage EXCEPT !.at = "login"]
  <2>1. /\ p \in PageType /\ p.at = "login" /\ p.line = "loading" /\ p.shown = p.screen
        /\ p.msg # "saved"
    BY NewPageType
  <2>2. Desk!Arrive(k, kind, "denied", p, Desk!Free)
    BY <1>2
  <2> HIDE DEF p
  <2> QED
    BY <2>1, <2>2, FreeType, ArriveStep
<1>3. ASSUME Desk!Arrive(k, "save", "denied", [page EXCEPT !.msg = "failed"], Desk!Free)
      PROVE  DeskInv'
  <2> DEFINE p == [page EXCEPT !.msg = "failed"]
  <2>1. /\ p \in PageType /\ p.at = page.at /\ p.filter = page.filter
        /\ p.overlap = page.overlap /\ p.line = page.line /\ p.shown = page.shown
        /\ p.screen = page.screen /\ p.msg = "failed" /\ p.tableOf = page.tableOf
    BY <1>1 DEF PageType
  <2>2. p.shown = p.screen /\ (p.msg = "saved" => Saved(p.said))
    BY <2>1 DEF DeskInv
  <2>3. Desk!Arrive(k, "save", "denied", p, Desk!Free)
    BY <1>3
  <2> HIDE DEF p
  <2> QED
    BY <2>1, <2>2, <2>3, FreeType, ArriveStep
<1> QED
  BY <1>2, <1>3 DEF Desk!DeniedArrives

-----------------------------------------------------------------------------

LEMMA DeskStep == DeskInv /\ [Desk!Next]_<<stored, session, page, call, clicks, pages>> => DeskInv'
<1> SUFFICES ASSUME DeskInv, [Desk!Next]_<<stored, session, page, call, clicks, pages>>
             PROVE  DeskInv'
  OBVIOUS
<1>1. CASE UNCHANGED <<stored, session, page, call, clicks, pages>>
  BY <1>1 DEF DeskInv, DeskType, GoodCall, Saved, LoadInv, Desk!Loading
<1>2. CASE Desk!Next
  BY <1>2, ChooseFilterStep, ClickSyncStep, SaveStatusStep, OpenDetailStep, SyncPageStep,
     PickStatusStep, DeniedStep, ListOrdersStep, GetOrderByIdStep, UpdateStep, ReadBackStep,
     RunSyncStep, ListArrivesStep, DetailArrivesStep, SaveArrivesStep, SyncArrivesStep,
     FailsStep, DeniedArrivesStep, ExpireStep DEF Desk!Next
<1> QED
  BY <1>1, <1>2

LEMMA DeskAlways == Desk!Spec => []DeskInv
BY DeskStart, DeskStep, PTL DEF Desk!Spec, Desk!vars

\* The orders page, the calls it has open and the stored orders keep their
\* types (ordersPage, updateOrderStatus, upsertOrders).
THEOREM DeskTypeCorrect == Desk!Spec => []Desk!TypeOK
<1>1. DeskInv => Desk!TypeOK
  <2> SUFFICES ASSUME DeskInv PROVE Desk!TypeOK
    OBVIOUS
  <2>1. ASSUME NEW c \in CallType PROVE Desk!CallOK(c)
    BY CallFields DEF Desk!CallOK
  <2>2. page \in PageType /\ call \in [Desk!Slot -> CallType]
    BY DEF DeskInv, DeskType
  <2>3. /\ Desk!CallOK(page.said)
        /\ DOMAIN call = Desk!Slot
        /\ \A k \in Desk!Slot : Desk!CallOK(call[k])
    BY <2>1, <2>2, PageFields
  <2> QED
    BY <2>2, <2>3, PageFields DEF DeskInv, DeskType, Desk!TypeOK
<1> QED
  BY <1>1, DeskAlways, PTL

\* A save is of the order whose details are on the screen, and what is called
\* saved is what was selected, unless the order was written again before it was
\* read back (renderDetail, openDetail, updateOrderStatus).
THEOREM SavesAreShown == Desk!Spec => []SavedAsShown
<1>1. DeskInv => SavedAsShown
  BY DEF DeskInv, GoodCall, Saved, SavedAsShown, Desk!SavedAsShown
<1> QED
  BY <1>1, DeskAlways, PTL

\* Under "n orders" are the rows of the filter above the table, unless two
\* loads overlapped (load, ordersUrl).
THEOREM TableFollowsFilter == Desk!Spec => []TableIsOfFilter
<1>1. DeskInv => TableIsOfFilter
  <2> SUFFICES ASSUME DeskInv PROVE TableIsOfFilter
    OBVIOUS
  <2>1. page.at \in {"orders", "login"}
    BY PageFields DEF DeskInv, DeskType
  <2> QED
    BY <2>1 DEF DeskInv, LoadInv, TableIsOfFilter, Desk!TableIsOfFilter
<1> QED
  BY <1>1, DeskAlways, PTL

-----------------------------------------------------------------------------
(* The pull scripts *)

SummaryType == [run : Run, status : {"success", "failed"}, total : [Scripts!Data -> Nat]]

\* What a file may hold.
Items(f) == IF f = "runs" THEN SummaryType ELSE Int
Anything == Int \cup SummaryType

RunType == [pc : {"new", "verify", "fetch", "read", "write", "close", "ended"}, file : Scripts!File,
            page : 1..Pages, got : SUBSET Anything, out : SUBSET Anything,
            total : [Scripts!Data -> Nat]]

\* A run's page and what it is merged into are of its file, and finite; it
\* starts with nothing.
RunOK(m) ==
  /\ m \in RunType
  /\ IsFiniteSet(m.got) /\ IsFiniteSet(m.out)
  /\ m.pc # "ended" => m.got \subseteq Items(m.file) /\ m.out \subseteq Items(m.file)
  /\ m.pc \in {"new", "verify"} => m.file = "orders"
  /\ m.pc \in {"fetch", "new", "verify"} => m.file \in Scripts!Data /\ m.got = {} /\ m.out = {}
  /\ m.pc = "read" => m.out = {}

PullType ==
  /\ script \in Scripts!Script /\ env \subseteq Scripts!Env
  /\ files \in [Scripts!File -> [content : SUBSET Anything, torn : BOOLEAN]]
  /\ \A f \in Scripts!File : files[f].content \subseteq Items(f) /\ IsFiniteSet(files[f].content)
  /\ pulled \in [Scripts!File -> SUBSET Anything]
  /\ \A f \in Scripts!File : pulled[f] \subseteq Items(f)
  /\ DOMAIN runs = Run /\ \A r \in Run : RunOK(runs[r])
  /\ pullFaults \in 0..MaxPullFaults /\ damaged \subseteq Scripts!File

\* A run that may be recorded as a success while the files d are damaged: all
\* its pages were merged, and the totals are right of the other files.
Whole(r, total, d) ==
  \A f \in Scripts!Data :
    /\ Scripts!Listing(r, f) \subseteq pulled[f]
    /\ f \notin d => total[f] >= Cardinality(Scripts!Listing(r, f))

\* How far a run is: the pages before this one were merged, the one in hand is
\* of the list, and what is about to be written to a file that is not damaged
\* holds it and all there was.
Progress(r, m, d) ==
  /\ m.file = "runs" => \A s \in m.got : /\ s.run = r
                                         /\ s.status = "success" => Whole(r, s.total, d)
  /\ m.file \in Scripts!Data /\ m.pc \in {"read", "write", "close"}
       => m.got = Lists[r][m.file][m.page]
  /\ m.file \in Scripts!Data /\ m.pc \in {"fetch", "read", "write", "close"}
       => \A n \in 1..(m.page - 1) : Lists[r][m.file][n] \subseteq pulled[m.file]
  /\ m.file = "products" => /\ Scripts!Listing(r, "orders") \subseteq pulled["orders"]
                            /\ "orders" \notin d =>
                                 m.total["orders"] >= Cardinality(Scripts!Listing(r, "orders"))
  /\ m.pc \in {"write", "close"} /\ m.file \notin d => pulled[m.file] \cup m.got \subseteq m.out

\* A file that is not damaged is torn only while a run writes it, and there is
\* one run at work at most as long as there is such a file.
Alone == \A r, q \in Run : Scripts!AtWork(r) /\ Scripts!AtWork(q) => r = q
TornByOne == \A f \in Scripts!File \ damaged :
               files[f].torn => \E r \in Run : runs[r].pc = "close" /\ runs[r].file = f
Kept == \A f \in Scripts!File \ damaged : files[f].torn \/ pulled[f] \subseteq files[f].content
OnTheWay == \A r \in Run : Scripts!AtWork(r) => Progress(r, runs[r], damaged)
Recorded == \A s \in pulled["runs"] : s.status = "success" => Whole(s.run, s.total, damaged)

PullInv ==
  /\ PullType /\ TornByOne /\ Kept /\ OnTheWay /\ Recorded
  /\ damaged # Scripts!File => Alone

-----------------------------------------------------------------------------

LEMMA PullNames == /\ Pages \in Nat \ {0} /\ MaxPullFaults \in Nat
                   /\ Envs \subseteq SUBSET Scripts!Env
                   /\ Lists \in [Run -> [Scripts!Data -> [1..Pages -> SUBSET Int]]]
                   /\ \A r \in Run, f \in Scripts!Data, n \in 1..Pages : IsFiniteSet(Lists[r][f][n])
BY SellerAssumption DEF Scripts!PullAssumption, Scripts!IsFiniteSet, IsFiniteSet

LEMMA Part ==
  ASSUME NEW T, IsFiniteSet(T), NEW S \in SUBSET T
  PROVE  Cardinality(T) \in Nat /\ Cardinality(S) \in Nat /\ Cardinality(S) <= Cardinality(T)
<1>1. Cardinality(T) \in Nat
  BY FS_CardinalityType
<1>2. IsFiniteSet(S) /\ Cardinality(S) <= Cardinality(T)
  BY FS_Subset
<1> QED
  BY <1>1, <1>2, FS_CardinalityType

LEMMA SmallSets == /\ IsFiniteSet({}) /\ \A x : IsFiniteSet({x})
                   /\ \A S, T : IsFiniteSet(S) /\ IsFiniteSet(T) => IsFiniteSet(S \cup T)
BY FS_EmptySet, FS_Singleton, FS_Union

LEMMA RunFields ==
  ASSUME NEW m \in RunType
  PROVE  /\ m.pc \in {"new", "verify", "fetch", "read", "write", "close", "ended"}
         /\ m.file \in Scripts!File /\ m.page \in 1..Pages /\ m.got \subseteq Anything
         /\ m.out \subseteq Anything /\ m.total \in [Scripts!Data -> Nat]
BY DEF RunType

LEMMA DataFiles == /\ Scripts!Data \subseteq Scripts!File
                   /\ "orders" \in Scripts!Data /\ "products" \in Scripts!Data
                   /\ "runs" \notin Scripts!Data /\ "runs" \in Scripts!File
                   /\ Scripts!File = Scripts!Data \cup {"runs"}
                   /\ \A f \in Scripts!Data : f = "orders" \/ f = "products"
BY DEF Scripts!Data, Scripts!File

LEMMA NewRun == /\ RunOK(Scripts!NotStarted)
                /\ Scripts!NotStarted.pc = "new"
                /\ Scripts!NoTotal \in [Scripts!Data -> Nat]
<1>1. Scripts!NoTotal \in [Scripts!Data -> Nat]
  BY DEF Scripts!NoTotal
<1>2. {} \in SUBSET Anything
  OBVIOUS
<1>3. Scripts!NotStarted \in RunType
  BY <1>1, <1>2, PullNames, DataFiles DEF Scripts!NotStarted, RunType
<1> QED
  BY <1>1, <1>3, SmallSets, DataFiles DEF Scripts!NotStarted, RunOK

\* A run that gives up: what it has in hand is the summary of a failure.
LEMMA FailedRun ==
  ASSUME NEW r \in Run, NEW d
  PROVE  /\ RunOK(Scripts!Failed(r)) /\ Scripts!Failed(r).pc = "read"
         /\ Progress(r, Scripts!Failed(r), d)
<1> DEFINE s == Scripts!Summary(r, "failed", Scripts!NoTotal)
           p == [Scripts!NotStarted EXCEPT !.pc = "read", !.file = "runs"]
           m == [p EXCEPT !.got = {s}]
<1>1. s \in SummaryType /\ s.run = r /\ s.status = "failed"
  BY NewRun DEF Scripts!Summary, SummaryType
<1>2. Scripts!Failed(r) = m
  BY DEF Scripts!Failed, Scripts!NotStarted
<1> HIDE DEF s
<1>3. p \in RunType /\ p.pc = "read" /\ p.file = "runs" /\ p.out = {}
  BY NewRun, DataFiles DEF Scripts!NotStarted, RunOK, RunType
<1> HIDE DEF p
<1>4. {s} \in SUBSET Anything
  BY <1>1 DEF Anything
<1>5. m \in RunType /\ m.pc = "read" /\ m.file = "runs" /\ m.out = {} /\ m.got = {s}
  BY <1>3, <1>4 DEF RunType
<1> HIDE DEF m
<1>6. RunOK(m)
  BY <1>1, <1>5, SmallSets, DataFiles DEF RunOK, Items
<1>7. Progress(r, m, d)
  BY <1>1, <1>5, DataFiles DEF Progress
<1> QED
  BY <1>2, <1>5, <1>6, <1>7

LEMMA EndedRun ==
  ASSUME NEW r \in Run, RunOK(runs[r])
  PROVE  RunOK(Scripts!Ended(r)) /\ Scripts!Ended(r).pc = "ended"
BY DEF RunOK, RunType, Scripts!Ended

\* What a run does when the store throws.
LEMMA ThrownRun ==
  ASSUME NEW r \in Run, RunOK(runs[r]), NEW d
  PROVE  /\ RunOK(Scripts!Thrown(r)) /\ Scripts!Thrown(r).pc \in {"read", "ended"}
         /\ Scripts!Thrown(r).pc # "ended" => Progress(r, Scripts!Thrown(r), d)
BY FailedRun, EndedRun DEF Scripts!Thrown

\* One run becomes m.
LEMMA RunBecomes ==
  ASSUME PullType, NEW r \in Run, NEW m, RunOK(m), Scripts!To(r, m)
  PROVE  /\ DOMAIN runs' = Run /\ runs'[r] = m /\ \A q \in Run : q # r => runs'[q] = runs[q]
         /\ \A q \in Run : RunOK(runs'[q])
<1>1. runs' = [runs EXCEPT ![r] = m] /\ DOMAIN runs = Run /\ \A q \in Run : RunOK(runs[q])
  BY DEF Scripts!To, PullType
<1> QED
  BY <1>1

LEMMA PullFault ==
  ASSUME PullType, Scripts!Fault \/ UNCHANGED pullFaults
  PROVE  pullFaults' \in 0..MaxPullFaults
BY PullNames DEF PullType, Scripts!Fault

\* What holds while the files d are damaged holds while more of them are.
LEMMA MoreDamage ==
  ASSUME NEW d, NEW e, d \subseteq e
  PROVE  /\ \A r, t : Whole(r, t, d) => Whole(r, t, e)
         /\ \A r, m : Progress(r, m, d) => Progress(r, m, e)
BY DEF Whole, Progress

\* A step of one run that touches no file: it goes on or ends, and where it goes
\* on it is the only one unless every file is damaged.
LEMMA QuietStep ==
  ASSUME PullInv, NEW r \in Run, NEW m, RunOK(m), Scripts!To(r, m),
         UNCHANGED <<script, env, files, pulled>>, Scripts!Fault \/ UNCHANGED pullFaults,
         damaged \subseteq damaged', damaged' \subseteq Scripts!File,
         runs[r].pc = "close" => runs[r].file \in damaged',
         m.pc \notin {"new", "ended"} =>
           /\ Progress(r, m, damaged')
           /\ damaged' # Scripts!File => \A q \in Run : Scripts!AtWork(q) => q = r
  PROVE  PullInv'
<1>1. /\ DOMAIN runs' = Run /\ runs'[r] = m /\ \A q \in Run : q # r => runs'[q] = runs[q]
      /\ \A q \in Run : RunOK(runs'[q])
  BY RunBecomes DEF PullInv
<1>2. PullType'
  <2>1. pullFaults' \in 0..MaxPullFaults
    BY PullFault DEF PullInv
  <2>2. \A q \in Run : RunOK(runs[q])'
    BY <1>1 DEF RunOK, Items
  <2> QED
    BY <1>1, <2>1, <2>2 DEF PullInv, PullType, Items
<1>3. TornByOne /\ Kept /\ OnTheWay /\ Recorded /\ (damaged # Scripts!File => Alone)
      /\ damaged \subseteq Scripts!File
  BY DEF PullInv, PullType
<1>4. /\ \A q \in Run : q # r => (Scripts!AtWork(q)' <=> Scripts!AtWork(q))
      /\ Scripts!AtWork(r)' <=> m.pc \notin {"new", "ended"}
  BY <1>1 DEF Scripts!AtWork
<1>5. (damaged # Scripts!File => Alone)'
  <2> SUFFICES ASSUME damaged' # Scripts!File PROVE Alone'
    BY DEF Scripts!File, Scripts!Data
  <2>1. Alone
    BY <1>3
  <2> QED
    BY <1>4, <2>1 DEF Alone
<1>6. TornByOne'
  <2> SUFFICES ASSUME NEW f \in Scripts!File \ damaged', files[f].torn
               PROVE  \E q \in Run : runs'[q].pc = "close" /\ runs'[q].file = f
    BY DEF TornByOne, Scripts!File, Scripts!Data
  <2>1. PICK q \in Run : runs[q].pc = "close" /\ runs[q].file = f
    BY <1>3 DEF TornByOne
  <2>2. q # r
    BY <2>1
  <2> QED
    BY <1>1, <2>1, <2>2
<1>7. Kept'
  BY <1>3 DEF Kept, Scripts!File, Scripts!Data
<1>8. Recorded'
  <2> SUFFICES ASSUME NEW s \in pulled["runs"], s.status = "success"
               PROVE  Whole(s.run, s.total, damaged')
    BY DEF Recorded, Whole, Scripts!Listing
  <2>1. Whole(s.run, s.total, damaged)
    BY <1>3 DEF Recorded
  <2> QED
    BY <2>1, MoreDamage
<1>9. OnTheWay'
  <2> SUFFICES ASSUME NEW q \in Run, Scripts!AtWork(q)'
               PROVE  Progress(q, runs[q], damaged)'
    BY DEF OnTheWay
  <2>1. ASSUME q = r PROVE Progress(q, runs'[q], damaged')
    BY <1>1, <1>4, <2>1
  <2>2. ASSUME q # r PROVE Progress(q, runs'[q], damaged')
    <3>1. Progress(q, runs[q], damaged)
      BY <1>3, <1>4, <2>2 DEF OnTheWay
    <3> QED
      BY <1>1, <2>2, <3>1, MoreDamage
  <2>3. Progress(q, runs'[q], damaged')
    BY <2>1, <2>2
  <2>4. pulled' = pulled
    OBVIOUS
  <2> QED
    BY <2>3, <2>4 DEF Progress, Whole, Scripts!Listing
<1> QED
  BY <1>2, <1>5, <1>6, <1>7, <1>8, <1>9 DEF PullInv

\* What the run in hand and the others are, where there is one.
LEMMA OnlyOne ==
  ASSUME PullInv, NEW r \in Run, Scripts!AtWork(r)
  PROVE  /\ Progress(r, runs[r], damaged)
         /\ damaged # Scripts!File => \A q \in Run : Scripts!AtWork(q) => q = r
BY DEF PullInv, OnTheWay, Alone

\* The store throws before it has touched the file.
LEMMA ThrownStep ==
  ASSUME PullInv, NEW r \in Run, Scripts!AtWork(r), Scripts!Fault,
         Scripts!To(r, Scripts!Thrown(r)), UNCHANGED <<script, env, files, pulled>>,
         \/ damaged' = damaged /\ runs[r].pc # "close"
         \/ damaged' = damaged \cup {runs[r].file}
  PROVE  PullInv'
<1>1. RunOK(runs[r]) /\ runs[r].file \in Scripts!File /\ damaged \subseteq Scripts!File
  BY RunFields DEF PullInv, PullType, RunOK
<1> DEFINE m == Scripts!Thrown(r)
<1>2. RunOK(m) /\ (m.pc # "ended" => Progress(r, m, damaged'))
  BY <1>1, ThrownRun
<1> HIDE DEF m
<1>3. Scripts!To(r, m)
  BY DEF m
<1>4. damaged' # Scripts!File => \A q \in Run : Scripts!AtWork(q) => q = r
  <2>1. damaged' # Scripts!File => damaged # Scripts!File
    BY <1>1
  <2> QED
    BY <2>1, OnlyOne
<1> QED
  BY <1>1, <1>2, <1>3, <1>4, QuietStep

LEMMA StartStep ==
  ASSUME PullInv, NEW r \in Run, Scripts!Start(r)
  PROVE  PullInv'
<1> DEFINE m == [Scripts!NotStarted EXCEPT !.pc = IF Scripts!Configured THEN "verify" ELSE "ended"]
<1>1. /\ RunOK(m) /\ m.pc = (IF Scripts!Configured THEN "verify" ELSE "ended")
      /\ m.file = "orders"
  BY NewRun, SmallSets, DataFiles DEF Scripts!NotStarted, RunOK, RunType
<1>2. /\ Scripts!To(r, m) /\ UNCHANGED <<script, env, files, pullFaults, pulled>>
      /\ damaged' = IF Scripts!Configured /\ \E s \in Run : Scripts!AtWork(s)
                      THEN Scripts!File ELSE damaged
      /\ runs[r].pc = "new"
  BY DEF Scripts!Start
<1> HIDE DEF m
<1>3. m.pc \notin {"new", "ended"} =>
        /\ Progress(r, m, damaged')
        /\ damaged' # Scripts!File => \A q \in Run : Scripts!AtWork(q) => q = r
  BY <1>1, <1>2, DataFiles DEF Progress
<1>4. damaged \subseteq damaged' /\ damaged' \subseteq Scripts!File
  BY <1>2 DEF PullInv, PullType
<1> QED
  BY <1>1, <1>2, <1>3, <1>4, QuietStep

LEMMA VerifyStep ==
  ASSUME PullInv, NEW r \in Run, Scripts!Verify(r)
  PROVE  PullInv'
<1>1. /\ runs[r].pc = "verify" /\ RunOK(runs[r]) /\ runs[r].out = {} /\ runs[r].got = {}
      /\ runs[r] \in RunType /\ Scripts!AtWork(r) /\ damaged \subseteq Scripts!File
      /\ UNCHANGED <<script, env, files, pulled, damaged>>
  BY DEF PullInv, PullType, Scripts!Verify, RunOK, Scripts!AtWork
<1>2. damaged # Scripts!File => \A q \in Run : Scripts!AtWork(q) => q = r
  BY <1>1, OnlyOne
<1>3. CASE Scripts!To(r, Scripts!Ask(r, "orders")) /\ UNCHANGED pullFaults
  <2> DEFINE p == [runs[r] EXCEPT !.pc = "fetch", !.file = "orders"]
             m == [p EXCEPT !.page = 1]
  <2>1. Scripts!Ask(r, "orders") = m
    BY <1>1 DEF Scripts!Ask, RunType
  <2>2. p \in RunType /\ p.pc = "fetch" /\ p.file = "orders" /\ p.out = {} /\ p.got = {}
    BY <1>1, DataFiles DEF RunType
  <2> HIDE DEF p
  <2>3. /\ m \in RunType /\ m.pc = "fetch" /\ m.file = "orders" /\ m.out = {} /\ m.got = {}
        /\ m.page = 1
    <3>1. 1 \in 1..Pages
      BY PullNames
    <3> QED
      BY <2>2, <3>1 DEF RunType
  <2> HIDE DEF m
  <2>4. RunOK(m)
    BY <2>3, SmallSets, DataFiles DEF RunOK
  <2>5. Progress(r, m, damaged)
    BY <2>3, DataFiles DEF Progress
  <2> QED
    BY <1>1, <1>2, <1>3, <2>1, <2>4, <2>5, QuietStep
<1>4. CASE Scripts!Fault /\ Scripts!To(r, Scripts!Ended(r))
  <2> DEFINE m == Scripts!Ended(r)
  <2>1. m.pc = "ended" /\ RunOK(m) /\ Scripts!To(r, m)
    BY <1>1, <1>4, EndedRun
  <2> HIDE DEF m
  <2> QED
    BY <1>1, <1>4, <2>1, QuietStep
<1>5. CASE Scripts!Fault /\ Scripts!To(r, Scripts!Failed(r))
  <2> DEFINE m == Scripts!Failed(r)
  <2>1. RunOK(m) /\ Progress(r, m, damaged) /\ Scripts!To(r, m)
    BY <1>5, FailedRun
  <2> HIDE DEF m
  <2> QED
    BY <1>1, <1>2, <1>5, <2>1, QuietStep
<1> QED
  BY <1>3, <1>4, <1>5 DEF Scripts!Verify

LEMMA FetchPageStep ==
  ASSUME PullInv, NEW r \in Run, Scripts!FetchPage(r)
  PROVE  PullInv'
<1>1. /\ runs[r].pc = "fetch" /\ RunOK(runs[r]) /\ runs[r].out = {} /\ runs[r].got = {}
      /\ runs[r] \in RunType /\ Scripts!AtWork(r) /\ damaged \subseteq Scripts!File
      /\ runs[r].file \in Scripts!Data
      /\ UNCHANGED <<script, env, files, pulled, damaged>>
  BY DEF PullInv, PullType, Scripts!FetchPage, RunOK, Scripts!AtWork
<1>2. /\ Progress(r, runs[r], damaged)
      /\ damaged # Scripts!File => \A q \in Run : Scripts!AtWork(q) => q = r
  BY <1>1, OnlyOne
<1> DEFINE g == Lists[r][runs[r].file][runs[r].page]
           m == [runs[r] EXCEPT !.pc = "read", !.got = g]
<1>3. CASE Scripts!To(r, m) /\ UNCHANGED pullFaults
  <2>1. g \subseteq Int /\ IsFiniteSet(g)
    BY <1>1, PullNames, RunFields
  <2>2. g \in SUBSET Anything
    BY <2>1 DEF Anything
  <2> HIDE DEF g
  <2>3. /\ m \in RunType /\ m.pc = "read" /\ m.file = runs[r].file /\ m.out = {}
        /\ m.got = g
        /\ m.page = runs[r].page /\ m.total = runs[r].total
    BY <1>1, <2>2 DEF RunType
  <2>4. Scripts!To(r, m)
    BY <1>3
  <2> HIDE DEF m
  <2>5. RunOK(m)
    BY <1>1, <2>1, <2>3, SmallSets, DataFiles DEF RunOK, Items
  <2>6. Progress(r, m, damaged)
    BY <1>1, <1>2, <2>3, DataFiles DEF Progress, g
  <2> QED
    BY <1>1, <1>2, <1>3, <2>4, <2>5, <2>6, QuietStep
<1>4. CASE Scripts!Fault /\ Scripts!To(r, Scripts!Failed(r))
  <2> DEFINE q == Scripts!Failed(r)
  <2>1. RunOK(q) /\ Progress(r, q, damaged) /\ Scripts!To(r, q)
    BY <1>4, FailedRun
  <2> HIDE DEF q
  <2> QED
    BY <1>1, <1>2, <1>4, <2>1, QuietStep
<1> QED
  BY <1>3, <1>4 DEF Scripts!FetchPage

LEMMA CrashStep ==
  ASSUME PullInv, NEW r \in Run, Scripts!Crash(r)
  PROVE  PullInv'
<1> DEFINE m == Scripts!Ended(r)
<1>1. /\ RunOK(runs[r]) /\ runs[r].file \in Scripts!File /\ damaged \subseteq Scripts!File
      /\ UNCHANGED <<script, env, files, pulled>> /\ Scripts!Fault /\ Scripts!To(r, m)
      /\ damaged' = damaged \cup (IF runs[r].pc = "close" THEN {runs[r].file} ELSE {})
  BY RunFields DEF PullInv, PullType, Scripts!Crash, RunOK
<1>2. m.pc = "ended" /\ RunOK(m)
  BY <1>1, EndedRun
<1> HIDE DEF m
<1> QED
  BY <1>1, <1>2, QuietStep

\* The merge loses nothing of what is on file: no other run has truncated it,
\* unless it is damaged, as it is where it could not be read.
LEMMA MergeStep ==
  ASSUME PullInv, NEW r \in Run, Scripts!Merge(r)
  PROVE  PullInv'
<1> DEFINE f == runs[r].file
           Write(found) == [runs[r] EXCEPT !.pc = "write", !.out = found \cup runs[r].got]
<1>1. /\ runs[r].pc = "read" /\ RunOK(runs[r]) /\ runs[r] \in RunType /\ Scripts!AtWork(r)
      /\ damaged \subseteq Scripts!File /\ f \in Scripts!File
      /\ UNCHANGED <<script, env, files, pulled>>
  BY RunFields DEF PullInv, PullType, Scripts!Merge, RunOK, Scripts!AtWork
<1>2. /\ Progress(r, runs[r], damaged)
      /\ damaged # Scripts!File => \A q \in Run : Scripts!AtWork(q) => q = r
  BY <1>1, OnlyOne
<1>3. CASE Scripts!Fault /\ Scripts!To(r, Scripts!Thrown(r)) /\ UNCHANGED damaged
  BY <1>1, <1>3, ThrownStep
<1>4. ASSUME NEW found, found \subseteq Items(f), IsFiniteSet(found),
             Scripts!To(r, Write(found)), Scripts!Fault \/ UNCHANGED pullFaults,
             damaged \subseteq damaged', damaged' \subseteq Scripts!File,
             f \notin damaged' => pulled[f] \subseteq found
      PROVE  PullInv'
  <2> DEFINE w == found \cup runs[r].got
             m == [runs[r] EXCEPT !.pc = "write", !.out = w]
  <2>1. w \subseteq Items(f) /\ IsFiniteSet(w)
    BY <1>1, <1>4, SmallSets DEF RunOK
  <2>2. w \in SUBSET Anything
    BY <2>1 DEF Anything, Items
  <2>3. f \notin damaged' => pulled[f] \cup runs[r].got \subseteq w
    BY <1>4
  <2> HIDE DEF w
  <2>4. /\ m \in RunType /\ m.pc = "write" /\ m.file = f /\ m.out = w
        /\ m.got = runs[r].got /\ m.page = runs[r].page /\ m.total = runs[r].total
    BY <1>1, <2>2 DEF RunType
  <2>5. Scripts!To(r, m)
    BY <1>4 DEF w
  <2> HIDE DEF m
  <2>6. RunOK(m)
    BY <1>1, <2>1, <2>4 DEF RunOK
  <2>7. Progress(r, runs[r], damaged')
    BY <1>2, <1>4, MoreDamage
  <2>8. Progress(r, m, damaged')
    BY <1>1, <2>3, <2>4, <2>7 DEF Progress
  <2>9. damaged' # Scripts!File => \A q \in Run : Scripts!AtWork(q) => q = r
    <3>1. damaged' # Scripts!File => damaged # Scripts!File
      BY <1>4
    <3> QED
      BY <1>2, <3>1
  <2> QED
    BY <1>1, <1>4, <2>5, <2>6, <2>8, <2>9, QuietStep
<1>5. CASE Scripts!To(r, Write(files[f].content)) /\ UNCHANGED <<pullFaults, damaged>>
  <2>1. files[f].content \subseteq Items(f) /\ IsFiniteSet(files[f].content)
    BY <1>1 DEF PullInv, PullType
  <2>2. f \notin damaged => pulled[f] \subseteq files[f].content
    <3> SUFFICES ASSUME f \notin damaged PROVE pulled[f] \subseteq files[f].content
      OBVIOUS
    <3>1. TornByOne /\ Kept /\ \A q \in Run : Scripts!AtWork(q) => q = r
      BY <1>1, <1>2 DEF PullInv
    <3>2. ~files[f].torn
      BY <1>1, <3>1 DEF TornByOne, Scripts!AtWork
    <3> QED
      BY <1>1, <3>1, <3>2 DEF Kept
  <2> HIDE DEF Write, f
  <2> QED
    BY <1>1, <1>4, <1>5, <2>1, <2>2
<1>6. CASE Scripts!Fault /\ Scripts!To(r, Write({})) /\ damaged' = damaged \cup {f}
  <2>1. {} \subseteq Items(f) /\ IsFiniteSet({})
    BY SmallSets
  <2> HIDE DEF Write, f
  <2> QED
    BY <1>1, <1>4, <1>6, <2>1
<1> QED
  BY <1>3, <1>5, <1>6 DEF Scripts!Merge

\* The file is torn, and this run is the one that closes it.
LEMMA TruncateStep ==
  ASSUME PullInv, NEW r \in Run, Scripts!Truncate(r)
  PROVE  PullInv'
<1> DEFINE f == runs[r].file
           m == [runs[r] EXCEPT !.pc = "close"]
           w == [content |-> {}, torn |-> TRUE]
<1>0. CASE Scripts!Fault /\ Scripts!To(r, Scripts!Thrown(r)) /\ UNCHANGED files
  BY <1>0, ThrownStep DEF Scripts!Truncate, Scripts!AtWork
<1> SUFFICES ASSUME Scripts!To(r, m), files' = [files EXCEPT ![f] = w], UNCHANGED pullFaults
             PROVE  PullInv'
  BY <1>0 DEF Scripts!Truncate
<1>1. /\ runs[r].pc = "write" /\ RunOK(runs[r]) /\ runs[r] \in RunType
      /\ Scripts!AtWork(r) /\ f \in Scripts!File
      /\ UNCHANGED <<script, env, pullFaults, pulled, damaged>> /\ Scripts!To(r, m)
      /\ files' = [files EXCEPT ![f] = w] /\ PullType
  BY RunFields DEF PullInv, PullType, Scripts!Truncate, RunOK, Scripts!AtWork
<1>2. /\ m \in RunType /\ m.pc = "close" /\ m.file = f /\ m.out = runs[r].out
      /\ m.got = runs[r].got /\ m.page = runs[r].page /\ m.total = runs[r].total
  BY <1>1 DEF RunType
<1> HIDE DEF m
<1>3. RunOK(m)
  BY <1>1, <1>2 DEF RunOK
<1>4. /\ DOMAIN runs' = Run /\ runs'[r] = m /\ \A q \in Run : q # r => runs'[q] = runs[q]
      /\ \A q \in Run : RunOK(runs'[q])
  BY <1>1, <1>3, RunBecomes
<1> HIDE DEF f
<1>5. w \in [content : SUBSET Anything, torn : BOOLEAN]
  <2>1. {} \in SUBSET Anything /\ TRUE \in BOOLEAN
    OBVIOUS
  <2> QED
    BY <2>1
<1>6. /\ files' \in [Scripts!File -> [content : SUBSET Anything, torn : BOOLEAN]]
      /\ files'[f].content = {} /\ files'[f].torn
      /\ \A g \in Scripts!File : g # f => files'[g] = files[g]
  BY <1>1, <1>5 DEF PullType
<1>7. PullType'
  <2>1. \A q \in Run : RunOK(runs[q])'
    BY <1>4 DEF RunOK, Items
  <2>2. /\ \A g \in Scripts!File : files'[g].content \subseteq Items(g) /\ IsFiniteSet(files'[g].content)
    BY <1>1, <1>6, SmallSets DEF PullType
  <2> QED
    BY <1>1, <1>4, <1>6, <2>1, <2>2 DEF PullType, Items
<1>8. /\ TornByOne /\ Kept /\ OnTheWay /\ Recorded /\ (damaged # Scripts!File => Alone)
      /\ Progress(r, runs[r], damaged)
  BY <1>1, OnlyOne DEF PullInv
<1>9. \A q \in Run : Scripts!AtWork(q)' <=> Scripts!AtWork(q)
  BY <1>1, <1>2, <1>4 DEF Scripts!AtWork
<1>10. TornByOne'
  <2> SUFFICES ASSUME NEW g \in Scripts!File \ damaged, files'[g].torn
               PROVE  \E q \in Run : runs'[q].pc = "close" /\ runs'[q].file = g
    BY <1>1 DEF TornByOne, Scripts!File, Scripts!Data
  <2>1. CASE g = f
    BY <1>2, <1>4, <2>1
  <2>2. CASE g # f
    <3>1. PICK q \in Run : runs[q].pc = "close" /\ runs[q].file = g
      BY <1>6, <1>8, <2>2 DEF TornByOne
    <3>2. q # r
      BY <1>1, <3>1
    <3> QED
      BY <1>4, <3>1, <3>2
  <2> QED
    BY <2>1, <2>2
<1>11. Kept'
  BY <1>1, <1>6, <1>8 DEF Kept, Scripts!File, Scripts!Data
<1>12. Recorded'
  BY <1>1, <1>8 DEF Recorded, Whole, Scripts!Listing
<1>13. Progress(r, m, damaged)
  BY <1>1, <1>2, <1>8 DEF Progress, f
<1>14. OnTheWay'
  <2> SUFFICES ASSUME NEW q \in Run, Scripts!AtWork(q)'
               PROVE  Progress(q, runs[q], damaged)'
    BY DEF OnTheWay
  <2>1. ASSUME q = r PROVE Progress(q, runs'[q], damaged)
    BY <1>4, <1>13, <2>1
  <2>2. ASSUME q # r PROVE Progress(q, runs'[q], damaged)
    BY <1>4, <1>8, <1>9, <2>2 DEF OnTheWay
  <2>3. Progress(q, runs'[q], damaged)
    BY <2>1, <2>2
  <2>4. pulled' = pulled /\ damaged' = damaged
    BY <1>1
  <2> QED
    BY <2>3, <2>4 DEF Progress, Whole, Scripts!Listing
<1>15. (damaged # Scripts!File => Alone)'
  <2> SUFFICES ASSUME damaged # Scripts!File PROVE Alone'
    BY <1>1 DEF Scripts!File, Scripts!Data
  <2> QED
    BY <1>8, <1>9 DEF Alone
<1> QED
  BY <1>7, <1>10, <1>11, <1>12, <1>14, <1>15 DEF PullInv

\* What follows a write, field by field.
LEMMA FollowingRun ==
  ASSUME NEW r \in Run, RunOK(runs[r]), runs[r].pc = "close", NEW total \in [Scripts!Data -> Nat]
  PROVE  LET m == Scripts!Following(r, total)
             p == runs[r]
         IN /\ RunOK(m)
            /\ \/ p.file = "runs" /\ m.pc = "ended"
               \/ /\ p.file \in Scripts!Data /\ p.page < Pages /\ m.pc = "fetch" /\ m.file = p.file
                  /\ m.page = p.page + 1 /\ m.total = total
               \/ /\ p.file = "orders" /\ p.page = Pages /\ m.pc = "fetch"
                  /\ m.file = "products" /\ m.page = 1 /\ m.total = total
               \/ /\ p.file = "products" /\ p.page = Pages /\ m.pc = "read"
                  /\ m.file = "runs" /\ m.got = {Scripts!Summary(r, "success", total)}
<1> DEFINE p == runs[r]
           x == [p EXCEPT !.total = total, !.got = {}]
           e == [p EXCEPT !.total = total, !.got = {}, !.out = {}]
           m == Scripts!Following(r, total)
<1>1. p \in RunType /\ p.file \in Scripts!File /\ p.page \in 1..Pages
  BY RunFields DEF RunOK
<1>2. /\ x \in RunType /\ x.pc = "close" /\ x.file = p.file /\ x.page = p.page
      /\ x.total = total /\ x.got = {}
  BY <1>1 DEF RunType
<1>3. e = [x EXCEPT !.out = {}]
  BY <1>1 DEF RunType
<1> HIDE DEF x
<1>4. /\ e \in RunType /\ e.pc = "close" /\ e.file = p.file /\ e.page = p.page
      /\ e.total = total /\ e.got = {} /\ e.out = {}
  BY <1>2, <1>3 DEF RunType
<1>5. m = CASE e.file = "runs" -> [e EXCEPT !.pc = "ended"]
            [] e.file # "runs" /\ e.page < Pages ->
                 [e EXCEPT !.pc = "fetch", !.page = e.page + 1]
            [] e.file = "orders" /\ e.page = Pages ->
                 [e EXCEPT !.pc = "fetch", !.file = "products", !.page = 1]
            [] e.file = "products" /\ e.page = Pages ->
                 [e EXCEPT !.pc = "read", !.file = "runs",
                           !.got = {Scripts!Summary(r, "success", total)}]
  BY DEF Scripts!Following
<1> HIDE DEF e, m
<1>6. Pages \in Nat \ {0} /\ 1 \in 1..Pages
  BY PullNames
<1>7. CASE e.file = "runs"
  <2>1. m = [e EXCEPT !.pc = "ended"]
    BY <1>5, <1>7
  <2>2. m \in RunType /\ m.pc = "ended" /\ m.got = {} /\ m.out = {}
    BY <1>4, <2>1 DEF RunType
  <2> QED
    BY <1>4, <1>7, <2>2, SmallSets DEF RunOK, m, p
<1>8. CASE e.file # "runs" /\ e.page < Pages
  <2>1. m = [e EXCEPT !.pc = "fetch", !.page = e.page + 1]
    BY <1>1, <1>4, <1>5, <1>6, <1>8
  <2>2. e.page + 1 \in 1..Pages /\ e.file \in Scripts!Data
    BY <1>1, <1>4, <1>6, <1>8, DataFiles
  <2>3. /\ m \in RunType /\ m.pc = "fetch" /\ m.got = {} /\ m.out = {} /\ m.file = e.file
        /\ m.page = e.page + 1 /\ m.total = total
    BY <1>4, <2>1, <2>2 DEF RunType
  <2> QED
    BY <1>4, <1>8, <2>2, <2>3, SmallSets DEF RunOK, m, p
<1>9. CASE e.file = "orders" /\ e.page = Pages
  <2> DEFINE y == [e EXCEPT !.pc = "fetch", !.file = "products"]
  <2>1. m = [e EXCEPT !.pc = "fetch", !.file = "products", !.page = 1]
    BY <1>5, <1>6, <1>9
  <2>2. m = [y EXCEPT !.page = 1]
    BY <1>4, <2>1 DEF RunType
  <2>3. /\ y \in RunType /\ y.pc = "fetch" /\ y.got = {} /\ y.out = {}
        /\ y.file = "products" /\ y.total = total
    BY <1>4, DataFiles DEF RunType
  <2> HIDE DEF y
  <2>4. /\ m \in RunType /\ m.pc = "fetch" /\ m.got = {} /\ m.out = {}
        /\ m.file = "products" /\ m.page = 1 /\ m.total = total
    BY <1>6, <2>2, <2>3 DEF RunType
  <2> QED
    BY <1>4, <1>9, <2>4, SmallSets, DataFiles DEF RunOK, m, p
<1>10. CASE e.file = "products" /\ e.page = Pages
  <2> DEFINE s == Scripts!Summary(r, "success", total)
             y == [e EXCEPT !.pc = "read", !.file = "runs"]
  <2>1. m = [e EXCEPT !.pc = "read", !.file = "runs", !.got = {s}]
    BY <1>5, <1>6, <1>10
  <2>2. m = [y EXCEPT !.got = {s}]
    BY <1>4, <2>1 DEF RunType
  <2>3. y \in RunType /\ y.pc = "read" /\ y.out = {} /\ y.file = "runs"
    BY <1>4, DataFiles DEF RunType
  <2>4. s \in SummaryType
    BY DEF Scripts!Summary, SummaryType
  <2> HIDE DEF y, s
  <2>5. {s} \in SUBSET Anything
    BY <2>4 DEF Anything
  <2>6. /\ m \in RunType /\ m.pc = "read" /\ m.got = {s} /\ m.out = {} /\ m.file = "runs"
    BY <2>2, <2>3, <2>5 DEF RunType
  <2>7. RunOK(m)
    BY <2>4, <2>6, SmallSets, DataFiles DEF RunOK, Items
  <2> QED
    BY <1>4, <1>10, <2>6, <2>7 DEF m, p, s
<1>11. e.file = "orders" \/ e.file = "products" \/ e.file = "runs"
  BY <1>1, <1>4, DataFiles
<1>12. e.page < Pages \/ e.page = Pages
  BY <1>1, <1>4, <1>6
<1> QED
  BY <1>7, <1>8, <1>9, <1>10, <1>11, <1>12

\* The page is on file: nothing that was there is gone, and a run that has
\* written all its pages may call itself a success.
LEMMA WrittenStep ==
  ASSUME PullInv, NEW r \in Run, runs[r].pc = "close", Scripts!Written(r),
         NEW total \in [Scripts!Data -> Nat],
         runs[r].file \in Scripts!Data => total[runs[r].file] = Cardinality(runs[r].out),
         \A f \in Scripts!Data : f # runs[r].file => total[f] = runs[r].total[f],
         NEW m, RunOK(m), Scripts!To(r, m), UNCHANGED <<script, env>>,
         Scripts!Fault \/ UNCHANGED pullFaults,
         \/ m.pc = "ended"
         \/ m.pc = "read" /\ m.file = "runs" /\ \A s \in m.got : s.run = r /\ s.status # "success"
         \/ /\ runs[r].file \in Scripts!Data /\ runs[r].page < Pages /\ m.pc = "fetch"
            /\ m.file = runs[r].file /\ m.page = runs[r].page + 1 /\ m.total = total
         \/ /\ runs[r].file = "orders" /\ runs[r].page = Pages /\ m.pc = "fetch"
            /\ m.file = "products" /\ m.page = 1 /\ m.total = total
         \/ /\ runs[r].file = "products" /\ runs[r].page = Pages /\ m.pc = "read"
            /\ m.file = "runs" /\ m.got = {Scripts!Summary(r, "success", total)}
  PROVE  PullInv'
<1> DEFINE p == runs[r]
           w == [content |-> p.out, torn |-> FALSE]
           f == p.file
<1>1. /\ p.pc = "close" /\ RunOK(p) /\ p \in RunType /\ Scripts!AtWork(r)
      /\ f \in Scripts!File /\ damaged \subseteq Scripts!File
      /\ p.got \subseteq Items(f) /\ p.out \subseteq Items(f)
      /\ IsFiniteSet(p.out) /\ p.out \in SUBSET Anything
      /\ PullType
  BY RunFields DEF PullInv, PullType, RunOK, Scripts!AtWork
<1>2. /\ files' = [files EXCEPT ![f] = w]
      /\ pulled' = [pulled EXCEPT ![f] = @ \cup p.got]
      /\ damaged' = damaged
  BY DEF Scripts!Written
<1>3. /\ DOMAIN runs' = Run /\ runs'[r] = m /\ \A q \in Run : q # r => runs'[q] = runs[q]
      /\ \A q \in Run : RunOK(runs'[q])
  BY <1>1, RunBecomes
<1>4. w \in [content : SUBSET Anything, torn : BOOLEAN]
  <2>1. FALSE \in BOOLEAN
    OBVIOUS
  <2> QED
    BY <1>1, <2>1
<1>5. /\ files' \in [Scripts!File -> [content : SUBSET Anything, torn : BOOLEAN]]
      /\ files'[f].content = p.out /\ ~files'[f].torn
      /\ \A g \in Scripts!File : g # f => files'[g] = files[g]
  BY <1>1, <1>2, <1>4 DEF PullType
<1>6. /\ pulled' \in [Scripts!File -> SUBSET Anything]
      /\ pulled'[f] = pulled[f] \cup p.got
      /\ \A g \in Scripts!File : g # f => pulled'[g] = pulled[g]
  <2>1. p.got \in SUBSET Anything
    BY <1>1, RunFields
  <2> QED
    BY <1>1, <1>2, <2>1 DEF PullType
<1>7. PullType'
  <2>1. \A q \in Run : RunOK(runs[q])'
    BY <1>3 DEF RunOK, Items
  <2>2. /\ \A g \in Scripts!File : files'[g].content \subseteq Items(g) /\ IsFiniteSet(files'[g].content)
    BY <1>1, <1>5 DEF PullType
  <2>3. \A g \in Scripts!File : pulled'[g] \subseteq Items(g)
    BY <1>1, <1>6 DEF PullType
  <2>4. pullFaults' \in 0..MaxPullFaults
    BY <1>1, PullFault
  <2> QED
    BY <1>1, <1>2, <1>3, <1>5, <1>6, <2>1, <2>2, <2>3, <2>4 DEF PullType, Items
<1>8. /\ TornByOne /\ Kept /\ OnTheWay /\ Recorded /\ (damaged # Scripts!File => Alone)
      /\ Progress(r, p, damaged)
      /\ damaged # Scripts!File => \A q \in Run : Scripts!AtWork(q) => q = r
  BY <1>1, OnlyOne DEF PullInv
<1>9. (damaged # Scripts!File => Alone)'
  <2> SUFFICES ASSUME damaged # Scripts!File PROVE Alone'
    BY <1>2 DEF Scripts!File, Scripts!Data
  <2>1. \A q \in Run : q # r => ~Scripts!AtWork(q)'
    BY <1>3, <1>8 DEF Scripts!AtWork
  <2> QED
    BY <2>1 DEF Alone
<1>10. TornByOne'
  <2> SUFFICES ASSUME NEW g \in Scripts!File \ damaged, files'[g].torn
               PROVE  \E q \in Run : runs'[q].pc = "close" /\ runs'[q].file = g
    BY <1>2 DEF TornByOne, Scripts!File, Scripts!Data
  <2>1. g # f
    BY <1>5
  <2>2. PICK q \in Run : runs[q].pc = "close" /\ runs[q].file = g
    BY <1>5, <1>8, <2>1 DEF TornByOne
  <2> QED
    BY <1>3, <2>1, <2>2
<1>11. f \notin damaged => p.got \subseteq p.out /\ pulled[f] \subseteq p.out
  BY <1>1, <1>8 DEF Progress
<1>12. Kept'
  <2> SUFFICES ASSUME NEW g \in Scripts!File \ damaged
               PROVE  files'[g].torn \/ pulled'[g] \subseteq files'[g].content
    BY <1>2 DEF Kept, Scripts!File, Scripts!Data
  <2>1. CASE g = f
    BY <1>5, <1>6, <1>11, <2>1
  <2>2. CASE g # f
    BY <1>5, <1>6, <1>8, <2>2 DEF Kept
  <2> QED
    BY <2>1, <2>2
<1>13. \A g \in Scripts!File : pulled[g] \subseteq pulled'[g]
  BY <1>6
<1>14. \A q, t : Whole(q, t, damaged) => Whole(q, t, damaged)'
  BY <1>2, <1>13, DataFiles DEF Whole, Scripts!Listing
<1>16. Recorded'
  <2> SUFFICES ASSUME NEW s \in pulled'["runs"], s.status = "success"
               PROVE  Whole(s.run, s.total, damaged)'
    BY DEF Recorded
  <2>1. CASE s \in pulled["runs"]
    BY <1>8, <1>14, <2>1 DEF Recorded
  <2>2. CASE s \notin pulled["runs"]
    <3>1. f = "runs" /\ s \in p.got
      BY <1>6, <2>2, DataFiles
    <3>2. s.run = r /\ Whole(s.run, s.total, damaged)
      BY <1>8, <3>1 DEF Progress
    <3> QED
      BY <1>14, <3>2
  <2> QED
    BY <2>1, <2>2
<1>17. f \in Scripts!Data => \A n \in 1..p.page : Lists[r][f][n] \subseteq pulled'[f]
  <2> SUFFICES ASSUME f \in Scripts!Data, NEW n \in 1..p.page
               PROVE  Lists[r][f][n] \subseteq pulled'[f]
    OBVIOUS
  <2>1. CASE n = p.page
    BY <1>1, <1>6, <1>8, <2>1 DEF Progress
  <2>2. CASE n # p.page
    <3>1. p.page \in 1..Pages
      BY <1>1, RunFields
    <3>2. n \in 1..(p.page - 1)
      BY <2>2, <3>1, PullNames
    <3> QED
      BY <1>1, <1>6, <1>8, <3>2 DEF Progress
  <2> QED
    BY <2>1, <2>2
<1>18. f \in Scripts!Data /\ p.page = Pages =>
         /\ Scripts!Listing(r, f) \subseteq pulled'[f]
         /\ f \notin damaged => total[f] >= Cardinality(Scripts!Listing(r, f))
  <2> SUFFICES ASSUME f \in Scripts!Data, p.page = Pages
               PROVE  /\ Scripts!Listing(r, f) \subseteq pulled'[f]
                      /\ f \notin damaged => total[f] >= Cardinality(Scripts!Listing(r, f))
    OBVIOUS
  <2>1. Scripts!Listing(r, f) \subseteq pulled'[f]
    BY <1>17 DEF Scripts!Listing
  <2>2. ASSUME f \notin damaged PROVE total[f] >= Cardinality(Scripts!Listing(r, f))
    <3>1. Scripts!Listing(r, f) \in SUBSET p.out
      BY <1>6, <1>11, <2>1, <2>2
    <3>2. /\ Cardinality(Scripts!Listing(r, f)) <= Cardinality(p.out)
          /\ Cardinality(Scripts!Listing(r, f)) \in Nat /\ Cardinality(p.out) \in Nat
      BY <1>1, <3>1, Part
    <3> QED
      BY <3>2
  <2> QED
    BY <2>1, <2>2
<1>19. /\ f = "products" => Scripts!Listing(r, "orders") \subseteq pulled'["orders"]
       /\ f = "products" /\ "orders" \notin damaged =>
            total["orders"] >= Cardinality(Scripts!Listing(r, "orders"))
  BY <1>8, <1>13, DataFiles DEF Progress
<1>20. ASSUME m.pc # "ended" PROVE Progress(r, m, damaged)'
  <2>1. CASE m.pc = "read" /\ m.file = "runs" /\ \A s \in m.got : s.run = r /\ s.status # "success"
    BY <2>1, DataFiles DEF Progress
  <2>2. CASE /\ f \in Scripts!Data /\ p.page < Pages /\ m.pc = "fetch" /\ m.file = f
             /\ m.page = p.page + 1 /\ m.total = total
    <3>1. \A n \in 1..(m.page - 1) : Lists[r][m.file][n] \subseteq pulled'[m.file]
      <4>1. p.page \in 1..Pages
        BY <1>1, RunFields
      <4>2. m.page - 1 = p.page
        BY <2>2, <4>1, PullNames
      <4> QED
        BY <1>17, <2>2, <4>2
    <3> QED
      BY <1>2, <1>19, <2>2, <3>1, DataFiles DEF Progress, Scripts!Listing
  <2>3. CASE /\ f = "orders" /\ p.page = Pages /\ m.pc = "fetch"
             /\ m.file = "products" /\ m.page = 1 /\ m.total = total
    <3>1. 1..(m.page - 1) = {}
      BY <2>3
    <3>2. /\ Scripts!Listing(r, "orders") \subseteq pulled'["orders"]
          /\ "orders" \notin damaged =>
               m.total["orders"] >= Cardinality(Scripts!Listing(r, "orders"))
      BY <1>18, <2>3, DataFiles
    <3> QED
      BY <1>2, <2>3, <3>1, <3>2, DataFiles DEF Progress, Scripts!Listing
  <2>4. CASE /\ f = "products" /\ p.page = Pages /\ m.pc = "read"
             /\ m.file = "runs" /\ m.got = {Scripts!Summary(r, "success", total)}
    <3>1. /\ Scripts!Listing(r, "products") \subseteq pulled'["products"]
          /\ "products" \notin damaged =>
               total["products"] >= Cardinality(Scripts!Listing(r, "products"))
      BY <1>18, <2>4, DataFiles
    <3>2. \A k \in Scripts!Data :
             /\ Scripts!Listing(r, k) \subseteq pulled'[k]
             /\ k \notin damaged => total[k] >= Cardinality(Scripts!Listing(r, k))
      <4> TAKE k \in Scripts!Data
      <4>1. CASE k = "orders"
        BY <1>19, <2>4, <4>1
      <4>2. CASE k = "products"
        BY <3>1, <4>2
      <4> QED
        BY <4>1, <4>2, DataFiles
    <3>5. Whole(r, total, damaged)'
      BY <1>2, <3>2 DEF Whole, Scripts!Listing
    <3>3. /\ Scripts!Summary(r, "success", total).run = r
          /\ Scripts!Summary(r, "success", total).total = total
      BY DEF Scripts!Summary
    <3> QED
      BY <2>4, <3>3, <3>5, DataFiles DEF Progress
  <2> QED
    BY <1>20, <2>1, <2>2, <2>3, <2>4
<1>21. OnTheWay'
  <2> SUFFICES ASSUME NEW q \in Run, Scripts!AtWork(q)' PROVE Progress(q, runs[q], damaged)'
    BY DEF OnTheWay
  <2>1. CASE q = r
    <3>1. runs'[q] = m /\ m.pc # "ended"
      BY <1>3, <2>1 DEF Scripts!AtWork
    <3>2. Progress(r, m, damaged)'
      BY <1>20, <3>1
    <3> QED
      BY <2>1, <3>1, <3>2 DEF Progress, Whole, Scripts!Listing
  <2>2. CASE q # r
    <3>1. /\ runs'[q] = runs[q] /\ Scripts!AtWork(q) /\ Progress(q, runs[q], damaged)
          /\ runs[q].file \in Scripts!File
      BY <1>1, <1>3, <1>8, <2>2, RunFields DEF OnTheWay, Scripts!AtWork, PullType, RunOK
    <3>2. damaged = Scripts!File
      BY <1>8, <2>2, <3>1
    <3>3. \A s \in runs[q].got : Whole(q, s.total, damaged) => Whole(q, s.total, damaged)'
      BY <1>14
    <3> QED
      BY <1>2, <1>13, <3>1, <3>2, <3>3, DataFiles DEF Progress, Scripts!Listing
  <2> QED
    BY <2>1, <2>2
<1> QED
  BY <1>7, <1>9, <1>10, <1>12, <1>16, <1>21 DEF PullInv

LEMMA WriteFileStep ==
  ASSUME PullInv, NEW r \in Run, Scripts!WriteFile(r)
  PROVE  PullInv'
<1> DEFINE p == runs[r]
           total == IF p.file = "runs" THEN p.total
                    ELSE [p.total EXCEPT ![p.file] = Cardinality(p.out)]
           m == Scripts!Following(r, total)
<1>1. /\ p.pc = "close" /\ RunOK(p) /\ p.file \in Scripts!File /\ IsFiniteSet(p.out)
      /\ p.total \in [Scripts!Data -> Nat]
  BY RunFields DEF PullInv, PullType, Scripts!WriteFile, RunOK
<1>2. Scripts!Written(r) /\ Scripts!To(r, m) /\ UNCHANGED <<script, env, pullFaults>>
  BY DEF Scripts!WriteFile, Scripts!Cardinality, Cardinality
<1>3. /\ total \in [Scripts!Data -> Nat]
      /\ p.file \in Scripts!Data => total[p.file] = Cardinality(p.out)
      /\ \A f \in Scripts!Data : f # p.file => total[f] = p.total[f]
  BY <1>1, DataFiles, FS_CardinalityType
<1> HIDE DEF total
<1>4. /\ RunOK(m)
      /\ \/ p.file = "runs" /\ m.pc = "ended"
         \/ /\ p.file \in Scripts!Data /\ p.page < Pages /\ m.pc = "fetch" /\ m.file = p.file
            /\ m.page = p.page + 1 /\ m.total = total
         \/ /\ p.file = "orders" /\ p.page = Pages /\ m.pc = "fetch"
            /\ m.file = "products" /\ m.page = 1 /\ m.total = total
         \/ /\ p.file = "products" /\ p.page = Pages /\ m.pc = "read"
            /\ m.file = "runs" /\ m.got = {Scripts!Summary(r, "success", total)}
  BY <1>1, <1>3, FollowingRun
<1> HIDE DEF m
<1> QED
  BY <1>1, <1>2, <1>3, <1>4, WrittenStep

LEMMA FailWriteStep ==
  ASSUME PullInv, NEW r \in Run, Scripts!FailWrite(r)
  PROVE  PullInv'
<1>1. CASE damaged' = damaged \cup {runs[r].file} /\ UNCHANGED <<files, pulled>>
  BY <1>1, ThrownStep DEF Scripts!FailWrite, Scripts!AtWork
<1>2. CASE Scripts!Written(r)
  <2> DEFINE p == runs[r]
             total == IF p.file = "runs" THEN p.total
                      ELSE [p.total EXCEPT ![p.file] = Cardinality(p.out)]
             m == Scripts!Thrown(r)
  <2>1. /\ p.pc = "close" /\ RunOK(p) /\ p.file \in Scripts!File /\ IsFiniteSet(p.out)
        /\ p.total \in [Scripts!Data -> Nat]
    BY RunFields DEF PullInv, PullType, Scripts!FailWrite, RunOK
  <2>2. /\ total \in [Scripts!Data -> Nat]
        /\ p.file \in Scripts!Data => total[p.file] = Cardinality(p.out)
        /\ \A f \in Scripts!Data : f # p.file => total[f] = p.total[f]
    BY <2>1, DataFiles, FS_CardinalityType
  <2> HIDE DEF total
  <2>3. /\ RunOK(m)
        /\ \/ m.pc = "ended"
           \/ m.pc = "read" /\ m.file = "runs" /\ \A s \in m.got : s.run = r /\ s.status # "success"
    <3>1. RunOK(m)
      BY <2>1, ThrownRun
    <3>2. CASE m = Scripts!Ended(r)
      BY <2>1, <3>1, <3>2, EndedRun
    <3>3. CASE m = Scripts!Failed(r)
      BY <3>1, <3>3, NewRun DEF Scripts!Failed, Scripts!Summary, Scripts!NotStarted
    <3> QED
      BY <3>2, <3>3 DEF Scripts!Thrown
  <2> HIDE DEF m
  <2>4. /\ Scripts!To(r, m) /\ Scripts!Fault /\ UNCHANGED <<script, env>>
    BY DEF Scripts!FailWrite, m
  <2> QED
    BY <1>2, <2>1, <2>2, <2>3, <2>4, WrittenStep
<1> QED
  BY <1>1, <1>2 DEF Scripts!FailWrite

-----------------------------------------------------------------------------

LEMMA PullStart == Scripts!Init => PullInv
<1> SUFFICES ASSUME Scripts!Init PROVE PullInv
  OBVIOUS
<1>1. [content |-> {}, torn |-> FALSE] \in [content : SUBSET Anything, torn : BOOLEAN]
  <2>1. {} \in SUBSET Anything /\ FALSE \in BOOLEAN
    OBVIOUS
  <2> QED
    BY <2>1
<1>2. PullType
  <2>1. /\ files \in [Scripts!File -> [content : SUBSET Anything, torn : BOOLEAN]]
        /\ \A f \in Scripts!File : files[f].content = {}
    BY <1>1 DEF Scripts!Init
  <2>2. pulled \in [Scripts!File -> SUBSET Anything] /\ \A f \in Scripts!File : pulled[f] = {}
    BY DEF Scripts!Init
  <2>3. DOMAIN runs = Run /\ \A r \in Run : RunOK(runs[r])
    BY NewRun DEF Scripts!Init
  <2>4. /\ \A f \in Scripts!File : /\ files[f].content \subseteq Items(f) /\ IsFiniteSet(files[f].content)
                        /\ pulled[f] \subseteq Items(f)
    BY <2>1, <2>2, SmallSets
  <2>5. /\ script \in Scripts!Script
        /\ env \subseteq Scripts!Env
        /\ pullFaults \in 0..MaxPullFaults
        /\ damaged \subseteq Scripts!File
    <3>1. MaxPullFaults \in Nat /\ Envs \subseteq SUBSET Scripts!Env
      BY PullNames
    <3>2. script \in Scripts!Script /\ env \subseteq Scripts!Env
      BY <3>1 DEF Scripts!Init
    <3>3. pullFaults \in 0..MaxPullFaults
      BY <3>1 DEF Scripts!Init
    <3>4. damaged \subseteq Scripts!File
      BY DEF Scripts!Init
    <3> QED
      BY <3>2, <3>3, <3>4
  <2> QED
    BY <2>1, <2>2, <2>3, <2>4, <2>5 DEF PullType
<1>3. \A r \in Run : ~Scripts!AtWork(r)
  BY NewRun DEF Scripts!Init, Scripts!AtWork
<1>4. /\ \A f \in Scripts!File : ~files[f].torn /\ pulled[f] = {}
  BY DEF Scripts!Init
<1> QED
  BY <1>2, <1>3, <1>4, DataFiles DEF PullInv, Alone, TornByOne, Kept, OnTheWay, Recorded

LEMMA PullStep ==
  PullInv /\ [Scripts!Next]_<<script, env, files, runs, pullFaults, pulled, damaged>> => PullInv'
<1> SUFFICES ASSUME PullInv, [Scripts!Next]_<<script, env, files, runs, pullFaults, pulled, damaged>>
             PROVE  PullInv'
  OBVIOUS
<1>1. CASE UNCHANGED <<script, env, files, runs, pullFaults, pulled, damaged>>
  BY <1>1 DEF PullInv, PullType, RunOK, Items, Alone, TornByOne, Kept, OnTheWay, Recorded,
              Scripts!AtWork, Progress, Whole
<1>2. CASE Scripts!Next
  BY <1>2, StartStep, VerifyStep, FetchPageStep, MergeStep, TruncateStep, WriteFileStep,
     FailWriteStep, CrashStep DEF Scripts!Next
<1> QED
  BY <1>1, <1>2

LEMMA PullAlways == Scripts!Spec => []PullInv
BY PullStart, PullStep, PTL DEF Scripts!Spec, Scripts!vars

\* The store's files, the runs and what they have merged keep their types
\* (upsertOrders, upsertProducts, appendSyncRun).
THEOREM PullTypeCorrect == Scripts!Spec => []Scripts!TypeOK
<1>1. PullInv => Scripts!TypeOK
  <2> SUFFICES ASSUME PullInv PROVE Scripts!TypeOK
    OBVIOUS
  <2>1. ASSUME NEW r \in Run
        PROVE  /\ runs[r].pc \in {"new", "verify", "fetch", "read", "write", "close", "ended"}
               /\ runs[r].file \in Scripts!File /\ runs[r].page \in 1..Pages
               /\ runs[r].total \in [Scripts!Data -> Nat]
    BY RunFields DEF PullInv, PullType, RunOK
  <2>2. \A f \in Scripts!Data : files[f].content \subseteq Int /\ pulled[f] \subseteq Int
    BY DataFiles DEF PullInv, PullType, Items
  <2>3. \A s \in files["runs"].content \cup pulled["runs"] :
          s.run \in Run /\ s.status \in {"success", "failed"} /\ s.total \in [Scripts!Data -> Nat]
    BY DataFiles DEF PullInv, PullType, Items, SummaryType
  <2>4. \A f \in Scripts!File : files[f].torn \in BOOLEAN
    BY DEF PullInv, PullType
  <2> QED
    BY <2>1, <2>2, <2>3, <2>4 DEF PullInv, PullType, Scripts!TypeOK
<1> QED
  BY <1>1, PullAlways, PTL

\* Nothing that was merged into a file has left it, unless two runs were at work
\* at once or that file failed to be read or written, and a run recorded as a
\* success has merged all its pages (upsertOrders, readJsonArray, appendSyncRun).
THEOREM NothingPulledIsLost == Scripts!Spec => []PulledIsKept
<1>1. PullInv => PulledIsKept
  BY DEF PullInv, Kept, Recorded, Whole, PulledIsKept, Scripts!PulledIsKept,
     Scripts!Cardinality, Cardinality
<1> QED
  BY <1>1, PullAlways, PTL

-----------------------------------------------------------------------------
(* The import of sheets *)

\* The good rows of a sheet and its orders, and what is stored of an order.
Readable(sheet) == Import!GoodRows(Import!Rows(sheet))
Mapped(sheet) == Import!MapRows(Import!Rows(sheet), Readable(sheet))
AsStored(order) == [status |-> Import!ToUnifiedOrderStatus("gsshop", order.status),
                total |-> order.total, items |-> order.items]

\* An order on file is one that a sheet was mapped to.
IsOf(order, sheet, o) ==
  \E i \in DOMAIN Mapped(sheet) : /\ Mapped(sheet)[i].orderNo = o
                                  /\ order = AsStored(Mapped(sheet)[i])

\* An upload is new, refused, or of a sheet, whose orders it has but for those
\* that it has stored.
Taken == {"storing", "imported", "broken"}
UploadOK(r) ==
  /\ r = [pc |-> r.pc, sheet |-> r.sheet, left |-> r.left, errors |-> r.errors]
  /\ \/ r = Import!NotSent
     \/ /\ r.pc = "refused" /\ r.sheet \in Sheets
        /\ r.left = Import!NotSent.left /\ r.errors = {}
     \/ /\ r.pc \in Taken /\ r.sheet \in Sheets
        /\ r.errors = Import!RowErrors(r.sheet)
        /\ DOMAIN r.left \subseteq DOMAIN Mapped(r.sheet)
        /\ \A i \in DOMAIN r.left : r.left[i] = Mapped(r.sheet)[i]
  /\ r.pc = "imported" => DOMAIN r.left = {}

\* The invariant of the import: what is on file came from a sheet, and what an
\* upload no longer has to store is on file.
FromSheets ==
  \A o \in OrderNo : imported[o] = Import!NoOrder
                     \/ \E u \in Import!Upload : up[u].pc \in Taken
                                                 /\ IsOf(imported[o], up[u].sheet, o)
Stored ==
  \A u \in Import!Upload : up[u].pc \in Taken =>
    \A i \in DOMAIN Mapped(up[u].sheet) \ DOMAIN up[u].left :
      imported[Mapped(up[u].sheet)[i].orderNo] # Import!NoOrder
ImportInv ==
  /\ imported = [o \in OrderNo |-> imported[o]]
  /\ up = [u \in Import!Upload |-> up[u]]
  /\ \A u \in Import!Upload : UploadOK(up[u])
  /\ FromSheets /\ Stored

\* The library's operators are the same in both instances.
LEMMA SameSums ==
  /\ \A f, S : Import!SumFunctionOnSet(f, S) = Figures!SumFunctionOnSet(f, S)
  /\ \A S : Import!Min(S) = Figures!Min(S)
<1>1. \A f, S : Import!SumFunctionOnSet(f, S) = Figures!SumFunctionOnSet(f, S)
  BY DEF Import!SumFunctionOnSet, Figures!SumFunctionOnSet, Import!FoldFunctionOnSet,
         Figures!FoldFunctionOnSet, Import!MapThenFoldSet, Figures!MapThenFoldSet
<1>2. \A S : Import!Min(S) = Figures!Min(S)
  BY DEF Import!Min, Figures!Min
<1> QED
  BY <1>1, <1>2

\* The first row of some.
LEMMA FirstRow ==
  ASSUME NEW S \in SUBSET Nat, S # {}
  PROVE  Import!Min(S) \in S
BY SameSums, Figures!LeastNat

\* The rows of a sheet that can be read have all they need.
LEMMA ReadableRows ==
  ASSUME NEW s \in Sheets
  PROVE  /\ Readable(s) \subseteq DOMAIN s.rows
         /\ DOMAIN s.rows \subseteq Nat /\ IsFiniteSet(DOMAIN s.rows)
         /\ \A i \in Readable(s) : /\ Import!Rows(s)[i].orderNo \in OrderNo
                                   /\ Import!Rows(s)[i].quantity \in Nat \ {0}
                                   /\ Import!Rows(s)[i].amountKrw \in Nat
                                   /\ \A f \in Import!RequiredFields :
                                        Import!Rows(s)[i][f] # Blank
<1>1. /\ Len(s.rows) \in Nat /\ DOMAIN s.rows = 1..Len(s.rows) /\ Blank \notin Int
      /\ \A i \in DOMAIN s.rows :
           /\ Import!Rows(s)[i].orderNo \in OrderNo \cup {Blank}
           /\ {Import!Rows(s)[i].quantity, Import!Rows(s)[i].amountKrw}
                \subseteq Int \cup {Blank}
  BY SellerAssumption DEF Import!GsShopAssumption
<1>2. DOMAIN Import!Rows(s) = DOMAIN s.rows
  BY DEF Import!Rows
<1>3. DOMAIN s.rows \subseteq Nat /\ IsFiniteSet(DOMAIN s.rows)
  <2>1. IsFiniteSet(1..Len(s.rows))
    BY <1>1, FS_Interval
  <2> QED
    BY <1>1, <2>1
<1>4. {"orderNo", "quantity", "amountKrw"} \subseteq Import!RequiredFields
  BY DEF Import!RequiredFields, Import!Field, Import!HeaderAliases
<1>5. ASSUME NEW i \in Readable(s)
      PROVE  /\ i \in DOMAIN s.rows
             /\ Import!Rows(s)[i].orderNo \in OrderNo
             /\ Import!Rows(s)[i].quantity \in Nat \ {0}
             /\ Import!Rows(s)[i].amountKrw \in Nat
             /\ \A f \in Import!RequiredFields : Import!Rows(s)[i][f] # Blank
  <2>1. i \in DOMAIN s.rows /\ Import!GsShopRow(Import!Rows(s)[i])
    BY <1>2 DEF Readable, Import!GoodRows
  <2>2. \A f \in Import!RequiredFields : Import!Rows(s)[i][f] # Blank
    BY <2>1 DEF Import!GsShopRow
  <2>3. /\ Import!Rows(s)[i].orderNo # Blank /\ Import!Rows(s)[i].quantity # Blank
        /\ Import!Rows(s)[i].amountKrw # Blank
    BY <1>4, <2>2
  <2>4. Import!Rows(s)[i].quantity > 0 /\ Import!Rows(s)[i].amountKrw >= 0
    BY <2>1 DEF Import!GsShopRow
  <2> QED
    BY <1>1, <2>1, <2>2, <2>3, <2>4
<1> QED
  BY <1>3, <1>5

\* A row has no error if it can be read.
LEMMA NoError ==
  ASSUME NEW s \in Sheets, NEW i \in DOMAIN s.rows
  PROVE  i + 1 \in Import!RowErrors(s) <=> i \notin Readable(s)
BY ReadableRows DEF Import!RowErrors, Readable

\* The rows of one number are those its order is made of.
LEMMA LinesAre ==
  ASSUME NEW s \in Sheets, NEW i \in DOMAIN Mapped(s)
  PROVE  /\ i \in Readable(s)
         /\ Import!Lines(s, Import!Rows(s)[i].orderNo)
              = Import!SameNumber(Import!Rows(s), Readable(s), i)
         /\ i \in Import!Lines(s, Import!Rows(s)[i].orderNo)
         /\ Import!Lines(s, Import!Rows(s)[i].orderNo) \subseteq Readable(s)
         /\ Import!Min(Import!Lines(s, Import!Rows(s)[i].orderNo)) = i
         /\ Mapped(s)[i] = Import!ToOrder(Import!Rows(s),
                                          Import!Lines(s, Import!Rows(s)[i].orderNo))
<1> DEFINE rows == Import!Rows(s)
           same == Import!SameNumber(rows, Readable(s), i)
<1>1. /\ i \in Readable(s) /\ i = Import!Min(same)
      /\ Mapped(s)[i] = Import!ToOrder(rows, same)
  BY DEF Mapped, Import!MapRows
<1>2. Import!Lines(s, rows[i].orderNo) = same
  BY ReadableRows, NoError DEF Import!Lines, Import!SameNumber
<1>3. i \in same /\ same \subseteq Readable(s)
  BY <1>1 DEF Import!SameNumber
<1> QED
  BY <1>1, <1>2, <1>3

\* A row that can be read is in one of the orders.
LEMMA EachMapped ==
  ASSUME NEW s \in Sheets, NEW j \in Readable(s)
  PROVE  \E i \in DOMAIN Mapped(s) : Import!Rows(s)[i].orderNo = Import!Rows(s)[j].orderNo
<1> DEFINE rows == Import!Rows(s)
           same(k) == Import!SameNumber(rows, Readable(s), k)
           i == Import!Min(same(j))
<1>1. j \in same(j) /\ same(j) \subseteq Readable(s) /\ Readable(s) \subseteq Nat
  BY ReadableRows DEF Import!SameNumber
<1>2. i \in same(j)
  BY <1>1, FirstRow
<1>3. i \in Readable(s) /\ rows[i].orderNo = rows[j].orderNo /\ same(i) = same(j)
  BY <1>2 DEF Import!SameNumber
<1>4. i = Import!Min(same(i))
  BY <1>3
<1>5. i \in DOMAIN Mapped(s)
  BY <1>3, <1>4 DEF Mapped, Import!MapRows
<1> QED
  BY <1>3, <1>5

\* A status of a sheet becomes one of the domain, MIXED stays MIXED.
LEMMA SheetStatus ==
  /\ \A raw : Import!ToUnifiedOrderStatus("gsshop", raw) \in Import!UnifiedOrderStatus
  /\ Import!ToUnifiedOrderStatus("gsshop", "MIXED") = "MIXED"
<1>1. "gsshop" \in DOMAIN Import!OrderStatusByMarketplace
      /\ Import!OrderStatusByMarketplace["gsshop"] = Import!GsShopOrderStatus
  BY DEF Import!OrderStatusByMarketplace
<1>2. /\ \A x \in DOMAIN Import!GsShopOrderStatus :
           Import!GsShopOrderStatus[x] \in Import!UnifiedOrderStatus
      /\ "MIXED" \in DOMAIN Import!GsShopOrderStatus
      /\ Import!GsShopOrderStatus["MIXED"] = "MIXED"
  BY DEF Import!GsShopOrderStatus, Import!UnifiedOrderStatus
<1>3. "UNKNOWN" \in Import!UnifiedOrderStatus
  BY DEF Import!UnifiedOrderStatus
<1> QED
  BY <1>1, <1>2, <1>3 DEF Import!ToUnifiedOrderStatus

\* What is stored of an order of a sheet: it is what the sheet says, and no
\* order that was never stored.
LEMMA OrderIs ==
  ASSUME NEW s \in Sheets, NEW i \in DOMAIN Mapped(s)
  PROVE  LET o == Import!Rows(s)[i].orderNo
             order == AsStored(Mapped(s)[i])
         IN /\ Mapped(s)[i].orderNo = o /\ o \in OrderNo
            /\ order.status \in Import!UnifiedOrderStatus /\ order.total \in Nat
            /\ \A j \in DOMAIN order.items : order.items[j].quantity \in Nat \ {0}
            /\ order # Import!NoOrder
            /\ Import!Says(s, o, order)
<1> DEFINE rows == Import!Rows(s)
           o == rows[i].orderNo
           lines == Import!Lines(s, o)
           raw == Mapped(s)[i]
           order == AsStored(raw)
           amounts == [j \in lines |-> rows[j].amountKrw]
           said == {rows[j].status : j \in lines}
<1>1. /\ i \in lines /\ lines \subseteq Readable(s) /\ Import!Min(lines) = i
      /\ raw = Import!ToOrder(rows, lines)
  BY LinesAre
<1>2. o \in OrderNo /\ IsFiniteSet(lines)
      /\ \A j \in lines : rows[j].quantity \in Nat \ {0} /\ rows[j].amountKrw \in Nat
  BY <1>1, ReadableRows, FS_Subset
<1> HIDE DEF rows, lines, raw
<1>3. /\ raw.orderNo = o
      /\ raw.status = IF said = {rows[i].status} THEN rows[i].status ELSE "MIXED"
      /\ raw.total = Import!SumFunctionOnSet(amounts, lines)
      /\ raw.items = [j \in lines |-> [quantity |-> rows[j].quantity,
                                       unitPrice |-> Import!UnitPrice(rows[j])]]
  BY <1>1 DEF Import!ToOrder
<1>4. /\ order.status = Import!ToUnifiedOrderStatus("gsshop", raw.status)
      /\ order.total = raw.total /\ order.items = raw.items
  BY DEF AsStored
<1>5. order.status \in Import!UnifiedOrderStatus
  BY <1>4, SheetStatus
<1>6. order.total \in Nat
  <2>1. \A j \in lines : amounts[j] \in Nat
    BY <1>2
  <2> HIDE DEF amounts
  <2>2. Figures!SumFunctionOnSet(amounts, lines) \in Nat
    <3>1. Figures!IsFiniteSet(lines)
      BY <1>2 DEF IsFiniteSet, Figures!IsFiniteSet
    <3>2. \A j \in lines : amounts[j] \in Int
      BY <2>1
    <3> QED
      BY ONLY <2>1, <3>1, <3>2, Figures!SumType
  <2> QED
    BY <1>3, <1>4, <2>2, SameSums
<1>7. /\ DOMAIN order.items = lines
      /\ \A j \in lines : order.items[j].quantity = rows[j].quantity
  BY <1>3, <1>4
<1>8. order # Import!NoOrder
  <2>1. Import!NoOrder.items = <<>> /\ DOMAIN <<>> = {}
    BY DEF Import!NoOrder
  <2> QED
    BY <1>1, <1>7, <2>1
<1>9. \E t \in said : order.status = IF said = {t} THEN Import!ToUnifiedOrderStatus("gsshop", t)
                                     ELSE "MIXED"
  <2>1. rows[i].status \in said
    BY <1>1
  <2>2. order.status = IF said = {rows[i].status}
                         THEN Import!ToUnifiedOrderStatus("gsshop", rows[i].status)
                         ELSE "MIXED"
    BY <1>3, <1>4, SheetStatus
  <2> HIDE DEF said
  <2> QED
    BY <2>1, <2>2
<1>10. Import!Says(s, o, order)
  <2> HIDE DEF order
  <2> QED
    BY <1>3, <1>4, <1>7, <1>9 DEF Import!Says, rows, lines
<1> QED
  BY <1>2, <1>3, <1>5, <1>6, <1>7, <1>8, <1>10 DEF raw, rows

\* Nothing is on file, and no upload sent, at first.
LEMMA ImportStart == Import!Init => ImportInv
<1> SUFFICES ASSUME Import!Init PROVE ImportInv
  OBVIOUS
<1>1. /\ imported = [o \in OrderNo |-> Import!NoOrder]
      /\ up = [u \in Import!Upload |-> Import!NotSent]
  BY DEF Import!Init
<1>2. Import!NotSent.pc = "new" /\ UploadOK(Import!NotSent)
  BY DEF Import!NotSent, UploadOK
<1>3. "new" \notin Taken
  BY DEF Taken
<1> QED
  BY <1>1, <1>2, <1>3 DEF ImportInv, FromSheets, Stored

\* A taken upload is of a sheet and has the orders of it.
LEMMA TakenIs ==
  ASSUME NEW r, UploadOK(r), r.pc \in Taken
  PROVE  /\ r.sheet \in Sheets /\ r.errors = Import!RowErrors(r.sheet)
         /\ DOMAIN r.left \subseteq DOMAIN Mapped(r.sheet)
         /\ \A i \in DOMAIN r.left : r.left[i] = Mapped(r.sheet)[i]
BY DEF UploadOK, Taken, Import!NotSent

\* A step that changes one upload, of the same sheet or of one that is new, and
\* stores nothing.
LEMMA OneUpload ==
  ASSUME ImportInv, NEW u \in Import!Upload, NEW r,
         up' = [up EXCEPT ![u] = r], UNCHANGED imported, UploadOK(r),
         up[u].pc \in Taken => r.pc \in Taken /\ r.sheet = up[u].sheet,
         r.pc \in Taken =>
           \A i \in DOMAIN Mapped(r.sheet) \ DOMAIN r.left :
             imported[Mapped(r.sheet)[i].orderNo] # Import!NoOrder
  PROVE  ImportInv'
<1>1. /\ up' = [v \in Import!Upload |-> up'[v]] /\ up'[u] = r
      /\ \A v \in Import!Upload \ {u} : up'[v] = up[v]
  <2> DEFINE h == up
  <2>1. h = [v \in Import!Upload |-> h[v]] /\ up' = [h EXCEPT ![u] = r]
    BY DEF ImportInv
  <2> HIDE DEF h
  <2>2. up' = [v \in Import!Upload |-> IF v = u THEN r ELSE h[v]]
    BY <2>1
  <2> QED
    BY <2>2 DEF h
<1>2. imported' = imported
  OBVIOUS
<1>3. \A v \in Import!Upload : UploadOK(up'[v])
  BY <1>1 DEF ImportInv
<1>4. FromSheets'
  <2> SUFFICES ASSUME NEW o \in OrderNo, imported[o] # Import!NoOrder
               PROVE  \E v \in Import!Upload : up'[v].pc \in Taken
                                               /\ IsOf(imported[o], up'[v].sheet, o)
    BY <1>2 DEF FromSheets, IsOf, Mapped, Readable, AsStored
  <2>1. PICK v \in Import!Upload : up[v].pc \in Taken /\ IsOf(imported[o], up[v].sheet, o)
    BY DEF ImportInv, FromSheets
  <2>2. up'[v].pc \in Taken /\ up'[v].sheet = up[v].sheet
    BY <1>1, <2>1
  <2> QED
    BY <2>1, <2>2
<1>5. Stored'
  <2> SUFFICES ASSUME NEW v \in Import!Upload, up'[v].pc \in Taken,
                      NEW i \in DOMAIN Mapped(up'[v].sheet) \ DOMAIN up'[v].left
               PROVE  imported[Mapped(up'[v].sheet)[i].orderNo] # Import!NoOrder
    BY <1>2 DEF Stored, Mapped, Readable
  <2> QED
    BY <1>1 DEF ImportInv, Stored
<1> QED
  BY <1>1, <1>2, <1>3, <1>4, <1>5 DEF ImportInv, UploadOK, Mapped, Readable

\* The parsing of a sheet (Post).
LEMMA PostStep ==
  ASSUME ImportInv, NEW u \in Import!Upload, Import!Post(u)
  PROVE  ImportInv'
<1>1. PICK s \in Sheets :
        up' = [up EXCEPT ![u] =
          IF Import!Missing(s) # {}
          THEN [pc |-> "refused", sheet |-> s, left |-> <<>>, errors |-> {}]
          ELSE [pc |-> "storing", sheet |-> s,
                left |-> Import!MapRows(Import!Rows(s), Import!GoodRows(Import!Rows(s))),
                errors |-> Import!RowErrors(s)]]
  BY DEF Import!Post
<1>2. up[u].pc = "new" /\ UNCHANGED imported /\ "new" \notin Taken /\ "refused" \notin Taken
  BY DEF Import!Post, Taken
<1>3. CASE Import!Missing(s) # {}
  <2> DEFINE r == [pc |-> "refused", sheet |-> s, left |-> <<>>, errors |-> {}]
  <2>1. r = [pc |-> "refused", sheet |-> s, left |-> Import!NotSent.left, errors |-> {}]
    BY DEF Import!NotSent
  <2> HIDE DEF r
  <2>2. r.pc = "refused" /\ UploadOK(r)
    BY <2>1 DEF UploadOK
  <2>3. up' = [up EXCEPT ![u] = r]
    BY <1>1, <1>3 DEF r
  <2> QED
    BY <1>2, <2>2, <2>3, OneUpload
<1>4. CASE Import!Missing(s) = {}
  <2> DEFINE r == [pc |-> "storing", sheet |-> s, left |-> Mapped(s),
                   errors |-> Import!RowErrors(s)]
  <2>1. r.pc = "storing" /\ r.sheet = s /\ r.left = Mapped(s) /\ UploadOK(r)
    BY DEF UploadOK, Taken
  <2>2. up' = [up EXCEPT ![u] = r]
    BY <1>1, <1>4 DEF Mapped, Readable
  <2> HIDE DEF r
  <2> QED
    BY <1>2, <2>1, <2>2, OneUpload
<1> QED
  BY <1>3, <1>4

\* The upload at work goes on to another state, with the same orders left.
LEMMA MovesOn ==
  ASSUME ImportInv, NEW u \in Import!Upload, NEW pc \in {"imported", "broken"},
         up[u].pc = "storing", pc = "imported" => DOMAIN up[u].left = {},
         up' = [up EXCEPT ![u].pc = pc], UNCHANGED imported
  PROVE  ImportInv'
<1> DEFINE r == [up[u] EXCEPT !.pc = pc]
<1>1. UploadOK(up[u]) /\ up[u].pc \in Taken /\ pc \in Taken /\ pc # "new" /\ pc # "refused"
  BY DEF ImportInv, Taken
<1>2. /\ r.pc = pc /\ r.sheet = up[u].sheet /\ r.left = up[u].left
      /\ r.errors = up[u].errors
      /\ r = [pc |-> r.pc, sheet |-> r.sheet, left |-> r.left, errors |-> r.errors]
  BY <1>1 DEF UploadOK
<1>3. up' = [up EXCEPT ![u] = r]
  OBVIOUS
<1> HIDE DEF r
<1>4. UploadOK(r)
  BY <1>1, <1>2, TakenIs DEF UploadOK
<1>5. \A i \in DOMAIN Mapped(r.sheet) \ DOMAIN r.left :
        imported[Mapped(r.sheet)[i].orderNo] # Import!NoOrder
  BY <1>1, <1>2 DEF ImportInv, Stored
<1> QED
  BY <1>1, <1>2, <1>3, <1>4, <1>5, OneUpload

LEMMA AnswerStep ==
  ASSUME ImportInv, NEW u \in Import!Upload, Import!Answer(u)
  PROVE  ImportInv'
BY MovesOn DEF Import!Answer

LEMMA BreakStep ==
  ASSUME ImportInv, NEW u \in Import!Upload, Import!Break(u)
  PROVE  ImportInv'
BY MovesOn DEF Import!Break

\* An order is stored: it is one of the sheet, and the upload has it no more.
LEMMA StoreStep ==
  ASSUME ImportInv, NEW u \in Import!Upload, Import!UpsertOrder(u)
  PROVE  ImportInv'
<1> DEFINE old == up[u]
           i == Import!Min(DOMAIN old.left)
           s == old.sheet
           no == Mapped(s)[i].orderNo
           r == [old EXCEPT !.left = Import!Restrict(old.left, DOMAIN old.left \ {i})]
<1>1. old.pc = "storing" /\ DOMAIN old.left # {} /\ UploadOK(old) /\ old.pc \in Taken
  BY DEF Import!UpsertOrder, ImportInv, Taken
<1>2. /\ s \in Sheets /\ old.errors = Import!RowErrors(s)
      /\ DOMAIN old.left \subseteq DOMAIN Mapped(s)
      /\ \A k \in DOMAIN old.left : old.left[k] = Mapped(s)[k]
  BY <1>1, TakenIs
<1>3. DOMAIN Mapped(s) \subseteq Nat
  BY <1>2, LinesAre, ReadableRows
<1>4. i \in DOMAIN old.left /\ i \in DOMAIN Mapped(s)
  BY <1>1, <1>2, <1>3, FirstRow
<1>5. no \in OrderNo /\ AsStored(Mapped(s)[i]) # Import!NoOrder
  BY <1>2, <1>4, OrderIs
<1>6. imported' = [imported EXCEPT ![no] = AsStored(Mapped(s)[i])]
  BY <1>2, <1>4 DEF Import!UpsertOrder, AsStored
<1>7. up' = [up EXCEPT ![u] = r]
  BY DEF Import!UpsertOrder
<1>8. /\ r.pc = old.pc /\ r.sheet = s /\ r.errors = old.errors
      /\ DOMAIN r.left = DOMAIN old.left \ {i}
      /\ \A k \in DOMAIN r.left : r.left[k] = old.left[k]
      /\ r = [pc |-> r.pc, sheet |-> r.sheet, left |-> r.left, errors |-> r.errors]
  BY <1>1 DEF UploadOK, Import!Restrict
<1> HIDE DEF r, i, no
<1>9. UploadOK(r)
  BY <1>1, <1>2, <1>8 DEF UploadOK
<1>10. /\ imported' = [o \in OrderNo |-> imported'[o]]
       /\ imported'[no] = AsStored(Mapped(s)[i])
       /\ \A o \in OrderNo \ {no} : imported'[o] = imported[o]
  <2> DEFINE h == imported
  <2>1. h = [o \in OrderNo |-> h[o]] /\ imported' = [h EXCEPT ![no] = AsStored(Mapped(s)[i])]
    BY <1>6 DEF ImportInv
  <2> HIDE DEF h
  <2>2. imported' = [o \in OrderNo |-> IF o = no THEN AsStored(Mapped(s)[i]) ELSE h[o]]
    BY <2>1
  <2> QED
    BY <1>5, <2>2 DEF h
<1>11. /\ up' = [v \in Import!Upload |-> up'[v]] /\ up'[u] = r
       /\ \A v \in Import!Upload \ {u} : up'[v] = up[v]
  <2> DEFINE h == up
  <2>1. h = [v \in Import!Upload |-> h[v]] /\ up' = [h EXCEPT ![u] = r]
    BY <1>7 DEF ImportInv
  <2> HIDE DEF h
  <2>2. up' = [v \in Import!Upload |-> IF v = u THEN r ELSE h[v]]
    BY <2>1
  <2> QED
    BY <2>2 DEF h
<1>12. \A v \in Import!Upload : up'[v].pc = up[v].pc /\ up'[v].sheet = up[v].sheet
  BY <1>8, <1>11
<1>13. \A v \in Import!Upload : UploadOK(up'[v])
  BY <1>9, <1>11 DEF ImportInv
<1>14. FromSheets'
  <2>1. ASSUME NEW o \in OrderNo, imported'[o] # Import!NoOrder
        PROVE  \E v \in Import!Upload : up[v].pc \in Taken
                                        /\ IsOf(imported'[o], up[v].sheet, o)
    <3>1. CASE o = no
      <4>1. IsOf(imported'[o], s, o)
        BY <1>4, <1>10, <3>1 DEF IsOf, no
      <4> QED
        BY <1>1, <4>1
    <3>2. CASE o # no
      BY <1>10, <2>1, <3>2 DEF ImportInv, FromSheets
    <3> QED
      BY <3>1, <3>2
  <2>2. ASSUME NEW o \in OrderNo, imported'[o] # Import!NoOrder
        PROVE  \E v \in Import!Upload : up'[v].pc \in Taken
                                        /\ IsOf(imported'[o], up'[v].sheet, o)
    BY <1>12, <2>1, <2>2
  <2> QED
    BY <2>2 DEF FromSheets, IsOf, Mapped, Readable, AsStored
<1>15. Stored'
  <2>1. ASSUME NEW v \in Import!Upload, up'[v].pc \in Taken,
               NEW k \in DOMAIN Mapped(up'[v].sheet) \ DOMAIN up'[v].left
        PROVE  imported'[Mapped(up'[v].sheet)[k].orderNo] # Import!NoOrder
    <3> DEFINE own == up[v].sheet
               of == Mapped(own)[k].orderNo
    <3>1. up'[v].sheet = own /\ up[v].pc \in Taken /\ k \in DOMAIN Mapped(own)
      BY <1>12, <2>1
    <3>2. own \in Sheets
      BY <3>1, TakenIs DEF ImportInv
    <3>3. of \in OrderNo
      BY <3>1, <3>2, OrderIs
    <3>4. CASE of = no
      BY <1>5, <1>10, <3>1, <3>4
    <3>5. CASE of # no
      <4>1. ~(v = u /\ k = i)
        BY <3>5 DEF no
      <4>2. k \notin DOMAIN up[v].left
        BY <1>8, <1>11, <2>1, <4>1
      <4>3. imported[of] # Import!NoOrder
        BY <3>1, <4>2 DEF ImportInv, Stored
      <4> QED
        BY <1>10, <3>1, <3>3, <3>5, <4>3
    <3> QED
      BY <3>4, <3>5
  <2> QED
    BY <2>1 DEF Stored, Mapped, Readable
<1> QED
  BY <1>10, <1>11, <1>13, <1>14, <1>15 DEF ImportInv, UploadOK, Mapped, Readable

LEMMA ImportStep == ImportInv /\ [Import!Next]_<<imported, up>> => ImportInv'
<1> SUFFICES ASSUME ImportInv, [Import!Next]_<<imported, up>> PROVE ImportInv'
  OBVIOUS
<1>1. ASSUME NEW u \in Import!Upload, Import!Post(u) PROVE ImportInv'
  BY <1>1, PostStep
<1>2. ASSUME NEW u \in Import!Upload, Import!UpsertOrder(u) PROVE ImportInv'
  BY <1>2, StoreStep
<1>3. ASSUME NEW u \in Import!Upload, Import!Answer(u) PROVE ImportInv'
  BY <1>3, AnswerStep
<1>4. ASSUME NEW u \in Import!Upload, Import!Break(u) PROVE ImportInv'
  BY <1>4, BreakStep
<1>5. CASE UNCHANGED <<imported, up>>
  BY <1>5 DEF ImportInv, FromSheets, Stored, UploadOK, IsOf, Mapped, Readable, AsStored
<1> QED
  BY <1>1, <1>2, <1>3, <1>4, <1>5 DEF Import!Next

LEMMA ImportAlways == Import!Spec => []ImportInv
BY ImportStart, ImportStep, PTL DEF Import!Spec, Import!vars

\* What is on file of an order number is nothing, or what a sheet says.
LEMMA FiledIs ==
  ASSUME ImportInv, NEW o \in OrderNo, imported[o] # Import!NoOrder
  PROVE  /\ imported[o].status \in Import!UnifiedOrderStatus /\ imported[o].total \in Nat
         /\ \A j \in DOMAIN imported[o].items : imported[o].items[j].quantity \in Nat \ {0}
         /\ \E u \in Import!Upload : /\ up[u].pc \in Taken
                                     /\ Import!Says(up[u].sheet, o, imported[o])
<1>1. PICK u \in Import!Upload : up[u].pc \in Taken /\ IsOf(imported[o], up[u].sheet, o)
  BY DEF ImportInv, FromSheets
<1>2. up[u].sheet \in Sheets
  BY <1>1, TakenIs DEF ImportInv
<1>3. PICK i \in DOMAIN Mapped(up[u].sheet) :
        /\ Mapped(up[u].sheet)[i].orderNo = o
        /\ imported[o] = AsStored(Mapped(up[u].sheet)[i])
  BY <1>1 DEF IsOf
<1>4. Import!Rows(up[u].sheet)[i].orderNo = o
  BY <1>2, <1>3, OrderIs
<1> QED
  BY <1>1, <1>2, <1>3, <1>4, OrderIs

\* The types of the import.
THEOREM ImportTypeCorrect == Import!Spec => []Import!TypeOK
<1>1. ImportInv => Import!TypeOK
  <2> SUFFICES ASSUME ImportInv PROVE Import!TypeOK
    OBVIOUS
  <2>1. DOMAIN imported = OrderNo
    BY DEF ImportInv
  <2>2. ASSUME NEW o \in OrderNo
        PROVE  /\ imported[o].status \in Import!UnifiedOrderStatus
               /\ imported[o].total \in Nat
               /\ \A j \in DOMAIN imported[o].items :
                    imported[o].items[j].quantity \in Nat \ {0}
    <3>1. CASE imported[o] = Import!NoOrder
      <4>1. /\ Import!NoOrder.status \in Import!UnifiedOrderStatus
            /\ Import!NoOrder.total \in Nat /\ DOMAIN Import!NoOrder.items = {}
        BY DEF Import!NoOrder, Import!UnifiedOrderStatus
      <4> QED
        BY <3>1, <4>1
    <3>2. CASE imported[o] # Import!NoOrder
      BY <3>2, FiledIs
    <3> QED
      BY <3>1, <3>2
  <2>3. ASSUME NEW u \in Import!Upload
        PROVE  /\ up[u].pc \in {"new", "storing", "imported", "refused", "broken"}
               /\ up[u].sheet \in Sheets \cup {Import!NotSent.sheet}
               /\ DOMAIN up[u].left \subseteq DOMAIN up[u].sheet.rows
               /\ up[u].errors \subseteq 2..(Len(up[u].sheet.rows) + 1)
    <3>1. UploadOK(up[u])
      BY DEF ImportInv
    <3>2. /\ Import!NotSent.pc = "new" /\ DOMAIN Import!NotSent.left = {}
          /\ Import!NotSent.errors = {}
      BY DEF Import!NotSent
    <3>3. CASE up[u] = Import!NotSent
      BY <3>2, <3>3
    <3>4. CASE up[u].pc = "refused" /\ up[u].sheet \in Sheets
               /\ up[u].left = Import!NotSent.left /\ up[u].errors = {}
      BY <3>2, <3>4
    <3>5. CASE up[u].pc \in Taken
      <4>1. /\ up[u].sheet \in Sheets /\ up[u].errors = Import!RowErrors(up[u].sheet)
            /\ DOMAIN up[u].left \subseteq DOMAIN Mapped(up[u].sheet)
        BY <3>1, <3>5, TakenIs
      <4>2. DOMAIN up[u].left \subseteq DOMAIN up[u].sheet.rows
        BY <4>1, LinesAre, ReadableRows
      <4>3. up[u].errors \subseteq 2..(Len(up[u].sheet.rows) + 1)
        <5>1. /\ Len(up[u].sheet.rows) \in Nat
              /\ DOMAIN up[u].sheet.rows = 1..Len(up[u].sheet.rows)
          BY <4>1, SellerAssumption DEF Import!GsShopAssumption
        <5> QED
          BY <4>1, <5>1 DEF Import!RowErrors
      <4> QED
        BY <3>5, <4>1, <4>2, <4>3 DEF Taken
    <3> QED
      BY <3>1, <3>3, <3>4, <3>5 DEF UploadOK
  <2> QED
    BY <2>1, <2>2, <2>3 DEF Import!TypeOK
<1> QED
  BY <1>1, ImportAlways, PTL

\* Whatever uploads of one seller are under way at once, an order on file is what
\* one sheet says of it, and an upload that was answered has stored or reported
\* every row (mapGsShopRowsToOrders, parseGsShopExcel, upsertOrders).
THEOREM FiledAsSaid == Import!Spec => []ImportedIsItsSheet
<1>1. ImportInv => ImportedIsItsSheet
  <2> SUFFICES ASSUME ImportInv PROVE Import!ImportedIsItsSheet
    BY DEF ImportedIsItsSheet
  <2>1. ASSUME NEW o \in OrderNo, imported[o] # Import!NoOrder
        PROVE  \E u \in Import!Upload : /\ up[u].pc # "refused"
                                        /\ Import!Says(up[u].sheet, o, imported[o])
    BY <2>1, FiledIs DEF Taken
  <2>2. ASSUME NEW u \in Import!Upload, up[u].pc = "imported",
               NEW i \in DOMAIN up[u].sheet.rows, i + 1 \notin up[u].errors
        PROVE  LET rows == Import!Rows(up[u].sheet)
               IN /\ imported[rows[i].orderNo] # Import!NoOrder
                  /\ i \in Import!Complete(up[u].sheet, rows[i].orderNo)
    <3> DEFINE s == up[u].sheet
               rows == Import!Rows(s)
    <3>1. UploadOK(up[u]) /\ up[u].pc \in Taken
      BY <2>2 DEF ImportInv, Taken
    <3>2. s \in Sheets /\ up[u].errors = Import!RowErrors(s) /\ DOMAIN up[u].left = {}
      BY <2>2, <3>1, TakenIs DEF UploadOK
    <3>3. i \in Readable(s)
      BY <2>2, <3>2, NoError
    <3>4. PICK k \in DOMAIN Mapped(s) : rows[k].orderNo = rows[i].orderNo
      BY <3>2, <3>3, EachMapped
    <3>5. Mapped(s)[k].orderNo = rows[i].orderNo
      BY <3>2, <3>4, OrderIs
    <3>6. imported[rows[i].orderNo] # Import!NoOrder
      BY <3>1, <3>2, <3>5 DEF ImportInv, Stored
    <3>7. i \in Import!Complete(s, rows[i].orderNo)
      BY <3>2, <3>3, ReadableRows DEF Import!Complete
    <3> QED
      BY <3>6, <3>7
  <2> QED
    BY <2>1, <2>2 DEF Import!ImportedIsItsSheet
<1> QED
  BY <1>1, ImportAlways, PTL

-----------------------------------------------------------------------------
(* The composed run *)

LEMMA Each ==
  SellerSpec => /\ Spec /\ Naver!Spec /\ Desk!Spec /\ Import!Spec
                /\ Metrics!Spec /\ Scripts!Spec
<1>1. [SellerNext]_allVars => [Next]_vars
  BY DEF SellerNext, ConnsNext, NaverNext, DeskNext, ImportNext, MetricsNext, ScriptsNext,
         allVars
<1>2. [SellerNext]_allVars
        => [Naver!Next]_<<clock, ver, file, resume, run, seen, swept, fails>>
  BY DEF SellerNext, ConnsNext, NaverNext, DeskNext, ImportNext, MetricsNext, ScriptsNext,
         allVars, naverVars
<1>3. [SellerNext]_allVars => [Desk!Next]_<<stored, session, page, call, clicks, pages>>
  BY DEF SellerNext, ConnsNext, NaverNext, DeskNext, ImportNext, MetricsNext, ScriptsNext,
         allVars, deskVars
<1>4. [SellerNext]_allVars => [Import!Next]_<<imported, up>>
  BY DEF SellerNext, ConnsNext, NaverNext, DeskNext, ImportNext, MetricsNext, ScriptsNext,
         allVars, sheetVars
<1>5. [SellerNext]_allVars
        => [Metrics!Next]_<<journal, deposits, quote, read, posts, moves, missed>>
  BY DEF SellerNext, ConnsNext, NaverNext, DeskNext, ImportNext, MetricsNext, ScriptsNext,
         allVars, metricVars
<1>6. [SellerNext]_allVars
        => [Scripts!Next]_<<script, env, files, runs, pullFaults, pulled, damaged>>
  BY DEF SellerNext, ConnsNext, NaverNext, DeskNext, ImportNext, MetricsNext, ScriptsNext,
         allVars, scriptVars
<1>7. SellerInit => /\ Init /\ Naver!Init /\ Desk!Init /\ Import!Init
                    /\ Metrics!Init /\ Scripts!Init
  BY DEF SellerInit
<1> QED
  BY <1>1, <1>2, <1>3, <1>4, <1>5, <1>6, <1>7, PTL
  DEF SellerSpec, Spec, Naver!Spec, Naver!vars, Desk!Spec, Desk!vars, Import!Spec,
      Import!vars, Metrics!Spec, Metrics!vars, Scripts!Spec, Scripts!vars

\* Every part keeps its types, whichever is at work.
THEOREM SellerTypeCorrect == SellerSpec => []SellerTypeOK
<1>1. SellerInit => which \in Component
  BY DEF SellerInit
<1>2. which \in Component /\ [SellerNext]_allVars => (which \in Component)'
  BY DEF SellerNext, ConnsNext, NaverNext, DeskNext, ImportNext, MetricsNext, ScriptsNext,
         allVars
<1>3. SellerSpec => [](which \in Component)
  BY <1>1, <1>2, PTL DEF SellerSpec
<1>4. /\ which \in Component /\ TypeOK /\ Naver!TypeOK /\ Desk!TypeOK /\ Import!TypeOK
      /\ Metrics!TypeOK /\ Scripts!TypeOK
      => SellerTypeOK
  BY DEF Component, SellerTypeOK
<1> QED
  BY <1>3, <1>4, Each, TypeCorrect, NaverTypes, DeskTypeCorrect, ImportTypeCorrect,
     MetricsTypeCorrect, PullTypeCorrect, PTL

\* The composed run keeps every invariant of its parts.
THEOREM SellerCorrect ==
  SellerSpec => [](/\ SellerTypeOK /\ StoredWasVerified /\ StaleOnlyUnderWay
                   /\ SweptMeansFiled /\ SavedAsShown /\ TableIsOfFilter
                   /\ ImportedIsItsSheet /\ AgingIsFifo /\ ThrowsOnlyWhenRaced
                   /\ HealthWithinAxes /\ PulledIsKept)
BY Each, SellerTypeCorrect, StoredIsVerified, StaleIsUnderWay, Filed, SavesAreShown,
   TableFollowsFilter, FiledAsSaid, FirstInFirstOut, ThrownWhenRaced, ScoreWithinAxes,
   NothingPulledIsLost, PTL
=============================================================================
