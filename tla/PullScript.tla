------------------------------ MODULE PullScript ------------------------------
(***************************************************************************)
(* The pull scripts and their JSON store.  A script run by hand checks its *)
(* configuration and the credential, pages through the orders and the      *)
(* products of its marketplace, merges each page into a file that it reads *)
(* and rewrites whole, and records the run in a third file.  The three     *)
(* scripts differ in the marketplace and in what has to be configured.     *)
(* A file is truncated before it is written: a reader in between, or after *)
(* an exit or an error in between, finds no array in it and takes it for   *)
(* empty, as it takes any file that it fails to read.                      *)
(***************************************************************************)
EXTENDS Integers, FiniteSets

CONSTANTS
  Run,          \* runs of the script, each once
  Pages,        \* pages of the orders and of the products
  Listed,       \* [Run -> [Data -> [1..Pages -> items]]]: what a run is answered
  EnvChoices,   \* what may be configured
  MaxFaults     \* bound of the model: calls that throw, and exits

Data == {"orders", "products"}
File == Data \cup {"runs"}
Script == {"naver", "coupang", "esm"}

\* The variables of the environment that matter to some script.
Env == {"NAVER_COMMERCE_CLIENT_ID", "NAVER_COMMERCE_CLIENT_SECRET", "COUPANG_VENDOR_ID",
        "COUPANG_ACCESS_KEY", "COUPANG_SECRET_KEY", "ESM_MASTER_ID",
        "ESM_SECRET_KEY", "ESM_CLIENT_DOMAIN", "ESM_GMARKET_SELLER_ID",
        "ESM_AUCTION_SELLER_ID"}

PullAssumption ==
  /\ Pages \in Nat \ {0} /\ MaxFaults \in Nat
  /\ EnvChoices \subseteq SUBSET Env
  /\ Listed \in [Run -> [Data -> [1..Pages -> SUBSET Int]]]
  /\ \A r \in Run, f \in Data, n \in 1..Pages : IsFiniteSet(Listed[r][f][n])

VARIABLES
  script, env,  \* the script that is run, and the variables that are set
  file,         \* what a reader finds in each file; a torn one reads as empty
  run,          \* the runs
  faults,       \* faults so far (bounded by MaxFaults)
  pulled,       \* history: what was merged into each file
  damaged       \* history: the files that two runs at once may have read or
                \* written, that a run failed to read, or that it stopped or
                \* failed in writing

vars == <<script, env, file, run, faults, pulled, damaged>>

\* SyncRunSummary: the run, how it ended, and the totals it gives.
Summary(r, status, total) == [run |-> r, status |-> status, total |-> total]

NoTotal == [f \in Data |-> 0]

NotStarted == [pc |-> "new", file |-> "orders", page |-> 1, got |-> {}, out |-> {},
               total |-> NoTotal]

TypeOK ==
  /\ script \in Script /\ env \subseteq Env
  /\ \A f \in Data : file[f].content \subseteq Int /\ pulled[f] \subseteq Int
  /\ \A s \in file["runs"].content \cup pulled["runs"] :
       s.run \in Run /\ s.status \in {"success", "failed"} /\ s.total \in [Data -> Nat]
  /\ \A f \in File : file[f].torn \in BOOLEAN
  /\ \A r \in Run :
       /\ run[r].pc \in {"new", "verify", "fetch", "read", "write", "close", "ended"}
       /\ run[r].file \in File /\ run[r].page \in 1..Pages
       /\ run[r].total \in [Data -> Nat]
  /\ faults \in 0..MaxFaults /\ damaged \subseteq File

Init ==
  /\ script \in Script /\ env \in EnvChoices
  /\ file = [f \in File |-> [content |-> {}, torn |-> FALSE]]
  /\ run = [r \in Run |-> NotStarted]
  /\ faults = 0 /\ damaged = {}
  /\ pulled = [f \in File |-> {}]

Fault == faults < MaxFaults /\ faults' = faults + 1

AtWork(r) == run[r].pc \notin {"new", "ended"}

-----------------------------------------------------------------------------
(* The gates *)

\* naver-pull.ts
NaverConfigured == {"NAVER_COMMERCE_CLIENT_ID", "NAVER_COMMERCE_CLIENT_SECRET"} \subseteq env

\* coupang-pull.ts
CoupangConfigured ==
  {"COUPANG_VENDOR_ID", "COUPANG_ACCESS_KEY", "COUPANG_SECRET_KEY"} \subseteq env

\* esm-pull.ts: the master account, and the id of one of its two sites.
EsmConfigured ==
  /\ {"ESM_MASTER_ID", "ESM_SECRET_KEY", "ESM_CLIENT_DOMAIN"} \subseteq env
  /\ {"ESM_GMARKET_SELLER_ID", "ESM_AUCTION_SELLER_ID"} \cap env # {}

Configured == CASE script = "naver" -> NaverConfigured
                [] script = "coupang" -> CoupangConfigured
                [] script = "esm" -> EsmConfigured

-----------------------------------------------------------------------------
(* A run *)

To(r, next) == run' = [run EXCEPT ![r] = next]

\* main: not configured, it exits at once.
Start(r) ==
  /\ run[r].pc = "new"
  /\ To(r, [NotStarted EXCEPT !.pc = IF Configured THEN "verify" ELSE "ended"])
  /\ damaged' = IF Configured /\ \E s \in Run : AtWork(s) THEN File ELSE damaged
  /\ UNCHANGED <<script, env, file, faults, pulled>>

\* The first page of a file.
Ask(r, f) == [run[r] EXCEPT !.pc = "fetch", !.file = f, !.page = 1]

\* catch: the run is recorded as failed, with no totals.
Failed(r) == [NotStarted EXCEPT !.pc = "read", !.file = "runs",
                                !.got = {Summary(r, "failed", NoTotal)}]
Ended(r) == [run[r] EXCEPT !.pc = "ended"]

\* Where the store throws: a page and the summary of a success are inside the
\* try, the summary of a failure is not.
Thrown(r) ==
  IF run[r].file = "runs" /\ \E s \in run[r].got : s.status = "failed"
    THEN Ended(r) ELSE Failed(r)

\* verifyCredential: a credential that is rejected ends the run unrecorded.
Verify(r) ==
  /\ run[r].pc = "verify"
  /\ \/ To(r, Ask(r, "orders")) /\ UNCHANGED faults
     \/ Fault /\ (To(r, Ended(r)) \/ To(r, Failed(r)))
  /\ UNCHANGED <<script, env, file, pulled, damaged>>

\* fetchOrders, fetchProducts: the page, or the call throws.
FetchPage(r) ==
  LET me == run[r] IN
  /\ me.pc = "fetch"
  /\ \/ /\ To(r, [me EXCEPT !.pc = "read", !.got = Listed[r][me.file][me.page]])
        /\ UNCHANGED faults
     \/ Fault /\ To(r, Failed(r))
  /\ UNCHANGED <<script, env, file, pulled, damaged>>

\* Mutant: what the file held is not merged.
MergeAfresh(r) ==
  /\ run[r].pc = "read"
  /\ To(r, [run[r] EXCEPT !.pc = "write", !.out = @ \cup run[r].got])
  /\ UNCHANGED <<script, env, file, faults, pulled, damaged>>

\* ensureDir, readJsonArray, and the merge with what it returns: of a torn file
\* nothing, and nothing where the read fails.
Merge(r) ==
  LET f == run[r].file
      Write(found) == [run[r] EXCEPT !.pc = "write", !.out = found \cup run[r].got]
  IN /\ run[r].pc = "read"
     /\ \/ To(r, Write(file[f].content)) /\ UNCHANGED <<faults, damaged>>
        \/ Fault /\ To(r, Write({})) /\ damaged' = damaged \cup {f}
        \/ Fault /\ To(r, Thrown(r)) /\ UNCHANGED damaged
     /\ UNCHANGED <<script, env, file, pulled>>

\* writeFile truncates, or cannot open the file,
Truncate(r) ==
  /\ run[r].pc = "write"
  /\ \/ /\ file' = [file EXCEPT ![run[r].file] = [content |-> {}, torn |-> TRUE]]
        /\ To(r, [run[r] EXCEPT !.pc = "close"])
        /\ UNCHANGED faults
     \/ Fault /\ To(r, Thrown(r)) /\ UNCHANGED file
  /\ UNCHANGED <<script, env, pulled, damaged>>

\* What follows a page: the next, the products, the summary of a success.
Following(r, total) ==
  LET me == [run[r] EXCEPT !.total = total, !.got = {}, !.out = {}]
  IN CASE me.file = "runs" -> [me EXCEPT !.pc = "ended"]
       [] me.file # "runs" /\ me.page < Pages -> [me EXCEPT !.pc = "fetch", !.page = @ + 1]
       [] me.file = "orders" /\ me.page = Pages ->
            [me EXCEPT !.pc = "fetch", !.file = "products", !.page = 1]
       [] me.file = "products" /\ me.page = Pages ->
            [me EXCEPT !.pc = "read", !.file = "runs",
                       !.got = {Summary(r, "success", total)}]

Written(r) ==
  LET me == run[r] IN
  /\ file' = [file EXCEPT ![me.file] = [content |-> me.out, torn |-> FALSE]]
  /\ pulled' = [pulled EXCEPT ![me.file] = @ \cup me.got]
  /\ UNCHANGED damaged

\* and writes; the loop goes on while there is a cursor.
WriteFile(r) ==
  LET me == run[r]
      total == IF me.file = "runs" THEN me.total
               ELSE [me.total EXCEPT ![me.file] = Cardinality(me.out)]
  IN /\ me.pc = "close"
     /\ Written(r) /\ To(r, Following(r, total))
     /\ UNCHANGED <<script, env, faults>>

\* It fails, with a part of the array in the file or all of it.
FailWrite(r) ==
  /\ run[r].pc = "close" /\ Fault
  /\ \/ Written(r)
     \/ damaged' = damaged \cup {run[r].file} /\ UNCHANGED <<file, pulled>>
  /\ To(r, Thrown(r))
  /\ UNCHANGED <<script, env>>

\* The process is killed.
Crash(r) ==
  /\ AtWork(r) /\ Fault
  /\ damaged' = damaged \cup (IF run[r].pc = "close" THEN {run[r].file} ELSE {})
  /\ To(r, Ended(r))
  /\ UNCHANGED <<script, env, file, pulled>>

Next == \E r \in Run :
  \/ Start(r) \/ Verify(r) \/ FetchPage(r) \/ Merge(r) \/ Truncate(r)
  \/ WriteFile(r) \/ FailWrite(r) \/ Crash(r)

Spec == Init /\ [][Next]_vars

-----------------------------------------------------------------------------
(* Properties *)

Listing(r, f) == UNION {Listed[r][f][n] : n \in 1..Pages}

\* Over any number of runs, failed and killed ones among them, nothing that was
\* merged into a file leaves it, unless two runs were at work at once or that
\* very file failed to be read or to be written; and whatever happened, a run
\* that is recorded as a success has merged every page of its orders and
\* products, and counts no fewer than there are in a file that none of it
\* befell (upsertOrders, upsertProducts, appendSyncRun, readJsonArray).
PulledIsKept ==
  /\ \A f \in File \ damaged : file[f].torn \/ pulled[f] \subseteq file[f].content
  /\ \A s \in pulled["runs"] : s.status = "success" =>
       \A f \in Data :
         /\ Listing(s.run, f) \subseteq pulled[f]
         /\ f \notin damaged => s.total[f] >= Cardinality(Listing(s.run, f))
=============================================================================
