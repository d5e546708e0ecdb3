-------------------------- MODULE Services_proofs --------------------------
(***************************************************************************)
(* Proofs about the three components Services puts side by side, for       *)
(* every value of their constants: the accounts, the two gates in memory,  *)
(* and an HTTP call.  Each part has its inductive invariant, a lemma for   *)
(* each action, and then its theorems.                                     *)
(***************************************************************************)
EXTENDS Services, FiniteSetTheorems, TLAPS

-----------------------------------------------------------------------------
(* Accounts *)

\* What a request holds, its states, and a hit of the limiters, named for the proofs.
Pc == {"free", "create", "issue", "relay", "reset", "created", "relayed", "changed", "over"}
Held == [pc : Pc, email : Email \cup {NoEmail}, code : Code \cup {NoCode},
         draw : 0 .. Draws, from : 0 .. MaxNow, token : Request \cup {NoRequest}]
Hit == [n : Request, at : 0 .. MaxNow]

\* Who is still to be answered has an address; who asked for a code, an account.
Accounted ==
  \A r \in Request :
    /\ req[r].pc = "create" => req[r].email \in Email
    /\ req[r].pc \in {"issue", "reset"} => req[r].email \in Email /\ Exists(req[r].email)
    /\ req[r].pc = "created" =>
         /\ req[r].email \in Email /\ req[r].code \in Code
         /\ seller[req[r].email].code = req[r].code

AType == AccountsAssumption /\ TypeOK /\ Accounted

LEMMA ATypes ==
  ASSUME AType
  PROVE  /\ now \in 0 .. MaxNow /\ MaxNow \in Nat /\ Ttl \in Nat /\ Draws \in Nat \ {0}
         /\ NoCode \notin Code /\ NoEmail \notin Email
         /\ seller \in [Email -> Row \cup {NoRow}]
         /\ req \in [Request -> Held] /\ hits \in [Bucket -> SUBSET Hit]
         /\ issued \in [Email -> Request \cup {NoRequest}] /\ crossed \subseteq Request
         /\ Request \subseteq Nat \ {0} /\ NoRequest \notin Request
BY DEF AType, TypeOK, AccountsAssumption, Held, Pc, Hit, Request, NoRequest

\* A row that is there has a company code; a row that is not, neither kind of code.
LEMMA Rows ==
  ASSUME AccountsAssumption
  PROVE  /\ NoRow \notin Row /\ NoRow.token = NoRequest /\ NoRow.code = NoCode
         /\ \A x \in Row : /\ x.code \in Code /\ x.password \in Request
                           /\ x.token \in Request \cup {NoRequest} /\ x.expires \in Nat
BY DEF AccountsAssumption, NoRow, Row

\* The request r now holds these, and the others what they held.
Holds(r, pc, email, code, from, token) ==
  /\ req' \in [Request -> Held]
  /\ req'[r].pc = pc /\ req'[r].email = email /\ req'[r].code = code
  /\ req'[r].from = from /\ req'[r].token = token
  /\ \A s \in Request \ {r} : req'[s] = req[s]

\* The request r goes on, or ends, with what it held.
Goes(r, pc) == Holds(r, pc, req[r].email, req[r].code, req[r].from, req[r].token)

LEMMA Ends ==
  ASSUME AType, NEW r \in Request, NEW pc \in Pc, req' = [req EXCEPT ![r].pc = pc]
  PROVE  Goes(r, pc)
BY ATypes DEF Goes, Holds, Held

LEMMA Signs ==
  ASSUME AType, NEW r \in Request, NEW e \in Email, SignUp(r, e)
  PROVE  Goes(r, "over") \/ Holds(r, "create", e, req[r].code, req[r].from, req[r].token)
<1>1. CASE Exists(e)
  BY <1>1, Ends DEF SignUp, Pc
<1>2. CASE ~Exists(e)
  <2> DEFINE h == [req[r] EXCEPT !.pc = "create", !.email = e]
  <2>1. /\ h \in Held /\ h.pc = "create" /\ h.email = e /\ h.code = req[r].code
        /\ h.from = req[r].from /\ h.token = req[r].token
    <3>1. req[r] \in Held
      BY ATypes
    <3> QED
      BY <3>1 DEF Held, Pc
  <2>2. req' = [req EXCEPT ![r] = [h EXCEPT !.draw = 1]]
    BY <1>2 DEF SignUp
  <2> HIDE DEF h
  <2> QED
    BY <2>1, <2>2, ATypes DEF Holds, Held
<1> QED
  BY <1>1, <1>2

LEMMA Creates ==
  ASSUME AType, NEW r \in Request, NEW c \in Code, Create(r, c)
  PROVE  /\ req[r].pc = "create" /\ req[r].email \in Email
         /\ \/ /\ Holds(r, "created", req[r].email, c, req[r].from, req[r].token)
               /\ ~Exists(req[r].email) /\ ~CodeTaken(c)
               /\ seller' = [seller EXCEPT ![req[r].email] =
                    [code |-> c, password |-> r, token |-> NoRequest, expires |-> 0]]
            \/ (Goes(r, "create") \/ Goes(r, "over")) /\ UNCHANGED seller
<1>0. req[r].pc = "create" /\ req[r].email \in Email
  BY DEF AType, Accounted, Create
<1>1. ASSUME req' = [req EXCEPT ![r].pc = "created", ![r].code = c]
      PROVE  Holds(r, "created", req[r].email, c, req[r].from, req[r].token)
  <2> DEFINE h == [req[r] EXCEPT !.pc = "created"]
  <2>1. /\ h \in Held /\ h.pc = "created" /\ h.email = req[r].email
        /\ h.from = req[r].from /\ h.token = req[r].token
    <3>1. req[r] \in Held
      BY ATypes
    <3> QED
      BY <3>1 DEF Held, Pc
  <2>2. req' = [req EXCEPT ![r] = [h EXCEPT !.code = c]]
    BY <1>1
  <2> HIDE DEF h
  <2> QED
    BY <2>1, <2>2, ATypes DEF Holds, Held
<1>2. ASSUME req' = [req EXCEPT ![r].draw = @ + 1], req[r].draw < Draws
      PROVE  Goes(r, "create")
  <2>1. req' = [req EXCEPT ![r] = [req[r] EXCEPT !.draw = req[r].draw + 1]]
    BY <1>2
  <2>2. req[r].draw + 1 \in 0 .. Draws
    BY <1>2, ATypes DEF Held
  <2> QED
    BY <1>0, <2>1, <2>2, ATypes DEF Goes, Holds, Held
<1>3. ASSUME End(r, "over") PROVE Goes(r, "over")
  BY <1>3, Ends DEF End, Pc
<1> QED
  BY <1>0, <1>1, <1>2, <1>3 DEF Create

LEMMA Asks ==
  ASSUME AType, NEW r \in Request, NEW e \in Email, NEW c \in Code, AskReset(r, e, c)
  PROVE  \/ Goes(r, "over")
         \/ Exists(e) /\ Holds(r, "issue", e, req[r].code, now, req[r].token)
<1>1. CASE Passes(Ip("request"), <<"request", e, c>>) /\ seller[e].code = c
  <2> DEFINE h == [req[r] EXCEPT !.pc = "issue", !.email = e]
  <2>1. /\ h \in Held /\ h.pc = "issue" /\ h.email = e /\ h.code = req[r].code
        /\ h.token = req[r].token
    <3>1. req[r] \in Held
      BY ATypes
    <3> QED
      BY <3>1 DEF Held, Pc
  <2>2. req' = [req EXCEPT ![r] = [h EXCEPT !.from = now]]
    BY <1>1 DEF AskReset
  <2> HIDE DEF h
  <2>3. Holds(r, "issue", e, req[r].code, now, req[r].token)
    BY <2>1, <2>2, ATypes DEF Holds, Held
  <2> QED
    BY <1>1, <2>3, ATypes, Rows DEF Exists, AType
<1>2. CASE ~(Passes(Ip("request"), <<"request", e, c>>) /\ seller[e].code = c)
  BY <1>2, Ends DEF AskReset, Pc
<1> QED
  BY <1>1, <1>2

LEMMA Takes ==
  ASSUME AType, NEW r \in Request, NEW t \in Request, Reset(r, t)
  PROVE  /\ req[r].pc = "free" /\ req[t].pc = "relayed"
         /\ \/ Goes(r, "over") /\ UNCHANGED crossed
            \/ \E e \in Email :
                 /\ Valid(e, t) /\ Exists(e) /\ crossed' = Crossed(r, e)
                 /\ Holds(r, "reset", e, req[r].code, now, t)
<1>0. req[r].pc = "free" /\ req[t].pc = "relayed"
  BY DEF Reset, Arrives
<1>1. CASE End(r, "over") /\ UNCHANGED crossed
  BY <1>0, <1>1, Ends DEF End, Pc
<1>2. ASSUME NEW e \in Email, Valid(e, t), crossed' = Crossed(r, e),
             req' = [req EXCEPT ![r].pc = "reset", ![r].email = e, ![r].from = now,
                                ![r].token = t]
      PROVE  Holds(r, "reset", e, req[r].code, now, t) /\ Exists(e)
  <2> DEFINE h == [req[r] EXCEPT !.pc = "reset", !.email = e]
  <2>0. e \in Email
    BY <1>2
  <2>1. h \in Held /\ h.pc = "reset" /\ h.email = e /\ h.code = req[r].code
    <3>1. req[r] \in Held
      BY ATypes
    <3>2. h \in Held
      BY <2>0, <3>1 DEF Held, Pc
    <3> QED
      BY <3>1 DEF Held, Pc
  <2> DEFINE k == [h EXCEPT !.from = now]
  <2>2. req' = [req EXCEPT ![r] = [k EXCEPT !.token = t]]
    BY <1>2
  <2> HIDE DEF h
  <2>3. k \in Held /\ k.pc = "reset" /\ k.email = e /\ k.code = req[r].code /\ k.from = now
    BY <2>1, ATypes DEF Held
  <2> HIDE DEF k
  <2>4. Holds(r, "reset", e, req[r].code, now, t)
    BY <2>2, <2>3, ATypes DEF Holds, Held
  <2> QED
    BY <1>2, <2>4, ATypes, Rows DEF Valid, Exists, AType
<1> QED
  BY <1>0, <1>1, <1>2 DEF Reset

\* What the limiters keep of their hits are hits.
LEMMA HitsStep == AType /\ [Next]_vars => hits' \in [Bucket -> SUBSET Hit]
<1> SUFFICES ASSUME AType, [Next]_vars PROVE hits' \in [Bucket -> SUBSET Hit]
  OBVIOUS
<1>1. ASSUME NEW r \in Request, NEW b \in Bucket PROVE Counted(r, b) \subseteq Hit
  BY ATypes DEF Counted, Consumed, Recent, Hit
<1>2. ASSUME NEW r \in Request, NEW e \in Email, FindCompanyCode(r, e)
      PROVE  hits' \in [Bucket -> SUBSET Hit]
  BY <1>1, <1>2, ATypes DEF FindCompanyCode, Gate
<1>3. ASSUME NEW r \in Request, NEW e \in Email, NEW c \in Code, AskReset(r, e, c)
      PROVE  hits' \in [Bucket -> SUBSET Hit]
  BY <1>1, <1>3, ATypes DEF AskReset, Gate
<1>4. ASSUME NEW r \in Request, NEW t \in Request, Reset(r, t)
      PROVE  hits' \in [Bucket -> SUBSET Hit]
  <2>1. Ip("reset") \in Bucket
    BY DEF Bucket
  <2> QED
    BY <1>1, <1>4, <2>1, ATypes DEF Reset
<1>5. UNCHANGED hits \/ Exit => hits' \in [Bucket -> SUBSET Hit]
  BY ATypes DEF Exit
<1>7. CASE TimePasses \/ UNCHANGED vars
  BY <1>5, <1>7 DEF TimePasses, vars
<1>8. CASE Next
  <2>1. ASSUME NEW r \in Request, \/ StoreToken(r) \/ Relay(r) \/ ResetPassword(r) \/ Fails(r)
                                  \/ \E e \in Email : SignUp(r, e)
                                  \/ \E c \in Code : Create(r, c)
        PROVE  hits' \in [Bucket -> SUBSET Hit]
    BY <1>5, <2>1 DEF SignUp, Create, StoreToken, Relay, ResetPassword, Fails
  <2> QED
    BY <1>2, <1>3, <1>4, <1>5, <1>7, <1>8, <2>1, Zenon DEF Next
<1> QED
  BY <1>7, <1>8

\* The exit of the server ends what waits, and leaves the rest as it is.
LEMMA Exits ==
  ASSUME AType, Exit
  PROVE  /\ req' \in [Request -> Held]
         /\ \A r \in Request :
              /\ req'[r].email = req[r].email /\ req'[r].code = req[r].code
              /\ req'[r].from = req[r].from /\ req'[r].token = req[r].token
              /\ \/ req'[r].pc = req[r].pc
                    /\ req[r].pc \notin {"create", "issue", "relay", "reset"}
                 \/ req'[r].pc = "over" /\ req[r].pc \in {"create", "issue", "relay", "reset"}
<1>1. ASSUME NEW r \in Request
      PROVE  LET h == [req[r] EXCEPT !.pc = "over"]
             IN  /\ h \in Held /\ h.pc = "over" /\ h.email = req[r].email
                 /\ h.code = req[r].code /\ h.from = req[r].from /\ h.token = req[r].token
  BY ATypes DEF Held, Pc
<1> QED
  BY <1>1, ATypes DEF Exit, Waiting

\* The rows keep their codes, and none goes.
Kept == \A e \in Email : seller'[e].code = seller[e].code /\ (Exists(e) => Exists(e)')

LEMMA AccountedKept ==
  ASSUME AType, NEW r \in Request, Kept, NEW pc, NEW email, NEW code, NEW from, NEW token,
         Holds(r, pc, email, code, from, token),
         pc = "create" => email \in Email,
         pc \in {"issue", "reset"} => email \in Email /\ Exists(email)',
         pc = "created" => email \in Email /\ code \in Code /\ seller'[email].code = code
  PROVE  Accounted'
BY DEF Holds, AType, Accounted, Kept, Exists

LEMMA Rest == UNCHANGED seller => Kept
BY DEF Kept, Exists

LEMMA Written ==
  ASSUME AType, NEW e \in Email, Exists(e), NEW x \in Row, x.code = seller[e].code,
         seller' = [seller EXCEPT ![e] = x]
  PROVE  Kept /\ seller' \in [Email -> Row \cup {NoRow}]
BY ATypes, Rows DEF Kept, Exists, AType

LEMMA ATypeStep == AType /\ [Next]_vars => AType'
<1> SUFFICES ASSUME AType, [Next]_vars PROVE AType'
  OBVIOUS
<1>0. /\ now \in 0 .. MaxNow /\ MaxNow \in Nat /\ Ttl \in Nat
      /\ seller \in [Email -> Row \cup {NoRow}]
      /\ req \in [Request -> Held] /\ NoCode \notin Code /\ NoRow \notin Row
      /\ issued \in [Email -> Request \cup {NoRequest}] /\ crossed \subseteq Request
  BY ATypes, Rows DEF AType
<1>a. ASSUME now' \in 0 .. MaxNow, seller' \in [Email -> Row \cup {NoRow}],
             req' \in [Request -> Held], issued' \in [Email -> Request \cup {NoRequest}],
             crossed' \subseteq Request, Accounted'
      PROVE  AType'
  <2>1. hits' \in [Bucket -> SUBSET Hit]
    BY HitsStep
  <2>2. AccountsAssumption
    BY DEF AType
  <2> QED
    BY <1>a, <2>1, <2>2 DEF AType, TypeOK, Held, Pc, Hit
<1>b. ASSUME NEW r \in Request, NEW pc \in {"over", "relay", "relayed", "changed"}, Goes(r, pc), Kept
      PROVE  Accounted' /\ req' \in [Request -> Held]
  <2>1. Accounted'
    BY <1>b, AccountedKept DEF Goes
  <2> QED
    BY <1>b, <2>1 DEF Goes, Holds
<1>1. ASSUME NEW r \in Request, NEW e \in Email, SignUp(r, e) PROVE AType'
  <2>1. CASE Goes(r, "over")
    BY <1>0, <1>a, <1>b, <1>1, <2>1, Rest DEF SignUp
  <2>2. CASE Holds(r, "create", e, req[r].code, req[r].from, req[r].token)
    <3>1. Accounted'
      BY <1>1, <2>2, Rest, AccountedKept DEF SignUp
    <3> QED
      BY <1>0, <1>a, <1>1, <2>2, <3>1 DEF SignUp, Holds
  <2> QED
    BY <1>1, <2>1, <2>2, Signs
<1>2. ASSUME NEW r \in Request, NEW e \in Email, FindCompanyCode(r, e) PROVE AType'
  BY <1>0, <1>a, <1>b, <1>2, Ends, Rest DEF FindCompanyCode, End, Pc
<1>3. ASSUME NEW r \in Request, NEW c \in Code, Create(r, c) PROVE AType'
  <2>0. UNCHANGED <<now, issued, crossed>> /\ req[r].pc = "create" /\ req[r].email \in Email
    BY <1>3, Creates DEF Create
  <2>1. CASE UNCHANGED seller /\ Goes(r, "over")
    BY <1>0, <1>a, <1>b, <2>0, <2>1, Rest
  <2>2. CASE UNCHANGED seller /\ Goes(r, "create")
    <3>1. Accounted'
      BY <2>0, <2>2, Rest, AccountedKept DEF Goes
    <3> QED
      BY <1>0, <1>a, <2>0, <2>2, <3>1 DEF Goes, Holds
  <2> DEFINE e == req[r].email
             x == [code |-> c, password |-> r, token |-> NoRequest, expires |-> 0]
  <2>3. CASE /\ ~Exists(e) /\ seller' = [seller EXCEPT ![e] = x]
             /\ Holds(r, "created", e, c, req[r].from, req[r].token)
    <3>1. x \in Row /\ x.code = c
      BY DEF Row
    <3> HIDE DEF x
    <3>2. /\ seller' \in [Email -> Row \cup {NoRow}] /\ seller'[e].code = c /\ seller'[e] # NoRow
          /\ \A f \in Email \ {e} : seller'[f] = seller[f]
      BY <1>0, <2>0, <2>3, <3>1
    <3>3. \A s \in Request : req[s].pc = "created" => req[s].email # e
      <4>1. seller[e].code \notin Code
        BY <2>3, Rows DEF Exists, AType, AccountsAssumption
      <4> QED
        BY <4>1 DEF AType, Accounted
    <3>4. Accounted'
      BY <2>0, <2>3, <3>1, <3>2, <3>3 DEF Holds, AType, Accounted, Exists
    <3> QED
      BY <1>0, <1>a, <2>0, <2>3, <3>2, <3>4 DEF Holds
  <2> QED
    BY <1>3, <2>1, <2>2, <2>3, Creates
<1>4. ASSUME NEW r \in Request, NEW e \in Email, NEW c \in Code, AskReset(r, e, c) PROVE AType'
  <2>1. CASE Goes(r, "over")
    BY <1>0, <1>a, <1>b, <1>4, <2>1, Rest DEF AskReset
  <2>2. CASE Exists(e) /\ Holds(r, "issue", e, req[r].code, now, req[r].token)
    <3>1. Accounted'
      BY <1>4, <2>2, Rest, AccountedKept DEF AskReset, Kept
    <3> QED
      BY <1>0, <1>a, <1>4, <2>2, <3>1 DEF AskReset, Holds
  <2> QED
    BY <1>4, <2>1, <2>2, Asks
<1>5. ASSUME NEW r \in Request, StoreToken(r) PROVE AType'
  <2> DEFINE e == req[r].email
  <2>1. e \in Email /\ Exists(e) /\ Goes(r, "relay")
    BY <1>5, Ends DEF StoreToken, End, Pc, AType, Accounted
  <2>2. seller[e] \in Row /\ req[r].from + Ttl \in Nat
    BY <1>0, <2>1 DEF Exists, Held
  <2> DEFINE x == [seller[e] EXCEPT !.token = r, !.expires = req[r].from + Ttl]
  <2>3. x \in Row /\ x.code = seller[e].code
    BY <2>2 DEF Row
  <2>4. seller' = [seller EXCEPT ![e] = x]
    BY <1>5 DEF StoreToken
  <2>5. Kept /\ seller' \in [Email -> Row \cup {NoRow}]
    BY <2>1, <2>3, <2>4, Written
  <2> QED
    BY <1>0, <1>a, <1>b, <1>5, <2>1, <2>5 DEF StoreToken, Crossed
<1>6. ASSUME NEW r \in Request, Relay(r) PROVE AType'
  BY <1>0, <1>a, <1>b, <1>6, Ends, Rest DEF Relay, End, Pc
<1>7. ASSUME NEW r \in Request, NEW t \in Request, Reset(r, t) PROVE AType'
  <2>0. UNCHANGED <<now, seller, issued>> /\ Kept
    BY <1>7, Rest DEF Reset
  <2>1. CASE Goes(r, "over") /\ UNCHANGED crossed
    BY <1>0, <1>a, <1>b, <2>0, <2>1
  <2>2. ASSUME NEW e \in Email, Exists(e), crossed' = Crossed(r, e),
               Holds(r, "reset", e, req[r].code, now, t)
        PROVE  AType'
    <3>1. Accounted'
      BY <2>0, <2>2, AccountedKept DEF Kept
    <3> QED
      BY <1>0, <1>a, <2>0, <2>2, <3>1 DEF Crossed, Holds
  <2> QED
    BY <1>7, <2>1, <2>2, Takes
<1>8. ASSUME NEW r \in Request, ResetPassword(r) PROVE AType'
  <2> DEFINE e == req[r].email
  <2>1. e \in Email /\ Exists(e) /\ Goes(r, "changed")
    BY <1>8, Ends DEF ResetPassword, End, Pc, AType, Accounted
  <2>2. seller[e] \in Row
    BY <1>0, <2>1 DEF Exists
  <2> DEFINE y == [seller[e] EXCEPT !.password = r, !.token = NoRequest]
  <2>3. y \in Row /\ y.code = seller[e].code
    BY <2>2 DEF Row
  <2> DEFINE x == [y EXCEPT !.expires = 0]
  <2>4. seller' = [seller EXCEPT ![e] = x]
    BY <1>8 DEF ResetPassword
  <2> HIDE DEF y
  <2>5. x \in Row /\ x.code = seller[e].code
    BY <2>3 DEF Row
  <2>6. Kept /\ seller' \in [Email -> Row \cup {NoRow}]
    BY <2>1, <2>4, <2>5, Written
  <2> QED
    BY <1>0, <1>a, <1>b, <1>8, <2>1, <2>6 DEF ResetPassword
<1>9. ASSUME NEW r \in Request, Fails(r) PROVE AType'
  BY <1>0, <1>a, <1>b, <1>9, Ends, Rest DEF Fails, End, Pc
<1>10. CASE Exit
  <2>1. Accounted'
    BY <1>10, Exits DEF Exit, AType, Accounted, Exists
  <2> QED
    BY <1>0, <1>a, <1>10, <2>1, Exits DEF Exit
<1>11. CASE TimePasses
  BY <1>0, <1>a, <1>11 DEF TimePasses, AType, Accounted, Exists
<1>12. CASE UNCHANGED vars
  BY <1>0, <1>a, <1>12 DEF vars, AType, Accounted, Exists
<1> QED
  BY <1>1, <1>2, <1>3, <1>4, <1>5, <1>6, <1>7, <1>8, <1>9, <1>10, <1>11, <1>12 DEF Next

-----------------------------------------------------------------------------
(* The reset codes *)

\* A code on file is one its request has drawn for this address.
OnFile ==
  \A e \in Email : LET t == seller[e].token IN
    t # NoRequest =>
      /\ req[t].email = e /\ req[t].pc \in {"relay", "relayed", "over"}
      /\ seller[e].expires = req[t].from + Ttl

\* A code that was taken up was relayed to this address and still good; while it
\* is being spent it stays on file, unless another was stored over it meanwhile;
\* once it has been spent it is on file no more.
SpentOf(r) ==
  LET t == req[r].token IN
    /\ req[r].pc \in {"reset", "changed"} => t # NoRequest
    /\ t # NoRequest =>
         /\ req[r].pc \in {"reset", "changed", "over"}
         /\ req[t].pc = "relayed" /\ req[r].email = req[t].email
         /\ req[r].from - req[t].from <= Ttl
    /\ req[r].pc = "reset" => seller[req[r].email].token \in {t, NoRequest} \cup crossed
    /\ req[r].pc = "changed" => \A e \in Email : seller[e].token # t
Spent == \A r \in Request : SpentOf(r)

\* Of two resets that spend the same code one has crossed the other.
Spending(r) == req[r].pc \in {"reset", "changed"}
Alone ==
  \A r, s \in Request :
    r # s /\ req[r].token = req[s].token /\ Spending(r) /\ Spending(s)
      => r \in crossed \/ s \in crossed

Issued == \A e \in Email : issued[e] # NoRequest => Exists(e)

Codes == OnFile /\ Spent /\ Alone /\ Issued /\ LatestCodeStands

\* A request that goes on without a word on the codes.
LEMMA QuietStep ==
  ASSUME AType, Codes, NEW r \in Request, NEW pc \in Pc, NEW email, NEW code, NEW from,
         UNCHANGED <<seller, issued, crossed>>,
         Holds(r, pc, email, code, from, req[r].token),
         req[r].pc \in {"free", "create", "issue", "relay", "reset"},
         pc \notin {"reset", "changed"},
         req[r].pc \in {"relay", "reset"} =>
           pc \in {"relayed", "over"} /\ email = req[r].email /\ from = req[r].from,
         req[r].pc = "reset" => pc = "over"
  PROVE  Codes'
<1>0. /\ \A t \in Request : t # NoRequest
      /\ \A e \in Email : seller[e].token \in Request \cup {NoRequest}
      /\ \A s \in Request : req[s].token \in Request \cup {NoRequest}
      /\ issued \in [Email -> Request \cup {NoRequest}]
  BY ATypes, Rows DEF AType, Held
<1>1. OnFile'
  BY <1>0 DEF Codes, OnFile, Holds
<1>2. Spent'
  <2>1. ASSUME NEW s \in Request PROVE SpentOf(s)'
    <3>1. CASE s = r
      BY <1>0, <3>1 DEF Codes, Spent, SpentOf, Holds
    <3>2. CASE s # r
      BY <1>0, <3>2 DEF Codes, Spent, SpentOf, Holds
    <3> QED
      BY <3>1, <3>2
  <2> QED
    BY <2>1 DEF Spent
<1>3. Alone'
  BY DEF Codes, Alone, Spending, Holds
<1>4. Issued'
  BY DEF Codes, Issued, Exists
<1>5. LatestCodeStands'
  BY DEF Codes, LatestCodeStands, Holds
<1> QED
  BY <1>1, <1>2, <1>3, <1>4, <1>5 DEF Codes

\* The types the steps below all need.
LEMMA CodeTypes ==
  ASSUME AType
  PROVE  /\ \A t \in Request : t # NoRequest
         /\ \A e \in Email : seller[e].token \in Request \cup {NoRequest}
         /\ \A s \in Request : /\ req[s].token \in Request \cup {NoRequest}
                               /\ req[s].from \in Nat
         /\ issued \in [Email -> Request \cup {NoRequest}] /\ crossed \subseteq Request
         /\ now \in Nat /\ Ttl \in Nat
         /\ NoRow.token = NoRequest
BY ATypes, Rows DEF AType, Held

\* An account is made: no code is on file for it, none ever was.
LEMMA CreateStep ==
  ASSUME AType, Codes, NEW r \in Request, NEW c \in Code, Create(r, c)
  PROVE  Codes'
<1> DEFINE e == req[r].email
<1>0. UNCHANGED <<issued, crossed>> /\ req[r].pc = "create" /\ e \in Email
  BY Creates DEF Create
<1>1. CASE UNCHANGED seller /\ (Goes(r, "create") \/ Goes(r, "over"))
  BY <1>0, <1>1, QuietStep DEF Goes, Pc
<1>2. CASE /\ ~Exists(e)
           /\ seller' = [seller EXCEPT ![e] =
                [code |-> c, password |-> r, token |-> NoRequest, expires |-> 0]]
           /\ Holds(r, "created", e, c, req[r].from, req[r].token)
  <2>1. /\ seller[e].token = NoRequest /\ seller'[e].token = NoRequest
        /\ \A f \in Email \ {e} : seller'[f] = seller[f]
        /\ \A f \in Email : seller'[f].token = seller[f].token
    BY <1>0, <1>2, ATypes, CodeTypes DEF Exists
  <2>2. req[r].token = NoRequest
    BY <1>0, CodeTypes DEF Codes, Spent, SpentOf
  <2>3. OnFile'
    BY <1>0, <1>2, <2>1, CodeTypes DEF Codes, OnFile, Holds
  <2>4. Spent'
    <3>1. ASSUME NEW s \in Request PROVE SpentOf(s)'
      <4>1. CASE s = r
        BY <1>2, <2>2, <4>1 DEF SpentOf, Holds
      <4>2. CASE s # r
        <5>1. req[s].pc = "reset" => req[s].email \in Email
          BY DEF AType, Accounted
        <5> QED
          BY <1>0, <1>2, <2>1, <4>2, <5>1, CodeTypes DEF Codes, Spent, SpentOf, Holds
      <4> QED
        BY <4>1, <4>2
    <3> QED
      BY <3>1 DEF Spent
  <2>5. Alone'
    BY <1>0, <1>2 DEF Codes, Alone, Spending, Holds
  <2>6. Issued'
    BY <1>0, <1>2, <2>1 DEF Codes, Issued, Exists
  <2>7. LatestCodeStands'
    BY <1>0, <1>2, <2>1 DEF Codes, LatestCodeStands, Holds
  <2> QED
    BY <2>3, <2>4, <2>5, <2>6, <2>7 DEF Codes
<1> QED
  BY <1>0, <1>1, <1>2, Creates

\* A code is stored: a reset that is under way will drop it, and then it has
\* crossed that reset.
LEMMA StoreStep ==
  ASSUME AType, Codes, NEW r \in Request, StoreToken(r)
  PROVE  Codes'
<1> DEFINE e == req[r].email
<1>0. /\ req[r].pc = "issue" /\ e \in Email /\ Exists(e) /\ Goes(r, "relay")
      /\ issued' = [issued EXCEPT ![e] = r] /\ crossed' = Crossed(r, e)
  BY Ends DEF StoreToken, End, Pc, AType, Accounted
<1>1. /\ seller[e] \in Row
      /\ seller' = [seller EXCEPT ![e] = [seller[e] EXCEPT !.token = r,
                                            !.expires = req[r].from + Ttl]]
  BY <1>0, ATypes DEF StoreToken, Exists
<1>2. /\ seller'[e].token = r /\ seller'[e].expires = req[r].from + Ttl
      /\ seller'[e].code = seller[e].code
      /\ \A f \in Email \ {e} : seller'[f] = seller[f]
  BY <1>0, <1>1, ATypes DEF Row
<1>3. req[r].token = NoRequest
  BY <1>0, CodeTypes DEF Codes, Spent, SpentOf
<1>4. crossed \subseteq crossed' /\ (ResetUnderWay(e) => r \in crossed')
  BY <1>0 DEF Crossed
<1>5. OnFile'
  BY <1>0, <1>2, CodeTypes DEF Codes, OnFile, Goes, Holds
<1>6. Spent'
  <2>1. ASSUME NEW s \in Request PROVE SpentOf(s)'
    <3>1. CASE s = r
      BY <1>0, <1>3, <3>1 DEF SpentOf, Goes, Holds
    <3>2. CASE s # r
      <4>0. req'[s] = req[s] /\ SpentOf(s) /\ req[s].token # r
        BY <1>0, <3>2, CodeTypes DEF Goes, Holds, Codes, Spent, SpentOf
      <4>1. req[s].pc = "reset" => req[s].email \in Email /\ (req[s].email = e => ResetUnderWay(e))
        BY DEF AType, Accounted, ResetUnderWay
      <4>2. req[s].token # NoRequest => req'[req[s].token] = req[req[s].token]
        BY <1>0, <4>0, CodeTypes DEF Goes, Holds
      <4>3. req[s].pc = "reset" =>
              seller'[req[s].email].token \in {req[s].token, NoRequest} \cup crossed'
        BY <1>2, <1>4, <4>0, <4>1 DEF SpentOf
      <4>4. req[s].pc = "changed" => \A f \in Email : seller'[f].token # req[s].token
        BY <1>2, <4>0 DEF SpentOf
      <4> QED
        BY <4>0, <4>2, <4>3, <4>4 DEF SpentOf
    <3> QED
      BY <3>1, <3>2
  <2> QED
    BY <2>1 DEF Spent
<1>7. Alone'
  BY <1>0, <1>4 DEF Codes, Alone, Spending, Goes, Holds
<1>8. Issued'
  <2>1. seller'[e] # NoRow
    BY <1>0, <1>2, CodeTypes, ATypes
  <2> QED
    BY <1>0, <1>2, <2>1, CodeTypes DEF Codes, Issued, Exists
<1>9. LatestCodeStands'
  BY <1>0, <1>2, <1>4, CodeTypes DEF Codes, LatestCodeStands, Goes, Holds
<1> QED
  BY <1>5, <1>6, <1>7, <1>8, <1>9 DEF Codes

\* A code is taken up: it is on file, so that no one has spent it; who is
\* spending it now is crossed.
LEMMA TakeStep ==
  ASSUME AType, Codes, NEW r \in Request, NEW t \in Request, Reset(r, t)
  PROVE  Codes'
<1>0. UNCHANGED <<seller, issued>> /\ req[r].pc = "free" /\ req[t].pc = "relayed"
  BY Takes DEF Reset
<1>1. CASE Goes(r, "over") /\ UNCHANGED crossed
  BY <1>0, <1>1, QuietStep DEF Goes, Pc
<1>2. ASSUME NEW e \in Email, Valid(e, t), crossed' = Crossed(r, e),
             Holds(r, "reset", e, req[r].code, now, t)
      PROVE  Codes'
  <2>1. seller[e].token = t /\ req[t].email = e /\ seller[e].expires = req[t].from + Ttl
        /\ seller[e].expires >= now
    BY <1>2, CodeTypes DEF Valid, Codes, OnFile
  <2>2. crossed \subseteq crossed' /\ (ResetUnderWay(e) => r \in crossed')
    BY <1>2 DEF Crossed
  <2>3. OnFile'
    BY <1>0, <1>2, CodeTypes DEF Codes, OnFile, Holds
  <2>4. Spent'
    <3>1. ASSUME NEW s \in Request PROVE SpentOf(s)'
      <4>1. CASE s = r
        BY <1>0, <1>2, <2>1, <4>1, CodeTypes DEF SpentOf, Holds
      <4>2. CASE s # r
        BY <1>0, <1>2, <2>2, <4>2, CodeTypes DEF Codes, Spent, SpentOf, Holds
      <4> QED
        BY <4>1, <4>2
    <3> QED
      BY <3>1 DEF Spent
  <2>5. Alone'
    <3>1. ASSUME NEW s \in Request, s # r, Spending(s), req[s].token = t
          PROVE  r \in crossed'
      <4>1. req[s].pc = "reset" /\ req[s].email = e
        BY <1>2, <2>1, <3>1, CodeTypes DEF Codes, Spent, SpentOf, Spending
      <4> QED
        BY <2>2, <4>1 DEF ResetUnderWay
    <3> QED
      BY <1>2, <2>2, <3>1 DEF Codes, Alone, Spending, Holds
  <2>6. Issued' /\ LatestCodeStands'
    BY <1>0, <1>2, <2>2 DEF Codes, Issued, LatestCodeStands, Exists, Holds
  <2> QED
    BY <2>3, <2>4, <2>5, <2>6 DEF Codes
<1> QED
  BY <1>1, <1>2, Takes

\* The password is changed: the code is dropped, and so is one stored over it,
\* which has crossed this reset.
LEMMA ChangeStep ==
  ASSUME AType, Codes, NEW r \in Request, ResetPassword(r)
  PROVE  Codes'
<1> DEFINE e == req[r].email
           t == req[r].token
<1>0. /\ req[r].pc = "reset" /\ e \in Email /\ Exists(e) /\ Goes(r, "changed")
      /\ UNCHANGED <<issued, crossed>>
  BY Ends DEF ResetPassword, End, Pc, AType, Accounted
<1>1. /\ t \in Request /\ t # NoRequest /\ req[t].pc = "relayed" /\ e = req[t].email
      /\ seller[e].token \in {t, NoRequest} \cup crossed
  BY <1>0, CodeTypes DEF Codes, Spent, SpentOf
<1>2. /\ seller[e] \in Row
      /\ seller' = [seller EXCEPT ![e] = [seller[e] EXCEPT !.password = r,
                                            !.token = NoRequest, !.expires = 0]]
  BY <1>0, ATypes DEF ResetPassword, Exists
<1>3. /\ seller'[e].token = NoRequest /\ seller'[e].code = seller[e].code
      /\ \A f \in Email \ {e} : seller'[f] = seller[f]
  BY <1>0, <1>2, ATypes DEF Row
<1>4. OnFile'
  BY <1>0, <1>1, <1>3, CodeTypes DEF Codes, OnFile, Goes, Holds
<1>5. Spent'
  <2>1. ASSUME NEW s \in Request PROVE SpentOf(s)'
    <3>0. \A f \in Email : seller'[f].token # t
      BY <1>1, <1>3 DEF Codes, OnFile
    <3>1. CASE s = r
      BY <1>0, <1>1, <3>0, <3>1 DEF Codes, Spent, SpentOf, Goes, Holds
    <3>2. CASE s # r
      <4>1. SpentOf(s) /\ req'[s] = req[s] /\ (req[s].pc = "reset" => req[s].email \in Email)
        BY <1>0, <3>2 DEF Codes, Spent, Goes, Holds, AType, Accounted
      <4>2. req[s].token # NoRequest => req'[req[s].token] = req[req[s].token]
        BY <1>0, <4>1, CodeTypes DEF SpentOf, Goes, Holds
      <4> QED
        BY <1>0, <1>3, <4>1, <4>2, CodeTypes DEF SpentOf
    <3> QED
      BY <3>1, <3>2
  <2> QED
    BY <2>1 DEF Spent
<1>6. Alone'
  BY <1>0 DEF Codes, Alone, Spending, Goes, Holds
<1>7. Issued'
  <2>1. seller'[e] # NoRow
    BY <1>2, <1>3, Rows DEF AType, AccountsAssumption
  <2> QED
    BY <1>0, <1>3, <2>1 DEF Codes, Issued, Exists
<1>8. LatestCodeStands'
  <2>1. ASSUME NEW f \in Email, issued[f] # NoRequest, issued[f] \notin crossed,
               ~ \E s \in Request : req'[s].pc = "changed" /\ req'[s].token = issued[f]
        PROVE  seller'[f].token = issued[f]
    <3>1. seller[f].token = issued[f]
      BY <1>0, <2>1 DEF Codes, LatestCodeStands, Goes, Holds
    <3>2. t # issued[f]
      BY <1>0, <2>1 DEF Goes, Holds
    <3> QED
      BY <1>1, <1>3, <2>1, <3>1, <3>2
  <2> QED
    BY <1>0, <2>1 DEF LatestCodeStands
<1> QED
  BY <1>4, <1>5, <1>6, <1>7, <1>8 DEF Codes

LEMMA CodesStep == AType /\ Codes /\ [Next]_vars => Codes'
<1> SUFFICES ASSUME AType, Codes, [Next]_vars PROVE Codes'
  OBVIOUS
<1>1. ASSUME NEW r \in Request, NEW e \in Email, SignUp(r, e) PROVE Codes'
  <2>1. UNCHANGED <<seller, issued, crossed>> /\ req[r].pc = "free"
    BY <1>1 DEF SignUp, Arrives
  <2> QED
    BY <1>1, <2>1, Signs, QuietStep DEF Goes, Pc
<1>2. ASSUME NEW r \in Request, NEW e \in Email, FindCompanyCode(r, e) PROVE Codes'
  BY <1>2, Ends, QuietStep DEF FindCompanyCode, Arrives, End, Goes, Pc
<1>3. ASSUME NEW r \in Request, NEW e \in Email, NEW c \in Code, AskReset(r, e, c) PROVE Codes'
  <2>1. UNCHANGED <<seller, issued, crossed>> /\ req[r].pc = "free"
    BY <1>3 DEF AskReset, Arrives
  <2> QED
    BY <1>3, <2>1, Asks, QuietStep DEF Goes, Pc
<1>4. ASSUME NEW r \in Request, Relay(r) PROVE Codes'
  BY <1>4, Ends, QuietStep DEF Relay, End, Goes, Pc
<1>5. ASSUME NEW r \in Request, Fails(r) PROVE Codes'
  BY <1>5, Ends, QuietStep DEF Fails, End, Goes, Pc
<1>6. CASE Exit
  <2>0. UNCHANGED <<seller, issued, crossed>>
    BY <1>6 DEF Exit
  <2>1. OnFile' /\ Alone' /\ Issued' /\ LatestCodeStands'
    BY <1>6, <2>0, Exits, CodeTypes
       DEF Codes, OnFile, Alone, Spending, Issued, Exists, LatestCodeStands
  <2>2. Spent'
    BY <1>6, <2>0, Exits, CodeTypes DEF Codes, Spent, SpentOf
  <2> QED
    BY <2>1, <2>2 DEF Codes
<1>7. CASE UNCHANGED <<seller, req, issued, crossed>>
  BY <1>7 DEF Codes, OnFile, Alone, Spending, Issued, Exists, LatestCodeStands, Spent, SpentOf
<1> QED
  BY <1>1, <1>2, <1>3, <1>4, <1>5, <1>6, <1>7, CreateStep, StoreStep, TakeStep, ChangeStep
     DEF Next, TimePasses, vars

\* At the start nothing has come in.
LEMMA AccountsInit == AccountsAssumption /\ Init => AType /\ Codes /\ SignupsAreDistinct
<1> SUFFICES ASSUME AccountsAssumption, Init PROVE AType /\ Codes /\ SignupsAreDistinct
  OBVIOUS
<1>1. \A r \in Request : req[r] = Free
  BY DEF Init
<1>2. AType
  BY <1>1 DEF Init, AType, AccountsAssumption, TypeOK, Accounted, Free
<1>3. \A e \in Email : seller[e].token = NoRequest /\ issued[e] = NoRequest
  BY DEF Init, NoRow
<1>4. Codes
  BY <1>1, <1>3 DEF Codes, OnFile, Spent, SpentOf, Alone, Spending, Issued, LatestCodeStands, Free,
     NoRequest
<1>5. SignupsAreDistinct
  BY <1>1 DEF SignupsAreDistinct, Free
<1> QED
  BY <1>2, <1>4, <1>5

\* An account that is made has an address and a code that no other has.
LEMMA SignupStep == AType /\ SignupsAreDistinct /\ [Next]_vars => SignupsAreDistinct'
<1> SUFFICES ASSUME AType, SignupsAreDistinct, [Next]_vars, AType' PROVE SignupsAreDistinct'
  BY ATypeStep
<1>1. CASE \A r \in Request : req'[r].pc = "created" =>
             /\ req[r].pc = "created"
             /\ req'[r].email = req[r].email /\ req'[r].code = req[r].code
  BY <1>1 DEF AType, Accounted, SignupsAreDistinct
<1>2. ASSUME NEW r \in Request, NEW pc, pc # "created",
             NEW email, NEW code, NEW from, NEW token, Holds(r, pc, email, code, from, token)
      PROVE  SignupsAreDistinct'
  BY <1>1, <1>2 DEF Holds
<1>3. ASSUME NEW r \in Request, NEW e \in Email, SignUp(r, e) PROVE SignupsAreDistinct'
  BY <1>2, <1>3, Signs DEF Goes
<1>4. ASSUME NEW r \in Request, NEW e \in Email, FindCompanyCode(r, e) PROVE SignupsAreDistinct'
  BY <1>2, <1>4, Ends DEF FindCompanyCode, End, Goes, Pc
<1>5. ASSUME NEW r \in Request, NEW c \in Code, Create(r, c) PROVE SignupsAreDistinct'
  <2> DEFINE e == req[r].email
  <2>1. CASE Goes(r, "create") \/ Goes(r, "over")
    BY <1>2, <2>1 DEF Goes
  <2>2. CASE /\ Holds(r, "created", e, c, req[r].from, req[r].token)
             /\ e \in Email /\ ~Exists(e) /\ ~CodeTaken(c)
    <3>1. ASSUME NEW s \in Request, s # r, req[s].pc = "created"
          PROVE  req[s].email # e /\ req[s].code # c
      BY <2>2, <3>1, Rows DEF AType, AccountsAssumption, Accounted, Exists, CodeTaken
    <3> QED
      BY <2>2, <3>1 DEF Holds, AType, Accounted, SignupsAreDistinct
  <2> QED
    BY <1>5, <2>1, <2>2, Creates
<1>6. ASSUME NEW r \in Request, NEW e \in Email, NEW c \in Code, AskReset(r, e, c)
      PROVE  SignupsAreDistinct'
  BY <1>2, <1>6, Asks DEF Goes
<1>7. ASSUME NEW r \in Request, StoreToken(r) \/ Relay(r) \/ ResetPassword(r) \/ Fails(r)
      PROVE  SignupsAreDistinct'
  BY <1>2, <1>7, Ends DEF StoreToken, Relay, ResetPassword, Fails, End, Goes, Pc
<1>8. ASSUME NEW r \in Request, NEW t \in Request, Reset(r, t) PROVE SignupsAreDistinct'
  BY <1>2, <1>8, Takes DEF Goes
<1>9. CASE Exit
  BY <1>1, <1>9, Exits
<1>10. CASE UNCHANGED req
  BY <1>1, <1>10
<1> QED
  BY <1>3, <1>4, <1>5, <1>6, <1>7, <1>8, <1>9, <1>10 DEF Next, TimePasses, vars

\* The invariant of the accounts holds throughout.
LEMMA AccountsInv ==
  ASSUME AccountsAssumption PROVE Spec => [](AType /\ Codes /\ SignupsAreDistinct)
<1>1. Init => AType /\ Codes /\ SignupsAreDistinct
  BY AccountsInit
<1>2. AType /\ Codes /\ SignupsAreDistinct /\ [Next]_vars
        => (AType /\ Codes /\ SignupsAreDistinct)'
  BY ATypeStep, CodesStep, SignupStep
<1> QED
  BY <1>1, <1>2, PTL DEF Spec

\* Every row, request and hit of the accounts is one the code can make.
THEOREM AccountsTypeCorrect == ASSUME AccountsAssumption PROVE Spec => []TypeOK
<1>1. AType => TypeOK
  BY DEF AType
<1> QED
  BY <1>1, AccountsInv, PTL

\* However signups interleave and draw, every account they were answered with is
\* on file under its own address and its own company code (createAccount and the
\* unique keys of createSeller).
THEOREM DistinctSignups == ASSUME AccountsAssumption PROVE Spec => []SignupsAreDistinct
BY AccountsInv, PTL

\* The reset code issued last stays on file until it is spent, however requests
\* and resets interleave, unless it was issued while an earlier one was being
\* spent (requestPasswordReset, setResetToken, resetPassword).
THEOREM LatestStands == ASSUME AccountsAssumption PROVE Spec => []LatestCodeStands
<1>1. Codes => LatestCodeStands
  BY DEF Codes
<1> QED
  BY <1>1, AccountsInv, PTL

\* Of the resets with one code, at most one that found no other under way gets
\* through, though the password is hashed between the look-up and the write
\* (resetPassword).
THEOREM OneReset == ASSUME AccountsAssumption PROVE Spec => []OneResetUnlessRaced
<1>1. Codes => OneResetUnlessRaced
  <2> SUFFICES ASSUME Codes, NEW t \in Request
               PROVE  LET S == {r \in Request \ crossed :
                                  req[r].pc = "changed" /\ req[r].token = t}
                      IN  Cardinality(S) <= 1
    BY DEF OneResetUnlessRaced
  <2> DEFINE S == {r \in Request \ crossed : req[r].pc = "changed" /\ req[r].token = t}
  <2>1. \A r, s \in S : r = s
    BY DEF Codes, Alone, Spending
  <2>2. S = {} \/ \E r : S = {r}
    BY <2>1
  <2> HIDE DEF S
  <2>3. CASE S = {}
    <3>1. Cardinality(S) = 0
      BY <2>3, FS_EmptySet
    <3> QED
      BY <3>1 DEF S
  <2>4. CASE \E r : S = {r}
    <3>1. Cardinality(S) = 1
      BY <2>4, FS_Singleton
    <3> QED
      BY <3>1 DEF S
  <2> QED
    BY <2>2, <2>3, <2>4
<1> QED
  BY <1>1, AccountsInv, PTL

\* No reset goes by a code that was asked for longer ago than its lifetime,
\* however long its storing and its mail took (RESET_TTL_MS, resetPassword).
THEOREM OldCodesExpire == ASSUME AccountsAssumption PROVE Spec => []CodeExpires
<1>1. Codes => CodeExpires
  BY DEF Codes, Spent, SpentOf, CodeExpires
<1> QED
  BY <1>1, AccountsInv, PTL

-----------------------------------------------------------------------------
(* The rate limiter and the throttle *)

\* A hit the limiter no longer holds has left the window, and an alert was sent
\* when the throttle's map says so and not since.
GatesInv ==
  /\ Gates!LimitsAssumption /\ Gates!TypeOK
  /\ \A k \in Key :
       /\ stamps[k] \subseteq passed[k] /\ IsFiniteSet(passed[k])
       /\ \A h \in passed[k] : h.at <= tick
       /\ \A h \in passed[k] \ stamps[k] : h.at <= tick - Window
       /\ lastSentAt[k] = Gates!Never => sent[k] = {}
       /\ lastSentAt[k] # Gates!Never =>
            /\ lastSentAt[k] \in sent[k] /\ lastSentAt[k] <= tick
            /\ \A t \in sent[k] : t <= lastSentAt[k]
  /\ WindowBound /\ RefusedOnlyWhenFull /\ OneAlertPerWindow

\* The operators of Limits are those of Accounts: both are SlidingWindow's.
LEMMA SameOperators ==
  /\ \A S : Gates!Cardinality(S) = Cardinality(S)
  /\ \A S, at, max, w : Gates!Full(S, at, max, w) = Full(S, at, max, w)
  /\ \A S, at, h, max, w : Gates!Consumed(S, at, h, max, w) = Consumed(S, at, h, max, w)
<1>1. \A S : Gates!Cardinality(S) = Cardinality(S)
  BY DEF Gates!Cardinality, Cardinality
<1>2. \A S, at, w : Gates!Recent(S, at, w) = Recent(S, at, w)
  BY DEF Gates!Recent, Recent
<1>3. \A S, at, max, w : Gates!Full(S, at, max, w) = Full(S, at, max, w)
  BY <1>1, <1>2 DEF Gates!Full, Full
<1>4. \A S, at, h, max, w : Gates!Consumed(S, at, h, max, w) = Consumed(S, at, h, max, w)
  BY <1>2, <1>3 DEF Gates!Consumed, Consumed
<1> QED
  BY <1>1, <1>3, <1>4

LEMMA GateTypes ==
  ASSUME GatesInv
  PROVE  /\ Hits \in Nat \ {0} /\ Window \in Nat \ {0} /\ AlertWindow \in Nat \ {0}
         /\ MaxTick \in Nat /\ tick \in 0 .. MaxTick
         /\ stamps \in [Key -> SUBSET Gates!Hit] /\ passed \in [Key -> SUBSET Gates!Hit]
         /\ lastSentAt \in [Key -> (0 .. MaxTick) \cup {-1}]
         /\ sent \in [Key -> SUBSET (0 .. MaxTick)]
         /\ answer \in [gate : {"none", "limiter", "throttle"}, key : Key,
                        at : 0 .. MaxTick, yes : BOOLEAN]
         /\ Gates!Hit = [n : Nat \ {0}, at : 0 .. MaxTick]
         /\ \A h \in Gates!Hit : h.at \in Nat
BY DEF GatesInv, Gates!LimitsAssumption, Gates!TypeOK, Gates!Time, Gates!Never, Gates!Hit

\* What consume() looks at is a part of what passed, and so finite.
LEMMA RecentHits ==
  ASSUME GatesInv, NEW k \in Key
  PROVE  LET recent == Recent(stamps[k], tick, Window) IN
         /\ IsFiniteSet(recent) /\ Cardinality(recent) \in Nat
         /\ recent \subseteq Gates!PassedUpTo(k, tick)
         /\ \A u \in Gates!Time : u >= tick => Gates!PassedUpTo(k, u) \subseteq recent
         /\ \A u \in Gates!Time : /\ IsFiniteSet(Gates!PassedUpTo(k, u))
                                  /\ Cardinality(Gates!PassedUpTo(k, u)) \in Nat
<1> DEFINE recent == Recent(stamps[k], tick, Window)
<1>1. recent \subseteq passed[k] /\ IsFiniteSet(passed[k])
  BY DEF GatesInv, Recent
<1>2. IsFiniteSet(recent) /\ Cardinality(recent) \in Nat
  BY <1>1, FS_Subset, FS_CardinalityType
<1>3. recent \subseteq Gates!PassedUpTo(k, tick)
  BY <1>1 DEF GatesInv, Recent, Gates!PassedUpTo
<1>4. ASSUME NEW u \in Gates!Time
      PROVE  IsFiniteSet(Gates!PassedUpTo(k, u)) /\ Cardinality(Gates!PassedUpTo(k, u)) \in Nat
  <2>1. Gates!PassedUpTo(k, u) \subseteq passed[k]
    BY DEF Gates!PassedUpTo
  <2> QED
    BY <2>1, <1>1, FS_Subset, FS_CardinalityType
<1>5. ASSUME NEW u \in Gates!Time, u >= tick
      PROVE  Gates!PassedUpTo(k, u) \subseteq recent
  <2> SUFFICES ASSUME NEW h \in passed[k], u - Window < h.at
               PROVE  h \in recent
    BY DEF Gates!PassedUpTo
  <2>1. h.at \in Nat /\ u \in Nat /\ tick \in Nat /\ Window \in Nat
    <3>1. passed[k] \subseteq [n : Nat \ {0}, at : 0 .. MaxTick] /\ MaxTick \in Nat
      BY GateTypes
    <3> QED
      BY <3>1, <1>5, GateTypes DEF Gates!Time
  <2>2. h.at > tick - Window
    BY <2>1, <1>5
  <2>3. h \in stamps[k]
    BY <2>1, <2>2 DEF GatesInv
  <2> QED
    BY <2>2, <2>3 DEF Recent
<1> QED
  BY <1>2, <1>3, <1>4, <1>5

\* consume() refuses: nothing passes, and what it holds is no less than the window's.
LEMMA RefuseStep ==
  ASSUME GatesInv, NEW k \in Key, Full(stamps[k], tick, Hits, Window), Gates!Consume(k)
  PROVE  GatesInv'
<1> DEFINE recent == Recent(stamps[k], tick, Window)
<1>0. /\ Hits \in Nat /\ Window \in Nat /\ tick \in 0 .. MaxTick /\ MaxTick \in Nat
      /\ stamps \in [Key -> SUBSET Gates!Hit] /\ passed \in [Key -> SUBSET Gates!Hit]
      /\ \A h \in Gates!Hit : h.at \in Nat
  BY GateTypes
<1>1. /\ tick' = tick /\ passed' = passed /\ UNCHANGED <<lastSentAt, sent>>
      /\ stamps' = [stamps EXCEPT ![k] = recent]
      /\ answer' = [gate |-> "limiter", key |-> k, at |-> tick, yes |-> FALSE]
  BY <1>0, SameOperators DEF Gates!Consume, Consumed
<1>2. recent \subseteq stamps[k] /\ Cardinality(recent) >= Hits
  BY DEF Recent, Full
<1>3. Gates!TypeOK'
  <2>1. stamps' \in [Key -> SUBSET Gates!Hit]
    BY <1>0, <1>1, <1>2
  <2>2. answer' \in [gate : {"none", "limiter", "throttle"}, key : Key,
                     at : Gates!Time, yes : BOOLEAN]
    BY <1>0, <1>1 DEF Gates!Time
  <2> QED
    BY <1>1, <2>1, <2>2 DEF Gates!TypeOK, GatesInv
<1>4. WindowBound'
  BY <1>1 DEF GatesInv, WindowBound, Gates!WindowBound, Gates!PassedUpTo
<1>5. RefusedOnlyWhenFull'
  <2>1. Cardinality(Gates!PassedUpTo(k, tick)) = Hits
    <3> DEFINE p == Gates!PassedUpTo(k, tick)
    <3>1. tick \in Gates!Time
      BY <1>0 DEF Gates!Time
    <3>2. Cardinality(p) <= Hits
      BY <3>1, SameOperators DEF GatesInv, WindowBound, Gates!WindowBound
    <3>3. /\ recent \subseteq p /\ IsFiniteSet(p) /\ Cardinality(p) \in Nat
          /\ Cardinality(recent) \in Nat
      BY <3>1, RecentHits
    <3>4. Cardinality(recent) <= Cardinality(p)
      BY <3>3, FS_Subset
    <3> QED
      BY <1>0, <1>2, <3>2, <3>3, <3>4
  <2>2. Gates!PassedUpTo(k, tick)' = Gates!PassedUpTo(k, tick)
    BY <1>1 DEF Gates!PassedUpTo
  <2>3. /\ answer'.key = k /\ answer'.at = tick
        /\ Gates!PassedUpTo(answer.key, answer.at)' = Gates!PassedUpTo(k, tick)'
    BY <1>1
  <2> QED
    BY <2>1, <2>2, <2>3, SameOperators DEF RefusedOnlyWhenFull, Gates!RefusedOnlyWhenFull
<1>6. OneAlertPerWindow'
  BY <1>1 DEF GatesInv, OneAlertPerWindow, Gates!OneAlertPerWindow
<1>7. ASSUME NEW j \in Key
      PROVE  /\ stamps'[j] \subseteq passed[j]
             /\ \A h \in passed[j] \ stamps'[j] : h.at <= tick - Window
  <2>1. CASE j = k
    <3>1. stamps'[j] = recent
      BY <1>0, <1>1, <2>1
    <3>2. ASSUME NEW h \in passed[j], h \notin recent PROVE h.at <= tick - Window
      <4>1. CASE h \in stamps[j]
        <5>1. h.at \in Nat /\ tick - Window \in Int
          BY <1>0, <3>2
        <5> QED
          BY <2>1, <3>2, <4>1, <5>1 DEF Recent
      <4>2. CASE h \notin stamps[j]
        BY <4>2 DEF GatesInv
      <4> QED
        BY <4>1, <4>2
    <3> QED
      BY <1>2, <2>1, <3>1, <3>2 DEF GatesInv
  <2>2. CASE j # k
    BY <1>0, <1>1, <2>2 DEF GatesInv
  <2> QED
    BY <2>1, <2>2
<1> QED
  BY <1>1, <1>3, <1>4, <1>5, <1>6, <1>7 DEF GatesInv, Gates!LimitsAssumption

\* consume() lets a call pass: the hit is new, and the windows it falls in held
\* no more than what consume() looked at.
LEMMA PassStep ==
  ASSUME GatesInv, NEW k \in Key, ~Full(stamps[k], tick, Hits, Window), Gates!Consume(k)
  PROVE  GatesInv'
<1> DEFINE recent == Recent(stamps[k], tick, Window)
           number == Cardinality(passed[k]) + 1
           new == [n |-> number, at |-> tick']
<1>0. /\ Hits \in Nat \ {0} /\ Window \in Nat \ {0} /\ AlertWindow \in Nat \ {0}
      /\ MaxTick \in Nat /\ tick \in 0 .. MaxTick
      /\ stamps \in [Key -> SUBSET Gates!Hit] /\ passed \in [Key -> SUBSET Gates!Hit]
      /\ lastSentAt \in [Key -> (0 .. MaxTick) \cup {-1}]
      /\ sent \in [Key -> SUBSET (0 .. MaxTick)]
      /\ \A h \in Gates!Hit : h.at \in Nat
  BY GateTypes
<1>1. /\ tick' \in 0 .. MaxTick /\ tick' \in {tick, tick + 1}
      /\ UNCHANGED <<lastSentAt, sent>>
      /\ stamps' = [stamps EXCEPT ![k] = recent \cup {new}]
      /\ passed' = [passed EXCEPT ![k] = @ \cup {new}]
      /\ answer' = [gate |-> "limiter", key |-> k, at |-> tick', yes |-> TRUE]
  BY <1>0, SameOperators DEF Gates!Consume, Consumed, Gates!Time
<1>2. /\ IsFiniteSet(recent) /\ Cardinality(recent) \in Nat /\ Cardinality(recent) < Hits
      /\ recent \subseteq stamps[k] /\ stamps[k] \subseteq passed[k]
  <2>1. IsFiniteSet(recent) /\ Cardinality(recent) \in Nat
    BY RecentHits
  <2> QED
    BY <1>0, <2>1 DEF Full, GatesInv, Recent
<1>3. new \in Gates!Hit
  <2>1. number \in Nat \ {0}
    BY FS_CardinalityType DEF GatesInv
  <2> QED
    BY <1>1, <2>1, GateTypes
<1> HIDE DEF recent, number
<1>4. Gates!TypeOK'
  <2>1. stamps' \in [Key -> SUBSET Gates!Hit] /\ passed' \in [Key -> SUBSET Gates!Hit]
    BY <1>1, <1>2, <1>3, GateTypes
  <2>2. answer' \in [gate : {"none", "limiter", "throttle"}, key : Key,
                     at : Gates!Time, yes : BOOLEAN]
    BY <1>1 DEF Gates!Time
  <2> QED
    BY <1>1, <2>1, <2>2 DEF Gates!TypeOK, GatesInv, Gates!Time
<1>5. WindowBound'
  <2> SUFFICES ASSUME NEW j \in Key, NEW u \in Gates!Time
               PROVE  Cardinality(Gates!PassedUpTo(j, u)') <= Hits
    BY SameOperators DEF WindowBound, Gates!WindowBound, Gates!Time
  <2> DEFINE p == Gates!PassedUpTo(j, u)
  <2>0. /\ IsFiniteSet(p) /\ Cardinality(p) \in Nat /\ Cardinality(p) <= Hits
        /\ u \in Nat /\ tick \in Nat /\ Hits \in Nat /\ Window \in Nat
    <3>1. IsFiniteSet(p) /\ Cardinality(p) \in Nat
      BY RecentHits
    <3>2. Cardinality(p) <= Hits
      BY SameOperators DEF GatesInv, WindowBound, Gates!WindowBound
    <3> HIDE DEF p
    <3> QED
      BY <1>0, <3>1, <3>2 DEF Gates!Time
  <2>1. CASE j = k /\ tick' <= u /\ u - Window < tick'
    <3>1. Gates!PassedUpTo(j, u)' = p \cup {new}
      BY <1>1, <2>1, GateTypes DEF Gates!PassedUpTo
    <3>2. p \subseteq recent
      BY <1>1, <2>0, <2>1, RecentHits DEF recent
    <3>3. Cardinality(p) <= Cardinality(recent)
      BY <3>2, <1>2, FS_Subset
    <3> HIDE DEF p, new
    <3>4. /\ IsFiniteSet(p \cup {new})
          /\ Cardinality(p \cup {new}) \in {Cardinality(p), Cardinality(p) + 1}
      BY <2>0, FS_AddElement
    <3>5. Cardinality(p \cup {new}) <= Cardinality(p) + 1
      BY <2>0, <3>4
    <3> QED
      BY <1>2, <2>0, <3>1, <3>3, <3>4, <3>5
  <2>2. CASE ~(j = k /\ tick' <= u /\ u - Window < tick')
    <3>1. Gates!PassedUpTo(j, u)' = p
      BY <1>1, <2>2, GateTypes DEF Gates!PassedUpTo
    <3> QED
      BY <2>0, <3>1
  <2> QED
    BY <2>1, <2>2
<1>6. RefusedOnlyWhenFull'
  BY <1>1 DEF RefusedOnlyWhenFull, Gates!RefusedOnlyWhenFull
<1>7. OneAlertPerWindow'
  BY <1>1 DEF GatesInv, OneAlertPerWindow, Gates!OneAlertPerWindow
<1>8. ASSUME NEW j \in Key
      PROVE  /\ stamps'[j] \subseteq passed'[j] /\ IsFiniteSet(passed'[j])
             /\ \A h \in passed'[j] : h.at <= tick'
             /\ \A h \in passed'[j] \ stamps'[j] : h.at <= tick' - Window
  <2>0. /\ tick \in Nat /\ Window \in Nat /\ tick' >= tick /\ tick' \in Nat
        /\ \A h \in passed[j] : h.at \in Nat
    BY <1>0, <1>1
  <2>1. CASE j = k
    <3>1. stamps'[j] = recent \cup {new} /\ passed'[j] = passed[j] \cup {new}
      BY <1>1, <2>1, GateTypes
    <3>2. IsFiniteSet(passed'[j])
      <4>1. IsFiniteSet(passed[j])
        BY DEF GatesInv
      <4> HIDE DEF new
      <4> QED
        BY <3>1, <4>1, FS_AddElement
    <3>3. ASSUME NEW h \in passed'[j], h \notin stamps'[j] PROVE h.at <= tick' - Window
      <4>1. h \in passed[j] /\ h \notin recent
        BY <3>1, <3>3
      <4>2. h.at <= tick - Window
        <5>1. CASE h \in stamps[j]
          BY <2>0, <2>1, <4>1, <5>1 DEF recent, Recent
        <5>2. CASE h \notin stamps[j]
          BY <4>1, <5>2 DEF GatesInv
        <5> QED
          BY <5>1, <5>2
      <4> QED
        BY <2>0, <4>1, <4>2
    <3>4. \A h \in passed'[j] : h.at <= tick'
      <4>1. \A h \in passed[j] : h.at <= tick
        BY DEF GatesInv
      <4> QED
        BY <2>0, <3>1, <4>1
    <3> QED
      BY <1>2, <2>1, <3>1, <3>2, <3>3, <3>4
  <2>2. CASE j # k
    <3>1. stamps'[j] = stamps[j] /\ passed'[j] = passed[j]
      BY <1>1, <2>2, GateTypes
    <3>2. /\ stamps[j] \subseteq passed[j] /\ IsFiniteSet(passed[j])
          /\ \A h \in passed[j] : h.at <= tick
          /\ \A h \in passed[j] \ stamps[j] : h.at <= tick - Window
      BY DEF GatesInv
    <3> QED
      BY <2>0, <3>1, <3>2
  <2> QED
    BY <2>1, <2>2
<1>9. ASSUME NEW j \in Key
      PROVE  lastSentAt'[j] # Gates!Never => lastSentAt'[j] <= tick'
  <2>1. lastSentAt'[j] = lastSentAt[j] /\ tick' >= tick /\ lastSentAt[j] \in Int
    BY <1>0, <1>1
  <2>2. lastSentAt[j] # Gates!Never => lastSentAt[j] <= tick
    BY DEF GatesInv
  <2> QED
    BY <1>0, <1>1, <2>1, <2>2
<1> QED
  BY <1>1, <1>4, <1>5, <1>6, <1>7, <1>8, <1>9 DEF GatesInv, Gates!LimitsAssumption

LEMMA AlertStep ==
  ASSUME GatesInv, NEW k \in Key, Gates!ShouldSend(k)
  PROVE  GatesInv'
<1> DEFINE quiet == lastSentAt[k] # Gates!Never /\ tick - lastSentAt[k] < AlertWindow
<1>1. /\ UNCHANGED <<tick, stamps, passed>>
      /\ answer' = [gate |-> "throttle", key |-> k, at |-> tick, yes |-> ~quiet]
  BY DEF Gates!ShouldSend
<1>2. Gates!TypeOK'
  <2>1. lastSentAt' \in [Key -> Gates!Time \cup {Gates!Never}] /\ sent' \in [Key -> SUBSET Gates!Time]
    BY GateTypes DEF Gates!ShouldSend, Gates!Time, Gates!Never
  <2>2. answer' \in [gate : {"none", "limiter", "throttle"}, key : Key,
                     at : Gates!Time, yes : BOOLEAN]
    BY <1>1, GateTypes DEF Gates!Time
  <2> QED
    BY <1>1, <2>1, <2>2 DEF Gates!TypeOK, GatesInv
<1>3. WindowBound' /\ RefusedOnlyWhenFull'
  BY <1>1 DEF GatesInv, WindowBound, Gates!WindowBound, Gates!PassedUpTo,
              RefusedOnlyWhenFull, Gates!RefusedOnlyWhenFull
<1>4. CASE quiet
  <2>1. UNCHANGED <<lastSentAt, sent>> /\ answer' = [gate |-> "throttle", key |-> k, at |-> tick, yes |-> FALSE]
    BY <1>1, <1>4 DEF Gates!ShouldSend
  <2>2. lastSentAt[k] \in sent[k]
    BY <1>4 DEF GatesInv
  <2>3. OneAlertPerWindow'
    BY <1>4, <2>1, <2>2 DEF GatesInv, OneAlertPerWindow, Gates!OneAlertPerWindow
  <2> QED
    BY <1>1, <1>2, <1>3, <2>1, <2>3 DEF GatesInv, Gates!LimitsAssumption
<1>5. CASE ~quiet
  <2>1. /\ lastSentAt' = [lastSentAt EXCEPT ![k] = tick]
        /\ sent' = [sent EXCEPT ![k] = @ \cup {tick}]
        /\ answer' = [gate |-> "throttle", key |-> k, at |-> tick, yes |-> TRUE]
    BY <1>1, <1>5 DEF Gates!ShouldSend
  <2>2. \A t \in sent[k] : t \in Nat /\ tick \in Nat /\ tick - t >= AlertWindow
    <3>1. CASE lastSentAt[k] = Gates!Never
      BY <3>1 DEF GatesInv
    <3>2. CASE lastSentAt[k] # Gates!Never
      <4>1. lastSentAt[k] \in Nat /\ tick - lastSentAt[k] >= AlertWindow
        BY <1>5, <3>2, GateTypes DEF Gates!Never
      <4> QED
        <5>1. \A t \in sent[k] : t \in Nat /\ t <= lastSentAt[k]
          <6>1. sent[k] \subseteq 0 .. MaxTick /\ MaxTick \in Nat
            BY GateTypes
          <6> QED
            BY <3>2, <6>1 DEF GatesInv
        <5>2. AlertWindow \in Nat /\ tick \in Nat
          BY GateTypes
        <5> QED
          BY <4>1, <5>1, <5>2
    <3> QED
      BY <3>1, <3>2
  <2>3. ASSUME NEW j \in Key
        PROVE  /\ lastSentAt'[j] = Gates!Never => sent'[j] = {}
               /\ lastSentAt'[j] # Gates!Never =>
                    /\ lastSentAt'[j] \in sent'[j] /\ lastSentAt'[j] <= tick
                    /\ \A t \in sent'[j] : t <= lastSentAt'[j]
               /\ \A t, u \in sent'[j] : t < u => u - t >= AlertWindow
    <3>1. CASE j = k
      <4>1. lastSentAt'[j] = tick /\ sent'[j] = sent[j] \cup {tick} /\ tick # Gates!Never
        BY <2>1, <3>1, GateTypes DEF Gates!Never
      <4>2. \A t, u \in sent[j] : t < u => u - t >= AlertWindow
        BY DEF GatesInv, OneAlertPerWindow, Gates!OneAlertPerWindow
      <4> QED
        BY <2>2, <3>1, <4>1, <4>2, GateTypes
    <3>2. CASE j # k
      <4>1. lastSentAt'[j] = lastSentAt[j] /\ sent'[j] = sent[j]
        BY <2>1, <3>2, GateTypes
      <4> QED
        BY <4>1 DEF GatesInv, OneAlertPerWindow, Gates!OneAlertPerWindow
    <3> QED
      BY <3>1, <3>2
  <2>4. OneAlertPerWindow'
    BY <2>1, <2>3 DEF OneAlertPerWindow, Gates!OneAlertPerWindow
  <2> QED
    BY <1>1, <1>2, <1>3, <2>3, <2>4 DEF GatesInv, Gates!LimitsAssumption
<1> QED
  BY <1>4, <1>5

\* A start of the process forgets the hits, and every window is empty.
LEMMA StartStep ==
  ASSUME Gates!LimitsAssumption, tick \in Gates!Time, Gates!Start
  PROVE  GatesInv
<1>1. Gates!TypeOK
  <2>1. answer \in [gate : {"none", "limiter", "throttle"}, key : Key,
                    at : Gates!Time, yes : BOOLEAN]
    <3>1. 0 \in Gates!Time
      BY DEF Gates!LimitsAssumption, Gates!Time
    <3>2. {"none"} \subseteq {"none", "limiter", "throttle"} /\ {FALSE} \subseteq BOOLEAN
      OBVIOUS
    <3> QED
      BY <3>1, <3>2, Zenon DEF Gates!Start
  <2> QED
    BY <2>1 DEF Gates!Start, Gates!TypeOK, Gates!Never
<1>2. WindowBound
  <2>1. \A k \in Key, u \in Gates!Time : Gates!PassedUpTo(k, u) = {}
    BY DEF Gates!Start, Gates!PassedUpTo
  <2>2. Cardinality({}) = 0
    BY FS_EmptySet
  <2> QED
    BY <2>1, <2>2, SameOperators DEF WindowBound, Gates!WindowBound, Gates!LimitsAssumption
<1>3. RefusedOnlyWhenFull /\ OneAlertPerWindow
  BY DEF Gates!Start, RefusedOnlyWhenFull, Gates!RefusedOnlyWhenFull, OneAlertPerWindow, Gates!OneAlertPerWindow
<1>4. IsFiniteSet({})
  BY FS_EmptySet
<1> QED
  BY <1>1, <1>2, <1>3, <1>4 DEF GatesInv, Gates!Start

LEMMA RestartStep ==
  ASSUME GatesInv, Gates!Restart
  PROVE  GatesInv'
<1>1. /\ tick' = tick /\ \A k \in Key : stamps'[k] = {} /\ passed'[k] = {} /\ sent'[k] = {}
      /\ \A k \in Key : lastSentAt'[k] = Gates!Never
      /\ answer' = [answer EXCEPT !.gate = "none"] /\ answer'.gate = "none"
  BY GateTypes DEF Gates!Restart
<1>2. Gates!TypeOK'
  <2>1. answer' \in [gate : {"none", "limiter", "throttle"}, key : Key,
                     at : Gates!Time, yes : BOOLEAN]
    BY <1>1 DEF GatesInv, Gates!TypeOK
  <2> QED
    BY <2>1 DEF GatesInv, Gates!Restart, Gates!TypeOK
<1>3. WindowBound'
  <2> SUFFICES ASSUME NEW k \in Key, NEW u \in Gates!Time
               PROVE  Cardinality(Gates!PassedUpTo(k, u)') <= Hits
    BY SameOperators DEF WindowBound, Gates!WindowBound, Gates!Time
  <2>1. Gates!PassedUpTo(k, u)' = {}
    BY <1>1 DEF Gates!PassedUpTo
  <2>2. Cardinality({}) = 0
    BY FS_EmptySet
  <2> QED
    BY <2>1, <2>2, GateTypes
<1>4. RefusedOnlyWhenFull' /\ OneAlertPerWindow'
  BY <1>1 DEF RefusedOnlyWhenFull, Gates!RefusedOnlyWhenFull, OneAlertPerWindow,
              Gates!OneAlertPerWindow
<1>5. IsFiniteSet({})
  BY FS_EmptySet
<1> QED
  BY <1>1, <1>2, <1>3, <1>4, <1>5 DEF GatesInv, Gates!LimitsAssumption

LEMMA TickStep ==
  ASSUME GatesInv, Gates!TimePasses
  PROVE  GatesInv'
<1>1. /\ UNCHANGED <<stamps, lastSentAt, passed, sent, answer>>
      /\ tick' = tick + 1 /\ tick' \in Gates!Time /\ tick \in Nat
      /\ Window \in Nat /\ MaxTick \in Nat
  BY GateTypes DEF Gates!TimePasses, Gates!Time
<1>2. Gates!TypeOK'
  BY <1>1 DEF GatesInv, Gates!TypeOK
<1>3. WindowBound' /\ RefusedOnlyWhenFull' /\ OneAlertPerWindow'
  BY <1>1 DEF GatesInv, WindowBound, Gates!WindowBound, Gates!PassedUpTo,
              RefusedOnlyWhenFull, Gates!RefusedOnlyWhenFull, OneAlertPerWindow,
              Gates!OneAlertPerWindow
<1>4. ASSUME NEW k \in Key
      PROVE  /\ \A h \in passed[k] : h.at <= tick'
             /\ \A h \in passed[k] \ stamps[k] : h.at <= tick' - Window
             /\ lastSentAt[k] # Gates!Never => lastSentAt[k] <= tick'
  <2>1. (\A h \in passed[k] : h.at \in Nat) /\ lastSentAt[k] \in Int
    BY GateTypes
  <2>2. /\ \A h \in passed[k] : h.at <= tick
        /\ \A h \in passed[k] \ stamps[k] : h.at <= tick - Window
        /\ lastSentAt[k] # Gates!Never => lastSentAt[k] <= tick
    BY DEF GatesInv
  <2> QED
    BY <1>1, <2>1, <2>2
<1> QED
  BY <1>1, <1>2, <1>3, <1>4 DEF GatesInv, Gates!LimitsAssumption

LEMMA GatesInvariant == ASSUME Gates!LimitsAssumption PROVE Gates!Spec => []GatesInv
<1>1. Gates!Init => GatesInv
  <2>1. Gates!Init => tick \in Gates!Time
    BY DEF Gates!Init, Gates!Time, Gates!LimitsAssumption
  <2> QED
    BY <2>1, StartStep DEF Gates!Init
<1>2. GatesInv /\ [Gates!Next]_<<tick, stamps, lastSentAt, passed, sent, answer>> => GatesInv'
  <2> SUFFICES ASSUME GatesInv, [Gates!Next]_<<tick, stamps, lastSentAt, passed, sent, answer>> PROVE GatesInv'
    OBVIOUS
  <2>1. CASE \E k \in Key : Gates!Consume(k)
    BY <2>1, RefuseStep, PassStep
  <2>2. CASE \E k \in Key : Gates!ShouldSend(k)
    BY <2>2, AlertStep
  <2>3. CASE Gates!Restart
    BY <2>3, RestartStep
  <2>4. CASE Gates!TimePasses
    BY <2>4, TickStep
  <2>5. CASE UNCHANGED <<tick, stamps, lastSentAt, passed, sent, answer>>
    BY <2>5 DEF GatesInv, Gates!LimitsAssumption, Gates!TypeOK, WindowBound,
      Gates!WindowBound, Gates!PassedUpTo, RefusedOnlyWhenFull, Gates!RefusedOnlyWhenFull,
      OneAlertPerWindow, Gates!OneAlertPerWindow
  <2> QED
    BY <2>1, <2>2, <2>3, <2>4, <2>5 DEF Gates!Next
<1> QED
  BY <1>1, <1>2, PTL DEF Gates!Spec, Gates!vars

\* Of the hits that consume() let pass, no more than max lie in any interval as
\* long as the window, whatever the max, the window and the times of the calls.
THEOREM NoMoreThanLimit == ASSUME Gates!LimitsAssumption PROVE Gates!Spec => []WindowBound
<1>1. GatesInv => WindowBound
  BY DEF GatesInv
<1> QED
  BY <1>1, GatesInvariant, PTL

\* consume() refuses only what would be a hit too many in the window that ends
\* with it: a refusal is no hit.
THEOREM RefusalsJustified ==
  ASSUME Gates!LimitsAssumption PROVE Gates!Spec => []RefusedOnlyWhenFull
<1>1. GatesInv => RefusedOnlyWhenFull
  BY DEF GatesInv
<1> QED
  BY <1>1, GatesInvariant, PTL

\* shouldSend() keeps the alerts of a marketplace a window apart, and holds one
\* back only within a window of one that was sent.
THEOREM AlertsApart == ASSUME Gates!LimitsAssumption PROVE Gates!Spec => []OneAlertPerWindow
<1>1. GatesInv => OneAlertPerWindow
  BY DEF GatesInv
<1> QED
  BY <1>1, GatesInvariant, PTL

-----------------------------------------------------------------------------
(* One call to a marketplace *)

\* A call, as the proofs name its type.
CallType == [pc : {"idle", "token", "tokenDelay", "sent", "delay"},
             kind : {"request", "verify"},
             attempt : 0 .. MaxAttempts, tokenAttempt : 0 .. MaxAttempts,
             at : Nat, until : Nat, fetches : Nat, slept : Nat, stale : Nat,
             outcome : {"none", "ok", "refused", "transient", "network"}]

\* The attempts at a token in the attempts of the request before the a-th, and
\* the most that n delays can last.
Past(a) == (a - 1) * MaxAttempts
Slept(n) == n * MaxDelay

\* How far a call c of Naver's can have come where it is, and one of the others'.
NaverBounded(c) ==
  LET a == c.attempt
      b == c.tokenAttempt
  IN /\ c.pc # "idle" => a >= 1
     /\ c.pc = "token" => /\ b >= 1 /\ c.fetches <= Past(a) + (a - 1) + b
                          /\ c.slept <= Slept(Past(a) + b - 1)
     /\ c.pc = "tokenDelay" => /\ b >= 1 /\ b < MaxAttempts
                               /\ c.fetches <= Past(a) + (a - 1) + b
                               /\ c.slept <= Slept(Past(a) + b)
     /\ c.pc = "sent" => /\ c.fetches <= Past(a) + a + b
                         /\ c.slept <= Slept(Past(a) + MaxAttempts - 1)
     /\ c.pc = "delay" => /\ a < MaxAttempts
                          /\ c.fetches <= Past(a) + a + MaxAttempts
                          /\ c.slept <= Slept(Past(a) + MaxAttempts)
     /\ c.pc = "idle" => /\ c.fetches <= Past(MaxAttempts) + 2 * MaxAttempts
                         /\ c.slept <= Slept(Past(MaxAttempts) + MaxAttempts - 1)

OtherBounded(c) ==
  LET a == c.attempt
  IN /\ c.pc \in {"idle", "sent", "delay"}
     /\ c.pc # "idle" => a >= 1
     /\ c.pc = "sent" => c.fetches <= a /\ c.slept <= Slept(a - 1)
     /\ c.pc = "delay" => a < MaxAttempts /\ c.fetches <= a /\ c.slept <= Slept(a)
     /\ c.pc = "idle" => c.fetches <= MaxAttempts /\ c.slept <= Slept(MaxAttempts - 1)

Bounded(c) == IF market = "naver" THEN NaverBounded(c) ELSE OtherBounded(c)

\* A token goes out with a request when it was good for the skew, or was new.
GoodWhenSent ==
  market = "naver" /\ call.pc = "sent" =>
    \/ cache.expires - Skew > call.at
    \/ cache.expires = call.at + cache.life

HttpInv ==
  /\ Http!TransportAssumption /\ Http!TypeOK
  /\ Bounded(call) /\ GoodWhenSent

LEMMA HttpTypes ==
  ASSUME Http!TransportAssumption
  PROVE  /\ MaxAttempts \in Nat \ {0} /\ MaxDelay \in Nat \ {0} /\ Hints \subseteq Nat
         /\ EsmHint \in Nat /\ Skew \in Nat /\ Lifetimes \subseteq Nat \ {0}
         /\ MaxTime \in Nat /\ MaxCalls \in Nat
BY DEF Http!TransportAssumption

LEMMA StateTypes ==
  ASSUME Http!TypeOK
  PROVE  /\ market \in {"naver", "coupang", "esm"} /\ time \in Nat /\ calls \in Nat
         /\ cache \in [expires : Nat, lag : Nat, life : Nat] /\ call \in CallType
BY DEF Http!TypeOK, Http!Token, CallType

\* The arithmetic of the bounds.
LEMMA Pasts ==
  ASSUME Http!TransportAssumption
  PROVE  /\ \A a \in 0 .. MaxAttempts : Past(a) \in Int
         /\ Past(1) = 0
         /\ \A a \in 1 .. MaxAttempts :
              Past(a) \in Nat /\ Past(a) <= Past(MaxAttempts) /\ Past(a + 1) = Past(a) + MaxAttempts
         /\ Past(MaxAttempts) + 2 * MaxAttempts = MaxAttempts * (MaxAttempts + 1)
         /\ Past(MaxAttempts) + MaxAttempts - 1 = MaxAttempts * MaxAttempts - 1
<1>0. MaxAttempts \in Nat \ {0}
  BY HttpTypes
<1>1. \A x, y, m \in Nat : x <= y => x * m <= y * m
  OBVIOUS
<1>2. \A x, m \in Nat : x * m \in Nat
  OBVIOUS
<1>3. \A a \in 1 .. MaxAttempts : Past(a) \in Nat /\ Past(a) <= Past(MaxAttempts)
  <2> SUFFICES ASSUME NEW a \in 1 .. MaxAttempts
               PROVE  Past(a) \in Nat /\ Past(a) <= Past(MaxAttempts)
    OBVIOUS
  <2>1. a - 1 \in Nat /\ MaxAttempts - 1 \in Nat /\ a - 1 <= MaxAttempts - 1
    BY <1>0
  <2> QED
    BY <1>0, <1>1, <1>2, <2>1 DEF Past
<1>4. Past(1) = 0 /\ \A a \in 1 .. MaxAttempts : Past(a + 1) = Past(a) + MaxAttempts
  BY <1>0 DEF Past
<1>5. Past(MaxAttempts) = MaxAttempts * MaxAttempts - MaxAttempts
  BY <1>0 DEF Past
<1>6. MaxAttempts * (MaxAttempts + 1) = MaxAttempts * MaxAttempts + MaxAttempts
  BY <1>0
<1>7. \A a \in 0 .. MaxAttempts : Past(a) \in Int
  BY <1>0 DEF Past
<1>8. MaxAttempts * MaxAttempts \in Nat
  BY <1>0
<1> HIDE DEF Past
<1> QED
  BY <1>0, <1>3, <1>4, <1>5, <1>6, <1>7, <1>8

LEMMA Sleeps ==
  ASSUME Http!TransportAssumption
  PROVE  /\ \A n \in Nat : Slept(n) \in Nat
         /\ \A n \in Nat : Slept(n + 1) = Slept(n) + MaxDelay
         /\ \A m, n \in Nat : m <= n => Slept(m) <= Slept(n)
BY HttpTypes DEF Slept

LEMMA BoundedCall == HttpInv => CallIsBounded
<1> SUFFICES ASSUME HttpInv PROVE CallIsBounded
  OBVIOUS
<1>0. Http!TransportAssumption /\ Http!TypeOK
  BY DEF HttpInv
<1>t. call \in CallType /\ MaxAttempts \in Nat \ {0} /\ MaxDelay \in Nat
  BY <1>0, HttpTypes, StateTypes
<1> DEFINE a == call.attempt
           b == call.tokenAttempt
           pm == Past(MaxAttempts)
<1>1. a \in 0 .. MaxAttempts /\ b \in 0 .. MaxAttempts /\ call.fetches \in Nat /\ call.slept \in Nat
  BY <1>t DEF CallType
<1>2. /\ a >= 1 => Past(a) \in Nat /\ Past(a) <= pm /\ (a < MaxAttempts => Past(a) + MaxAttempts <= pm)
      /\ pm \in Nat
  <2>1. a >= 1 => Past(a) \in Nat /\ Past(a) <= pm /\ Past(a + 1) = Past(a) + MaxAttempts
    BY <1>0, <1>1, Pasts
  <2>2. a < MaxAttempts => Past(a + 1) <= pm
    BY <1>0, <1>1, <1>t, Pasts
  <2>3. pm \in Nat
    BY <1>0, <1>t, Pasts
  <2> QED
    BY <2>1, <2>2, <2>3
<1>3. CASE market = "naver"
  <2>1. NaverBounded(call)
    BY <1>3 DEF HttpInv, Bounded
  <2>2. /\ call.fetches <= pm + 2 * MaxAttempts
        /\ \E n \in Nat : n <= pm + MaxAttempts - 1 /\ call.slept <= Slept(n)
    <3>1. CASE call.pc = "token"
      <4>1. Past(a) + b - 1 \in Nat
        BY <1>1, <1>2, <2>1, <3>1 DEF NaverBounded
      <4> HIDE DEF pm
      <4> QED
        BY <1>t, <1>1, <1>2, <2>1, <3>1, <4>1 DEF NaverBounded
    <3>2. CASE call.pc = "tokenDelay"
      <4>1. Past(a) + b \in Nat
        BY <1>1, <1>2, <2>1, <3>2 DEF NaverBounded
      <4> HIDE DEF pm
      <4> QED
        BY <1>t, <1>1, <1>2, <2>1, <3>2, <4>1 DEF NaverBounded
    <3>3. CASE call.pc = "sent"
      <4>1. Past(a) + MaxAttempts - 1 \in Nat
        BY <1>t, <1>1, <1>2, <2>1, <3>3 DEF NaverBounded
      <4> HIDE DEF pm
      <4> QED
        BY <1>t, <1>1, <1>2, <2>1, <3>3, <4>1 DEF NaverBounded
    <3>4. CASE call.pc = "delay"
      <4>1. Past(a) + MaxAttempts \in Nat
        BY <1>t, <1>1, <1>2, <2>1, <3>4 DEF NaverBounded
      <4> HIDE DEF pm
      <4> QED
        BY <1>t, <1>1, <1>2, <2>1, <3>4, <4>1 DEF NaverBounded
    <3>5. CASE call.pc = "idle"
      <4>1. pm + MaxAttempts - 1 \in Nat
        BY <1>t, <1>2
      <4> HIDE DEF pm
      <4> QED
        BY <1>t, <1>1, <1>2, <2>1, <3>5, <4>1 DEF NaverBounded, pm
    <3> QED
      BY <1>t, <3>1, <3>2, <3>3, <3>4, <3>5 DEF CallType
  <2>3. call.slept <= Slept(pm + MaxAttempts - 1)
    <3>1. PICK n \in Nat : n <= pm + MaxAttempts - 1 /\ call.slept <= Slept(n)
      BY <2>2
    <3>2. pm + MaxAttempts - 1 \in Nat
      BY <1>t, <1>2
    <3>3. /\ Slept(n) <= Slept(pm + MaxAttempts - 1)
          /\ Slept(n) \in Nat /\ Slept(pm + MaxAttempts - 1) \in Nat
      BY <1>0, <3>1, <3>2, Sleeps
    <3> QED
      BY <1>1, <3>1, <3>3
  <2>4. /\ pm + 2 * MaxAttempts = MaxAttempts * (MaxAttempts + 1)
        /\ pm + MaxAttempts - 1 = MaxAttempts * MaxAttempts - 1
    BY <1>0, Pasts
  <2> QED
    BY <1>3, <2>2, <2>3, <2>4 DEF CallIsBounded, Http!CallIsBounded, Slept
<1>4. CASE market # "naver"
  <2>1. OtherBounded(call)
    BY <1>4 DEF HttpInv, Bounded
  <2>2. /\ call.fetches <= MaxAttempts
        /\ \E n \in Nat : n <= MaxAttempts - 1 /\ call.slept <= Slept(n)
    <3>1. CASE call.pc = "sent"
      <4>1. a - 1 \in Nat
        BY <1>1, <2>1, <3>1 DEF OtherBounded
      <4> QED
        BY <1>t, <1>1, <2>1, <3>1, <4>1 DEF OtherBounded
    <3>2. CASE call.pc = "delay"
      BY <1>t, <1>1, <2>1, <3>2 DEF OtherBounded
    <3>3. CASE call.pc = "idle"
      <4>1. MaxAttempts - 1 \in Nat
        BY <1>t
      <4> QED
        BY <1>t, <1>1, <2>1, <3>3, <4>1 DEF OtherBounded
    <3> QED
      BY <2>1, <3>1, <3>2, <3>3 DEF OtherBounded
  <2>3. call.slept <= Slept(MaxAttempts - 1)
    <3>1. PICK n \in Nat : n <= MaxAttempts - 1 /\ call.slept <= Slept(n)
      BY <2>2
    <3>2. MaxAttempts - 1 \in Nat
      BY <1>t
    <3>3. Slept(n) <= Slept(MaxAttempts - 1) /\ Slept(n) \in Nat /\ Slept(MaxAttempts - 1) \in Nat
      BY <1>0, <3>1, <3>2, Sleeps
    <3> QED
      BY <1>1, <3>1, <3>3
  <2> QED
    BY <1>4, <2>2, <2>3 DEF CallIsBounded, Http!CallIsBounded, Slept
<1> QED
  BY <1>3, <1>4

LEMMA GoodEnough == HttpInv => ExpiresOnlyWhenLate
BY StateTypes, HttpTypes DEF HttpInv, GoodWhenSent, ExpiresOnlyWhenLate,
   Http!ExpiresOnlyWhenLate, Http!Expired, CallType

-----------------------------------------------------------------------------
(* What the helpers make of a call *)

\* The call c as it is, or with a 401 more to its count.
Same(c) ==
  /\ c \in CallType
  /\ c.pc = call.pc /\ c.kind = call.kind /\ c.attempt = call.attempt
  /\ c.tokenAttempt = call.tokenAttempt /\ c.at = call.at /\ c.until = call.until
  /\ c.fetches = call.fetches /\ c.slept = call.slept

LEMMA DrawnSame == ASSUME HttpInv, NEW x PROVE Same(Http!Drawn(x))
<1>1. call \in CallType
  BY StateTypes DEF HttpInv
<1>2. [call EXCEPT !.stale = @ + 1] \in CallType
  BY <1>1 DEF CallType
<1> QED
  BY <1>1, <1>2 DEF Same, Http!Drawn, CallType

\* A call in progress may end where it is.
LEMMA EndStep ==
  ASSUME HttpInv, market' = market, NEW c, Same(c), c.pc \in {"token", "sent"},
         NEW o \in {"none", "ok", "refused", "transient", "network"}, Http!End(c, o)
  PROVE  call' \in CallType /\ Bounded(call)' /\ call'.pc = "idle"
<1>1. /\ call' \in CallType /\ call'.pc = "idle"
      /\ call'.fetches = call.fetches /\ call'.slept = call.slept
  <2> DEFINE h == [c EXCEPT !.pc = "idle"]
  <2>1. h \in CallType /\ h.pc = "idle" /\ h.fetches = c.fetches /\ h.slept = c.slept
    BY DEF Same, CallType
  <2>2. call' = [h EXCEPT !.outcome = o]
    BY DEF Http!End
  <2> HIDE DEF h
  <2> QED
    BY <2>1, <2>2 DEF Same, CallType
<1>2. CallIsBounded
  BY BoundedCall
<1>3. CASE market = "naver"
  <2>1. /\ Past(MaxAttempts) + 2 * MaxAttempts = MaxAttempts * (MaxAttempts + 1)
        /\ Past(MaxAttempts) + MaxAttempts - 1 = MaxAttempts * MaxAttempts - 1
    BY Pasts DEF HttpInv
  <2> QED
    BY <1>1, <1>2, <1>3, <2>1 DEF Bounded, NaverBounded, CallIsBounded, Http!CallIsBounded, Slept
<1>4. CASE market # "naver"
  BY <1>1, <1>2, <1>4 DEF Bounded, OtherBounded, CallIsBounded, Http!CallIsBounded, Slept
<1> QED
  BY <1>1, <1>3, <1>4

LEMMA DelaysBounded ==
  ASSUME Http!TransportAssumption, NEW n, NEW h \in Nat \cup {-1}, NEW d \in Http!Delays(n, h)
  PROVE  d \in Nat /\ d <= MaxDelay
BY HttpTypes DEF Http!Delays, Http!NoHint, Http!Min2

LEMMA HintedTypes ==
  ASSUME Http!TransportAssumption, NEW x PROVE Http!Hinted(x) \subseteq Nat \cup {-1}
BY HttpTypes DEF Http!Hinted, Http!NoHint

\* What a delay leaves of the call.
LEMMA DelayFields ==
  ASSUME HttpInv, NEW c, Same(c), NEW pc \in {"delay", "tokenDelay"}, NEW n,
         NEW h \in Nat \cup {-1}, Http!Delay(c, pc, n, h)
  PROVE  /\ call' \in CallType /\ call'.pc = pc /\ call'.attempt = call.attempt
         /\ call'.tokenAttempt = call.tokenAttempt /\ call'.fetches = call.fetches
         /\ call'.slept <= call.slept + MaxDelay
<1>1. PICK d \in Http!Delays(n, h) :
        call' = [c EXCEPT !.pc = pc, !.until = time + d, !.slept = @ + d]
  BY DEF Http!Delay
<1>2. d \in Nat /\ d <= MaxDelay
  BY DelaysBounded DEF HttpInv
<1>3. time \in Nat /\ c \in CallType /\ MaxDelay \in Nat
  BY StateTypes, HttpTypes DEF HttpInv, Same
<1> DEFINE g == [c EXCEPT !.pc = pc, !.until = time + d]
<1>4. /\ g \in CallType /\ g.pc = pc /\ g.attempt = c.attempt
      /\ g.tokenAttempt = c.tokenAttempt /\ g.fetches = c.fetches /\ g.slept = c.slept
  <2> DEFINE f == [c EXCEPT !.pc = pc]
  <2>1. /\ f \in CallType /\ f.pc = pc /\ f.attempt = c.attempt
        /\ f.tokenAttempt = c.tokenAttempt /\ f.fetches = c.fetches /\ f.slept = c.slept
    BY <1>3 DEF CallType
  <2>2. g = [f EXCEPT !.until = time + d] /\ time + d \in Nat
    BY <1>2, <1>3
  <2> HIDE DEF f, g
  <2> QED
    BY <2>1, <2>2 DEF CallType
<1>5. call' = [g EXCEPT !.slept = c.slept + d]
  BY <1>1
<1> HIDE DEF g
<1>6. /\ call' \in CallType /\ call'.pc = g.pc /\ call'.attempt = g.attempt
      /\ call'.tokenAttempt = g.tokenAttempt /\ call'.fetches = g.fetches
      /\ call'.slept = c.slept + d
  BY <1>2, <1>3, <1>4, <1>5 DEF CallType
<1>7. c.slept \in Nat
  BY <1>3 DEF CallType
<1> QED
  BY <1>2, <1>3, <1>4, <1>6, <1>7 DEF Same

\* The request is tried again, from its answer or from its last token's.
LEMMA RetryRequestStep ==
  ASSUME HttpInv, market' = market, NEW c, Same(c), NEW h \in Nat \cup {-1},
         c.pc \in {"token", "sent"}, c.pc = "token" => market = "naver",
         Http!RetryRequest(c, h)
  PROVE  call' \in CallType /\ Bounded(call)' /\ call'.pc # "sent"
<1>1. CASE Http!End(c, "transient")
  BY <1>1, EndStep
<1>2. CASE c.attempt < MaxAttempts /\ Http!Delay(c, "delay", c.attempt, h)
  <2> DEFINE a == call.attempt
             b == call.tokenAttempt
  <2>0. Http!TransportAssumption /\ MaxAttempts \in Nat \ {0} /\ MaxDelay \in Nat /\ call \in CallType
    BY HttpTypes, StateTypes DEF HttpInv
  <2>1. /\ call' \in CallType /\ call'.pc = "delay" /\ call'.attempt = a
        /\ call'.tokenAttempt = b /\ call'.fetches = call.fetches
        /\ call'.slept <= call.slept + MaxDelay
    BY <1>2, DelayFields
  <2>2. /\ a \in 0 .. MaxAttempts /\ b \in 0 .. MaxAttempts /\ call.fetches \in Nat
        /\ call.slept \in Nat /\ call'.slept \in Nat /\ a < MaxAttempts
    BY <1>2, <2>0, <2>1 DEF CallType, Same
  <2>3. CASE market = "naver"
    <3>1. NaverBounded(call) /\ a >= 1
      BY <2>3 DEF HttpInv, Bounded, NaverBounded, Same
    <3>2. Past(a) \in Nat
      BY <2>0, <2>2, <3>1, Pasts
    <3>3. /\ call.fetches <= Past(a) + a + MaxAttempts
          /\ \E n \in Nat : n <= Past(a) + MaxAttempts - 1 /\ call.slept <= Slept(n)
      <4>1. CASE call.pc = "token"
        <5>1. Past(a) + b - 1 \in Nat
          BY <2>2, <3>1, <3>2, <4>1 DEF NaverBounded
        <5> QED
          BY <2>0, <2>2, <3>1, <3>2, <4>1, <5>1 DEF NaverBounded
      <4>2. CASE call.pc = "sent"
        <5>1. Past(a) + MaxAttempts - 1 \in Nat
          BY <2>0, <2>2, <3>1, <3>2, <4>2 DEF NaverBounded
        <5> QED
          BY <2>0, <2>2, <3>1, <3>2, <4>2, <5>1 DEF NaverBounded
      <4> QED
        BY <4>1, <4>2 DEF Same
    <3>4. call'.slept <= Slept(Past(a) + MaxAttempts)
      <4>1. PICK n \in Nat : n <= Past(a) + MaxAttempts - 1 /\ call.slept <= Slept(n)
        BY <3>3
      <4>2. n + 1 \in Nat /\ n + 1 <= Past(a) + MaxAttempts /\ Past(a) + MaxAttempts \in Nat
        BY <2>0, <3>2, <4>1
      <4>3. /\ Slept(n + 1) = Slept(n) + MaxDelay /\ Slept(n) \in Nat
            /\ Slept(n + 1) <= Slept(Past(a) + MaxAttempts)
            /\ Slept(Past(a) + MaxAttempts) \in Nat
        BY <2>0, <4>1, <4>2, Sleeps
      <4> QED
        BY <2>0, <2>1, <2>2, <4>1, <4>3
    <3>5. NaverBounded(call)'
      BY <2>1, <2>2, <3>1, <3>3, <3>4 DEF NaverBounded, Past, Slept
    <3> QED
      BY <2>1, <2>3, <3>5 DEF Bounded
  <2>4. CASE market # "naver"
    <3>1. OtherBounded(call) /\ call.pc = "sent"
      BY <2>4 DEF HttpInv, Bounded, Same
    <3>2. a >= 1 /\ a - 1 \in Nat /\ call.fetches <= a /\ call.slept <= Slept(a - 1)
      BY <2>2, <3>1 DEF OtherBounded
    <3>3. Slept(a) = Slept(a - 1) + MaxDelay /\ Slept(a - 1) \in Nat
      <4>1. Slept((a - 1) + 1) = Slept(a - 1) + MaxDelay /\ Slept(a - 1) \in Nat
        BY <2>0, <3>2, Sleeps
      <4>2. (a - 1) + 1 = a
        BY <2>2
      <4> QED
        BY <4>1, <4>2
    <3>4. call'.slept <= Slept(a)
      BY <2>0, <2>1, <2>2, <3>2, <3>3
    <3>5. OtherBounded(call)'
      BY <2>1, <2>2, <3>2, <3>4 DEF OtherBounded, Slept
    <3> QED
      BY <2>1, <2>4, <3>5 DEF Bounded
  <2> QED
    BY <2>3, <2>4
<1> QED
  BY <1>1, <1>2 DEF Http!RetryRequest

LEMMA RetryTokenStep ==
  ASSUME HttpInv, market' = market, NEW c, Same(c), NEW h \in Nat \cup {-1},
         c.pc = "token", Http!RetryToken(c, h)
  PROVE  call' \in CallType /\ Bounded(call)' /\ call'.pc # "sent"
<1>0. market = "naver" /\ NaverBounded(call)
  BY DEF HttpInv, Bounded, OtherBounded, Same
<1>1. CASE Http!End(c, "transient")
  BY <1>1, EndStep
<1>2. CASE Http!RetryRequest(c, h)
  BY <1>0, <1>2, RetryRequestStep
<1>3. CASE c.tokenAttempt < MaxAttempts /\ Http!Delay(c, "tokenDelay", c.tokenAttempt, h)
  <2> DEFINE a == call.attempt
             b == call.tokenAttempt
  <2>0. Http!TransportAssumption /\ MaxAttempts \in Nat \ {0} /\ MaxDelay \in Nat /\ call \in CallType
    BY HttpTypes, StateTypes DEF HttpInv
  <2>1. /\ call' \in CallType /\ call'.pc = "tokenDelay" /\ call'.attempt = a
        /\ call'.tokenAttempt = b /\ call'.fetches = call.fetches
        /\ call'.slept <= call.slept + MaxDelay
    BY <1>3, DelayFields
  <2>2. /\ a \in 1 .. MaxAttempts /\ b \in 1 .. MaxAttempts /\ call.fetches \in Nat
        /\ call.slept \in Nat /\ call'.slept \in Nat /\ b < MaxAttempts
        /\ call.fetches <= Past(a) + (a - 1) + b /\ call.slept <= Slept(Past(a) + b - 1)
    BY <1>0, <1>3, <2>0, <2>1 DEF CallType, Same, NaverBounded
  <2>3. Past(a) \in Nat
    BY <2>0, <2>2, Pasts
  <2>4. call'.slept <= Slept(Past(a) + b)
    <3> DEFINE n == Past(a) + b - 1
    <3>1. n \in Nat /\ n + 1 = Past(a) + b
      BY <2>2, <2>3
    <3>2. Slept(n + 1) = Slept(n) + MaxDelay /\ Slept(n) \in Nat
      BY <2>0, <3>1, Sleeps
    <3> QED
      BY <2>0, <2>1, <2>2, <3>1, <3>2
  <2>5. NaverBounded(call)'
    BY <2>1, <2>2, <2>4 DEF NaverBounded, Past, Slept
  <2> QED
    BY <1>0, <2>1, <2>5 DEF Bounded
<1> QED
  BY <1>1, <1>2, <1>3 DEF Http!RetryToken

\* An attempt of the request begins, from a call c that came so far.
LEMMA LaunchStep ==
  ASSUME HttpInv, market' = market, cache' = cache, NEW c \in CallType, call' = Http!Launch(c),
         c.attempt >= 1,
         market = "naver" => /\ c.fetches <= Past(c.attempt) + (c.attempt - 1)
                             /\ c.slept <= Slept(Past(c.attempt)),
         market # "naver" => c.fetches <= c.attempt - 1 /\ c.slept <= Slept(c.attempt - 1)
  PROVE  call' \in CallType /\ Bounded(call)' /\ GoodWhenSent'
<1> DEFINE a == c.attempt
<1>0. /\ Http!TransportAssumption /\ MaxAttempts \in Nat \ {0} /\ time \in Nat
      /\ a \in 1 .. MaxAttempts /\ c.fetches \in Nat /\ c.slept \in Nat
  BY HttpTypes, StateTypes DEF HttpInv, CallType
<1>1. CASE market = "naver" /\ ~Http!Fresh
  <2> DEFINE e == [c EXCEPT !.pc = "token"]
             f == [e EXCEPT !.tokenAttempt = 1]
             g == [f EXCEPT !.at = time]
  <2>0. e \in CallType /\ e.pc = "token" /\ e.attempt = a /\ e.fetches = c.fetches /\ e.slept = c.slept
    BY <1>0 DEF CallType
  <2>1. /\ f \in CallType /\ f.pc = "token" /\ f.attempt = a /\ f.tokenAttempt = 1
        /\ f.fetches = c.fetches /\ f.slept = c.slept
    <3> HIDE DEF e
    <3> QED
      BY <1>0, <2>0 DEF CallType
  <2>2. call' = [g EXCEPT !.fetches = c.fetches + 1]
    BY <1>1 DEF Http!Launch
  <2> HIDE DEF f
  <2>3. /\ g \in CallType /\ g.pc = "token" /\ g.attempt = a /\ g.tokenAttempt = 1
        /\ g.fetches = c.fetches /\ g.slept = c.slept
    BY <1>0, <2>1 DEF CallType
  <2> HIDE DEF g
  <2>4. /\ call' \in CallType /\ call'.pc = "token" /\ call'.attempt = a
        /\ call'.tokenAttempt = 1 /\ call'.fetches = c.fetches + 1 /\ call'.slept = c.slept
    BY <1>0, <2>2, <2>3 DEF CallType
  <2>5. Past(a) \in Nat /\ Past(a) + 1 - 1 = Past(a)
    BY <1>0, Pasts
  <2>6. NaverBounded(call)'
    BY <1>0, <1>1, <2>4, <2>5 DEF NaverBounded, Past, Slept
  <2> QED
    BY <1>1, <2>4, <2>6 DEF Bounded, GoodWhenSent
<1>2. CASE ~(market = "naver" /\ ~Http!Fresh)
  <2> DEFINE e == [c EXCEPT !.pc = "sent"]
             f == [e EXCEPT !.tokenAttempt = 0]
             g == [f EXCEPT !.at = time]
  <2>0. e \in CallType /\ e.pc = "sent" /\ e.attempt = a /\ e.fetches = c.fetches /\ e.slept = c.slept
    BY <1>0 DEF CallType
  <2>1. /\ f \in CallType /\ f.pc = "sent" /\ f.attempt = a /\ f.tokenAttempt = 0
        /\ f.fetches = c.fetches /\ f.slept = c.slept
    <3> HIDE DEF e
    <3> QED
      BY <1>0, <2>0 DEF CallType
  <2>2. call' = [g EXCEPT !.fetches = c.fetches + 1]
    BY <1>2 DEF Http!Launch
  <2> HIDE DEF f
  <2>3. /\ g \in CallType /\ g.pc = "sent" /\ g.attempt = a /\ g.tokenAttempt = 0
        /\ g.fetches = c.fetches /\ g.slept = c.slept /\ g.at = time
    BY <1>0, <2>1 DEF CallType
  <2> HIDE DEF g
  <2>4. /\ call' \in CallType /\ call'.pc = "sent" /\ call'.attempt = a /\ call'.at = time
        /\ call'.tokenAttempt = 0 /\ call'.fetches = c.fetches + 1 /\ call'.slept = c.slept
    BY <1>0, <2>2, <2>3 DEF CallType
  <2>5. CASE market = "naver"
    <3>1. Past(a) \in Nat /\ Past(a) + MaxAttempts - 1 \in Nat
      BY <1>0, Pasts
    <3>2. /\ Slept(Past(a)) <= Slept(Past(a) + MaxAttempts - 1) /\ Slept(Past(a)) \in Nat
          /\ Slept(Past(a) + MaxAttempts - 1) \in Nat
      <4>1. Past(a) <= Past(a) + MaxAttempts - 1
        BY <1>0, <3>1
      <4> HIDE DEF a
      <4> QED
        BY <1>0, <3>1, <4>1, Sleeps
    <3>3. c.slept <= Slept(Past(a) + MaxAttempts - 1) /\ c.fetches + 1 <= Past(a) + a + 0
      BY <1>0, <2>5, <3>1, <3>2
    <3>4. NaverBounded(call)'
      BY <1>0, <2>4, <3>3 DEF NaverBounded, Past, Slept
    <3> QED
      BY <1>2, <2>4, <2>5, <3>4 DEF Bounded, GoodWhenSent, Http!Fresh
  <2>6. CASE market # "naver"
    <3>1. OtherBounded(call)'
      BY <1>0, <2>4, <2>6 DEF OtherBounded, Slept
    <3> QED
      BY <2>4, <2>6, <3>1 DEF Bounded, GoodWhenSent
  <2> QED
    BY <2>5, <2>6
<1> QED
  BY <1>1, <1>2

\* What a step of the call must do for the invariant.
LEMMA CallStep ==
  ASSUME HttpInv, market' = market, time' = time, calls' \in Nat,
         cache' \in [expires : Nat, lag : Nat, life : Nat],
         call' \in CallType, Bounded(call)', GoodWhenSent'
  PROVE  HttpInv'
BY DEF HttpInv, Http!TransportAssumption, Http!TypeOK, CallType, Http!Token

LEMMA BeginStep ==
  ASSUME HttpInv, NEW kind \in {"request", "verify"}, Http!Begin(kind)
  PROVE  HttpInv'
<1>0. /\ Http!TransportAssumption /\ MaxAttempts \in Nat \ {0} /\ MaxDelay \in Nat /\ time \in Nat
      /\ calls \in Nat /\ cache \in [expires : Nat, lag : Nat, life : Nat]
      /\ market' = market /\ time' = time /\ calls' = calls + 1
      /\ Past(1) = 0 /\ Slept(0) = 0
  BY HttpTypes, StateTypes, Pasts DEF HttpInv, Http!Begin, Slept
<1>1. CASE call' = Http!Launch([Http!Idle EXCEPT !.attempt = 1]) /\ UNCHANGED cache
  <2> DEFINE c == [Http!Idle EXCEPT !.attempt = 1]
  <2>1. c \in CallType /\ c.attempt = 1 /\ c.fetches = 0 /\ c.slept = 0
    BY <1>0 DEF Http!Idle, CallType
  <2> HIDE DEF c
  <2>2. call' \in CallType /\ Bounded(call)' /\ GoodWhenSent'
    <3>1. call' = Http!Launch(c) /\ cache' = cache
      BY <1>1 DEF c
    <3>2. c.attempt >= 1 /\ c.attempt - 1 = 0 /\ Past(c.attempt) = 0
      BY <1>0, <2>1
    <3> QED
      BY <1>0, <2>1, <3>1, <3>2, LaunchStep
  <2> QED
    BY <1>0, <1>1, <2>2, CallStep
<1>2. CASE /\ call' = [Http!Idle EXCEPT !.pc = IF market = "naver" THEN "token" ELSE "sent",
                             !.kind = kind, !.attempt = 1,
                             !.tokenAttempt = IF market = "naver" THEN 1 ELSE 0,
                             !.at = time, !.fetches = 1]
           /\ cache' = Http!NoToken
  <2>1. call' = [pc |-> IF market = "naver" THEN "token" ELSE "sent", kind |-> kind,
                 attempt |-> 1, tokenAttempt |-> IF market = "naver" THEN 1 ELSE 0,
                 at |-> time, until |-> 0, fetches |-> 1, slept |-> 0, stale |-> 0,
                 outcome |-> "none"]
    BY <1>2 DEF Http!Idle
  <2>2. /\ call' \in CallType /\ call'.attempt = 1 /\ call'.fetches = 1 /\ call'.slept = 0
        /\ market = "naver" => call'.pc = "token" /\ call'.tokenAttempt = 1
        /\ market # "naver" => call'.pc = "sent"
    BY <1>0, <2>1 DEF CallType
  <2>3. Bounded(call)'
    <3>1. 1 - 1 = 0 /\ Past(1) + 1 - 1 = 0
      BY <1>0
    <3>2. CASE market = "naver"
      BY <1>0, <2>2, <3>1, <3>2 DEF Bounded, NaverBounded
    <3>3. CASE market # "naver"
      BY <1>0, <2>2, <3>1, <3>3 DEF Bounded, OtherBounded
    <3> QED
      BY <3>2, <3>3
  <2>4. GoodWhenSent'
    BY <1>0, <2>2 DEF GoodWhenSent
  <2>5. cache' \in [expires : Nat, lag : Nat, life : Nat]
    BY <1>2 DEF Http!NoToken
  <2> QED
    BY <1>0, <2>2, <2>3, <2>4, <2>5, CallStep
<1> QED
  BY <1>1, <1>2 DEF Http!Begin

LEMMA UnusableStep ==
  ASSUME HttpInv, NEW kind \in {"request", "verify"}, Http!Unusable(kind)
  PROVE  HttpInv'
<1>0. /\ Http!TransportAssumption /\ MaxAttempts \in Nat \ {0} /\ calls \in Nat
      /\ market' = market /\ time' = time /\ calls' = calls + 1 /\ cache' = Http!NoToken
  BY HttpTypes, StateTypes DEF HttpInv, Http!Unusable
<1>1. call' \in CallType /\ call'.pc = "idle" /\ call'.fetches = 0 /\ call'.slept = 0
  <2>1. call' = [pc |-> "idle", kind |-> kind, attempt |-> 0, tokenAttempt |-> 0, at |-> 0,
                 until |-> 0, fetches |-> 0, slept |-> 0, stale |-> 0, outcome |-> "refused"]
    BY DEF Http!Unusable, Http!Idle
  <2> QED
    BY <1>0, <2>1 DEF CallType
<1>2. /\ Past(MaxAttempts) \in Nat /\ Slept(Past(MaxAttempts) + MaxAttempts - 1) \in Nat
      /\ Slept(MaxAttempts - 1) \in Nat
  <2>1. Past(MaxAttempts) \in Nat
    BY <1>0, Pasts
  <2>2. Past(MaxAttempts) + MaxAttempts - 1 \in Nat /\ MaxAttempts - 1 \in Nat
    BY <1>0, <2>1
  <2> QED
    BY <1>0, <2>1, <2>2, Sleeps
<1>3. Bounded(call)'
  <2>1. CASE market = "naver"
    BY <1>0, <1>1, <1>2, <2>1 DEF Bounded, NaverBounded, Past, Slept
  <2>2. CASE market # "naver"
    BY <1>0, <1>1, <1>2, <2>2 DEF Bounded, OtherBounded, Slept
  <2> QED
    BY <2>1, <2>2
<1>4. GoodWhenSent'
  BY <1>1 DEF GoodWhenSent
<1>5. cache' \in [expires : Nat, lag : Nat, life : Nat]
  BY <1>0 DEF Http!NoToken
<1> QED
  BY <1>0, <1>1, <1>3, <1>4, <1>5, CallStep

LEMMA TokenIssuedStep ==
  ASSUME HttpInv, NEW life \in Lifetimes, Http!TokenIssued(life)
  PROVE  HttpInv'
<1>0. /\ Http!TransportAssumption /\ MaxAttempts \in Nat \ {0} /\ calls \in Nat /\ time \in Nat
      /\ call \in CallType /\ life \in Nat
      /\ market' = market /\ time' = time /\ calls' = calls /\ call.pc = "token"
  BY HttpTypes, StateTypes DEF HttpInv, Http!TokenIssued
<1>1. market = "naver" /\ NaverBounded(call)
  BY <1>0 DEF HttpInv, Bounded, OtherBounded
<1>2. /\ cache' \in [expires : Nat, lag : Nat, life : Nat]
      /\ cache'.expires = time + cache'.life
  <2>1. PICK from \in call.at .. time :
          cache' = [expires |-> time + life, lag |-> time - from, life |-> life]
    BY DEF Http!TokenIssued
  <2>2. call.at \in Nat
    BY <1>0 DEF CallType
  <2> QED
    BY <1>0, <2>1, <2>2
<1>3. CASE call.kind = "verify"
  <2>1. Same(call) /\ Http!End(call, "ok")
    BY <1>0, <1>3 DEF Same, Http!TokenIssued
  <2>2. call' \in CallType /\ Bounded(call)' /\ call'.pc = "idle"
    BY <1>0, <2>1, EndStep
  <2> QED
    BY <1>0, <1>2, <2>2, CallStep DEF GoodWhenSent
<1>4. CASE call.kind # "verify"
  <2> DEFINE a == call.attempt
             b == call.tokenAttempt
             f == [call EXCEPT !.pc = "sent", !.at = time]
  <2>1. call' = [f EXCEPT !.fetches = call.fetches + 1]
    BY <1>4 DEF Http!TokenIssued
  <2>2. /\ f \in CallType /\ f.pc = "sent" /\ f.at = time /\ f.attempt = a
        /\ f.tokenAttempt = b /\ f.slept = call.slept
    BY <1>0 DEF CallType
  <2>3. call.fetches \in Nat /\ call.slept \in Nat /\ a \in 1 .. MaxAttempts /\ b \in 1 .. MaxAttempts
    BY <1>0, <1>1 DEF CallType, NaverBounded
  <2> HIDE DEF f
  <2>4. /\ call' \in CallType /\ call'.pc = "sent" /\ call'.at = time /\ call'.attempt = a
        /\ call'.tokenAttempt = b /\ call'.slept = call.slept
        /\ call'.fetches = call.fetches + 1
    BY <2>1, <2>2, <2>3 DEF CallType
  <2>5. Past(a) \in Nat
    BY <1>0, <2>3, Pasts
  <2>6. call.slept <= Slept(Past(a) + MaxAttempts - 1)
    <3> DEFINE m == Past(a) + b - 1
               n == Past(a) + MaxAttempts - 1
    <3>1. m \in Nat /\ n \in Nat /\ m <= n
      BY <1>0, <2>3, <2>5
    <3>2. Slept(m) <= Slept(n) /\ Slept(m) \in Nat /\ Slept(n) \in Nat
      BY <1>0, <3>1, Sleeps
    <3>3. call.slept <= Slept(m)
      BY <1>0, <1>1 DEF NaverBounded
    <3> QED
      BY <2>3, <3>2, <3>3
  <2>7. call'.fetches <= Past(a) + a + b
    BY <1>0, <1>1, <2>3, <2>4, <2>5 DEF NaverBounded
  <2>8. NaverBounded(call)'
    BY <2>3, <2>4, <2>6, <2>7 DEF NaverBounded, Past, Slept
  <2> QED
    BY <1>0, <1>1, <1>2, <2>4, <2>8, CallStep DEF Bounded, GoodWhenSent
<1> QED
  BY <1>3, <1>4

\* A step after which nothing is under way, or at least no request's answer.
LEMMA AnswerStep ==
  ASSUME HttpInv,
         \/ Http!Succeed \/ Http!NetworkFails
         \/ \E x \in Http!Answer : Http!AnswerRetryable(x) \/ Http!Refuse(x)
  PROVE  HttpInv'
<1>0. /\ Http!TransportAssumption /\ calls \in Nat /\ call \in CallType
      /\ cache \in [expires : Nat, lag : Nat, life : Nat]
      /\ market' = market /\ time' = time /\ calls' = calls /\ call.pc \in {"token", "sent"}
  BY StateTypes DEF HttpInv, Http!Succeed, Http!NetworkFails, Http!AnswerRetryable, Http!Refuse
<1>1. Same(call) /\ \A x : Same(Http!Drawn(x))
  BY <1>0, DrawnSame DEF Same
<1>2. cache' \in [expires : Nat, lag : Nat, life : Nat]
  BY <1>0 DEF Http!Succeed, Http!NetworkFails, Http!AnswerRetryable, Http!Refuse,
              Http!CacheAfter, Http!NoToken
<1>3. call.pc = "token" => market = "naver"
  BY <1>0 DEF HttpInv, Bounded, OtherBounded
<1>4. call' \in CallType /\ Bounded(call)' /\ call'.pc # "sent"
  <2>1. CASE Http!Succeed \/ Http!NetworkFails
    BY <1>0, <1>1, <2>1, EndStep DEF Http!Succeed, Http!NetworkFails
  <2>2. ASSUME NEW x \in Http!Answer, Http!Refuse(x)
        PROVE  call' \in CallType /\ Bounded(call)' /\ call'.pc # "sent"
    <3>1. Http!End(Http!Drawn(x), "refused") /\ Http!Drawn(x).pc \in {"token", "sent"}
      BY <1>0, <1>1, <2>2 DEF Http!Refuse, Same
    <3> QED
      BY <1>0, <1>1, <3>1, EndStep
  <2>3. ASSUME NEW x \in Http!Answer, Http!AnswerRetryable(x)
        PROVE  call' \in CallType /\ Bounded(call)' /\ call'.pc # "sent"
    <3> DEFINE c == Http!Drawn(x)
    <3>1. Same(c) /\ c.pc = call.pc
      BY <1>1 DEF Same
    <3>2. PICK h \in Http!Hinted(x) :
            \/ call.pc = "token" /\ Http!RetryToken(c, h)
            \/ call.pc = "sent" /\ Http!RetryRequest(c, h)
      BY <2>3 DEF Http!AnswerRetryable
    <3>3. h \in Nat \cup {-1}
      BY <1>0, <3>2, HintedTypes
    <3> HIDE DEF c
    <3>4. CASE call.pc = "token" /\ Http!RetryToken(c, h)
      BY <1>0, <3>1, <3>3, <3>4, RetryTokenStep
    <3>5. CASE call.pc = "sent" /\ Http!RetryRequest(c, h)
      BY <1>0, <3>1, <3>3, <3>5, RetryRequestStep
    <3> QED
      BY <3>2, <3>4, <3>5
  <2> QED
    BY <2>1, <2>2, <2>3
<1>5. GoodWhenSent'
  BY <1>4 DEF GoodWhenSent
<1> QED
  BY <1>0, <1>2, <1>4, <1>5, CallStep

LEMMA WakeStep ==
  ASSUME HttpInv, Http!Wake
  PROVE  HttpInv'
<1> DEFINE a == call.attempt
           b == call.tokenAttempt
<1>0. /\ Http!TransportAssumption /\ MaxAttempts \in Nat \ {0} /\ calls \in Nat /\ time \in Nat
      /\ call \in CallType /\ cache \in [expires : Nat, lag : Nat, life : Nat]
      /\ a \in 0 .. MaxAttempts /\ b \in 0 .. MaxAttempts
      /\ call.fetches \in Nat /\ call.slept \in Nat
      /\ market' = market /\ time' = time /\ calls' = calls /\ cache' = cache
  BY HttpTypes, StateTypes DEF HttpInv, Http!Wake, CallType
<1>1. CASE call.pc = "delay"
  <2> DEFINE c == [call EXCEPT !.attempt = @ + 1]
  <2>1. call' = Http!Launch(c)
    BY <1>1 DEF Http!Wake
  <2>2. a >= 1 /\ a < MaxAttempts
    BY <1>0, <1>1 DEF HttpInv, Bounded, NaverBounded, OtherBounded
  <2>3. /\ c \in CallType /\ c.attempt = a + 1 /\ c.fetches = call.fetches
        /\ c.slept = call.slept
    BY <1>0, <2>2 DEF CallType
  <2>4. Past(a) \in Nat /\ Past(a + 1) = Past(a) + MaxAttempts /\ (a + 1) - 1 = a
    BY <1>0, <2>2, Pasts
  <2> HIDE DEF c
  <2>5. CASE market = "naver"
    <3>1. /\ call.fetches <= Past(a) + a + MaxAttempts
          /\ call.slept <= Slept(Past(a) + MaxAttempts)
      BY <1>1, <2>5 DEF HttpInv, Bounded, NaverBounded
    <3>2. /\ c.fetches <= Past(c.attempt) + (c.attempt - 1) /\ c.slept <= Slept(Past(c.attempt))
          /\ c.attempt >= 1
      BY <1>0, <2>2, <2>3, <2>4, <3>1
    <3> QED
      BY <1>0, <2>1, <2>3, <2>5, <3>2, LaunchStep, CallStep
  <2>6. CASE market # "naver"
    <3>1. call.fetches <= a /\ call.slept <= Slept(a)
      BY <1>1, <2>6 DEF HttpInv, Bounded, OtherBounded
    <3>2. c.fetches <= c.attempt - 1 /\ c.slept <= Slept(c.attempt - 1) /\ c.attempt >= 1
      BY <1>0, <2>2, <2>3, <2>4, <3>1
    <3> QED
      BY <1>0, <2>1, <2>3, <2>6, <3>2, LaunchStep, CallStep
  <2> QED
    BY <2>5, <2>6
<1>2. CASE call.pc = "tokenDelay"
  <2> DEFINE e == [call EXCEPT !.pc = "token"]
             f == [e EXCEPT !.tokenAttempt = b + 1]
             g == [f EXCEPT !.at = time]
  <2>1. market = "naver" /\ NaverBounded(call)
    BY <1>2 DEF HttpInv, Bounded, OtherBounded
  <2>2. /\ a >= 1 /\ b >= 1 /\ b < MaxAttempts /\ call.fetches <= Past(a) + (a - 1) + b
        /\ call.slept <= Slept(Past(a) + b)
    BY <1>2, <2>1 DEF NaverBounded
  <2>3. call' = [g EXCEPT !.fetches = call.fetches + 1]
    BY <1>2 DEF Http!Wake
  <2>4. /\ f \in CallType /\ f.pc = "token" /\ f.tokenAttempt = b + 1 /\ f.attempt = a
        /\ f.slept = call.slept
    <3>1. e \in CallType /\ e.pc = "token" /\ e.attempt = a /\ e.slept = call.slept
      BY <1>0 DEF CallType
    <3> HIDE DEF e
    <3> QED
      BY <1>0, <2>2, <3>1 DEF CallType
  <2> HIDE DEF f
  <2>5. /\ g \in CallType /\ g.pc = "token" /\ g.tokenAttempt = b + 1 /\ g.attempt = a
        /\ g.slept = call.slept
    BY <1>0, <2>4 DEF CallType
  <2> HIDE DEF g
  <2>6. /\ call' \in CallType /\ call'.pc = "token" /\ call'.tokenAttempt = b + 1
        /\ call'.attempt = a /\ call'.slept = call.slept /\ call'.fetches = call.fetches + 1
    BY <1>0, <2>3, <2>5 DEF CallType
  <2>7. Past(a) \in Nat /\ Past(a) + (b + 1) - 1 = Past(a) + b
    BY <1>0, <2>2, Pasts
  <2>8. NaverBounded(call)'
    BY <1>0, <2>2, <2>6, <2>7 DEF NaverBounded, Past, Slept
  <2> QED
    BY <1>0, <2>1, <2>6, <2>8, CallStep DEF Bounded, GoodWhenSent
<1> QED
  BY <1>1, <1>2 DEF Http!Wake

LEMMA HttpInvariant == ASSUME Http!TransportAssumption PROVE Http!Spec => []HttpInv
<1>1. Http!Init => HttpInv
  <2> SUFFICES ASSUME Http!Init PROVE HttpInv
    OBVIOUS
  <2>1. /\ MaxAttempts \in Nat \ {0} /\ Past(MaxAttempts) \in Nat
        /\ Slept(Past(MaxAttempts) + MaxAttempts - 1) \in Nat /\ Slept(MaxAttempts - 1) \in Nat
    <3>1. MaxAttempts \in Nat \ {0} /\ Past(MaxAttempts) \in Nat
      BY HttpTypes, Pasts
    <3>2. Past(MaxAttempts) + MaxAttempts - 1 \in Nat /\ MaxAttempts - 1 \in Nat
      BY <3>1
    <3> QED
      BY <3>1, <3>2, Sleeps
  <2>2. /\ call \in CallType /\ call.pc = "idle" /\ call.fetches = 0 /\ call.slept = 0
        /\ cache \in Http!Token /\ market \in {"naver", "coupang", "esm"}
        /\ time \in Nat /\ calls \in Nat
    BY <2>1 DEF Http!Init, Http!Idle, Http!NoToken, Http!Token, CallType
  <2>3. Bounded(call)
    BY <2>1, <2>2 DEF Bounded, NaverBounded, OtherBounded
  <2> QED
    BY <2>2, <2>3 DEF HttpInv, GoodWhenSent, Http!TypeOK, CallType
<1>2. HttpInv /\ [Http!Next]_<<market, time, cache, call, calls>> => HttpInv'
  <2> SUFFICES ASSUME HttpInv, [Http!Next]_<<market, time, cache, call, calls>>
               PROVE  HttpInv'
    OBVIOUS
  <2>1. CASE \E kind \in {"request", "verify"} : Http!Begin(kind) \/ Http!Unusable(kind)
    BY <2>1, BeginStep, UnusableStep
  <2>2. CASE \E life \in Lifetimes : Http!TokenIssued(life)
    BY <2>2, TokenIssuedStep
  <2>3. CASE \/ Http!Succeed \/ Http!NetworkFails
             \/ \E x \in Http!Answer : Http!AnswerRetryable(x) \/ Http!Refuse(x)
    BY <2>3, AnswerStep
  <2>4. CASE Http!Wake
    BY <2>4, WakeStep
  <2>5. CASE Http!TimePasses \/ UNCHANGED <<market, time, cache, call, calls>>
    <3>1. UNCHANGED <<market, cache, call, calls>> /\ time' \in Nat
      BY <2>5, StateTypes DEF HttpInv, Http!TimePasses
    <3> QED
      BY <3>1 DEF HttpInv, Http!TransportAssumption, Http!TypeOK, Bounded, NaverBounded,
                  OtherBounded, Past, Slept, GoodWhenSent
  <2> QED
    BY <2>1, <2>2, <2>3, <2>4, <2>5 DEF Http!Next
<1> QED
  BY <1>1, <1>2, PTL DEF Http!Spec, Http!vars

\* A request of Naver's meets an expired token only if it, and the token's own
\* issue, took longer than the skew or the token's life (getToken, issueToken).
THEOREM LateExpiry == ASSUME Http!TransportAssumption PROVE Http!Spec => []ExpiresOnlyWhenLate
BY HttpInvariant, GoodEnough, PTL

\* A call ends within so many fetches and so much delay, for every maxAttempts
\* and maxDelayMs, though the attempts at a token nest in those of a request
\* (withRetry around request() around getToken()).
THEOREM BoundedCalls == ASSUME Http!TransportAssumption PROVE Http!Spec => []CallIsBounded
BY HttpInvariant, BoundedCall, PTL

-----------------------------------------------------------------------------
(* The three together *)

LEMMA Each == ServicesSpec => Spec /\ Gates!Spec /\ Http!Spec
<1> DEFINE All == AccountsNext \/ LimitsNext \/ TransportNext
<1>1. [All]_<<vars, limitVars, transportVars>> => [Next]_vars
  BY DEF AccountsNext, LimitsNext, TransportNext
<1>2. [All]_<<vars, limitVars, transportVars>>
        => [Gates!Next]_<<tick, stamps, lastSentAt, passed, sent, answer>>
  BY DEF AccountsNext, LimitsNext, TransportNext, limitVars
<1>3. [All]_<<vars, limitVars, transportVars>>
        => [Http!Next]_<<market, time, cache, call, calls>>
  BY DEF AccountsNext, LimitsNext, TransportNext, transportVars
<1>4. ServicesInit => Init /\ Gates!Init /\ Http!Init
  BY DEF ServicesInit
<1> QED
  BY <1>1, <1>2, <1>3, <1>4, PTL
  DEF ServicesSpec, Spec, Gates!Spec, Gates!vars, Http!Spec, Http!vars

\* The accounts, the gates and the calls of the composed run keep to their types.
THEOREM ServicesTypeCorrect == ServicesSpec => []ServicesTypeOK
<1>1. AccountsAssumption /\ Gates!LimitsAssumption /\ Http!TransportAssumption
  BY ServicesAssumption
<1>2. Spec => []TypeOK
  BY <1>1, AccountsTypeCorrect
<1>3. Gates!Spec => []GatesInv
  BY <1>1, GatesInvariant
<1>4. Http!Spec => []HttpInv
  BY <1>1, HttpInvariant
<1>5. TypeOK /\ GatesInv /\ HttpInv => ServicesTypeOK
  BY DEF GatesInv, HttpInv, ServicesTypeOK
<1> QED
  BY <1>2, <1>3, <1>4, <1>5, Each, PTL

\* The composed run keeps every invariant proved of its parts.
THEOREM ServicesCorrect ==
  ServicesSpec => [](/\ SignupsAreDistinct /\ LatestCodeStands /\ OneResetUnlessRaced
                     /\ CodeExpires /\ WindowBound /\ RefusedOnlyWhenFull
                     /\ OneAlertPerWindow /\ ExpiresOnlyWhenLate /\ CallIsBounded)
<1>1. AccountsAssumption /\ Gates!LimitsAssumption /\ Http!TransportAssumption
  BY ServicesAssumption
<1>2. Spec => [](/\ SignupsAreDistinct /\ LatestCodeStands /\ OneResetUnlessRaced
                 /\ CodeExpires)
  BY <1>1, DistinctSignups, LatestStands, OneReset, OldCodesExpire, PTL
<1>3. Gates!Spec => [](WindowBound /\ RefusedOnlyWhenFull /\ OneAlertPerWindow)
  BY <1>1, NoMoreThanLimit, RefusalsJustified, AlertsApart, PTL
<1>4. Http!Spec => [](ExpiresOnlyWhenLate /\ CallIsBounded)
  BY <1>1, LateExpiry, BoundedCalls, PTL
<1> QED
  BY <1>2, <1>3, <1>4, Each, PTL
=============================================================================
