------------------------------ MODULE Accounts ------------------------------
(***************************************************************************)
(* The routes that make an account and recover one, over AuthStore and the *)
(* sellers' table: signup, the company code, the request of a reset code   *)
(* and the reset.  Each request is handled by its own chain of awaits, and *)
(* the server may exit between any two of them; an action is the code up   *)
(* to the next answer of the database or of bcrypt, with the limiters'     *)
(* calls made part of the first.  Login and "me" read and change nothing.  *)
(*                                                                         *)
(* Requests are numbered as they arrive.  One carries its own password     *)
(* and, once drawn, its own reset code: both are named by the request, and a    *)
(* hash by what was hashed.                                                *)
(***************************************************************************)
EXTENDS SlidingWindow

CONSTANTS
  Email,
  Code,         \* company codes
  NoEmail, NoCode,
  Draws,        \* attempts at a company code: 5
  Ttl,          \* PASSWORD_RESET_TOKEN_TTL_MS
  Window,       \* RECOVERY_WINDOW_MS
  RequestLimit, \* max of the limiters of company codes and reset codes
  ResetLimit,   \* max of the limiter of resets
  MaxRequests, MaxNow   \* bounds of the model

AccountsAssumption ==
  /\ NoEmail \notin Email /\ NoCode \notin Code
  /\ Draws \in Nat \ {0} /\ Ttl \in Nat /\ Window \in Nat \ {0}
  /\ RequestLimit \in Nat \ {0} /\ ResetLimit \in Nat \ {0}
  /\ MaxRequests \in Nat /\ MaxNow \in Nat

VARIABLES
  now,
  seller,   \* the table, by its unique e-mail
  req,      \* what each request holds between its awaits
  hits,     \* the limiters' maps, by limiter and key
  issued,   \* history: the reset code stored last for an e-mail
  crossed   \*   requests that stored or took up a code during another's reset

vars == <<now, seller, req, hits, issued, crossed>>

-----------------------------------------------------------------------------

Request == 1 .. MaxRequests
NoRequest == 0

Row == [code : Code, password : Request, token : Request \cup {NoRequest}, expires : Nat]
NoRow == [code |-> NoCode, password |-> NoRequest, token |-> NoRequest, expires |-> 0]

\* from: the time the request read the clock; token: the reset code it spends.
Free == [pc |-> "free", email |-> NoEmail, code |-> NoCode, draw |-> 0,
         from |-> 0, token |-> NoRequest]

\* The keys of the three limiters' maps: ip:, of the one caller modelled,
\* email: and pair:.
Ip(limiter) == <<limiter, NoEmail, NoCode>>
Bucket == {Ip(l) : l \in {"find", "request", "reset"}}
          \cup ({"find"} \X Email \X {NoCode}) \cup ({"request"} \X Email \X Code)

TypeOK ==
  /\ now \in 0 .. MaxNow
  /\ seller \in [Email -> Row \cup {NoRow}]
  /\ req \in [Request -> [pc : {"free", "create", "issue", "relay", "reset",
                                "created", "relayed", "changed", "over"},
                          email : Email \cup {NoEmail}, code : Code \cup {NoCode},
                          draw : 0 .. Draws, from : 0 .. MaxNow,
                          token : Request \cup {NoRequest}]]
  /\ hits \in [Bucket -> SUBSET [n : Request, at : 0 .. MaxNow]]
  /\ issued \in [Email -> Request \cup {NoRequest}] /\ crossed \subseteq Request

Init ==
  /\ now = 0 /\ seller = [e \in Email |-> NoRow] /\ req = [r \in Request |-> Free]
  /\ hits = [b \in Bucket |-> {}]
  /\ issued = [e \in Email |-> NoRequest] /\ crossed = {}

-----------------------------------------------------------------------------
(* Helpers *)

Exists(email) == seller[email] # NoRow
MaxOf(bucket) == IF bucket = Ip("reset") THEN ResetLimit ELSE RequestLimit

Refuses(bucket) == Full(hits[bucket], now, MaxOf(bucket), Window)
Counted(r, bucket) ==
  Consumed(hits[bucket], now, [n |-> r, at |-> now], MaxOf(bucket), Window)

\* consume() of the caller's key and, only if it passed, of the second.
Gate(r, first, second) ==
  hits' = [b \in Bucket |->
             IF b = first \/ (b = second /\ ~Refuses(first)) THEN Counted(r, b)
             ELSE hits[b]]
Passes(first, second) == ~Refuses(first) /\ ~Refuses(second)

Arrives(r) == req[r].pc = "free" /\ \A s \in 1 .. r - 1 : req[s].pc # "free"
End(r, outcome) == req' = [req EXCEPT ![r].pc = outcome]

-----------------------------------------------------------------------------
(* Signup *)

\* findSellerByEmail; an address that is taken is refused, else bcrypt hashes.
SignUp(r, email) ==
  /\ Arrives(r)
  /\ req' = IF Exists(email) THEN [req EXCEPT ![r].pc = "over"]
            ELSE [req EXCEPT ![r].pc = "create", ![r].email = email, ![r].draw = 1]
  /\ UNCHANGED <<now, seller, hits, issued, crossed>>

\* Mutant: a check of the address alone, and no unique index on the codes.
CodeTakenNever(code) == FALSE

\* The unique index on companyCode.
CodeTaken(code) == \E e \in Email : seller[e].code = code

\* createSeller: the insert, with a code just drawn.  A code that is taken is
\* drawn again while draws are left; the e-mail's unique index ends it.
Create(r, code) ==
  LET email == req[r].email IN
  /\ req[r].pc = "create"
  /\ \/ /\ ~Exists(email) /\ ~CodeTaken(code)
        /\ seller' = [seller EXCEPT ![email] =
             [code |-> code, password |-> r, token |-> NoRequest, expires |-> 0]]
        /\ req' = [req EXCEPT ![r].pc = "created", ![r].code = code]
     \/ /\ CodeTaken(code) /\ req[r].draw < Draws
        /\ req' = [req EXCEPT ![r].draw = @ + 1]
        /\ UNCHANGED seller
     \/ /\ Exists(email) \/ (CodeTaken(code) /\ req[r].draw = Draws)
        /\ End(r, "over")
        /\ UNCHANGED seller
  /\ UNCHANGED <<now, hits, issued, crossed>>

-----------------------------------------------------------------------------
(* Recovery *)

FindCompanyCode(r, email) ==
  /\ Arrives(r)
  /\ Gate(r, Ip("find"), <<"find", email, NoCode>>)
  /\ End(r, "over")
  /\ UNCHANGED <<now, seller, issued, crossed>>

\* forgot-password/request: if the pair is a seller's, a reset code is drawn
\* and its expiry fixed, before the await that stores them.
AskReset(r, email, code) ==
  LET pair == <<"request", email, code>> IN
  /\ Arrives(r)
  /\ Gate(r, Ip("request"), pair)
  /\ req' = IF Passes(Ip("request"), pair) /\ seller[email].code = code
            THEN [req EXCEPT ![r].pc = "issue", ![r].email = email, ![r].from = now]
            ELSE [req EXCEPT ![r].pc = "over"]
  /\ UNCHANGED <<now, seller, issued, crossed>>

ResetUnderWay(email) == \E r \in Request : req[r].pc = "reset" /\ req[r].email = email
Crossed(r, email) == crossed \cup (IF ResetUnderWay(email) THEN {r} ELSE {})

\* Mutant: a code that is still good is left on file.
StoreTokenOnce(r) ==
  /\ req[r].pc = "issue"
  /\ LET e == req[r].email IN
     /\ seller' = IF seller[e].token # NoRequest /\ seller[e].expires >= now THEN seller
                  ELSE [seller EXCEPT ![e].token = r, ![e].expires = req[r].from + Ttl]
     /\ issued' = [issued EXCEPT ![e] = r]
     /\ crossed' = Crossed(r, e)
  /\ End(r, "relay")
  /\ UNCHANGED <<now, hits>>

\* setPasswordResetToken.
StoreToken(r) ==
  /\ req[r].pc = "issue"
  /\ LET e == req[r].email IN
     /\ seller' = [seller EXCEPT ![e].token = r, ![e].expires = req[r].from + Ttl]
     /\ issued' = [issued EXCEPT ![e] = r]
     /\ crossed' = Crossed(r, e)
  /\ End(r, "relay")
  /\ UNCHANGED <<now, hits>>

\* The alert that hands the code to an operator, and through him to the seller.
Relay(r) ==
  /\ req[r].pc = "relay"
  /\ End(r, "relayed")
  /\ UNCHANGED <<now, seller, hits, issued, crossed>>

\* Mutant: the code is looked for, its expiry is not.
ValidEver(email, token) == seller[email].token = token

\* The code is the one on file and has not expired.
Valid(email, token) == seller[email].token = token /\ seller[email].expires >= now

\* forgot-password/reset, by a seller to whom the code was relayed.
Reset(r, token) ==
  /\ Arrives(r) /\ req[token].pc = "relayed"
  /\ hits' = [hits EXCEPT ![Ip("reset")] = Counted(r, Ip("reset"))]
  /\ \/ \E e \in Email :
          /\ ~Refuses(Ip("reset")) /\ Valid(e, token)
          /\ req' = [req EXCEPT ![r].pc = "reset", ![r].email = e, ![r].from = now,
                                ![r].token = token]
          /\ crossed' = Crossed(r, e)
     \/ /\ Refuses(Ip("reset")) \/ \A e \in Email : ~Valid(e, token)
        /\ End(r, "over")
        /\ UNCHANGED crossed
  /\ UNCHANGED <<now, seller, issued>>

\* Mutant: the code stays on file.
ResetPasswordKeeping(r) ==
  /\ req[r].pc = "reset"
  /\ seller' = [seller EXCEPT ![req[r].email].password = r]
  /\ End(r, "changed")
  /\ UNCHANGED <<now, hits, issued, crossed>>

\* resetPassword, by the seller's id: whatever code is on file is dropped.
ResetPassword(r) ==
  /\ req[r].pc = "reset"
  /\ seller' = [seller EXCEPT ![req[r].email].password = r,
                              ![req[r].email].token = NoRequest,
                              ![req[r].email].expires = 0]
  /\ End(r, "changed")
  /\ UNCHANGED <<now, hits, issued, crossed>>

-----------------------------------------------------------------------------
(* Failures, exits and time *)

Waiting == {r \in Request : req[r].pc \in {"create", "issue", "relay", "reset"}}

\* A query is rejected, or a commit's answer is lost.
Fails(r) ==
  /\ req[r].pc \in {"create", "issue", "relay", "reset"}
  /\ End(r, "over")
  /\ UNCHANGED <<now, seller, hits, issued, crossed>>

\* The server exits: what is under way is lost, and so are the limiters' maps.
Exit ==
  /\ req' = [r \in Request |-> IF r \in Waiting THEN [req[r] EXCEPT !.pc = "over"]
                               ELSE req[r]]
  /\ hits' = [b \in Bucket |-> {}]
  /\ UNCHANGED <<now, seller, issued, crossed>>

TimePasses ==
  /\ now < MaxNow /\ now' = now + 1
  /\ UNCHANGED <<seller, req, hits, issued, crossed>>

Next ==
  \/ \E r \in Request :
       \/ \E e \in Email : SignUp(r, e) \/ FindCompanyCode(r, e)
       \/ \E c \in Code : Create(r, c)
       \/ \E e \in Email, c \in Code : AskReset(r, e, c)
       \/ StoreToken(r) \/ Relay(r)
       \/ \E t \in Request : Reset(r, t)
       \/ ResetPassword(r) \/ Fails(r)
  \/ Exit \/ TimePasses

Spec == Init /\ [][Next]_vars

-----------------------------------------------------------------------------
(* Properties *)

\* Two signups that both found their address free, or drew the same code, do
\* not both succeed: every account that was answered with is on file, under
\* the code its owner was told (the unique indexes behind createSeller).
SignupsAreDistinct ==
  /\ \A r \in Request : req[r].pc = "created" => seller[req[r].email].code = req[r].code
  /\ \A r, s \in Request : req[r].pc = "created" /\ req[s].pc = "created" /\ r # s =>
       req[r].email # req[s].email /\ req[r].code # req[s].code

\* The reset code issued last is the one on file until it is spent, whatever
\* requests and resets were under way, except one that was issued while an
\* earlier code was being spent, which resetPassword drops with it.
LatestCodeStands ==
  \A e \in Email : LET t == issued[e] IN
    t # NoRequest /\ t \notin crossed =>
      \/ seller[e].token = t
      \/ \E r \in Request : req[r].pc = "changed" /\ req[r].token = t

\* A code changes the password once: of the resets that spend it, only those
\* that took it up while another was still hashing get through besides the
\* first (resetPassword "clears the token so it can't be replayed").
OneResetUnlessRaced ==
  \A t \in Request :
    Cardinality({r \in Request \ crossed : req[r].pc = "changed" /\ req[r].token = t}) <= 1

\* No password is changed with a code that was asked for longer ago than its
\* lifetime when the reset came, however late the code was stored or relayed.
CodeExpires ==
  \A r \in Request : req[r].token # NoRequest => req[r].from - req[req[r].token].from <= Ttl
=============================================================================
