------------------------------ MODULE Transport ------------------------------
(***************************************************************************)
(* One HTTP call to a marketplace: the request() of the Naver, Coupang and *)
(* ESM 2.0 clients, withRetry around it, and verifyCredential's verdict.   *)
(* Coupang and ESM sign every request.  Naver's client first needs a       *)
(* token, from its cache or issued, and issuing retries by itself inside   *)
(* an attempt of the request.  An adapter builds a client for each page    *)
(* and each verification, and its calls follow one another; an action is   *)
(* the code up to the next answer or timer.                                *)
(*                                                                         *)
(* Times are in units of withRetry's base delay.                           *)
(***************************************************************************)
EXTENDS Integers

CONSTANTS
  MaxAttempts,   \* maxAttempts of withRetry
  MaxDelay,      \* maxDelayMs of withRetry
  Hints,         \* what a marketplace may send as Retry-After
  EsmHint,       \* the delay after an ESM rate limit in a body
  Skew,          \* TOKEN_SKEW_MS
  Lifetimes,     \* expires_in of a token
  MaxNow, MaxCalls   \* bounds of the model

TransportAssumption ==
  /\ MaxAttempts \in Nat \ {0} /\ MaxDelay \in Nat \ {0}
  /\ Hints \subseteq Nat /\ EsmHint \in Nat
  /\ Skew \in Nat /\ Lifetimes \subseteq Nat \ {0}
  /\ MaxNow \in Nat /\ MaxCalls \in Nat

VARIABLES
  market,   \* whose client it is
  now,
  cache,    \* Naver: the token the client holds
  call,     \* the call in progress, or how the last one ended
  calls     \* calls so far (bounded by MaxCalls)

vars == <<market, now, cache, call, calls>>

\* A token: when the client takes it to expire, how long its issue was under
\* way after Naver had begun to count, and its lifetime.
Token == [expires : Nat, lag : Nat, life : Nat]
NoToken == [expires |-> 0, lag |-> 0, life |-> 0]

\* at: when the last fetch was sent; until: the end of a delay.  History:
\* fetches and slept of the call, and how many 401s an expired token drew.
Idle == [pc |-> "idle", kind |-> "request", attempt |-> 0, tokenAttempt |-> 0, at |-> 0,
         until |-> 0, fetches |-> 0, slept |-> 0, stale |-> 0, outcome |-> "none"]

TypeOK ==
  /\ market \in {"naver", "coupang", "esm"} /\ now \in Nat /\ calls \in Nat
  /\ cache \in Token
  /\ call \in [pc : {"idle", "token", "tokenDelay", "sent", "delay"},
               kind : {"request", "verify"},
               attempt : 0 .. MaxAttempts, tokenAttempt : 0 .. MaxAttempts,
               at : Nat, until : Nat, fetches : Nat, slept : Nat, stale : Nat,
               outcome : {"none", "ok", "refused", "transient", "network"}]

Init ==
  /\ market \in {"naver", "coupang", "esm"} /\ now = 0 /\ calls = 0
  /\ cache = NoToken /\ call = Idle

-----------------------------------------------------------------------------
(* Helpers *)

Min2(a, b) == IF a < b THEN a ELSE b

\* What of an answer the clients look at: its status, and whether its body says
\* that it is a rate limit or another error.
Answer == [status : {200, 400, 401, 429, 500}, body : {"plain", "limit", "error"}]
Ok(a) == a.status = 200
Overloaded(a) == a.status = 429 \/ a.status >= 500

\* An answer that is no error.  Naver's token answer must have its fields, and
\* ESM's ResultCode must be zero; a body that is no JSON is as good as any.
IsValue(a) ==
  Ok(a) /\ (market = "esm" \/ call.pc = "token" => a.body = "plain")

\* mapHttpError of the three, and ESM's mapResultError: what may be tried again.
NaverRetryable(a) == ~Ok(a) /\ (Overloaded(a) \/ a.body = "limit")
CoupangRetryable(a) == Overloaded(a)
EsmRetryable(a) == IF Ok(a) THEN a.body = "limit" ELSE Overloaded(a)
Retryable(a) == CASE market = "naver" -> NaverRetryable(a)
                  [] market = "coupang" -> CoupangRetryable(a)
                  [] market = "esm" -> EsmRetryable(a)

\* The delay that comes with it: a Retry-After that is a number, or ESM's own.
NoHint == -1
Hinted(a) == IF market = "esm" /\ Ok(a) THEN {EsmHint} ELSE Hints \cup {NoHint}

\* The delay after the n-th attempt: the server's, else between half and all
\* of the doubling backoff, never above MaxDelay.
Delays(n, hint) ==
  IF hint # NoHint THEN {Min2(MaxDelay, hint)}
  ELSE LET exp == Min2(MaxDelay, 2 ^ (n - 1))
       IN  {d \in 0 .. MaxDelay : exp <= 2 * d /\ d <= exp}

\* Mutant: a token is used until it expires.
FreshUnskewed == cache.expires > now

\* getToken: the cached token is good for another TOKEN_SKEW_MS.
Fresh == cache.expires - Skew > now

\* Naver takes the client's token to have expired.
Expired == cache.expires - cache.lag <= now

\* An attempt of the request c: what it fetches first.
Launch(c) ==
  IF market = "naver" /\ ~Fresh
    THEN [c EXCEPT !.pc = "token", !.tokenAttempt = 1, !.at = now, !.fetches = @ + 1]
    ELSE [c EXCEPT !.pc = "sent", !.tokenAttempt = 0, !.at = now, !.fetches = @ + 1]

\* The call c ends: its value, or the error withRetry throws.
End(c, outcome) == call' = [c EXCEPT !.pc = "idle", !.outcome = outcome]

Delay(c, pc, n, hint) ==
  \E d \in Delays(n, hint) :
    call' = [c EXCEPT !.pc = pc, !.until = now + d, !.slept = @ + d]

\* A retryable error of the request: a delay, unless it was the last attempt.
RetryRequest(c, hint) ==
  \/ c.attempt < MaxAttempts /\ Delay(c, "delay", c.attempt, hint)
  \/ c.attempt = MaxAttempts /\ End(c, "transient")

\* Mutant: an attempt too many at the token.
RetryTokenMore(c, hint) ==
  \/ c.tokenAttempt <= MaxAttempts /\ Delay(c, "tokenDelay", c.tokenAttempt, hint)
  \/ c.tokenAttempt > MaxAttempts /\ RetryRequest(c, hint)

\* A retryable error of the token.  That of the last attempt goes on, still
\* retryable, to the attempt of the request the token was for.
RetryToken(c, hint) ==
  \/ c.tokenAttempt < MaxAttempts /\ Delay(c, "tokenDelay", c.tokenAttempt, hint)
  \/ /\ c.tokenAttempt = MaxAttempts
     /\ IF c.kind = "verify" THEN End(c, "transient") ELSE RetryRequest(c, hint)

\* A request of Naver's is answered 401: the token is dropped.
Unauthorized(a) == market = "naver" /\ call.pc = "sent" /\ a.status = 401
CacheAfter(a) == IF Unauthorized(a) THEN NoToken ELSE cache
Drawn(a) == IF Unauthorized(a) /\ Expired THEN [call EXCEPT !.stale = @ + 1] ELSE call

-----------------------------------------------------------------------------
(* A call *)

\* A request of a page, on the client of the page's last one or on a new
\* client; a verification always builds a client.
Begin(kind) ==
  /\ call.pc = "idle" /\ calls < MaxCalls
  /\ calls' = calls + 1
  /\ \/ kind = "request" /\ call.outcome = "ok" /\ call.kind = "request"
        /\ call' = Launch([Idle EXCEPT !.attempt = 1])
        /\ UNCHANGED cache
     \/ call' = [Idle EXCEPT !.pc = IF market = "naver" THEN "token" ELSE "sent",
                             !.kind = kind, !.attempt = 1,
                             !.tokenAttempt = IF market = "naver" THEN 1 ELSE 0,
                             !.at = now, !.fetches = 1]
        /\ cache' = NoToken
  /\ UNCHANGED <<market, now>>

\* clientFor, or ESM's sign, misses a part of the credential: nothing is sent.
Unusable(kind) ==
  /\ call.pc = "idle" /\ calls < MaxCalls
  /\ calls' = calls + 1
  /\ call' = [Idle EXCEPT !.kind = kind, !.outcome = "refused"]
  /\ cache' = NoToken
  /\ UNCHANGED <<market, now>>

\* The token, counted by Naver from some time since it was asked for, and by
\* the client from now.  It is all a verification wants; a request goes out.
TokenIssued(life) ==
  /\ call.pc = "token"
  /\ \E from \in call.at .. now :
       cache' = [expires |-> now + life, lag |-> now - from, life |-> life]
  /\ IF call.kind = "verify" THEN End(call, "ok")
     ELSE call' = [call EXCEPT !.pc = "sent", !.at = now, !.fetches = @ + 1]
  /\ UNCHANGED <<market, now, calls>>

Succeed ==
  /\ call.pc = "sent"
  /\ End(call, "ok")
  /\ UNCHANGED <<market, now, cache, calls>>

\* An error that may be tried again.
AnswerRetryable(a) ==
  /\ call.pc \in {"token", "sent"} /\ ~IsValue(a) /\ Retryable(a)
  /\ \E hint \in Hinted(a) :
       \/ call.pc = "token" /\ RetryToken(Drawn(a), hint)
       \/ call.pc = "sent" /\ RetryRequest(Drawn(a), hint)
  /\ cache' = CacheAfter(a)
  /\ UNCHANGED <<market, now, calls>>

\* Any other: withRetry throws at once, and a verification says no.
Refuse(a) ==
  /\ call.pc \in {"token", "sent"} /\ ~IsValue(a) /\ ~Retryable(a)
  /\ End(Drawn(a), "refused")
  /\ cache' = CacheAfter(a)
  /\ UNCHANGED <<market, now, calls>>

\* fetch rejects: no MarketplaceError, so that nothing retries it.
NetworkFails ==
  /\ call.pc \in {"token", "sent"}
  /\ End(call, "network")
  /\ UNCHANGED <<market, now, cache, calls>>

\* A delay is over.
Wake ==
  /\ call.pc \in {"delay", "tokenDelay"} /\ call.until <= now
  /\ call' = IF call.pc = "delay"
               THEN Launch([call EXCEPT !.attempt = @ + 1])
               ELSE [call EXCEPT !.pc = "token", !.tokenAttempt = @ + 1, !.at = now,
                                 !.fetches = @ + 1]
  /\ UNCHANGED <<market, now, cache, calls>>

TimePasses ==
  /\ now < MaxNow /\ now' = now + 1
  /\ UNCHANGED <<market, cache, call, calls>>

Next ==
  \/ \E kind \in {"request", "verify"} : Begin(kind) \/ Unusable(kind)
  \/ \E life \in Lifetimes : TokenIssued(life)
  \/ Succeed
  \/ \E a \in Answer : AnswerRetryable(a) \/ Refuse(a)
  \/ NetworkFails \/ Wake \/ TimePasses

Spec == Init /\ [][Next]_vars

-----------------------------------------------------------------------------
(* Properties *)

\* A token expires under way only if the request's answer and the token's
\* issue together took longer than the skew, or than the token's life: the
\* client counts a token's life from its arrival, later than Naver does, and
\* the skew makes up for it (getToken, issueToken).
ExpiresOnlyWhenLate ==
  market = "naver" /\ call.pc = "sent" /\ Expired =>
    \/ (now - call.at) + cache.lag > Skew
    \/ (now - call.at) + cache.lag >= cache.life

\* However the attempts at a token nest in those of a request, and however
\* long the marketplace asks to wait, a call ends after so many fetches and
\* so much delay, the time it may keep the scheduler's flag set.
CallIsBounded ==
  IF market = "naver"
    THEN /\ call.fetches <= MaxAttempts * (MaxAttempts + 1)
         /\ call.slept <= (MaxAttempts * MaxAttempts - 1) * MaxDelay
    ELSE /\ call.fetches <= MaxAttempts
         /\ call.slept <= (MaxAttempts - 1) * MaxDelay

\* docs/naver-commerce-integration.md: on a 401 the cache is emptied and a
\* token is issued once more.
StaleTokenReissued ==
  call.pc = "idle" /\ call.outcome = "refused" => call.stale # 1
=============================================================================
