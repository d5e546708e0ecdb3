------------------------------- MODULE Limits -------------------------------
(***************************************************************************)
(* The two gates the server keeps in memory, each with a clock of its own  *)
(* per key: the rate limiter of the account recovery routes and the        *)
(* throttle of the rate-limit alerts.  A call of either is synchronous;    *)
(* what matters is every pattern of calls in time, restarts included.      *)
(***************************************************************************)
EXTENDS SlidingWindow

CONSTANTS
  Key,           \* ip:..., email:..., pair:...; for the throttle, marketplaces
  Limit, Window, \* max and windowMs of a limiter
  AlertWindow,   \* RATE_LIMIT_ALERT_WINDOW_MS
  MaxNow         \* bound of the model

LimitsAssumption ==
  /\ Limit \in Nat \ {0} /\ Window \in Nat \ {0} /\ AlertWindow \in Nat \ {0}
  /\ MaxNow \in Nat

VARIABLES
  now,
  hits,       \* the limiter's map; a key it does not hold has no hits
  lastSentAt, \* the throttle's map
  passed,     \* history, since the start: when hits of a key passed
  sent,       \*   when alerts of a key were sent
  answer      \*   the last call's key, time and answer

vars == <<now, hits, lastSentAt, passed, sent, answer>>

Time == 0 .. MaxNow
Never == -1
Hit == [n : Nat \ {0}, at : Time]

TypeOK ==
  /\ now \in Time
  /\ hits \in [Key -> SUBSET Hit]
  /\ lastSentAt \in [Key -> Time \cup {Never}]
  /\ passed \in [Key -> SUBSET Hit] /\ sent \in [Key -> SUBSET Time]
  /\ answer \in [gate : {"none", "limiter", "throttle"}, key : Key, at : Time, yes : BOOLEAN]

Start ==
  /\ hits = [k \in Key |-> {}] /\ lastSentAt = [k \in Key |-> Never]
  /\ passed = [k \in Key |-> {}] /\ sent = [k \in Key |-> {}]
  /\ answer \in [gate : {"none"}, key : Key, at : {0}, yes : {FALSE}]

Init == now = 0 /\ Start

-----------------------------------------------------------------------------

\* consume(): the clock is read for the window and again for the hit, and may
\* have moved on in between.
Consume(key) ==
  LET full == Full(hits[key], now, Limit, Window)
      number == Cardinality(passed[key]) + 1
  IN \E stamp \in Time \cap {now, now + 1} :
    /\ full => stamp = now
    /\ now' = stamp
    /\ hits' = [hits EXCEPT ![key] =
                  Consumed(@, now, [n |-> number, at |-> stamp], Limit, Window)]
    /\ passed' = IF full THEN passed
                 ELSE [passed EXCEPT ![key] = @ \cup {[n |-> number, at |-> stamp]}]
    /\ answer' = [gate |-> "limiter", key |-> key, at |-> stamp, yes |-> ~full]
    /\ UNCHANGED <<lastSentAt, sent>>

\* Mutant: every signal, sent or not, starts the quiet time anew.
ShouldSendRenewed(key) ==
  LET quiet == lastSentAt[key] # Never /\ now - lastSentAt[key] < AlertWindow IN
  /\ lastSentAt' = [lastSentAt EXCEPT ![key] = now]
  /\ sent' = IF quiet THEN sent ELSE [sent EXCEPT ![key] = @ \cup {now}]
  /\ answer' = [gate |-> "throttle", key |-> key, at |-> now, yes |-> ~quiet]
  /\ UNCHANGED <<now, hits, passed>>

\* shouldSend(), and the alert that goes with its answer (onRetryAlert).
ShouldSend(key) ==
  LET quiet == lastSentAt[key] # Never /\ now - lastSentAt[key] < AlertWindow IN
  /\ lastSentAt' = IF quiet THEN lastSentAt ELSE [lastSentAt EXCEPT ![key] = now]
  /\ sent' = IF quiet THEN sent ELSE [sent EXCEPT ![key] = @ \cup {now}]
  /\ answer' = [gate |-> "throttle", key |-> key, at |-> now, yes |-> ~quiet]
  /\ UNCHANGED <<now, hits, passed>>

\* The process starts again: both maps are empty.
Restart ==
  /\ hits' = [k \in Key |-> {}] /\ lastSentAt' = [k \in Key |-> Never]
  /\ passed' = [k \in Key |-> {}] /\ sent' = [k \in Key |-> {}]
  /\ answer' = [answer EXCEPT !.gate = "none"]
  /\ UNCHANGED now

TimePasses ==
  /\ now < MaxNow /\ now' = now + 1
  /\ UNCHANGED <<hits, lastSentAt, passed, sent, answer>>

Next ==
  \/ \E key \in Key : Consume(key) \/ ShouldSend(key)
  \/ Restart \/ TimePasses

Spec == Init /\ [][Next]_vars

-----------------------------------------------------------------------------
(* Properties *)

\* The hits of a key that passed in the Window up to u.
PassedUpTo(key, u) == {h \in passed[key] : u - Window < h.at /\ h.at <= u}

\* Wherever an interval of the window's length is laid, no more than max hits
\* of a key passed in it since the process started, although consume() drops
\* and forgets hits as it goes and only ever looks back from the present.
WindowBound ==
  \A k \in Key, u \in Time : Cardinality(PassedUpTo(k, u)) <= Limit

\* A call is refused only if max hits passed in the window that ends with it:
\* a refused call does not count, so that who waits a window always passes.
RefusedOnlyWhenFull ==
  answer.gate = "limiter" /\ ~answer.yes =>
    Cardinality(PassedUpTo(answer.key, answer.at)) = Limit

\* Alerts of a marketplace are a window apart, and one is held back only when
\* another was sent less than a window before: the signals of a marketplace
\* that is limited all the time do not silence it ("one alert per window
\* instead of one per retry attempt", notifier.ts).
OneAlertPerWindow ==
  /\ \A k \in Key : \A t, u \in sent[k] : t < u => u - t >= AlertWindow
  /\ answer.gate = "throttle" /\ ~answer.yes =>
       \E t \in sent[answer.key] : answer.at - t < AlertWindow
=============================================================================
