------------------------------ MODULE Services ------------------------------
(* Accounts, Limits and Transport, side by side.  The three share nothing: a *)
(* behaviour is one of one of them with the others at rest, so that TLC adds *)
(* their state spaces and does not multiply them.                            *)
EXTENDS Accounts

CONSTANTS Key, Hits, AlertWindow, MaxTick,
          MaxAttempts, MaxDelay, Hints, EsmHint, Skew, Lifetimes, MaxTime, MaxCalls

VARIABLES tick, stamps, lastSentAt, passed, sent, answer,
          market, time, cache, call, calls

limitVars == <<tick, stamps, lastSentAt, passed, sent, answer>>
transportVars == <<market, time, cache, call, calls>>

Gates == INSTANCE Limits WITH
  Limit <- Hits, MaxNow <- MaxTick, now <- tick, hits <- stamps
Http == INSTANCE Transport WITH MaxNow <- MaxTime, now <- time

ASSUME ServicesAssumption ==
  AccountsAssumption /\ Gates!LimitsAssumption /\ Http!TransportAssumption

ServicesInit == Init /\ Gates!Init /\ Http!Init

AccountsAtRest == now = 0 /\ hits = [b \in Bucket |-> {}] /\ \A r \in Request : req[r] = Free
LimitsAtRest == /\ tick = 0 /\ answer.gate = "none"
                /\ \A k \in Key : passed[k] = {} /\ sent[k] = {}
TransportAtRest == market = "naver" /\ time = 0 /\ calls = 0

AccountsNext == LimitsAtRest /\ TransportAtRest /\ Next
                /\ UNCHANGED <<limitVars, transportVars>>
LimitsNext == AccountsAtRest /\ TransportAtRest /\ Gates!Next
              /\ UNCHANGED <<vars, transportVars>>
TransportNext == AccountsAtRest /\ LimitsAtRest /\ Http!Next
                 /\ UNCHANGED <<vars, limitVars>>

ServicesSpec ==
  ServicesInit
  /\ [][AccountsNext \/ LimitsNext \/ TransportNext]_<<vars, limitVars, transportVars>>

ServicesTypeOK == TypeOK /\ Gates!TypeOK /\ Http!TypeOK
WindowBound == Gates!WindowBound
RefusedOnlyWhenFull == Gates!RefusedOnlyWhenFull
OneAlertPerWindow == Gates!OneAlertPerWindow
ExpiresOnlyWhenLate == Http!ExpiresOnlyWhenLate
CallIsBounded == Http!CallIsBounded
StaleTokenReissued == Http!StaleTokenReissued
=============================================================================
