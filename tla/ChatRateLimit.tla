----------------------------- MODULE ChatRateLimit -----------------------------
(***************************************************************************)
(* ChatService.assertRateLimit: requests per address are counted in        *)
(* windows; a window begins with a request and lasts windowMs.             *)
(***************************************************************************)
EXTENDS Naturals, Sequences, FiniteSets

CONSTANTS windowMs, maxRequests,
          MaxTime,  \* bound of the clock
          MaxCount  \* bound: requests counted in a window

ASSUME RateAssumption == windowMs \in Nat \ {0} /\ maxRequests \in Nat \ {0}

VARIABLES now,
          count, resetAt, \* the bucket of one address, resetAt = 0: none
          passed,         \* the times of the requests let through (observed only)
          turned          \* a request was refused with room in the window before it (observed only)

rateVars == <<now, count, resetAt, passed, turned>>

RateInit == now = 1 /\ count = 0 /\ resetAt = 0 /\ passed = <<>> /\ turned = FALSE

(* How many passed in the time of one window before now.                   *)
PassedLately == Cardinality({i \in DOMAIN passed : passed[i] + windowMs > now})

(* Mutant: the window starts again with every request. *)
RequestSliding ==
  /\ IF resetAt <= now THEN count' = 1 ELSE count' = count + 1
  /\ resetAt' = now + windowMs
  /\ IF count' > maxRequests
     THEN turned' = (turned \/ PassedLately < maxRequests) /\ UNCHANGED passed
     ELSE passed' = Append(passed, now) /\ UNCHANGED turned
  /\ UNCHANGED now

(* A request that is refused is counted too. *)
ChatRequest ==
  /\ IF resetAt <= now THEN count' = 1 /\ resetAt' = now + windowMs
     ELSE count' = count + 1 /\ UNCHANGED resetAt
  /\ IF count' > maxRequests
     THEN turned' = (turned \/ PassedLately < maxRequests) /\ UNCHANGED passed
     ELSE passed' = Append(passed, now) /\ UNCHANGED turned
  /\ UNCHANGED now

Tick == now < MaxTime /\ now' = now + 1 /\ UNCHANGED <<count, resetAt, passed, turned>>

RateNext == (count < MaxCount /\ ChatRequest) \/ Tick

RateSpec == RateInit /\ [][RateNext]_rateVars

(* In any time of the length of a window at most twice the limit passes,   *)
(* though windows begin with requests.                                     *)
AtMostTwice ==
  \A t \in 1 .. now :
    Cardinality({i \in DOMAIN passed : t <= passed[i] /\ passed[i] < t + windowMs})
      < 2 * maxRequests

(* Nobody is refused who sent fewer than the limit in the time of one      *)
(* window before, although refused requests count.                         *)
RefusedForCause == ~turned
(* The limit lets neither too many through nor refuses without cause.      *)
RateInv == AtMostTwice /\ RefusedForCause
=============================================================================
