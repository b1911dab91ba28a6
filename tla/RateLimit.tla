------------------------------ MODULE RateLimit ------------------------------
(***************************************************************************)
(* The token bucket of a queue, as pull uses it.  Tokens are counted in    *)
(* thousandths, so a millisecond adds `limit` of them.  The wall clock may *)
(* be set back: the bucket then takes the new time as its last update and  *)
(* fills again when the clock runs forward.                                *)
(***************************************************************************)
EXTENDS Integers

CONSTANTS
  RlLimits,     \* the limits set_rate_limit is called with, jobs per second
  RlMaxNow,     \* bound: the clock
  RlMaxForward, \* bound: milliseconds the clock runs forward in all
  RlJumps       \* steps of the clock, forward or (negative) back

ASSUME RateAssumption ==
  /\ RlLimits \subseteq Nat /\ RlMaxNow \in Nat /\ RlMaxForward \in Nat /\ RlJumps \subseteq Int

VARIABLES
  rlLimit, rlTokens, rlLastUpdate, \* the limiter; rlLimit NoRate: none is set
  rlNow,
  rlDelivered,  \* jobs single pulls have delivered in the window watched (history)
  rlForward     \* milliseconds the clock ran forward in that window (history)

rlVars == <<rlLimit, rlTokens, rlLastUpdate, rlNow, rlDelivered, rlForward>>
NoRate == -1
Token == 1000

RlTypeOK ==
  /\ rlLimit \in RlLimits \cup {NoRate}
  /\ rlTokens \in Nat /\ rlLastUpdate \in Nat /\ rlNow \in Nat
  /\ rlDelivered \in Nat /\ rlForward \in Nat

RlInit ==
  /\ rlLimit = NoRate /\ rlTokens = 0 /\ rlLastUpdate = 0 /\ rlNow = 0
  /\ rlDelivered = 0 /\ rlForward = 0

\* RateLimiter::new: a full bucket.
NewLimiter(l) ==
  /\ rlLimit' = l /\ rlTokens' = l * Token /\ rlLastUpdate' = rlNow
  /\ rlDelivered' = 0 /\ rlForward' = 0

\* Also what recovery does with the limit it loads.
SetRateLimit == \E l \in RlLimits : NewLimiter(l) /\ UNCHANGED rlNow

ClearRateLimit ==
  /\ rlLimit' = NoRate
  /\ UNCHANGED <<rlTokens, rlLastUpdate, rlNow, rlDelivered, rlForward>>

\* now.saturating_sub(last_update)
Elapsed == IF rlNow > rlLastUpdate THEN rlNow - rlLastUpdate ELSE 0

\* Mutant: the bucket has no brim.
RefilledUncapped == rlTokens + Elapsed * rlLimit
Refilled ==
  IF rlTokens + Elapsed * rlLimit > rlLimit * Token
    THEN rlLimit * Token ELSE rlTokens + Elapsed * rlLimit

\* One turn of pull's loop takes a token first; the job may turn out to be
\* missing, or the concurrency limit reached, and the token is spent.
PullToken(delivered) ==
  /\ rlLimit # NoRate
  /\ Refilled >= Token
  /\ rlTokens' = Refilled - Token /\ rlLastUpdate' = rlNow
  /\ rlDelivered' = rlDelivered + delivered
  /\ UNCHANGED <<rlLimit, rlNow, rlForward>>

PullJob == PullToken(1)
PullNothing == PullToken(0)

PullRefused ==
  /\ rlLimit # NoRate
  /\ Refilled < Token
  /\ rlTokens' = Refilled /\ rlLastUpdate' = rlNow
  /\ UNCHANGED <<rlLimit, rlNow, rlDelivered, rlForward>>

RlClock ==
  \E d \in RlJumps :
    /\ rlNow + d \in 0..RlMaxNow
    /\ rlForward + d <= RlMaxForward
    /\ rlNow' = rlNow + d
    /\ rlForward' = IF d > 0 THEN rlForward + d ELSE rlForward
    /\ UNCHANGED <<rlLimit, rlTokens, rlLastUpdate, rlDelivered>>

\* The window that is watched starts anywhere.
WatchFromHere ==
  /\ rlDelivered' = 0 /\ rlForward' = 0
  /\ UNCHANGED <<rlLimit, rlTokens, rlLastUpdate, rlNow>>

RlNext ==
  \/ SetRateLimit \/ ClearRateLimit
  \/ PullJob \/ PullNothing \/ PullRefused
  \/ RlClock \/ WatchFromHere
RlSpec == RlInit /\ [][RlNext]_rlVars

-----------------------------------------------------------------------------
(* The rate limit of a queue: in any window of time single pulls deliver at
   most a full bucket plus `limit` jobs for each second the clock runs forward
   in it, whatever the pattern of pulls, however long the queue was idle before
   and however often the clock is set back.  (pull_batch takes no tokens and is
   outside this bound.) *)
RateBound ==
  rlLimit # NoRate => rlDelivered * Token <= rlLimit * Token + rlLimit * rlForward
=============================================================================
