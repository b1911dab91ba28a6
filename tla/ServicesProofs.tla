--------------------------- MODULE ServicesProofs ----------------------------
(***************************************************************************)
(* The services around the jobs -- rate limit, circuit breakers, locks,    *)
(* streams of events, metrics and the heap of the waiting -- for every     *)
(* number of their clients, every limit and every job.  Each part states   *)
(* its invariant, shows that every action keeps it, and draws the theorem. *)
(***************************************************************************)
EXTENDS RateLimit, Webhooks, Locks, Sockets, Metrics, PriorityQueue, TLAPS, FiniteSetTheorems,
        SequenceTheorems, NaturalsInduction, WellFoundedInduction

-----------------------------------------------------------------------------
(***************************************************************************)
(* The rate limit, for every limit, every window and every movement of the *)
(* clock.  The bound is an account: what a pull would find in the bucket   *)
(* now and what was delivered never exceed a full bucket and what the      *)
(* clock's forward steps are worth.                                        *)
(***************************************************************************)

\* Of two amounts of time the longer is worth no less, and worth adds up.
LEMMA Worth ==
  ASSUME NEW l \in Nat, NEW a \in Nat, NEW b \in Nat
  PROVE  /\ l * a \in Nat
         /\ l * (a + b) = l * a + l * b
         /\ a <= b => l * a <= l * b
<1>1. l * a \in Nat
  OBVIOUS
<1>2. l * (a + b) = l * a + l * b
  OBVIOUS
<1>3. ASSUME a <= b PROVE l * a <= l * b
  <2>1. PICK c \in Nat : b = a + c
    BY <1>3
  <2>2. l * (a + c) = l * a + l * c /\ l * c \in Nat /\ l * a \in Nat
    OBVIOUS
  <2> QED BY <2>1, <2>2
<1> QED BY <1>1, <1>2, <1>3

LEMMA NoTime ==
  ASSUME NEW e, NEW l \in Nat, NEW k \in Nat, e = 0
  PROVE  k + e * l = k /\ l * Token \in Nat
<1>1. 0 * l = 0 /\ l * Token \in Nat
  BY DEF Token
<1> QED BY <1>1

\* Two amounts of tokens, and what is added to them.
LEMMA SumOrder ==
  ASSUME NEW k \in Nat, NEW x \in Nat, NEW y \in Nat
  PROVE  k + x \in Nat /\ k + y \in Nat /\ (x <= y => k + x <= k + y)
  OBVIOUS
LEMMA SumOrderMore ==
  ASSUME NEW k \in Nat, NEW x \in Nat, NEW y \in Nat, NEW z \in Nat, x <= y + z
  PROVE  k + x \in Nat /\ k + y \in Nat /\ k + y + z \in Nat /\ k + x <= k + y + z
  OBVIOUS

\* What the brim does to an amount and to a larger one.
Capped(a, cap) == IF a > cap THEN cap ELSE a
LEMMA CappedBounds ==
  ASSUME NEW a \in Nat, NEW cap \in Nat, NEW b \in Nat
  PROVE  /\ Capped(a, cap) \in Nat /\ Capped(a, cap) <= a /\ Capped(a, cap) <= cap
         /\ a <= b => Capped(a, cap) <= Capped(b, cap)
         /\ Capped(a + b, cap) <= Capped(a, cap) + b
  BY DEF Capped

Account ==
  rlLimit # NoRate =>
    Refilled + Token * rlDelivered <= rlLimit * Token + rlLimit * rlForward

RlInv == RlTypeOK /\ Account

LEMMA ElapsedIsTime == RlTypeOK => Elapsed \in Nat
  BY DEF RlTypeOK, Elapsed

LEMMA LimitIsNat == RlTypeOK /\ rlLimit # NoRate => rlLimit \in Nat
  BY RateAssumption DEF RlTypeOK, NoRate

LEMMA RlTypeStep == RlTypeOK /\ [RlNext]_rlVars => RlTypeOK'
<1> SUFFICES ASSUME RlTypeOK, [RlNext]_rlVars PROVE RlTypeOK'
  OBVIOUS
<1>1. CASE SetRateLimit
  <2>1. PICK l \in RlLimits : NewLimiter(l) /\ UNCHANGED rlNow
    BY <1>1 DEF SetRateLimit
  <2>2. l \in Nat /\ l * Token \in Nat
    BY RateAssumption DEF Token
  <2> QED BY <2>1, <2>2 DEF NewLimiter, RlTypeOK
<1>2. CASE ClearRateLimit
  BY <1>2 DEF ClearRateLimit, RlTypeOK
<1>3. ASSUME NEW n \in {0, 1}, PullToken(n) PROVE RlTypeOK'
  <2>1. rlLimit \in Nat /\ Elapsed \in Nat
    BY <1>3, LimitIsNat, ElapsedIsTime DEF PullToken
  <2>2. Elapsed * rlLimit \in Nat /\ rlLimit * Token \in Nat
    BY <2>1 DEF Token
  <2>3. Refilled \in Nat
    BY <2>2 DEF Refilled, RlTypeOK
  <2> QED BY <1>3, <2>3 DEF PullToken, RlTypeOK, Token
<1>4. CASE PullRefused
  <2>1. rlLimit \in Nat /\ Elapsed \in Nat
    BY <1>4, LimitIsNat, ElapsedIsTime DEF PullRefused
  <2>2. Elapsed * rlLimit \in Nat /\ rlLimit * Token \in Nat
    BY <2>1 DEF Token
  <2>3. Refilled \in Nat
    BY <2>2 DEF Refilled, RlTypeOK
  <2> QED BY <1>4, <2>3 DEF PullRefused, RlTypeOK
<1>5. CASE RlClock
  BY <1>5, RateAssumption DEF RlClock, RlTypeOK
<1>6. CASE WatchFromHere
  BY <1>6 DEF WatchFromHere, RlTypeOK
<1>7. CASE UNCHANGED rlVars
  BY <1>7 DEF rlVars, RlTypeOK
<1> QED BY <1>1, <1>2, <1>3, <1>4, <1>5, <1>6, <1>7 DEF RlNext, PullJob, PullNothing

\* The bucket after refilling: its content and the worth of the time passed,
\* but no more than it holds.
LEMMA RefilledBound ==
  ASSUME RlTypeOK, rlLimit # NoRate
  PROVE  /\ rlLimit \in Nat /\ rlLimit * Token \in Nat /\ Elapsed \in Nat
         /\ rlLimit * Elapsed \in Nat
         /\ Refilled \in Nat /\ Refilled <= rlLimit * Token
         /\ Refilled = rlTokens + rlLimit * Elapsed \/ Refilled = rlLimit * Token
         /\ Refilled <= rlTokens + rlLimit * Elapsed
<1>1. rlLimit \in Nat /\ Elapsed \in Nat /\ rlTokens \in Nat
  BY LimitIsNat, ElapsedIsTime DEF RlTypeOK
<1>2. Elapsed * rlLimit = rlLimit * Elapsed /\ rlLimit * Elapsed \in Nat
  BY <1>1
<1>3. rlLimit * Token \in Nat
  BY <1>1 DEF Token
<1> QED BY <1>1, <1>2, <1>3 DEF Refilled

\* After a pull, answered or refused, no time is left to be counted.
LEMMA UpdatedNow ==
  ASSUME RlTypeOK, RlTypeOK', rlLimit' # NoRate, rlLastUpdate' = rlNow, rlNow' = rlNow
  PROVE  Refilled' \in Nat /\ Refilled' <= rlTokens'
<1>1. Elapsed' = 0
  BY DEF Elapsed, RlTypeOK
<1>2. rlLimit' \in Nat /\ rlTokens' \in Nat
  BY RateAssumption DEF RlTypeOK, NoRate
<1>3. rlTokens' + Elapsed' * rlLimit' = rlTokens' /\ rlLimit' * Token \in Nat
  BY <1>1, <1>2, NoTime
<1>4. Refilled' = Capped(rlTokens', rlLimit' * Token)
  BY <1>3 DEF Refilled, Capped
<1> QED BY <1>2, <1>3, <1>4, CappedBounds

LEMMA AccountStep == RlInv /\ RlTypeOK' /\ [RlNext]_rlVars => Account'
<1> SUFFICES ASSUME RlInv, RlTypeOK', [RlNext]_rlVars, rlLimit' # NoRate
             PROVE  Refilled' + Token * rlDelivered' <= rlLimit' * Token + rlLimit' * rlForward'
  BY DEF Account
<1> USE DEF RlInv
<1>1. CASE SetRateLimit
  <2>1. PICK l \in RlLimits : NewLimiter(l) /\ UNCHANGED rlNow
    BY <1>1 DEF SetRateLimit
  <2>2. l \in Nat /\ l * Token \in Nat /\ l * 0 = 0 /\ Token * 0 = 0
    BY RateAssumption DEF Token
  <2>3. rlTokens' = l * Token /\ rlLimit' = l /\ rlDelivered' = 0 /\ rlForward' = 0
    BY <2>1 DEF NewLimiter
  <2>4. Refilled' <= rlTokens' /\ Refilled' \in Nat
    BY <2>1, UpdatedNow DEF NewLimiter
  <2> QED BY <2>2, <2>3, <2>4
<1>2. CASE ClearRateLimit
  BY <1>2 DEF ClearRateLimit
<1>3. ASSUME NEW n \in {0, 1}, PullToken(n)
      PROVE  Refilled' + Token * rlDelivered' <= rlLimit' * Token + rlLimit' * rlForward'
  <2>1. /\ rlTokens' = Refilled - Token /\ rlDelivered' = rlDelivered + n /\ Refilled >= Token
        /\ rlLimit' = rlLimit /\ rlForward' = rlForward /\ rlLimit # NoRate
    BY <1>3 DEF PullToken
  <2>2. Refilled + Token * rlDelivered <= rlLimit * Token + rlLimit * rlForward
    BY <2>1 DEF Account
  <2>3. Refilled' <= rlTokens'
    BY <1>3, <2>1, UpdatedNow DEF PullToken
  <2>4. Token * (rlDelivered + n) <= Token * rlDelivered + Token
    BY DEF Token, RlTypeOK
  <2>5. /\ rlLimit \in Nat /\ rlLimit * Token \in Nat /\ rlLimit * rlForward \in Nat
        /\ Refilled \in Nat /\ Token * rlDelivered \in Nat /\ Token \in Nat
        /\ Token * (rlDelivered + n) \in Nat
    BY <2>1, RefilledBound DEF RlTypeOK, Token
  <2>6. Refilled' \in Nat
    BY <1>3, <2>1, UpdatedNow DEF PullToken
  <2> HIDE DEF Token
  <2> QED BY <2>1, <2>2, <2>3, <2>4, <2>5, <2>6
<1>4. CASE PullRefused
  <2>1. /\ rlTokens' = Refilled /\ rlDelivered' = rlDelivered
        /\ rlLimit' = rlLimit /\ rlForward' = rlForward /\ rlLimit # NoRate
    BY <1>4 DEF PullRefused
  <2>2. Refilled + Token * rlDelivered <= rlLimit * Token + rlLimit * rlForward
    BY <2>1 DEF Account
  <2>3. Refilled' <= rlTokens'
    BY <1>4, <2>1, UpdatedNow DEF PullRefused
  <2>4. /\ rlLimit \in Nat /\ rlLimit * Token \in Nat /\ rlLimit * rlForward \in Nat
        /\ Refilled \in Nat /\ Token * rlDelivered \in Nat
    BY <2>1, RefilledBound DEF RlTypeOK, Token
  <2>5. Refilled' \in Nat
    BY <1>4, <2>1, UpdatedNow DEF PullRefused
  <2> HIDE DEF Token
  <2> QED BY <2>1, <2>2, <2>3, <2>4, <2>5
<1>5. CASE RlClock
  <2>1. PICK d \in RlJumps :
          /\ rlNow + d \in 0..RlMaxNow /\ rlNow' = rlNow + d
          /\ rlForward' = IF d > 0 THEN rlForward + d ELSE rlForward
    BY <1>5 DEF RlClock
  <2>2. /\ rlLimit' = rlLimit /\ rlTokens' = rlTokens /\ rlLastUpdate' = rlLastUpdate
        /\ rlDelivered' = rlDelivered /\ rlLimit # NoRate
    BY <1>5 DEF RlClock
  <2>3. d \in Int
    BY RateAssumption
  <2>4. /\ rlLimit \in Nat /\ rlForward \in Nat /\ rlDelivered \in Nat /\ rlTokens \in Nat
        /\ Elapsed \in Nat /\ rlLimit * Elapsed \in Nat /\ Refilled \in Nat
        /\ rlLimit * Token \in Nat /\ Token * rlDelivered \in Nat
    BY <2>2, RefilledBound DEF RlTypeOK, Token
  <2>5. Refilled + Token * rlDelivered <= rlLimit * Token + rlLimit * rlForward
    BY <2>2 DEF Account
  <2>6. Elapsed' \in Nat /\ Elapsed' * rlLimit = rlLimit * Elapsed' /\ rlLimit * Elapsed' \in Nat
    BY <2>1, <2>2, <2>3, <2>4, RateAssumption DEF Elapsed, RlTypeOK
  <2>7. /\ Refilled' = Capped(rlTokens + rlLimit * Elapsed', rlLimit * Token)
        /\ Refilled = Capped(rlTokens + rlLimit * Elapsed, rlLimit * Token)
    BY <2>2, <2>4, <2>6 DEF Refilled, Capped
  <2>8. CASE d > 0
    <3>1. Elapsed' <= Elapsed + d /\ d \in Nat
      BY <2>1, <2>2, <2>3, <2>8, RateAssumption DEF Elapsed, RlTypeOK
    <3>2. rlLimit * Elapsed' <= rlLimit * (Elapsed + d)
      BY <2>4, <2>6, <3>1, Worth, Elapsed + d \in Nat
    <3>3. rlLimit * (Elapsed + d) = rlLimit * Elapsed + rlLimit * d
      BY <2>4, <3>1, Worth
    <3>4. rlLimit * (rlForward + d) = rlLimit * rlForward + rlLimit * d
      BY <2>4, <3>1, Worth
    <3>5. rlLimit * d \in Nat /\ rlLimit * rlForward \in Nat
      BY <2>4, <3>1, Worth
    <3>6. /\ rlTokens + rlLimit * Elapsed' \in Nat /\ rlTokens + rlLimit * Elapsed \in Nat
          /\ rlTokens + rlLimit * Elapsed + rlLimit * d \in Nat
          /\ rlTokens + rlLimit * Elapsed' <= rlTokens + rlLimit * Elapsed + rlLimit * d
      <4>1. rlLimit * Elapsed' <= rlLimit * Elapsed + rlLimit * d
        BY <3>2, <3>3
      <4> QED BY <2>4, <2>6, <3>5, <4>1, SumOrderMore
    <3>7. Refilled' \in Nat /\ Refilled' <= Refilled + rlLimit * d
      <4>1. Refilled' <= Capped(rlTokens + rlLimit * Elapsed + rlLimit * d, rlLimit * Token)
        BY <2>4, <2>7, <3>6, CappedBounds
      <4>2. Capped(rlTokens + rlLimit * Elapsed + rlLimit * d, rlLimit * Token)
              <= Refilled + rlLimit * d
        BY <2>4, <2>7, <3>5, <3>6, CappedBounds
      <4>3. /\ Refilled' \in Nat
            /\ Capped(rlTokens + rlLimit * Elapsed + rlLimit * d, rlLimit * Token) \in Nat
        BY <2>4, <2>7, <3>6, CappedBounds
      <4> QED BY <2>4, <3>5, <4>1, <4>2, <4>3
    <3>8. Refilled' + Token * rlDelivered <= rlLimit * Token + rlLimit * (rlForward + d)
      BY <2>4, <2>5, <3>4, <3>5, <3>7
    <3> QED BY <2>1, <2>2, <2>8, <3>8
  <2>9. CASE ~(d > 0)
    <3>1. Elapsed' <= Elapsed
      BY <2>1, <2>2, <2>3, <2>9, RateAssumption DEF Elapsed, RlTypeOK
    <3>2. rlLimit * Elapsed' <= rlLimit * Elapsed
      BY <2>4, <2>6, <3>1, Worth
    <3>3. Refilled' <= Refilled /\ Refilled' \in Nat
      <4>1. /\ rlTokens + rlLimit * Elapsed' \in Nat /\ rlTokens + rlLimit * Elapsed \in Nat
            /\ rlTokens + rlLimit * Elapsed' <= rlTokens + rlLimit * Elapsed
        BY <2>4, <2>6, <3>2, SumOrder
      <4> QED BY <2>4, <2>7, <4>1, CappedBounds
    <3>4. rlLimit * rlForward \in Nat
      BY <2>4
    <3>5. Refilled' + Token * rlDelivered <= rlLimit * Token + rlLimit * rlForward
      BY <2>4, <2>5, <3>3, <3>4
    <3> QED BY <2>1, <2>2, <2>9, <3>5
  <2> QED BY <2>8, <2>9
<1>6. CASE WatchFromHere
  <2>1. /\ rlLimit' = rlLimit /\ rlDelivered' = 0 /\ rlForward' = 0 /\ rlLimit # NoRate
        /\ Refilled' = Refilled
    BY <1>6 DEF WatchFromHere, Refilled, Elapsed
  <2>2. rlLimit * 0 = 0 /\ Token * 0 = 0
    BY <2>1, RefilledBound DEF Token
  <2>3. Refilled <= rlLimit * Token /\ Refilled \in Nat /\ rlLimit * Token \in Nat
    BY <2>1, RefilledBound
  <2> QED BY <2>1, <2>2, <2>3
<1>7. CASE UNCHANGED rlVars
  <2>1. Refilled' = Refilled
    BY <1>7 DEF rlVars, Elapsed, Refilled
  <2> QED BY <1>7, <2>1 DEF rlVars, Account
<1> QED BY <1>1, <1>2, <1>3, <1>4, <1>5, <1>6, <1>7 DEF RlNext, PullJob, PullNothing

LEMMA AccountBound == RlInv => RateBound
<1> SUFFICES ASSUME RlInv, rlLimit # NoRate
             PROVE  rlDelivered * Token <= rlLimit * Token + rlLimit * rlForward
  BY DEF RateBound
<1>1. rlLimit \in Nat /\ rlForward \in Nat /\ rlDelivered \in Nat /\ Refilled \in Nat
  BY RefilledBound DEF RlTypeOK, RlInv
<1>2. rlLimit * Token \in Nat /\ rlLimit * rlForward \in Nat
  BY <1>1 DEF Token
<1>3. rlDelivered * Token = Token * rlDelivered /\ Token * rlDelivered \in Nat
  BY <1>1 DEF Token
<1>4. Refilled + Token * rlDelivered <= rlLimit * Token + rlLimit * rlForward
  BY DEF RlInv, Account
<1> QED BY <1>1, <1>2, <1>3, <1>4

\* In any window of time single pulls deliver at most a bucket and what the
\* clock's forward steps are worth, for every limit and however the clock moves.
THEOREM RateIsBounded == RlSpec => []RateBound
<1>1. RlInit => RlInv
  BY DEF RlInit, RlInv, RlTypeOK, Account
<1>2. RlInv /\ [RlNext]_rlVars => RlInv'
  BY RlTypeStep, AccountStep DEF RlInv
<1> QED BY <1>1, <1>2, AccountBound, PTL DEF RlSpec

-----------------------------------------------------------------------------
(***************************************************************************)
(* The circuit breakers, for any webhooks, URLs, deleting calls, threshold *)
(* and number of requests in flight.                                       *)
(***************************************************************************)

Circuits == [state: {"none", "closed", "open", "half_open"},
             failures: Nat, successes: 0..1, since: 0..RecoveryTimeout]

\* A deleting call knows a hook and the URL it had.
DeletesOK ==
  /\ whDelete \in [Deleter -> [at: {"idle", "remove", "forget"},
                               hook: Hook \cup {NoUrl}, url: Url \cup {NoUrl}]]
  /\ \A d \in Deleter : whDelete[d].at # "idle" =>
       whDelete[d].hook \in Hook /\ whDelete[d].url \in Url
  /\ \A d \in Deleter : whDelete[d].at = "remove" =>
       whHook[whDelete[d].hook] \in {whDelete[d].url, "deleted"}

\* Without a breaker no failures are counted.
NothingCounted == \A u \in Url : whCircuit[u].state = "none" => whRun[u] = 0

WhTypes == WhTypeOK /\ DeletesOK
WhInv == WhTypes /\ NothingCounted /\ ClosedBelowThreshold /\ NoOrphanCircuit

LEMMA FreshIsCircuit ==
  Fresh \in Circuits /\ NoCircuit \in Circuits
  /\ Fresh.state = "closed" /\ Fresh.failures = 0 /\ NoCircuit.state = "none"
  BY WebhookAssumption DEF Fresh, NoCircuit, Circuits

\* What looking at a breaker and recording an answer make of it.
LEMMA LookedIs ==
  ASSUME NEW c \in Circuits
  PROVE  /\ Looked(c) \in Circuits /\ Looked(c).state # "none"
         /\ Looked(c).state = "closed" =>
              IF c.state = "none" THEN Looked(c).failures = 0
              ELSE c.state = "closed" /\ Looked(c).failures = c.failures
<1>1. CASE c.state = "none"
  <2>1. Looked(c) = Fresh
    BY <1>1 DEF Looked
  <2> QED BY <1>1, <2>1, FreshIsCircuit
<1>2. CASE c.state = "open" /\ Recovered(c)
  <2>1. Looked(c) = [c EXCEPT !.state = "half_open", !.successes = 0]
    BY <1>2 DEF Looked
  <2>2. Looked(c) = [state |-> "half_open", failures |-> c.failures, successes |-> 0,
                     since |-> c.since]
    BY <2>1 DEF Circuits
  <2>3. Looked(c).state = "half_open"
    BY <2>2
  <2>4. Looked(c) \in Circuits
    BY <2>2 DEF Circuits
  <2> QED BY <2>3, <2>4
<1>3. CASE c.state # "none" /\ ~(c.state = "open" /\ Recovered(c))
  <2>1. Looked(c) = c
    BY <1>3 DEF Looked
  <2> QED BY <1>3, <2>1
<1> QED BY <1>1, <1>2, <1>3

LEMMA SuccessIs ==
  ASSUME NEW c \in Circuits, c.state # "none"
  PROVE  /\ RecordSuccess(c) \in Circuits /\ RecordSuccess(c).state # "none"
         /\ RecordSuccess(c).state = "closed" => RecordSuccess(c).failures = 0
<1>1. CASE c.state = "closed"
  <2>1. RecordSuccess(c) = [c EXCEPT !.failures = 0]
    BY <1>1 DEF RecordSuccess
  <2> QED BY <1>1, <2>1 DEF Circuits
<1>2. CASE c.state = "half_open" /\ c.successes = 0
  <2>1. RecordSuccess(c) = [c EXCEPT !.successes = 1]
    BY <1>2 DEF RecordSuccess
  <2> QED BY <1>2, <2>1 DEF Circuits
<1>3. CASE c.state = "half_open" /\ c.successes # 0
  <2>1. RecordSuccess(c) = Fresh
    BY <1>3 DEF RecordSuccess, Circuits
  <2> QED BY <2>1, FreshIsCircuit
<1>4. CASE c.state = "open"
  <2>1. RecordSuccess(c) = c
    BY <1>4 DEF RecordSuccess
  <2> QED BY <1>4, <2>1
<1> QED BY <1>1, <1>2, <1>3, <1>4 DEF Circuits

LEMMA FailureIs ==
  ASSUME NEW c \in Circuits, c.state # "none"
  PROVE  /\ RecordFailure(c) \in Circuits /\ RecordFailure(c).state # "none"
         /\ RecordFailure(c).state = "closed" =>
              /\ c.state = "closed" /\ RecordFailure(c).failures = c.failures + 1
              /\ RecordFailure(c).failures < FailureThreshold
<1>1. CASE c.state = "closed" /\ c.failures + 1 < FailureThreshold
  <2>1. RecordFailure(c) = [c EXCEPT !.failures = @ + 1]
    BY <1>1 DEF RecordFailure
  <2> QED BY <1>1, <2>1 DEF Circuits
<1>2. CASE ~(c.state = "closed" /\ c.failures + 1 < FailureThreshold)
  <2>1. RecordFailure(c) =
          [c EXCEPT !.failures = @ + 1, !.state = "open", !.successes = 0, !.since = 0]
    BY <1>2 DEF RecordFailure
  <2>2. RecordFailure(c) = [state |-> "open", failures |-> c.failures + 1, successes |-> 0,
                            since |-> 0]
    BY <2>1 DEF Circuits
  <2>3. RecordFailure(c).state = "open"
    BY <2>2
  <2>4. RecordFailure(c) \in Circuits
    BY <2>2, WebhookAssumption DEF Circuits
  <2> QED BY <2>3, <2>4
<1> QED BY <1>1, <1>2

LEMMA TickIs ==
  ASSUME NEW c \in Circuits, ~Recovered(c)
  PROVE  [c EXCEPT !.since = @ + 1] \in Circuits
<1>1. [c EXCEPT !.since = @ + 1] = [state |-> c.state, failures |-> c.failures,
                                    successes |-> c.successes, since |-> c.since + 1]
  BY DEF Circuits
<1>2. c.since + 1 \in 0..RecoveryTimeout
  BY WebhookAssumption DEF Circuits, Recovered
<1> QED BY <1>1, <1>2 DEF Circuits

-----------------------------------------------------------------------------
\* The part about one breaker, for steps that change only one.
BreakerOK(u) ==
  /\ whCircuit[u].state = "none" => whRun[u] = 0
  /\ whCircuit[u].state = "closed" => whCircuit[u].failures = whRun[u] /\ whRun[u] < FailureThreshold

LEMMA BreakersOK == NothingCounted /\ ClosedBelowThreshold <=> \A u \in Url : BreakerOK(u)
  BY DEF NothingCounted, ClosedBelowThreshold, BreakerOK

LEMMA TypeOfStep == WhTypes /\ [WhNext]_whVars => WhTypes'
<1> SUFFICES ASSUME WhTypes, [WhNext]_whVars PROVE WhTypes'
  OBVIOUS
<1> USE WebhookAssumption DEF WhTypes, WhTypeOK, DeletesOK
<1>1. CASE AddWebhook
  BY <1>1 DEF AddWebhook
<1>2. ASSUME NEW d \in Deleter, DeleteLookup(d) PROVE WhTypes'
  <2>1. PICK h \in Hook : /\ whHook[h] \in Url
                          /\ whDelete' = [whDelete EXCEPT ![d] =
                                            [at |-> "remove", hook |-> h, url |-> whHook[h]]]
    BY <1>2 DEF DeleteLookup
  <2> QED BY <1>2, <2>1 DEF DeleteLookup
<1>3. ASSUME NEW d \in Deleter, DeleteRemove(d) PROVE WhTypes'
  BY <1>3 DEF DeleteRemove
<1>4. ASSUME NEW d \in Deleter, DeleteForget(d) PROVE WhTypes'
  <2>1. /\ whCircuit' = [whCircuit EXCEPT ![whDelete[d].url] = NoCircuit]
        /\ whRun' = [whRun EXCEPT ![whDelete[d].url] = 0]
        /\ whDelete' = [whDelete EXCEPT ![d] = Idle] /\ UNCHANGED <<whHook, whFlight>>
    BY <1>4 DEF DeleteForget
  <2>2. NoCircuit \in Circuits
    BY FreshIsCircuit
  <2>3. WhTypeOK'
    BY <2>1, <2>2 DEF Circuits
  <2>4. DeletesOK'
    BY <2>1 DEF Idle
  <2> QED BY <2>3, <2>4
<1>5. ASSUME NEW u \in Url, FireWebhook(u) PROVE WhTypes'
  <2>1. whCircuit[u] \in Circuits
    BY DEF Circuits
  <2>2. whCircuit' \in [Url -> Circuits]
    BY <1>5, <2>1, LookedIs DEF FireWebhook, Circuits
  <2>3. whFlight' \in [Url -> 0..MaxFlight]
    BY <1>5 DEF FireWebhook
  <2> QED BY <1>5, <2>2, <2>3 DEF FireWebhook, Circuits
<1>6. ASSUME NEW u \in Url, AnswerSuccess(u) PROVE WhTypes'
  <2>1. whFlight' \in [Url -> 0..MaxFlight] /\ UNCHANGED <<whHook, whDelete>>
    BY <1>6 DEF AnswerSuccess, Answered, Meets
  <2>2. whCircuit' \in [Url -> Circuits] /\ whRun' \in [Url -> Nat]
    <3>1. CASE whCircuit[u].state = "none"
      BY <1>6, <3>1 DEF AnswerSuccess, Answered, Meets, Circuits
    <3>2. CASE whCircuit[u].state # "none"
      <4>1. /\ whCircuit' = [whCircuit EXCEPT ![u] = RecordSuccess(@)]
            /\ whRun' = [whRun EXCEPT ![u] = 0]
        BY <1>6, <3>2 DEF AnswerSuccess, Answered, Meets
      <4>2. RecordSuccess(whCircuit[u]) \in Circuits
        BY <3>2, SuccessIs DEF Circuits
      <4> QED BY <4>1, <4>2 DEF Circuits
    <3> QED BY <3>1, <3>2
  <2> QED BY <2>1, <2>2 DEF Circuits
<1>7. ASSUME NEW u \in Url, AnswerFailure(u) PROVE WhTypes'
  <2>1. whFlight' \in [Url -> 0..MaxFlight] /\ UNCHANGED <<whHook, whDelete>>
    BY <1>7 DEF AnswerFailure, Answered, Meets
  <2>2. whCircuit' \in [Url -> Circuits] /\ whRun' \in [Url -> Nat]
    <3>1. CASE whCircuit[u].state = "none"
      BY <1>7, <3>1 DEF AnswerFailure, Answered, Meets, Circuits
    <3>2. CASE whCircuit[u].state # "none"
      <4>1. /\ whCircuit' = [whCircuit EXCEPT ![u] = RecordFailure(@)]
            /\ whRun' = [whRun EXCEPT ![u] = whRun[u] + 1]
        BY <1>7, <3>2 DEF AnswerFailure, Answered, Meets
      <4>2. RecordFailure(whCircuit[u]) \in Circuits
        BY <3>2, FailureIs DEF Circuits
      <4> QED BY <4>1, <4>2 DEF Circuits
    <3> QED BY <3>1, <3>2
  <2> QED BY <2>1, <2>2 DEF Circuits
<1>8. CASE CleanupWebhookCircuits
  <2>1. whCircuit' \in [Url -> Circuits]
    BY <1>8, FreshIsCircuit DEF CleanupWebhookCircuits, Circuits
  <2> QED BY <1>8, <2>1 DEF CleanupWebhookCircuits, Circuits
<1>11. CASE CollectActiveUrls
  BY <1>11 DEF CollectActiveUrls
<1>9. CASE WhTick
  <2>1. ASSUME NEW u \in Url, ~Recovered(whCircuit[u])
        PROVE [whCircuit[u] EXCEPT !.since = @ + 1] \in Circuits
    BY <2>1, TickIs DEF Circuits
  <2>2. whCircuit' \in [Url -> Circuits]
    BY <1>9, <2>1 DEF WhTick, Circuits
  <2> QED BY <1>9, <2>2 DEF WhTick, Circuits
<1>10. CASE UNCHANGED whVars
  BY <1>10 DEF whVars
<1> QED
  BY <1>1, <1>2, <1>3, <1>4, <1>5, <1>6, <1>7, <1>8, <1>9, <1>10, <1>11 DEF WhNext

\* A step that leaves the breakers alone, and one that changes a single one.
LEMMA BreakersKept ==
  (\A u \in Url : BreakerOK(u)) /\ UNCHANGED <<whCircuit, whRun>> => \A u \in Url : BreakerOK(u)'
  BY DEF BreakerOK

LEMMA BreakersStep ==
  WhTypes /\ (\A u \in Url : BreakerOK(u)) /\ [WhNext]_whVars => \A u \in Url : BreakerOK(u)'
<1> SUFFICES ASSUME WhTypes, \A u \in Url : BreakerOK(u), [WhNext]_whVars
             PROVE  \A u \in Url : BreakerOK(u)'
  OBVIOUS
<1> USE WebhookAssumption
<1>0. whCircuit \in [Url -> Circuits] /\ whRun \in [Url -> Nat]
  BY DEF WhTypes, WhTypeOK, Circuits
<1>1. CASE AddWebhook
  BY <1>1, BreakersKept DEF AddWebhook
<1>2. ASSUME NEW d \in Deleter, DeleteLookup(d) \/ DeleteRemove(d)
      PROVE  \A u \in Url : BreakerOK(u)'
  BY <1>2, BreakersKept DEF DeleteLookup, DeleteRemove
<1>3. CASE CollectActiveUrls
  BY <1>3, BreakersKept DEF CollectActiveUrls
<1>4. ASSUME NEW d \in Deleter, DeleteForget(d), NEW u \in Url PROVE BreakerOK(u)'
  BY <1>0, <1>4, FreshIsCircuit DEF DeleteForget, BreakerOK
<1>5. ASSUME NEW v \in Url, FireWebhook(v), NEW u \in Url PROVE BreakerOK(u)'
  <2>1. whCircuit' = [whCircuit EXCEPT ![v] = Looked(@)] /\ whRun' = whRun
    BY <1>5 DEF FireWebhook
  <2>2. CASE u = v
    <3>1. whCircuit'[u] = Looked(whCircuit[u]) /\ whRun'[u] = whRun[u]
      BY <1>0, <2>1, <2>2
    <3> QED BY <1>0, <3>1, LookedIs DEF BreakerOK
  <2>3. CASE u # v
    BY <1>0, <2>1, <2>3 DEF BreakerOK
  <2> QED BY <2>2, <2>3
<1>6. ASSUME NEW v \in Url, AnswerSuccess(v), NEW u \in Url PROVE BreakerOK(u)'
  <2>1. CASE u # v \/ whCircuit[v].state = "none"
    <3>1. whCircuit'[u] = whCircuit[u] /\ whRun'[u] = whRun[u]
      BY <1>0, <1>6, <2>1 DEF AnswerSuccess, Answered, Meets
    <3> QED BY <3>1 DEF BreakerOK
  <2>2. CASE u = v /\ whCircuit[v].state # "none"
    <3>1. whCircuit'[u] = RecordSuccess(whCircuit[u]) /\ whRun'[u] = 0
      BY <1>0, <1>6, <2>2 DEF AnswerSuccess, Answered, Meets
    <3> QED BY <1>0, <2>2, <3>1, SuccessIs DEF BreakerOK
  <2> QED BY <2>1, <2>2
<1>7. ASSUME NEW v \in Url, AnswerFailure(v), NEW u \in Url PROVE BreakerOK(u)'
  <2>1. CASE u # v \/ whCircuit[v].state = "none"
    <3>1. whCircuit'[u] = whCircuit[u] /\ whRun'[u] = whRun[u]
      BY <1>0, <1>7, <2>1 DEF AnswerFailure, Answered, Meets
    <3> QED BY <3>1 DEF BreakerOK
  <2>2. CASE u = v /\ whCircuit[v].state # "none"
    <3>1. whCircuit'[u] = RecordFailure(whCircuit[u]) /\ whRun'[u] = whRun[u] + 1
      BY <1>0, <1>7, <2>2 DEF AnswerFailure, Answered, Meets
    <3> QED BY <1>0, <2>2, <3>1, FailureIs DEF BreakerOK
  <2> QED BY <2>1, <2>2
<1>8. ASSUME CleanupWebhookCircuits, NEW u \in Url PROVE BreakerOK(u)'
  BY <1>0, <1>8, FreshIsCircuit DEF CleanupWebhookCircuits, BreakerOK
<1>9. ASSUME WhTick, NEW u \in Url PROVE BreakerOK(u)'
  <2>1. whRun'[u] = whRun[u] /\ whCircuit'[u].state = whCircuit[u].state
        /\ whCircuit'[u].failures = whCircuit[u].failures
    BY <1>0, <1>9 DEF WhTick, Circuits
  <2> QED BY <2>1 DEF BreakerOK
<1>10. CASE UNCHANGED whVars
  BY <1>10, BreakersKept DEF whVars
<1> QED
  BY <1>1, <1>2, <1>3, <1>4, <1>5, <1>6, <1>7, <1>8, <1>9, <1>10 DEF WhNext

\* Steps that keep the hooks and the deleting calls, and make no breaker but for
\* a registered URL.
LEMMA OrphanKept ==
  ASSUME NoOrphanCircuit, UNCHANGED <<whHook, whDelete>>,
         \A u \in Url : whCircuit'[u].state # "none" => whCircuit[u].state # "none" \/ Registered(u)
  PROVE  NoOrphanCircuit'
  BY DEF NoOrphanCircuit, Registered

LEMMA OrphanStep ==
  WhTypes /\ NoOrphanCircuit /\ [WhNext]_whVars => NoOrphanCircuit'
<1> SUFFICES ASSUME WhTypes, NoOrphanCircuit, [WhNext]_whVars PROVE NoOrphanCircuit'
  OBVIOUS
<1> USE WebhookAssumption
<1>0. whCircuit \in [Url -> Circuits] /\ whHook \in [Hook -> Url \cup {NoUrl, "deleted"}]
  BY DEF WhTypes, WhTypeOK, Circuits
<1>1. CASE AddWebhook
  <2>1. PICK h \in Hook, v \in Url : whHook[h] = NoUrl /\ whHook' = [whHook EXCEPT ![h] = v]
    BY <1>1 DEF AddWebhook
  <2>2. \A u \in Url : Registered(u) => Registered(u)'
    BY <1>0, <2>1 DEF Registered
  <2> QED BY <1>1, <2>2 DEF AddWebhook, NoOrphanCircuit
<1>2. ASSUME NEW d \in Deleter, DeleteLookup(d) PROVE NoOrphanCircuit'
  <2>1. whDelete[d].at = "idle" /\ UNCHANGED <<whHook, whCircuit>>
        /\ \A e \in Deleter \ {d} : whDelete'[e] = whDelete[e]
    BY <1>2 DEF DeleteLookup, WhTypes, DeletesOK
  <2> QED BY <2>1 DEF NoOrphanCircuit, Registered
<1>3. ASSUME NEW d \in Deleter, DeleteRemove(d) PROVE NoOrphanCircuit'
  <2> DEFINE v == whDelete[d].url
             h == whDelete[d].hook
  <2>1. /\ whDelete[d].at = "remove" /\ whCircuit' = whCircuit
        /\ whHook' = [whHook EXCEPT ![h] = "deleted"]
        /\ whDelete' = [whDelete EXCEPT ![d].at = "forget"]
    BY <1>3 DEF DeleteRemove
  <2>2. h \in Hook /\ whHook[h] \in {v, "deleted"}
    BY <2>1 DEF WhTypes, DeletesOK
  <2>3. whDelete'[d].at = "forget" /\ whDelete'[d].url = v
        /\ \A e \in Deleter \ {d} : whDelete'[e] = whDelete[e]
    BY <2>1 DEF WhTypes, DeletesOK
  <2>4. \A u \in Url \ {v} : Registered(u) => Registered(u)'
    BY <1>0, <2>1, <2>2 DEF Registered
  <2> QED BY <2>1, <2>3, <2>4 DEF NoOrphanCircuit
<1>4. ASSUME NEW d \in Deleter, DeleteForget(d) PROVE NoOrphanCircuit'
  <2> DEFINE v == whDelete[d].url
  <2>1. /\ whHook' = whHook /\ whDelete' = [whDelete EXCEPT ![d] = Idle]
        /\ whCircuit' = [whCircuit EXCEPT ![v] = NoCircuit]
    BY <1>4 DEF DeleteForget
  <2>2. \A u \in Url : whCircuit'[u].state # "none" => u # v /\ whCircuit'[u] = whCircuit[u]
    BY <1>0, <2>1, FreshIsCircuit
  <2>3. \A e \in Deleter \ {d} : whDelete'[e] = whDelete[e]
    BY <2>1 DEF WhTypes, DeletesOK
  <2> QED BY <2>1, <2>2, <2>3 DEF NoOrphanCircuit, Registered
<1>5. ASSUME NEW v \in Url, FireWebhook(v) PROVE NoOrphanCircuit'
  <2>1. Registered(v) /\ UNCHANGED <<whHook, whDelete>>
        /\ \A u \in Url \ {v} : whCircuit'[u] = whCircuit[u]
    BY <1>0, <1>5 DEF FireWebhook
  <2> QED BY <2>1, OrphanKept
<1>6. ASSUME NEW v \in Url, AnswerSuccess(v) \/ AnswerFailure(v) PROVE NoOrphanCircuit'
  <2>1. UNCHANGED <<whHook, whDelete>>
    BY <1>6 DEF AnswerSuccess, AnswerFailure, Answered, Meets
  <2>2. \A u \in Url : whCircuit'[u].state # "none" => whCircuit[u].state # "none"
    BY <1>0, <1>6 DEF AnswerSuccess, AnswerFailure, Answered, Meets
  <2> QED BY <2>1, <2>2, OrphanKept
<1>7. CASE CollectActiveUrls
  BY <1>7, OrphanKept DEF CollectActiveUrls
<1>8. CASE CleanupWebhookCircuits
  <2>1. UNCHANGED <<whHook, whDelete>>
        /\ \A u \in Url : whCircuit'[u].state # "none" => whCircuit[u].state # "none"
    BY <1>8, FreshIsCircuit DEF CleanupWebhookCircuits
  <2> QED BY <2>1, OrphanKept
<1>9. CASE WhTick
  <2>1. UNCHANGED <<whHook, whDelete>>
        /\ \A u \in Url : whCircuit'[u].state = whCircuit[u].state
    BY <1>0, <1>9 DEF WhTick, Circuits
  <2> QED BY <2>1, OrphanKept
<1>10. CASE UNCHANGED whVars
  BY <1>10, OrphanKept DEF whVars
<1> QED
  BY <1>1, <1>2, <1>3, <1>4, <1>5, <1>6, <1>7, <1>8, <1>9, <1>10 DEF WhNext

-----------------------------------------------------------------------------
LEMMA WhStart == WhInit => WhInv
<1> SUFFICES ASSUME WhInit PROVE WhInv
  OBVIOUS
<1> USE WebhookAssumption, FreshIsCircuit DEF WhInit
<1>1. WhTypes
  BY DEF WhTypes, WhTypeOK, DeletesOK, Idle, Circuits
<1>2. NothingCounted /\ ClosedBelowThreshold /\ NoOrphanCircuit
  BY DEF NothingCounted, ClosedBelowThreshold, NoOrphanCircuit
<1> QED BY <1>1, <1>2 DEF WhInv

LEMMA WhInductive == WhInv /\ [WhNext]_whVars => WhInv'
<1> SUFFICES ASSUME WhInv, [WhNext]_whVars PROVE WhInv'
  OBVIOUS
<1>1. WhTypes' /\ NoOrphanCircuit'
  BY TypeOfStep, OrphanStep DEF WhInv
<1>2. \A u \in Url : BreakerOK(u)'
  BY BreakersOK, BreakersStep DEF WhInv
<1>3. NothingCounted' /\ ClosedBelowThreshold'
  BY <1>2 DEF NothingCounted, ClosedBelowThreshold, BreakerOK
<1> QED BY <1>1, <1>3 DEF WhInv

\* A closed breaker has seen fewer failures in a row than the threshold, however
\* many requests were under way when it opened, closed or was made again.
THEOREM BreakersOpenInTime == WhSpec => []ClosedBelowThreshold
<1>1. WhInv => ClosedBelowThreshold
  BY DEF WhInv
<1> QED BY WhStart, WhInductive, <1>1, PTL DEF WhSpec

\* Deletions, events and late answers in any order leave no breaker behind.
THEOREM BreakersHaveHooks == WhSpec => []NoOrphanCircuit
<1>1. WhInv => NoOrphanCircuit
  BY DEF WhInv
<1> QED BY WhStart, WhInductive, <1>1, PTL DEF WhSpec

-----------------------------------------------------------------------------
(***************************************************************************)
(* No circle of waiting threads, for any set of threads.  The locks have   *)
(* levels, every chain climbs them, so a waiting thread is blocked by one  *)
(* that waits for a lock of a higher level -- itself, or, for a reader     *)
(* behind a waiting writer, the holder that blocks the writer.  There are  *)
(* six levels.                                                             *)
(***************************************************************************)

LockLevel(l) ==
  IF l \in {"custom_ids", "debounce", "webhooks", "settings"} THEN 0
  ELSE IF l \in {"shard", "completed", "circuits"} THEN 1
  ELSE IF l \in {"processing", "completed_data", "results"} THEN 2
  ELSE IF l = "logs" THEN 3
  ELSE IF l = "stalled" THEN 4
  ELSE 5

IsRequest(r) == r = R(r.lock) \/ r = W(r.lock)

\* A chain climbs: every lock is of a higher level than those taken before it.
Climbs(c) ==
  /\ Len(c) \in Nat
  /\ \A i \in 1..Len(c) : IsRequest(c[i])
  /\ \A i, j \in 1..Len(c) : i < j => LockLevel(c[i].lock) < LockLevel(c[j].lock)

LEMMA LevelBound == \A l : LockLevel(l) \in 0..5
  BY DEF LockLevel

LEMMA Levels ==
  /\ LockLevel("custom_ids") = 0 /\ LockLevel("webhooks") = 0
  /\ LockLevel("shard") = 1 /\ LockLevel("completed") = 1 /\ LockLevel("circuits") = 1
  /\ LockLevel("processing") = 2 /\ LockLevel("completed_data") = 2
  /\ LockLevel("results") = 2 /\ LockLevel("logs") = 3 /\ LockLevel("stalled") = 4
  /\ LockLevel("index") = 5
  BY DEF LockLevel

\* A lock taken alone is a chain that climbs.
LEMMA AloneClimbs == \A r : IsRequest(r) => Climbs(<<r>>)
  BY DEF Climbs

LEMMA RequestsAre == \A l : IsRequest(R(l)) /\ IsRequest(W(l))
  BY DEF IsRequest, R, W

LEMMA LocksOf == \A l : R(l).lock = l /\ W(l).lock = l
  BY DEF R, W

LEMMA PairClimbs ==
  \A r, s : (IsRequest(r) /\ IsRequest(s) /\ LockLevel(r.lock) < LockLevel(s.lock))
              => Climbs(<<r, s>>)
  BY DEF Climbs

\* The calls that nest at most one lock in another.
LEMMA PushClimbs == \A c \in LockPush \cup LockPushBatch : Climbs(c)
<1>1. ASSUME NEW c \in LockPush PROVE Climbs(c)
  <2>1. CASE c = <<W("custom_ids"), R("index")>>
    BY <2>1, PairClimbs, RequestsAre, Levels, LocksOf
  <2>2. CASE c = <<W("custom_ids"), R("shard")>>
    BY <2>2, PairClimbs, RequestsAre, Levels, LocksOf
  <2>3. CASE c = <<W("custom_ids"), R("processing")>>
    BY <2>3, PairClimbs, RequestsAre, Levels, LocksOf
  <2>4. CASE c = <<W("shard"), W("index")>>
    BY <2>4, PairClimbs, RequestsAre, Levels, LocksOf
  <2>5. CASE \E l : c = <<R(l)>> \/ c = <<W(l)>>
    BY <2>5, AloneClimbs, RequestsAre
  <2> QED BY <2>1, <2>2, <2>3, <2>4, <2>5 DEF LockPush, PushOutside, Singly
<1>2. ASSUME NEW c \in LockPushBatch PROVE Climbs(c)
  <2>1. CASE c = <<W("custom_ids"), W("shard")>>
    BY <2>1, PairClimbs, RequestsAre, Levels, LocksOf
  <2>2. CASE c = <<W("shard"), W("index")>>
    BY <2>2, PairClimbs, RequestsAre, Levels, LocksOf
  <2>3. CASE \E l : c = <<R(l)>> \/ c = <<W(l)>>
    BY <2>3, AloneClimbs, RequestsAre
  <2> QED BY <2>1, <2>2, <2>3 DEF LockPushBatch, Singly
<1> QED BY <1>1, <1>2

LEMMA ShardThenIndexClimbs ==
  \A c \in LockCancel \cup LockDiscard \cup LockDrain \cup LockObliterate \cup LockRetryDlq :
    Climbs(c)
<1> SUFFICES ASSUME NEW c \in LockCancel \cup LockDiscard \cup LockDrain
                              \cup LockObliterate \cup LockRetryDlq
             PROVE Climbs(c)
  OBVIOUS
<1>1. CASE c = <<W("shard"), W("index")>>
  BY <1>1, PairClimbs, RequestsAre, Levels, LocksOf
<1>2. CASE \E l : c = <<R(l)>> \/ c = <<W(l)>>
  BY <1>2, AloneClimbs, RequestsAre
<1> QED
  BY <1>1, <1>2 DEF LockCancel, LockDiscard, LockDrain, LockObliterate, LockRetryDlq, Singly

LEMMA ReadersClimb ==
  \A c \in LockListQueues \cup LockStaleIndex \cup LockFireWebhooks : Climbs(c)
<1> SUFFICES ASSUME NEW c \in LockListQueues \cup LockStaleIndex \cup LockFireWebhooks
             PROVE Climbs(c)
  OBVIOUS
<1>1. CASE c = <<R("shard"), R("processing")>>
  BY <1>1, PairClimbs, RequestsAre, Levels, LocksOf
<1>2. CASE c = <<R("shard"), R("completed_data")>>
  BY <1>2, PairClimbs, RequestsAre, Levels, LocksOf
<1>3. CASE c = <<W("logs"), W("stalled")>>
  BY <1>3, PairClimbs, RequestsAre, Levels, LocksOf
<1>4. CASE c = <<R("webhooks"), W("circuits")>>
  BY <1>4, PairClimbs, RequestsAre, Levels, LocksOf
<1>5. CASE \E l : c = <<R(l)>> \/ c = <<W(l)>>
  BY <1>5, AloneClimbs, RequestsAre
<1> QED BY <1>1, <1>2, <1>3, <1>4, <1>5
        DEF LockListQueues, LockStaleIndex, LockFireWebhooks, Singly

LEMMA CleaningClimbs == \A c \in LockClean \cup LockRunCleanup \cup LockJobLogs : Climbs(c)
<1> SUFFICES ASSUME NEW c \in LockClean \cup LockRunCleanup \cup LockJobLogs PROVE Climbs(c)
  OBVIOUS
<1>1. CASE c = <<W("shard"), W("index")>>
  BY <1>1, PairClimbs, RequestsAre, Levels, LocksOf
<1>2. CASE c = <<W("completed"), W("results"), W("logs"), W("index")>>
  BY <1>2, RequestsAre, Levels, LocksOf DEF Climbs
<1>3. CASE c = <<W("completed"), W("results"), W("index")>>
  BY <1>3, RequestsAre, Levels, LocksOf DEF Climbs
<1>4. CASE c = <<R("completed"), W("logs"), R("index")>>
  BY <1>4, RequestsAre, Levels, LocksOf DEF Climbs
<1>5. CASE \E l : c = <<R(l)>> \/ c = <<W(l)>>
  BY <1>5, AloneClimbs, RequestsAre
<1> QED BY <1>1, <1>2, <1>3, <1>4, <1>5 DEF LockClean, LockRunCleanup, LockJobLogs, Singly

LEMMA LoneLocksClimb ==
  \A c \in UNION {LockAck, LockPurgeDlq, LockGetJob, LockJobCounts, LockGetJobs, LockListJobs,
                  LockGetMetrics, LockStats, LockStalled, LockDependencies, LockTimedOut} : Climbs(c)
<1> SUFFICES ASSUME NEW c \in UNION {LockAck, LockPurgeDlq, LockGetJob, LockJobCounts,
                                     LockGetJobs, LockListJobs, LockGetMetrics, LockStats,
                                     LockStalled, LockDependencies, LockTimedOut}
             PROVE Climbs(c)
  OBVIOUS
<1>1. \E l : c = <<R(l)>> \/ c = <<W(l)>>
  BY DEF LockAck, LockPurgeDlq, LockGetJob, LockJobCounts, LockGetJobs, LockListJobs,
         LockGetMetrics, LockStats, LockStalled, LockDependencies, LockTimedOut, Singly
<1> QED BY <1>1, AloneClimbs, RequestsAre

LEMMA ChainsClimb == \A c \in LockChains : Climbs(c)
  BY PushClimbs, ShardThenIndexClimbs, ReadersClimb, CleaningClimbs, LoneLocksClimb DEF LockChains

-----------------------------------------------------------------------------
\* What every reachable state satisfies: a thread is on a chain of a call, and
\* one that waits has a next lock.
LockTypeOK ==
  /\ lockChain \in [LockThread -> LockChains \cup {<<>>}]
  /\ lockTaken \in [LockThread -> Nat]
  /\ lockWaits \in [LockThread -> BOOLEAN]
  /\ \A t \in LockThread :
       /\ lockTaken[t] <= Len(lockChain[t])
       /\ lockWaits[t] => lockTaken[t] < Len(lockChain[t])

LEMMA ChainLength == \A c \in LockChains \cup {<<>>} : Len(c) \in Nat
  BY ChainsClimb DEF Climbs

\* A chain is not empty: a call asks for a lock.
LEMMA ChainsNotEmpty == \A c \in LockChains : Len(c) > 0
<1> SUFFICES ASSUME NEW c \in LockChains PROVE Len(c) > 0
  OBVIOUS
<1>1. \/ \E r : c = <<r>>
      \/ \E r, s : c = <<r, s>>
      \/ \E r, s, u : c = <<r, s, u>>
      \/ \E r, s, u, v : c = <<r, s, u, v>>
  BY DEF LockChains, LockPush, PushOutside, LockPushBatch, LockAck, LockCancel, LockDiscard,
         LockClean, LockDrain, LockObliterate, LockRetryDlq, LockPurgeDlq, LockGetJob,
         LockListQueues, LockJobCounts, LockGetJobs, LockListJobs, LockGetMetrics, LockStats,
         LockStalled, LockDependencies, LockTimedOut, LockRunCleanup, LockJobLogs, LockStaleIndex,
         LockFireWebhooks, Singly
<1> QED BY <1>1

LEMMA LockTypeStep == LockTypeOK /\ [LockNext]_lockVars => LockTypeOK'
<1> SUFFICES ASSUME LockTypeOK, [LockNext]_lockVars PROVE LockTypeOK'
  OBVIOUS
<1> USE ChainLength
<1>1. CASE UNCHANGED lockVars
  BY <1>1 DEF LockTypeOK, lockVars
<1>2. ASSUME NEW t \in LockThread, LockCall(t, LockChains) PROVE LockTypeOK'
  <2>1. lockTaken[t] = 0
    BY <1>2 DEF LockCall, LockTypeOK
  <2> QED BY <1>2, <2>1, ChainsNotEmpty DEF LockCall, LockTypeOK
<1>3. ASSUME NEW t \in LockThread, LockRequest(t) PROVE LockTypeOK'
  BY <1>3 DEF LockRequest, LockTypeOK
<1>4. ASSUME NEW t \in LockThread, LockGrant(t) PROVE LockTypeOK'
  BY <1>4 DEF LockGrant, LockTypeOK
<1>5. ASSUME NEW t \in LockThread, LockRelease(t) PROVE LockTypeOK'
  BY <1>5 DEF LockRelease, LockTypeOK
<1> QED BY <1>1, <1>2, <1>3, <1>4, <1>5 DEF LockNext, LockNextOf

\* The lock a thread waits for is of a higher level than those it holds.
LEMMA WantsHigher ==
  ASSUME LockTypeOK, NEW t \in LockThread, lockWaits[t]
  PROVE  /\ IsRequest(LockWanted(t))
         /\ \A h \in LockHeld(t) : LockLevel(h.lock) < LockLevel(LockWanted(t).lock)
<1>1. lockChain[t] \in LockChains /\ lockTaken[t] \in Nat /\ lockTaken[t] < Len(lockChain[t])
  BY DEF LockTypeOK
<1>2. Climbs(lockChain[t])
  BY <1>1, ChainsClimb
<1>3. lockTaken[t] + 1 \in 1..Len(lockChain[t])
  BY <1>1, <1>2 DEF Climbs
<1>4. IsRequest(LockWanted(t))
  BY <1>2, <1>3 DEF Climbs, LockWanted
<1>5. ASSUME NEW h \in LockHeld(t)
      PROVE LockLevel(h.lock) < LockLevel(LockWanted(t).lock)
  <2>1. PICK i \in 1..lockTaken[t] : h = lockChain[t][i]
    BY DEF LockHeld
  <2>2. i \in 1..Len(lockChain[t]) /\ i < lockTaken[t] + 1
    BY <1>1, <1>2 DEF Climbs
  <2> QED BY <1>2, <1>3, <2>1, <2>2 DEF Climbs, LockWanted
<1> QED BY <1>4, <1>5

LEMMA NoCircle == LockTypeOK => NoCircularWait
<1> SUFFICES ASSUME LockTypeOK, NEW D \in SUBSET LockThread, D # {},
                    \A t \in D : lockWaits[t] /\ \E u \in D : BlockedBy(t, u)
             PROVE FALSE
  BY DEF NoCircularWait
<1> DEFINE Level(t) == LockLevel(LockWanted(t).lock)
<1>1. ASSUME NEW t \in D, NEW u \in D, NEW h \in LockHeld(u), h.lock = LockWanted(t).lock
      PROVE Level(t) < Level(u)
  BY <1>1, WantsHigher
<1>2. ASSUME NEW t \in D PROVE \E v \in D : Level(t) < Level(v)
  <2>1. PICK u \in D : BlockedBy(t, u)
    OBVIOUS
  <2>2. CASE \E h \in LockHeld(u) : h.lock = LockWanted(t).lock
    BY <1>1, <2>2
  <2>3. CASE LockWanted(u) = W(LockWanted(t).lock)
    <3>1. PICK v \in D : BlockedBy(u, v)
      OBVIOUS
    <3>2. LockWanted(u).lock = LockWanted(t).lock /\ LockWanted(u).mode # "read"
      BY <2>3 DEF W
    <3>3. PICK h \in LockHeld(v) : h.lock = LockWanted(u).lock
      BY <3>1, <3>2 DEF BlockedBy
    <3> QED BY <1>1, <3>2, <3>3
  <2> QED BY <2>1, <2>2, <2>3 DEF BlockedBy
<1>3. \A t \in D : Level(t) \in 0..5
  BY LevelBound
<1> HIDE DEF Level
<1>4. ASSUME NEW t \in D PROVE Level(t) <= 4
  <2>1. PICK v \in D : Level(t) < Level(v)
    BY <1>2
  <2> QED BY <2>1, <1>3
<1>5. ASSUME NEW t \in D PROVE Level(t) <= 3
  <2>1. PICK v \in D : Level(t) < Level(v)
    BY <1>2
  <2> QED BY <2>1, <1>3, <1>4
<1>6. ASSUME NEW t \in D PROVE Level(t) <= 2
  <2>1. PICK v \in D : Level(t) < Level(v)
    BY <1>2
  <2> QED BY <2>1, <1>3, <1>5
<1>7. ASSUME NEW t \in D PROVE Level(t) <= 1
  <2>1. PICK v \in D : Level(t) < Level(v)
    BY <1>2
  <2> QED BY <2>1, <1>3, <1>6
<1>8. ASSUME NEW t \in D PROVE Level(t) <= 0
  <2>1. PICK v \in D : Level(t) < Level(v)
    BY <1>2
  <2> QED BY <2>1, <1>3, <1>7
<1>9. PICK t \in D : TRUE
  OBVIOUS
<1>10. PICK v \in D : Level(t) < Level(v)
  BY <1>2
<1> QED BY <1>3, <1>8, <1>9, <1>10

\* However many threads make the calls of LockChains, none ever wait for one
\* another in a circle: the locks of push, ack, clean, list_queues and the rest
\* are taken in one order.
THEOREM LocksNeverCircle == LockSpec => []NoCircularWait
<1>1. LockInit => LockTypeOK
  BY DEF LockInit, LockTypeOK
<1>2. LockTypeOK /\ [LockNext]_lockVars => LockTypeOK'
  BY LockTypeStep
<1> QED BY <1>1, <1>2, NoCircle, PTL DEF LockSpec

-----------------------------------------------------------------------------
(* Streams of events *)

Running == In({"open", "stuck"})
AdmittedSockets == In({"admitted"})

SkTypeOK ==
  /\ skLoop \in [SkClient -> {"none", "admitted", "open", "stuck"}]
  /\ skCount \in Int
  /\ skIdle \in [SkClient -> Nat] /\ skQuiet = skIdle
  /\ skDue \subseteq SkClient

\* Those counted and those the handlers let in fit the limit together, unless
\* two handlers passed the check at once.
SkCounted ==
  /\ skCount = Cardinality(Running)
  /\ ~skRaced => skCount + Cardinality(AdmittedSockets) <= MaxSockets

\* Only until its next ping may a loop be a period over the limit.
SkWatched ==
  \A c \in In({"open"}) :
    skIdle[c] <= SkIdleLimit \/ (c \in skDue /\ skIdle[c] <= SkIdleLimit + 1)

SkInv == SkTypeOK /\ SkCounted /\ SkWatched

\* What a step may do with the loops and the count.
LoopMoves(c) ==
  \/ skLoop[c] = "none" /\ Room /\ Loops(c, "admitted", skCount)
  \/ skLoop[c] = "admitted" /\ Loops(c, "none", skCount)
  \/ skLoop[c] = "admitted" /\ Loops(c, "open", skCount + 1)
  \/ skLoop[c] = "open" /\ Loops(c, "stuck", skCount)
  \/ skLoop[c] = "stuck" /\ Loops(c, "open", skCount)
  \/ skLoop[c] \in {"open", "stuck"} /\ Ends(c)

\* Finite sets of clients gain and lose one at a time.
LEMMA ClientsCounted ==
  ASSUME NEW S \in SUBSET SkClient, NEW c \in SkClient
  PROVE  /\ Cardinality(S) \in Nat
         /\ c \notin S => Cardinality(S \cup {c}) = Cardinality(S) + 1
         /\ c \in S => Cardinality(S \ {c}) = Cardinality(S) - 1
<1>1. IsFiniteSet(S)
  BY SocketsAssumption, FS_Subset
<1> QED BY <1>1, FS_CardinalityType, FS_AddElement, FS_RemoveElement

\* What Loops does to those that run, those admitted, and the mark of a race.
LEMMA LoopsFacts ==
  ASSUME SkTypeOK, NEW c \in SkClient, NEW count \in Int,
         NEW place \in {"none", "admitted", "open", "stuck"}, Loops(c, place, count)
  PROVE  /\ skCount' = count
         /\ place \in {"open", "stuck"} => Running' = Running \cup {c}
         /\ place \notin {"open", "stuck"} => Running' = Running \ {c}
         /\ place = "admitted" => AdmittedSockets' = AdmittedSockets \cup {c}
         /\ place # "admitted" => AdmittedSockets' = AdmittedSockets \ {c}
         /\ \/ skRaced'
            \/ count + Cardinality(AdmittedSockets') <= MaxSockets
            \/ ~skRaced /\ (place = "admitted" => AdmittedSockets = {})
<1>1. skLoop' = [skLoop EXCEPT ![c] = place] /\ skCount' = count
  BY DEF Loops
<1>2. skLoop \in [SkClient -> {"none", "admitted", "open", "stuck"}]
  BY DEF SkTypeOK
<1>3. /\ place \in {"open", "stuck"} => Running' = Running \cup {c}
      /\ place \notin {"open", "stuck"} => Running' = Running \ {c}
  BY <1>1, <1>2 DEF Running, In
<1>4. /\ place = "admitted" => AdmittedSockets' = AdmittedSockets \cup {c}
      /\ place # "admitted" => AdmittedSockets' = AdmittedSockets \ {c}
  BY <1>1, <1>2 DEF AdmittedSockets, In
<1>5. AdmittedSockets' = {d \in SkClient : skLoop'[d] = "admitted"}
  BY DEF AdmittedSockets, In
<1>6. Cardinality(AdmittedSockets') \in Nat /\ MaxSockets \in Nat
  BY <1>5, ClientsCounted, SocketsAssumption
<1>7. \/ skRaced'
      \/ ~(count + Cardinality(AdmittedSockets') > MaxSockets)
      \/ ~skRaced /\ ~(place = "admitted" /\ AdmittedSockets # {})
  BY <1>5 DEF Loops, AdmittedSockets
<1>8. ~(count + Cardinality(AdmittedSockets') > MaxSockets) =>
        count + Cardinality(AdmittedSockets') <= MaxSockets
  BY <1>6
<1> QED BY <1>1, <1>3, <1>4, <1>7, <1>8

\* A loop that moves keeps the count right.
LEMMA CountMoves ==
  ASSUME SkInv, NEW c \in SkClient, LoopMoves(c)
  PROVE  SkCounted' /\ skCount' \in Int
<1> DEFINE Looping == Running
           Admitted == AdmittedSockets
<1>1. Looping \in SUBSET SkClient /\ Admitted \in SUBSET SkClient
  BY DEF Running, AdmittedSockets, In
<1>2. /\ skCount = Cardinality(Looping)
      /\ ~skRaced => skCount + Cardinality(Admitted) <= MaxSockets
      /\ skCount \in Int /\ SkTypeOK
  BY DEF SkInv, SkCounted, SkTypeOK
<1>3. c \in Looping <=> skLoop[c] \in {"open", "stuck"}
  BY DEF Running, In
<1>4. c \in Admitted <=> skLoop[c] = "admitted"
  BY DEF AdmittedSockets, In
<1>5. /\ Cardinality(Looping) \in Nat /\ Cardinality(Admitted) \in Nat /\ MaxSockets \in Nat
      /\ c \notin Looping => Cardinality(Looping \cup {c}) = Cardinality(Looping) + 1
      /\ c \in Looping => Cardinality(Looping \ {c}) = Cardinality(Looping) - 1
      /\ c \notin Admitted => Cardinality(Admitted \cup {c}) = Cardinality(Admitted) + 1
      /\ c \in Admitted => Cardinality(Admitted \ {c}) = Cardinality(Admitted) - 1
  BY <1>1, ClientsCounted, SocketsAssumption
<1>6. c \in Looping => Looping \cup {c} = Looping
  OBVIOUS
<1>7. /\ c \notin Looping => Cardinality(Looping \ {c}) = Cardinality(Looping)
      /\ c \notin Admitted => Cardinality(Admitted \ {c}) = Cardinality(Admitted)
  <2>1. /\ c \notin Looping => Looping \ {c} = Looping
        /\ c \notin Admitted => Admitted \ {c} = Admitted
    OBVIOUS
  <2> QED BY <2>1
<1> HIDE DEF Looping, Admitted
<1>8. CASE skLoop[c] = "none" /\ Room /\ Loops(c, "admitted", skCount)
  <2>1. Running' = Looping \ {c} /\ AdmittedSockets' = Admitted \cup {c} /\ skCount' = skCount
    BY <1>2, <1>8, LoopsFacts DEF Looping, Admitted
  <2>2. \/ skRaced' \/ skCount + Cardinality(AdmittedSockets') <= MaxSockets \/ Admitted = {}
    BY <1>2, <1>8, LoopsFacts DEF Admitted
  <2>3. c \notin Looping /\ c \notin Admitted /\ skCount < MaxSockets
    BY <1>3, <1>4, <1>8 DEF Room
  <2>4. Admitted = {} => Cardinality(Admitted) = 0
    BY FS_EmptySet
  <2>5. skCount' = Cardinality(Running')
    BY <1>2, <1>7, <2>1, <2>3
  <2>6. skRaced' \/ skCount' + Cardinality(AdmittedSockets') <= MaxSockets
    BY <1>2, <1>5, <2>1, <2>2, <2>3, <2>4
  <2> QED BY <1>2, <2>1, <2>5, <2>6 DEF SkCounted
<1>9. ASSUME NEW place \in {"none", "open", "stuck"}, NEW count \in Int, Loops(c, place, count),
             Cardinality(Running') = count,
             c \in Admitted \/ c \in Looping,
             count <= skCount + (IF c \in Admitted /\ place # "none" THEN 1 ELSE 0)
      PROVE  SkCounted' /\ skCount' \in Int
  <2>1. AdmittedSockets' = Admitted \ {c} /\ skCount' = count
    BY <1>2, <1>9, LoopsFacts DEF Admitted
  <2>2. skRaced' \/ ~skRaced \/ skCount' + Cardinality(AdmittedSockets') <= MaxSockets
    BY <1>2, <1>9, <2>1, LoopsFacts
  <2>3. count + Cardinality(Admitted \ {c}) <= skCount + Cardinality(Admitted)
    <3>1. CASE c \in Admitted
      BY <1>2, <1>5, <1>9, <3>1
    <3>2. CASE c \notin Admitted
      BY <1>2, <1>5, <1>7, <1>9, <3>2
    <3> QED BY <3>1, <3>2
  <2>4. Cardinality(Admitted \ {c}) \in Nat
    <3>1. Admitted \ {c} \in SUBSET SkClient
      BY <1>1
    <3> QED BY <3>1, ClientsCounted
  <2>5. ~skRaced => skCount' + Cardinality(AdmittedSockets') <= MaxSockets
    BY <1>2, <1>5, <1>9, <2>1, <2>3, <2>4
  <2> QED BY <1>9, <2>1, <2>2, <2>5 DEF SkCounted
<1>10. CASE skLoop[c] = "admitted" /\ Loops(c, "none", skCount)
  <2>1. Running' = Looping \ {c}
    BY <1>2, <1>10, LoopsFacts DEF Looping
  <2> QED BY <1>2, <1>3, <1>4, <1>7, <1>9, <1>10, <2>1
<1>11. CASE skLoop[c] = "admitted" /\ Loops(c, "open", skCount + 1)
  <2>1. Running' = Looping \cup {c}
    BY <1>2, <1>11, LoopsFacts DEF Looping
  <2>2. c \in Admitted /\ c \notin Looping
    BY <1>3, <1>4, <1>11
  <2>3. Cardinality(Running') = skCount + 1
    BY <1>2, <1>5, <2>1, <2>2
  <2>4. skCount + 1 \in Int
    BY <1>2
  <2>5. "open" \in {"none", "open", "stuck"} /\ "open" # "none"
    OBVIOUS
  <2> QED BY <1>9, <1>11, <2>2, <2>3, <2>4, <2>5
<1>12. ASSUME skLoop[c] \in {"open", "stuck"}, NEW place \in {"open", "stuck"},
              Loops(c, place, skCount)
       PROVE  SkCounted' /\ skCount' \in Int
  <2>1. Running' = Looping \cup {c}
    BY <1>2, <1>12, LoopsFacts DEF Looping
  <2>2. c \in Looping
    BY <1>3, <1>12
  <2>3. Cardinality(Running') = skCount
    BY <1>2, <1>6, <2>1, <2>2
  <2> QED BY <1>2, <1>9, <1>12, <2>2, <2>3
<1>13. CASE skLoop[c] \in {"open", "stuck"} /\ Ends(c)
  <2>1. Loops(c, "none", skCount - 1) /\ c \in Looping /\ skCount - 1 \in Int
    BY <1>2, <1>3, <1>13 DEF Ends
  <2>2. Running' = Looping \ {c}
    BY <1>2, <2>1, LoopsFacts DEF Looping
  <2>3. Cardinality(Running') = skCount - 1
    BY <1>2, <1>5, <2>1, <2>2
  <2>4. c \notin Admitted
    BY <1>4, <1>13
  <2>5. skCount - 1 <= skCount + (IF c \in Admitted /\ "none" # "none" THEN 1 ELSE 0)
    BY <1>2, <2>4
  <2> QED BY <1>9, <2>1, <2>3, <2>5
<1> QED BY <1>8, <1>10, <1>11, <1>12, <1>13 DEF LoopMoves

\* Every step leaves the loops alone or moves one of them.
LEMMA LoopsMoveOneByOne ==
  ASSUME SkNext
  PROVE  UNCHANGED skConns \/ \E c \in SkClient : LoopMoves(c)
<1> USE DEF LoopMoves, TurnEnds
<1>1. CASE BroadcastEvent \/ SkPeriod
  BY <1>1 DEF BroadcastEvent, SkPeriod
<1>2. ASSUME NEW c \in SkClient, Admit(c) \/ UpgradeFails(c) \/ OpenSocket(c)
      PROVE LoopMoves(c)
  BY <1>2 DEF Admit, UpgradeFails, OpenSocket
<1>3. ASSUME NEW c \in SkClient, skLoop[c] = "open", NEW activity, Sends(c, activity)
      PROVE UNCHANGED skConns \/ LoopMoves(c)
  BY <1>3 DEF Sends
<1>4. ASSUME NEW c \in SkClient, Ping(c) \/ TellEvent(c) \/ UpdateDashboard(c)
      PROVE UNCHANGED skConns \/ LoopMoves(c)
  BY <1>4, <1>3 DEF Ping, TellEvent, UpdateDashboard
<1>5. ASSUME NEW c \in SkClient, Hear(c) \/ SendEnds(c) \/ PeerChanges(c)
      PROVE UNCHANGED skConns \/ LoopMoves(c)
  BY <1>5 DEF Hear, SendEnds, PeerChanges
<1> QED BY <1>1, <1>2, <1>4, <1>5 DEF SkNext


\* Types are kept, and a loop measures what the peer has seen of it.
LEMMA SkTypeStep == SkInv /\ [SkNext]_skVars => SkTypeOK'
<1> SUFFICES ASSUME SkInv, [SkNext]_skVars PROVE SkTypeOK'
  OBVIOUS
<1>1. skCount' \in Int
  BY LoopsMoveOneByOne, CountMoves DEF skVars, skConns, SkInv, SkTypeOK
<1>2. skLoop' \in [SkClient -> {"none", "admitted", "open", "stuck"}]
  <2>1. skLoop \in [SkClient -> {"none", "admitted", "open", "stuck"}]
    BY DEF SkInv, SkTypeOK
  <2>2. ASSUME NEW c \in SkClient, LoopMoves(c)
        PROVE skLoop' \in [SkClient -> {"none", "admitted", "open", "stuck"}]
    BY <2>1, <2>2 DEF LoopMoves, Loops, Ends
  <2> QED BY <2>1, <2>2, LoopsMoveOneByOne DEF skVars, skConns
<1>3. (skIdle \in [SkClient -> Nat] /\ skQuiet = skIdle)' /\ skDue' \subseteq SkClient
  <2> USE DEF SkInv, SkTypeOK
  <2>1. CASE UNCHANGED skVars
    BY <2>1 DEF skVars, skStream
  <2>2. CASE BroadcastEvent
    BY <2>2 DEF BroadcastEvent
  <2>3. CASE SkPeriod
    <3>1. Saturated(skIdle) \in [SkClient -> Nat]
      BY SocketsAssumption DEF Saturated
    <3> QED BY <2>3, <3>1 DEF SkPeriod, In
  <2>4. ASSUME NEW c \in SkClient, Admit(c) \/ UpgradeFails(c) \/ OpenSocket(c)
        PROVE (skIdle \in [SkClient -> Nat] /\ skQuiet = skIdle)' /\ skDue' \subseteq SkClient
    <3>1. CASE UNCHANGED skStream
      BY <3>1 DEF skStream
    <3>2. CASE OpenSocket(c)
      BY <3>2 DEF OpenSocket
    <3> QED BY <2>4, <3>1, <3>2 DEF Admit, UpgradeFails
  <2>5. ASSUME NEW c \in SkClient, Ping(c) \/ TellEvent(c) \/ UpdateDashboard(c)
        PROVE (skIdle \in [SkClient -> Nat] /\ skQuiet = skIdle)' /\ skDue' \subseteq SkClient
    <3>1. UNCHANGED <<skIdle, skQuiet>> \/ Active(c)
      BY <2>5 DEF Ping, TellEvent, UpdateDashboard, Sends, PingIdle
    <3>2. skDue' \subseteq skDue
      BY <2>5 DEF Ping, TellEvent, UpdateDashboard
    <3> QED BY <3>1, <3>2 DEF Active
  <2>6. ASSUME NEW c \in SkClient, Hear(c) \/ SendEnds(c) \/ PeerChanges(c)
        PROVE (skIdle \in [SkClient -> Nat] /\ skQuiet = skIdle)' /\ skDue' \subseteq SkClient
    BY <2>6 DEF Hear, SendEnds, PeerChanges, Active
  <2> QED BY <2>1, <2>2, <2>3, <2>4, <2>5, <2>6 DEF SkNext
<1> QED BY <1>1, <1>2, <1>3 DEF SkTypeOK

\* A loop that is not stuck lets a silent peer go in time.
LEMMA SkWatchedStep == SkInv /\ [SkNext]_skVars => SkWatched'
<1> SUFFICES ASSUME SkInv, [SkNext]_skVars PROVE SkWatched'
  OBVIOUS
<1>1. /\ skLoop \in [SkClient -> {"none", "admitted", "open", "stuck"}]
      /\ skIdle \in [SkClient -> Nat] /\ SkIdleLimit \in Nat /\ skDue \subseteq SkClient
      /\ SkWatched
  BY SocketsAssumption DEF SkInv, SkTypeOK
<1>2. skIdle' \in [SkClient -> Nat]
  BY SkTypeStep DEF SkTypeOK
<1> USE DEF SkWatched, In
<1>3. CASE UNCHANGED skVars
  BY <1>1, <1>3 DEF skVars, skStream, skConns
<1>4. CASE BroadcastEvent
  BY <1>1, <1>4 DEF BroadcastEvent, skConns
<1>5. CASE SkPeriod
  <2>1. \A c \in SkClient : skLoop[c] = "open" => skIdle[c] <= SkIdleLimit
    BY <1>1, <1>5 DEF SkPeriod
  <2>2. \A c \in SkClient : skLoop[c] = "open" => skIdle'[c] <= SkIdleLimit + 1 /\ c \in skDue'
    BY <1>1, <1>5, <2>1 DEF SkPeriod, Saturated
  <2>3. skLoop' = skLoop
    BY <1>5 DEF SkPeriod, skConns
  <2> QED BY <2>2, <2>3
<1>6. ASSUME NEW c \in SkClient, Admit(c) \/ UpgradeFails(c) PROVE SkWatched'
  BY <1>1, <1>6 DEF Admit, UpgradeFails, Loops, skStream
<1>7. ASSUME NEW c \in SkClient, OpenSocket(c) PROVE SkWatched'
  <2>1. /\ skLoop' = [skLoop EXCEPT ![c] = "open"] /\ skIdle' = [skIdle EXCEPT ![c] = 0]
        /\ skDue' = skDue \cup {c}
    BY <1>7 DEF OpenSocket, Loops
  <2> QED BY <1>1, <2>1
<1>8. ASSUME NEW c \in SkClient, skLoop[c] = "open", TurnEnds(c), skDue' \in {skDue, skDue \ {c}},
             \A d \in SkClient \ {c} : skIdle'[d] = skIdle[d]
      PROVE SkWatched'
  <2>1. CASE skIdle'[c] > SkIdleLimit
    <3>1. skLoop' = [skLoop EXCEPT ![c] = "none"]
      BY <1>8, <2>1 DEF TurnEnds, Ends, Loops
    <3> QED BY <1>1, <1>8, <3>1
  <2>2. CASE ~(skIdle'[c] > SkIdleLimit)
    <3>1. skLoop' = skLoop /\ skIdle'[c] <= SkIdleLimit
      BY <1>1, <1>2, <1>8, <2>2 DEF TurnEnds, skConns
    <3> QED BY <1>1, <1>8, <3>1
  <2> QED BY <2>1, <2>2
<1>9. ASSUME NEW c \in SkClient, skLoop'[c] # "open", skDue' \in {skDue, skDue \ {c}},
             \A d \in SkClient \ {c} : skLoop'[d] = skLoop[d] /\ skIdle'[d] = skIdle[d]
      PROVE SkWatched'
  BY <1>1, <1>9
<1>10. ASSUME NEW c \in SkClient, skLoop[c] = "open", NEW activity, Sends(c, activity),
              activity => \A d \in SkClient \ {c} : skIdle'[d] = skIdle[d],
              skDue' \in {skDue, skDue \ {c}}
       PROVE SkWatched'
  <2>1. CASE UNCHANGED skIdle /\ (Ends(c) \/ Loops(c, "stuck", skCount))
    <3>1. skLoop'[c] # "open" /\ \A d \in SkClient \ {c} : skLoop'[d] = skLoop[d]
      BY <1>1, <2>1 DEF Ends, Loops
    <3> QED BY <1>9, <1>10, <2>1, <3>1
  <2>2. CASE activity /\ TurnEnds(c)
    BY <1>8, <1>10, <2>2
  <2> QED BY <1>10, <2>1, <2>2 DEF Sends
<1>11. ASSUME NEW c \in SkClient, Ping(c) PROVE SkWatched'
  <2>1. PingIdle => \A d \in SkClient \ {c} : skIdle'[d] = skIdle[d]
    BY DEF PingIdle
  <2> QED BY <1>10, <1>11, <2>1 DEF Ping
<1>12. ASSUME NEW c \in SkClient, Active(c)
       PROVE skIdle'[c] = 0 /\ \A d \in SkClient \ {c} : skIdle'[d] = skIdle[d]
  BY <1>1, <1>12 DEF Active
<1>13. ASSUME NEW c \in SkClient, TellEvent(c) PROVE SkWatched'
  <2>1. CASE Sends(c, Active(c))
    BY <1>10, <1>12, <1>13, <2>1 DEF TellEvent
  <2>2. CASE UNCHANGED skIdle /\ TurnEnds(c)
    BY <1>8, <1>13, <2>2 DEF TellEvent
  <2> QED BY <1>13, <2>1, <2>2 DEF TellEvent
<1>14. ASSUME NEW c \in SkClient, UpdateDashboard(c) PROVE SkWatched'
  BY <1>10, <1>12, <1>14 DEF UpdateDashboard
<1>15. ASSUME NEW c \in SkClient, Hear(c) \/ SendEnds(c) PROVE SkWatched'
  <2>1. CASE UNCHANGED skIdle /\ Ends(c)
    <3>1. skLoop'[c] # "open" /\ \A d \in SkClient \ {c} : skLoop'[d] = skLoop[d]
      BY <1>1, <2>1 DEF Ends, Loops
    <3> QED BY <1>9, <1>15, <2>1, <3>1 DEF Hear, SendEnds
  <2>2. CASE Active(c) /\ (UNCHANGED skConns \/ Loops(c, "open", skCount))
    <3>1. \A d \in SkClient \ {c} : skLoop'[d] = skLoop[d]
      BY <1>1, <2>2 DEF Loops, skConns
    <3>2. skDue' = skDue
      BY <1>15 DEF Hear, SendEnds
    <3> QED BY <1>1, <1>12, <2>2, <3>1, <3>2
  <2> QED BY <1>15, <2>1, <2>2 DEF Hear, SendEnds
<1>16. ASSUME NEW c \in SkClient, PeerChanges(c) PROVE SkWatched'
  BY <1>1, <1>16 DEF PeerChanges, skConns
<1> QED BY <1>3, <1>4, <1>5, <1>6, <1>7, <1>11, <1>13, <1>14, <1>15, <1>16 DEF SkNext

\* The counter of connections is the number of loops that run -- whichever way
\* they end --, it respects the limit whenever no two handlers passed the check
\* together, and a loop that is not blocked in a send lets a peer go that has
\* been silent for the timeout and a ping.
THEOREM SocketsAreAccounted == SkSpec => []SocketsAccounted
<1>1. SkInit => SkInv
  <2> SUFFICES ASSUME SkInit PROVE SkInv
    OBVIOUS
  <2>1. Running = {} /\ AdmittedSockets = {} /\ In({"open"}) = {}
    BY DEF SkInit, Running, AdmittedSockets, In
  <2>2. Cardinality({}) = 0
    BY FS_EmptySet
  <2>3. SkTypeOK
    BY DEF SkInit, SkTypeOK
  <2>4. SkCounted
    BY <2>1, <2>2, SocketsAssumption DEF SkInit, SkCounted
  <2> QED BY <2>1, <2>3, <2>4 DEF SkInv, SkWatched
<1>2. SkInv /\ [SkNext]_skVars => SkInv'
  <2> SUFFICES ASSUME SkInv, [SkNext]_skVars PROVE SkInv'
    OBVIOUS
  <2>1. ASSUME UNCHANGED skConns PROVE SkCounted'
    BY <2>1 DEF skConns, SkInv, SkCounted, Running, AdmittedSockets, In
  <2>2. UNCHANGED skVars => UNCHANGED skConns
    BY DEF skVars
  <2>3. SkCounted'
    BY <2>1, <2>2, LoopsMoveOneByOne, CountMoves
  <2> QED BY <2>3, SkTypeStep, SkWatchedStep DEF SkInv
<1>3. SkInv => SocketsAccounted
  <2> SUFFICES ASSUME SkInv PROVE SocketsAccounted
    OBVIOUS
  <2>1. Cardinality(AdmittedSockets) \in Nat
    BY SocketsAssumption, FS_Subset, FS_CardinalityType DEF AdmittedSockets, In
  <2>2. skCount \in Int /\ MaxSockets \in Nat
    BY SocketsAssumption DEF SkInv, SkTypeOK
  <2>3. SocketsCounted
    BY <2>1, <2>2 DEF SkInv, SkCounted, SocketsCounted, Running
  <2>4. SilentAreLetGo
    BY SocketsAssumption DEF SkInv, SkTypeOK, SkWatched, SilentAreLetGo, In
  <2> QED BY <2>3, <2>4 DEF SocketsAccounted
<1> QED BY <1>1, <1>2, <1>3, PTL DEF SkSpec

-----------------------------------------------------------------------------
(***************************************************************************)
(* The counters, for every number of jobs and every width that has room    *)
(* for them.  A counter and what is owed to it are, modulo the width, what *)
(* the containers hold; and the total and the last point of the history    *)
(* are apart, modulo the width, by the completions counted between them.   *)
(***************************************************************************)

\* Of numbers there is a least.
LEMMA LeastNumber ==
  ASSUME NEW T, T \subseteq Nat, T # {}
  PROVE  \E x \in T : \A y \in T : x <= y
<1> DEFINE Less == OpToRel(<, Nat)
<1>1. IsWellFoundedOn(Less, Nat)
  BY NatLessThanWellFounded
<1> HIDE DEF Less
<1>2. PICK x \in T : \A y \in T : ~(<<y, x>> \in Less)
  BY <1>1, WFMin
<1>3. \A y \in T : ~(y < x)
  BY <1>2 DEF Less, OpToRel
<1> QED BY <1>3

CountKinds == {"push", "pull", "complete", "retry", "dlq", "drop"}
CountRecord == {c \in [what : CountKinds, n : 1..MxJobs] :
                  c.what \in {"push", "complete"} \/ c.n = 1}
CounterValue == 0..(MxWidth - 1)
ResetSteps == {"idle", "all", "shards_cleared", "jobs_cleared", "history_cleared",
               "metrics", "totals_zeroed"}

MxTypeOK ==
  /\ mxHeld \in [Place -> Nat]
  /\ DOMAIN mxOwed \subseteq CountRecord /\ mxOwed \in [DOMAIN mxOwed -> Nat \ {0}]
  /\ mxQueued \in CounterValue /\ mxProcessing \in CounterValue /\ mxDlq \in CounterValue
  /\ mxCompleted \in CounterValue /\ mxSince \in Nat /\ mxCould \in Nat
  /\ mxHistory \in Seq(CounterValue) /\ mxLoaded \in CounterValue \cup {-1}
  /\ mxReset \in ResetSteps

\* No job is made or split.
JobsAreFew ==
  mxHeld["new"] + mxHeld["waiting"] + mxHeld["queue"] + mxHeld["processing"] + mxHeld["dlq"]
  + mxHeld["hand-queue"] + mxHeld["hand-dlq"] + mxHeld["gone"] <= MxJobs

\* Equal modulo the width of a counter.
Same(a, b) == \E q \in Int : a = b + q * MxWidth

\* What the counts in the bag come to, kind by kind: a sum over their sizes.
Copies(B, k, n) == LET c == [what |-> k, n |-> n] IN IF c \in DOMAIN B THEN B[c] ELSE 0
SumsOf(B, k, f) ==
  f[0] = 0 /\ \A n \in 1..MxJobs : f[n] = f[n - 1] + n * Copies(B, k, n)
ComesTo(B, k, x) == \E f \in [0..MxJobs -> Int] : SumsOf(B, k, f) /\ f[MxJobs] = x
Totals(B, t) == t \in [CountKinds -> Int] /\ \A k \in CountKinds : ComesTo(B, k, t[k])

QueueSum(t) ==
  mxHeld["queue"] + mxHeld["hand-queue"] - t["push"] - t["retry"] + t["pull"]
ProcessingSum(t) ==
  mxHeld["processing"] - t["pull"] + t["complete"] + t["retry"] + t["dlq"] + t["drop"]
DlqSum(t) == mxHeld["dlq"] + mxHeld["hand-dlq"] - t["dlq"]
GaugesAre(t) ==
  Same(mxQueued, QueueSum(t)) /\ Same(mxProcessing, ProcessingSum(t)) /\ Same(mxDlq, DlqSum(t))
GaugesFollow == ~mxForgot => \E t : Totals(mxOwed, t) /\ GaugesAre(t)

\* The last point, what the collection at work read, and the total.
LastPoint == mxHistory[Len(mxHistory)]
PointsFollow ==
  /\ mxReset # "totals_zeroed" /\ mxLoaded = -1 /\ Len(mxHistory) >= 2 =>
       Same(mxCompleted, LastPoint + mxSince)
  /\ mxLoaded # -1 /\ Len(mxHistory) >= 2 /\ ~mxRaced => Same(mxLoaded, LastPoint + mxCould)
  /\ mxReset # "totals_zeroed" /\ mxLoaded # -1 /\ Len(mxHistory) >= 1 =>
       Same(mxCompleted, mxLoaded + mxSince)
\* A collection meets a reset at most once.
CollectionsMeetOnce ==
  /\ mxLoaded # -1 /\ mxReset # "idle" => mxTick
  /\ mxReset = "history_cleared" =>
       Len(mxHistory) = 0 \/ (Len(mxHistory) = 1 /\ mxLoaded = -1 /\ mxTick)

MxInv ==
  /\ MxTypeOK /\ JobsAreFew /\ GaugesFollow
  /\ PointsFollow /\ CollectionsMeetOnce /\ mxExcess = 0

-----------------------------------------------------------------------------
(* Counters that wrap *)

\* Multiples of the width.
LEMMA Multiples ==
  ASSUME NEW p \in Int, NEW q \in Int
  PROVE  /\ MxWidth \in Nat \ {0} /\ q * MxWidth \in Int
         /\ (p + q) * MxWidth = p * MxWidth + q * MxWidth
         /\ q >= 1 => q * MxWidth >= MxWidth
         /\ q <= 0 => q * MxWidth <= 0
         /\ q <= -1 => q * MxWidth <= -MxWidth
<1>1. MxWidth \in Nat \ {0}
  BY MetricsAssumption
<1>2. q * MxWidth \in Int
  BY <1>1
<1>3. (p + q) * MxWidth = p * MxWidth + q * MxWidth
  BY <1>1
<1>4. q >= 1 => q * MxWidth >= MxWidth
  BY <1>1
<1>5. q <= 0 => q * MxWidth <= 0
  BY <1>1
<1>6. q <= -1 => q * MxWidth <= -MxWidth
  BY <1>1
<1> QED BY <1>1, <1>2, <1>3, <1>4, <1>5, <1>6

\* A number that is wrapped is a value of a counter, and the same.
LEMMA WrapIsSame ==
  ASSUME NEW x \in Int
  PROVE  Wrap(x) \in CounterValue /\ Same(Wrap(x), x)
<1>1. MxWidth \in Nat \ {0}
  BY MetricsAssumption
<1>2. x % MxWidth \in 0..(MxWidth - 1)
  BY <1>1
<1>3. PICK d \in Int : x = MxWidth * d + (x % MxWidth)
  <2>1. x = MxWidth * (x \div MxWidth) + (x % MxWidth) /\ (x \div MxWidth) \in Int
    BY <1>1
  <2> QED BY <2>1
<1>4. MxWidth * d = d * MxWidth /\ (-d) * MxWidth = -(d * MxWidth) /\ d * MxWidth \in Int
  BY <1>1
<1>5. x % MxWidth = x + (-d) * MxWidth
  BY <1>2, <1>3, <1>4
<1> QED BY <1>2, <1>5 DEF Wrap, CounterValue, Same

\* A counter moves with what it counts.
LEMMA SameMoves ==
  ASSUME NEW a \in Int, NEW b \in Int, NEW d \in Int, Same(a, b)
  PROVE  Same(Wrap(a + d), b + d) /\ Same(a + d, b + d)
<1>1. PICK p \in Int : a = b + p * MxWidth
  BY DEF Same
<1>2. PICK q \in Int : Wrap(a + d) = (a + d) + q * MxWidth
  BY WrapIsSame DEF Same
<1>3. /\ p * MxWidth \in Int /\ q * MxWidth \in Int /\ p + q \in Int
      /\ (p + q) * MxWidth = p * MxWidth + q * MxWidth
  <2>1. p + q \in Int
    OBVIOUS
  <2>2. p * MxWidth \in Int /\ q * MxWidth \in Int
    BY Multiples
  <2>3. (p + q) * MxWidth = p * MxWidth + q * MxWidth
    BY Multiples
  <2> QED BY <2>1, <2>2, <2>3
<1>4. Wrap(a + d) = (b + d) + (p + q) * MxWidth
  BY <1>1, <1>2, <1>3
<1>5. a + d = (b + d) + p * MxWidth
  BY <1>1, <1>3
<1> QED BY <1>3, <1>4, <1>5 DEF Same

\* Values of a counter that are the same are equal, and one that is the same
\* as a number is no larger.
LEMMA SameIsLeast ==
  ASSUME NEW a \in CounterValue, NEW b \in Nat, Same(a, b)
  PROVE  a <= b /\ (b < MxWidth => a = b)
<1>1. PICK q \in Int : a = b + q * MxWidth
  BY DEF Same
<1>2. a \in Nat /\ a < MxWidth /\ MxWidth \in Nat
  BY MetricsAssumption DEF CounterValue
<1>3. q * MxWidth \in Int /\ (q >= 1 => q * MxWidth >= MxWidth)
      /\ (q <= 0 => q * MxWidth <= 0) /\ (q <= -1 => q * MxWidth <= -MxWidth)
  BY Multiples
<1>4. q <= 0
  BY <1>1, <1>2, <1>3
<1>5. b < MxWidth => q = 0
  BY <1>1, <1>2, <1>3, <1>4
<1> QED BY <1>1, <1>2, <1>3, <1>4, <1>5

-----------------------------------------------------------------------------
(* Counts that are owed *)

\* Nothing owed comes to nothing.
LEMMA NothingOwed ==
  /\ Totals(EmptyBag, [k \in CountKinds |-> 0])
  /\ \A t : Totals(EmptyBag, t) => \A k \in CountKinds : t[k] = 0
<1>0. MxJobs \in Nat
  BY MetricsAssumption
<1>1. \A k, n : Copies(EmptyBag, k, n) = 0
  BY DEF Copies, EmptyBag, SetToBag
<1>2. ASSUME NEW k \in CountKinds PROVE ComesTo(EmptyBag, k, 0)
  <2> DEFINE f == [n \in 0..MxJobs |-> 0]
  <2>1. f \in [0..MxJobs -> Int] /\ f[MxJobs] = 0
    BY <1>0
  <2>2. SumsOf(EmptyBag, k, f)
    <3>1. f[0] = 0
      BY <1>0
    <3>2. ASSUME NEW n \in 1..MxJobs PROVE f[n] = f[n - 1] + n * Copies(EmptyBag, k, n)
      <4>1. n \in 0..MxJobs /\ n - 1 \in 0..MxJobs /\ n * 0 = 0
        BY <1>0
      <4> QED BY <1>1, <4>1
    <3> HIDE DEF f
    <3> QED BY <3>1, <3>2 DEF SumsOf
  <2> HIDE DEF f
  <2> QED BY <2>1, <2>2 DEF ComesTo
<1>3. ASSUME NEW t, Totals(EmptyBag, t), NEW k \in CountKinds PROVE t[k] = 0
  <2>1. PICK f \in [0..MxJobs -> Int] : SumsOf(EmptyBag, k, f) /\ f[MxJobs] = t[k]
    BY <1>3 DEF Totals, ComesTo
  <2> DEFINE T == {n \in 0..MxJobs : f[n] # 0}
  <2>2. T = {}
    <3> SUFFICES ASSUME T # {} PROVE FALSE
      OBVIOUS
    <3>1. T \subseteq Nat
      BY <1>0
    <3> HIDE DEF T
    <3>2. PICK n \in T : \A m \in T : n <= m
      BY <3>1, LeastNumber
    <3>3. n \in 0..MxJobs /\ f[n] # 0
      BY DEF T
    <3>4. n # 0 /\ n \in 1..MxJobs /\ n - 1 \in 0..MxJobs
      BY <1>0, <2>1, <3>3 DEF SumsOf
    <3>5. f[n - 1] = 0
      BY <1>0, <3>2, <3>4 DEF T
    <3>6. f[n] = f[n - 1] + n * Copies(EmptyBag, k, n)
      BY <2>1, <3>4 DEF SumsOf
    <3>7. n * 0 = 0
      BY <3>4
    <3> QED BY <1>1, <3>3, <3>5, <3>6, <3>7
  <2> QED BY <1>0, <2>1, <2>2
<1> QED BY <1>2, <1>3 DEF Totals

\* One count more or less.
OneCount(B, C, k, n, d) ==
  /\ Copies(C, k, n) = Copies(B, k, n) + d
  /\ \A j \in CountKinds, m \in 1..MxJobs :
       <<j, m>> # <<k, n>> => Copies(C, j, m) = Copies(B, j, m)

\* It adds its size to the total of its kind.
LEMMA OneCountMoves ==
  ASSUME NEW B, NEW C, NEW k \in CountKinds, NEW n \in 1..MxJobs, NEW d \in {1, -1},
         \A j \in CountKinds, m \in 1..MxJobs : Copies(B, j, m) \in Int,
         OneCount(B, C, k, n, d), NEW t, Totals(B, t)
  PROVE  Totals(C, [t EXCEPT ![k] = @ + n * d])
<1>0. MxJobs \in Nat /\ n \in Nat /\ n >= 1 /\ n <= MxJobs /\ n * d \in Int
  BY MetricsAssumption
<1>1. t \in [CountKinds -> Int]
  BY DEF Totals
<1> DEFINE u == [t EXCEPT ![k] = @ + n * d]
<1>2. u \in [CountKinds -> Int] /\ u[k] = t[k] + n * d
      /\ \A j \in CountKinds : j # k => u[j] = t[j]
  BY <1>0, <1>1
<1>3. ASSUME NEW j \in CountKinds, j # k PROVE ComesTo(C, j, u[j])
  <2>1. PICK f \in [0..MxJobs -> Int] : SumsOf(B, j, f) /\ f[MxJobs] = t[j]
    BY DEF Totals, ComesTo
  <2>2. \A m \in 1..MxJobs : Copies(C, j, m) = Copies(B, j, m)
    BY <1>3 DEF OneCount
  <2>3. SumsOf(C, j, f)
    BY <2>1, <2>2 DEF SumsOf
  <2> QED BY <1>2, <1>3, <2>1, <2>3 DEF ComesTo
<1>4. ComesTo(C, k, u[k])
  <2>1. PICK f \in [0..MxJobs -> Int] : SumsOf(B, k, f) /\ f[MxJobs] = t[k]
    BY DEF Totals, ComesTo
  <2> DEFINE g == [m \in 0..MxJobs |-> IF m < n THEN f[m] ELSE f[m] + n * d]
  <2>2. g \in [0..MxJobs -> Int] /\ g[MxJobs] = t[k] + n * d
    BY <1>0, <2>1
  <2>3. g[0] = 0
    BY <1>0, <2>1 DEF SumsOf
  <2>4. ASSUME NEW m \in 1..MxJobs PROVE g[m] = g[m - 1] + m * Copies(C, k, m)
    <3>1. m \in 0..MxJobs /\ m - 1 \in 0..MxJobs
      BY <1>0
    <3>2. f[m] = f[m - 1] + m * Copies(B, k, m) /\ f[m] \in Int /\ f[m - 1] \in Int
      BY <2>1, <3>1 DEF SumsOf
    <3>3. CASE m = n
      <4>1. Copies(C, k, m) = Copies(B, k, m) + d /\ Copies(B, k, m) \in Int
        BY <3>3 DEF OneCount
      <4>2. m * (Copies(B, k, m) + d) = m * Copies(B, k, m) + m * d
            /\ m * Copies(B, k, m) \in Int
        <5>1. PICK c \in Int : c = Copies(B, k, m)
          BY <4>1
        <5>2. m * (c + d) = m * c + m * d /\ m * c \in Int
          OBVIOUS
        <5> QED BY <5>1, <5>2
      <4>3. g[m] = f[m] + n * d /\ g[m - 1] = f[m - 1]
        BY <1>0, <3>1, <3>3
      <4> HIDE DEF g
      <4> QED BY <1>0, <3>2, <3>3, <4>1, <4>2, <4>3
    <3>4. CASE m # n
      <4>1. Copies(C, k, m) = Copies(B, k, m) /\ Copies(B, k, m) \in Int
        BY <3>4 DEF OneCount
      <4>2. m * Copies(B, k, m) \in Int
        BY <1>0, <4>1
      <4>5. f[m] = f[m - 1] + m * Copies(C, k, m)
        BY <3>2, <4>1
      <4>6. PICK x \in Int : x = m * Copies(C, k, m)
        BY <4>1, <4>2
      <4>7. PICK y \in Int : y = n * d
        BY <1>0
      <4>3. (m < n) <=> (m - 1 < n)
        BY <1>0, <3>4
      <4>4. \/ g[m] = f[m] /\ g[m - 1] = f[m - 1]
            \/ g[m] = f[m] + n * d /\ g[m - 1] = f[m - 1] + n * d
        BY <3>1, <4>3
      <4> HIDE DEF g
      <4>8. \/ g[m] = f[m] /\ g[m - 1] = f[m - 1]
            \/ g[m] = f[m] + y /\ g[m - 1] = f[m - 1] + y
        BY <4>4, <4>7
      <4>9. f[m] = f[m - 1] + x
        BY <4>5, <4>6
      <4>10. g[m] = g[m - 1] + x
        <5>1. CASE g[m] = f[m] /\ g[m - 1] = f[m - 1]
          BY <4>9, <5>1
        <5>2. CASE g[m] = f[m] + y /\ g[m - 1] = f[m - 1] + y
          <6>1. (f[m - 1] + x) + y = (f[m - 1] + y) + x
            BY <3>2
          <6> QED BY <4>9, <5>2, <6>1
        <5> QED BY <4>8, <5>1, <5>2
      <4> QED BY <4>6, <4>10
    <3> QED BY <3>3, <3>4
  <2> HIDE DEF g
  <2>5. SumsOf(C, k, g)
    BY <2>3, <2>4 DEF SumsOf
  <2> QED BY <1>2, <2>2, <2>5 DEF ComesTo
<1> HIDE DEF u
<1>5. Totals(C, u)
  BY <1>2, <1>3, <1>4 DEF Totals
<1> QED BY <1>5 DEF u

-----------------------------------------------------------------------------
(* Types *)

\* Copies are numbers.
LEMMA CopiesAreNumbers ==
  ASSUME MxTypeOK
  PROVE  \A k, n : Copies(mxOwed, k, n) \in Nat
BY DEF MxTypeOK, Copies

\* Of the records of counts, the kind and the size tell one.
LEMMA CountParts ==
  /\ \A c \in CountRecord : c = [what |-> c.what, n |-> c.n] /\ c.what \in CountKinds
                            /\ c.n \in 1..MxJobs
                            /\ (c.what \in {"push", "complete"} \/ c.n = 1)
  /\ \A j, k, m, n : [what |-> j, n |-> m] = [what |-> k, n |-> n] <=> <<j, m>> = <<k, n>>
<1>1. \A j, k, m, n : [what |-> j, n |-> m] = [what |-> k, n |-> n] <=> <<j, m>> = <<k, n>>
  <2> SUFFICES ASSUME NEW j, NEW k, NEW m, NEW n
               PROVE  [what |-> j, n |-> m] = [what |-> k, n |-> n] <=> <<j, m>> = <<k, n>>
    OBVIOUS
  <2>1. ASSUME [what |-> j, n |-> m] = [what |-> k, n |-> n] PROVE j = k /\ m = n
    <3>1. [what |-> j, n |-> m].what = [what |-> k, n |-> n].what
      BY <2>1
    <3>2. [what |-> j, n |-> m].n = [what |-> k, n |-> n].n
      BY <2>1
    <3> QED BY <3>1, <3>2
  <2> QED BY <2>1
<1>2. ASSUME NEW c \in CountRecord
      PROVE  c = [what |-> c.what, n |-> c.n] /\ c.what \in CountKinds
             /\ c.n \in 1..MxJobs /\ (c.what \in {"push", "complete"} \/ c.n = 1)
  BY DEF CountRecord
<1> QED BY <1>1, <1>2

\* A count that is put into the bag.
LEMMA OwedMore ==
  ASSUME MxTypeOK, NEW k, NEW n, [what |-> k, n |-> n] \in CountRecord,
         mxOwed' = mxOwed (+) SetToBag({[what |-> k, n |-> n]})
  PROVE  /\ DOMAIN mxOwed' \subseteq CountRecord /\ mxOwed' \in [DOMAIN mxOwed' -> Nat \ {0}]
         /\ OneCount(mxOwed, mxOwed', k, n, 1)
<1> DEFINE c == [what |-> k, n |-> n]
           D == DOMAIN mxOwed
           v(e) == (IF e \in D THEN mxOwed[e] ELSE 0) + (IF e = c THEN 1 ELSE 0)
<1>1. mxOwed' = [e \in D \cup {c} |-> v(e)]
  BY DEF (+), SetToBag
<1>2. D \subseteq CountRecord /\ c \in CountRecord /\ \A e \in D : mxOwed[e] \in Nat \ {0}
  BY DEF MxTypeOK
<1>3. \A e \in D \cup {c} : v(e) \in Nat \ {0}
  BY <1>2
<1>4. DOMAIN mxOwed' = D \cup {c} /\ \A e \in D \cup {c} : mxOwed'[e] = v(e)
  BY <1>1
<1>5. mxOwed' \in [DOMAIN mxOwed' -> Nat \ {0}]
  BY <1>1, <1>3
<1>6. \A j, m : Copies(mxOwed', j, m) =
                  Copies(mxOwed, j, m) + (IF [what |-> j, n |-> m] = c THEN 1 ELSE 0)
  <2> SUFFICES ASSUME NEW e
               PROVE  (IF e \in DOMAIN mxOwed' THEN mxOwed'[e] ELSE 0) =
                        (IF e \in D THEN mxOwed[e] ELSE 0) + (IF e = c THEN 1 ELSE 0)
    BY Zenon DEF Copies
  <2>1. CASE e \in D \cup {c}
    BY <1>4, <2>1
  <2>2. CASE e \notin D \cup {c}
    BY <1>4, <2>2
  <2> QED BY <2>1, <2>2
<1>7. \A j, m : Copies(mxOwed, j, m) \in Nat
  BY CopiesAreNumbers
<1> HIDE DEF D, v
<1>8. Copies(mxOwed', k, n) = Copies(mxOwed, k, n) + 1
  BY <1>6
<1>9. \A j, m : <<j, m>> # <<k, n>> => Copies(mxOwed', j, m) = Copies(mxOwed, j, m)
  <2> SUFFICES ASSUME NEW j, NEW m, <<j, m>> # <<k, n>>
               PROVE  Copies(mxOwed', j, m) = Copies(mxOwed, j, m)
    OBVIOUS
  <2>1. [what |-> j, n |-> m] # c
    BY CountParts
  <2>2. Copies(mxOwed', j, m) = Copies(mxOwed, j, m) + 0
    BY <1>6, <2>1
  <2> QED BY <1>7, <2>2
<1> QED BY <1>2, <1>4, <1>5, <1>8, <1>9 DEF OneCount

\* A count that is made.
LEMMA OwedLess ==
  ASSUME MxTypeOK, NEW c \in BagToSet(mxOwed), mxOwed' = mxOwed (-) SetToBag({c})
  PROVE  /\ c \in CountRecord
         /\ DOMAIN mxOwed' \subseteq CountRecord /\ mxOwed' \in [DOMAIN mxOwed' -> Nat \ {0}]
         /\ OneCount(mxOwed, mxOwed', c.what, c.n, -1)
<1> DEFINE D == DOMAIN mxOwed
           v(e) == IF e = c THEN mxOwed[e] - 1 ELSE mxOwed[e]
           E == {e \in D : v(e) > 0}
<1>1. mxOwed' = [e \in E |-> v(e)]
  <2> DEFINE B == [e \in D |-> IF e \in {c} THEN mxOwed[e] - [x \in {c} |-> 1][e]
                                            ELSE mxOwed[e]]
  <2>1. mxOwed' = [e \in {d \in DOMAIN B : B[d] > 0} |-> B[e]]
    BY DEF (-), SetToBag
  <2>2. DOMAIN B = D /\ \A e \in D : B[e] = v(e)
    OBVIOUS
  <2> HIDE DEF B
  <2>3. {d \in DOMAIN B : B[d] > 0} = E
    BY <2>2
  <2> QED BY <2>1, <2>2, <2>3
<1>2. /\ c \in D /\ D \subseteq CountRecord /\ \A e \in D : mxOwed[e] \in Nat /\ mxOwed[e] > 0
  BY DEF MxTypeOK, BagToSet
<1>3. \A e \in E : v(e) \in Nat \ {0}
  BY <1>2
<1>4. DOMAIN mxOwed' = E /\ \A e \in E : mxOwed'[e] = v(e)
  BY <1>1
<1>5. mxOwed' \in [DOMAIN mxOwed' -> Nat \ {0}]
  BY <1>1, <1>3
<1>6. \A j, m : Copies(mxOwed', j, m) =
                  Copies(mxOwed, j, m) - (IF [what |-> j, n |-> m] = c THEN 1 ELSE 0)
  <2> SUFFICES ASSUME NEW e
               PROVE  (IF e \in DOMAIN mxOwed' THEN mxOwed'[e] ELSE 0) =
                        (IF e \in D THEN mxOwed[e] ELSE 0) - (IF e = c THEN 1 ELSE 0)
    BY Zenon DEF Copies
  <2>1. CASE e \in E
    BY <1>2, <1>4, <2>1
  <2>2. CASE e \in D \ E
    <3>1. v(e) \in Nat /\ ~(v(e) > 0)
      BY <1>2, <2>2
    <3>2. e = c /\ mxOwed[e] = 1
      BY <1>2, <2>2, <3>1
    <3> QED BY <1>4, <2>2, <3>2
  <2>3. CASE e \notin D
    BY <1>2, <1>4, <2>3
  <2> QED BY <2>1, <2>2, <2>3
<1>7. \A j, m : Copies(mxOwed, j, m) \in Nat
  BY CopiesAreNumbers
<1>8. c = [what |-> c.what, n |-> c.n] /\ E \subseteq D
  BY <1>2, CountParts
<1> HIDE DEF D, v, E
<1>9. Copies(mxOwed', c.what, c.n) = Copies(mxOwed, c.what, c.n) + (-1)
  BY <1>6, <1>7, <1>8
<1>10. \A j, m : <<j, m>> # <<c.what, c.n>> => Copies(mxOwed', j, m) = Copies(mxOwed, j, m)
  <2> SUFFICES ASSUME NEW j, NEW m, <<j, m>> # <<c.what, c.n>>
               PROVE  Copies(mxOwed', j, m) = Copies(mxOwed, j, m)
    OBVIOUS
  <2>1. [what |-> j, n |-> m] # c
    BY <1>8, CountParts
  <2>2. Copies(mxOwed', j, m) = Copies(mxOwed, j, m) - 0
    BY <1>6, <2>1
  <2> QED BY <1>7, <2>2
<1> QED BY <1>2, <1>4, <1>5, <1>8, <1>9, <1>10 DEF OneCount

\* Jobs that move are no more and no fewer.
LEMMA ShiftKeepsJobs ==
  ASSUME MxTypeOK, JobsAreFew, NEW n \in Nat, NEW from \in Place, NEW to \in Place,
         from # to, Shift(n, from, to)
  PROVE  /\ mxHeld' \in [Place -> Nat] /\ JobsAreFew' /\ n \in 1..MxJobs
         /\ mxHeld'[from] = mxHeld[from] - n /\ mxHeld'[to] = mxHeld[to] + n
         /\ \A p \in Place \ {from, to} : mxHeld'[p] = mxHeld[p]
<1>1. /\ n > 0 /\ n <= mxHeld[from] /\ mxHeld \in [Place -> Nat] /\ MxJobs \in Nat
      /\ mxHeld' = [mxHeld EXCEPT ![from] = @ - n, ![to] = @ + n]
  BY MetricsAssumption DEF Shift, MxTypeOK
<1>2. mxHeld'[from] = mxHeld[from] - n /\ mxHeld'[to] = mxHeld[to] + n
      /\ \A p \in Place \ {from, to} : mxHeld'[p] = mxHeld[p]
  BY <1>1
<1>3. mxHeld' \in [Place -> Nat]
  BY <1>1
<1>4. \A p \in Place : mxHeld[p] \in Nat /\ mxHeld'[p] \in Nat
  BY <1>1, <1>3
<1>5. JobsAreFew' /\ n <= MxJobs
  BY <1>1, <1>2, <1>4 DEF Place, JobsAreFew
<1> QED BY <1>1, <1>2, <1>3, <1>5

\* The moves that are counted later.
Routes == {<<"push", "new", "queue">>, <<"pull", "queue", "processing">>,
           <<"complete", "processing", "gone">>, <<"retry", "processing", "queue">>,
           <<"dlq", "processing", "dlq">>, <<"drop", "processing", "gone">>}
CountedMove ==
  \E r \in Routes : \E n \in 1..MxJobs \cup {1} :
    (r[1] \in {"push", "complete"} \/ n = 1) /\ Counted(n, r[2], r[3], r[1])

\* Each is a count of a kind, with the route of its job.
LEMMA CountedMoves ==
  ASSUME MxPush \/ MxPull \/ MxAck \/ MxAckBatch \/ MxFailRetries \/ MxFailBuries
         \/ MxFailRemoves
  PROVE  CountedMove
<1>1. ASSUME NEW r \in Routes, NEW n \in 1..MxJobs \cup {1},
             r[1] \in {"push", "complete"} \/ n = 1, Counted(n, r[2], r[3], r[1])
      PROVE  CountedMove
  BY <1>1 DEF CountedMove
<1>2. CASE MxPush
  <2>1. PICK n \in 1..MxJobs : Counted(n, "new", "queue", "push")
    BY <1>2 DEF MxPush
  <2>2. <<"push", "new", "queue">> \in Routes
    BY DEF Routes
  <2> QED BY <1>1, <2>1, <2>2
<1>3. CASE MxAckBatch
  <2>1. PICK n \in 1..MxJobs : Counted(n, "processing", "gone", "complete")
    BY <1>3 DEF MxAckBatch
  <2>2. <<"complete", "processing", "gone">> \in Routes
    BY DEF Routes
  <2> QED BY <1>1, <2>1, <2>2
<1>4. ASSUME NEW k, NEW from, NEW to, <<k, from, to>> \in Routes, Counted(1, from, to, k)
      PROVE  CountedMove
  <2>1. PICK r \in Routes : r = <<k, from, to>>
    BY <1>4
  <2> QED BY <1>1, <1>4, <2>1
<1>5. CASE MxPull
  BY <1>4, <1>5 DEF MxPull, Routes
<1>6. CASE MxAck
  BY <1>4, <1>6 DEF MxAck, Routes
<1>7. CASE MxFailRetries
  BY <1>4, <1>7 DEF MxFailRetries, Routes
<1>8. CASE MxFailBuries
  BY <1>4, <1>8 DEF MxFailBuries, Routes
<1>9. CASE MxFailRemoves
  BY <1>4, <1>9 DEF MxFailRemoves, Routes
<1> QED BY <1>2, <1>3, <1>5, <1>6, <1>7, <1>8, <1>9

\* What such a move does.
LEMMA CountedDoes ==
  ASSUME MxTypeOK, JobsAreFew, NEW k, NEW from, NEW to, NEW n \in 1..MxJobs \cup {1},
         <<k, from, to>> \in Routes, k \in {"push", "complete"} \/ n = 1,
         Counted(n, from, to, k)
  PROVE  /\ MxTypeOK' /\ JobsAreFew' /\ n \in 1..MxJobs /\ k \in CountKinds
         /\ OneCount(mxOwed, mxOwed', k, n, 1)
         /\ from \in Place /\ to \in Place /\ from # to
         /\ mxHeld'[from] = mxHeld[from] - n /\ mxHeld'[to] = mxHeld[to] + n
         /\ \A p \in Place \ {from, to} : mxHeld'[p] = mxHeld[p]
         /\ UNCHANGED <<mxGauges, mxTotals, mxSeries, mxAdmin, mxForgot>>
<1>1. from \in Place /\ to \in Place /\ from # to /\ k \in CountKinds
  BY DEF Routes, Place, CountKinds
<1>2. n \in Nat
  BY MetricsAssumption
<1>3. /\ Shift(n, from, to) /\ mxOwed' = mxOwed (+) SetToBag({[what |-> k, n |-> n]})
      /\ UNCHANGED <<mxGauges, mxTotals, mxSeries, mxAdmin, mxForgot>>
  BY DEF Counted
<1>4. /\ mxHeld' \in [Place -> Nat] /\ JobsAreFew' /\ n \in 1..MxJobs
      /\ mxHeld'[from] = mxHeld[from] - n /\ mxHeld'[to] = mxHeld[to] + n
      /\ \A p \in Place \ {from, to} : mxHeld'[p] = mxHeld[p]
  BY <1>1, <1>2, <1>3, ShiftKeepsJobs
<1>5. [what |-> k, n |-> n] \in CountRecord
  BY <1>1, <1>4 DEF CountRecord
<1>6. /\ DOMAIN mxOwed' \subseteq CountRecord /\ mxOwed' \in [DOMAIN mxOwed' -> Nat \ {0}]
      /\ OneCount(mxOwed, mxOwed', k, n, 1)
  BY <1>3, <1>5, OwedMore
<1>7. MxTypeOK'
  BY <1>3, <1>4, <1>6
     DEF MxTypeOK, mxGauges, mxTotals, mxSeries, mxTelling, mxAdmin
<1> QED BY <1>1, <1>3, <1>4, <1>6, <1>7

\* The total of one kind moves, with the bag.
LEMMA TotalMoves ==
  ASSUME MxTypeOK, NEW k \in CountKinds, NEW n \in 1..MxJobs, NEW d \in {1, -1},
         OneCount(mxOwed, mxOwed', k, n, d), NEW t, Totals(mxOwed, t)
  PROVE  /\ t \in [CountKinds -> Int] /\ n \in Nat
         /\ \E u : /\ Totals(mxOwed', u) /\ u \in [CountKinds -> Int]
                   /\ u[k] = (IF d = 1 THEN t[k] + n ELSE t[k] - n)
                   /\ \A j \in CountKinds \ {k} : u[j] = t[j]
<1>1. t \in [CountKinds -> Int] /\ n \in Nat
  BY MetricsAssumption DEF Totals
<1> DEFINE u == [t EXCEPT ![k] = @ + n * d]
<1>2. Totals(mxOwed', u)
  <2>1. \A j \in CountKinds, m \in 1..MxJobs : Copies(mxOwed, j, m) \in Int
    BY CopiesAreNumbers
  <2> QED BY <2>1, OneCountMoves
<1>3. u \in [CountKinds -> Int]
  BY <1>2 DEF Totals
<1>4. u[k] = t[k] + n * d /\ \A j \in CountKinds \ {k} : u[j] = t[j]
  BY <1>1
<1>5. t[k] + n * d = IF d = 1 THEN t[k] + n ELSE t[k] - n
  BY <1>1
<1> QED BY <1>1, <1>2, <1>3, <1>4, <1>5

\* The parts of the types.
LEMMA MxTypeParts ==
  ASSUME MxTypeOK
  PROVE  /\ \A p \in Place : mxHeld[p] \in Nat
         /\ {mxQueued, mxProcessing, mxDlq, mxCompleted} \subseteq CounterValue
         /\ CounterValue \subseteq Nat
<1>1. CounterValue \subseteq Nat
  BY MetricsAssumption DEF CounterValue
<1> QED BY <1>1 DEF MxTypeOK

\* A move that is counted later leaves the gauges as they are and is owed.
LEMMA CountedFollows ==
  ASSUME MxTypeOK, JobsAreFew, GaugesFollow, CountedMove
  PROVE  /\ MxTypeOK' /\ JobsAreFew' /\ GaugesFollow'
         /\ UNCHANGED <<mxTotals, mxSeries, mxAdmin>>
<1>1. PICK r \in Routes : \E n \in 1..MxJobs \cup {1} :
        (r[1] \in {"push", "complete"} \/ n = 1) /\ Counted(n, r[2], r[3], r[1])
  BY DEF CountedMove
<1>2. PICK n \in 1..MxJobs \cup {1} :
        (r[1] \in {"push", "complete"} \/ n = 1) /\ Counted(n, r[2], r[3], r[1])
  BY <1>1
<1>3. PICK k, from, to : r = <<k, from, to>>
  BY DEF Routes
<1>4. <<k, from, to>> \in Routes /\ (k \in {"push", "complete"} \/ n = 1)
      /\ Counted(n, from, to, k)
  BY <1>2, <1>3
<1>5. /\ MxTypeOK' /\ JobsAreFew' /\ n \in 1..MxJobs /\ k \in CountKinds
      /\ OneCount(mxOwed, mxOwed', k, n, 1)
      /\ from \in Place /\ to \in Place /\ from # to
      /\ mxHeld'[from] = mxHeld[from] - n /\ mxHeld'[to] = mxHeld[to] + n
      /\ \A p \in Place \ {from, to} : mxHeld'[p] = mxHeld[p]
      /\ UNCHANGED <<mxGauges, mxTotals, mxSeries, mxAdmin, mxForgot>>
  BY <1>4, CountedDoes
<1>6. ASSUME ~mxForgot' PROVE \E t : Totals(mxOwed', t) /\ GaugesAre(t)'
  <2>1. PICK t : Totals(mxOwed, t) /\ GaugesAre(t)
    BY <1>5, <1>6 DEF GaugesFollow
  <2>2. PICK u : /\ Totals(mxOwed', u) /\ u \in [CountKinds -> Int] /\ u[k] = t[k] + n
                 /\ \A j \in CountKinds \ {k} : u[j] = t[j]
    BY <1>5, <2>1, TotalMoves
  <2>3. t \in [CountKinds -> Int] /\ n \in Nat
    BY <1>5, <2>1, TotalMoves
  <2>4. \A p \in Place : mxHeld[p] \in Nat
    BY MxTypeParts
  <2>5. /\ QueueSum(u)' = QueueSum(t) /\ ProcessingSum(u)' = ProcessingSum(t)
        /\ DlqSum(u)' = DlqSum(t)
    <3>1. \A j \in CountKinds : t[j] \in Int /\ u[j] = IF j = k THEN t[j] + n ELSE t[j]
      BY <2>2, <2>3
    <3>2. \A p \in Place : mxHeld'[p] = IF p = from THEN mxHeld[p] - n
                                   ELSE IF p = to THEN mxHeld[p] + n ELSE mxHeld[p]
      BY <1>5
    <3> QED BY <1>4, <2>3, <2>4, <3>1, <3>2
         DEF Routes, Place, CountKinds, QueueSum, ProcessingSum, DlqSum
  <2>6. UNCHANGED <<mxQueued, mxProcessing, mxDlq>>
    BY <1>5 DEF mxGauges
  <2>7. GaugesAre(u)'
    BY <2>1, <2>5, <2>6 DEF GaugesAre, Same
  <2> QED BY <2>2, <2>7
<1> QED BY <1>5, <1>6 DEF GaugesFollow

\* A job that waits since its push, uncounted, is not in what the gauges show.
LEMMA UncountedFollows ==
  ASSUME MxTypeOK, JobsAreFew, GaugesFollow, MxPushWaits \/ MxWaitingCancelled
  PROVE  /\ MxTypeOK' /\ JobsAreFew' /\ GaugesFollow'
         /\ UNCHANGED <<mxTotals, mxSeries, mxAdmin>>
<1>1. PICK from \in {"new", "waiting"}, to \in {"waiting", "gone"} :
        from # to /\ Uncounted(from, to)
  BY DEF MxPushWaits, MxWaitingCancelled
<1>2. from \in Place /\ to \in Place
  BY DEF Place
<1>3. Shift(1, from, to) /\ UNCHANGED <<mxOwed, mxGauges, mxTotals, mxSeries, mxAdmin, mxForgot>>
  BY <1>1 DEF Uncounted
<1>4. /\ mxHeld' \in [Place -> Nat] /\ JobsAreFew'
      /\ \A p \in Place \ {from, to} : mxHeld'[p] = mxHeld[p]
  BY <1>1, <1>2, <1>3, ShiftKeepsJobs
<1>5. MxTypeOK'
  BY <1>3, <1>4 DEF MxTypeOK, mxGauges, mxTotals, mxSeries, mxTelling, mxAdmin
<1>6. ASSUME NEW t
      PROVE  /\ QueueSum(t)' = QueueSum(t) /\ ProcessingSum(t)' = ProcessingSum(t)
             /\ DlqSum(t)' = DlqSum(t)
  <2>1. \A p \in {"queue", "processing", "dlq", "hand-queue", "hand-dlq"} : mxHeld'[p] = mxHeld[p]
    BY <1>1, <1>4 DEF Place
  <2> QED BY <2>1 DEF QueueSum, ProcessingSum, DlqSum
<1>7. GaugesFollow'
  BY <1>3, <1>6 DEF GaugesFollow, GaugesAre, Same, mxGauges
<1> QED BY <1>3, <1>4, <1>5, <1>7

\* A count that is not the call's to make, or is never made, ends what is said of
\* the gauges.
LEMMA MiscountedFollows ==
  ASSUME MxTypeOK, JobsAreFew, MxCountsKnown \/ MxPushUndone
  PROVE  /\ MxTypeOK' /\ JobsAreFew' /\ GaugesFollow'
         /\ UNCHANGED <<mxTotals, mxSeries, mxAdmin>>
<1> DEFINE c == [what |-> "push", n |-> 1]
<1>1. mxForgot' /\ UNCHANGED <<mxGauges, mxTotals, mxSeries, mxAdmin>>
  BY DEF MxCountsKnown, MxPushUndone, Miscounted
<1>2. DOMAIN mxOwed' \subseteq CountRecord /\ mxOwed' \in [DOMAIN mxOwed' -> Nat \ {0}]
  <2>1. CASE MxCountsKnown
    <3>1. MxJobs \in 1..MxJobs
      BY <2>1, MxTypeParts, MetricsAssumption DEF MxCountsKnown, Place
    <3>2. c \in CountRecord
      BY <3>1, MetricsAssumption DEF CountRecord, CountKinds
    <3> QED BY <2>1, <3>2, OwedMore DEF MxCountsKnown, Miscounted
  <2>2. CASE MxPushUndone
    BY <2>2, OwedLess DEF MxPushUndone, Miscounted
  <2> QED BY <2>1, <2>2
<1>3. mxHeld' \in [Place -> Nat] /\ JobsAreFew'
  <2>1. CASE UNCHANGED mxHeld
    BY <2>1 DEF MxTypeOK, JobsAreFew
  <2>2. CASE Shift(1, "queue", "gone")
    BY <2>2, ShiftKeepsJobs DEF Place
  <2> QED BY <2>1, <2>2 DEF MxCountsKnown, MxPushUndone
<1>4. MxTypeOK'
  BY <1>1, <1>2, <1>3 DEF MxTypeOK, mxGauges, mxTotals, mxSeries, mxTelling, mxAdmin
<1> QED BY <1>1, <1>3, <1>4 DEF GaugesFollow

\* A move no gauge follows ends what is said of them.
LEMMA ForgottenFollows ==
  ASSUME MxTypeOK, JobsAreFew, MxTakenAway \/ MxBuried \/ MxQueuedAgain
  PROVE  /\ MxTypeOK' /\ JobsAreFew' /\ GaugesFollow'
         /\ UNCHANGED <<mxTotals, mxSeries, mxAdmin>>
<1>1. PICK from \in Place, to \in Place : from # to /\ Shift(1, from, to)
  BY DEF MxTakenAway, MxBuried, MxQueuedAgain, Forgotten, Place
<1>2. mxForgot' /\ UNCHANGED <<mxOwed, mxGauges, mxTotals, mxSeries, mxAdmin>>
  BY DEF MxTakenAway, MxBuried, MxQueuedAgain, Forgotten
<1>3. mxHeld' \in [Place -> Nat] /\ JobsAreFew'
  BY <1>1, ShiftKeepsJobs
<1>4. MxTypeOK'
  BY <1>2, <1>3 DEF MxTypeOK, mxGauges, mxTotals, mxSeries, mxTelling, mxAdmin
<1> QED BY <1>2, <1>3, <1>4 DEF GaugesFollow

\* A timeout counts first and moves the job by way of a hand.
LEMMA TimeoutFollows ==
  ASSUME MxTypeOK, JobsAreFew, GaugesFollow, MxTimesOut \/ MxTimedOutFiled
  PROVE  /\ MxTypeOK' /\ JobsAreFew' /\ GaugesFollow'
         /\ UNCHANGED <<mxTotals, mxSeries, mxAdmin>>
<1> DEFINE Hands == {<<"processing", "hand-queue">>, <<"processing", "hand-dlq">>,
                     <<"hand-queue", "queue">>, <<"hand-dlq", "dlq">>}
<1>1. PICK from \in Place, to \in Place :
        /\ <<from, to>> \in Hands /\ Shift(1, from, to)
        /\ from = "processing" /\ to = "hand-queue" => RecordRetry
        /\ from = "processing" /\ to = "hand-dlq" => RecordDlq
        /\ from # "processing" => UNCHANGED mxGauges
  <2>1. CASE MxTimesOut /\ Shift(1, "processing", "hand-queue") /\ RecordRetry
    BY <2>1 DEF Place
  <2>2. CASE MxTimesOut /\ Shift(1, "processing", "hand-dlq") /\ RecordDlq
    BY <2>2 DEF Place
  <2>3. CASE MxTimedOutFiled
    BY <2>3 DEF MxTimedOutFiled, Place
  <2> QED BY <2>1, <2>2, <2>3 DEF MxTimesOut
<1>2. UNCHANGED <<mxOwed, mxTotals, mxSeries, mxAdmin, mxForgot>>
  BY DEF MxTimesOut, MxTimedOutFiled
<1>3. /\ mxHeld' \in [Place -> Nat] /\ JobsAreFew'
      /\ mxHeld'[from] = mxHeld[from] - 1 /\ mxHeld'[to] = mxHeld[to] + 1
      /\ \A p \in Place \ {from, to} : mxHeld'[p] = mxHeld[p]
  <2>1. from # to
    BY <1>1
  <2> QED BY <1>1, <2>1, ShiftKeepsJobs
<1>4. {mxQueued, mxProcessing, mxDlq} \subseteq Int
  BY MxTypeParts
<1>5. {mxQueued', mxProcessing', mxDlq'} \subseteq CounterValue
  BY <1>1, <1>4, MxTypeParts, WrapIsSame DEF RecordRetry, RecordDlq, mxGauges
<1>6. MxTypeOK'
  BY <1>2, <1>3, <1>5 DEF MxTypeOK, mxTotals, mxSeries, mxTelling, mxAdmin
<1>7. ASSUME ~mxForgot' PROVE \E t : Totals(mxOwed', t) /\ GaugesAre(t)'
  <2>1. PICK t : Totals(mxOwed, t) /\ GaugesAre(t)
    BY <1>2, <1>7 DEF GaugesFollow
  <2>2. \A j \in CountKinds : t[j] \in Int
    BY <2>1 DEF Totals
  <2>3. \A p \in Place : mxHeld[p] \in Nat
    BY MxTypeParts
  <2> DEFINE Q == QueueSum(t)
             P == ProcessingSum(t)
             D == DlqSum(t)
  <2>4. Q \in Int /\ P \in Int /\ D \in Int
    BY <2>2, <2>3 DEF QueueSum, ProcessingSum, DlqSum, Place, CountKinds
  <2>5. Same(mxQueued, Q) /\ Same(mxProcessing, P) /\ Same(mxDlq, D)
    BY <2>1 DEF GaugesAre
  <2>6. /\ Same(Wrap(mxQueued + 1), Q + 1)
        /\ Same(Wrap(mxProcessing + (-1)), P + (-1))
        /\ Same(Wrap(mxDlq + 1), D + 1)
    <3>1. Same(Wrap(mxQueued + 1), Q + 1)
      BY <1>4, <2>4, <2>5, SameMoves
    <3>2. Same(Wrap(mxProcessing + (-1)), P + (-1))
      BY <1>4, <2>4, <2>5, SameMoves
    <3>3. Same(Wrap(mxDlq + 1), D + 1)
      BY <1>4, <2>4, <2>5, SameMoves
    <3> QED BY <3>1, <3>2, <3>3
  <2>7. mxProcessing + (-1) = mxProcessing - 1
    BY <1>4
  <2>8. /\ QueueSum(t)' = Q + (IF to = "hand-queue" THEN 1 ELSE 0)
        /\ ProcessingSum(t)' = P + (IF from = "processing" THEN -1 ELSE 0)
        /\ DlqSum(t)' = D + (IF to = "hand-dlq" THEN 1 ELSE 0)
    BY <1>1, <1>3, <2>2, <2>3
       DEF QueueSum, ProcessingSum, DlqSum, Place, CountKinds
  <2> HIDE DEF Q, P, D
  <2>9. /\ Same(mxQueued', QueueSum(t)') /\ Same(mxProcessing', ProcessingSum(t)')
        /\ Same(mxDlq', DlqSum(t)')
    <3>1. CASE from = "processing" /\ to = "hand-queue"
      BY <1>1, <2>4, <2>5, <2>6, <2>7, <2>8, <3>1 DEF RecordRetry
    <3>2. CASE from = "processing" /\ to = "hand-dlq"
      BY <1>1, <2>4, <2>5, <2>6, <2>7, <2>8, <3>2 DEF RecordDlq
    <3>3. CASE from # "processing" /\ to \notin {"hand-queue", "hand-dlq"}
      BY <1>1, <2>4, <2>5, <2>8, <3>3 DEF mxGauges
    <3> QED BY <1>1, <3>1, <3>2, <3>3
  <2>10. GaugesAre(t)'
    BY <2>9 DEF GaugesAre, Same
  <2> QED BY <1>2, <2>1, <2>10
<1> QED BY <1>2, <1>3, <1>6, <1>7 DEF GaugesFollow

\* What each kind of count does to the gauges.
GaugeGain(k, n) ==
  [queue |-> IF k = "push" THEN n ELSE IF k = "retry" THEN 1 ELSE IF k = "pull" THEN -1 ELSE 0,
   processing |-> IF k = "pull" THEN 1 ELSE IF k = "complete" THEN -n
                  ELSE IF k \in {"retry", "dlq", "drop"} THEN -1 ELSE 0,
   dlq |-> IF k = "dlq" THEN 1 ELSE 0]

\* A gauge counts a gain, by wrapping, or has none.
Gains(x, y, g) == y = Wrap(x + g) \/ (g = 0 /\ y = x)

\* Each count makes its gauges gain that.
LEMMA CountGains ==
  ASSUME MxTypeOK, NEW c \in CountRecord,
         \/ c.what = "push" /\ RecordPush(c.n)
         \/ c.what = "pull" /\ RecordPull
         \/ c.what = "complete" /\ RecordComplete(c.n)
         \/ c.what = "retry" /\ RecordRetry
         \/ c.what = "dlq" /\ RecordDlq
         \/ c.what = "drop" /\ ProcessingDrops(1)
  PROVE  /\ Gains(mxQueued, mxQueued', GaugeGain(c.what, c.n).queue)
         /\ Gains(mxProcessing, mxProcessing', GaugeGain(c.what, c.n).processing)
         /\ Gains(mxDlq, mxDlq', GaugeGain(c.what, c.n).dlq)
<1>1. mxQueued \in Int /\ mxProcessing \in Int /\ mxDlq \in Int
  BY MxTypeParts
<1>2. PICK k, n : k = c.what /\ n = c.n
  OBVIOUS
<1>3. n \in Nat /\ mxQueued - 1 = mxQueued + (-1) /\ mxProcessing - 1 = mxProcessing + (-1)
      /\ mxProcessing - n = mxProcessing + (-n)
  BY <1>1, <1>2, CountParts, MetricsAssumption
<1>4. CASE k = "push" /\ RecordPush(n)
  BY <1>2, <1>4 DEF RecordPush, GaugeGain, Gains
<1>5. CASE k = "pull" /\ RecordPull
  BY <1>2, <1>3, <1>5 DEF RecordPull, GaugeGain, Gains
<1>6. CASE k = "complete" /\ RecordComplete(n)
  BY <1>2, <1>3, <1>6 DEF RecordComplete, ProcessingDrops, GaugeGain, Gains
<1>7. CASE k = "retry" /\ RecordRetry
  BY <1>2, <1>3, <1>7 DEF RecordRetry, GaugeGain, Gains
<1>8. CASE k = "dlq" /\ RecordDlq
  BY <1>2, <1>3, <1>8 DEF RecordDlq, GaugeGain, Gains
<1>9. CASE k = "drop" /\ ProcessingDrops(1)
  BY <1>2, <1>3, <1>9 DEF ProcessingDrops, GaugeGain, Gains
<1> QED BY <1>2, <1>4, <1>5, <1>6, <1>7, <1>8, <1>9

\* A gauge that gains stays the same as what gains with it.
LEMMA GainKeepsSame ==
  ASSUME NEW x \in CounterValue, NEW y, NEW b \in Int, NEW g \in Int, Same(x, b),
         Gains(x, y, g)
  PROVE  y \in CounterValue /\ Same(y, b + g)
<1>1. x \in Int
  BY MetricsAssumption DEF CounterValue
<1>2. CASE y = Wrap(x + g)
  <2>1. x + g \in Int
    BY <1>1
  <2>2. y \in CounterValue
    BY <1>2, <2>1, WrapIsSame
  <2>3. Same(y, b + g)
    BY <1>1, <1>2, SameMoves
  <2> QED BY <2>2, <2>3
<1>3. CASE g = 0 /\ y = x
  <2>1. b + g = b
    BY <1>3
  <2> QED BY <1>3, <2>1
<1> QED BY <1>2, <1>3 DEF Gains

\* A count leaves the bag as the gauges take it.
LEMMA CountFollows ==
  ASSUME MxTypeOK, JobsAreFew, GaugesFollow, MxCount
  PROVE  MxTypeOK' /\ JobsAreFew' /\ GaugesFollow'
<1>1. PICK c \in BagToSet(mxOwed) :
        /\ mxOwed' = mxOwed (-) SetToBag({c})
        /\ \/ c.what = "push" /\ RecordPush(c.n)
           \/ c.what = "pull" /\ RecordPull
           \/ c.what = "complete" /\ RecordComplete(c.n)
           \/ c.what = "retry" /\ RecordRetry
           \/ c.what = "dlq" /\ RecordDlq
           \/ c.what = "drop" /\ ProcessingDrops(1)
        /\ c.what # "complete" => UNCHANGED mxTotals
  BY DEF MxCount
<1>2. UNCHANGED <<mxHeld, mxSeries, mxAdmin, mxForgot>>
  BY DEF MxCount
<1>3. /\ c \in CountRecord
      /\ DOMAIN mxOwed' \subseteq CountRecord /\ mxOwed' \in [DOMAIN mxOwed' -> Nat \ {0}]
      /\ OneCount(mxOwed, mxOwed', c.what, c.n, -1)
  BY <1>1, OwedLess
<1>4. PICK k \in CountKinds, n \in 1..MxJobs :
        k = c.what /\ n = c.n /\ (k \in {"push", "complete"} \/ n = 1)
  BY <1>3, CountParts
<1>5. /\ Gains(mxQueued, mxQueued', GaugeGain(k, n).queue)
      /\ Gains(mxProcessing, mxProcessing', GaugeGain(k, n).processing)
      /\ Gains(mxDlq, mxDlq', GaugeGain(k, n).dlq)
  BY <1>1, <1>3, <1>4, CountGains
<1>6. n \in Nat /\ mxQueued \in CounterValue /\ mxProcessing \in CounterValue
      /\ mxDlq \in CounterValue /\ CounterValue \subseteq Nat
  BY MetricsAssumption, MxTypeParts
<1>7. PICK gq \in Int, gp \in Int, gd \in Int :
        /\ gq = GaugeGain(k, n).queue /\ gp = GaugeGain(k, n).processing
        /\ gd = GaugeGain(k, n).dlq
  BY <1>6 DEF GaugeGain
<1>8. {mxQueued', mxProcessing', mxDlq'} \subseteq CounterValue
  BY <1>5, <1>6, <1>7, WrapIsSame DEF Gains
<1>9. mxCompleted' \in CounterValue /\ mxSince' \in Nat
  <2>1. CASE c.what = "complete"
    <3>1. mxCompleted' = Wrap(mxCompleted + n) /\ mxSince' = mxSince + n
      BY <1>1, <1>4, <2>1 DEF RecordComplete
    <3>2. mxCompleted \in Nat /\ mxSince \in Nat
      BY <1>6 DEF MxTypeOK
    <3>3. mxCompleted + n \in Int /\ mxSince + n \in Nat
      BY <1>6, <3>2
    <3> QED BY <3>1, <3>3, WrapIsSame
  <2>2. CASE c.what # "complete"
    BY <1>1, <2>2 DEF MxTypeOK, mxTotals
  <2> QED BY <2>1, <2>2
<1>10. MxTypeOK'
  BY <1>2, <1>3, <1>8, <1>9 DEF MxTypeOK, mxSeries, mxTelling, mxAdmin
<1>11. JobsAreFew'
  BY <1>2 DEF JobsAreFew
<1>12. ASSUME ~mxForgot' PROVE \E t : Totals(mxOwed', t) /\ GaugesAre(t)'
  <2>1. PICK t : Totals(mxOwed, t) /\ GaugesAre(t)
    BY <1>2, <1>12 DEF GaugesFollow
  <2>2. PICK u : /\ Totals(mxOwed', u) /\ u \in [CountKinds -> Int] /\ u[k] = t[k] - n
                 /\ \A j \in CountKinds \ {k} : u[j] = t[j]
    BY <1>3, <1>4, <2>1, TotalMoves
  <2>3. \A j \in CountKinds : t[j] \in Int /\ u[j] = IF j = k THEN t[j] - n ELSE t[j]
    BY <2>1, <2>2 DEF Totals
  <2>4. \A p \in Place : mxHeld[p] \in Nat /\ mxHeld'[p] = mxHeld[p]
    BY <1>2, MxTypeParts
  <2> DEFINE Q == QueueSum(t)
             P == ProcessingSum(t)
             D == DlqSum(t)
  <2>5. Q \in Int /\ P \in Int /\ D \in Int
    BY <2>3, <2>4 DEF QueueSum, ProcessingSum, DlqSum, Place, CountKinds
  <2>6. Same(mxQueued, Q) /\ Same(mxProcessing, P) /\ Same(mxDlq, D)
    BY <2>1 DEF GaugesAre
  <2>7. /\ QueueSum(u)' = Q + gq /\ ProcessingSum(u)' = P + gp /\ DlqSum(u)' = D + gd
    <3>1. QueueSum(u)' = Q + gq
      BY <1>4, <1>6, <1>7, <2>3, <2>4 DEF QueueSum, GaugeGain, Place, CountKinds
    <3>2. ProcessingSum(u)' = P + gp
      BY <1>4, <1>6, <1>7, <2>3, <2>4 DEF ProcessingSum, GaugeGain, Place, CountKinds
    <3>3. DlqSum(u)' = D + gd
      BY <1>4, <1>6, <1>7, <2>3, <2>4 DEF DlqSum, GaugeGain, Place, CountKinds
    <3> QED BY <3>1, <3>2, <3>3
  <2> HIDE DEF Q, P, D
  <2>8. Same(mxQueued', Q + gq)
    BY <1>5, <1>6, <1>7, <2>5, <2>6, GainKeepsSame
  <2>9. Same(mxProcessing', P + gp)
    BY <1>5, <1>6, <1>7, <2>5, <2>6, GainKeepsSame
  <2>10. Same(mxDlq', D + gd)
    BY <1>5, <1>6, <1>7, <2>5, <2>6, GainKeepsSame
  <2>11. GaugesAre(u)'
    BY <2>7, <2>8, <2>9, <2>10 DEF GaugesAre, Same
  <2> QED BY <2>2, <2>11
<1> QED BY <1>10, <1>11, <1>12 DEF GaugesFollow

-----------------------------------------------------------------------------
(* The history *)

SeriesInv == PointsFollow /\ CollectionsMeetOnce /\ mxExcess = 0

\* The last point is a value of a counter.
LEMMA LastPointIsValue ==
  ASSUME MxTypeOK
  PROVE  /\ Len(mxHistory) \in Nat
         /\ Len(mxHistory) >= 1 => LastPoint \in CounterValue /\ LastPoint \in Nat
<1>1. mxHistory \in Seq(CounterValue) /\ Len(mxHistory) \in Nat
  BY DEF MxTypeOK
<1>2. ASSUME Len(mxHistory) >= 1 PROVE mxHistory[Len(mxHistory)] \in CounterValue
  <2>1. Len(mxHistory) \in 1..Len(mxHistory)
    BY <1>1, <1>2
  <2> QED BY <1>1, <2>1
<1> QED BY <1>1, <1>2, MxTypeParts DEF LastPoint

\* Calls that touch neither totals nor history.
LEMMA SeriesStays ==
  ASSUME SeriesInv, UNCHANGED <<mxTotals, mxSeries, mxAdmin>>
  PROVE  SeriesInv'
BY DEF SeriesInv, PointsFollow, CollectionsMeetOnce, LastPoint, Same, mxTotals, mxSeries,
       mxTelling, mxAdmin

\* Completions counted are counted in the total and since the last point.
LEMMA CountSeries ==
  ASSUME MxTypeOK, SeriesInv, MxCount
  PROVE  SeriesInv'
<1>1. PICK c \in BagToSet(mxOwed) :
        /\ c.what = "complete" => RecordComplete(c.n)
        /\ c.what # "complete" => UNCHANGED mxTotals
  BY DEF MxCount
<1>2. UNCHANGED <<mxSeries, mxAdmin>>
  BY DEF MxCount
<1>3. CASE c.what # "complete"
  BY <1>1, <1>2, <1>3, SeriesStays
<1>4. CASE c.what = "complete"
  <2>1. PICK n \in Int : n = c.n
    <3>1. c \in CountRecord
      BY DEF MxTypeOK, BagToSet
    <3> QED BY <3>1, CountParts, MetricsAssumption
  <2>2. mxCompleted' = Wrap(mxCompleted + n) /\ mxSince' = mxSince + n
    BY <1>1, <1>4, <2>1 DEF RecordComplete
  <2>3. mxCompleted \in Int /\ mxSince \in Int
    BY MxTypeParts DEF MxTypeOK
  <2>4. ASSUME NEW x \in Int, Same(mxCompleted, x + mxSince)
        PROVE  Same(mxCompleted', x + mxSince')
    <3>0. x + mxSince \in Int
      BY <2>3
    <3>1. Same(Wrap(mxCompleted + n), (x + mxSince) + n)
      BY <2>3, <2>4, <3>0, SameMoves
    <3>2. (x + mxSince) + n = x + mxSince'
      BY <2>2, <2>3
    <3> QED BY <2>2, <3>1, <3>2
  <2>5. UNCHANGED <<mxHistory, mxLoaded, mxCould, mxRaced, mxExcess, mxTick, mxReset>>
    BY <1>2 DEF mxSeries, mxTelling, mxAdmin
  <2>6. LastPoint' = LastPoint
    BY <2>5 DEF LastPoint
  <2>7. mxLoaded # -1 => mxLoaded \in Int
    BY MxTypeParts DEF MxTypeOK
  <2>8. mxLoaded # -1 /\ Len(mxHistory) >= 2 /\ ~mxRaced => Same(mxLoaded, LastPoint + mxCould)'
    BY <2>5, <2>6 DEF SeriesInv, PointsFollow, Same
  <2>9. mxReset # "totals_zeroed" /\ mxLoaded = -1 /\ Len(mxHistory) >= 2 =>
          Same(mxCompleted', LastPoint + mxSince')
    <3>1. Len(mxHistory) >= 2 => LastPoint \in Int
      BY LastPointIsValue
    <3>2. mxReset # "totals_zeroed" /\ mxLoaded = -1 /\ Len(mxHistory) >= 2 =>
            Same(mxCompleted, LastPoint + mxSince)
      BY DEF SeriesInv, PointsFollow
    <3> QED BY <2>4, <3>1, <3>2
  <2>10. mxReset # "totals_zeroed" /\ mxLoaded # -1 /\ Len(mxHistory) >= 1 =>
           Same(mxCompleted', mxLoaded + mxSince')
    BY <2>4, <2>7 DEF SeriesInv, PointsFollow
  <2>11. PointsFollow'
    BY <2>5, <2>6, <2>8, <2>9, <2>10 DEF PointsFollow, Same
  <2>12. CollectionsMeetOnce' /\ mxExcess' = 0
    BY <2>5 DEF SeriesInv, CollectionsMeetOnce
  <2> QED BY <2>11, <2>12 DEF SeriesInv
<1> QED BY <1>3, <1>4

\* A collection reads the total.
LEMMA LoadSeries ==
  ASSUME MxTypeOK, SeriesInv, CollectLoads
  PROVE  SeriesInv' /\ MxTypeOK'
<1>1. /\ mxLoaded = -1 /\ ~mxTick /\ mxLoaded' = mxCompleted /\ mxTick' = (mxReset # "idle")
      /\ mxCould' = mxSince /\ mxRaced' = (mxReset = "totals_zeroed") /\ mxExcess' = 0
      /\ mxSince' = 0
      /\ UNCHANGED <<mxHeld, mxOwed, mxGauges, mxCompleted, mxHistory, mxReset>>
  BY DEF CollectLoads, mxAdmin
<1>2. mxCompleted \in CounterValue /\ mxCompleted \in Nat
  BY MxTypeParts
<1>3. MxTypeOK'
  BY <1>1, <1>2 DEF MxTypeOK, mxGauges
<1>4. Same(mxCompleted', mxLoaded' + mxSince')
  <2>1. 0 * MxWidth = 0
    BY MetricsAssumption
  <2>2. mxLoaded' = mxCompleted /\ mxSince' = 0 /\ mxCompleted' = mxCompleted
    BY <1>1
  <2>3. mxCompleted' = (mxLoaded' + mxSince') + 0 * MxWidth
    BY <1>2, <2>1, <2>2
  <2> QED BY <2>3 DEF Same
<1>5. Len(mxHistory) >= 2 /\ mxReset # "totals_zeroed" => Same(mxLoaded', LastPoint' + mxCould')
  BY <1>1 DEF SeriesInv, PointsFollow, LastPoint
<1>6. mxLoaded' # -1
  <2>1. mxLoaded' = mxCompleted
    BY <1>1
  <2> QED BY <1>2, <2>1
<1>7. PointsFollow'
  BY <1>1, <1>4, <1>5, <1>6 DEF PointsFollow, LastPoint, Same
<1>8. CollectionsMeetOnce'
  BY <1>1 DEF SeriesInv, CollectionsMeetOnce
<1> QED BY <1>1, <1>3, <1>7, <1>8 DEF SeriesInv

\* What it reports was counted since the last point.
LEMMA ReportsWhatWasCounted ==
  ASSUME MxTypeOK, SeriesInv, mxLoaded # -1, ~mxRaced
  PROVE  Throughput <= mxCould
<1>1. mxLoaded \in Nat /\ mxCould \in Nat
  BY MxTypeParts DEF MxTypeOK
<1>2. CASE LongEnough
  <2>0. Len(mxHistory) >= 2 /\ LastPoint \in Nat
    BY <1>2, LastPointIsValue DEF LongEnough
  <2>1. Same(mxLoaded, LastPoint + mxCould) /\ LastPoint \in Nat
    BY <2>0 DEF SeriesInv, PointsFollow
  <2>2. Same(Wrap(mxLoaded + (-LastPoint)), (LastPoint + mxCould) + (-LastPoint))
    <3>1. LastPoint + mxCould \in Int /\ -LastPoint \in Int /\ mxLoaded \in Int
      BY <1>1, <2>1
    <3> QED BY <2>1, <3>1, SameMoves
  <2>3. /\ mxLoaded + (-LastPoint) = mxLoaded - LastPoint
        /\ (LastPoint + mxCould) + (-LastPoint) = mxCould
        /\ mxLoaded - LastPoint \in Int
    BY <1>1, <2>1
  <2>4. Throughput = Wrap(mxLoaded - LastPoint)
    BY <1>2 DEF Throughput, LastPoint
  <2>5. Throughput \in CounterValue /\ Same(Throughput, mxCould)
    BY <2>2, <2>3, <2>4, WrapIsSame
  <2> QED BY <1>1, <2>5, SameIsLeast
<1>3. CASE ~LongEnough
  BY <1>1, <1>3 DEF Throughput
<1> QED BY <1>2, <1>3

\* A point is kept, and the oldest beyond the limit is not.
LEMMA PointKept ==
  ASSUME MxTypeOK, CollectPoints
  PROVE  /\ mxHistory' \in Seq(CounterValue)
         /\ Len(mxHistory') \in Nat /\ Len(mxHistory') <= Len(mxHistory) + 1
         /\ Len(mxHistory') >= 1 => mxHistory'[Len(mxHistory')] = mxLoaded
<1> DEFINE longer == Append(mxHistory, mxLoaded)
<1>1. mxHistory \in Seq(CounterValue) /\ mxLoaded \in CounterValue
  BY DEF MxTypeOK, CollectPoints
<1>2. /\ longer \in Seq(CounterValue) /\ Len(longer) = Len(mxHistory) + 1
      /\ longer[Len(longer)] = mxLoaded /\ Len(mxHistory) \in Nat
  BY <1>1
<1>3. mxHistory' = longer \/ mxHistory' = Tail(longer)
  BY DEF CollectPoints
<1> HIDE DEF longer
<1>4. CASE mxHistory' = longer
  BY <1>2, <1>4
<1>5. CASE mxHistory' = Tail(longer)
  <2>1. longer # <<>> /\ Len(longer) >= 1
    BY <1>2
  <2>2. /\ Tail(longer) \in Seq(CounterValue) /\ Len(Tail(longer)) = Len(longer) - 1
        /\ \A i \in 1..(Len(longer) - 1) : Tail(longer)[i] = longer[i + 1]
    BY <1>2, <2>1
  <2>3. Len(longer) - 1 >= 1 => Tail(longer)[Len(longer) - 1] = longer[Len(longer)]
    <3> SUFFICES ASSUME Len(longer) - 1 >= 1
                 PROVE  Tail(longer)[Len(longer) - 1] = longer[Len(longer)]
      OBVIOUS
    <3>1. Len(longer) - 1 \in 1..(Len(longer) - 1) /\ (Len(longer) - 1) + 1 = Len(longer)
      BY <1>2
    <3> QED BY <2>2, <3>1
  <2> QED BY <1>2, <1>5, <2>2, <2>3
<1> QED BY <1>3, <1>4, <1>5

\* A collection adds its point.
LEMMA PointSeries ==
  ASSUME MxTypeOK, SeriesInv, CollectPoints
  PROVE  SeriesInv' /\ MxTypeOK'
<1>1. /\ mxLoaded # -1
      /\ mxExcess' = IF mxRaced \/ Throughput <= mxCould THEN 0 ELSE Throughput - mxCould
      /\ mxCould' = 0 /\ mxRaced' = FALSE /\ mxLoaded' = -1
      /\ UNCHANGED <<mxHeld, mxOwed, mxGauges, mxTotals, mxTick, mxReset>>
  BY DEF CollectPoints, mxAdmin
<1>2. mxExcess' = 0
  BY <1>1, ReportsWhatWasCounted
<1>3. MxTypeOK'
  BY <1>1, PointKept DEF MxTypeOK, mxGauges, mxTotals
<1>4. Len(mxHistory) \in Nat
  BY LastPointIsValue
<1>5. mxReset # "totals_zeroed" /\ Len(mxHistory') >= 2 =>
        Same(mxCompleted', LastPoint' + mxSince')
  <2>1. Len(mxHistory') >= 2 => Len(mxHistory) >= 1 /\ LastPoint' = mxLoaded
    BY <1>4, PointKept DEF LastPoint
  <2>2. mxReset # "totals_zeroed" /\ Len(mxHistory) >= 1 => Same(mxCompleted, mxLoaded + mxSince)
    BY <1>1 DEF SeriesInv, PointsFollow
  <2>3. mxCompleted' = mxCompleted /\ mxSince' = mxSince
    BY <1>1 DEF mxTotals
  <2> QED BY <2>1, <2>2, <2>3
<1>6. PointsFollow'
  BY <1>1, <1>5 DEF PointsFollow, Same
<1>7. CollectionsMeetOnce'
  <2>1. mxReset = "history_cleared" => Len(mxHistory) = 0 /\ mxTick
    BY <1>1 DEF SeriesInv, CollectionsMeetOnce
  <2>2. mxReset = "history_cleared" => Len(mxHistory') \in {0, 1}
    <3> SUFFICES ASSUME mxReset = "history_cleared" PROVE Len(mxHistory') \in {0, 1}
      OBVIOUS
    <3>1. Len(mxHistory) = 0
      BY <2>1
    <3>2. Len(mxHistory') \in Nat /\ Len(mxHistory') <= Len(mxHistory) + 1
      BY PointKept
    <3>3. PICK m \in Nat : m = Len(mxHistory')
      BY <3>2
    <3>4. m <= 1
      BY <3>1, <3>2, <3>3
    <3>5. m = 0 \/ m = 1
      BY <3>4
    <3> QED BY <3>3, <3>5
  <2> QED BY <1>1, <2>1, <2>2 DEF CollectionsMeetOnce
<1> QED BY <1>2, <1>3, <1>6, <1>7 DEF SeriesInv

\* A reset begins, clears jobs, zeroes totals and forgets the history.
LEMMA ResetSeries ==
  ASSUME MxTypeOK, JobsAreFew, SeriesInv, ResetBegins \/ Reset \/ ResetMetrics
  PROVE  /\ SeriesInv' /\ MxTypeOK' /\ JobsAreFew'
         /\ mxForgot' \/ UNCHANGED <<mxHeld, mxOwed, mxGauges, mxForgot>>
<1>1. CASE ResetBegins
  <2>1. /\ mxReset = "idle" /\ mxReset' \in {"all", "metrics"} /\ mxTick' = (mxLoaded # -1)
        /\ UNCHANGED <<mxHeld, mxOwed, mxGauges, mxTotals, mxHistory, mxTelling, mxForgot>>
    BY <1>1 DEF ResetBegins
  <2>2. PointsFollow'
    BY <2>1 DEF SeriesInv, PointsFollow, LastPoint, Same, mxTotals, mxTelling
  <2>3. CollectionsMeetOnce' /\ mxExcess' = 0
    BY <2>1 DEF SeriesInv, CollectionsMeetOnce, mxTelling
  <2>4. MxTypeOK' /\ JobsAreFew'
    BY <2>1 DEF MxTypeOK, JobsAreFew, ResetSteps, mxGauges, mxTotals, mxTelling
  <2> QED BY <2>1, <2>2, <2>3, <2>4 DEF SeriesInv
<1>2. ASSUME NEW places, NEW from, NEW to, ResetClears(places, from, to),
             from # "totals_zeroed", from # "idle",
             to \in {"shards_cleared", "jobs_cleared"}
      PROVE  SeriesInv' /\ MxTypeOK' /\ JobsAreFew' /\ mxForgot'
  <2>1. /\ mxReset = from /\ mxReset' = to /\ mxForgot' = TRUE
        /\ mxHeld' = [p \in Place |-> IF p \in places THEN 0 ELSE mxHeld[p]]
        /\ UNCHANGED <<mxOwed, mxGauges, mxTotals, mxSeries>>
    BY <1>2 DEF ResetClears
  <2>2. mxHeld' \in [Place -> Nat]
    BY <2>1 DEF MxTypeOK
  <2>3. \A p \in Place : mxHeld[p] \in Nat /\ mxHeld'[p] \in Nat /\ mxHeld'[p] <= mxHeld[p]
    BY <2>1 DEF MxTypeOK
  <2>4. JobsAreFew'
    BY <2>3, MetricsAssumption DEF JobsAreFew, Place
  <2>5. MxTypeOK'
    BY <1>2, <2>1, <2>2 DEF MxTypeOK, ResetSteps, mxGauges, mxTotals, mxSeries, mxTelling
  <2>6. PointsFollow'
    BY <1>2, <2>1 DEF SeriesInv, PointsFollow, LastPoint, Same, mxTotals, mxSeries, mxTelling
  <2>7. CollectionsMeetOnce' /\ mxExcess' = 0
    BY <1>2, <2>1 DEF SeriesInv, CollectionsMeetOnce, mxSeries, mxTelling
  <2> QED BY <2>1, <2>4, <2>5, <2>6, <2>7 DEF SeriesInv
<1>3. ASSUME NEW from, NEW to, ResetForgetsHistory(from, to),
             from # "idle", to \in {"history_cleared", "idle"}
      PROVE  /\ SeriesInv' /\ MxTypeOK' /\ JobsAreFew'
             /\ UNCHANGED <<mxHeld, mxOwed, mxGauges, mxForgot>>
  <2>1. /\ mxReset = from /\ mxReset' = to /\ mxHistory' = <<>>
        /\ mxTick' = IF to = "idle" THEN FALSE ELSE mxTick
        /\ UNCHANGED <<mxHeld, mxOwed, mxGauges, mxTotals, mxTelling, mxForgot>>
    BY <1>3 DEF ResetForgetsHistory
  <2>2. Len(mxHistory') = 0 /\ mxHistory' \in Seq(CounterValue)
    BY <2>1
  <2>3. PointsFollow'
    BY <2>2 DEF PointsFollow
  <2>4. CollectionsMeetOnce' /\ mxExcess' = 0
    BY <1>3, <2>1, <2>2 DEF SeriesInv, CollectionsMeetOnce, mxTelling
  <2>5. MxTypeOK' /\ JobsAreFew'
    BY <1>3, <2>1, <2>2 DEF MxTypeOK, JobsAreFew, ResetSteps, mxGauges, mxTotals, mxTelling
  <2> QED BY <2>1, <2>3, <2>4, <2>5 DEF SeriesInv
<1>4. ASSUME NEW from, NEW to, ResetZeroes(from, to),
             <<from, to>> \in {<<"history_cleared", "idle">>, <<"metrics", "totals_zeroed">>}
      PROVE  /\ SeriesInv' /\ MxTypeOK' /\ JobsAreFew'
             /\ UNCHANGED <<mxHeld, mxOwed, mxGauges, mxForgot>>
  <2>1. /\ mxReset = from /\ mxReset' = to /\ mxCompleted' = 0
        /\ mxTick' = IF to = "idle" THEN FALSE ELSE mxTick
        /\ UNCHANGED <<mxHeld, mxOwed, mxGauges, mxSince, mxHistory, mxTelling, mxForgot>>
    BY <1>4 DEF ResetZeroes
  <2>2. 0 \in CounterValue
    BY MetricsAssumption DEF CounterValue
  <2>3. MxTypeOK' /\ JobsAreFew'
    BY <1>4, <2>1, <2>2 DEF MxTypeOK, JobsAreFew, ResetSteps, mxGauges, mxTelling
  <2>4. mxExcess' = 0
    BY <2>1 DEF SeriesInv, mxTelling
  <2>5. CASE from = "history_cleared" /\ to = "idle"
    <3>1. Len(mxHistory) = 0 \/ (Len(mxHistory) = 1 /\ mxLoaded = -1)
      BY <2>1, <2>5 DEF SeriesInv, CollectionsMeetOnce
    <3>2. PointsFollow'
      <4>1. mxHistory' = mxHistory /\ mxLoaded' = mxLoaded
        BY <2>1 DEF mxTelling
      <4>2. Len(mxHistory') = 0 \/ (Len(mxHistory') = 1 /\ mxLoaded' = -1)
        BY <3>1, <4>1
      <4>3. ~(Len(mxHistory') >= 2) /\ ~(mxLoaded' # -1 /\ Len(mxHistory') >= 1)
        <5>1. CASE Len(mxHistory') = 0
          BY <5>1
        <5>2. CASE Len(mxHistory') = 1 /\ mxLoaded' = -1
          <6>1. ~(Len(mxHistory') >= 2)
            BY <5>2
          <6>2. mxLoaded' = -1
            BY <5>2
          <6> QED BY <6>1, <6>2
        <5> QED BY <4>2, <5>1, <5>2
      <4> HIDE <4>1, <4>2
      <4> QED BY <4>3, Zenon DEF PointsFollow
    <3>3. CollectionsMeetOnce'
      BY <2>1, <2>5 DEF CollectionsMeetOnce
    <3> QED BY <2>1, <2>3, <2>4, <3>2, <3>3 DEF SeriesInv
  <2>6. CASE from = "metrics" /\ to = "totals_zeroed"
    <3>1. PointsFollow'
      BY <2>1, <2>6 DEF SeriesInv, PointsFollow, LastPoint, Same, mxTelling
    <3>2. CollectionsMeetOnce'
      BY <2>1, <2>6 DEF SeriesInv, CollectionsMeetOnce, mxTelling
    <3> QED BY <2>1, <2>3, <2>4, <3>1, <3>2 DEF SeriesInv
  <2> QED BY <1>4, <2>5, <2>6
<1>5. CASE Reset
  <2>1. CASE ResetClears({"waiting", "queue", "dlq"}, "all", "shards_cleared")
    BY <1>2, <2>1
  <2>2. CASE ResetClears({"processing"}, "shards_cleared", "jobs_cleared")
    BY <1>2, <2>2
  <2>3. CASE ResetForgetsHistory("jobs_cleared", "history_cleared")
    BY <1>3, <2>3
  <2>4. CASE ResetZeroes("history_cleared", "idle")
    BY <1>4, <2>4
  <2> QED BY <1>5, <2>1, <2>2, <2>3, <2>4 DEF Reset
<1>6. CASE ResetMetrics
  <2>1. CASE ResetZeroes("metrics", "totals_zeroed")
    BY <1>4, <2>1
  <2>2. CASE ResetForgetsHistory("totals_zeroed", "idle")
    BY <1>3, <2>2
  <2> QED BY <1>6, <2>1, <2>2 DEF ResetMetrics
<1> QED BY <1>1, <1>5, <1>6

-----------------------------------------------------------------------------
(* The invariant *)

\* It holds of a new server.
LEMMA MxInitially == MxInit => MxInv
<1> SUFFICES ASSUME MxInit PROVE MxInv
  OBVIOUS
<1>0. MxJobs \in Nat /\ MxWidth \in Nat \ {0} /\ 0 \in CounterValue
  BY MetricsAssumption DEF CounterValue
<1>1. MxTypeOK
  <2>1. mxHeld \in [Place -> Nat]
    BY <1>0 DEF MxInit
  <2>2. DOMAIN mxOwed = {} /\ mxOwed \in [DOMAIN mxOwed -> Nat \ {0}]
    BY DEF MxInit, EmptyBag, SetToBag
  <2>3. mxHistory \in Seq(CounterValue)
    BY DEF MxInit
  <2> QED BY <1>0, <2>1, <2>2, <2>3 DEF MxInit, MxTypeOK, ResetSteps
<1>2. \A p \in Place : mxHeld[p] = IF p = "new" THEN MxJobs ELSE 0
  BY DEF MxInit
<1>3. JobsAreFew
  BY <1>0, <1>2 DEF JobsAreFew, Place
<1>4. GaugesFollow
  <2> DEFINE t == [k \in CountKinds |-> 0]
  <2>1. Totals(mxOwed, t)
    BY NothingOwed DEF MxInit
  <2>2. QueueSum(t) = 0 /\ ProcessingSum(t) = 0 /\ DlqSum(t) = 0
    BY <1>2 DEF QueueSum, ProcessingSum, DlqSum, Place, CountKinds
  <2> HIDE DEF t
  <2>3. Same(0, 0)
    <3>1. 0 = 0 + 0 * MxWidth
      BY <1>0
    <3> QED BY <3>1 DEF Same
  <2>4. GaugesAre(t)
    BY <2>2, <2>3 DEF GaugesAre, MxInit
  <2> QED BY <2>1, <2>4 DEF GaugesFollow
<1>5. SeriesInv
  <2>1. Len(mxHistory) = 0 /\ mxReset = "idle" /\ mxExcess = 0
    BY DEF MxInit
  <2> QED BY <2>1 DEF SeriesInv, PointsFollow, CollectionsMeetOnce
<1> QED BY <1>1, <1>3, <1>4, <1>5 DEF MxInv, SeriesInv

\* It is kept by every step.
LEMMA MxInvStep == MxInv /\ [MxNext]_mxVars => MxInv'
<1> SUFFICES ASSUME MxInv, [MxNext]_mxVars PROVE MxInv'
  OBVIOUS
<1>1. MxTypeOK /\ JobsAreFew /\ GaugesFollow /\ SeriesInv
  BY DEF MxInv, SeriesInv
<1>2. SUFFICES MxTypeOK' /\ JobsAreFew' /\ GaugesFollow' /\ SeriesInv'
  BY DEF MxInv, SeriesInv
<1>3. CASE MxPush \/ MxPull \/ MxAck \/ MxAckBatch \/ MxFailRetries \/ MxFailBuries
           \/ MxFailRemoves
  BY <1>1, <1>3, CountedMoves, CountedFollows, SeriesStays
<1>4. CASE MxTakenAway \/ MxBuried \/ MxQueuedAgain
  BY <1>1, <1>4, ForgottenFollows, SeriesStays
<1>12. CASE MxPushWaits \/ MxWaitingCancelled
  BY <1>1, <1>12, UncountedFollows, SeriesStays
<1>13. CASE MxCountsKnown \/ MxPushUndone
  BY <1>1, <1>13, MiscountedFollows, SeriesStays
<1>5. CASE MxTimesOut \/ MxTimedOutFiled
  BY <1>1, <1>5, TimeoutFollows, SeriesStays
<1>6. CASE MxCount
  BY <1>1, <1>6, CountFollows, CountSeries
<1>7. ASSUME UNCHANGED <<mxHeld, mxOwed, mxGauges, mxForgot>> PROVE JobsAreFew' /\ GaugesFollow'
  BY <1>1, <1>7
     DEF JobsAreFew, GaugesFollow, GaugesAre, QueueSum, ProcessingSum, DlqSum, Same, mxGauges
<1>8. CASE CollectLoads
  <2>1. UNCHANGED <<mxHeld, mxOwed, mxGauges, mxForgot>>
    BY <1>8 DEF CollectLoads
  <2> QED BY <1>1, <1>7, <1>8, <2>1, LoadSeries
<1>9. CASE CollectPoints
  <2>1. UNCHANGED <<mxHeld, mxOwed, mxGauges, mxForgot>>
    BY <1>9 DEF CollectPoints
  <2> QED BY <1>1, <1>7, <1>9, <2>1, PointSeries
<1>10. CASE ResetBegins \/ Reset \/ ResetMetrics
  <2>1. SeriesInv' /\ MxTypeOK' /\ JobsAreFew'
        /\ (mxForgot' \/ UNCHANGED <<mxHeld, mxOwed, mxGauges, mxForgot>>)
    BY <1>1, <1>10, ResetSeries
  <2>2. GaugesFollow'
    <3>1. CASE mxForgot'
      BY <3>1 DEF GaugesFollow
    <3> QED BY <1>7, <2>1, <3>1
  <2> QED BY <2>1, <2>2
<1>11. CASE UNCHANGED mxVars
  <2>1. UNCHANGED <<mxHeld, mxOwed, mxGauges, mxForgot, mxTotals, mxSeries, mxAdmin>>
    BY <1>11 DEF mxVars
  <2>2. MxTypeOK'
    BY <1>1, <2>1 DEF MxTypeOK, mxGauges, mxTotals, mxSeries, mxTelling, mxAdmin
  <2> QED BY <1>1, <1>7, <2>1, <2>2, SeriesStays
<1> QED BY <1>3, <1>4, <1>5, <1>6, <1>8, <1>9, <1>10, <1>11, <1>12,
           <1>13 DEF MxNext

\* It says that the metrics add up.
LEMMA GaugesAddUp == MxInv => MetricsAddUp
<1> SUFFICES ASSUME MxInv PROVE MetricsAddUp
  OBVIOUS
<1>1. ThroughputIsReal
  BY DEF MxInv, ThroughputIsReal
<1>2. ASSUME ~mxForgot, mxOwed = EmptyBag,
             mxHeld["hand-queue"] = 0, mxHeld["hand-dlq"] = 0
      PROVE  /\ mxQueued = mxHeld["queue"] /\ mxProcessing = mxHeld["processing"]
             /\ mxDlq = mxHeld["dlq"]
  <2>1. PICK t : Totals(EmptyBag, t) /\ GaugesAre(t)
    BY <1>2 DEF MxInv, GaugesFollow
  <2>2. \A k \in CountKinds : t[k] = 0
    BY <2>1, NothingOwed
  <2>3. \A p \in Place : mxHeld[p] \in Nat
    BY MxTypeParts DEF MxInv
  <2>4. /\ QueueSum(t) = mxHeld["queue"] /\ ProcessingSum(t) = mxHeld["processing"]
        /\ DlqSum(t) = mxHeld["dlq"]
    BY <1>2, <2>2, <2>3 DEF QueueSum, ProcessingSum, DlqSum, Place, CountKinds
  <2>5. \A p \in {"queue", "processing", "dlq"} : mxHeld[p] \in Nat /\ mxHeld[p] < MxWidth
    BY <2>3, MetricsAssumption DEF MxInv, JobsAreFew, Place
  <2>6. {mxQueued, mxProcessing, mxDlq} \subseteq CounterValue
    BY MxTypeParts DEF MxInv
  <2>7. /\ Same(mxQueued, mxHeld["queue"]) /\ Same(mxProcessing, mxHeld["processing"])
        /\ Same(mxDlq, mxHeld["dlq"])
    BY <2>1, <2>4 DEF GaugesAre
  <2> QED BY <2>5, <2>6, <2>7, SameIsLeast
<1> QED BY <1>1, <1>2 DEF MetricsAddUp, QuietGaugesAreExact

\* When every call has made its counts the gauges are exact, and a point reports
\* no more completions than were counted; for any number of jobs, any width of
\* the counters with room for them, and any mix of calls, collections and resets.
THEOREM CountersAddUp == MxSpec => []MetricsAddUp
<1>1. MxInit => MxInv
  BY MxInitially
<1>2. MxInv /\ [MxNext]_mxVars => MxInv'
  BY MxInvStep
<1>3. MxInv => MetricsAddUp
  BY GaugesAddUp
<1> QED BY <1>1, <1>2, <1>3, PTL DEF MxSpec

-----------------------------------------------------------------------------
(***************************************************************************)
(* The indexed heap, for any ids, priorities and times.  The sifts are     *)
(* followed place by place: they keep the entries, and they keep every     *)
(* order of them that the comparison respects -- by priority and time      *)
(* always, by age as well while all entries are of one kind.  The          *)
(* comparison itself is no order when they are not.                        *)
(***************************************************************************)

\* What holds of 0 and of the successor of each number it holds of, holds of all.
LEMMA NumbersAreReached ==
  ASSUME NEW S, 0 \in S, \A n \in Nat : n \in S => n + 1 \in S
  PROVE  Nat \subseteq S
<1> DEFINE T == Nat \ S
<1>1. SUFFICES ASSUME T # {} PROVE FALSE
  OBVIOUS
<1>2. PICK x \in T : \A y \in T : x <= y
  BY <1>1, LeastNumber
<1>3. x # 0 /\ x - 1 \in Nat /\ x - 1 \notin T
  BY <1>2
<1> QED BY <1>2, <1>3

\* The parent of a place in the heap, and its two children.
LEMMA Halves ==
  ASSUME NEW k \in Nat, k >= 2
  PROVE  /\ k \div 2 \in Nat /\ k \div 2 >= 1 /\ k \div 2 < k
         /\ k = 2 * (k \div 2) \/ k = 2 * (k \div 2) + 1
OBVIOUS

\* The functions by which the heap sifts exist: each is built up one place at a time.
LEMMA RisingIsDefined ==
  ASSUME NEW n \in Nat
  PROVE  \A i \in 1..n : \A h \in Heaps(n) :
           Rising(n)[i][h] = IF i = 1 THEN h
                             ELSE IF ~Greater(h[i], h[i \div 2]) THEN h
                             ELSE Rising(n)[i \div 2][Swap(h, i, i \div 2)]
<1> DEFINE X == Heaps(n)
           Body(f, i) == [h \in X |->
             IF i = 1 THEN h
             ELSE IF ~Greater(h[i], h[i \div 2]) THEN h
             ELSE f[i \div 2][Swap(h, i, i \div 2)]]
           Built == {m \in Nat : \E f : f = [i \in 1..m |-> Body(f, i)]}
<1>1. 0 \in Built
  <2> DEFINE f0 == [i \in 1..0 |-> 0]
  <2>1. f0 = [i \in 1..0 |-> Body(f0, i)]
    OBVIOUS
  <2> QED BY <2>1
<1>2. ASSUME NEW m \in Nat, m \in Built PROVE m + 1 \in Built
  <2>1. PICK f : f = [i \in 1..m |-> Body(f, i)]
    BY <1>2
  <2> DEFINE g == [i \in 1..(m + 1) |-> Body(f, i)]
  <2>2. ASSUME NEW i \in 1..m PROVE f[i] = Body(f, i) /\ g[i] = f[i]
    <3> HIDE DEF Body
    <3> QED BY <2>1
  <2>3. ASSUME NEW i \in 1..(m + 1) PROVE Body(f, i) = Body(g, i)
    <3> HIDE DEF g
    <3>1. CASE i = 1
      BY <3>1
    <3>2. CASE i # 1
      <4>1. i \div 2 \in 1..m
        BY <3>2, Halves
      <4>2. f[i \div 2] = g[i \div 2]
        BY <4>1, <2>2
      <4> QED BY <4>2
    <3> QED BY <3>1, <3>2
  <2>4. g = [i \in 1..(m + 1) |-> Body(g, i)]
    <3> HIDE DEF Body
    <3> QED BY <2>3
  <2> HIDE DEF g, Body
  <2> QED BY <2>4
<1>3. n \in Built
  <2> HIDE DEF Built
  <2> QED BY <1>1, <1>2, NumbersAreReached
<1>4. \E f : f = [i \in 1..n |-> Body(f, i)]
  BY <1>3
<1>5. Rising(n) = CHOOSE f : f = [i \in 1..n |-> Body(f, i)]
  BY DEF Rising
<1>6. Rising(n) = [i \in 1..n |-> Body(Rising(n), i)]
  <2> HIDE DEF Body
  <2> QED BY <1>4, <1>5
<1>7. ASSUME NEW i \in 1..n, NEW h \in Heaps(n)
      PROVE  Rising(n)[i][h] = Body(Rising(n), i)[h]
  <2> HIDE DEF Body
  <2> QED BY <1>6
<1> QED BY <1>7

LEMMA GreaterChildIsChild ==
  ASSUME NEW n \in Nat, NEW h, NEW i \in 1..n, 2 * i <= n
  PROVE  LET c == GreaterChild(h, n, i) IN
           /\ c \in 1..n /\ c > i /\ c \div 2 = i
           /\ c = 2 * i \/ c = 2 * i + 1
BY DEF GreaterChild

LEMMA FallingIsDefined ==
  ASSUME NEW n \in Nat
  PROVE  \A i \in 1..n : \A h \in Heaps(n) :
           Falling(n)[i][h] =
             IF 2 * i > n THEN Rising(n)[i][h]
             ELSE Falling(n)[GreaterChild(h, n, i)][Swap(h, i, GreaterChild(h, n, i))]
<1> DEFINE X == Heaps(n)
           Body(f, i) == [h \in X |->
             IF 2 * i > n THEN Rising(n)[i][h]
             ELSE f[GreaterChild(h, n, i)][Swap(h, i, GreaterChild(h, n, i))]]
           Built == {m \in Nat : m <= n => \E f : f = [i \in (n + 1 - m)..n |-> Body(f, i)]}
<1>1. 0 \in Built
  <2> DEFINE f0 == [i \in (n + 1 - 0)..n |-> 0]
  <2>1. (n + 1 - 0)..n = {}
    OBVIOUS
  <2>2. f0 = [i \in (n + 1 - 0)..n |-> Body(f0, i)]
    BY <2>1
  <2> HIDE DEF f0, Body
  <2> QED BY <2>2
<1>2. ASSUME NEW m \in Nat, m \in Built PROVE m + 1 \in Built
  <2> DEFINE D == (n + 1 - m)..n
             D2 == (n + 1 - (m + 1))..n
  <2> SUFFICES ASSUME m + 1 <= n PROVE \E g : g = [i \in D2 |-> Body(g, i)]
    OBVIOUS
  <2>1. PICK f : f = [i \in D |-> Body(f, i)]
    BY <1>2
  <2> DEFINE g == [i \in D2 |-> Body(f, i)]
  <2>2. ASSUME NEW i \in D PROVE f[i] = Body(f, i) /\ g[i] = f[i]
    <3> HIDE DEF Body
    <3>1. f[i] = Body(f, i)
      BY <2>1
    <3>2. i \in D2
      OBVIOUS
    <3> QED BY <3>1, <3>2
  <2>3. ASSUME NEW i \in D2, NEW h \in X
        PROVE  Body(f, i)[h] = Body(g, i)[h]
    <3> HIDE DEF g
    <3>1. CASE 2 * i > n
      BY <3>1
    <3>2. CASE ~(2 * i > n)
      <4>1. i \in 1..n
        OBVIOUS
      <4> DEFINE c == GreaterChild(h, n, i)
      <4>2. c \in D
        BY <4>1, <3>2, GreaterChildIsChild
      <4>3. f[c] = g[c]
        BY <4>2, <2>2
      <4> HIDE DEF c
      <4> QED BY <4>3, <3>2 DEF c
    <3> QED BY <3>1, <3>2
  <2>4. ASSUME NEW i \in D2 PROVE Body(f, i) = Body(g, i)
    <3> HIDE DEF g
    <3> QED BY <2>3
  <2>5. g = [i \in D2 |-> Body(g, i)]
    <3> HIDE DEF Body
    <3> QED BY <2>4
  <2> HIDE DEF g, Body
  <2> QED BY <2>5
<1>3. n \in Built
  <2> HIDE DEF Built
  <2> QED BY <1>1, <1>2, NumbersAreReached
<1>4. \E f : f = [i \in 1..n |-> Body(f, i)]
  <2> HIDE DEF Body
  <2>1. n + 1 - n = 1
    OBVIOUS
  <2> QED BY <1>3, <2>1
<1>5. Falling(n) = CHOOSE f : f = [i \in 1..n |-> Body(f, i)]
  BY DEF Falling
<1>6. Falling(n) = [i \in 1..n |-> Body(Falling(n), i)]
  <2> HIDE DEF Body
  <2> QED BY <1>4, <1>5
<1>7. ASSUME NEW i \in 1..n, NEW h \in Heaps(n)
      PROVE  Falling(n)[i][h] = Body(Falling(n), i)[h]
  <2> HIDE DEF Body
  <2> QED BY <1>6
<1> QED BY <1>7

LEMMA SettlingIsDefined ==
  ASSUME NEW n \in Nat
  PROVE  \A k \in 0..n : \A h \in Heaps(k) :
           Settling(n)[k][h] = IF k = 0 THEN h
                               ELSE IF Live(h[1]) THEN h
                               ELSE Settling(n)[k - 1][HeapPop(h)]
<1> DEFINE Body(f, k) == [h \in Heaps(k) |->
             IF k = 0 THEN h ELSE IF Live(h[1]) THEN h ELSE f[k - 1][HeapPop(h)]]
           Built == {m \in Nat : \E f : f = [k \in 0..m |-> Body(f, k)]}
<1>1. 0 \in Built
  <2> DEFINE f0 == [k \in 0..0 |-> [h \in Heaps(k) |-> h]]
  <2>1. ASSUME NEW k \in 0..0 PROVE f0[k] = Body(f0, k)
    <3>1. k = 0
      OBVIOUS
    <3> QED BY <3>1
  <2> HIDE DEF Body
  <2>2. f0 = [k \in 0..0 |-> Body(f0, k)]
    BY <2>1
  <2> HIDE DEF f0
  <2> QED BY <2>2
<1>2. ASSUME NEW m \in Nat, m \in Built PROVE m + 1 \in Built
  <2>1. PICK f : f = [k \in 0..m |-> Body(f, k)]
    BY <1>2
  <2> DEFINE g == [k \in 0..(m + 1) |-> Body(f, k)]
  <2>2. ASSUME NEW k \in 0..m PROVE f[k] = Body(f, k) /\ g[k] = f[k]
    <3> HIDE DEF Body
    <3> QED BY <2>1
  <2>3. ASSUME NEW k \in 0..(m + 1) PROVE Body(f, k) = Body(g, k)
    <3> HIDE DEF g
    <3>1. CASE k = 0
      BY <3>1
    <3>2. CASE k # 0
      <4>1. k - 1 \in 0..m
        BY <3>2
      <4>2. f[k - 1] = g[k - 1]
        BY <4>1, <2>2
      <4> QED BY <4>2
    <3> QED BY <3>1, <3>2
  <2>4. g = [k \in 0..(m + 1) |-> Body(g, k)]
    <3> HIDE DEF Body
    <3> QED BY <2>3
  <2> HIDE DEF g, Body
  <2> QED BY <2>4
<1>3. n \in Built
  <2> HIDE DEF Built
  <2> QED BY <1>1, <1>2, NumbersAreReached
<1>4. \E f : f = [k \in 0..n |-> Body(f, k)]
  BY <1>3
<1>5. Settling(n) = CHOOSE f : f = [k \in 0..n |-> Body(f, k)]
  BY DEF Settling
<1>6. Settling(n) = [k \in 0..n |-> Body(Settling(n), k)]
  <2> HIDE DEF Body
  <2> QED BY <1>4, <1>5
<1>7. ASSUME NEW k \in 0..n, NEW h \in Heaps(k)
      PROVE  Settling(n)[k][h] = Body(Settling(n), k)[h]
  <2> HIDE DEF Body
  <2> QED BY <1>6
<1> QED BY <1>7

\* What heap entries there are, and that none is there twice.
Spread(h, n) == {h[k] : k \in 1..n}
Apart(h, n) == \A j, k \in 1..n : j # k => h[j] # h[k]

\* Ord is an order of the entries E that the comparison of the heap keeps to.
Ranks(Ord, E) ==
  /\ \A a, b \in E : Greater(a, b) => <<a, b>> \in Ord
  /\ \A a, b \in E : ~Greater(a, b) => <<b, a>> \in Ord
  /\ \A a, b, c \in E : <<a, b>> \in Ord /\ <<b, c>> \in Ord => <<a, c>> \in Ord

\* A heap; a heap but for an element that may have to rise from i; and one but
\* for an element that may have to fall from i.
Ordered(h, n, Ord) == \A k \in 2..n : <<h[k \div 2], h[k]>> \in Ord
Bridged(h, n, Ord, i) ==
  \A k \in 2..n : k \div 2 = i /\ i >= 2 => <<h[i \div 2], h[k]>> \in Ord
ToRise(h, n, Ord, i) ==
  Bridged(h, n, Ord, i) /\ \A k \in 2..n : k # i => <<h[k \div 2], h[k]>> \in Ord
ToFall(h, n, Ord, i) ==
  Bridged(h, n, Ord, i) /\ \A k \in 2..n : k # i /\ k \div 2 # i => <<h[k \div 2], h[k]>> \in Ord

LEMMA SwapMoves ==
  ASSUME NEW n \in Nat, NEW h \in Heaps(n), NEW i \in 1..n, NEW j \in 1..n, i # j
  PROVE  LET g == Swap(h, i, j) IN
           /\ g \in Heaps(n) /\ g[i] = h[j] /\ g[j] = h[i]
           /\ \A k \in 1..n : k # i /\ k # j => g[k] = h[k]
           /\ Spread(g, n) = Spread(h, n)
           /\ Apart(h, n) => Apart(g, n)
<1> DEFINE g == Swap(h, i, j)
<1>1. /\ g \in Heaps(n) /\ g[i] = h[j] /\ g[j] = h[i]
      /\ \A k \in 1..n : k # i /\ k # j => g[k] = h[k]
  BY DEF Swap, Heaps
<1> HIDE DEF g
<1>2. Spread(g, n) = Spread(h, n)
  <2>1. ASSUME NEW k \in 1..n PROVE g[k] \in Spread(h, n)
    BY <1>1 DEF Spread
  <2>2. ASSUME NEW k \in 1..n PROVE h[k] \in Spread(g, n)
    BY <1>1 DEF Spread
  <2> QED BY <2>1, <2>2 DEF Spread
<1>3. Apart(h, n) => Apart(g, n)
  <2> SUFFICES ASSUME Apart(h, n), NEW k \in 1..n, NEW l \in 1..n, k # l
               PROVE  g[k] # g[l]
    BY DEF Apart
  <2>1. CASE k = i
    BY <1>1, <2>1 DEF Apart
  <2>2. CASE k = j
    BY <1>1, <2>2 DEF Apart
  <2>3. CASE k # i /\ k # j
    BY <1>1, <2>3 DEF Apart
  <2> QED BY <2>1, <2>2, <2>3
<1> QED BY <1>1, <1>2, <1>3 DEF g

LEMMA InSpread ==
  ASSUME NEW n \in Nat, NEW h, NEW k \in 1..n
  PROVE  h[k] \in Spread(h, n)
BY DEF Spread

\* A step up, and a step down.
LEMMA RiseStep ==
  ASSUME NEW n \in Nat, NEW h \in Heaps(n), NEW i \in 2..n, NEW Ord,
         Ranks(Ord, Spread(h, n)), ToRise(h, n, Ord, i), Greater(h[i], h[i \div 2])
  PROVE  ToRise(Swap(h, i, i \div 2), n, Ord, i \div 2)
<1> DEFINE p == i \div 2
           g == Swap(h, i, p)
           q == p \div 2
<1>2. p \in 1..n /\ p < i
  BY Halves
<1>3. /\ g[i] = h[p] /\ g[p] = h[i]
      /\ \A k \in 1..n : k # i /\ k # p => g[k] = h[k]
  <2>1. i \in 1..n /\ i # p
    BY <1>2
  <2> HIDE DEF p
  <2> QED BY <1>2, <2>1, SwapMoves
<1>4. <<h[i], h[p]>> \in Ord
  BY <1>2, InSpread DEF Ranks
<1>5. \A a, b, c \in 1..n : <<h[a], h[b]>> \in Ord /\ <<h[b], h[c]>> \in Ord => <<h[a], h[c]>> \in Ord
  BY InSpread DEF Ranks
<1> HIDE DEF g
<1>6. ASSUME NEW k \in 2..n, k # p PROVE <<g[k \div 2], g[k]>> \in Ord
  <2>1. k \div 2 \in 1..n /\ k \div 2 < k
    BY Halves
  <2>2. CASE k = i
    BY <2>2, <1>3, <1>4
  <2>3. CASE k # i /\ k \div 2 = i
    <3>1. <<h[p], h[k]>> \in Ord
      BY <2>3 DEF ToRise, Bridged
    <3>2. g[k] = h[k]
      BY <2>3, <1>6, <1>3
    <3> QED BY <3>1, <3>2, <2>3, <1>3
  <2>4. CASE k # i /\ k \div 2 = p
    <3>1. <<h[p], h[k]>> \in Ord
      BY <2>4 DEF ToRise
    <3>2. g[k] = h[k]
      BY <2>4, <1>6, <1>3
    <3>3. <<h[i], h[k]>> \in Ord
      BY <3>1, <1>4, <1>5, <1>2
    <3> QED BY <3>2, <3>3, <2>4, <1>3
  <2>5. CASE k # i /\ k \div 2 # i /\ k \div 2 # p
    <3>1. g[k] = h[k] /\ g[k \div 2] = h[k \div 2]
      BY <2>5, <1>6, <1>3, <2>1
    <3> QED BY <3>1, <2>5 DEF ToRise
  <2> QED BY <2>2, <2>3, <2>4, <2>5
<1>7. ASSUME NEW k \in 2..n, k \div 2 = p, p >= 2 PROVE <<g[q], g[k]>> \in Ord
  <2>1. q \in 1..n /\ q < p /\ p \in 2..n
    BY <1>2, <1>7, Halves
  <2>2. k > p
    BY Halves, <1>7
  <2>3. <<h[q], h[p]>> \in Ord
    BY <2>1, <1>2 DEF ToRise
  <2>4. g[q] = h[q]
    BY <2>1, <1>2, <1>3
  <2>5. CASE k = i
    BY <2>3, <2>4, <2>5, <1>3
  <2>6. CASE k # i
    <3>1. <<h[p], h[k]>> \in Ord
      BY <2>6, <1>7 DEF ToRise
    <3>2. g[k] = h[k]
      BY <2>6, <2>2, <1>3, <1>2
    <3> QED BY <3>1, <3>2, <2>3, <2>4, <1>5, <1>2, <2>1
  <2> QED BY <2>5, <2>6
<1> QED BY <1>6, <1>7 DEF ToRise, Bridged, g

LEMMA FallStep ==
  ASSUME NEW n \in Nat, NEW h \in Heaps(n), NEW i \in 1..n, 2 * i <= n, NEW Ord,
         Ranks(Ord, Spread(h, n)), ToFall(h, n, Ord, i)
  PROVE  ToFall(Swap(h, i, GreaterChild(h, n, i)), n, Ord, GreaterChild(h, n, i))
<1> DEFINE c == GreaterChild(h, n, i)
           g == Swap(h, i, c)
<1>1. c \in 1..n /\ c > i /\ c \div 2 = i /\ (c = 2 * i \/ c = 2 * i + 1)
  BY GreaterChildIsChild
<1>2. ASSUME NEW k \in 2..n, k \div 2 = i, k # c PROVE <<h[c], h[k]>> \in Ord
  <2>1. k = 2 * i \/ k = 2 * i + 1
    BY <1>2, Halves
  <2>2. 2 * i \in 1..n
    OBVIOUS
  <2>3. CASE c = 2 * i
    <3>1. k = 2 * i + 1
      BY <2>1, <2>3, <1>2
    <3>2. Greater(h[2 * i], h[2 * i + 1])
      BY <2>3, <3>1 DEF GreaterChild
    <3> QED BY <3>1, <3>2, <2>2, <2>3, InSpread DEF Ranks
  <2>4. CASE c = 2 * i + 1
    <3>1. k = 2 * i
      BY <2>1, <2>4, <1>2
    <3>2. ~Greater(h[2 * i], h[2 * i + 1])
      BY <2>4 DEF GreaterChild
    <3> QED BY <3>1, <3>2, <2>2, <2>4, <1>1, InSpread DEF Ranks
  <2> QED BY <2>3, <2>4, <1>1
<1>3. /\ g[i] = h[c] /\ g[c] = h[i]
      /\ \A k \in 1..n : k # i /\ k # c => g[k] = h[k]
  <2> HIDE DEF c
  <2> QED BY <1>1, SwapMoves
<1>4. c \in 2..n
  BY <1>1
<1> HIDE DEF g, c
<1>5. ASSUME NEW k \in 2..n, k # c, k \div 2 # c PROVE <<g[k \div 2], g[k]>> \in Ord
  <2>1. k \div 2 \in 1..n /\ k \div 2 < k
    BY Halves
  <2>2. CASE k = i
    <3>1. <<h[i \div 2], h[c]>> \in Ord
      BY <2>2, <1>1, <1>4 DEF ToFall, Bridged
    <3>2. g[k \div 2] = h[k \div 2]
      BY <2>1, <2>2, <1>3, <1>5
    <3> QED BY <3>1, <3>2, <2>2, <1>3
  <2>3. CASE k # i /\ k \div 2 = i
    BY <2>3, <1>2, <1>3, <1>5
  <2>4. CASE k # i /\ k \div 2 # i
    <3>1. g[k] = h[k] /\ g[k \div 2] = h[k \div 2]
      BY <2>4, <1>5, <1>3, <2>1
    <3> QED BY <3>1, <2>4 DEF ToFall
  <2> QED BY <2>2, <2>3, <2>4
<1>6. ASSUME NEW k \in 2..n, k \div 2 = c PROVE <<g[c \div 2], g[k]>> \in Ord
  <2>1. k > c
    BY <1>6, <1>4, Halves
  <2>2. <<h[c], h[k]>> \in Ord
    BY <1>6, <1>1, <2>1 DEF ToFall
  <2>3. g[k] = h[k]
    BY <2>1, <1>1, <1>3
  <2> QED BY <2>2, <2>3, <1>1, <1>3
<1> QED BY <1>5, <1>6 DEF ToFall, Bridged, g, c

\* What a sift leaves: the same entries, none twice if none was, in order.
Sifted(g, h, n) ==
  g \in Heaps(n) /\ Spread(g, n) = Spread(h, n) /\ (Apart(h, n) => Apart(g, n))

LEMMA RisingSifts ==
  ASSUME NEW n \in Nat
  PROVE  \A i \in 1..n : \A h \in Heaps(n) :
           /\ Sifted(Rising(n)[i][h], h, n)
           /\ \A Ord : Ranks(Ord, Spread(h, n)) /\ ToRise(h, n, Ord, i)
                => Ordered(Rising(n)[i][h], n, Ord)
<1> DEFINE Up(i, h) == Rising(n)[i][h]
           Fine(i, h) ==
             /\ Sifted(Up(i, h), h, n)
             /\ \A Ord : Ranks(Ord, Spread(h, n)) /\ ToRise(h, n, Ord, i) => Ordered(Up(i, h), n, Ord)
           Bad == {i \in 1..n : \E h \in Heaps(n) : ~Fine(i, h)}
<1>1. SUFFICES ASSUME Bad # {} PROVE FALSE
  OBVIOUS
<1>2. PICK i \in Bad : \A j \in Bad : i <= j
  <2>1. Bad \subseteq Nat
    OBVIOUS
  <2> HIDE DEF Bad
  <2> QED BY <1>1, <2>1, LeastNumber
<1>3. PICK h \in Heaps(n) : ~Fine(i, h)
  BY <1>2
<1>4. i \in 1..n
  BY <1>2
<1>5. CASE i = 1 \/ ~Greater(h[i], h[i \div 2])
  <2>1. Up(i, h) = h
    BY <1>5, <1>4, RisingIsDefined
  <2>2. Sifted(h, h, n)
    BY DEF Sifted
  <2>3. ASSUME NEW Ord, Ranks(Ord, Spread(h, n)), ToRise(h, n, Ord, i) PROVE Ordered(h, n, Ord)
    <3>1. ASSUME NEW k \in 2..n PROVE <<h[k \div 2], h[k]>> \in Ord
      <4>1. CASE k = i
        <5>1. k \div 2 \in 1..n
          BY Halves
        <5> QED BY <5>1, <4>1, <1>5, <2>3, InSpread DEF Ranks
      <4>2. CASE k # i
        BY <4>2, <2>3 DEF ToRise
      <4> QED BY <4>1, <4>2
    <3> QED BY <3>1 DEF Ordered
  <2> HIDE DEF Up
  <2> QED BY <2>1, <2>2, <2>3, <1>3
<1>6. CASE i # 1 /\ Greater(h[i], h[i \div 2])
  <2> DEFINE p == i \div 2
             g == Swap(h, i, p)
  <2>1. i \in 2..n /\ p \in 1..n /\ p < i
    BY <1>6, <1>4, Halves
  <2>2. Up(i, h) = Up(p, g)
    BY <1>6, <1>4, RisingIsDefined
  <2>3. g \in Heaps(n) /\ Spread(g, n) = Spread(h, n) /\ (Apart(h, n) => Apart(g, n))
    BY <2>1, <1>4, SwapMoves
  <2>4. Fine(p, g)
    <3> HIDE DEF Fine, p, g
    <3>1. p \notin Bad
      BY <2>1, <1>2, <1>4
    <3> QED BY <3>1, <2>1, <2>3
  <2>5. ASSUME NEW Ord, Ranks(Ord, Spread(h, n)), ToRise(h, n, Ord, i) PROVE ToRise(g, n, Ord, p)
    BY <2>1, <2>5, <1>6, RiseStep
  <2> HIDE DEF Up, p, g
  <2> QED BY <2>2, <2>3, <2>4, <2>5, <1>3 DEF Sifted
<1> QED BY <1>5, <1>6

LEMMA FallingSifts ==
  ASSUME NEW n \in Nat
  PROVE  \A i \in 1..n : \A h \in Heaps(n) :
           /\ Sifted(Falling(n)[i][h], h, n)
           /\ \A Ord : Ranks(Ord, Spread(h, n)) /\ ToFall(h, n, Ord, i)
                => Ordered(Falling(n)[i][h], n, Ord)
<1> DEFINE Down(i, h) == Falling(n)[i][h]
           Fine(i, h) ==
             /\ Sifted(Down(i, h), h, n)
             /\ \A Ord : Ranks(Ord, Spread(h, n)) /\ ToFall(h, n, Ord, i) => Ordered(Down(i, h), n, Ord)
           Bad == {i \in 1..n : \E h \in Heaps(n) : ~Fine(i, h)}
           Below == {n - i : i \in Bad}
<1>1. SUFFICES ASSUME Bad # {} PROVE FALSE
  OBVIOUS
<1>2. PICK i \in Bad : \A j \in Bad : j <= i
  <2>1. Bad \subseteq 1..n
    OBVIOUS
  <2> HIDE DEF Bad
  <2>2. Below \subseteq Nat /\ Below # {}
    <3>1. PICK x \in Bad : TRUE
      BY <1>1
    <3>2. n - x \in Below
      OBVIOUS
    <3>3. \A x2 \in Bad : n - x2 \in Nat
      BY <2>1
    <3> QED BY <3>2, <3>3
  <2>3. PICK b \in Below : \A d \in Below : b <= d
    <3> HIDE DEF Below
    <3> QED BY <2>2, LeastNumber
  <2>4. PICK i \in Bad : b = n - i
    BY <2>3
  <2>5. ASSUME NEW j \in Bad PROVE j <= i
    <3>1. n - j \in Below
      OBVIOUS
    <3>2. n - i <= n - j
      BY <3>1, <2>3, <2>4
    <3> HIDE DEF Below
    <3> QED BY <3>2, <2>1
  <2> QED BY <2>5
<1>3. PICK h \in Heaps(n) : ~Fine(i, h)
  BY <1>2
<1>4. i \in 1..n
  BY <1>2
<1>5. CASE 2 * i > n
  <2>1. Down(i, h) = Rising(n)[i][h]
    BY <1>5, <1>4, FallingIsDefined
  <2>2. ASSUME NEW Ord, ToFall(h, n, Ord, i) PROVE ToRise(h, n, Ord, i)
    <3>1. ASSUME NEW k \in 2..n PROVE k \div 2 # i
      BY <1>5, <1>4, Halves
    <3> QED BY <2>2, <3>1 DEF ToRise, ToFall, Bridged
  <2> HIDE DEF Down
  <2> QED BY <2>1, <2>2, <1>3, <1>4, RisingSifts
<1>6. CASE ~(2 * i > n)
  <2> DEFINE c == GreaterChild(h, n, i)
             g == Swap(h, i, c)
  <2>1. c \in 1..n /\ c > i /\ 2 * i <= n
    BY <1>6, <1>4, GreaterChildIsChild
  <2>2. Down(i, h) = Down(c, g)
    BY <1>6, <1>4, FallingIsDefined
  <2>3. g \in Heaps(n) /\ Spread(g, n) = Spread(h, n) /\ (Apart(h, n) => Apart(g, n))
    BY <2>1, <1>4, SwapMoves
  <2>4. Fine(c, g)
    <3> HIDE DEF Fine, c, g
    <3>1. c \notin Bad
      BY <2>1, <1>2, <1>4
    <3> QED BY <3>1, <2>1, <2>3
  <2>5. ASSUME NEW Ord, Ranks(Ord, Spread(h, n)), ToFall(h, n, Ord, i) PROVE ToFall(g, n, Ord, c)
    BY <2>1, <2>5, <1>4, FallStep
  <2> HIDE DEF Down, c, g
  <2> QED BY <2>2, <2>3, <2>4, <2>5, <1>3 DEF Sifted
<1> QED BY <1>5, <1>6

LEMMA HeapsAreSequences ==
  ASSUME NEW n \in Nat, NEW h \in Heaps(n)
  PROVE  h \in Seq(Entry) /\ Len(h) = n /\ DOMAIN h = 1..n
BY DEF Heaps

LEMMA SequencesAreHeaps ==
  ASSUME NEW h \in Seq(Entry)
  PROVE  Len(h) \in Nat /\ h \in Heaps(Len(h))
BY DEF Heaps

\* An order of some entries is an order of fewer.
LEMMA RanksFewer ==
  ASSUME NEW Ord, NEW E, NEW F, F \subseteq E, Ranks(Ord, E)
  PROVE  Ranks(Ord, F)
BY DEF Ranks

\* At the root is what nothing else in the heap comes before.
LEMMA RootComesFirst ==
  ASSUME NEW n \in Nat, NEW h \in Heaps(n), NEW Ord, Ranks(Ord, Spread(h, n)), Ordered(h, n, Ord)
  PROVE  \A e \in Spread(h, n) : <<h[1], e>> \in Ord
<1> DEFINE Bad == {k \in 1..n : <<h[1], h[k]>> \notin Ord}
<1>1. SUFFICES Bad = {}
  BY DEF Spread
<1>2. SUFFICES ASSUME Bad # {} PROVE FALSE
  OBVIOUS
<1>3. PICK k \in Bad : \A j \in Bad : k <= j
  <2>1. Bad \subseteq Nat
    OBVIOUS
  <2> HIDE DEF Bad
  <2> QED BY <1>2, <2>1, LeastNumber
<1>4. k \in 1..n /\ <<h[1], h[k]>> \notin Ord
  BY <1>3
<1>5. k # 1
  BY <1>4, InSpread DEF Ranks, Greater
<1>6. k \in 2..n /\ k \div 2 \in 1..n /\ k \div 2 < k
  BY <1>4, <1>5, Halves
<1>7. <<h[1], h[k \div 2]>> \in Ord
  BY <1>3, <1>6
<1>8. <<h[k \div 2], h[k]>> \in Ord
  BY <1>6 DEF Ordered
<1> QED BY <1>4, <1>6, <1>7, <1>8, InSpread DEF Ranks

LEMMA PushAdds ==
  ASSUME NEW n \in Nat, NEW h \in Heaps(n), NEW e \in Entry
  PROVE  LET g == HeapPush(h, e) IN
           /\ g \in Heaps(n + 1)
           /\ Spread(g, n + 1) = Spread(h, n) \cup {e}
           /\ Apart(h, n) /\ e \notin Spread(h, n) => Apart(g, n + 1)
           /\ \A Ord : Ranks(Ord, Spread(h, n) \cup {e}) /\ Ordered(h, n, Ord) => Ordered(g, n + 1, Ord)
<1> DEFINE m == n + 1
           f == Append(h, e)
<1>1. h \in Seq(Entry) /\ Len(h) = n
  BY HeapsAreSequences
<1>2. /\ f \in Heaps(m) /\ Len(f) = m
      /\ f[m] = e /\ \A k \in 1..n : f[k] = h[k]
  <2>1. f \in Seq(Entry) /\ Len(f) = m
    BY <1>1, AppendProperties
  <2>2. f[m] = e /\ \A k \in 1..n : f[k] = h[k]
    BY <1>1, AppendProperties
  <2> HIDE DEF f
  <2> QED BY <2>1, <2>2, SequencesAreHeaps
<1>3. HeapPush(h, e) = Rising(m)[m][f]
  BY <1>1, <1>2 DEF HeapPush, SiftUp
<1>4. m \in Nat /\ m \in 1..m
  OBVIOUS
<1> HIDE DEF f
<1>5. Spread(f, m) = Spread(h, n) \cup {e}
  <2>1. ASSUME NEW k \in 1..m PROVE f[k] \in Spread(h, n) \cup {e}
    <3>1. k \in 1..n \/ k = m
      OBVIOUS
    <3> QED BY <3>1, <1>2 DEF Spread
  <2>2. ASSUME NEW k \in 1..n PROVE h[k] \in Spread(f, m)
    <3>1. k \in 1..m
      OBVIOUS
    <3> QED BY <3>1, <1>2 DEF Spread
  <2>3. e \in Spread(f, m)
    BY <1>2, <1>4 DEF Spread
  <2> QED BY <2>1, <2>2, <2>3 DEF Spread
<1>6. ASSUME Apart(h, n), e \notin Spread(h, n) PROVE Apart(f, m)
  <2>1. \A k \in 1..m : k \in 1..n \/ k = m
    OBVIOUS
  <2> QED BY <2>1, <1>2, <1>6, InSpread DEF Apart
<1>7. ASSUME NEW Ord, Ordered(h, n, Ord) PROVE ToRise(f, m, Ord, m)
  <2>1. ASSUME NEW k \in 2..m PROVE k \div 2 # m
    BY Halves
  <2>2. ASSUME NEW k \in 2..m, k # m PROVE <<f[k \div 2], f[k]>> \in Ord
    <3>1. k \in 2..n /\ k \div 2 \in 1..n
      BY <2>2, Halves
    <3>2. <<h[k \div 2], h[k]>> \in Ord
      BY <3>1, <1>7 DEF Ordered
    <3> QED BY <3>1, <3>2, <1>2
  <2> QED BY <2>1, <2>2 DEF ToRise, Bridged
<1> HIDE DEF m
<1>8. /\ Sifted(Rising(m)[m][f], f, m)
      /\ \A Ord : Ranks(Ord, Spread(f, m)) /\ ToRise(f, m, Ord, m) => Ordered(Rising(m)[m][f], m, Ord)
  BY <1>2, <1>4, RisingSifts
<1>9. m = n + 1
  BY DEF m
<1> QED BY <1>3, <1>5, <1>6, <1>7, <1>8, <1>9 DEF Sifted

LEMMA PopTakesRoot ==
  ASSUME NEW n \in Nat, n # 0, NEW h \in Heaps(n), Apart(h, n)
  PROVE  LET g == HeapPop(h) IN
           /\ g \in Heaps(n - 1) /\ Apart(g, n - 1)
           /\ Spread(g, n - 1) = Spread(h, n) \ {h[1]}
           /\ \A Ord : Ranks(Ord, Spread(h, n)) /\ Ordered(h, n, Ord) => Ordered(g, n - 1, Ord)
<1> DEFINE m == n - 1
           f == [SubSeq(h, 1, m) EXCEPT ![1] = h[n]]
<1>1. h \in Seq(Entry) /\ Len(h) = n
  BY HeapsAreSequences
<1>2. CASE n = 1
  <2>1. HeapPop(h) = <<>>
    BY <1>1, <1>2 DEF HeapPop
  <2>2. <<>> \in Heaps(0)
    BY DEF Heaps
  <2>3. Spread(<<>>, 0) = {} /\ Spread(h, n) = {h[1]}
    BY <1>2 DEF Spread
  <2>4. Apart(<<>>, 0) /\ \A Ord : Ordered(<<>>, 0, Ord)
    BY DEF Apart, Ordered
  <2> QED BY <1>2, <2>1, <2>2, <2>3, <2>4
<1>3. CASE n # 1
  <2>1. m \in Nat /\ m >= 1 /\ 1 \in 1..m
    BY <1>3
  <2>2. /\ f \in Heaps(m) /\ Len(f) = m
        /\ f[1] = h[n] /\ \A k \in 2..m : f[k] = h[k]
    <3>1. /\ SubSeq(h, 1, m) \in Seq(Entry) /\ Len(SubSeq(h, 1, m)) = m
          /\ \A k \in 1..m : SubSeq(h, 1, m)[k] = h[k]
      BY <1>1, <2>1
    <3>2. h[n] \in Entry
      BY <1>1
    <3>3. /\ f \in Seq(Entry) /\ Len(f) = m
          /\ \A k \in 1..m : f[k] = IF k = 1 THEN h[n] ELSE SubSeq(h, 1, m)[k]
      <4> DEFINE t == SubSeq(h, 1, m)
      <4>1. t \in Seq(Entry) /\ Len(t) = m /\ 1 \in 1..Len(t)
        BY <3>1, <2>1
      <4> HIDE DEF t
      <4>2. /\ [t EXCEPT ![1] = h[n]] \in Seq(Entry)
            /\ Len([t EXCEPT ![1] = h[n]]) = m
            /\ \A k \in 1..m : [t EXCEPT ![1] = h[n]][k] = IF k = 1 THEN h[n] ELSE t[k]
        BY <4>1, <3>2, ExceptSeq
      <4> QED BY <4>2 DEF t
    <3> HIDE DEF f
    <3>4. f \in Heaps(m)
      BY <3>3, SequencesAreHeaps
    <3> QED BY <3>1, <3>3, <3>4, <2>1
  <2>3. HeapPop(h) = Falling(m)[1][f]
    BY <1>1, <1>3, <2>2 DEF HeapPop, SiftDownToBottom
  <2> HIDE DEF f
  <2>4. Spread(f, m) = Spread(h, n) \ {h[1]}
    <3>1. ASSUME NEW k \in 1..m PROVE f[k] \in Spread(h, n) /\ f[k] # h[1]
      <4>1. CASE k = 1
        <5>1. n \in 1..n /\ 1 \in 1..n
          BY <1>3
        <5> QED BY <5>1, <4>1, <2>2, <1>3, InSpread DEF Apart
      <4>2. CASE k # 1
        <5>1. k \in 2..m /\ k \in 1..n /\ 1 \in 1..n
          BY <4>2
        <5> QED BY <5>1, <4>2, <2>2, InSpread DEF Apart
      <4> QED BY <4>1, <4>2
    <3>2. ASSUME NEW k \in 1..n, k # 1 PROVE h[k] \in Spread(f, m)
      <4>1. CASE k = n
        BY <4>1, <2>1, <2>2 DEF Spread
      <4>2. CASE k # n
        <5>1. k \in 2..m /\ k \in 1..m
          BY <3>2, <4>2
        <5>2. f[k] = h[k]
          BY <5>1, <2>2
        <5> QED BY <5>1, <5>2 DEF Spread
      <4> QED BY <4>1, <4>2
    <3> QED BY <3>1, <3>2 DEF Spread
  <2>5. Apart(f, m)
    <3> SUFFICES ASSUME NEW j \in 1..m, NEW k \in 1..m, j # k PROVE f[j] # f[k]
      BY DEF Apart
    <3>1. j \in 1..n /\ k \in 1..n /\ n \in 1..n /\ j # n /\ k # n
      BY <1>3
    <3>2. \A l \in 1..m : l = 1 \/ l \in 2..m
      OBVIOUS
    <3> QED BY <3>1, <3>2, <2>2 DEF Apart
  <2>6. ASSUME NEW Ord, Ordered(h, n, Ord) PROVE ToFall(f, m, Ord, 1)
    <3>1. ASSUME NEW k \in 2..m, k \div 2 # 1 PROVE <<f[k \div 2], f[k]>> \in Ord
      <4>1. k \div 2 \in 2..m /\ k \in 2..n
        BY <3>1, Halves
      <4>2. <<h[k \div 2], h[k]>> \in Ord
        BY <4>1, <2>6 DEF Ordered
      <4> QED BY <4>1, <4>2, <2>2
    <3> QED BY <3>1 DEF ToFall, Bridged
  <2>7. ASSUME NEW Ord, Ranks(Ord, Spread(h, n)) PROVE Ranks(Ord, Spread(f, m))
    BY <2>4, <2>7, RanksFewer
  <2> HIDE DEF m
  <2> QED BY <2>1, <2>2, <2>3, <2>4, <2>5, <2>6, <2>7, FallingSifts DEF Sifted, m
<1> QED BY <1>2, <1>3

\* Settling discards entries that are out of date, until the root is live.
LEMMA SettleKeepsLive ==
  ASSUME NEW n \in Nat, NEW h \in Heaps(n), Apart(h, n)
  PROVE  \E m \in Nat :
           /\ Settle(h) \in Heaps(m) /\ Apart(Settle(h), m)
           /\ m # 0 => Live(Settle(h)[1])
           /\ Spread(Settle(h), m) \subseteq Spread(h, n)
           /\ \A e \in Spread(h, n) : Live(e) => e \in Spread(Settle(h), m)
           /\ \A Ord : Ranks(Ord, Spread(h, n)) /\ Ordered(h, n, Ord) => Ordered(Settle(h), m, Ord)
<1> DEFINE Left(g, f, k) == \E m \in Nat :
             /\ g \in Heaps(m) /\ Apart(g, m)
             /\ m # 0 => Live(g[1])
             /\ Spread(g, m) \subseteq Spread(f, k)
             /\ \A e \in Spread(f, k) : Live(e) => e \in Spread(g, m)
             /\ \A Ord : Ranks(Ord, Spread(f, k)) /\ Ordered(f, k, Ord) => Ordered(g, m, Ord)
           At(k, f) == Settling(n)[k][f]
           Good == {k \in Nat : k <= n => \A f \in Heaps(k) : Apart(f, k) => Left(At(k, f), f, k)}
<1>1. ASSUME NEW k \in Nat, k <= n, NEW f \in Heaps(k), Apart(f, k), k = 0 \/ Live(f[1])
      PROVE  Left(At(k, f), f, k)
  <2>1. At(k, f) = f
    BY <1>1, SettlingIsDefined
  <2>2. Left(f, f, k)
    BY <1>1
  <2> QED BY <2>1, <2>2
<1>2. 0 \in Good
  <2> HIDE DEF Left, At
  <2> QED BY <1>1
<1>3. ASSUME NEW k \in Nat, k \in Good PROVE k + 1 \in Good
  <2> SUFFICES ASSUME k + 1 <= n, NEW f \in Heaps(k + 1), Apart(f, k + 1)
               PROVE  Left(At(k + 1, f), f, k + 1)
    <3> HIDE DEF Left, At
    <3> QED OBVIOUS
  <2>1. CASE Live(f[1])
    <3> HIDE DEF Left, At
    <3> QED BY <2>1, <1>1
  <2>2. CASE ~Live(f[1])
    <3> DEFINE g == HeapPop(f)
    <3>1. At(k + 1, f) = At(k, g)
      <4>1. k + 1 \in 0..n /\ k + 1 # 0 /\ (k + 1) - 1 = k
        OBVIOUS
      <4> QED BY <4>1, <2>2, SettlingIsDefined
    <3>2. /\ g \in Heaps(k) /\ Apart(g, k)
          /\ Spread(g, k) = Spread(f, k + 1) \ {f[1]}
          /\ \A Ord : Ranks(Ord, Spread(f, k + 1)) /\ Ordered(f, k + 1, Ord) => Ordered(g, k, Ord)
      <4>1. (k + 1) - 1 = k /\ k + 1 # 0 /\ k + 1 \in Nat
        OBVIOUS
      <4> QED BY <4>1, PopTakesRoot
    <3>3. Left(At(k, g), g, k)
      <4> HIDE DEF Left, At, g
      <4> QED BY <3>2, <1>3
    <3>4. \A Ord : Ranks(Ord, Spread(f, k + 1)) => Ranks(Ord, Spread(g, k))
      BY <3>2, RanksFewer
    <3> HIDE DEF At, g
    <3>5. Left(At(k, g), f, k + 1)
      BY <3>2, <3>3, <3>4, <2>2
    <3> QED BY <3>1, <3>5
  <2> QED BY <2>1, <2>2
<1>4. n \in Good
  <2> HIDE DEF Good
  <2> QED BY <1>2, <1>3, NumbersAreReached
<1>5. Settle(h) = At(n, h)
  BY HeapsAreSequences DEF Settle
<1>6. Left(At(n, h), h, n)
  <2> HIDE DEF Left, At
  <2> QED BY <1>4
<1> QED BY <1>5, <1>6

\* The order every heap keeps; and the orders it keeps as well while it holds
\* no LIFO entry, and while it holds no other.
Sooner == {p \in Entry \X Entry :
  \/ p[1].priority > p[2].priority
  \/ p[1].priority = p[2].priority /\ p[1].run_at <= p[2].run_at}
OlderFirst == {p \in Sooner :
  p[1].priority = p[2].priority /\ p[1].run_at = p[2].run_at => p[1].job_id <= p[2].job_id}
NewerFirst == {p \in Sooner :
  p[1].priority = p[2].priority /\ p[1].run_at = p[2].run_at => p[1].job_id >= p[2].job_id}

LEMMA EntryFields ==
  ASSUME NEW e \in Entry
  PROVE  /\ e.priority \in Int /\ e.run_at \in Int
         /\ e.job_id \in PqJob /\ e.job_id \in Nat /\ e.job_id # 0
         /\ e.generation \in Nat /\ e.generation < MaxPushes
<1>1. e.job_id \in PqJob /\ e.priority \in Priorities /\ e.run_at \in RunAts
  BY DEF Entry
<1>2. e.generation \in 0..(MaxPushes - 1)
  BY DEF Entry
<1>3. /\ PqJob \subseteq Nat \ {0} /\ RunAts \subseteq Nat /\ Priorities \subseteq Int
      /\ MaxPushes \in Nat
  BY PqAssumption DEF PqAssumption
<1>4. e.generation \in Nat /\ e.generation < MaxPushes
  BY <1>2, <1>3
<1>5. e.priority \in Int /\ e.run_at \in Int
  <2>1. e.priority \in Int
    BY <1>1, <1>3
  <2>2. e.run_at \in Nat
    BY <1>1, <1>3
  <2> HIDE <1>3
  <2> QED BY <2>1, <2>2
<1>6. e.job_id \in Nat /\ e.job_id # 0
  BY <1>1, <1>3
<1> QED BY <1>1, <1>4, <1>5, <1>6

LEMMA SoonerRanks ==
  ASSUME NEW E, E \subseteq Entry
  PROVE  Ranks(Sooner, E)
<1>1. \A a \in E : a \in Entry /\ a.priority \in Int /\ a.run_at \in Int
  BY EntryFields
<1>2. \A a, b \in E : <<a, b>> \in Sooner <=>
        (a.priority > b.priority \/ (a.priority = b.priority /\ a.run_at <= b.run_at))
  BY <1>1 DEF Sooner
<1> QED BY <1>1, <1>2 DEF Ranks, Greater

LEMMA OlderFirstRanks ==
  ASSUME NEW E, E \subseteq Entry, \A e \in E : e.job_id \notin Lifo
  PROVE  Ranks(OlderFirst, E)
<1>1. \A a \in E : /\ a \in Entry /\ a.priority \in Int /\ a.run_at \in Int
                   /\ a.job_id \in Int
  BY EntryFields
<1>2. \A a, b \in E : <<a, b>> \in OlderFirst <=>
        \/ a.priority > b.priority
        \/ a.priority = b.priority /\ a.run_at < b.run_at
        \/ a.priority = b.priority /\ a.run_at = b.run_at /\ a.job_id <= b.job_id
  BY <1>1 DEF OlderFirst, Sooner
<1>3. \A a, b \in E : Greater(a, b) <=>
        \/ a.priority > b.priority
        \/ a.priority = b.priority /\ a.run_at < b.run_at
        \/ a.priority = b.priority /\ a.run_at = b.run_at /\ a.job_id < b.job_id
  <2>1. \A a, b \in E : {a.job_id, b.job_id} \cap Lifo = {}
    OBVIOUS
  <2> QED BY <2>1 DEF Greater
<1> QED BY <1>1, <1>2, <1>3 DEF Ranks

LEMMA NewerFirstRanks ==
  ASSUME NEW E, E \subseteq Entry, \A e \in E : e.job_id \in Lifo
  PROVE  Ranks(NewerFirst, E)
<1>1. \A a \in E : /\ a \in Entry /\ a.priority \in Int /\ a.run_at \in Int
                   /\ a.job_id \in Int
  BY EntryFields
<1>2. \A a, b \in E : <<a, b>> \in NewerFirst <=>
        \/ a.priority > b.priority
        \/ a.priority = b.priority /\ a.run_at < b.run_at
        \/ a.priority = b.priority /\ a.run_at = b.run_at /\ a.job_id >= b.job_id
  BY <1>1 DEF NewerFirst, Sooner
<1>3. \A a, b \in E : Greater(a, b) <=>
        \/ a.priority > b.priority
        \/ a.priority = b.priority /\ a.run_at < b.run_at
        \/ a.priority = b.priority /\ a.run_at = b.run_at /\ a.job_id > b.job_id
  <2>1. \A a, b \in E : {a.job_id, b.job_id} \cap Lifo # {}
    OBVIOUS
  <2> QED BY <2>1 DEF Greater
<1> QED BY <1>1, <1>2, <1>3 DEF Ranks

Held(h) == Spread(h, Len(h))

\* A heap whose entries have their ids in S.
Shaped(h, S) ==
  /\ h \in Seq(Entry) /\ Apart(h, Len(h))
  /\ \A e \in Held(h) : e.job_id \in S
  /\ Ordered(h, Len(h), Sooner)
  /\ S \cap Lifo = {} => Ordered(h, Len(h), OlderFirst)
  /\ S \subseteq Lifo => Ordered(h, Len(h), NewerFirst)

\* What the three operations on the heap have in common: a heap of some or all of
\* the entries, and the orders the old one kept.
LEMMA StillShaped ==
  ASSUME NEW h, NEW S, Shaped(h, S), NEW n \in Nat, NEW g \in Heaps(n), NEW T, S \subseteq T,
         Apart(g, n), NEW E, E \subseteq Entry, Held(h) \subseteq E, Spread(g, n) \subseteq E,
         \A e \in E : e.job_id \in T,
         \A Ord : Ranks(Ord, E) /\ Ordered(h, Len(h), Ord) => Ordered(g, n, Ord)
  PROVE  Shaped(g, T)
<1>1. g \in Seq(Entry) /\ Len(g) = n
  BY HeapsAreSequences
<1>2. Ordered(g, n, Sooner)
  BY SoonerRanks DEF Shaped
<1>3. ASSUME T \cap Lifo = {} PROVE Ordered(g, n, OlderFirst)
  <2>1. Ranks(OlderFirst, E)
    BY <1>3, OlderFirstRanks
  <2>2. S \cap Lifo = {}
    BY <1>3
  <2> QED BY <2>1, <2>2 DEF Shaped
<1>4. ASSUME T \subseteq Lifo PROVE Ordered(g, n, NewerFirst)
  <2>1. Ranks(NewerFirst, E)
    BY <1>4, NewerFirstRanks
  <2>2. S \subseteq Lifo
    BY <1>4
  <2> QED BY <2>1, <2>2 DEF Shaped
<1> QED BY <1>1, <1>2, <1>3, <1>4 DEF Shaped, Held

LEMMA HeldAreEntries ==
  ASSUME NEW h, NEW S, Shaped(h, S)
  PROVE  h \in Heaps(Len(h)) /\ Len(h) \in Nat /\ Held(h) \subseteq Entry /\ Apart(h, Len(h))
BY SequencesAreHeaps DEF Shaped, Held, Spread

LEMMA PushShapes ==
  ASSUME NEW h, NEW S, Shaped(h, S), NEW e \in Entry, e \notin Held(h)
  PROVE  /\ Shaped(HeapPush(h, e), S \cup {e.job_id})
         /\ Held(HeapPush(h, e)) = Held(h) \cup {e}
<1> DEFINE n == Len(h)
           g == HeapPush(h, e)
           E == Held(h) \cup {e}
<1>1. h \in Heaps(n) /\ n \in Nat /\ Held(h) \subseteq Entry /\ Apart(h, n)
  BY HeldAreEntries
<1>2. /\ g \in Heaps(n + 1) /\ Spread(g, n + 1) = E /\ Apart(g, n + 1)
      /\ \A Ord : Ranks(Ord, E) /\ Ordered(h, n, Ord) => Ordered(g, n + 1, Ord)
  BY <1>1, PushAdds DEF Held
<1>3. Len(g) = n + 1 /\ n + 1 \in Nat
  BY <1>1, <1>2, HeapsAreSequences
<1>4. \A x \in E : x.job_id \in S \cup {e.job_id}
  BY DEF Shaped
<1>5. E \subseteq Entry /\ Held(h) \subseteq E /\ Spread(g, n + 1) \subseteq E
  BY <1>1, <1>2
<1> HIDE DEF g, E, n
<1>6. Shaped(g, S \cup {e.job_id})
  BY <1>2, <1>3, <1>4, <1>5, StillShaped DEF n
<1> QED BY <1>2, <1>3, <1>6 DEF Held, g, E, n

LEMMA PopShapes ==
  ASSUME NEW h, NEW S, Shaped(h, S), h # <<>>
  PROVE  /\ Shaped(HeapPop(h), S)
         /\ Held(HeapPop(h)) = Held(h) \ {h[1]} /\ h[1] \in Held(h)
<1> DEFINE n == Len(h)
           g == HeapPop(h)
           E == Held(h)
<1>1. h \in Heaps(n) /\ n \in Nat /\ Held(h) \subseteq Entry /\ Apart(h, n)
  BY HeldAreEntries
<1>2. n # 0
  BY EmptySeq DEF Shaped
<1>3. /\ g \in Heaps(n - 1) /\ Spread(g, n - 1) = E \ {h[1]} /\ Apart(g, n - 1)
      /\ \A Ord : Ranks(Ord, E) /\ Ordered(h, n, Ord) => Ordered(g, n - 1, Ord)
  BY <1>1, <1>2, PopTakesRoot DEF Held
<1>4. Len(g) = n - 1 /\ n - 1 \in Nat
  BY <1>1, <1>2, <1>3, HeapsAreSequences
<1>5. \A x \in E : x.job_id \in S
  BY DEF Shaped
<1>6. Spread(g, n - 1) \subseteq E /\ h[1] \in E
  <2>1. 1 \in 1..n
    BY <1>1, <1>2
  <2> QED BY <2>1, <1>1, <1>3, InSpread DEF Held
<1> HIDE DEF g, E, n
<1>7. Shaped(g, S)
  BY <1>1, <1>3, <1>4, <1>5, <1>6, StillShaped DEF n, E
<1> QED BY <1>3, <1>4, <1>6, <1>7 DEF Held, g, E, n

LEMMA SettleShapes ==
  ASSUME NEW h, NEW S, Shaped(h, S)
  PROVE  /\ Shaped(Settle(h), S)
         /\ Held(Settle(h)) \subseteq Held(h)
         /\ \A e \in Held(h) : Live(e) => e \in Held(Settle(h))
         /\ Settle(h) # <<>> => Live(Settle(h)[1])
<1> DEFINE n == Len(h)
           g == Settle(h)
           E == Held(h)
<1>1. h \in Heaps(n) /\ n \in Nat /\ Held(h) \subseteq Entry /\ Apart(h, n)
  BY HeldAreEntries
<1>2. PICK m \in Nat :
        /\ g \in Heaps(m) /\ Apart(g, m)
        /\ m # 0 => Live(g[1])
        /\ Spread(g, m) \subseteq E
        /\ \A e \in E : Live(e) => e \in Spread(g, m)
        /\ \A Ord : Ranks(Ord, E) /\ Ordered(h, n, Ord) => Ordered(g, m, Ord)
  BY <1>1, SettleKeepsLive DEF Held
<1>3. Len(g) = m /\ g \in Seq(Entry)
  BY <1>2, HeapsAreSequences
<1>4. g # <<>> => m # 0
  BY <1>3, EmptySeq
<1>5. \A x \in E : x.job_id \in S
  BY DEF Shaped
<1> HIDE DEF g, E, n
<1>6. Shaped(g, S)
  BY <1>1, <1>2, <1>5, StillShaped DEF n, E
<1> QED BY <1>2, <1>3, <1>4, <1>6 DEF Held, g, E, n

LEMMA EmptyIsShaped ==
  ASSUME NEW S
  PROVE  Shaped(<<>>, S) /\ Held(<<>>) = {}
<1>1. <<>> \in Seq(Entry) /\ Len(<<>>) = 0
  BY EmptySeq
<1> QED BY <1>1 DEF Shaped, Held, Spread, Apart, Ordered

\* The root comes before the rest, by each of the orders.
LEMMA RootIsMostUrgent ==
  ASSUME NEW h, NEW S, Shaped(h, S), NEW e \in Held(h)
  PROVE  /\ <<h[1], e>> \in Sooner
         /\ S \cap Lifo = {} => <<h[1], e>> \in OlderFirst
         /\ S \subseteq Lifo => <<h[1], e>> \in NewerFirst
<1> DEFINE n == Len(h)
<1>1. h \in Heaps(n) /\ n \in Nat /\ Held(h) \subseteq Entry /\ Held(h) = Spread(h, n)
  BY HeldAreEntries DEF Held
<1> HIDE DEF n
<1>2. \A x \in Held(h) : x.job_id \in S
  BY DEF Shaped
<1>3. <<h[1], e>> \in Sooner
  BY <1>1, SoonerRanks, RootComesFirst DEF Shaped, n
<1>4. ASSUME S \cap Lifo = {} PROVE <<h[1], e>> \in OlderFirst
  <2>1. Ranks(OlderFirst, Held(h))
    BY <1>1, <1>2, <1>4, OlderFirstRanks
  <2>2. Ordered(h, n, OlderFirst)
    BY <1>4 DEF Shaped, n
  <2> QED BY <1>1, <2>1, <2>2, RootComesFirst
<1>5. ASSUME S \subseteq Lifo PROVE <<h[1], e>> \in NewerFirst
  <2>1. Ranks(NewerFirst, Held(h))
    BY <1>1, <1>2, <1>5, NewerFirstRanks
  <2>2. Ordered(h, n, NewerFirst)
    BY <1>5 DEF Shaped, n
  <2> QED BY <1>1, <2>1, <2>2, RootComesFirst
<1> QED BY <1>3, <1>4, <1>5

\* The map accounts for the heap: what it stores is there, and an entry is known
\* by its generation.
Indexed(h, index, generation) ==
  /\ DOMAIN index \subseteq PqJob
  /\ \A i \in DOMAIN index : index[i] \in Held(h) /\ index[i].job_id = i
  /\ \A e \in Held(h) : e.generation < generation
  /\ \A e, f \in Held(h) : e.generation = f.generation => e = f

PqInv ==
  /\ Shaped(pqHeap, pqSince)
  /\ Indexed(pqHeap, pqIndex, pqGeneration) /\ pqGeneration \in Nat
  /\ PopsMostUrgent

\* The live entry of an id is the one the map holds.
LEMMA LiveIsStored ==
  ASSUME PqInv, NEW e \in Held(pqHeap)
  PROVE  Live(e) <=> e.job_id \in DOMAIN pqIndex /\ e = pqIndex[e.job_id]
BY DEF PqInv, Indexed, Live, LiveById

LEMMA SinceShapes ==
  ASSUME NEW S, Shaped(pqHeap', S), Since(S)
  PROVE  Shaped(pqHeap', pqSince')
<1>1. CASE pqHeap' = <<>>
  BY <1>1, EmptyIsShaped
<1>2. CASE pqHeap' # <<>>
  BY <1>2 DEF Since
<1> QED BY <1>1, <1>2

\* After a push -- of a new job or of an updated one -- the map stores the new
\* entry, and no older entry has its generation.
LEMMA PushKeeps ==
  ASSUME PqInv, NEW i \in PqJob, NEW p \in Priorities, NEW r \in RunAts, Push(i, p, r)
  PROVE  PqInv'
<1> DEFINE e == [job_id |-> i, priority |-> p, run_at |-> r, generation |-> pqGeneration]
<1>1. e \in Entry
  <2>1. pqGeneration \in 0..(MaxPushes - 1)
    BY PqAssumption DEF Push, PqInv, PqAssumption
  <2> QED BY <2>1 DEF Entry
<1>2. e.job_id = i /\ e.generation = pqGeneration
  OBVIOUS
<1>3. /\ pqGeneration' = pqGeneration + 1
      /\ pqIndex' = [k \in DOMAIN pqIndex \cup {i} |-> IF k = i THEN e ELSE pqIndex[k]]
      /\ pqHeap' = HeapPush(pqHeap, e) /\ pqPopped' = Nothing
      /\ Since(pqSince \cup {i})
  BY DEF Push
<1> HIDE DEF e
<1>4. e \notin Held(pqHeap)
  BY <1>2 DEF PqInv, Indexed
<1>5. Shaped(pqHeap', pqSince \cup {i}) /\ Held(pqHeap') = Held(pqHeap) \cup {e}
  BY <1>1, <1>2, <1>3, <1>4, PushShapes DEF PqInv
<1>6. Shaped(pqHeap', pqSince')
  BY <1>3, <1>5, SinceShapes
<1>7. Indexed(pqHeap', pqIndex', pqGeneration')
  <2> USE DEF PqInv, Indexed
  <2>1. DOMAIN pqIndex' \subseteq PqJob
    BY <1>3
  <2>2. ASSUME NEW k \in DOMAIN pqIndex'
        PROVE  pqIndex'[k] \in Held(pqHeap') /\ pqIndex'[k].job_id = k
    BY <1>2, <1>3, <1>5
  <2>3. \A f \in Held(pqHeap) : f \in Entry /\ f.generation \in Nat /\ f.generation < pqGeneration
    BY HeldAreEntries, EntryFields
  <2>4. \A f \in Held(pqHeap') : f.generation < pqGeneration'
    BY <1>2, <1>3, <1>5, <2>3
  <2>5. \A f, g \in Held(pqHeap') : f.generation = g.generation => f = g
    BY <1>2, <1>5, <2>3
  <2> QED BY <2>1, <2>2, <2>4, <2>5
<1>8. PopsMostUrgent'
  BY <1>3 DEF PopsMostUrgent
<1>9. pqGeneration' \in Nat
  BY <1>3 DEF PqInv
<1> QED BY <1>6, <1>7, <1>8, <1>9 DEF PqInv

\* What settling leaves is still accounted for.
LEMMA SettleKeeps ==
  ASSUME PqInv
  PROVE  /\ Shaped(Settle(pqHeap), pqSince)
         /\ Indexed(Settle(pqHeap), pqIndex, pqGeneration)
         /\ Held(Settle(pqHeap)) \subseteq Held(pqHeap)
         /\ Settle(pqHeap) # <<>> => Live(Settle(pqHeap)[1])
<1> DEFINE h == Settle(pqHeap)
<1>1. /\ Shaped(h, pqSince) /\ Held(h) \subseteq Held(pqHeap)
      /\ \A e \in Held(pqHeap) : Live(e) => e \in Held(h)
      /\ h # <<>> => Live(h[1])
  BY SettleShapes DEF PqInv
<1> HIDE DEF h
<1>2. \A i \in DOMAIN pqIndex : pqIndex[i] \in Held(h)
  BY <1>1, LiveIsStored DEF PqInv, Indexed
<1>3. Indexed(h, pqIndex, pqGeneration)
  BY <1>1, <1>2 DEF PqInv, Indexed
<1> QED BY <1>1, <1>3 DEF h

\* A pop takes the root, which the map stores, and nothing else it stores comes
\* before the root.
LEMMA PopKeeps ==
  ASSUME PqInv, PqPop
  PROVE  PqInv'
<1> DEFINE h == Settle(pqHeap)
           e == h[1]
           i == e.job_id
<1>1. /\ Shaped(h, pqSince) /\ Indexed(h, pqIndex, pqGeneration)
      /\ Held(h) \subseteq Held(pqHeap) /\ (h # <<>> => Live(e))
  BY SettleKeeps
<1>2. pqGeneration' = pqGeneration /\ Since(pqSince) /\ pqGeneration' \in Nat
  BY DEF PqPop, PqInv
<1>3. CASE h = <<>>
  <2>1. pqHeap' = h /\ pqPopped' = Nothing /\ pqIndex' = pqIndex
    BY <1>3 DEF PqPop
  <2> HIDE DEF h
  <2>2. Shaped(pqHeap', pqSince')
    BY <1>1, <1>2, <2>1, SinceShapes
  <2> QED BY <1>1, <1>2, <2>1, <2>2 DEF PqInv, PopsMostUrgent
<1>4. CASE h # <<>>
  <2>1. /\ pqHeap' = HeapPop(h) /\ pqIndex' = Without({i}) /\ pqPopped' = pqIndex[i]
    BY <1>4 DEF PqPop
  <2> HIDE DEF h
  <2>2. /\ Shaped(pqHeap', pqSince) /\ Held(pqHeap') = Held(h) \ {e} /\ e \in Held(h)
    BY <1>1, <1>4, <2>1, PopShapes
  <2>3. Shaped(pqHeap', pqSince')
    BY <1>2, <2>2, SinceShapes
  <2>4. i \in DOMAIN pqIndex /\ e = pqIndex[i]
    <3>1. e \in Held(pqHeap) /\ Live(e)
      BY <1>1, <1>4, <2>2
    <3> HIDE DEF e
    <3> QED BY <3>1, LiveIsStored
  <2> HIDE DEF e
  <2>5. /\ DOMAIN pqIndex' = DOMAIN pqIndex \ {i}
        /\ \A k \in DOMAIN pqIndex' : pqIndex'[k] = pqIndex[k]
    BY <2>1 DEF Without
  <2>6. ASSUME NEW k \in DOMAIN pqIndex'
        PROVE  /\ pqIndex'[k] \in Held(pqHeap') /\ pqIndex'[k] \in Held(h)
               /\ pqIndex'[k].job_id = k /\ k # i
    <3>1. k \in DOMAIN pqIndex /\ k # i /\ pqIndex'[k] = pqIndex[k]
      BY <2>5
    <3>2. pqIndex[k] \in Held(h) /\ pqIndex[k].job_id = k
      BY <3>1, <1>1 DEF Indexed
    <3> QED BY <3>1, <3>2, <2>2
  <2>7. Indexed(pqHeap', pqIndex', pqGeneration')
    <3>1. DOMAIN pqIndex' \subseteq PqJob
      BY <1>1, <2>5 DEF Indexed
    <3>2. \A f \in Held(pqHeap') : f \in Held(h)
      BY <2>2
    <3> QED BY <3>1, <3>2, <1>1, <1>2, <2>6 DEF Indexed
  <2>8. PopsMostUrgent'
    <3> SUFFICES ASSUME NEW f \in Stored'
                 PROVE  /\ f.priority <= e.priority
                        /\ f.priority = e.priority => f.run_at >= e.run_at
                        /\ f.priority = e.priority /\ f.run_at = e.run_at =>
                             /\ pqSince' \cap Lifo = {} => f.job_id > i
                             /\ pqSince' \subseteq Lifo => f.job_id < i
      <4>1. pqPopped' = e
        BY <2>1, <2>4
      <4> QED BY <4>1 DEF PopsMostUrgent
    <3>1. f \in Held(h) /\ f \in Held(pqHeap') /\ f.job_id # i
      BY <2>6 DEF Stored
    <3>2. pqSince' = pqSince
      <4>1. pqHeap' # <<>>
        BY <3>1, EmptyIsShaped
      <4> QED BY <4>1, <1>2 DEF Since
    <3>3. /\ e \in Entry /\ e.priority \in Int /\ e.run_at \in Int /\ e.job_id \in Nat
          /\ f \in Entry /\ f.priority \in Int /\ f.run_at \in Int /\ f.job_id \in Nat
      BY <1>1, <2>2, <3>1, HeldAreEntries, EntryFields
    <3>4. /\ <<e, f>> \in Sooner
          /\ pqSince \cap Lifo = {} => <<e, f>> \in OlderFirst
          /\ pqSince \subseteq Lifo => <<e, f>> \in NewerFirst
      BY <1>1, <3>1, RootIsMostUrgent DEF e
    <3>5. f.priority <= e.priority /\ (f.priority = e.priority => f.run_at >= e.run_at)
      BY <3>3, <3>4 DEF Sooner
    <3>6. f.priority = e.priority /\ f.run_at = e.run_at /\ pqSince \cap Lifo = {} => f.job_id > i
      BY <3>1, <3>3, <3>4 DEF OlderFirst
    <3>7. f.priority = e.priority /\ f.run_at = e.run_at /\ pqSince \subseteq Lifo => f.job_id < i
      BY <3>1, <3>3, <3>4 DEF NewerFirst
    <3> QED BY <3>2, <3>5, <3>6, <3>7
  <2> QED BY <1>2, <2>3, <2>7, <2>8 DEF PqInv
<1> QED BY <1>3, <1>4

LEMMA PeekKeeps ==
  ASSUME PqInv, PqPeek
  PROVE  PqInv'
<1>1. /\ pqHeap' = Settle(pqHeap) /\ pqPopped' = Nothing /\ Since(pqSince)
      /\ pqIndex' = pqIndex /\ pqGeneration' = pqGeneration
  BY DEF PqPeek
<1>2. Shaped(pqHeap', pqSince) /\ Indexed(pqHeap', pqIndex', pqGeneration')
  BY <1>1, SettleKeeps
<1>3. Shaped(pqHeap', pqSince')
  BY <1>1, <1>2, SinceShapes
<1> QED BY <1>1, <1>2, <1>3 DEF PqInv, PopsMostUrgent

LEMMA RemoveKeeps ==
  ASSUME PqInv, PqRemove
  PROVE  PqInv'
<1>1. PICK S : pqIndex' = Without(S)
  BY DEF PqRemove
<1>2. /\ pqHeap' = pqHeap /\ pqGeneration' = pqGeneration /\ pqSince' = pqSince
      /\ pqPopped' = Nothing
  BY DEF PqRemove
<1>3. /\ DOMAIN pqIndex' \subseteq DOMAIN pqIndex
      /\ \A i \in DOMAIN pqIndex' : pqIndex'[i] = pqIndex[i]
  BY <1>1 DEF Without
<1>4. Indexed(pqHeap', pqIndex', pqGeneration')
  BY <1>2, <1>3 DEF PqInv, Indexed
<1> QED BY <1>2, <1>4 DEF PqInv, PopsMostUrgent

LEMMA ClearKeeps ==
  ASSUME PqInv, PqClear
  PROVE  PqInv'
<1>1. /\ pqHeap' = <<>> /\ pqIndex' = [i \in {} |-> Nothing] /\ pqPopped' = Nothing
      /\ pqGeneration' = pqGeneration
  BY DEF PqClear
<1>2. Shaped(pqHeap', pqSince') /\ Held(pqHeap') = {}
  BY <1>1, EmptyIsShaped
<1>3. Indexed(pqHeap', pqIndex', pqGeneration')
  BY <1>1, <1>2 DEF Indexed
<1> QED BY <1>1, <1>2, <1>3 DEF PqInv, PopsMostUrgent

\* One live entry: the place of the map's entry is the only live one of its id.
LEMMA InvGivesOneLiveEntry ==
  ASSUME PqInv
  PROVE  OneLiveEntry
<1> SUFFICES ASSUME NEW i \in DOMAIN pqIndex
    PROVE  /\ Cardinality({n \in 1..Len(pqHeap) :
                 pqHeap[n].job_id = i /\ Live(pqHeap[n])}) = 1
           /\ \A n \in 1..Len(pqHeap) :
                pqHeap[n].job_id = i /\ Live(pqHeap[n]) => pqHeap[n] = pqIndex[i]
  BY DEF OneLiveEntry
<1> DEFINE Places == {n \in 1..Len(pqHeap) : pqHeap[n].job_id = i /\ Live(pqHeap[n])}
<1>1. \A n \in 1..Len(pqHeap) : pqHeap[n] \in Held(pqHeap)
  BY DEF Held, Spread
<1>2. \A n \in 1..Len(pqHeap) :
        pqHeap[n].job_id = i /\ Live(pqHeap[n]) => pqHeap[n] = pqIndex[i]
  BY <1>1, LiveIsStored
<1>3. PICK n \in 1..Len(pqHeap) : pqHeap[n] = pqIndex[i]
  BY DEF PqInv, Indexed, Held, Spread
<1>4. pqHeap[n].job_id = i /\ Live(pqHeap[n])
  BY <1>1, <1>3, LiveIsStored DEF PqInv, Indexed
<1>5. \A m \in Places : m = n
  BY <1>2, <1>3 DEF PqInv, Shaped, Apart
<1>6. Places = {n}
  BY <1>4, <1>5
<1>7. Cardinality(Places) = 1
  BY <1>6, FS_Singleton
<1> QED BY <1>2, <1>7

(* Every job in the map has one live entry in the heap, and a pop passes over
   none that is more urgent -- nor, while the heap has held jobs of one kind
   only since it was empty, over an older (a newer) one -- for any ids,
   priorities and times, and any number of pushes, updates, removals and pops. *)
THEOREM JobsPopInTurn == PqSpec => []EveryJobPopsInTurn
<1>1. PqInit => PqInv
  <2> SUFFICES ASSUME PqInit PROVE PqInv
    OBVIOUS
  <2>1. pqHeap = <<>> /\ pqIndex = [i \in {} |-> Nothing] /\ pqGeneration = 0 /\ pqPopped = Nothing
    BY DEF PqInit
  <2>2. Shaped(pqHeap, pqSince) /\ Held(pqHeap) = {}
    BY <2>1, EmptyIsShaped
  <2>3. Indexed(pqHeap, pqIndex, pqGeneration)
    BY <2>1, <2>2 DEF Indexed
  <2> QED BY <2>1, <2>2, <2>3 DEF PqInv, PopsMostUrgent
<1>2. PqInv /\ [PqNext]_pqVars => PqInv'
  <2> SUFFICES ASSUME PqInv, [PqNext]_pqVars PROVE PqInv'
    OBVIOUS
  <2>1. CASE PqPush
    BY <2>1, PushKeeps DEF PqPush
  <2>2. CASE PqUpdate
    BY <2>2, PushKeeps DEF PqUpdate, PqInv, Indexed
  <2>3. CASE PqPop
    BY <2>3, PopKeeps
  <2>4. CASE PqPeek
    BY <2>4, PeekKeeps
  <2>5. CASE PqRemove
    BY <2>5, RemoveKeeps
  <2>6. CASE PqClear
    BY <2>6, ClearKeeps
  <2>7. CASE UNCHANGED pqVars
    BY <2>7 DEF pqVars, PqInv, Indexed, PopsMostUrgent, Stored
  <2> QED BY <2>1, <2>2, <2>3, <2>4, <2>5, <2>6, <2>7 DEF PqNext
<1>3. PqInv => EveryJobPopsInTurn
  BY InvGivesOneLiveEntry DEF EveryJobPopsInTurn, PqInv
<1> QED BY <1>1, <1>2, <1>3, PTL DEF PqSpec
=============================================================================
