------------------------------- MODULE Webhooks -------------------------------
(***************************************************************************)
(* Webhooks and their circuit breakers.  A breaker belongs to a URL, which *)
(* several webhooks may share; it is created when an event is about to be  *)
(* sent there.  Requests are sent in the background and their answers      *)
(* change whatever state the breaker is in when they arrive, so an answer  *)
(* may belong to a time before the breaker opened, closed or was removed.  *)
(* opened_at is modelled by the time passed since, up to RecoveryTimeout.  *)
(***************************************************************************)
EXTENDS Integers, FiniteSets

CONSTANTS
  Hook, Url, NoUrl, Deleter,
  FailureThreshold, RecoveryTimeout,
  MaxFlight       \* bound: requests to a URL in flight

ASSUME WebhookAssumption ==
  /\ FailureThreshold \in Nat \ {0} /\ RecoveryTimeout \in Nat /\ MaxFlight \in Nat
  /\ NoUrl \notin Url /\ "deleted" \notin Url \cup {NoUrl}

VARIABLES
  whHook,     \* id -> its URL; "new" and "deleted" ids have none
  whCircuit,  \* URL -> its breaker; state "none": no entry
  whFlight,   \* URL -> requests whose answer has not arrived
  whDelete,   \* per deleting call: its hook, the URL it found, how far it is
  whActive,   \* the cleanup: has it collected the registered URLs, and which
  whRun       \* URL -> failures since the last success the breaker saw (history)

whVars == <<whHook, whCircuit, whFlight, whDelete, whActive, whRun>>

NoCircuit == [state |-> "none", failures |-> 0, successes |-> 0, since |-> 0]
Fresh == [NoCircuit EXCEPT !.state = "closed"]
Idle == [at |-> "idle", hook |-> NoUrl, url |-> NoUrl]
NotCollected == [taken |-> FALSE, urls |-> {}]

WhTypeOK ==
  /\ whHook \in [Hook -> Url \cup {NoUrl, "deleted"}]
  /\ whCircuit \in [Url -> [state: {"none", "closed", "open", "half_open"},
                            failures: Nat, successes: 0..1, since: 0..RecoveryTimeout]]
  /\ whFlight \in [Url -> 0..MaxFlight]
  /\ whRun \in [Url -> Nat]

WhInit ==
  /\ whHook = [h \in Hook |-> NoUrl]
  /\ whCircuit = [u \in Url |-> NoCircuit]
  /\ whFlight = [u \in Url |-> 0] /\ whRun = [u \in Url |-> 0]
  /\ whDelete = [d \in Deleter |-> Idle] /\ whActive = NotCollected

Registered(u) == \E h \in Hook : whHook[h] = u

-----------------------------------------------------------------------------
AddWebhook ==
  /\ \E h \in Hook, u \in Url : whHook[h] = NoUrl /\ whHook' = [whHook EXCEPT ![h] = u]
  /\ UNCHANGED <<whCircuit, whFlight, whDelete, whActive, whRun>>

\* delete_webhook: the URL is looked up, the hook removed, the breaker removed.
DeleteLookup(d) ==
  /\ whDelete[d].at = "idle"
  /\ \E h \in Hook : /\ whHook[h] \in Url
                     /\ whDelete' = [whDelete EXCEPT ![d] =
                                       [at |-> "remove", hook |-> h, url |-> whHook[h]]]
  /\ UNCHANGED <<whHook, whCircuit, whFlight, whActive, whRun>>

DeleteRemove(d) ==
  /\ whDelete[d].at = "remove"
  /\ whHook' = [whHook EXCEPT ![whDelete[d].hook] = "deleted"]
  /\ whDelete' = [whDelete EXCEPT ![d].at = "forget"]
  /\ UNCHANGED <<whCircuit, whFlight, whActive, whRun>>

DeleteForget(d) ==
  /\ whDelete[d].at = "forget"
  /\ whCircuit' = [whCircuit EXCEPT ![whDelete[d].url] = NoCircuit]
  /\ whRun' = [whRun EXCEPT ![whDelete[d].url] = 0]
  /\ whDelete' = [whDelete EXCEPT ![d] = Idle]
  /\ UNCHANGED <<whHook, whFlight, whActive>>

Recovered(c) == c.since = RecoveryTimeout

\* try_half_open, after the entry was made if there was none.
Looked(c) ==
  CASE c.state = "none" -> Fresh
    [] c.state = "open" /\ Recovered(c) -> [c EXCEPT !.state = "half_open", !.successes = 0]
    [] OTHER -> c

\* One webhook's turn in fire_webhooks; the registered hooks stand still meanwhile.
FireWebhook(u) ==
  /\ Registered(u)
  /\ whCircuit' = [whCircuit EXCEPT ![u] = Looked(@)]
  /\ IF whCircuit'[u].state = "open"
       THEN UNCHANGED whFlight
       ELSE whFlight[u] < MaxFlight /\ whFlight' = [whFlight EXCEPT ![u] = @ + 1]
  /\ UNCHANGED <<whHook, whDelete, whActive, whRun>>

RecordSuccess(c) ==
  CASE c.state = "closed" -> [c EXCEPT !.failures = 0]
    [] c.state = "half_open" /\ c.successes = 0 -> [c EXCEPT !.successes = 1]
    [] c.state = "half_open" /\ c.successes > 0 -> Fresh
    [] OTHER -> c

\* Mutant: the breaker opens one failure late.
RecordFailureLate(c) ==
  CASE c.state = "closed" /\ c.failures + 1 <= FailureThreshold ->
         [c EXCEPT !.failures = @ + 1]
    [] OTHER ->
         [c EXCEPT !.failures = @ + 1, !.state = "open", !.successes = 0, !.since = 0]
RecordFailure(c) ==
  CASE c.state = "closed" /\ c.failures + 1 < FailureThreshold ->
         [c EXCEPT !.failures = @ + 1]
    [] OTHER ->
         [c EXCEPT !.failures = @ + 1, !.state = "open", !.successes = 0, !.since = 0]

\* Mutant: an answer brings a removed breaker back.
MeetsOrMakes(u) == TRUE
\* circuits.get_mut: without a breaker an answer changes nothing.
Meets(u) == whCircuit[u].state # "none"

\* An answer arrives: c is what record_success or record_failure make of the breaker.
Answered(u, c, run) ==
  /\ whFlight[u] > 0 /\ whFlight' = [whFlight EXCEPT ![u] = @ - 1]
  /\ IF Meets(u)
       THEN /\ whCircuit' = [whCircuit EXCEPT ![u] = c]
            /\ whRun' = [whRun EXCEPT ![u] = run]
       ELSE UNCHANGED <<whCircuit, whRun>>
  /\ UNCHANGED <<whHook, whDelete, whActive>>

AnswerSuccess(u) == Answered(u, RecordSuccess(whCircuit[u]), 0)
\* (A breaker is not counted past the bound.)
AnswerFailure(u) ==
  /\ whCircuit[u].failures < FailureThreshold + MaxFlight
  /\ Answered(u, RecordFailure(whCircuit[u]), whRun[u] + 1)

\* cleanup_webhook_circuits: the URLs that webhooks have are collected, then every
\* other breaker goes, that of a webhook added meanwhile included.
CollectActiveUrls ==
  /\ ~whActive.taken
  /\ whActive' = [taken |-> TRUE, urls |-> {u \in Url : Registered(u)}]
  /\ UNCHANGED <<whHook, whCircuit, whFlight, whDelete, whRun>>

CleanupWebhookCircuits ==
  /\ whActive.taken /\ whActive' = NotCollected
  /\ whCircuit' = [u \in Url |-> IF u \in whActive.urls THEN whCircuit[u] ELSE NoCircuit]
  /\ whRun' = [u \in Url |-> IF u \in whActive.urls THEN whRun[u] ELSE 0]
  /\ UNCHANGED <<whHook, whFlight, whDelete>>

WhTick ==
  /\ \E u \in Url : whCircuit[u].state = "open" /\ ~Recovered(whCircuit[u])
  /\ whCircuit' = [u \in Url |->
       IF whCircuit[u].state = "open" /\ ~Recovered(whCircuit[u])
         THEN [whCircuit[u] EXCEPT !.since = @ + 1] ELSE whCircuit[u]]
  /\ UNCHANGED <<whHook, whFlight, whDelete, whActive, whRun>>

WhNext ==
  \/ AddWebhook \/ CollectActiveUrls \/ CleanupWebhookCircuits \/ WhTick
  \/ \E d \in Deleter : DeleteLookup(d) \/ DeleteRemove(d) \/ DeleteForget(d)
  \/ \E u \in Url : FireWebhook(u) \/ AnswerSuccess(u) \/ AnswerFailure(u)

WhSpec == WhInit /\ [][WhNext]_whVars

-----------------------------------------------------------------------------
(* A closed breaker stands for a URL that is not failing: it has seen fewer
   than FailureThreshold failures in a row, counting the answers of requests
   sent at any time, before it opened, closed or was removed and made again. *)
ClosedBelowThreshold ==
  \A u \in Url : whCircuit[u].state = "closed" =>
    whCircuit[u].failures = whRun[u] /\ whRun[u] < FailureThreshold

(* Breakers are not left behind by webhooks that were deleted while requests
   to them were under way: one whose URL no webhook has belongs to a deletion
   in progress. *)
NoOrphanCircuit ==
  \A u \in Url : whCircuit[u].state # "none" =>
    Registered(u) \/ \E d \in Deleter : whDelete[d].at = "forget" /\ whDelete[d].url = u
=============================================================================
