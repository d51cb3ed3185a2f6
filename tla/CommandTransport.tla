------------------------- MODULE CommandTransport -------------------------
(***************************************************************************)
(* The transport layer's AsyncCommandDispatcher (transport/dispatcher.py)  *)
(* with its CorrelationEngine (transport/correlation.py) and the check of  *)
(* CommandResult (transport/result.py): a priority queue, one worker that  *)
(* admits requests within the in-flight limits, one send task per admitted *)
(* request with retries, coalescing of identical requests, expiry, and     *)
(* stop and start around all of it.                                        *)
(*                                                                         *)
(* Time appears only as the set of requests whose deadline has passed.     *)
(* The result handed to the caller is an asyncio future; coalesced callers *)
(* hold the future of the request they were merged with.                   *)
(***************************************************************************)
EXTENDS Naturals, FiniteSets

CONSTANTS
  Requests,          \* request ids; each is enqueued at most once
  Nodes,             \* target nodes
  Target,            \* target_node of each request
  Payload,           \* opcode, params and protocol of each request
  Priority,          \* priority of each request (0 first)
  Expects,           \* requests with an expected_response_opcode
  Perishable,        \* requests with a ttl short enough to pass
  NoRequest,
  per_device_limit,
  total_limit,
  max_retries,
  MaxStops           \* bound on stops

ASSUME RequestsAssumption == IsFiniteSet(Requests) /\ NoRequest \notin Requests
ASSUME TargetAssumption == Target \in [Requests -> Nodes]
ASSUME PriorityAssumption == Priority \in [Requests -> Nat]
ASSUME ExpectsAssumption == Expects \subseteq Requests
ASSUME PerishableAssumption == Perishable \subseteq Requests
ASSUME LimitsAssumption ==
  /\ per_device_limit \in Nat \ {0}
  /\ total_limit \in Nat \ {0}
  /\ max_retries \in Nat
  /\ MaxStops \in Nat

VARIABLES
  running,      \* _running
  worker,       \* where the worker task has come to
  held,         \* the request the worker holds while it waits for capacity
  stopping,     \* stop() awaits the worker it has cancelled
  stops,        \* stops so far
  queue,        \* _queue
  inFlight,     \* keys of _in_flight
  perDevice,    \* _in_flight_per_device
  futures,      \* keys of _result_futures
  correlated,   \* keys of the CorrelationEngine
  send,         \* where each request's send task has come to
  tries,        \* failed attempts of each request (retries_used)
  sent,         \* calls of the send callback for each request
  expired,      \* requests whose deadline has passed
  future,       \* the request whose future the caller of each request holds
  outcome,      \* status set on each future
  completions,  \* results recorded for each request
  lost,         \* history: requests whose send task died of an exception
  leaked        \* history: a stop found a send task alive

workerVars == <<worker, held>>
lifeVars == <<running, stopping, stops>>
sendVars == <<send, tries, sent, lost>>
resultVars == <<futures, outcome, completions>>
flightVars == <<inFlight, perDevice>>
vars == <<workerVars, lifeVars, queue, flightVars, correlated, sendVars, expired,
          future, resultVars, leaked>>

Statuses == {"success", "timeout", "error", "cancelled"}
Accepted(r) == future[r] # NoRequest
SendAlive(r) == send[r] \in {"ready", "sending"}

TypeOK ==
  /\ running \in BOOLEAN /\ stopping \in BOOLEAN /\ leaked \in BOOLEAN
  /\ worker \in {"off", "getting", "waiting"}
  /\ held \in Requests \cup {NoRequest}
  /\ stops \in 0..MaxStops
  /\ queue \subseteq Requests /\ inFlight \subseteq Requests
  /\ perDevice \in [Nodes -> Nat]
  /\ futures \subseteq Requests /\ correlated \subseteq Expects
  /\ send \in [Requests -> {"none", "ready", "sending", "done"}]
  /\ tries \in [Requests -> 0..(max_retries + 1)]
  /\ sent \in [Requests -> 0..(max_retries + 1)]
  /\ expired \subseteq Perishable
  /\ future \in [Requests -> Requests \cup {NoRequest}]
  /\ outcome \in [Requests -> Statuses \cup {"none"}]
  /\ completions \in [Requests -> Nat]
  /\ lost \subseteq Requests

Init ==
  /\ running = FALSE /\ stopping = FALSE /\ leaked = FALSE
  /\ worker = "off" /\ held = NoRequest /\ stops = 0
  /\ queue = {} /\ inFlight = {} /\ perDevice = [n \in Nodes |-> 0]
  /\ futures = {} /\ correlated = {}
  /\ send = [r \in Requests |-> "none"]
  /\ tries = [r \in Requests |-> 0] /\ sent = [r \in Requests |-> 0]
  /\ expired = {}
  /\ future = [r \in Requests |-> NoRequest]
  /\ outcome = [r \in Requests |-> "none"]
  /\ completions = [r \in Requests |-> 0]
  /\ lost = {}

-----------------------------------------------------------------------------
(* What handlers share.                                                    *)

\* Mutant: the future stays registered after its result was set.
CompleteAllNoPop(rs, status) ==
  /\ completions' = [r \in Requests |->
                       IF r \in rs THEN completions[r] + 1 ELSE completions[r]]
  /\ outcome' = [r \in Requests |-> IF r \in rs \cap futures THEN status ELSE outcome[r]]
  /\ UNCHANGED futures

\* _complete_request with a result of this status, for each request of rs.
CompleteAll(rs, status) ==
  /\ completions' = [r \in Requests |->
                       IF r \in rs THEN completions[r] + 1 ELSE completions[r]]
  /\ outcome' = [r \in Requests |-> IF r \in rs \cap futures THEN status ELSE outcome[r]]
  /\ futures' = futures \ rs

Complete(r, status) == CompleteAll({r}, status)

\* The finally clause of _send_with_retry, with which the task ends.
LeaveFlight(r) ==
  /\ send' = [send EXCEPT ![r] = "done"]
  /\ inFlight' = inFlight \ {r}
  /\ perDevice' = [perDevice EXCEPT ![Target[r]] = IF @ > 0 THEN @ - 1 ELSE 0]

\* Mutant: one more than the device's limit.
_can_send_one_more(r) ==
  /\ Cardinality(inFlight) < total_limit
  /\ perDevice[Target[r]] <= per_device_limit

_can_send(r) ==
  /\ Cardinality(inFlight) < total_limit
  /\ perDevice[Target[r]] < per_device_limit

\* The worker marks r as in flight and creates its send task.
Admit(r) ==
  /\ inFlight' = inFlight \cup {r}
  /\ perDevice' = [perDevice EXCEPT ![Target[r]] = @ + 1]
  /\ send' = [send EXCEPT ![r] = "ready"]

-----------------------------------------------------------------------------
(* start, stop and enqueue.                                                *)

start ==
  /\ ~running
  /\ running' = TRUE
  /\ worker' = "getting"
  /\ UNCHANGED <<held, stopping, stops, queue, flightVars, correlated, sendVars, expired,
                 future, resultVars, leaked>>

\* stop() up to the await of the worker it cancels.
StopBegin ==
  /\ running /\ ~stopping
  /\ stops < MaxStops
  /\ stops' = stops + 1
  /\ running' = FALSE
  /\ stopping' = TRUE
  /\ worker' = "off"
  /\ held' = NoRequest
  /\ UNCHANGED <<queue, flightVars, correlated, sendVars, expired, future, resultVars, leaked>>

\* Mutant: futures are forgotten without a result.
StopFinishDropsFutures ==
  /\ stopping
  /\ stopping' = FALSE
  /\ futures' = {}
  /\ inFlight' = {}
  /\ perDevice' = [n \in Nodes |-> 0]
  /\ correlated' = {}
  /\ leaked' = (leaked \/ \E r \in Requests : SendAlive(r))
  /\ UNCHANGED <<running, stops, workerVars, queue, sendVars, expired, future, completions,
                 outcome>>

\* The rest of stop(): futures are resolved and the tables cleared; the queue
\* keeps its requests and the send tasks run on.
StopFinish ==
  /\ stopping
  /\ stopping' = FALSE
  /\ outcome' = [r \in Requests |-> IF r \in futures THEN "cancelled" ELSE outcome[r]]
  /\ futures' = {}
  /\ inFlight' = {}
  /\ perDevice' = [n \in Nodes |-> 0]
  /\ correlated' = {}
  /\ leaked' = (leaked \/ \E r \in Requests : SendAlive(r))
  /\ UNCHANGED <<running, stops, workerVars, queue, sendVars, expired, future, completions>>

\* Requests in flight that r may be merged with: identical, and waiting for
\* a result.
_coalesce_check(r) ==
  {q \in inFlight \cap futures : Target[q] = Target[r] /\ Payload[q] = Payload[r]}

\* A request that is too old already is answered at once.
EnqueueExpired(r) ==
  /\ ~Accepted(r)
  /\ r \in expired
  /\ future' = [future EXCEPT ![r] = r]
  /\ outcome' = [outcome EXCEPT ![r] = "timeout"]
  /\ completions' = [completions EXCEPT ![r] = @ + 1]
  /\ UNCHANGED <<workerVars, lifeVars, queue, flightVars, correlated, sendVars, expired,
                 futures, leaked>>

\* Within the coalescing window the caller gets the future of the other.
EnqueueCoalesced(r, q) ==
  /\ ~Accepted(r)
  /\ r \notin expired
  /\ q \in _coalesce_check(r)
  /\ future' = [future EXCEPT ![r] = q]
  /\ UNCHANGED <<workerVars, lifeVars, queue, flightVars, correlated, sendVars, expired,
                 resultVars, leaked>>

\* No candidate, or none within the window.
Enqueue(r) ==
  /\ ~Accepted(r)
  /\ r \notin expired
  /\ future' = [future EXCEPT ![r] = r]
  /\ futures' = futures \cup {r}
  /\ queue' = queue \cup {r}
  /\ UNCHANGED <<workerVars, lifeVars, flightVars, correlated, sendVars, expired,
                 outcome, completions, leaked>>

\* Time passes r's deadline.
Expire(r) ==
  /\ r \in Perishable \ expired
  /\ expired' = expired \cup {r}
  /\ UNCHANGED <<workerVars, lifeVars, queue, flightVars, correlated, sendVars, future,
                 resultVars, leaked>>

-----------------------------------------------------------------------------
(* _worker.                                                                *)

\* The worker goes on to its next wait for a request: it has timed out those
\* of rs, and expire_stale at the head of the loop times out more.
NextRound(rs) ==
  /\ worker' = "getting"
  /\ held' = NoRequest
  /\ correlated' = correlated \ expired
  /\ CompleteAll(rs \cup (correlated \cap expired), "timeout")

\* The wait for a request times out.  (Nothing changes unless expire_stale
\* finds something.)
WorkerIdles ==
  /\ worker = "getting"
  /\ queue = {}
  /\ NextRound({})
  /\ UNCHANGED <<lifeVars, queue, flightVars, sendVars, expired, future, leaked>>

Front(r) == r \in queue /\ \A q \in queue : Priority[r] <= Priority[q]

\* Mutant: an expired request is dropped without a result.
WorkerGetsDropsExpired(r) ==
  /\ worker = "getting"
  /\ Front(r)
  /\ queue' = queue \ {r}
  /\ \/ /\ r \in expired
        /\ NextRound({})
        /\ UNCHANGED <<flightVars, send>>
     \/ /\ r \notin expired /\ _can_send(r)
        /\ Admit(r)
        /\ NextRound({})
     \/ /\ r \notin expired /\ ~_can_send(r)
        /\ worker' = "waiting" /\ held' = r
        /\ UNCHANGED <<correlated, flightVars, send, resultVars>>
  /\ UNCHANGED <<lifeVars, tries, sent, lost, expired, future, leaked>>

\* A request of the highest priority is taken, and timed out, admitted or
\* held until there is capacity.
WorkerGets(r) ==
  /\ worker = "getting"
  /\ Front(r)
  /\ queue' = queue \ {r}
  /\ \/ /\ r \in expired
        /\ NextRound({r})
        /\ UNCHANGED <<flightVars, send>>
     \/ /\ r \notin expired /\ _can_send(r)
        /\ Admit(r)
        /\ NextRound({})
     \/ /\ r \notin expired /\ ~_can_send(r)
        /\ worker' = "waiting" /\ held' = r
        /\ UNCHANGED <<correlated, flightVars, send, resultVars>>
  /\ UNCHANGED <<lifeVars, tries, sent, lost, expired, future, leaked>>

\* The poll for capacity ends.
WorkerAdmits ==
  /\ worker = "waiting"
  /\ held \notin expired
  /\ _can_send(held)
  /\ Admit(held)
  /\ NextRound({})
  /\ UNCHANGED <<lifeVars, queue, tries, sent, lost, expired, future, leaked>>

WorkerGivesUp ==
  /\ worker = "waiting"
  /\ held \in expired
  /\ NextRound({held})
  /\ UNCHANGED <<lifeVars, queue, flightVars, sendVars, expired, future, leaked>>

-----------------------------------------------------------------------------
(* _send_with_retry, one task per admitted request.                        *)

\* Mutant: one retry too many.
FailedOneTooMany(r) ==
  /\ tries' = [tries EXCEPT ![r] = @ + 1]
  /\ IF tries[r] > max_retries
     THEN Complete(r, "error") /\ LeaveFlight(r)
     ELSE send' = [send EXCEPT ![r] = "ready"] /\ UNCHANGED <<resultVars, flightVars>>

\* Mutant: every failed attempt reports its error.
FailedReportsEach(r) ==
  /\ tries' = [tries EXCEPT ![r] = @ + 1]
  /\ Complete(r, "error")
  /\ IF tries[r] >= max_retries
     THEN LeaveFlight(r)
     ELSE send' = [send EXCEPT ![r] = "ready"] /\ UNCHANGED flightVars

\* Mutant: every failed attempt gives up the device's slot.
FailedFreesSlot(r) ==
  /\ tries' = [tries EXCEPT ![r] = @ + 1]
  /\ IF tries[r] >= max_retries
     THEN Complete(r, "error") /\ LeaveFlight(r)
     ELSE /\ send' = [send EXCEPT ![r] = "ready"]
          /\ perDevice' = [perDevice EXCEPT ![Target[r]] = IF @ > 0 THEN @ - 1 ELSE 0]
          /\ UNCHANGED <<resultVars, inFlight>>

\* An attempt has failed: the task ends after the last, or backs off.
Failed(r) ==
  /\ tries' = [tries EXCEPT ![r] = @ + 1]
  /\ IF tries[r] >= max_retries
     THEN Complete(r, "error") /\ LeaveFlight(r)
     ELSE send' = [send EXCEPT ![r] = "ready"] /\ UNCHANGED <<resultVars, flightVars>>

\* An attempt is made: the request is registered and the callback is called.
SendAttempt(r) ==
  /\ send[r] = "ready"
  /\ running /\ r \notin expired
  /\ r \notin correlated
  /\ send' = [send EXCEPT ![r] = "sending"]
  /\ sent' = [sent EXCEPT ![r] = @ + 1]
  /\ correlated' = correlated \cup (Expects \cap {r})
  /\ UNCHANGED <<workerVars, lifeVars, queue, flightVars, tries, lost, expired, future,
                 resultVars, leaked>>

\* An earlier attempt has left its registration: CorrelationConflictError,
\* which counts as a failed attempt.
SendConflicts(r) ==
  /\ send[r] = "ready"
  /\ running /\ r \notin expired
  /\ r \in correlated
  /\ Failed(r)
  /\ UNCHANGED <<workerVars, lifeVars, queue, correlated, sent, lost, expired, future, leaked>>

\* Stopped or expired between attempts: the last error is the result.  With
\* no attempt made there is none, and CommandResult refuses the result: the
\* task ends with InvalidResultError.
SendAbandons(r) ==
  /\ send[r] = "ready"
  /\ ~running \/ r \in expired
  /\ LeaveFlight(r)
  /\ IF tries[r] > 0
     THEN Complete(r, "error") /\ UNCHANGED lost
     ELSE lost' = lost \cup {r} /\ UNCHANGED resultVars
  /\ UNCHANGED <<workerVars, lifeVars, queue, correlated, tries, sent, expired, future, leaked>>

SendSucceeds(r) ==
  /\ send[r] = "sending"
  /\ Complete(r, "success")
  /\ LeaveFlight(r)
  /\ UNCHANGED <<workerVars, lifeVars, queue, correlated, tries, sent, lost, expired, future,
                 leaked>>

\* OSError, TimeoutError or an error of the library.
SendFails(r) ==
  /\ send[r] = "sending"
  /\ Failed(r)
  /\ UNCHANGED <<workerVars, lifeVars, queue, correlated, sent, lost, expired, future, leaked>>

\* Any other exception (BleakError is one) ends the task without a result.
SendRaises(r) ==
  /\ send[r] = "sending"
  /\ LeaveFlight(r)
  /\ lost' = lost \cup {r}
  /\ UNCHANGED <<workerVars, lifeVars, queue, correlated, tries, sent, expired, future,
                 resultVars, leaked>>

-----------------------------------------------------------------------------
WorkerStep ==
  \/ WorkerIdles \/ WorkerAdmits \/ WorkerGivesUp
  \/ \E r \in Requests : WorkerGets(r)

SendStep(r) ==
  \/ SendAttempt(r) \/ SendConflicts(r) \/ SendAbandons(r)
  \/ SendSucceeds(r) \/ SendFails(r) \/ SendRaises(r)

Next ==
  \/ start \/ StopBegin \/ StopFinish
  \/ WorkerStep
  \/ \E r \in Requests :
       \/ EnqueueExpired(r) \/ Enqueue(r) \/ Expire(r)
       \/ \E q \in Requests : EnqueueCoalesced(r, q)
       \/ SendStep(r)

\* Ready tasks and timers run, time passes short deadlines, and the send
\* callback returns or raises.
Fairness ==
  /\ WF_vars(WorkerStep)
  /\ WF_vars(StopFinish)
  /\ \A r \in Requests : WF_vars(SendStep(r)) /\ WF_vars(Expire(r))

Spec == Init /\ [][Next]_vars /\ Fairness

-----------------------------------------------------------------------------
(* Properties.                                                             *)

\* As long as no stop has left a send task behind, the in-flight tables count
\* exactly the send tasks alive, and neither limit is exceeded (_can_send,
\* the finally clause of _send_with_retry).
LimitsHold ==
  ~leaked =>
    /\ inFlight = {r \in Requests : SendAlive(r)}
    /\ \A n \in Nodes : perDevice[n] = Cardinality({r \in inFlight : Target[r] = n})
    /\ \A n \in Nodes : perDevice[n] <= per_device_limit
    /\ Cardinality(inFlight) <= total_limit

\* After a stop the tables are empty while send tasks run on, and their own
\* endings release slots of requests admitted since (stop, the finally clause of
\* _send_with_retry).  Each stop lets through a device's limit once more at
\* most, never twice over, however old and new tasks of the device interleave.
OverrunBounded ==
  \A n \in Nodes :
    Cardinality({r \in Requests : SendAlive(r) /\ Target[r] = n}) <= per_device_limit * (stops + 1)

\* A caller that still waits can be answered by someone: the queue, the
\* worker or a send task has its request, or stop is about to resolve its
\* future, unless the task died of an exception.  Holds through stops, restarts and coalescing (enqueue).
SomeoneAnswers ==
  \A r \in Requests :
    LET q == future[r] IN
    Accepted(r) /\ outcome[q] = "none" =>
      \/ q \in queue \/ held = q \/ SendAlive(q) \/ q \in lost
      \/ stopping /\ q \in futures

\* A request that is not correlated is recorded once in the metrics and the
\* history, whichever of the worker, its send task and stop comes first
\* (_complete_request; an answered request that expects a response is
\* recorded again when its registration expires).
RecordedOnce == \A r \in Requests \ Expects : completions[r] <= 1

\* A result is final: what a caller, or the callers coalesced with it, was
\* told is never replaced (stop against late answers and expiry).
ResultsAreFinal ==
  [][\A r \in Requests : outcome[r] # "none" => outcome'[r] = outcome[r]]_vars

\* Every caller is answered in the end, unless its send task died or the
\* dispatcher is stopped: no order of expiry, capacity and priorities leaves a
\* request behind (_worker, _can_send).
Waits(r) == Accepted(r) /\ outcome[future[r]] = "none" /\ future[r] \notin lost /\ running
Answered == \A r \in Requests : Waits(r) ~> ~Waits(r)

\* transport/dispatcher.py:9, "Retry with exponential backoff": an attempt
\* that is counted as used was sent.
RetriesAreSent == \A r \in Requests : tries[r] <= sent[r]

=============================================================================
