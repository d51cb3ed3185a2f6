----------------------------- MODULE Reconnect -----------------------------
(***************************************************************************)
(* The connection of one lamp as its coordinator keeps it: the first       *)
(* connection of set-up, the reconnect loop of the ConnectionManager with  *)
(* its backoff, error classes and repair issues, the events that restart   *)
(* it (lost links, advertisements, the reconnect service), RSSI polling,   *)
(* the staleness watchdog and the stop of the coordinator                  *)
(* (connection_manager.py, coordinator.py, __init__.py, repairs.py).       *)
(*                                                                         *)
(* The loop is an asyncio task that sleeps, awaits device.connect() and    *)
(* may be cancelled at each await.  The kinds of device differ in what a   *)
(* cancellation and a failed attempt do:                                   *)
(*   "sig"     SIGMeshDevice: a cancelled connect() ends; a client that    *)
(*             was opened and is given up reports a disconnection;         *)
(*   "telink"  MeshDevice: BLEConnection._connect_with_retry catches the   *)
(*             CancelledError and goes on; nothing is reported, and a      *)
(*             failed attempt drops the client of any other.               *)
(* Every loss of a link is reported here: the keep-alive of a Telink       *)
(* connection that ends by a BleakError, and reports nothing, is modelled  *)
(* in TelinkLink and assumed away in this module.                          *)
(***************************************************************************)
EXTENDS Naturals

CONSTANTS
  Kinds,           \* kinds of device to consider
  Limits,          \* values of _max_reconnect_failures (0: no limit)
  Raised,          \* exceptions connect() may raise: [type, named, words], the
                   \* type with the words of its name, and the words of the message
  StormThreshold,  \* attempts within the window that make a storm
  MaxLevel,        \* number of doublings after which the backoff is at its maximum
  FailureCap,      \* bound: _consecutive_failures is counted up to here
  MaxLoops         \* bound: reconnect loops alive at once

ErrorClass == {"bridge_down", "device_offline", "mesh_auth", "protocol",
               "permanent", "transient", "unknown"}

\* classify_error: the library's own exceptions by their type (an
\* AuthenticationError is a CryptoError), others by the words of their message,
\* or for failures of authentication of the name of their type.
Says(e, keywords) == e.words \cap keywords # {}
Named(e, keywords) == e.named \cap keywords # {}
classify_error(e) ==
  IF e.type \in {"CryptoError", "SIGMeshKeyError"} THEN "mesh_auth"
  ELSE IF e.type = "MeshTimeoutError" THEN "transient"
  ELSE IF e.type = "ProtocolError" THEN "protocol"
  ELSE IF e.type = "DeviceNotFoundError" THEN "device_offline"
  ELSE IF e.type = "MeshConnectionError"
       THEN IF Says(e, {"refused", "unreachable", "no route"}) THEN "bridge_down" ELSE "transient"
  ELSE IF e.type = "TimeoutError" \/ Says(e, {"timeout"}) THEN "transient"
  ELSE IF Says(e, {"auth", "password", "credential"}) \/ Named(e, {"auth", "password", "credential"})
       THEN "mesh_auth"
  ELSE IF Says(e, {"protocol", "version"}) THEN "protocol"
  ELSE IF Says(e, {"connection refused", "unreachable", "no route"}) THEN "bridge_down"
  ELSE IF Says(e, {"not found"}) THEN "device_offline"
  ELSE IF Says(e, {"vendor", "unsupported"}) THEN "permanent"
  ELSE "unknown"
Errors == {classify_error(e) : e \in Raised}

ASSUME KindsAssumption == Kinds \subseteq {"sig", "telink"}
ASSUME LimitsAssumption == Limits \subseteq 0..FailureCap
ASSUME BoundsAssumption ==
  /\ StormThreshold \in Nat \ {0}
  /\ MaxLevel \in Nat
  /\ FailureCap \in Nat /\ MaxLevel <= FailureCap
  /\ MaxLoops \in Nat \ {0}

VARIABLES
  kind,       \* the class of the device
  limit,      \* _max_reconnect_failures
  setup,      \* where the life of the coordinator has come to
  stage,      \* where each caller of connect() has come to
  current,    \* the loop in _reconnect_task, finished or not
  link,       \* the device holds a usable client
  available,  \* state.available
  polling,    \* _rssi_task runs
  failures,   \* _consecutive_failures
  level,      \* doublings of _backoff since it was last reset
  lastClass,  \* last_error_class
  attempts,   \* entries of reconnect_times in the window
  stormSeen,  \* storm_detected
  raised,     \* _raised_repair_issues
  creating,   \* issues with a background task yet to create them
  issues,     \* issues in Home Assistant's registry
  gaveUp      \* history: since the last loop was scheduled, one has ended without a
              \* link, or the reconnect service has dropped the link and failed

loopVars == <<stage, current, gaveUp>>
statVars == <<failures, level, lastClass, attempts, stormSeen>>
issueVars == <<raised, creating, issues>>
fixed == <<kind, limit>>
vars == <<fixed, setup, loopVars, link, available, polling, statVars, issueVars>>

\* Callers of connect(): async_initial_connect, and the loops.
Initial == 0
Loops == 1..MaxLoops
Stages == {"none", "debounce", "backoff", "connecting", "settling"}
Setups == {"new", "connecting", "loaded", "failed", "stopping", "cancelling", "stopped"}

NoClass == "none"
Storm == "reconnect_storm"
IssueOf(c) == CASE c = "bridge_down"    -> {"bridge_unreachable"}
                [] c = "mesh_auth"      -> {"auth_or_mesh_mismatch"}
                [] c = "device_offline" -> {"device_not_found"}
                [] c = "transient"      -> {"timeout"}
                [] OTHER                -> {}
Issues == (UNION {IssueOf(c) : c \in ErrorClass}) \cup {Storm}

\* Mutant: async_stop does not reset _running.
StillRunning == setup \notin {"new", "stopped"}

\* ConnectionManager._running: true from async_initial_connect, whether it
\* succeeds or not, until async_stop.
Running == setup \in {"connecting", "loaded", "failed"}

\* The coordinator's callbacks are registered with the device.
Registered == setup \notin {"new", "stopped"}

Alive(i) == stage[i] # "none"

\* A loop is on its way to an attempt; someone is in connect().
Retrying == \E i \in Loops : stage[i] \in {"debounce", "backoff", "connecting"}
Connecting == \E i \in {Initial} \cup Loops : stage[i] \in {"connecting", "settling"}

TypeOK ==
  /\ kind \in Kinds
  /\ limit \in Limits
  /\ setup \in Setups
  /\ stage \in [{Initial} \cup Loops -> Stages]
  /\ current \in Loops
  /\ link \in BOOLEAN
  /\ available \in BOOLEAN
  /\ polling \in BOOLEAN
  /\ failures \in 0..FailureCap
  /\ level \in 0..MaxLevel
  /\ lastClass \in Errors \cup {NoClass}
  /\ attempts \in 0..StormThreshold
  /\ stormSeen \in BOOLEAN
  /\ raised \in SUBSET Issues
  /\ creating \in SUBSET Issues
  /\ issues \in SUBSET Issues
  /\ gaveUp \in BOOLEAN

Init ==
  /\ kind \in Kinds
  /\ limit \in Limits
  /\ setup = "new"
  /\ stage = [i \in {Initial} \cup Loops |-> "none"]
  /\ current = 1
  /\ link = FALSE
  /\ available = FALSE
  /\ polling = FALSE
  /\ failures = 0
  /\ level = 0
  /\ lastClass = NoClass
  /\ attempts = 0
  /\ stormSeen = FALSE
  /\ raised = {}
  /\ creating = {}
  /\ issues = {}
  /\ gaveUp = FALSE

-----------------------------------------------------------------------------
(* What handlers share.                                                    *)

\* Mutant: the maximum is not applied.
CountOn(n, bound) == n + 1

\* A count that stops at a bound; so does the backoff, at its maximum.
CountTo(n, bound) == IF n < bound THEN n + 1 ELSE bound

\* Where a cancelled loop may be left.
Cancelled(i) ==
  {"none"} \cup (IF kind = "telink" /\ stage[i] = "connecting" THEN {"connecting"} ELSE {})

\* Mutant: a loop that is still alive keeps a new one from being made.
schedule_reconnect_once ==
  IF ~Running \/ Alive(current) THEN UNCHANGED loopVars
  ELSE /\ stage' = [stage EXCEPT ![current] = "debounce"]
       /\ gaveUp' = FALSE
       /\ UNCHANGED current

\* Mutant: the loop that runs is not cancelled before another is made.
schedule_reconnect_keeps ==
  IF ~Running THEN UNCHANGED loopVars
  ELSE \E new \in Loops :
         /\ ~Alive(new)
         /\ stage' = [stage EXCEPT ![new] = "debounce"]
         /\ current' = new
         /\ gaveUp' = FALSE

schedule_reconnect ==
  IF ~Running THEN UNCHANGED loopVars
  ELSE \E left \in Cancelled(current), new \in Loops :
         /\ IF new = current THEN left = "none" ELSE ~Alive(new)
         /\ \A j \in 1..(new - 1) : IF j = current THEN left # "none" ELSE Alive(j)
         /\ stage' = [stage EXCEPT ![current] = left, ![new] = "debounce"]
         /\ current' = new
         /\ gaveUp' = FALSE

\* Mutant: handle_disconnect leaves the reconnection to someone else.
OnDisconnectWaits ==
  IF Registered
  THEN available' = FALSE /\ polling' = FALSE /\ UNCHANGED loopVars
  ELSE UNCHANGED <<available, polling, loopVars>>

\* The device calls its disconnect callbacks: the coordinator's, while it is
\* registered, is _on_disconnect, which calls handle_disconnect.
OnDisconnect ==
  IF Registered
  THEN available' = FALSE /\ polling' = FALSE /\ schedule_reconnect
  ELSE UNCHANGED <<available, polling, loopVars>>

\* What _handle_conn_state_update leaves in available.  (Its other branch
\* names the reason of a device that is unavailable already.)
StateUpdate(class) == available /\ class # "permanent"

\* The head of the loop: go on to the next backoff, or end.
WithinLimit(n) == limit = 0 \/ n < limit
NextStage(n) == IF Running /\ WithinLimit(n) THEN "backoff" ELSE "none"

-----------------------------------------------------------------------------
(* Set-up.                                                                 *)

\* async_initial_connect up to device.connect().
InitialConnect ==
  /\ setup = "new"
  /\ setup' = "connecting"
  /\ stage' = [stage EXCEPT ![Initial] = "connecting"]
  /\ UNCHANGED <<fixed, current, gaveUp, link, available, polling, statVars, issueVars>>

\* connect() returns to async_initial_connect: async_connect resets the
\* backoff and starts RSSI polling, but leaves failures and issues alone.
InitialConnected ==
  /\ stage[Initial] = "settling"
  /\ setup' = "loaded"
  /\ stage' = [stage EXCEPT ![Initial] = "none"]
  /\ available' = TRUE
  /\ polling' = TRUE
  /\ level' = 0
  /\ UNCHANGED <<fixed, current, gaveUp, link, failures, lastClass, attempts, stormSeen, issueVars>>

\* connect() raises: async_setup_entry raises ConfigEntryNotReady or
\* ConfigEntryAuthFailed, and nothing stops the coordinator.
InitialFails ==
  /\ stage[Initial] = "connecting"
  /\ setup' = "failed"
  /\ stage' = [stage EXCEPT ![Initial] = "none"]
  /\ link' = (link /\ kind # "telink")
  /\ UNCHANGED <<fixed, current, gaveUp, available, polling, statVars, issueVars>>

-----------------------------------------------------------------------------
(* device.connect(), for whoever awaits it.                                *)

\* The client is assigned (or BLEConnection is READY); what is left is the
\* composition request, or the keep-alive and the notifications.
LinkUp(i) ==
  /\ stage[i] = "connecting"
  /\ stage' = [stage EXCEPT ![i] = "settling"]
  /\ link' = TRUE
  /\ UNCHANGED <<fixed, setup, current, gaveUp, available, polling, statVars, issueVars>>

\* A SIG client connects, but its proxy service is unusable: connect() drops
\* it to try again, and the backend reports the disconnection.  When i is the
\* loop in _reconnect_task it is cancelled by its own callback.
ClientGivenUp(i) ==
  /\ kind = "sig"
  /\ stage[i] = "connecting"
  /\ link' = FALSE
  /\ OnDisconnect
  /\ UNCHANGED <<fixed, setup, statVars, issueVars>>

\* The composition request of a SIG connect() fails on a link that is gone (a
\* client it gives up is a link lost): connect() goes on to its next attempt.
CompositionFails(i) ==
  /\ kind = "sig"
  /\ stage[i] = "settling"
  /\ ~link
  /\ stage' = [stage EXCEPT ![i] = "connecting"]
  /\ UNCHANGED <<fixed, setup, current, gaveUp, link, available, polling, statVars, issueVars>>

-----------------------------------------------------------------------------
(* _reconnect_loop.  A timer of seconds fires only when no task is ready   *)
(* to run, so after the tasks that create issues.                          *)

Debounced(i) ==
  /\ stage[i] = "debounce"
  /\ creating = {}
  /\ stage' = [stage EXCEPT ![i] = NextStage(failures)]
  /\ gaveUp' = (gaveUp \/ (Running /\ ~WithinLimit(failures)))
  /\ available' = IF Running /\ ~WithinLimit(failures) THEN StateUpdate(lastClass) ELSE available
  /\ UNCHANGED <<fixed, setup, current, link, polling, statVars, issueVars>>

BackoffOver(i) ==
  /\ stage[i] = "backoff"
  /\ creating = {}
  /\ stage' = [stage EXCEPT ![i] = IF Running THEN "connecting" ELSE "none"]
  /\ UNCHANGED <<fixed, setup, current, gaveUp, link, available, polling, statVars, issueVars>>

\* Mutant: the set of raised issues is not cleared with the registry.
ClearIssuesKeepsRaised == issues' = {} /\ UNCHANGED raised

\* Mutant: the storm is not among the issues that are deleted.
ClearIssuesKeepsStorm == issues' = issues \cap {Storm} /\ raised' = {}

\* _clear_repair_issues_on_recovery.
ClearIssues == issues' = {} /\ raised' = {}

\* Mutant: the backoff is not reset.
ReconnectedKeepsBackoff(i) ==
  /\ stage[i] = "settling"
  /\ stage' = [stage EXCEPT ![i] = "none"]
  /\ available' = TRUE
  /\ polling' = TRUE
  /\ failures' = 0
  /\ attempts' = CountTo(attempts, StormThreshold)
  /\ stormSeen' = FALSE
  /\ ClearIssues
  /\ UNCHANGED <<fixed, setup, current, gaveUp, link, level, lastClass, creating>>

\* connect() returns: _clear_repair_issues_on_recovery, then
\* _handle_reconnected.
Reconnected(i) ==
  /\ stage[i] = "settling"
  /\ stage' = [stage EXCEPT ![i] = "none"]
  /\ available' = TRUE
  /\ polling' = TRUE
  /\ level' = 0
  /\ failures' = 0
  /\ attempts' = CountTo(attempts, StormThreshold)
  /\ stormSeen' = FALSE
  /\ ClearIssues
  /\ UNCHANGED <<fixed, setup, current, gaveUp, link, lastClass, creating>>

\* connect() raises an error of class c.  reconnect_times holds attempts of
\* the last minutes only, so a storm may have passed by.
ReconnectFails(i, c) ==
  /\ stage[i] = "connecting"
  /\ link' = (link /\ kind # "telink")
  /\ failures' = CountTo(failures, FailureCap)
  /\ lastClass' = c
  /\ available' = StateUpdate(c)
  /\ attempts' \in {1, CountTo(attempts, StormThreshold)}
  /\ IF c = "permanent"
     THEN /\ stage' = [stage EXCEPT ![i] = "none"]
          /\ gaveUp' = TRUE
          /\ UNCHANGED <<level, stormSeen, raised, creating>>
     ELSE LET storm == attempts' = StormThreshold /\ ~stormSeen
          IN  /\ stage' = [stage EXCEPT ![i] = NextStage(failures')]
              /\ gaveUp' = (gaveUp \/ (Running /\ ~WithinLimit(failures')))
              /\ level' = CountTo(level, MaxLevel)
              /\ stormSeen' = (stormSeen \/ storm)
              /\ raised' = raised \cup IssueOf(c)
              /\ creating' = creating \cup (IssueOf(c) \ raised)
                                      \cup (IF storm THEN {Storm} ELSE {})
  /\ UNCHANGED <<fixed, setup, current, polling, issues>>

\* connect() raises AttributeError, TypeError or NameError: the loop raises
\* it again and ends, and nothing else is told.
ReconnectCrashes(i) ==
  /\ stage[i] = "connecting"
  /\ stage' = [stage EXCEPT ![i] = "none"]
  /\ gaveUp' = TRUE
  /\ UNCHANGED <<fixed, setup, current, link, available, polling, statVars, issueVars>>

\* The background task of _maybe_create_repair_issue, or of the storm, runs.
CreateIssue(x) ==
  /\ x \in creating
  /\ creating' = creating \ {x}
  /\ issues' = issues \cup {x}
  /\ UNCHANGED <<fixed, setup, loopVars, link, available, polling, statVars, raised>>

-----------------------------------------------------------------------------
(* Events.                                                                 *)

\* The link is lost and the device learns of it: from the backend (sig), or
\* from a write or a keep-alive that fails (telink).
LinkLost ==
  /\ link
  /\ link' = FALSE
  /\ OnDisconnect
  /\ UNCHANGED <<fixed, setup, statVars, issueVars>>

\* A status notification: any of the coordinator's update callbacks.
Notified ==
  /\ link
  /\ Registered
  /\ available' = TRUE
  /\ level' = 0
  /\ UNCHANGED <<fixed, setup, loopVars, link, polling, failures, lastClass, attempts,
                 stormSeen, issueVars>>

\* _on_ble_device_found: an advertisement while the device is unavailable.
\* The callback is registered before the first attempt and removed when
\* set-up fails.
Advertised ==
  /\ setup \in {"connecting", "loaded"}
  /\ ~available
  /\ schedule_reconnect
  /\ UNCHANGED <<fixed, setup, link, available, polling, statVars, issueVars>>

\* The reconnect service (and the reconnect button): disconnect, reported by a
\* SIG client, not by a Telink one, then schedule.  A BleakError out of a
\* Telink disconnect is not suppressed: the link is gone, nothing is scheduled.
handle_reconnect ==
  /\ setup = "loaded"
  /\ link' = FALSE
  /\ \/ IF kind = "sig" /\ link THEN OnDisconnect
        ELSE schedule_reconnect /\ UNCHANGED <<available, polling>>
     \/ /\ kind = "telink" /\ (link \/ Connecting)
        /\ gaveUp' = (gaveUp \/ ~Retrying)
        /\ UNCHANGED <<stage, current, available, polling>>
  /\ UNCHANGED <<fixed, setup, statVars, issueVars>>

\* A round of _rssi_loop finds the device and reports through
\* _handle_conn_state_update.
RssiRead ==
  /\ polling
  /\ Running
  /\ available' = StateUpdate(lastClass)
  /\ UNCHANGED <<fixed, setup, loopVars, link, polling, statVars, issueVars>>

\* _staleness_watchdog_loop: no update for long, and _probe_device finds no
\* connection.
Watchdog ==
  /\ setup = "loaded"
  /\ available
  /\ ~link
  /\ available' = FALSE
  /\ UNCHANGED <<fixed, setup, loopVars, link, polling, statVars, issueVars>>

-----------------------------------------------------------------------------
(* async_stop, called by async_unload_entry for an entry that is loaded.   *)

\* Up to async_cancel_tasks, while the sequence is saved.
StopBegin ==
  /\ setup = "loaded"
  /\ setup' = "stopping"
  /\ UNCHANGED <<fixed, loopVars, link, available, polling, statVars, issueVars>>

\* async_cancel_tasks cancels the RSSI task and _reconnect_task, and waits.
StopCancel ==
  /\ setup = "stopping"
  /\ setup' = "cancelling"
  /\ \E left \in Cancelled(current) : stage' = [stage EXCEPT ![current] = left]
  /\ polling' = FALSE
  /\ UNCHANGED <<fixed, current, gaveUp, link, available, statVars, issueVars>>

\* Mutant: the background tasks are left to run.
StopFinishKeepsTasks ==
  /\ setup = "cancelling"
  /\ ~Alive(current)
  /\ setup' = "stopped"
  /\ link' = FALSE
  /\ available' = FALSE
  /\ UNCHANGED <<fixed, loopVars, polling, statVars, issueVars>>

\* The rest: background tasks, callbacks and the device.
StopFinish ==
  /\ setup = "cancelling"
  /\ ~Alive(current)
  /\ setup' = "stopped"
  /\ creating' = {}
  /\ link' = FALSE
  /\ available' = FALSE
  /\ UNCHANGED <<fixed, loopVars, polling, statVars, raised, issues>>

-----------------------------------------------------------------------------
LoopStep(i) ==
  \/ Debounced(i)
  \/ BackoffOver(i)
  \/ Reconnected(i)
  \/ \E c \in Errors : ReconnectFails(i, c)
  \/ ReconnectCrashes(i)

AttemptStep(i) == LinkUp(i) \/ ClientGivenUp(i) \/ CompositionFails(i)

Next ==
  \/ InitialConnect
  \/ InitialConnected
  \/ InitialFails
  \/ \E i \in {Initial} \cup Loops : AttemptStep(i)
  \/ \E i \in Loops : LoopStep(i)
  \/ \E x \in Issues : CreateIssue(x)
  \/ LinkLost
  \/ Notified
  \/ Advertised
  \/ handle_reconnect
  \/ RssiRead
  \/ Watchdog
  \/ StopBegin
  \/ StopCancel
  \/ StopFinish

\* Timers fire, connect() returns or raises (its steps have timeouts), a
\* ready task runs, and async_stop goes on once what it awaits is done.
\* Nothing is assumed of the lamp, of advertisements or of users.
Fairness ==
  /\ \A i \in Loops : WF_vars(LoopStep(i) \/ AttemptStep(i))
  /\ \A x \in Issues : WF_vars(CreateIssue(x))
  /\ WF_vars(StopCancel)
  /\ WF_vars(StopFinish)

Spec == Init /\ [][Next]_vars /\ Fairness

-----------------------------------------------------------------------------
(* Properties.                                                             *)

\* Two loops never try to connect a SIG device at the same time:
\* schedule_reconnect cancels the loop it replaces (connection_manager.py,
\* schedule_reconnect), also when an attempt is restarted by its own callback.
OneLoop == kind = "sig" => \A i \in Loops : Alive(i) => i = current

\* A lost link is never forgotten: while the entry is loaded and the device
\* has no link, a loop is at work, unless the last one gave up (limit,
\* permanent or programming error) or the reconnect service failed.  This must
\* survive every order of lost links, cancellations, advertisements and calls.
Pursued ==
  setup = "loaded" /\ ~link /\ ~gaveUp => \E i \in Loops : Alive(i)

\* After async_stop nothing of the coordinator of a SIG device runs, holds a
\* link or shows the device as available.
Quiet ==
  /\ \A i \in Loops : ~Alive(i)
  /\ creating = {}
  /\ ~link
  /\ ~available
SigStopsClean == setup = "stopped" /\ kind = "sig" => Quiet

\* async_cancel_tasks: "Cancel all background tasks and await their
\* completion."  No loop outlives async_stop, whatever the device.
StopEndsLoops == setup = "stopped" => \A i \in Loops : ~Alive(i)

\* async_initial_connect: "If connection fails, raises exception to propagate
\* to HA Core, which will: ... Handle retry scheduling".  When the set-up has
\* failed the coordinator, which nothing will stop, does not retry by itself.
CoreRetries == setup = "failed" => \A i \in Loops : ~Alive(i)

\* An issue is in the registry, or about to be, exactly while its class is
\* remembered as raised: so it is created once per outage, and again in the
\* next (sig: a Telink loop that outlives its replacement breaks this).
IssuesTracked ==
  kind = "sig" /\ setup # "stopped" => (issues \cup creating) \ {Storm} = raised

\* The wait before an attempt is never longer than the failures since the
\* last success account for, wherever success, notification or failure of
\* concurrent attempts reset or double it.
BackoffEarned == level <= failures


\* Once a loop has reconnected a SIG device, no issue of the outage is left,
\* and no task is left that would still create one.
RecoveryClearsIssues ==
  [][(\E i \in Loops : kind = "sig" /\ Reconnected(i)) =>
       issues' = {} /\ creating' = {}]_vars

\* A link that is lost leads to an attempt, to a link or to the loop giving
\* up, unless advertisements or service calls keep restarting the loop.
LossLeadsToAttempt ==
  \/ []<><<Advertised \/ handle_reconnect>>_vars
  \/ (setup = "loaded" /\ ~link) ~>
       (link \/ gaveUp \/ ~Running \/ \E i \in Loops : stage[i] = "connecting")

\* async_stop comes to its end: also when the loop it has cancelled goes on
\* with its attempt.
StopCompletes == setup = "stopping" ~> setup = "stopped"
-----------------------------------------------------------------------------
(* The inductive invariant behind the safety properties (ReconnectProofs). *)

\* Set-up is the only time the first connection is attempted, and nothing
\* happens before it.
LifeOrder ==
  /\ stage[Initial] # "none" => setup = "connecting"
  /\ setup = "new" => creating = {} /\ ~link /\ \A i \in Loops : ~Alive(i)

\* Someone is in a connect() that has opened a client.
Settling == \E i \in {Initial} \cup Loops : stage[i] = "settling"

\* Pursued, and its reason: also when the link is lost under a connect() that
\* is about to return, a loop is left after it has returned.
Chased ==
  (/\ setup \in {"connecting", "loaded"} /\ ~link /\ ~gaveUp
   /\ setup = "loaded" \/ Settling)
  => Retrying

\* While a SIG loop attempts to connect, every issue has been created.
IssuesSettled ==
  kind = "sig" => \A i \in Loops : stage[i] \in {"connecting", "settling"} => creating = {}

IInv ==
  /\ TypeOK /\ LifeOrder /\ OneLoop /\ Chased /\ IssuesSettled
  /\ IssuesTracked /\ BackoffEarned /\ SigStopsClean
=============================================================================
