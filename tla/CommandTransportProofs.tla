---------------------- MODULE CommandTransportProofs ----------------------
(***************************************************************************)
(* Proofs about CommandTransport for every finite set of requests, every   *)
(* assignment of nodes, payloads, priorities and deadlines, and every      *)
(* choice of limits and retries.                                           *)
(***************************************************************************)
EXTENDS CommandTransport, FiniteSetTheorems, TLAPS

USE RequestsAssumption, TargetAssumption, PriorityAssumption, ExpectsAssumption,
    PerishableAssumption, LimitsAssumption

-----------------------------------------------------------------------------
(* The inductive invariant.                                                *)

\* The worker exists while the dispatcher runs, and holds a request exactly
\* while it waits for capacity.
HeldWhileWaiting ==
  /\ running <=> worker # "off"
  /\ worker = "waiting" <=> held # NoRequest

\* A request is in one place at a time: queued, held by the worker, or past
\* its admission; only a request with a future of its own is in any of them.
OnePlace ==
  /\ \A r \in queue : send[r] = "none" /\ held # r /\ future[r] = r
  /\ held \in Requests => send[held] = "none" /\ future[held] = held
  /\ \A r \in Requests : send[r] # "none" => future[r] = r
  /\ \A r \in correlated : send[r] # "none"

\* Attempts are counted: a live task has a retry left, and has sent no more
\* often than it has failed, the attempt under way apart.
AttemptsCounted ==
  \A r \in Requests :
    /\ send[r] = "none" => tries[r] = 0 /\ sent[r] = 0
    /\ send[r] = "ready" => tries[r] <= max_retries /\ sent[r] <= tries[r]
    /\ send[r] = "sending" => tries[r] <= max_retries /\ sent[r] <= tries[r] + 1

\* A registered future is its own request's, and has no result; a result is
\* that of a request that was accepted.
FuturesOpen ==
  /\ \A r \in futures : future[r] = r /\ outcome[r] = "none"
  /\ \A r \in Requests : outcome[r] # "none" => Accepted(r)

\* A caller holds a future that exists.
FuturesHeld == \A r \in Requests : Accepted(r) => future[future[r]] = future[r]

\* A future without a result is registered, and someone will resolve it.
OpenIsPending ==
  \A q \in Requests :
    future[q] = q /\ outcome[q] = "none" =>
      /\ q \in futures
      /\ \/ q \in queue \/ held = q \/ SendAlive(q) \/ q \in lost
         \/ stopping

\* A request still on its way has no record yet.
RecordedAtEnd ==
  \A r \in Requests \ Expects :
    /\ completions[r] <= 1
    /\ (r \in queue \/ held = r \/ SendAlive(r) \/ ~Accepted(r)) => completions[r] = 0

IInv ==
  /\ TypeOK /\ HeldWhileWaiting /\ OnePlace /\ AttemptsCounted
  /\ FuturesOpen /\ FuturesHeld /\ OpenIsPending /\ RecordedAtEnd
-----------------------------------------------------------------------------
(* Counting the requests in flight.                                        *)

\* The requests of S for node n.
For(S, n) == {r \in S : Target[r] = n}

\* One more request in a set counts once, and only for its own node.
LEMMA CountAdded ==
  ASSUME NEW S \in SUBSET Requests, NEW r \in Requests \ S, NEW n \in Nodes
  PROVE  /\ Cardinality(S \cup {r}) = Cardinality(S) + 1
         /\ Cardinality(For(S \cup {r}, n)) =
              IF Target[r] = n THEN Cardinality(For(S, n)) + 1 ELSE Cardinality(For(S, n))
<1>1. IsFiniteSet(S) /\ IsFiniteSet(For(S, n))
  BY FS_Subset DEF For
<1>2. For(S \cup {r}, n) = IF Target[r] = n THEN For(S, n) \cup {r} ELSE For(S, n)
  BY DEF For
<1>3. r \notin For(S, n)
  BY DEF For
<1>. QED  BY <1>1, <1>2, <1>3, FS_AddElement

\* One request less in a set counts once, and only for its own node.
LEMMA CountRemoved ==
  ASSUME NEW S \in SUBSET Requests, NEW r \in S, NEW n \in Nodes
  PROVE  /\ Cardinality(S \ {r}) = Cardinality(S) - 1
         /\ Cardinality(For(S \ {r}, n)) =
              IF Target[r] = n THEN Cardinality(For(S, n)) - 1 ELSE Cardinality(For(S, n))
<1>1. IsFiniteSet(S) /\ IsFiniteSet(For(S, n))
  BY FS_Subset DEF For
<1>2. For(S \ {r}, n) = IF Target[r] = n THEN For(S, n) \ {r} ELSE For(S, n)
  BY DEF For
<1>3. Target[r] = n => r \in For(S, n)
  BY DEF For
<1>4. Cardinality(S \ {r}) = Cardinality(S) - 1
  BY <1>1, FS_RemoveElement
<1>5. CASE Target[r] = n
  <2>1. Cardinality(For(S, n) \ {r}) = Cardinality(For(S, n)) - 1
    <3> DEFINE T == For(S, n)
    <3>1. IsFiniteSet(T) /\ r \in T
      BY <1>1, <1>3, <1>5
    <3> HIDE DEF T
    <3>2. Cardinality(T \ {r}) = Cardinality(T) - 1
      BY <3>1, FS_RemoveElement
    <3>. QED  BY <3>2 DEF T
  <2>. QED  BY <1>2, <1>4, <1>5, <2>1
<1>6. CASE Target[r] # n
  BY <1>2, <1>4, <1>6
<1>. QED  BY <1>5, <1>6

\* Every count is a natural number, and that of a non-empty set is not zero.
LEMMA CountType ==
  ASSUME NEW S \in SUBSET Requests, NEW n \in Nodes
  PROVE  /\ Cardinality(S) \in Nat /\ Cardinality(For(S, n)) \in Nat
         /\ \A r \in For(S, n) : Cardinality(For(S, n)) > 0
<1>1. IsFiniteSet(S) /\ IsFiniteSet(For(S, n))
  BY FS_Subset DEF For
<1>. QED  BY <1>1, FS_CardinalityType, FS_EmptySet

-----------------------------------------------------------------------------
(* The in-flight limits.                                                   *)

\* The tables and the limits of LimitsHold, while no stop has left a task
\* behind.
Counted ==
  /\ inFlight = {r \in Requests : SendAlive(r)}
  /\ \A n \in Nodes : perDevice[n] = Cardinality(For(inFlight, n))
  /\ \A n \in Nodes : perDevice[n] <= per_device_limit
  /\ Cardinality(inFlight) <= total_limit

\* What LimitsHold says.
LEMMA LimitsAreCounted == LimitsHold <=> (~leaked => Counted)
BY DEF LimitsHold, Counted, For

\* The worker admits a request that has no task yet, within the limits: the
\* tables still count the tasks alive (_worker).
LEMMA AdmitCounts ==
  ASSUME TypeOK, Counted, NEW r \in Requests, send[r] = "none", _can_send(r), Admit(r)
  PROVE  Counted'
<1>1. r \notin inFlight /\ inFlight \subseteq Requests /\ Target[r] \in Nodes
  BY DEF Counted, SendAlive, TypeOK
<1>2. inFlight' = {q \in Requests : SendAlive(q)'}
  BY DEF Counted, SendAlive, TypeOK, Admit
<1>3. Cardinality(inFlight') = Cardinality(inFlight) + 1
  BY <1>1, CountAdded DEF Admit
<1>4. ASSUME NEW n \in Nodes
      PROVE  perDevice'[n] = Cardinality(For(inFlight', n)) /\ perDevice'[n] <= per_device_limit
  <2>1. Cardinality(For(inFlight', n)) =
          IF Target[r] = n THEN perDevice[n] + 1 ELSE perDevice[n]
    <3>1. Cardinality(For(inFlight \cup {r}, n)) =
            IF Target[r] = n THEN Cardinality(For(inFlight, n)) + 1
                             ELSE Cardinality(For(inFlight, n))
      BY <1>1, CountAdded
    <3>. QED  BY <3>1 DEF Admit, Counted
  <2>2. perDevice'[n] = IF Target[r] = n THEN perDevice[n] + 1 ELSE perDevice[n]
    BY <1>1 DEF Admit, TypeOK
  <2>. QED  BY <1>1, <2>1, <2>2 DEF Counted, TypeOK, _can_send
<1>5. Cardinality(inFlight') <= total_limit
  BY <1>1, <1>3, CountType DEF _can_send
<1>. QED  BY <1>2, <1>4, <1>5 DEF Counted, For

\* A send task that ends leaves the tables counting the others (the finally
\* clause of _send_with_retry).
LEMMA LeaveCounts ==
  ASSUME TypeOK, Counted, NEW r \in Requests, SendAlive(r), LeaveFlight(r)
  PROVE  Counted'
<1>1. r \in inFlight /\ inFlight \subseteq Requests /\ Target[r] \in Nodes
  BY DEF Counted
<1>2. inFlight' = {q \in Requests : SendAlive(q)'}
  BY DEF Counted, SendAlive, TypeOK, LeaveFlight
<1>3. Cardinality(inFlight') = Cardinality(inFlight) - 1
  BY <1>1, CountRemoved DEF LeaveFlight
<1>4. perDevice[Target[r]] > 0
  <2>1. r \in For(inFlight, Target[r])
    BY <1>1 DEF For
  <2>. QED  BY <1>1, <2>1, CountType DEF Counted
<1>5. ASSUME NEW n \in Nodes
      PROVE  perDevice'[n] = Cardinality(For(inFlight', n)) /\ perDevice'[n] <= per_device_limit
  <2>1. Cardinality(For(inFlight', n)) =
          IF Target[r] = n THEN perDevice[n] - 1 ELSE perDevice[n]
    <3>1. Cardinality(For(inFlight \ {r}, n)) =
            IF Target[r] = n THEN Cardinality(For(inFlight, n)) - 1
                             ELSE Cardinality(For(inFlight, n))
      BY <1>1, CountRemoved
    <3>. QED  BY <3>1 DEF LeaveFlight, Counted
  <2>2. perDevice'[n] = IF Target[r] = n THEN perDevice[n] - 1 ELSE perDevice[n]
    BY <1>1, <1>4 DEF LeaveFlight, TypeOK
  <2>. QED  BY <1>1, <1>4, <2>1, <2>2 DEF Counted, TypeOK
<1>6. Cardinality(inFlight') <= total_limit
  BY <1>1, <1>3, CountType DEF Counted
<1>. QED  BY <1>2, <1>5, <1>6 DEF Counted, For

\* A step that leaves the tables alone and every task alive or not as it was
\* changes no count.
LEMMA SameCounts ==
  ASSUME TypeOK, Counted, UNCHANGED flightVars,
         \A r \in Requests : SendAlive(r)' = SendAlive(r)
  PROVE  Counted'
BY DEF Counted, flightVars, For

\* A stop that finds no task alive clears the tables.
LEMMA StopCounts ==
  ASSUME TypeOK, StopFinish, ~leaked'
  PROVE  Counted'
<1>1. inFlight' = {} /\ \A r \in Requests : ~SendAlive(r)'
  BY DEF StopFinish, SendAlive, sendVars
<1>2. \A n \in Nodes : For(inFlight', n) = {} /\ perDevice'[n] = 0
  BY <1>1 DEF For, StopFinish
<1>. QED  BY <1>1, <1>2, FS_EmptySet DEF Counted

\* Every step keeps the limits.
LEMMA LimitsStep == IInv /\ LimitsHold /\ [Next]_vars => LimitsHold'
<1> SUFFICES ASSUME IInv, ~leaked => Counted, [Next]_vars, ~leaked'
             PROVE  Counted'
  BY DEF LimitsHold, Counted, For
<1> USE DEF vars, workerVars, lifeVars, sendVars, resultVars, flightVars
<1>t. TypeOK
  BY DEF IInv
<1>0. ASSUME UNCHANGED <<leaked, flightVars, send>> PROVE Counted'
  BY <1>0, <1>t, SameCounts DEF SendAlive
<1>1. ASSUME start PROVE Counted'
  BY <1>0, <1>1 DEF start
<1>2. ASSUME StopBegin PROVE Counted'
  BY <1>0, <1>2 DEF StopBegin
<1>3. ASSUME StopFinish PROVE Counted'
  BY <1>3, <1>t, StopCounts
<1>4. ASSUME WorkerIdles PROVE Counted'
  BY <1>0, <1>4 DEF WorkerIdles
<1>5. ASSUME WorkerAdmits PROVE Counted'
  <2>1. held \in Requests /\ send[held] = "none" /\ ~leaked
    BY <1>5 DEF IInv, TypeOK, HeldWhileWaiting, OnePlace, WorkerAdmits
  <2>. QED  BY <1>5, <1>t, <2>1, AdmitCounts DEF WorkerAdmits
<1>6. ASSUME WorkerGivesUp PROVE Counted'
  BY <1>0, <1>6 DEF WorkerGivesUp
<1>7. ASSUME NEW r \in Requests, WorkerGets(r) PROVE Counted'
  <2>1. send[r] = "none"
    BY <1>7 DEF IInv, OnePlace, WorkerGets, Front
  <2>2. CASE _can_send(r) /\ Admit(r)
    BY <1>7, <1>t, <2>1, <2>2, AdmitCounts DEF WorkerGets
  <2>3. CASE UNCHANGED <<flightVars, send>>
    BY <1>0, <1>7, <2>3 DEF WorkerGets
  <2>. QED  BY <1>7, <2>2, <2>3 DEF WorkerGets
<1>8. ASSUME NEW r \in Requests, EnqueueExpired(r) PROVE Counted'
  BY <1>0, <1>8 DEF EnqueueExpired
<1>9. ASSUME NEW r \in Requests, Enqueue(r) PROVE Counted'
  BY <1>0, <1>9 DEF Enqueue
<1>10. ASSUME NEW r \in Requests, Expire(r) PROVE Counted'
  BY <1>0, <1>10 DEF Expire
<1>11. ASSUME NEW r \in Requests, NEW q \in Requests, EnqueueCoalesced(r, q) PROVE Counted'
  BY <1>0, <1>11 DEF EnqueueCoalesced
<1>12. ASSUME NEW r \in Requests, SendAttempt(r) PROVE Counted'
  BY <1>12, <1>t, SameCounts DEF SendAttempt, SendAlive, TypeOK
<1>13. ASSUME NEW r \in Requests, SendAlive(r), UNCHANGED leaked, Failed(r) PROVE Counted'
  <2>1. CASE LeaveFlight(r)
    BY <1>13, <1>t, <2>1, LeaveCounts
  <2>2. CASE send' = [send EXCEPT ![r] = "ready"] /\ UNCHANGED flightVars
    BY <1>13, <1>t, <2>2, SameCounts DEF SendAlive, TypeOK
  <2>. QED  BY <1>13, <2>1, <2>2 DEF Failed
<1>14. ASSUME NEW r \in Requests, SendConflicts(r) \/ SendFails(r) PROVE Counted'
  BY <1>13, <1>14 DEF SendConflicts, SendFails, SendAlive
<1>15. ASSUME NEW r \in Requests, SendAbandons(r) \/ SendSucceeds(r) \/ SendRaises(r)
       PROVE  Counted'
  <2>1. SendAlive(r) /\ LeaveFlight(r) /\ ~leaked
    BY <1>15 DEF SendAbandons, SendSucceeds, SendRaises, SendAlive
  <2>. QED  BY <1>t, <2>1, LeaveCounts
<1>16. CASE UNCHANGED vars
  BY <1>0, <1>16
<1>. QED
  BY <1>1, <1>2, <1>3, <1>4, <1>5, <1>6, <1>7, <1>8, <1>9, <1>10, <1>11, <1>12, <1>14,
     <1>15, <1>16 DEF Next, WorkerStep, SendStep

-----------------------------------------------------------------------------
(* The limits after stops that left tasks behind.                          *)

AliveFor(n) == For({r \in Requests : SendAlive(r)}, n)

\* The stops that have emptied the tables.
Emptied == IF stopping THEN stops - 1 ELSE stops

\* The tables count what was admitted since they were emptied, or less: each
\* time they were, no more than a device's limit of tasks went uncounted.
Overrun ==
  \A n \in Nodes :
    /\ perDevice[n] <= per_device_limit
    /\ Cardinality(AliveFor(n)) <= perDevice[n] + per_device_limit * Emptied

\* What a device is allowed.
Allowance == per_device_limit * Emptied

LEMMA AllowanceType == ASSUME TypeOK PROVE Allowance \in Int /\ Emptied \in Int
BY DEF Allowance, Emptied, TypeOK

\* A step that leaves the tables alone, and every task alive or not as it was.
LEMMA SameOverrun ==
  ASSUME TypeOK, Overrun, Emptied' = Emptied, UNCHANGED perDevice,
         \A r \in Requests : SendAlive(r)' = SendAlive(r)
  PROVE  Overrun'
<1>1. \A n \in Nodes : AliveFor(n)' = AliveFor(n)
  BY DEF AliveFor, For
<1>. QED  BY <1>1 DEF Overrun

\* One task more is one more in the table (_worker).
LEMMA AdmitOverrun ==
  ASSUME TypeOK, Overrun, NEW r \in Requests, send[r] = "none", _can_send(r), Admit(r),
         Emptied' = Emptied
  PROVE  Overrun'
<1> DEFINE S == {q \in Requests : SendAlive(q)}
<1>1. S \in SUBSET Requests /\ r \in Requests \ S
  BY DEF SendAlive
<1>2. S' = S \cup {r}
  BY DEF SendAlive, TypeOK, Admit
<1> HIDE DEF S
<1>3. ASSUME NEW n \in Nodes
      PROVE  /\ perDevice'[n] <= per_device_limit
             /\ Cardinality(For(S', n)) <= perDevice'[n] + Allowance
  <2>1. Cardinality(For(S', n)) =
          IF Target[r] = n THEN Cardinality(For(S, n)) + 1 ELSE Cardinality(For(S, n))
    BY <1>1, <1>2, CountAdded
  <2>2. perDevice'[n] = IF Target[r] = n THEN perDevice[n] + 1 ELSE perDevice[n]
    BY DEF Admit, TypeOK
  <2>3. Cardinality(For(S, n)) \in Nat /\ perDevice[n] \in Nat /\ Allowance \in Int
    BY <1>1, CountType, AllowanceType DEF TypeOK
  <2>4. perDevice[n] <= per_device_limit /\ Cardinality(For(S, n)) <= perDevice[n] + Allowance
    BY DEF Overrun, AliveFor, S, Allowance
  <2>5. Target[r] = n => perDevice[n] < per_device_limit
    BY DEF _can_send
  <2>. QED  BY <2>1, <2>2, <2>3, <2>4, <2>5
<1>. QED  BY <1>3 DEF Overrun, AliveFor, S, Allowance, For

\* A task that ends frees a slot, its own or another's; one less is alive.
LEMMA LeaveOverrun ==
  ASSUME TypeOK, Overrun, NEW r \in Requests, SendAlive(r), LeaveFlight(r),
         Emptied' = Emptied
  PROVE  Overrun'
<1> DEFINE S == {q \in Requests : SendAlive(q)}
<1>1. S \in SUBSET Requests /\ r \in S
  OBVIOUS
<1>2. S' = S \ {r}
  BY DEF SendAlive, TypeOK, LeaveFlight
<1> HIDE DEF S
<1>3. ASSUME NEW n \in Nodes
      PROVE  /\ perDevice'[n] <= per_device_limit
             /\ Cardinality(For(S', n)) <= perDevice'[n] + Allowance
  <2>1. Cardinality(For(S', n)) =
          IF Target[r] = n THEN Cardinality(For(S, n)) - 1 ELSE Cardinality(For(S, n))
    BY <1>1, <1>2, CountRemoved
  <2>2. perDevice'[n] = IF Target[r] = n
                        THEN IF perDevice[n] > 0 THEN perDevice[n] - 1 ELSE 0
                        ELSE perDevice[n]
    BY DEF LeaveFlight, TypeOK
  <2>3. Cardinality(For(S, n)) \in Nat /\ perDevice[n] \in Nat /\ Allowance \in Int
    BY <1>1, CountType, AllowanceType DEF TypeOK
  <2>4. perDevice[n] <= per_device_limit /\ Cardinality(For(S, n)) <= perDevice[n] + Allowance
    BY DEF Overrun, AliveFor, S, Allowance
  <2>. QED  BY <2>1, <2>2, <2>3, <2>4
<1>. QED  BY <1>3 DEF Overrun, AliveFor, S, Allowance, For

\* A stop empties the table of a device: what was in it is carried over.
LEMMA StopOverrun ==
  ASSUME TypeOK, Overrun, StopFinish
  PROVE  Overrun'
<1>1. Emptied' = Emptied + 1 /\ Emptied \in Int
  BY AllowanceType DEF StopFinish, Emptied, TypeOK
<1>2. per_device_limit * Emptied' = Allowance + per_device_limit
  BY <1>1 DEF Allowance
<1>3. ASSUME NEW n \in Nodes
      PROVE  perDevice'[n] = 0 /\ AliveFor(n)' = AliveFor(n)
  BY DEF StopFinish, AliveFor, For, SendAlive, sendVars
<1>4. ASSUME NEW n \in Nodes
      PROVE  Cardinality(AliveFor(n)) <= per_device_limit + Allowance
  <2>1. perDevice[n] \in Nat /\ Allowance \in Int /\ Cardinality(AliveFor(n)) \in Nat
    BY AllowanceType, CountType DEF TypeOK, AliveFor
  <2>2. perDevice[n] <= per_device_limit /\ Cardinality(AliveFor(n)) <= perDevice[n] + Allowance
    BY DEF Overrun, Allowance
  <2>. QED  BY <2>1, <2>2
<1>. QED  BY <1>2, <1>3, <1>4, AllowanceType DEF Overrun

\* Every step keeps it.
LEMMA OverrunStep == IInv /\ Overrun /\ [Next]_vars => Overrun'
<1> SUFFICES ASSUME IInv, Overrun, [Next]_vars PROVE Overrun'
  OBVIOUS
<1> USE DEF vars, workerVars, lifeVars, sendVars, resultVars, flightVars
<1>t. TypeOK
  BY DEF IInv
<1>0. ASSUME UNCHANGED <<stops, stopping, flightVars, send>> PROVE Overrun'
  BY <1>0, <1>t, SameOverrun DEF SendAlive, Emptied
<1>1. ASSUME start PROVE Overrun'
  BY <1>0, <1>1 DEF start
<1>2. ASSUME StopBegin PROVE Overrun'
  <2>1. Emptied' = Emptied
    BY <1>2, <1>t DEF StopBegin, Emptied, TypeOK
  <2>. QED  BY <1>2, <1>t, <2>1, SameOverrun DEF StopBegin, SendAlive
<1>3. ASSUME StopFinish PROVE Overrun'
  BY <1>3, <1>t, StopOverrun
<1>4. ASSUME WorkerIdles \/ WorkerGivesUp PROVE Overrun'
  BY <1>0, <1>4 DEF WorkerIdles, WorkerGivesUp
<1>5. ASSUME WorkerAdmits PROVE Overrun'
  <2>1. held \in Requests /\ send[held] = "none" /\ Emptied' = Emptied
    BY <1>5 DEF IInv, TypeOK, HeldWhileWaiting, OnePlace, WorkerAdmits, Emptied
  <2>. QED  BY <1>5, <1>t, <2>1, AdmitOverrun DEF WorkerAdmits
<1>6. ASSUME NEW r \in Requests, WorkerGets(r) PROVE Overrun'
  <2>1. send[r] = "none" /\ Emptied' = Emptied
    BY <1>6 DEF IInv, OnePlace, WorkerGets, Front, Emptied
  <2>2. CASE _can_send(r) /\ Admit(r)
    BY <1>t, <2>1, <2>2, AdmitOverrun
  <2>3. CASE UNCHANGED <<flightVars, send>>
    BY <1>0, <1>6, <2>3 DEF WorkerGets
  <2>. QED  BY <1>6, <2>2, <2>3 DEF WorkerGets
<1>7. ASSUME NEW r \in Requests, NEW q \in Requests,
             EnqueueExpired(r) \/ Enqueue(r) \/ Expire(r) \/ EnqueueCoalesced(r, q)
      PROVE  Overrun'
  BY <1>0, <1>7 DEF EnqueueExpired, Enqueue, Expire, EnqueueCoalesced
<1>8. ASSUME NEW r \in Requests, SendAttempt(r) PROVE Overrun'
  BY <1>8, <1>t, SameOverrun DEF SendAttempt, SendAlive, TypeOK, Emptied
<1>9. ASSUME NEW r \in Requests, SendAlive(r), UNCHANGED lifeVars,
             LeaveFlight(r) \/ (send' = [send EXCEPT ![r] = "ready"] /\ UNCHANGED flightVars)
      PROVE  Overrun'
  <2>1. Emptied' = Emptied
    BY <1>9 DEF Emptied
  <2>2. CASE LeaveFlight(r)
    BY <1>9, <1>t, <2>1, <2>2, LeaveOverrun
  <2>3. CASE send' = [send EXCEPT ![r] = "ready"] /\ UNCHANGED flightVars
    BY <1>9, <1>t, <2>1, <2>3, SameOverrun DEF SendAlive, TypeOK
  <2>. QED  BY <1>9, <2>2, <2>3
<1>10. ASSUME NEW r \in Requests, SendStep(r), ~SendAttempt(r) PROVE Overrun'
  BY <1>9, <1>10 DEF SendStep, SendConflicts, SendAbandons, SendSucceeds, SendFails,
     SendRaises, Failed, SendAlive
<1>11. CASE UNCHANGED vars
  BY <1>0, <1>11
<1>. QED
  BY <1>1, <1>2, <1>3, <1>4, <1>5, <1>6, <1>7, <1>8, <1>10, <1>11 DEF Next, WorkerStep, SendStep

-----------------------------------------------------------------------------
(* Every part is kept by every step, given all of them.                    *)

\* The types: a task never fails or sends more often than its retries allow
\* (_send_with_retry).
LEMMA TypeStep == IInv /\ [Next]_vars => TypeOK'
<1> SUFFICES ASSUME IInv, [Next]_vars PROVE TypeOK'
  OBVIOUS
<1> USE DEF vars, workerVars, lifeVars, sendVars, resultVars, flightVars
<1>1. ASSUME start PROVE TypeOK'
  BY <1>1 DEF start, IInv, TypeOK, Statuses, HeldWhileWaiting, AttemptsCounted
<1>2. ASSUME StopBegin PROVE TypeOK'
  <2>1. stops' \in 0..MaxStops
    BY <1>2 DEF StopBegin, IInv, TypeOK
  <2>. QED  BY <1>2, <2>1 DEF StopBegin, IInv, TypeOK
<1>3. ASSUME StopFinish PROVE TypeOK'
  BY <1>3 DEF StopFinish, IInv, TypeOK, Statuses, HeldWhileWaiting, AttemptsCounted
<1>4. ASSUME WorkerIdles PROVE TypeOK'
  BY <1>4 DEF WorkerIdles, NextRound, CompleteAll, IInv, TypeOK, Statuses,
     HeldWhileWaiting, AttemptsCounted
<1>5. ASSUME WorkerAdmits PROVE TypeOK'
  BY <1>5 DEF WorkerAdmits, Admit, NextRound, CompleteAll, IInv, TypeOK, Statuses,
     HeldWhileWaiting, AttemptsCounted
<1>6. ASSUME WorkerGivesUp PROVE TypeOK'
  BY <1>6 DEF WorkerGivesUp, NextRound, CompleteAll, IInv, TypeOK, Statuses,
     HeldWhileWaiting, AttemptsCounted
<1>7. ASSUME NEW r \in Requests, WorkerGets(r) PROVE TypeOK'
  BY <1>7 DEF WorkerGets, Front, Admit, NextRound, CompleteAll, IInv, TypeOK, Statuses,
     HeldWhileWaiting, AttemptsCounted
<1>8. ASSUME NEW r \in Requests, EnqueueExpired(r) PROVE TypeOK'
  BY <1>8 DEF EnqueueExpired, IInv, TypeOK, Statuses, HeldWhileWaiting, AttemptsCounted
<1>9. ASSUME NEW r \in Requests, Enqueue(r) PROVE TypeOK'
  BY <1>9 DEF Enqueue, IInv, TypeOK, Statuses, HeldWhileWaiting, AttemptsCounted
<1>10. ASSUME NEW r \in Requests, Expire(r) PROVE TypeOK'
  BY <1>10 DEF Expire, IInv, TypeOK, Statuses, HeldWhileWaiting, AttemptsCounted
<1>11. ASSUME NEW r \in Requests, NEW q \in Requests, EnqueueCoalesced(r, q)
      PROVE  TypeOK'
  BY <1>11 DEF EnqueueCoalesced, _coalesce_check, IInv, TypeOK, Statuses,
     HeldWhileWaiting, AttemptsCounted
<1>12. ASSUME NEW r \in Requests, SendAttempt(r) PROVE TypeOK'
  BY <1>12 DEF SendAttempt, IInv, TypeOK, Statuses, HeldWhileWaiting, AttemptsCounted
<1>13. ASSUME NEW r \in Requests, SendConflicts(r) PROVE TypeOK'
  BY <1>13 DEF SendConflicts, Failed, Complete, CompleteAll, LeaveFlight, IInv, TypeOK,
     Statuses, HeldWhileWaiting, AttemptsCounted
<1>14. ASSUME NEW r \in Requests, SendAbandons(r) PROVE TypeOK'
  BY <1>14 DEF SendAbandons, Complete, CompleteAll, LeaveFlight, IInv, TypeOK, Statuses,
     HeldWhileWaiting, AttemptsCounted
<1>15. ASSUME NEW r \in Requests, SendSucceeds(r) PROVE TypeOK'
  BY <1>15 DEF SendSucceeds, Complete, CompleteAll, LeaveFlight, IInv, TypeOK, Statuses,
     HeldWhileWaiting, AttemptsCounted
<1>16. ASSUME NEW r \in Requests, SendFails(r) PROVE TypeOK'
  BY <1>16 DEF SendFails, Failed, Complete, CompleteAll, LeaveFlight, IInv, TypeOK,
     Statuses, HeldWhileWaiting, AttemptsCounted
<1>17. ASSUME NEW r \in Requests, SendRaises(r) PROVE TypeOK'
  BY <1>17 DEF SendRaises, LeaveFlight, IInv, TypeOK, Statuses, HeldWhileWaiting,
     AttemptsCounted
<1>18. CASE UNCHANGED vars
  BY <1>18 DEF IInv, TypeOK, Statuses, HeldWhileWaiting, AttemptsCounted
<1>. QED  BY <1>1, <1>2, <1>3, <1>4, <1>5, <1>6, <1>7, <1>8, <1>9, <1>10, <1>11, <1>12,
     <1>13, <1>14, <1>15, <1>16, <1>17, <1>18 DEF Next, WorkerStep, SendStep

\* The worker and the request it holds: stop takes both away (_worker, stop).
LEMMA HeldStep == IInv /\ [Next]_vars => HeldWhileWaiting'
<1> SUFFICES ASSUME IInv, [Next]_vars PROVE HeldWhileWaiting'
  OBVIOUS
<1> USE DEF vars, workerVars, lifeVars, sendVars, resultVars, flightVars
<1>1. ASSUME start \/ StopBegin \/ StopFinish PROVE HeldWhileWaiting'
  BY <1>1 DEF start, StopBegin, StopFinish, IInv, TypeOK, HeldWhileWaiting
<1>2. ASSUME WorkerIdles \/ WorkerAdmits \/ WorkerGivesUp PROVE HeldWhileWaiting'
  BY <1>2 DEF WorkerIdles, NextRound, CompleteAll, WorkerAdmits, Admit, WorkerGivesUp,
     IInv, TypeOK, HeldWhileWaiting
<1>3. ASSUME NEW r \in Requests, WorkerGets(r) PROVE HeldWhileWaiting'
  BY <1>3 DEF WorkerGets, Front, Admit, NextRound, CompleteAll, IInv, TypeOK,
     HeldWhileWaiting
<1>4. ASSUME NEW r \in Requests, EnqueueExpired(r) \/ Enqueue(r) \/ Expire(r)
      PROVE  HeldWhileWaiting'
  BY <1>4 DEF EnqueueExpired, Enqueue, Expire, IInv, TypeOK, HeldWhileWaiting
<1>5. ASSUME NEW r \in Requests, NEW q \in Requests, EnqueueCoalesced(r, q)
      PROVE  HeldWhileWaiting'
  BY <1>5 DEF EnqueueCoalesced, _coalesce_check, IInv, TypeOK, HeldWhileWaiting
<1>6. ASSUME NEW r \in Requests, SendAttempt(r) PROVE HeldWhileWaiting'
  BY <1>6 DEF SendAttempt, IInv, TypeOK, HeldWhileWaiting
<1>7. ASSUME NEW r \in Requests, SendConflicts(r) \/ SendFails(r)
      PROVE  HeldWhileWaiting'
  BY <1>7 DEF SendConflicts, Failed, Complete, CompleteAll, LeaveFlight, SendFails,
     IInv, TypeOK, HeldWhileWaiting
<1>8. ASSUME NEW r \in Requests, SendAbandons(r) \/ SendSucceeds(r) \/ SendRaises(r)
      PROVE  HeldWhileWaiting'
  BY <1>8 DEF SendAbandons, Complete, CompleteAll, LeaveFlight, SendSucceeds,
     SendRaises, IInv, TypeOK, HeldWhileWaiting
<1>9. CASE UNCHANGED vars
  BY <1>9 DEF IInv, TypeOK, HeldWhileWaiting
<1>. QED  BY <1>1, <1>2, <1>3, <1>4, <1>5, <1>6, <1>7, <1>8, <1>9 DEF Next, WorkerStep,
     SendStep

\* One place: a request moves from the queue to the worker or to its task, and
\* never back (enqueue, _worker, _send_with_retry).
LEMMA PlaceStep == IInv /\ [Next]_vars => OnePlace'
<1> SUFFICES ASSUME IInv, [Next]_vars PROVE OnePlace'
  OBVIOUS
<1> USE DEF vars, workerVars, lifeVars, sendVars, resultVars, flightVars
<1>1. ASSUME start \/ StopBegin \/ StopFinish PROVE OnePlace'
  BY <1>1 DEF start, StopBegin, StopFinish, IInv, TypeOK, HeldWhileWaiting, OnePlace,
     FuturesOpen, Accepted
<1>2. ASSUME WorkerIdles \/ WorkerAdmits \/ WorkerGivesUp PROVE OnePlace'
  BY <1>2 DEF WorkerIdles, NextRound, CompleteAll, WorkerAdmits, Admit, WorkerGivesUp,
     IInv, TypeOK, HeldWhileWaiting, OnePlace, FuturesOpen, Accepted
<1>3. ASSUME NEW r \in Requests, WorkerGets(r) PROVE OnePlace'
  BY <1>3 DEF WorkerGets, Front, Admit, NextRound, CompleteAll, IInv, TypeOK,
     HeldWhileWaiting, OnePlace, FuturesOpen, Accepted
<1>4. ASSUME NEW r \in Requests, EnqueueExpired(r) \/ Enqueue(r) \/ Expire(r)
      PROVE  OnePlace'
  BY <1>4 DEF EnqueueExpired, Enqueue, Expire, IInv, TypeOK, HeldWhileWaiting, OnePlace,
     FuturesOpen, Accepted
<1>5. ASSUME NEW r \in Requests, NEW q \in Requests, EnqueueCoalesced(r, q)
      PROVE  OnePlace'
  BY <1>5 DEF EnqueueCoalesced, _coalesce_check, IInv, TypeOK, HeldWhileWaiting,
     OnePlace, FuturesOpen, Accepted
<1>6. ASSUME NEW r \in Requests, SendAttempt(r) PROVE OnePlace'
  BY <1>6 DEF SendAttempt, IInv, TypeOK, HeldWhileWaiting, OnePlace, FuturesOpen,
     Accepted
<1>7. ASSUME NEW r \in Requests, SendConflicts(r) \/ SendFails(r) PROVE OnePlace'
  BY <1>7 DEF SendConflicts, Failed, Complete, CompleteAll, LeaveFlight, SendFails,
     IInv, TypeOK, HeldWhileWaiting, OnePlace, FuturesOpen, Accepted
<1>8. ASSUME NEW r \in Requests, SendAbandons(r) \/ SendSucceeds(r) \/ SendRaises(r)
      PROVE  OnePlace'
  BY <1>8 DEF SendAbandons, Complete, CompleteAll, LeaveFlight, SendSucceeds,
     SendRaises, IInv, TypeOK, HeldWhileWaiting, OnePlace, FuturesOpen, Accepted
<1>9. CASE UNCHANGED vars
  BY <1>9 DEF IInv, TypeOK, HeldWhileWaiting, OnePlace, FuturesOpen, Accepted
<1>. QED  BY <1>1, <1>2, <1>3, <1>4, <1>5, <1>6, <1>7, <1>8, <1>9 DEF Next, WorkerStep,
     SendStep

\* The count of attempts (_send_with_retry).
LEMMA AttemptsStep == IInv /\ [Next]_vars => AttemptsCounted'
<1> SUFFICES ASSUME IInv, [Next]_vars PROVE AttemptsCounted'
  OBVIOUS
<1> USE DEF vars, workerVars, lifeVars, sendVars, resultVars, flightVars
<1>1. ASSUME start \/ StopBegin \/ StopFinish PROVE AttemptsCounted'
  BY <1>1 DEF start, StopBegin, StopFinish, IInv, TypeOK, HeldWhileWaiting, OnePlace,
     AttemptsCounted
<1>2. ASSUME WorkerIdles \/ WorkerAdmits \/ WorkerGivesUp PROVE AttemptsCounted'
  BY <1>2 DEF WorkerIdles, NextRound, CompleteAll, WorkerAdmits, Admit, WorkerGivesUp,
     IInv, TypeOK, HeldWhileWaiting, OnePlace, AttemptsCounted
<1>3. ASSUME NEW r \in Requests, WorkerGets(r) PROVE AttemptsCounted'
  BY <1>3 DEF WorkerGets, Front, Admit, NextRound, CompleteAll, IInv, TypeOK,
     HeldWhileWaiting, OnePlace, AttemptsCounted
<1>4. ASSUME NEW r \in Requests, EnqueueExpired(r) \/ Enqueue(r) \/ Expire(r)
      PROVE  AttemptsCounted'
  BY <1>4 DEF EnqueueExpired, Enqueue, Expire, IInv, TypeOK, HeldWhileWaiting, OnePlace,
     AttemptsCounted
<1>5. ASSUME NEW r \in Requests, NEW q \in Requests, EnqueueCoalesced(r, q)
      PROVE  AttemptsCounted'
  BY <1>5 DEF EnqueueCoalesced, _coalesce_check, IInv, TypeOK, HeldWhileWaiting,
     OnePlace, AttemptsCounted
<1>6. ASSUME NEW r \in Requests, SendAttempt(r) PROVE AttemptsCounted'
  BY <1>6 DEF SendAttempt, IInv, TypeOK, HeldWhileWaiting, OnePlace, AttemptsCounted
<1>7. ASSUME NEW r \in Requests, SendConflicts(r) \/ SendFails(r) PROVE AttemptsCounted'
  BY <1>7 DEF SendConflicts, Failed, Complete, CompleteAll, LeaveFlight, SendFails,
     IInv, TypeOK, HeldWhileWaiting, OnePlace, AttemptsCounted
<1>8. ASSUME NEW r \in Requests, SendAbandons(r) \/ SendSucceeds(r) \/ SendRaises(r)
      PROVE  AttemptsCounted'
  BY <1>8 DEF SendAbandons, Complete, CompleteAll, LeaveFlight, SendSucceeds,
     SendRaises, IInv, TypeOK, HeldWhileWaiting, OnePlace, AttemptsCounted
<1>9. CASE UNCHANGED vars
  BY <1>9 DEF IInv, TypeOK, HeldWhileWaiting, OnePlace, AttemptsCounted
<1>. QED  BY <1>1, <1>2, <1>3, <1>4, <1>5, <1>6, <1>7, <1>8, <1>9 DEF Next, WorkerStep,
     SendStep

\* Open futures: a result is set only when its future is taken out of the
\* table (_complete_request, stop, enqueue).
LEMMA OpenStep == IInv /\ [Next]_vars => FuturesOpen'
<1> SUFFICES ASSUME IInv, [Next]_vars PROVE FuturesOpen'
  OBVIOUS
<1> USE DEF vars, workerVars, lifeVars, sendVars, resultVars, flightVars
<1>1. ASSUME start \/ StopBegin \/ StopFinish PROVE FuturesOpen'
  BY <1>1 DEF start, StopBegin, StopFinish, IInv, TypeOK, HeldWhileWaiting, OnePlace,
     FuturesOpen, Accepted, Statuses
<1>2. ASSUME WorkerIdles \/ WorkerAdmits \/ WorkerGivesUp PROVE FuturesOpen'
  BY <1>2 DEF WorkerIdles, NextRound, CompleteAll, WorkerAdmits, Admit, WorkerGivesUp,
     IInv, TypeOK, HeldWhileWaiting, OnePlace, FuturesOpen, Accepted, Statuses
<1>3. ASSUME NEW r \in Requests, WorkerGets(r) PROVE FuturesOpen'
  BY <1>3 DEF WorkerGets, Front, Admit, NextRound, CompleteAll, IInv, TypeOK,
     HeldWhileWaiting, OnePlace, FuturesOpen, Accepted, Statuses
<1>4. ASSUME NEW r \in Requests, EnqueueExpired(r) \/ Enqueue(r) \/ Expire(r)
      PROVE  FuturesOpen'
  BY <1>4 DEF EnqueueExpired, Enqueue, Expire, IInv, TypeOK, HeldWhileWaiting, OnePlace,
     FuturesOpen, Accepted, Statuses
<1>5. ASSUME NEW r \in Requests, NEW q \in Requests, EnqueueCoalesced(r, q)
      PROVE  FuturesOpen'
  BY <1>5 DEF EnqueueCoalesced, _coalesce_check, IInv, TypeOK, HeldWhileWaiting,
     OnePlace, FuturesOpen, Accepted, Statuses
<1>6. ASSUME NEW r \in Requests, SendAttempt(r) PROVE FuturesOpen'
  BY <1>6 DEF SendAttempt, IInv, TypeOK, HeldWhileWaiting, OnePlace, FuturesOpen,
     Accepted, Statuses
<1>7. ASSUME NEW r \in Requests, SendConflicts(r) \/ SendFails(r) PROVE FuturesOpen'
  BY <1>7 DEF SendConflicts, Failed, Complete, CompleteAll, LeaveFlight, SendFails,
     IInv, TypeOK, HeldWhileWaiting, OnePlace, FuturesOpen, Accepted, Statuses
<1>8. ASSUME NEW r \in Requests, SendAbandons(r) \/ SendSucceeds(r) \/ SendRaises(r)
      PROVE  FuturesOpen'
  BY <1>8 DEF SendAbandons, Complete, CompleteAll, LeaveFlight, SendSucceeds,
     SendRaises, IInv, TypeOK, HeldWhileWaiting, OnePlace, FuturesOpen, Accepted,
     Statuses
<1>9. CASE UNCHANGED vars
  BY <1>9 DEF IInv, TypeOK, HeldWhileWaiting, OnePlace, FuturesOpen, Accepted, Statuses
<1>. QED  BY <1>1, <1>2, <1>3, <1>4, <1>5, <1>6, <1>7, <1>8, <1>9 DEF Next, WorkerStep,
     SendStep

\* What callers hold: a request is merged only with one that has a future
\* (_coalesce_check).
LEMMA FuturesHeldStep == IInv /\ [Next]_vars => FuturesHeld'
<1> SUFFICES ASSUME IInv, [Next]_vars PROVE FuturesHeld'
  OBVIOUS
<1> USE DEF vars, workerVars, lifeVars, sendVars, resultVars, flightVars
<1>1. ASSUME start \/ StopBegin \/ StopFinish PROVE FuturesHeld'
  BY <1>1 DEF start, StopBegin, StopFinish, IInv, TypeOK, FuturesOpen, FuturesHeld,
     Accepted
<1>2. ASSUME WorkerIdles \/ WorkerAdmits \/ WorkerGivesUp PROVE FuturesHeld'
  BY <1>2 DEF WorkerIdles, NextRound, CompleteAll, WorkerAdmits, Admit, WorkerGivesUp,
     IInv, TypeOK, FuturesOpen, FuturesHeld, Accepted
<1>3. ASSUME NEW r \in Requests, WorkerGets(r) PROVE FuturesHeld'
  BY <1>3 DEF WorkerGets, Front, Admit, NextRound, CompleteAll, IInv, TypeOK,
     FuturesOpen, FuturesHeld, Accepted
<1>4. ASSUME NEW r \in Requests, EnqueueExpired(r) \/ Enqueue(r) \/ Expire(r)
      PROVE  FuturesHeld'
  BY <1>4 DEF EnqueueExpired, Enqueue, Expire, IInv, TypeOK, FuturesOpen, FuturesHeld,
     Accepted
<1>5. ASSUME NEW r \in Requests, NEW q \in Requests, EnqueueCoalesced(r, q)
      PROVE  FuturesHeld'
  BY <1>5 DEF EnqueueCoalesced, _coalesce_check, IInv, TypeOK, FuturesOpen, FuturesHeld,
     Accepted
<1>6. ASSUME NEW r \in Requests, SendAttempt(r) PROVE FuturesHeld'
  BY <1>6 DEF SendAttempt, IInv, TypeOK, FuturesOpen, FuturesHeld, Accepted
<1>7. ASSUME NEW r \in Requests, SendConflicts(r) \/ SendFails(r) PROVE FuturesHeld'
  BY <1>7 DEF SendConflicts, Failed, Complete, CompleteAll, LeaveFlight, SendFails,
     IInv, TypeOK, FuturesOpen, FuturesHeld, Accepted
<1>8. ASSUME NEW r \in Requests, SendAbandons(r) \/ SendSucceeds(r) \/ SendRaises(r)
      PROVE  FuturesHeld'
  BY <1>8 DEF SendAbandons, Complete, CompleteAll, LeaveFlight, SendSucceeds,
     SendRaises, IInv, TypeOK, FuturesOpen, FuturesHeld, Accepted
<1>9. CASE UNCHANGED vars
  BY <1>9 DEF IInv, TypeOK, FuturesOpen, FuturesHeld, Accepted
<1>. QED  BY <1>1, <1>2, <1>3, <1>4, <1>5, <1>6, <1>7, <1>8, <1>9 DEF Next, WorkerStep,
     SendStep

\* Open futures are pending: whoever gives a request up resolves its future,
\* dies of an exception, or is a stop that resolves it later.
LEMMA PendingStep == IInv /\ [Next]_vars => OpenIsPending'
<1> SUFFICES ASSUME IInv, [Next]_vars PROVE OpenIsPending'
  OBVIOUS
<1> USE DEF vars, workerVars, lifeVars, sendVars, resultVars, flightVars
<1>1. ASSUME start PROVE OpenIsPending'
  BY <1>1 DEF start, IInv, TypeOK, HeldWhileWaiting, OnePlace, FuturesOpen,
     OpenIsPending, Accepted, SendAlive, Statuses
<1>2. ASSUME StopBegin PROVE OpenIsPending'
  BY <1>2 DEF StopBegin, IInv, TypeOK, HeldWhileWaiting, OnePlace, FuturesOpen,
     OpenIsPending, Accepted, SendAlive, Statuses
<1>3. ASSUME StopFinish PROVE OpenIsPending'
  BY <1>3 DEF StopFinish, IInv, TypeOK, HeldWhileWaiting, OnePlace, FuturesOpen,
     OpenIsPending, Accepted, SendAlive, Statuses
<1>4. ASSUME WorkerIdles PROVE OpenIsPending'
  BY <1>4 DEF WorkerIdles, NextRound, CompleteAll, IInv, TypeOK, HeldWhileWaiting,
     OnePlace, FuturesOpen, OpenIsPending, Accepted, SendAlive, Statuses
<1>5. ASSUME WorkerAdmits PROVE OpenIsPending'
  BY <1>5 DEF WorkerAdmits, Admit, NextRound, CompleteAll, IInv, TypeOK,
     HeldWhileWaiting, OnePlace, FuturesOpen, OpenIsPending, Accepted, SendAlive,
     Statuses
<1>6. ASSUME WorkerGivesUp PROVE OpenIsPending'
  BY <1>6 DEF WorkerGivesUp, NextRound, CompleteAll, IInv, TypeOK, HeldWhileWaiting,
     OnePlace, FuturesOpen, OpenIsPending, Accepted, SendAlive, Statuses
<1>7. ASSUME NEW r \in Requests, WorkerGets(r) PROVE OpenIsPending'
  BY <1>7 DEF WorkerGets, Front, Admit, NextRound, CompleteAll, IInv, TypeOK,
     HeldWhileWaiting, OnePlace, FuturesOpen, OpenIsPending, Accepted, SendAlive,
     Statuses
<1>8. ASSUME NEW r \in Requests, EnqueueExpired(r) PROVE OpenIsPending'
  BY <1>8 DEF EnqueueExpired, IInv, TypeOK, HeldWhileWaiting, OnePlace, FuturesOpen,
     OpenIsPending, Accepted, SendAlive, Statuses
<1>9. ASSUME NEW r \in Requests, Enqueue(r) PROVE OpenIsPending'
  BY <1>9 DEF Enqueue, IInv, TypeOK, HeldWhileWaiting, OnePlace, FuturesOpen,
     OpenIsPending, Accepted, SendAlive, Statuses
<1>10. ASSUME NEW r \in Requests, Expire(r) PROVE OpenIsPending'
  BY <1>10 DEF Expire, IInv, TypeOK, HeldWhileWaiting, OnePlace, FuturesOpen,
     OpenIsPending, Accepted, SendAlive, Statuses
<1>11. ASSUME NEW r \in Requests, NEW q \in Requests, EnqueueCoalesced(r, q)
      PROVE  OpenIsPending'
  BY <1>11 DEF EnqueueCoalesced, _coalesce_check, IInv, TypeOK, HeldWhileWaiting,
     OnePlace, FuturesOpen, OpenIsPending, Accepted, SendAlive, Statuses
<1>12. ASSUME NEW r \in Requests, SendAttempt(r) PROVE OpenIsPending'
  BY <1>12 DEF SendAttempt, IInv, TypeOK, HeldWhileWaiting, OnePlace, FuturesOpen,
     OpenIsPending, Accepted, SendAlive, Statuses
<1>13. ASSUME NEW r \in Requests, SendConflicts(r) PROVE OpenIsPending'
  BY <1>13 DEF SendConflicts, Failed, Complete, CompleteAll, LeaveFlight, IInv, TypeOK,
     HeldWhileWaiting, OnePlace, FuturesOpen, OpenIsPending, Accepted, SendAlive,
     Statuses
<1>14. ASSUME NEW r \in Requests, SendAbandons(r) PROVE OpenIsPending'
  BY <1>14 DEF SendAbandons, Complete, CompleteAll, LeaveFlight, IInv, TypeOK,
     HeldWhileWaiting, OnePlace, FuturesOpen, OpenIsPending, Accepted, SendAlive,
     Statuses
<1>15. ASSUME NEW r \in Requests, SendSucceeds(r) PROVE OpenIsPending'
  BY <1>15 DEF SendSucceeds, Complete, CompleteAll, LeaveFlight, IInv, TypeOK,
     HeldWhileWaiting, OnePlace, FuturesOpen, OpenIsPending, Accepted, SendAlive,
     Statuses
<1>16. ASSUME NEW r \in Requests, SendFails(r) PROVE OpenIsPending'
  BY <1>16 DEF SendFails, Failed, Complete, CompleteAll, LeaveFlight, IInv, TypeOK,
     HeldWhileWaiting, OnePlace, FuturesOpen, OpenIsPending, Accepted, SendAlive,
     Statuses
<1>17. ASSUME NEW r \in Requests, SendRaises(r) PROVE OpenIsPending'
  BY <1>17 DEF SendRaises, LeaveFlight, IInv, TypeOK, HeldWhileWaiting, OnePlace,
     FuturesOpen, OpenIsPending, Accepted, SendAlive, Statuses
<1>18. CASE UNCHANGED vars
  BY <1>18 DEF IInv, TypeOK, HeldWhileWaiting, OnePlace, FuturesOpen, OpenIsPending,
     Accepted, SendAlive, Statuses
<1>. QED  BY <1>1, <1>2, <1>3, <1>4, <1>5, <1>6, <1>7, <1>8, <1>9, <1>10, <1>11, <1>12,
     <1>13, <1>14, <1>15, <1>16, <1>17, <1>18 DEF Next, WorkerStep, SendStep

\* Records: a request is recorded by the step that ends its way
\* (_complete_request).
LEMMA RecordedStep == IInv /\ [Next]_vars => RecordedAtEnd'
<1> SUFFICES ASSUME IInv, [Next]_vars PROVE RecordedAtEnd'
  OBVIOUS
<1> USE DEF vars, workerVars, lifeVars, sendVars, resultVars, flightVars
<1>1. ASSUME start PROVE RecordedAtEnd'
  BY <1>1 DEF start, IInv, TypeOK, HeldWhileWaiting, OnePlace, RecordedAtEnd, Accepted,
     SendAlive
<1>2. ASSUME StopBegin PROVE RecordedAtEnd'
  BY <1>2 DEF StopBegin, IInv, TypeOK, HeldWhileWaiting, OnePlace, RecordedAtEnd,
     Accepted, SendAlive
<1>3. ASSUME StopFinish PROVE RecordedAtEnd'
  BY <1>3 DEF StopFinish, IInv, TypeOK, HeldWhileWaiting, OnePlace, RecordedAtEnd,
     Accepted, SendAlive
<1>4. ASSUME WorkerIdles PROVE RecordedAtEnd'
  BY <1>4 DEF WorkerIdles, NextRound, CompleteAll, IInv, TypeOK, HeldWhileWaiting,
     OnePlace, RecordedAtEnd, Accepted, SendAlive
<1>5. ASSUME WorkerAdmits PROVE RecordedAtEnd'
  BY <1>5 DEF WorkerAdmits, Admit, NextRound, CompleteAll, IInv, TypeOK,
     HeldWhileWaiting, OnePlace, RecordedAtEnd, Accepted, SendAlive
<1>6. ASSUME WorkerGivesUp PROVE RecordedAtEnd'
  BY <1>6 DEF WorkerGivesUp, NextRound, CompleteAll, IInv, TypeOK, HeldWhileWaiting,
     OnePlace, RecordedAtEnd, Accepted, SendAlive
<1>7. ASSUME NEW r \in Requests, WorkerGets(r) PROVE RecordedAtEnd'
  BY <1>7 DEF WorkerGets, Front, Admit, NextRound, CompleteAll, IInv, TypeOK,
     HeldWhileWaiting, OnePlace, RecordedAtEnd, Accepted, SendAlive
<1>8. ASSUME NEW r \in Requests, EnqueueExpired(r) PROVE RecordedAtEnd'
  BY <1>8 DEF EnqueueExpired, IInv, TypeOK, HeldWhileWaiting, OnePlace, RecordedAtEnd,
     Accepted, SendAlive
<1>9. ASSUME NEW r \in Requests, Enqueue(r) PROVE RecordedAtEnd'
  BY <1>9 DEF Enqueue, IInv, TypeOK, HeldWhileWaiting, OnePlace, RecordedAtEnd,
     Accepted, SendAlive
<1>10. ASSUME NEW r \in Requests, Expire(r) PROVE RecordedAtEnd'
  BY <1>10 DEF Expire, IInv, TypeOK, HeldWhileWaiting, OnePlace, RecordedAtEnd,
     Accepted, SendAlive
<1>11. ASSUME NEW r \in Requests, NEW q \in Requests, EnqueueCoalesced(r, q)
      PROVE  RecordedAtEnd'
  BY <1>11 DEF EnqueueCoalesced, _coalesce_check, IInv, TypeOK, HeldWhileWaiting,
     OnePlace, RecordedAtEnd, Accepted, SendAlive
<1>12. ASSUME NEW r \in Requests, SendAttempt(r) PROVE RecordedAtEnd'
  BY <1>12 DEF SendAttempt, IInv, TypeOK, HeldWhileWaiting, OnePlace, RecordedAtEnd,
     Accepted, SendAlive
<1>13. ASSUME NEW r \in Requests, SendConflicts(r) PROVE RecordedAtEnd'
  BY <1>13 DEF SendConflicts, Failed, Complete, CompleteAll, LeaveFlight, IInv, TypeOK,
     HeldWhileWaiting, OnePlace, RecordedAtEnd, Accepted, SendAlive
<1>14. ASSUME NEW r \in Requests, SendAbandons(r) PROVE RecordedAtEnd'
  BY <1>14 DEF SendAbandons, Complete, CompleteAll, LeaveFlight, IInv, TypeOK,
     HeldWhileWaiting, OnePlace, RecordedAtEnd, Accepted, SendAlive
<1>15. ASSUME NEW r \in Requests, SendSucceeds(r) PROVE RecordedAtEnd'
  BY <1>15 DEF SendSucceeds, Complete, CompleteAll, LeaveFlight, IInv, TypeOK,
     HeldWhileWaiting, OnePlace, RecordedAtEnd, Accepted, SendAlive
<1>16. ASSUME NEW r \in Requests, SendFails(r) PROVE RecordedAtEnd'
  BY <1>16 DEF SendFails, Failed, Complete, CompleteAll, LeaveFlight, IInv, TypeOK,
     HeldWhileWaiting, OnePlace, RecordedAtEnd, Accepted, SendAlive
<1>17. ASSUME NEW r \in Requests, SendRaises(r) PROVE RecordedAtEnd'
  BY <1>17 DEF SendRaises, LeaveFlight, IInv, TypeOK, HeldWhileWaiting, OnePlace,
     RecordedAtEnd, Accepted, SendAlive
<1>18. CASE UNCHANGED vars
  BY <1>18 DEF IInv, TypeOK, HeldWhileWaiting, OnePlace, RecordedAtEnd, Accepted,
     SendAlive
<1>. QED  BY <1>1, <1>2, <1>3, <1>4, <1>5, <1>6, <1>7, <1>8, <1>9, <1>10, <1>11, <1>12,
     <1>13, <1>14, <1>15, <1>16, <1>17, <1>18 DEF Next, WorkerStep, SendStep

\* The invariant holds of a dispatcher that was never started.
LEMMA InvInit == Init => IInv /\ LimitsHold
<1> SUFFICES ASSUME Init PROVE IInv /\ LimitsHold
  OBVIOUS
<1>1. TypeOK
  <2>1. 0 \in 0..MaxStops /\ 0 \in 0..(max_retries + 1)
    OBVIOUS
  <2>2. tries \in [Requests -> 0..(max_retries + 1)] /\ sent \in [Requests -> 0..(max_retries + 1)]
    BY <2>1 DEF Init
  <2>. QED  BY <2>1, <2>2 DEF Init, TypeOK, Statuses
<1>2. IInv
  BY <1>1 DEF Init, IInv, HeldWhileWaiting, OnePlace, AttemptsCounted, FuturesOpen,
     FuturesHeld, OpenIsPending, RecordedAtEnd, Accepted, SendAlive
<1>3. \A n \in Nodes : {r \in inFlight : Target[r] = n} = {} /\ perDevice[n] = 0
  BY DEF Init
<1>4. inFlight = {r \in Requests : SendAlive(r)}
  BY DEF Init, SendAlive
<1>. QED  BY <1>2, <1>3, <1>4, FS_EmptySet DEF Init, LimitsHold

\* The invariant is inductive.
LEMMA InvStep == IInv /\ [Next]_vars => IInv'
BY TypeStep, HeldStep, PlaceStep, AttemptsStep, OpenStep, FuturesHeldStep, PendingStep,
   RecordedStep DEF IInv

\* The invariant and the limits hold in every reachable state.
LEMMA Invariant == Spec => [](IInv /\ LimitsHold)
<1>1. IInv /\ LimitsHold /\ [Next]_vars => (IInv /\ LimitsHold)'
  BY InvStep, LimitsStep
<1>. QED  BY InvInit, <1>1, PTL DEF Spec

-----------------------------------------------------------------------------
(* The properties of the dispatcher.                                       *)

(***************************************************************************)
(* Type correctness: whatever the interleaving of stops, restarts, expiry  *)
(* and failures, no request is sent more than max_retries + 1 times and    *)
(* the tables hold only requests (transport/dispatcher.py).                *)
(***************************************************************************)
THEOREM TypeCorrect == Spec => []TypeOK
BY Invariant, PTL DEF IInv

(***************************************************************************)
(* The in-flight tables count exactly the send tasks alive and stay within *)
(* both limits until a stop leaves a task behind (_can_send, the finally   *)
(* clause of _send_with_retry), for any number of requests and nodes.      *)
(***************************************************************************)
THEOREM LimitsRespected == Spec => []LimitsHold
BY Invariant, PTL

(***************************************************************************)
(* Stops that empty the tables under send tasks that run on let a device   *)
(* be overrun once each, and no further: its tasks alive are never more    *)
(* than its limit for every stop and one more (stop, _can_send, the        *)
(* finally clause of _send_with_retry).                                    *)
(***************************************************************************)
THEOREM OverrunLimited == Spec => []OverrunBounded
<1>1. Init => Overrun
  <2> SUFFICES ASSUME Init, NEW n \in Nodes
               PROVE  /\ perDevice[n] <= per_device_limit
                      /\ Cardinality(AliveFor(n)) <= perDevice[n] + per_device_limit * Emptied
    BY DEF Overrun
  <2>1. AliveFor(n) = {} /\ perDevice[n] = 0 /\ Emptied = 0
    BY DEF Init, AliveFor, For, SendAlive, Emptied
  <2>. QED  BY <2>1, FS_EmptySet
<1>2. TypeOK /\ Overrun => OverrunBounded
  <2> SUFFICES ASSUME TypeOK, Overrun, NEW n \in Nodes
               PROVE  Cardinality(AliveFor(n)) <= per_device_limit * (stops + 1)
    BY DEF OverrunBounded, AliveFor, For
  <2>1. per_device_limit * (stops + 1) = per_device_limit * stops + per_device_limit
    BY DEF TypeOK
  <2>2. Allowance <= per_device_limit * stops
    BY DEF Allowance, Emptied, TypeOK
  <2>3. perDevice[n] \in Nat /\ Allowance \in Int /\ Cardinality(AliveFor(n)) \in Nat
    BY AllowanceType, CountType DEF TypeOK, AliveFor
  <2>5. per_device_limit * stops \in Int
    BY DEF TypeOK
  <2>4. perDevice[n] <= per_device_limit /\ Cardinality(AliveFor(n)) <= perDevice[n] + Allowance
    BY DEF Overrun, Allowance
  <2>. QED  BY <2>1, <2>2, <2>3, <2>4, <2>5
<1>3. IInv /\ Overrun /\ [Next]_vars => Overrun'
  BY OverrunStep
<1>4. IInv => TypeOK
  BY DEF IInv
<1>. QED  BY Invariant, <1>1, <1>2, <1>3, <1>4, PTL DEF Spec

(***************************************************************************)
(* A caller that waits, for its own request or one it was merged with, is  *)
(* never forgotten: the queue, the worker, a live task or a stop under way *)
(* has the request, unless its task died of an exception (enqueue, _worker,*)
(* stop).                                                                  *)
(***************************************************************************)
THEOREM NoCallerForgotten == Spec => []SomeoneAnswers
<1>1. IInv => SomeoneAnswers
  BY DEF IInv, TypeOK, FuturesHeld, OpenIsPending, SomeoneAnswers, Accepted
<1>. QED  BY Invariant, <1>1, PTL

(***************************************************************************)
(* A request without an expected response is recorded at most once,        *)
(* whichever of the worker, its task and a stop ends it                    *)
(* (_complete_request).                                                    *)
(***************************************************************************)
THEOREM NoDoubleRecord == Spec => []RecordedOnce
<1>1. IInv => RecordedOnce
  BY DEF IInv, RecordedAtEnd, RecordedOnce
<1>. QED  BY Invariant, <1>1, PTL

(***************************************************************************)
(* The result a caller was given never changes: a late answer, an expiry   *)
(* or a stop finds the future gone from the table (_complete_request).     *)
(***************************************************************************)
THEOREM FinalResults == Spec => ResultsAreFinal
<1>1. IInv /\ [Next]_vars =>
        [\A r \in Requests : outcome[r] # "none" => outcome'[r] = outcome[r]]_vars
  <2> SUFFICES ASSUME IInv, [Next]_vars, NEW q \in Requests, outcome[q] # "none"
               PROVE  outcome'[q] = outcome[q]
    OBVIOUS
  <2> USE DEF vars, workerVars, lifeVars, sendVars, resultVars, flightVars
  <2>1. q \notin futures /\ Accepted(q)
    BY DEF IInv, FuturesOpen
  <2>2. \A rs, status : CompleteAll(rs, status) => outcome'[q] = outcome[q]
    BY <2>1 DEF CompleteAll
  <2>3. CASE start \/ StopBegin \/ StopFinish \/ UNCHANGED vars
    BY <2>1, <2>3 DEF start, StopBegin, StopFinish
  <2>4. CASE WorkerStep
    BY <2>2, <2>4 DEF WorkerStep, WorkerIdles, WorkerAdmits, WorkerGivesUp, WorkerGets,
       NextRound
  <2>5. ASSUME NEW r \in Requests, EnqueueExpired(r) PROVE outcome'[q] = outcome[q]
    BY <2>1, <2>5 DEF EnqueueExpired, IInv, TypeOK
  <2>6. ASSUME NEW r \in Requests, NEW p \in Requests,
               Enqueue(r) \/ Expire(r) \/ EnqueueCoalesced(r, p)
        PROVE  outcome'[q] = outcome[q]
    BY <2>6 DEF Enqueue, Expire, EnqueueCoalesced
  <2>7. ASSUME NEW r \in Requests, SendStep(r) PROVE outcome'[q] = outcome[q]
    BY <2>2, <2>7 DEF SendStep, SendAttempt, SendConflicts, SendAbandons, SendSucceeds,
       SendFails, SendRaises, Failed, Complete
  <2>. QED  BY <2>3, <2>4, <2>5, <2>6, <2>7 DEF Next
<1>. QED  BY Invariant, <1>1, PTL DEF Spec, ResultsAreFinal
=============================================================================
