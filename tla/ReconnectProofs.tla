-------------------------- MODULE ReconnectProofs --------------------------
(***************************************************************************)
(* Proofs about Reconnect for every choice of device kinds, failure        *)
(* limits, error classes and bounds: however many loops, failures and      *)
(* restarts there are.                                                     *)
(***************************************************************************)
EXTENDS Reconnect, TLAPS

USE KindsAssumption, LimitsAssumption, BoundsAssumption

(***************************************************************************)
(* Whatever connect() raises, classify_error gives it one of the classes   *)
(* (error_classifier.py).                                                  *)
(***************************************************************************)
LEMMA ErrorsAreClasses == Errors \subseteq ErrorClass
BY DEF Errors, classify_error, ErrorClass

USE ErrorsAreClasses

-----------------------------------------------------------------------------
(* What the shared steps do.                                               *)

\* The initial connection is no loop.
LEMMA InitialIsNoLoop == Initial \notin Loops
BY DEF Initial, Loops

\* A bounded count stays in range, never decreases and grows by at most one
\* (_consecutive_failures, the doublings of _backoff).
LEMMA CountToBounds ==
  ASSUME NEW bound \in Nat, NEW n \in 0..bound
  PROVE  /\ CountTo(n, bound) \in 0..bound
         /\ CountTo(n, bound) >= n
         /\ CountTo(n, bound) <= n + 1
         /\ n < bound => CountTo(n, bound) = n + 1
BY DEF CountTo

\* Every class of errors raises issues that exist, none of them a storm
\* (_CLASS_TO_ISSUE).
LEMMA IssuesOfClass ==
  ASSUME NEW c \in Errors
  PROVE  IssueOf(c) \in SUBSET Issues /\ Storm \notin IssueOf(c) /\ Storm \in Issues
BY DEF IssueOf, Issues, Storm, ErrorClass

\* schedule_reconnect, while running, leaves a loop in its debounce and, for a
\* SIG device, no other; it takes no loop into connect().
LEMMA Scheduled ==
  ASSUME TypeOK, OneLoop, schedule_reconnect, UNCHANGED kind
  PROVE  /\ stage' \in [{Initial} \cup Loops -> Stages]
         /\ current' \in Loops
         /\ gaveUp' \in BOOLEAN
         /\ stage'[Initial] = stage[Initial]
         /\ Running => stage'[current'] = "debounce"
         /\ ~Running => UNCHANGED loopVars
         /\ OneLoop'
         /\ \A i \in Loops : stage'[i] \in {"connecting", "settling"} => stage'[i] = stage[i]
<1>1. CASE ~Running
  BY <1>1 DEF schedule_reconnect, loopVars, TypeOK, OneLoop, Alive
<1>2. CASE Running
  <2>1. PICK left \in Cancelled(current), new \in Loops :
          /\ IF new = current THEN left = "none" ELSE ~Alive(new)
          /\ stage' = [stage EXCEPT ![current] = left, ![new] = "debounce"]
          /\ current' = new
          /\ gaveUp' = FALSE
    BY <1>2 DEF schedule_reconnect
  <2>2. left \in Stages /\ current \in Loops /\ stage \in [{Initial} \cup Loops -> Stages]
    BY DEF Cancelled, Stages, TypeOK
  <2>3. stage' \in [{Initial} \cup Loops -> Stages]
    BY <2>1, <2>2 DEF Stages
  <2>4. \A i \in {Initial} \cup Loops :
          stage'[i] = IF i = new THEN "debounce" ELSE IF i = current THEN left ELSE stage[i]
    BY <2>1, <2>2
  <2>5. stage'[Initial] = stage[Initial]
    BY <2>2, <2>4, InitialIsNoLoop
  <2>6. OneLoop'
    <3> SUFFICES ASSUME kind = "sig", NEW i \in Loops, stage'[i] # "none"
                 PROVE  i = new
      BY <2>1 DEF OneLoop, Alive
    <3>1. left = "none"
      BY <2>1 DEF Cancelled
    <3>. QED  BY <2>4, <3>1 DEF OneLoop, Alive
  <2>7. \A i \in Loops : stage'[i] \in {"connecting", "settling"} => stage'[i] = stage[i]
    <3>1. left \in {"none", stage[current]}
      BY DEF Cancelled
    <3>. QED  BY <2>4, <3>1
  <2>. QED  BY <1>2, <2>1, <2>3, <2>4, <2>5, <2>6, <2>7
<1>. QED  BY <1>1, <1>2

\* The disconnect callback of the coordinator, while it is registered, takes
\* the device unavailable and schedules; otherwise nothing happens.
LEMMA Disconnected ==
  ASSUME TypeOK, OneLoop, OnDisconnect, UNCHANGED kind
  PROVE  /\ available' \in BOOLEAN /\ polling' \in BOOLEAN
         /\ Registered => ~available' /\ schedule_reconnect
         /\ ~Registered => UNCHANGED <<available, polling, loopVars>>
         /\ available' => available
BY DEF OnDisconnect, TypeOK

\* A loop that is scheduled while the set-up runs or has succeeded is on its
\* way to an attempt.
LEMMA ScheduledRetries ==
  ASSUME TypeOK, OneLoop, schedule_reconnect, UNCHANGED kind, Running
  PROVE  Retrying'
BY Scheduled DEF Retrying

-----------------------------------------------------------------------------
(* Type correctness.                                                       *)

\* The coordinator starts with well-typed state.
LEMMA TypeInit == Init => TypeOK
<1> SUFFICES ASSUME Init PROVE TypeOK
  OBVIOUS
<1>1. stage \in [{Initial} \cup Loops -> Stages] /\ current \in Loops
  BY DEF Init, Loops, Stages
<1>2. failures \in 0..FailureCap /\ level \in 0..MaxLevel /\ attempts \in 0..StormThreshold
  BY DEF Init
<1>. QED  BY <1>1, <1>2 DEF Init, TypeOK, Setups

\* Every step keeps the types (OneLoop: a SIG loop is replaced, not added).
LEMMA TypeStep == TypeOK /\ OneLoop /\ [Next]_vars => TypeOK'
<1> SUFFICES ASSUME TypeOK /\ OneLoop, [Next]_vars PROVE TypeOK'
  OBVIOUS
<1> USE DEF fixed, loopVars, statVars, issueVars
<1>1. ASSUME InitialConnect PROVE TypeOK'
  BY <1>1 DEF InitialConnect, TypeOK, Stages, Setups
<1>2. ASSUME InitialConnected PROVE TypeOK'
  BY <1>2 DEF InitialConnected, TypeOK, Stages, Setups
<1>3. ASSUME InitialFails PROVE TypeOK'
  BY <1>3 DEF InitialFails, TypeOK, Stages, Setups
<1>4. ASSUME NEW i \in {Initial} \cup Loops, LinkUp(i) PROVE TypeOK'
  BY <1>4 DEF LinkUp, TypeOK, Stages, Setups
<1>5. ASSUME NEW i \in {Initial} \cup Loops, ClientGivenUp(i) PROVE TypeOK'
  BY <1>5, Disconnected, Scheduled DEF ClientGivenUp, TypeOK, fixed, statVars,
     issueVars, loopVars
<1>6. ASSUME NEW i \in Loops, Debounced(i) PROVE TypeOK'
  BY <1>6 DEF Debounced, TypeOK, NextStage, Stages, StateUpdate
<1>7. ASSUME NEW i \in Loops, BackoffOver(i) PROVE TypeOK'
  BY <1>7 DEF BackoffOver, TypeOK, Stages, Setups
<1>8. ASSUME NEW i \in Loops, Reconnected(i) PROVE TypeOK'
  <2>1. attempts' \in 0..StormThreshold
    BY <1>8, CountToBounds DEF Reconnected, TypeOK
  <2>2. failures' \in 0..FailureCap /\ level' \in 0..MaxLevel
    BY <1>8 DEF Reconnected
  <2>. QED  BY <1>8, <2>1, <2>2 DEF Reconnected, TypeOK, ClearIssues, Stages
<1>9. ASSUME NEW i \in Loops, NEW c \in Errors, ReconnectFails(i, c) PROVE TypeOK'
  <2>1. attempts' \in 0..StormThreshold
    <3>1. 1 \in 0..StormThreshold
      OBVIOUS
    <3>. QED  BY <1>9, <3>1, CountToBounds DEF ReconnectFails, TypeOK
  <2>2. failures' \in 0..FailureCap /\ level' \in 0..MaxLevel
    BY <1>9, CountToBounds DEF ReconnectFails, TypeOK
  <2>3. raised' \in SUBSET Issues /\ creating' \in SUBSET Issues
    BY <1>9, IssuesOfClass DEF ReconnectFails, TypeOK
  <2>4. stage' \in [{Initial} \cup Loops -> Stages]
    BY <1>9 DEF ReconnectFails, TypeOK, NextStage, Stages
  <2>5. /\ available' \in BOOLEAN /\ link' \in BOOLEAN
        /\ gaveUp' \in BOOLEAN /\ stormSeen' \in BOOLEAN
    BY <1>9 DEF ReconnectFails, TypeOK, StateUpdate
  <2>. QED  BY <1>9, <2>1, <2>2, <2>3, <2>4, <2>5 DEF ReconnectFails, TypeOK
<1>10. ASSUME NEW i \in Loops, ReconnectCrashes(i) PROVE TypeOK'
  BY <1>10 DEF ReconnectCrashes, TypeOK, Stages, Setups
<1>11. ASSUME NEW x \in Issues, CreateIssue(x) PROVE TypeOK'
  BY <1>11 DEF CreateIssue, TypeOK, Stages, Setups
<1>12. ASSUME LinkLost PROVE TypeOK'
  BY <1>12, Disconnected, Scheduled DEF LinkLost, TypeOK, fixed, statVars, issueVars,
     loopVars
<1>13. ASSUME Notified PROVE TypeOK'
  BY <1>13 DEF Notified, TypeOK, Stages, Setups
<1>14. ASSUME Advertised PROVE TypeOK'
  BY <1>14, Scheduled DEF Advertised, TypeOK, fixed, statVars, issueVars
<1>15. ASSUME handle_reconnect PROVE TypeOK'
  BY <1>15, Disconnected, Scheduled DEF handle_reconnect, TypeOK, Retrying, Connecting, fixed, statVars,
     issueVars, loopVars
<1>16. ASSUME RssiRead PROVE TypeOK'
  BY <1>16 DEF RssiRead, TypeOK, StateUpdate
<1>17. ASSUME Watchdog PROVE TypeOK'
  BY <1>17 DEF Watchdog, TypeOK, Stages, Setups
<1>18. ASSUME StopBegin PROVE TypeOK'
  BY <1>18 DEF StopBegin, TypeOK, Stages, Setups
<1>19. ASSUME StopCancel PROVE TypeOK'
  BY <1>19 DEF StopCancel, TypeOK, Cancelled, Stages, Setups
<1>20. ASSUME StopFinish PROVE TypeOK'
  BY <1>20 DEF StopFinish, TypeOK, Stages, Setups
<1>21. CASE UNCHANGED vars
  BY <1>21 DEF vars, fixed, loopVars, statVars, issueVars, TypeOK, Stages, Setups
<1>22. ASSUME NEW i \in {Initial} \cup Loops, CompositionFails(i)
       PROVE  TypeOK'
  BY <1>22 DEF CompositionFails, TypeOK, Stages, Setups
<1>. QED
  BY <1>1, <1>2, <1>3, <1>4, <1>5, <1>6, <1>7, <1>8, <1>9, <1>10, <1>11, <1>12, <1>13,
     <1>14, <1>15, <1>16, <1>17, <1>18, <1>19, <1>20, <1>21, <1>22
     DEF Next, AttemptStep, LoopStep

-----------------------------------------------------------------------------
(* The parts of the inductive invariant.                                   *)

\* No step leaves the order of the set-up.
LEMMA LifeStep == IInv /\ [Next]_vars => LifeOrder'
<1> SUFFICES ASSUME IInv, [Next]_vars PROVE LifeOrder'
  OBVIOUS
<1> USE DEF fixed, loopVars, statVars, issueVars
<1>0. TypeOK /\ OneLoop /\ LifeOrder
  BY DEF IInv
<1>1. ASSUME InitialConnect PROVE LifeOrder'
  BY <1>0, <1>1 DEF InitialConnect, TypeOK, LifeOrder, Alive, Loops, Initial
<1>2. ASSUME InitialConnected PROVE LifeOrder'
  BY <1>0, <1>2 DEF InitialConnected, TypeOK, LifeOrder, Alive, Loops, Initial
<1>3. ASSUME InitialFails PROVE LifeOrder'
  BY <1>0, <1>3 DEF InitialFails, TypeOK, LifeOrder, Alive, Loops, Initial
<1>4. ASSUME NEW i \in {Initial} \cup Loops, LinkUp(i) PROVE LifeOrder'
  BY <1>0, <1>4 DEF LinkUp, TypeOK, LifeOrder, Alive, Loops, Initial
<1>5. ASSUME NEW i \in {Initial} \cup Loops, ClientGivenUp(i) PROVE LifeOrder'
  BY <1>0, <1>5, Scheduled, Disconnected, InitialIsNoLoop DEF ClientGivenUp, TypeOK,
     LifeOrder, Alive, Loops, Initial, Registered, Running
<1>6. ASSUME NEW i \in Loops, Debounced(i) PROVE LifeOrder'
  BY <1>0, <1>6 DEF Debounced, TypeOK, LifeOrder, Alive, Loops, Initial
<1>7. ASSUME NEW i \in Loops, BackoffOver(i) PROVE LifeOrder'
  BY <1>0, <1>7 DEF BackoffOver, TypeOK, LifeOrder, Alive, Loops, Initial
<1>8. ASSUME NEW i \in Loops, Reconnected(i) PROVE LifeOrder'
  BY <1>0, <1>8 DEF Reconnected, TypeOK, LifeOrder, Alive, Loops, Initial
<1>9. ASSUME NEW i \in Loops, NEW c \in Errors, ReconnectFails(i, c) PROVE LifeOrder'
  BY <1>0, <1>9 DEF ReconnectFails, TypeOK, LifeOrder, Alive, Loops, Initial
<1>10. ASSUME NEW i \in Loops, ReconnectCrashes(i) PROVE LifeOrder'
  BY <1>0, <1>10 DEF ReconnectCrashes, TypeOK, LifeOrder, Alive, Loops, Initial
<1>11. ASSUME NEW x \in Issues, CreateIssue(x) PROVE LifeOrder'
  BY <1>0, <1>11 DEF CreateIssue, TypeOK, LifeOrder, Alive, Loops, Initial
<1>12. ASSUME LinkLost PROVE LifeOrder'
  BY <1>0, <1>12, Scheduled, Disconnected, InitialIsNoLoop DEF LinkLost, TypeOK,
     LifeOrder, Alive, Loops, Initial, Registered, Running
<1>13. ASSUME Notified PROVE LifeOrder'
  BY <1>0, <1>13 DEF Notified, TypeOK, LifeOrder, Alive, Loops, Initial
<1>14. ASSUME Advertised PROVE LifeOrder'
  BY <1>0, <1>14, Scheduled, Disconnected, InitialIsNoLoop DEF Advertised, TypeOK,
     LifeOrder, Alive, Loops, Initial, Registered, Running
<1>15. ASSUME handle_reconnect PROVE LifeOrder'
  BY <1>0, <1>15, Scheduled, Disconnected, InitialIsNoLoop DEF handle_reconnect,
     TypeOK, LifeOrder, Alive, Loops, Initial, Registered, Running
<1>16. ASSUME RssiRead PROVE LifeOrder'
  BY <1>0, <1>16 DEF RssiRead, TypeOK, LifeOrder, Alive, Loops, Initial
<1>17. ASSUME Watchdog PROVE LifeOrder'
  BY <1>0, <1>17 DEF Watchdog, TypeOK, LifeOrder, Alive, Loops, Initial
<1>18. ASSUME StopBegin PROVE LifeOrder'
  BY <1>0, <1>18 DEF StopBegin, TypeOK, LifeOrder, Alive, Loops, Initial
<1>19. ASSUME StopCancel PROVE LifeOrder'
  BY <1>0, <1>19 DEF StopCancel, TypeOK, LifeOrder, Alive, Loops, Initial
<1>20. ASSUME StopFinish PROVE LifeOrder'
  BY <1>0, <1>20 DEF StopFinish, TypeOK, LifeOrder, Alive, Loops, Initial
<1>21. CASE UNCHANGED vars
  BY <1>0, <1>21 DEF vars, TypeOK, LifeOrder, Alive, Loops, Initial
<1>22. ASSUME NEW i \in {Initial} \cup Loops, CompositionFails(i)
       PROVE  LifeOrder'
  BY <1>0, <1>22 DEF CompositionFails, TypeOK, LifeOrder, Alive, Loops, Initial
<1>. QED
  BY <1>1, <1>2, <1>3, <1>4, <1>5, <1>6, <1>7, <1>8, <1>9, <1>10, <1>11, <1>12, <1>13,
     <1>14, <1>15, <1>16, <1>17, <1>18, <1>19, <1>20, <1>21, <1>22
     DEF Next, AttemptStep, LoopStep

\* No step adds a second SIG loop (schedule_reconnect).
LEMMA OneLoopStep == IInv /\ [Next]_vars => OneLoop'
<1> SUFFICES ASSUME IInv, [Next]_vars PROVE OneLoop'
  OBVIOUS
<1> USE DEF fixed, loopVars, statVars, issueVars
<1>0. TypeOK /\ OneLoop /\ LifeOrder
  BY DEF IInv
<1>1. ASSUME InitialConnect PROVE OneLoop'
  BY <1>0, <1>1, InitialIsNoLoop DEF InitialConnect, TypeOK, OneLoop, Alive
<1>2. ASSUME InitialConnected PROVE OneLoop'
  BY <1>0, <1>2, InitialIsNoLoop DEF InitialConnected, TypeOK, OneLoop, Alive
<1>3. ASSUME InitialFails PROVE OneLoop'
  BY <1>0, <1>3, InitialIsNoLoop DEF InitialFails, TypeOK, OneLoop, Alive
<1>4. ASSUME NEW i \in {Initial} \cup Loops, LinkUp(i) PROVE OneLoop'
  BY <1>0, <1>4 DEF LinkUp, TypeOK, OneLoop, Alive
<1>5. ASSUME NEW i \in {Initial} \cup Loops, ClientGivenUp(i) PROVE OneLoop'
  BY <1>0, <1>5, Scheduled, Disconnected, InitialIsNoLoop DEF ClientGivenUp, TypeOK,
     OneLoop, Alive, Registered, Running
<1>6. ASSUME NEW i \in Loops, Debounced(i) PROVE OneLoop'
  BY <1>0, <1>6 DEF Debounced, TypeOK, OneLoop, Alive, NextStage
<1>7. ASSUME NEW i \in Loops, BackoffOver(i) PROVE OneLoop'
  BY <1>0, <1>7 DEF BackoffOver, TypeOK, OneLoop, Alive
<1>8. ASSUME NEW i \in Loops, Reconnected(i) PROVE OneLoop'
  BY <1>0, <1>8 DEF Reconnected, TypeOK, OneLoop, Alive
<1>9. ASSUME NEW i \in Loops, NEW c \in Errors, ReconnectFails(i, c) PROVE OneLoop'
  BY <1>0, <1>9 DEF ReconnectFails, TypeOK, OneLoop, Alive, NextStage
<1>10. ASSUME NEW i \in Loops, ReconnectCrashes(i) PROVE OneLoop'
  BY <1>0, <1>10 DEF ReconnectCrashes, TypeOK, OneLoop, Alive
<1>11. ASSUME NEW x \in Issues, CreateIssue(x) PROVE OneLoop'
  BY <1>0, <1>11 DEF CreateIssue, TypeOK, OneLoop, Alive
<1>12. ASSUME LinkLost PROVE OneLoop'
  BY <1>0, <1>12, Scheduled, Disconnected, InitialIsNoLoop DEF LinkLost, TypeOK,
     OneLoop, Alive, Registered, Running
<1>13. ASSUME Notified PROVE OneLoop'
  BY <1>0, <1>13 DEF Notified, TypeOK, OneLoop, Alive
<1>14. ASSUME Advertised PROVE OneLoop'
  BY <1>0, <1>14, Scheduled, Disconnected, InitialIsNoLoop DEF Advertised, TypeOK,
     OneLoop, Alive, Registered, Running
<1>15. ASSUME handle_reconnect PROVE OneLoop'
  BY <1>0, <1>15, Scheduled, Disconnected, InitialIsNoLoop DEF handle_reconnect,
     TypeOK, OneLoop, Alive, Registered, Running
<1>16. ASSUME RssiRead PROVE OneLoop'
  BY <1>0, <1>16 DEF RssiRead, TypeOK, OneLoop, Alive
<1>17. ASSUME Watchdog PROVE OneLoop'
  BY <1>0, <1>17 DEF Watchdog, TypeOK, OneLoop, Alive
<1>18. ASSUME StopBegin PROVE OneLoop'
  BY <1>0, <1>18 DEF StopBegin, TypeOK, OneLoop, Alive
<1>19. ASSUME StopCancel PROVE OneLoop'
  BY <1>0, <1>19 DEF StopCancel, TypeOK, OneLoop, Alive, Cancelled
<1>20. ASSUME StopFinish PROVE OneLoop'
  BY <1>0, <1>20 DEF StopFinish, TypeOK, OneLoop, Alive
<1>21. CASE UNCHANGED vars
  BY <1>0, <1>21 DEF vars, TypeOK, OneLoop, Alive
<1>22. ASSUME NEW i \in {Initial} \cup Loops, CompositionFails(i)
       PROVE  OneLoop'
  BY <1>0, <1>22 DEF CompositionFails, TypeOK, OneLoop, Alive
<1>. QED
  BY <1>1, <1>2, <1>3, <1>4, <1>5, <1>6, <1>7, <1>8, <1>9, <1>10, <1>11, <1>12, <1>13,
     <1>14, <1>15, <1>16, <1>17, <1>18, <1>19, <1>20, <1>21, <1>22
     DEF Next, AttemptStep, LoopStep

\* A loop on its way to an attempt is left whenever the link is missed: the
\* loop that ends has either a link or given up, and a link that is lost has
\* scheduled another (handle_disconnect).
LEMMA ChasedStep == IInv /\ [Next]_vars => Chased'
<1> SUFFICES ASSUME IInv, [Next]_vars PROVE Chased'
  OBVIOUS
<1> USE DEF fixed, loopVars, statVars, issueVars
<1>0. TypeOK /\ OneLoop /\ LifeOrder /\ Chased
  BY DEF IInv
<1>1. ASSUME InitialConnect PROVE Chased'
  BY <1>0, <1>1 DEF InitialConnect, TypeOK, LifeOrder, Chased, Settling, Retrying, Alive
<1>2. ASSUME InitialConnected PROVE Chased'
  BY <1>0, <1>2 DEF InitialConnected, TypeOK, LifeOrder, Chased, Settling, Retrying,
     Alive
<1>3. ASSUME InitialFails PROVE Chased'
  BY <1>0, <1>3 DEF InitialFails, TypeOK, LifeOrder, Chased, Settling, Retrying, Alive
<1>4. ASSUME NEW i \in {Initial} \cup Loops, LinkUp(i) PROVE Chased'
  BY <1>0, <1>4, InitialIsNoLoop DEF LinkUp, TypeOK, LifeOrder, Chased, Settling,
     Retrying, Alive
<1>5. ASSUME NEW i \in {Initial} \cup Loops, ClientGivenUp(i) PROVE Chased'
  BY <1>0, <1>5, Scheduled, ScheduledRetries, Disconnected,
     InitialIsNoLoop DEF ClientGivenUp, TypeOK, LifeOrder, Chased, Settling, Retrying,
     Alive, Registered, Running
<1>6. ASSUME NEW i \in Loops, Debounced(i) PROVE Chased'
  BY <1>0, <1>6, InitialIsNoLoop DEF Debounced, TypeOK, LifeOrder, Chased, Settling,
     Retrying, Alive, NextStage, Running
<1>7. ASSUME NEW i \in Loops, BackoffOver(i) PROVE Chased'
  BY <1>0, <1>7, InitialIsNoLoop DEF BackoffOver, TypeOK, LifeOrder, Chased, Settling,
     Retrying, Alive, Running
<1>8. ASSUME NEW i \in Loops, Reconnected(i) PROVE Chased'
  BY <1>0, <1>8, InitialIsNoLoop DEF Reconnected, TypeOK, LifeOrder, Chased, Settling,
     Retrying, Alive
<1>9. ASSUME NEW i \in Loops, NEW c \in Errors, ReconnectFails(i, c) PROVE Chased'
  BY <1>0, <1>9, InitialIsNoLoop DEF ReconnectFails, TypeOK, LifeOrder, Chased,
     Settling, Retrying, Alive, NextStage, Running
<1>10. ASSUME NEW i \in Loops, ReconnectCrashes(i) PROVE Chased'
  BY <1>0, <1>10, InitialIsNoLoop DEF ReconnectCrashes, TypeOK, LifeOrder, Chased,
     Settling, Retrying, Alive
<1>11. ASSUME NEW x \in Issues, CreateIssue(x) PROVE Chased'
  BY <1>0, <1>11 DEF CreateIssue, TypeOK, LifeOrder, Chased, Settling, Retrying, Alive
<1>12. ASSUME LinkLost PROVE Chased'
  BY <1>0, <1>12, Scheduled, ScheduledRetries, Disconnected,
     InitialIsNoLoop DEF LinkLost, TypeOK, LifeOrder, Chased, Settling, Retrying,
     Alive, Registered, Running
<1>13. ASSUME Notified PROVE Chased'
  BY <1>0, <1>13 DEF Notified, TypeOK, LifeOrder, Chased, Settling, Retrying, Alive
<1>14. ASSUME Advertised PROVE Chased'
  BY <1>0, <1>14, Scheduled, ScheduledRetries, Disconnected,
     InitialIsNoLoop DEF Advertised, TypeOK, LifeOrder, Chased, Settling, Retrying,
     Alive, Registered, Running
<1>15. ASSUME handle_reconnect PROVE Chased'
  BY <1>0, <1>15, Scheduled, ScheduledRetries, Disconnected,
     InitialIsNoLoop DEF handle_reconnect, TypeOK, LifeOrder, Chased, Settling,
     Retrying, Alive, Registered, Running
<1>16. ASSUME RssiRead PROVE Chased'
  BY <1>0, <1>16 DEF RssiRead, TypeOK, LifeOrder, Chased, Settling, Retrying, Alive
<1>17. ASSUME Watchdog PROVE Chased'
  BY <1>0, <1>17 DEF Watchdog, TypeOK, LifeOrder, Chased, Settling, Retrying, Alive
<1>18. ASSUME StopBegin PROVE Chased'
  BY <1>0, <1>18 DEF StopBegin, TypeOK, LifeOrder, Chased, Settling, Retrying, Alive
<1>19. ASSUME StopCancel PROVE Chased'
  BY <1>0, <1>19, InitialIsNoLoop DEF StopCancel, TypeOK, LifeOrder, Chased, Settling,
     Retrying, Alive, Cancelled
<1>20. ASSUME StopFinish PROVE Chased'
  BY <1>0, <1>20 DEF StopFinish, TypeOK, LifeOrder, Chased, Settling, Retrying, Alive
<1>21. CASE UNCHANGED vars
  BY <1>0, <1>21 DEF vars, TypeOK, LifeOrder, Chased, Settling, Retrying, Alive
<1>22. ASSUME NEW i \in {Initial} \cup Loops, CompositionFails(i)
       PROVE  Chased'
  BY <1>0, <1>22, InitialIsNoLoop DEF CompositionFails, TypeOK, LifeOrder, Chased, Settling,
     Retrying, Alive
<1>. QED
  BY <1>1, <1>2, <1>3, <1>4, <1>5, <1>6, <1>7, <1>8, <1>9, <1>10, <1>11, <1>12, <1>13,
     <1>14, <1>15, <1>16, <1>17, <1>18, <1>19, <1>20, <1>21, <1>22
     DEF Next, AttemptStep, LoopStep

\* A SIG loop enters connect() only when every issue has been created: its
\* backoff is a matter of seconds.
LEMMA SettledStep == IInv /\ [Next]_vars => IssuesSettled'
<1> SUFFICES ASSUME IInv, [Next]_vars PROVE IssuesSettled'
  OBVIOUS
<1> USE DEF fixed, loopVars, statVars, issueVars
<1>0. TypeOK /\ OneLoop /\ LifeOrder /\ IssuesSettled
  BY DEF IInv
<1>1. ASSUME InitialConnect PROVE IssuesSettled'
  BY <1>0, <1>1, InitialIsNoLoop DEF InitialConnect, TypeOK, OneLoop, IssuesSettled,
     Alive
<1>2. ASSUME InitialConnected PROVE IssuesSettled'
  BY <1>0, <1>2, InitialIsNoLoop DEF InitialConnected, TypeOK, OneLoop, IssuesSettled,
     Alive
<1>3. ASSUME InitialFails PROVE IssuesSettled'
  BY <1>0, <1>3, InitialIsNoLoop DEF InitialFails, TypeOK, OneLoop, IssuesSettled, Alive
<1>4. ASSUME NEW i \in {Initial} \cup Loops, LinkUp(i) PROVE IssuesSettled'
  BY <1>0, <1>4, InitialIsNoLoop DEF LinkUp, TypeOK, OneLoop, IssuesSettled, Alive
<1>5. ASSUME NEW i \in {Initial} \cup Loops, ClientGivenUp(i) PROVE IssuesSettled'
  BY <1>0, <1>5, Scheduled, Disconnected, InitialIsNoLoop DEF ClientGivenUp, TypeOK,
     OneLoop, IssuesSettled, Alive, Registered, Running
<1>6. ASSUME NEW i \in Loops, Debounced(i) PROVE IssuesSettled'
  BY <1>0, <1>6, InitialIsNoLoop DEF Debounced, TypeOK, OneLoop, IssuesSettled, Alive,
     NextStage
<1>7. ASSUME NEW i \in Loops, BackoffOver(i) PROVE IssuesSettled'
  BY <1>0, <1>7 DEF BackoffOver, TypeOK, OneLoop, IssuesSettled, Alive
<1>8. ASSUME NEW i \in Loops, Reconnected(i) PROVE IssuesSettled'
  BY <1>0, <1>8 DEF Reconnected, TypeOK, OneLoop, IssuesSettled, Alive
<1>9. ASSUME NEW i \in Loops, NEW c \in Errors, ReconnectFails(i, c) PROVE IssuesSettled'
  BY <1>0, <1>9, InitialIsNoLoop DEF ReconnectFails, TypeOK, OneLoop, IssuesSettled,
     Alive, NextStage
<1>10. ASSUME NEW i \in Loops, ReconnectCrashes(i) PROVE IssuesSettled'
  BY <1>0, <1>10 DEF ReconnectCrashes, TypeOK, OneLoop, IssuesSettled, Alive
<1>11. ASSUME NEW x \in Issues, CreateIssue(x) PROVE IssuesSettled'
  BY <1>0, <1>11 DEF CreateIssue, TypeOK, OneLoop, IssuesSettled, Alive
<1>12. ASSUME LinkLost PROVE IssuesSettled'
  BY <1>0, <1>12, Scheduled, Disconnected, InitialIsNoLoop DEF LinkLost, TypeOK,
     OneLoop, IssuesSettled, Alive, Registered, Running
<1>13. ASSUME Notified PROVE IssuesSettled'
  BY <1>0, <1>13 DEF Notified, TypeOK, OneLoop, IssuesSettled, Alive
<1>14. ASSUME Advertised PROVE IssuesSettled'
  BY <1>0, <1>14, Scheduled, Disconnected, InitialIsNoLoop DEF Advertised, TypeOK,
     OneLoop, IssuesSettled, Alive, Registered, Running
<1>15. ASSUME handle_reconnect PROVE IssuesSettled'
  BY <1>0, <1>15, Scheduled, Disconnected, InitialIsNoLoop DEF handle_reconnect,
     TypeOK, OneLoop, IssuesSettled, Alive, Registered, Running
<1>16. ASSUME RssiRead PROVE IssuesSettled'
  BY <1>0, <1>16 DEF RssiRead, TypeOK, OneLoop, IssuesSettled, Alive
<1>17. ASSUME Watchdog PROVE IssuesSettled'
  BY <1>0, <1>17 DEF Watchdog, TypeOK, OneLoop, IssuesSettled, Alive
<1>18. ASSUME StopBegin PROVE IssuesSettled'
  BY <1>0, <1>18 DEF StopBegin, TypeOK, OneLoop, IssuesSettled, Alive
<1>19. ASSUME StopCancel PROVE IssuesSettled'
  BY <1>0, <1>19, InitialIsNoLoop DEF StopCancel, TypeOK, OneLoop, IssuesSettled,
     Alive, Cancelled
<1>20. ASSUME StopFinish PROVE IssuesSettled'
  BY <1>0, <1>20 DEF StopFinish, TypeOK, OneLoop, IssuesSettled, Alive
<1>21. CASE UNCHANGED vars
  BY <1>0, <1>21 DEF vars, TypeOK, OneLoop, IssuesSettled, Alive
<1>22. ASSUME NEW i \in {Initial} \cup Loops, CompositionFails(i)
       PROVE  IssuesSettled'
  BY <1>0, <1>22, InitialIsNoLoop DEF CompositionFails, TypeOK, OneLoop, IssuesSettled, Alive
<1>. QED
  BY <1>1, <1>2, <1>3, <1>4, <1>5, <1>6, <1>7, <1>8, <1>9, <1>10, <1>11, <1>12, <1>13,
     <1>14, <1>15, <1>16, <1>17, <1>18, <1>19, <1>20, <1>21, <1>22
     DEF Next, AttemptStep, LoopStep

\* The issues on their way and in the registry are those remembered as
\* raised (_maybe_create_repair_issue, _clear_repair_issues_on_recovery).
LEMMA TrackedStep == IInv /\ [Next]_vars => IssuesTracked'
<1> SUFFICES ASSUME IInv, [Next]_vars PROVE IssuesTracked'
  OBVIOUS
<1> USE DEF fixed, loopVars, statVars, issueVars
<1>0. TypeOK /\ OneLoop /\ LifeOrder /\ IssuesSettled /\ IssuesTracked
  BY DEF IInv
<1>1. ASSUME InitialConnect PROVE IssuesTracked'
  BY <1>0, <1>1 DEF InitialConnect, TypeOK, IssuesTracked, LifeOrder
<1>2. ASSUME InitialConnected PROVE IssuesTracked'
  BY <1>0, <1>2 DEF InitialConnected, TypeOK, IssuesTracked, LifeOrder
<1>3. ASSUME InitialFails PROVE IssuesTracked'
  BY <1>0, <1>3 DEF InitialFails, TypeOK, IssuesTracked, LifeOrder
<1>4. ASSUME NEW i \in {Initial} \cup Loops, LinkUp(i) PROVE IssuesTracked'
  BY <1>0, <1>4 DEF LinkUp, TypeOK, IssuesTracked
<1>5. ASSUME NEW i \in {Initial} \cup Loops, ClientGivenUp(i) PROVE IssuesTracked'
  BY <1>0, <1>5, Scheduled, Disconnected DEF ClientGivenUp, TypeOK, IssuesTracked
<1>6. ASSUME NEW i \in Loops, Debounced(i) PROVE IssuesTracked'
  BY <1>0, <1>6 DEF Debounced, TypeOK, IssuesTracked
<1>7. ASSUME NEW i \in Loops, BackoffOver(i) PROVE IssuesTracked'
  BY <1>0, <1>7 DEF BackoffOver, TypeOK, IssuesTracked
<1>8. ASSUME NEW i \in Loops, Reconnected(i) PROVE IssuesTracked'
  BY <1>0, <1>8 DEF Reconnected, TypeOK, IssuesTracked, ClearIssues, IssuesSettled
<1>9. ASSUME NEW i \in Loops, NEW c \in Errors, ReconnectFails(i, c) PROVE IssuesTracked'
  BY <1>0, <1>9, IssuesOfClass DEF ReconnectFails, TypeOK, IssuesTracked
<1>10. ASSUME NEW i \in Loops, ReconnectCrashes(i) PROVE IssuesTracked'
  BY <1>0, <1>10 DEF ReconnectCrashes, TypeOK, IssuesTracked
<1>11. ASSUME NEW x \in Issues, CreateIssue(x) PROVE IssuesTracked'
  BY <1>0, <1>11 DEF CreateIssue, TypeOK, IssuesTracked
<1>12. ASSUME LinkLost PROVE IssuesTracked'
  BY <1>0, <1>12, Scheduled, Disconnected DEF LinkLost, TypeOK, IssuesTracked
<1>13. ASSUME Notified PROVE IssuesTracked'
  BY <1>0, <1>13 DEF Notified, TypeOK, IssuesTracked
<1>14. ASSUME Advertised PROVE IssuesTracked'
  BY <1>0, <1>14, Scheduled, Disconnected DEF Advertised, TypeOK, IssuesTracked
<1>15. ASSUME handle_reconnect PROVE IssuesTracked'
  BY <1>0, <1>15, Scheduled, Disconnected DEF handle_reconnect, TypeOK, IssuesTracked
<1>16. ASSUME RssiRead PROVE IssuesTracked'
  BY <1>0, <1>16 DEF RssiRead, TypeOK, IssuesTracked
<1>17. ASSUME Watchdog PROVE IssuesTracked'
  BY <1>0, <1>17 DEF Watchdog, TypeOK, IssuesTracked
<1>18. ASSUME StopBegin PROVE IssuesTracked'
  BY <1>0, <1>18 DEF StopBegin, TypeOK, IssuesTracked
<1>19. ASSUME StopCancel PROVE IssuesTracked'
  BY <1>0, <1>19 DEF StopCancel, TypeOK, IssuesTracked
<1>20. ASSUME StopFinish PROVE IssuesTracked'
  BY <1>0, <1>20 DEF StopFinish, TypeOK, IssuesTracked
<1>21. CASE UNCHANGED vars
  BY <1>0, <1>21 DEF vars, TypeOK, IssuesTracked
<1>22. ASSUME NEW i \in {Initial} \cup Loops, CompositionFails(i)
       PROVE  IssuesTracked'
  BY <1>0, <1>22 DEF CompositionFails, TypeOK, IssuesTracked
<1>. QED
  BY <1>1, <1>2, <1>3, <1>4, <1>5, <1>6, <1>7, <1>8, <1>9, <1>10, <1>11, <1>12, <1>13,
     <1>14, <1>15, <1>16, <1>17, <1>18, <1>19, <1>20, <1>21, <1>22
     DEF Next, AttemptStep, LoopStep

\* Every doubling of the backoff comes with a counted failure
\* (_reconnect_loop), and what resets the counter resets the backoff.
LEMMA BackoffStep == IInv /\ [Next]_vars => BackoffEarned'
<1> SUFFICES ASSUME IInv, [Next]_vars PROVE BackoffEarned'
  OBVIOUS
<1> USE DEF fixed, loopVars, statVars, issueVars
<1>0. TypeOK /\ BackoffEarned
  BY DEF IInv
<1>1. ASSUME InitialConnect PROVE BackoffEarned'
  BY <1>0, <1>1 DEF InitialConnect, TypeOK, BackoffEarned
<1>2. ASSUME InitialConnected PROVE BackoffEarned'
  BY <1>0, <1>2 DEF InitialConnected, TypeOK, BackoffEarned
<1>3. ASSUME InitialFails PROVE BackoffEarned'
  BY <1>0, <1>3 DEF InitialFails, TypeOK, BackoffEarned
<1>4. ASSUME NEW i \in {Initial} \cup Loops, LinkUp(i) PROVE BackoffEarned'
  BY <1>0, <1>4 DEF LinkUp, TypeOK, BackoffEarned
<1>5. ASSUME NEW i \in {Initial} \cup Loops, ClientGivenUp(i) PROVE BackoffEarned'
  BY <1>0, <1>5 DEF ClientGivenUp, TypeOK, BackoffEarned
<1>6. ASSUME NEW i \in Loops, Debounced(i) PROVE BackoffEarned'
  BY <1>0, <1>6 DEF Debounced, TypeOK, BackoffEarned
<1>7. ASSUME NEW i \in Loops, BackoffOver(i) PROVE BackoffEarned'
  BY <1>0, <1>7 DEF BackoffOver, TypeOK, BackoffEarned
<1>8. ASSUME NEW i \in Loops, Reconnected(i) PROVE BackoffEarned'
  BY <1>0, <1>8 DEF Reconnected, TypeOK, BackoffEarned
<1>9. ASSUME NEW i \in Loops, NEW c \in Errors, ReconnectFails(i, c) PROVE BackoffEarned'
  <2>1. CASE c = "permanent"
    <3>1. level' = level /\ failures' = CountTo(failures, FailureCap)
      BY <1>9, <2>1 DEF ReconnectFails
    <3>. QED  BY <1>0, <3>1, BoundsAssumption DEF TypeOK, BackoffEarned, CountTo
  <2>2. CASE ~(c = "permanent")
    <3>1. /\ level' = CountTo(level, MaxLevel)
          /\ failures' = CountTo(failures, FailureCap)
      BY <1>9, <2>2 DEF ReconnectFails
    <3>. QED  BY <1>0, <3>1, BoundsAssumption DEF TypeOK, BackoffEarned, CountTo
  <2>. QED  BY <2>1, <2>2
<1>10. ASSUME NEW i \in Loops, ReconnectCrashes(i) PROVE BackoffEarned'
  BY <1>0, <1>10 DEF ReconnectCrashes, TypeOK, BackoffEarned
<1>11. ASSUME NEW x \in Issues, CreateIssue(x) PROVE BackoffEarned'
  BY <1>0, <1>11 DEF CreateIssue, TypeOK, BackoffEarned
<1>12. ASSUME LinkLost PROVE BackoffEarned'
  BY <1>0, <1>12 DEF LinkLost, TypeOK, BackoffEarned
<1>13. ASSUME Notified PROVE BackoffEarned'
  BY <1>0, <1>13 DEF Notified, TypeOK, BackoffEarned
<1>14. ASSUME Advertised PROVE BackoffEarned'
  BY <1>0, <1>14 DEF Advertised, TypeOK, BackoffEarned
<1>15. ASSUME handle_reconnect PROVE BackoffEarned'
  BY <1>0, <1>15 DEF handle_reconnect, TypeOK, BackoffEarned
<1>16. ASSUME RssiRead PROVE BackoffEarned'
  BY <1>0, <1>16 DEF RssiRead, TypeOK, BackoffEarned
<1>17. ASSUME Watchdog PROVE BackoffEarned'
  BY <1>0, <1>17 DEF Watchdog, TypeOK, BackoffEarned
<1>18. ASSUME StopBegin PROVE BackoffEarned'
  BY <1>0, <1>18 DEF StopBegin, TypeOK, BackoffEarned
<1>19. ASSUME StopCancel PROVE BackoffEarned'
  BY <1>0, <1>19 DEF StopCancel, TypeOK, BackoffEarned
<1>20. ASSUME StopFinish PROVE BackoffEarned'
  BY <1>0, <1>20 DEF StopFinish, TypeOK, BackoffEarned
<1>21. CASE UNCHANGED vars
  BY <1>0, <1>21 DEF vars, TypeOK, BackoffEarned
<1>22. ASSUME NEW i \in {Initial} \cup Loops, CompositionFails(i)
       PROVE  BackoffEarned'
  BY <1>0, <1>22 DEF CompositionFails, TypeOK, BackoffEarned
<1>. QED
  BY <1>1, <1>2, <1>3, <1>4, <1>5, <1>6, <1>7, <1>8, <1>9, <1>10, <1>11, <1>12, <1>13,
     <1>14, <1>15, <1>16, <1>17, <1>18, <1>19, <1>20, <1>21, <1>22
     DEF Next, AttemptStep, LoopStep

\* What async_stop leaves behind of a SIG device does not come back to life.
LEMMA StopsCleanStep == IInv /\ [Next]_vars => SigStopsClean'
<1> SUFFICES ASSUME IInv, [Next]_vars PROVE SigStopsClean'
  OBVIOUS
<1> USE DEF fixed, loopVars, statVars, issueVars
<1>0. TypeOK /\ OneLoop /\ LifeOrder /\ SigStopsClean
  BY DEF IInv
<1>1. ASSUME InitialConnect PROVE SigStopsClean'
  BY <1>0, <1>1 DEF InitialConnect, TypeOK, SigStopsClean, Quiet, Alive
<1>2. ASSUME InitialConnected PROVE SigStopsClean'
  BY <1>0, <1>2 DEF InitialConnected, TypeOK, SigStopsClean, Quiet, Alive
<1>3. ASSUME InitialFails PROVE SigStopsClean'
  BY <1>0, <1>3 DEF InitialFails, TypeOK, SigStopsClean, Quiet, Alive
<1>4. ASSUME NEW i \in {Initial} \cup Loops, LinkUp(i) PROVE SigStopsClean'
  BY <1>0, <1>4, InitialIsNoLoop DEF LinkUp, TypeOK, SigStopsClean, Quiet, Alive,
     LifeOrder
<1>5. ASSUME NEW i \in {Initial} \cup Loops, ClientGivenUp(i) PROVE SigStopsClean'
  BY <1>0, <1>5, InitialIsNoLoop, Scheduled, Disconnected DEF ClientGivenUp, TypeOK,
     SigStopsClean, Quiet, Alive, LifeOrder, Registered
<1>6. ASSUME NEW i \in Loops, Debounced(i) PROVE SigStopsClean'
  BY <1>0, <1>6 DEF Debounced, TypeOK, SigStopsClean, Quiet, Alive, Running,
     StateUpdate, NextStage
<1>7. ASSUME NEW i \in Loops, BackoffOver(i) PROVE SigStopsClean'
  BY <1>0, <1>7 DEF BackoffOver, TypeOK, SigStopsClean, Quiet, Alive
<1>8. ASSUME NEW i \in Loops, Reconnected(i) PROVE SigStopsClean'
  BY <1>0, <1>8 DEF Reconnected, TypeOK, SigStopsClean, Quiet, Alive
<1>9. ASSUME NEW i \in Loops, NEW c \in Errors, ReconnectFails(i, c) PROVE SigStopsClean'
  BY <1>0, <1>9 DEF ReconnectFails, TypeOK, SigStopsClean, Quiet, Alive
<1>10. ASSUME NEW i \in Loops, ReconnectCrashes(i) PROVE SigStopsClean'
  BY <1>0, <1>10 DEF ReconnectCrashes, TypeOK, SigStopsClean, Quiet, Alive
<1>11. ASSUME NEW x \in Issues, CreateIssue(x) PROVE SigStopsClean'
  BY <1>0, <1>11 DEF CreateIssue, TypeOK, SigStopsClean, Quiet, Alive
<1>12. ASSUME LinkLost PROVE SigStopsClean'
  BY <1>0, <1>12, Scheduled, Disconnected, InitialIsNoLoop DEF LinkLost, TypeOK,
     SigStopsClean, Quiet, Alive, Registered, Running
<1>13. ASSUME Notified PROVE SigStopsClean'
  BY <1>0, <1>13 DEF Notified, TypeOK, SigStopsClean, Quiet, Alive
<1>14. ASSUME Advertised PROVE SigStopsClean'
  BY <1>0, <1>14, Scheduled, Disconnected, InitialIsNoLoop DEF Advertised, TypeOK,
     SigStopsClean, Quiet, Alive, Registered, Running
<1>15. ASSUME handle_reconnect PROVE SigStopsClean'
  BY <1>0, <1>15, Scheduled, Disconnected, InitialIsNoLoop DEF handle_reconnect,
     TypeOK, SigStopsClean, Quiet, Alive, Registered, Running
<1>16. ASSUME RssiRead PROVE SigStopsClean'
  BY <1>0, <1>16 DEF RssiRead, TypeOK, SigStopsClean, Quiet, Alive, Running,
     StateUpdate
<1>17. ASSUME Watchdog PROVE SigStopsClean'
  BY <1>0, <1>17 DEF Watchdog, TypeOK, SigStopsClean, Quiet, Alive
<1>18. ASSUME StopBegin PROVE SigStopsClean'
  BY <1>0, <1>18 DEF StopBegin, TypeOK, SigStopsClean, Quiet, Alive
<1>19. ASSUME StopCancel PROVE SigStopsClean'
  BY <1>0, <1>19 DEF StopCancel, TypeOK, SigStopsClean, Quiet, Alive
<1>20. ASSUME StopFinish PROVE SigStopsClean'
  BY <1>0, <1>20 DEF StopFinish, TypeOK, SigStopsClean, Quiet, Alive, OneLoop
<1>21. CASE UNCHANGED vars
  BY <1>0, <1>21 DEF vars, TypeOK, SigStopsClean, Quiet, Alive
<1>22. ASSUME NEW i \in {Initial} \cup Loops, CompositionFails(i)
       PROVE  SigStopsClean'
  BY <1>0, <1>22, InitialIsNoLoop DEF CompositionFails, TypeOK, SigStopsClean, Quiet, Alive,
     LifeOrder
<1>. QED
  BY <1>1, <1>2, <1>3, <1>4, <1>5, <1>6, <1>7, <1>8, <1>9, <1>10, <1>11, <1>12, <1>13,
     <1>14, <1>15, <1>16, <1>17, <1>18, <1>19, <1>20, <1>21, <1>22
     DEF Next, AttemptStep, LoopStep

-----------------------------------------------------------------------------
(* The theorems.                                                           *)

\* The coordinator starts with no link, no loop and no issue.
LEMMA InitInv == Init => IInv
<1> SUFFICES ASSUME Init PROVE IInv
  OBVIOUS
<1>1. TypeOK
  BY TypeInit
<1>2. \A i \in {Initial} \cup Loops : stage[i] = "none"
  BY DEF Init
<1>3. LifeOrder /\ OneLoop /\ IssuesSettled
  BY <1>2 DEF Init, LifeOrder, OneLoop, IssuesSettled, Alive
<1>4. Chased /\ IssuesTracked /\ BackoffEarned /\ SigStopsClean
  BY DEF Init, Chased, IssuesTracked, BackoffEarned, SigStopsClean
<1>. QED  BY <1>1, <1>3, <1>4 DEF IInv

\* The inductive invariant holds of every reachable state of the coordinator.
THEOREM InvCorrect == Spec => []IInv
<1>1. IInv /\ [Next]_vars => IInv'
  <2> SUFFICES ASSUME IInv, [Next]_vars PROVE IInv'
    OBVIOUS
  <2>1. TypeOK'
    BY TypeStep DEF IInv
  <2>. QED  BY <2>1, LifeStep, OneLoopStep, ChasedStep, SettledStep, TrackedStep,
               BackoffStep, StopsCleanStep DEF IInv
<1>. QED  BY InitInv, <1>1, PTL DEF Spec

\* The coordinator's state is always well typed.
THEOREM TypeCorrect == Spec => []TypeOK
<1>1. IInv => TypeOK
  BY DEF IInv
<1>. QED  BY InvCorrect, <1>1, PTL

\* However advertisements, lost links and service calls restart it, a SIG
\* device never has two reconnect loops at once (schedule_reconnect).
THEOREM SingleLoop == Spec => []OneLoop
<1>1. IInv => OneLoop
  BY DEF IInv
<1>. QED  BY InvCorrect, <1>1, PTL

\* A loaded entry whose device has no link has a loop at work, unless the
\* last one gave up (handle_disconnect, _reconnect_loop).
THEOREM NeverForgotten == Spec => []Pursued
<1>1. IInv => Pursued
  BY DEF IInv, Chased, Pursued, Retrying, Alive
<1>. QED  BY InvCorrect, <1>1, PTL

\* async_stop leaves nothing of a SIG device's coordinator running.
THEOREM StopsClean == Spec => []SigStopsClean
<1>1. IInv => SigStopsClean
  BY DEF IInv
<1>. QED  BY InvCorrect, <1>1, PTL

\* What the registry holds, or is about to hold, is what is remembered as
\* raised (_maybe_create_repair_issue, _clear_repair_issues_on_recovery).
THEOREM IssuesAgree == Spec => []IssuesTracked
<1>1. IInv => IssuesTracked
  BY DEF IInv
<1>. QED  BY InvCorrect, <1>1, PTL

\* The backoff never runs ahead of the failures (_reconnect_loop).
THEOREM BackoffBounded == Spec => []BackoffEarned
<1>1. IInv => BackoffEarned
  BY DEF IInv
<1>. QED  BY InvCorrect, <1>1, PTL

\* When a SIG loop has reconnected, no issue of the outage is left and none
\* is on its way (_reconnect_loop, _clear_repair_issues_on_recovery).
THEOREM RecoveryClears == Spec => RecoveryClearsIssues
<1>1. ASSUME IInv, NEW i \in Loops, kind = "sig", Reconnected(i)
      PROVE  issues' = {} /\ creating' = {}
  <2>1. creating = {}
    BY <1>1 DEF IInv, IssuesSettled, Reconnected
  <2>. QED  BY <1>1, <2>1 DEF Reconnected, ClearIssues
<1>2. IInv /\ [Next]_vars
        => [(\E i \in Loops : kind = "sig" /\ Reconnected(i)) =>
              issues' = {} /\ creating' = {}]_vars
  BY <1>1
<1>. QED  BY InvCorrect, <1>2, PTL DEF Spec, RecoveryClearsIssues
=============================================================================
