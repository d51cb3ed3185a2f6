-------------------------- MODULE TelinkLinkProofs --------------------------
(***************************************************************************)
(* Proofs about TelinkLink for every set of callers of connect(), every    *)
(* sequence of calls, and every choice of retries, queue size and number   *)
(* of BLE sessions.                                                        *)
(***************************************************************************)
EXTENDS TelinkLink, FiniteSetTheorems, TLAPS

USE CallersAssumption, RequestsAssumption, PerishableAssumption, BoundsAssumption

-----------------------------------------------------------------------------
(* The invariant of types, and of the worker and its queue.                *)

\* A caller that pairs, reads the firmware version or subscribes has a client.
HasClient ==
  \A c \in Callers :
    pc[c] \in Pairing \cup {"firmware", "subscribing"} => mine[c] \in Sessions

\* The worker exists while the dispatcher runs; it holds a command from the
\* moment it takes one to the moment it drops it, and writes that command.
WorkerHolds ==
  /\ running <=> worker # "off"
  /\ worker \in {"off", "getting", "recovering"} => held = 0
  /\ worker \in {"waiting", "writing", "closing", "backoff"} => held \in Commands
  /\ worker = "writing" => packet.cmd = held
  /\ worker = "backoff" => tries < send_retries

\* What was written, what the worker holds and what is queued follow each
\* other in the order of the calls.
CallOrder ==
  /\ \A i, j \in DOMAIN queue : i < j => queue[i] < queue[j]
  /\ \A i \in DOMAIN queue : queue[i] <= made /\ held < queue[i]
  /\ held <= made
  /\ \A i, j \in DOMAIN written : i < j => written[i].cmd <= written[j].cmd
  /\ \A i \in DOMAIN written :
       /\ written[i].cmd <= made
       /\ held # 0 => written[i].cmd <= held
       /\ \A j \in DOMAIN queue : written[i].cmd < queue[j]

\* A command whose time has passed is still queued.
StaleIsQueued == \A m \in stale : \E i \in DOMAIN queue : queue[i] = m

QueueInv == TypeOK /\ HasClient /\ WorkerHolds /\ CallOrder /\ StaleIsQueued

-----------------------------------------------------------------------------
(* The invariant of the session, while connects and clean-ups do not       *)
(* overlap and fail only with errors that are handled.                     *)

\* One connect or clean-up is under way at most.
Solo ==
  /\ \A c, d \in Callers : pc[c] # "idle" /\ pc[d] # "idle" => c = d
  /\ \A s, t \in keepClosing : s = t
  /\ (\E c \in Callers : pc[c] # "idle") =>
        keepClosing = {} /\ worker # "closing" /\ stopper # "closing"
  /\ keepClosing # {} => worker # "closing" /\ stopper # "closing"
  /\ worker = "closing" => stopper # "closing"

\* The client, its key and the state agree; a client that is gone, or is being
\* disconnected, has left no key and no subscription.
ClientAndKey ==
  /\ client = 0 => state \in {"connecting", "disconnected"}
  /\ client # 0 => state \in {"pairing", "ready", "disconnecting"}
  /\ client = 0 \/ client \in asked => key = 0 /\ ~notify
  /\ key \in {0, client}
  /\ state = "ready" => client \in provisioned /\ (key = client \/ client \in asked)
  /\ client <= sessions /\ asked \subseteq 1..sessions
  /\ \A s \in 1..sessions : s = client \/ s \in asked

\* Where a connect() has come to tells what it has assigned.
ConnectStage ==
  \A c \in Callers :
    /\ pc[c] \in {"establishing", "backoff"} => client = 0
    /\ pc[c] \in Pairing \cup {"firmware", "subscribing"} =>
         mine[c] = client /\ client \notin asked
    /\ pc[c] \in Pairing => state = "pairing" /\ key = 0
    /\ pc[c] = "firmware" => state = "pairing" /\ key = client /\ client \in provisioned
    /\ pc[c] = "subscribing" => state = "ready"
    /\ pc[c] = "closing" => state = "pairing" /\ client \in asked

\* A state on the way belongs to the task that is on its way.
OnTheWay ==
  /\ state = "connecting" => \E c \in Callers : pc[c] \in {"establishing", "backoff"}
  /\ state = "pairing" =>
       \E c \in Callers : pc[c] \in Pairing \cup {"firmware", "closing"}
  /\ state = "disconnecting" => stopper = "closing"

\* A clean-up that awaits client.disconnect() has taken the key away.
CleaningUp ==
  /\ keepClosing # {} \/ worker = "closing" => state = "ready" /\ client \in asked
  /\ stopper = "closing" => state = "disconnecting" /\ client \in asked
  /\ keepAlive # "dead"
  /\ keepAlive = "writing" => state = "ready" /\ key # 0

\* disconnect() keeps the dispatcher stopped to its end, and a dispatcher that
\* runs learns of every connection that ends.
EventTrue ==
  /\ stopper # "idle" => ~running
  /\ running /\ event => state = "ready"

\* Packets and statuses are sealed with the key of their session.
Sealed ==
  /\ worker = "writing" => packet.key = workOn
  /\ \A i \in DOMAIN written : written[i].key = written[i].session
  /\ subscribed \cap asked = {} /\ subscribed \subseteq 1..sessions
  /\ client \in subscribed => key = client
  /\ ~dropped

\* A command is written again only over a later session: the client it was
\* written to is gone, or being cleaned up, before the next attempt.
Repeats ==
  /\ \A i \in DOMAIN written : written[i].session <= sessions
  /\ \A i, j \in DOMAIN written :
       i < j /\ written[i].cmd = written[j].cmd => written[i].session < written[j].session
  /\ worker = "writing" => workOn <= sessions
  /\ held # 0 =>
       \A i \in DOMAIN written : written[i].cmd = held =>
         /\ worker = "writing" => written[i].session < workOn
         /\ worker # "closing" /\ client # 0 => written[i].session < client

SessionParts ==
  /\ Solo /\ ClientAndKey /\ ConnectStage /\ OnTheWay /\ CleaningUp /\ EventTrue /\ Sealed
  /\ Repeats

SessionInv == ~overlap /\ ~escaped => SessionParts

-----------------------------------------------------------------------------
(* Types.                                                                  *)

\* The least values of the bounded types.
LEMMA BoundFacts ==
  /\ 0 \in SessionOrNone /\ 0 \in CommandOrNone /\ Sessions \subseteq SessionOrNone
  /\ 0 \notin Sessions /\ 0 \notin Commands
  /\ Commands = 1..Len(Requests) /\ Commands \subseteq CommandOrNone
  /\ {0, 1} \subseteq Attempts /\ {0, 1} \subseteq Tries
  /\ NoPacket \in Packets
BY DEF SessionOrNone, CommandOrNone, Sessions, Commands, Attempts, Tries, NoPacket, Packets

USE BoundFacts

\* A counter below its limit stays within it when it is incremented.
LEMMA NextWithin ==
  /\ \A n \in SessionOrNone : n < MaxSessions => n + 1 \in Sessions
  /\ \A n \in Attempts : n < max_retries => n + 1 \in Attempts
  /\ \A n \in Tries : n < send_retries => n + 1 \in Tries
  /\ \A n \in 0..Len(Requests) :
       n < Len(Requests) => n + 1 \in 0..Len(Requests) /\ n + 1 \in Commands
BY DEF SessionOrNone, Sessions, Attempts, Tries

\* Sessions are numbers.
LEMMA SessionsAreNat == SessionOrNone \subseteq Nat /\ Sessions \subseteq Nat \ {0}
BY DEF SessionOrNone, Sessions

\* _send_now drops the command, or is about to write it, sealed with the key,
\* to the client of a READY connection.
LEMMA SendNow ==
  ASSUME TypeOK, NEW m \in Commands, NEW n \in Tries, _send_now(m, n)
  PROVE  /\ held' \in CommandOrNone /\ tries' \in Tries
         /\ workOn' \in SessionOrNone /\ packet' \in Packets
         /\ \/ worker' = "getting" /\ held' = 0
            \/ /\ worker' = "writing" /\ held' = m /\ packet'.cmd = m
               /\ state = "ready" /\ client # 0 /\ key # 0
               /\ workOn' = client /\ packet'.key = key
<1>1. client \in SessionOrNone /\ key \in SessionOrNone /\ m \in CommandOrNone
  BY DEF TypeOK, LinkTypes
<1>2. CASE worker' = "getting"
  BY <1>2 DEF _send_now, Drop
<1>3. CASE worker' # "getting"
  <2>1. /\ worker' = "writing" /\ held' = m /\ tries' = n /\ workOn' = client
        /\ packet' = [cmd |-> m, key |-> key]
        /\ state = "ready" /\ client # 0 /\ key # 0
    BY <1>3 DEF _send_now, Drop, encode_command_packet, crypt_payload
  <2>. QED  BY <1>1, <2>1 DEF Packets
<1>. QED  BY <1>2, <1>3

\* A packet on the air is the last that was written.
LEMMA PacketOnAir ==
  ASSUME written \in Seq(Writes), packet \in Packets, workOn \in SessionOrNone, OnAir
  PROVE  /\ DOMAIN written' = 1..(Len(written) + 1)
         /\ DOMAIN written = 1..Len(written) /\ Len(written) \in Nat
         /\ \A i \in DOMAIN written : written'[i] = written[i]
         /\ written'[Len(written) + 1] =
              [cmd |-> packet.cmd, key |-> packet.key, session |-> workOn]
         /\ written' \in Seq(Writes)
<1> DEFINE p == [cmd |-> packet.cmd, key |-> packet.key, session |-> workOn]
<1>1. written' = Append(written, p) /\ p \in Writes
  BY DEF OnAir, Writes, Packets
<1> HIDE DEF p
<1>2. /\ DOMAIN written' = 1..(Len(written) + 1)
      /\ DOMAIN written = 1..Len(written) /\ Len(written) \in Nat
      /\ \A i \in DOMAIN written : written'[i] = written[i]
      /\ written'[Len(written) + 1] = p /\ written' \in Seq(Writes)
  BY <1>1
<1>. QED  BY <1>2 DEF p

\* What the worker takes is the first command of the queue, and the others stay.
LEMMA TakeHead ==
  ASSUME NEW q \in Seq(Commands), q # <<>>
  PROVE  /\ Head(q) \in Commands /\ Head(q) = q[1] /\ 1 \in DOMAIN q
         /\ Tail(q) \in Seq(Commands) /\ Len(Tail(q)) = Len(q) - 1
         /\ \A i \in DOMAIN Tail(q) : i + 1 \in DOMAIN q /\ Tail(q)[i] = q[i + 1]
         /\ \A i \in DOMAIN q : i > 1 => i - 1 \in DOMAIN Tail(q) /\ Tail(q)[i - 1] = q[i]
OBVIOUS

\* The connection's own variables (connection.py).
LEMMA LinkStep == QueueInv /\ [Next]_vars => LinkTypes'
<1> SUFFICES ASSUME QueueInv, [Next]_vars PROVE LinkTypes'
  OBVIOUS
<1> USE DEF linkVars, callerVars, keepVars, queueVars, workVars, hearVars, radioVars
<1>f. ASSUME UNCHANGED <<linkVars, keepVars, event>> PROVE LinkTypes'
  BY <1>f DEF QueueInv, TypeOK, LinkTypes, SessionOrNone, CallerTypes, RadioTypes,
     HasClient, Pairing
<1>1. ASSUME NEW c \in Callers, connect(c) PROVE LinkTypes'
  BY <1>1 DEF connect, Connected, start, QueueInv, TypeOK, LinkTypes, SessionOrNone,
     CallerTypes, RadioTypes, HasClient, Pairing
<1>2. ASSUME NEW c \in Callers, NotFound(c) PROVE LinkTypes'
  BY <1>2 DEF NotFound, QueueInv, TypeOK, LinkTypes, SessionOrNone, CallerTypes,
     RadioTypes, HasClient, Pairing
<1>3. ASSUME NEW c \in Callers, _connect_with_retry(c) PROVE LinkTypes'
  BY <1>3, NextWithin DEF _connect_with_retry, QueueInv, TypeOK, LinkTypes, CallerTypes,
     RadioTypes
<1>4. ASSUME NEW c \in Callers, RetryOrGiveUp(c) PROVE LinkTypes'
  BY <1>4 DEF RetryOrGiveUp, QueueInv, TypeOK, LinkTypes, SessionOrNone, CallerTypes,
     RadioTypes, HasClient, Pairing
<1>5. ASSUME NEW c \in Callers, NEW data \in PairAnswers, set_mesh_credentials(c, data)
      PROVE  LinkTypes'
  BY <1>5 DEF set_mesh_credentials, make_session_key, QueueInv, TypeOK, LinkTypes,
     SessionOrNone, CallerTypes, RadioTypes, HasClient, Pairing
<1>6. ASSUME NEW c \in Callers, NEW data \in PairAnswers, PairFails(c, data)
      PROVE  LinkTypes'
  BY <1>6 DEF PairFails, Cleanup, QueueInv, TypeOK, LinkTypes, SessionOrNone,
     CallerTypes, RadioTypes, HasClient, Pairing
<1>7. ASSUME NEW c \in Callers, PairCleanupEnds(c) PROVE LinkTypes'
  BY <1>7 DEF PairCleanupEnds, CleanupEnds, QueueInv, TypeOK, LinkTypes, SessionOrNone,
     CallerTypes, RadioTypes, HasClient, Pairing
<1>8. ASSUME NEW c \in Callers, BecomesReady(c) PROVE LinkTypes'
  BY <1>8 DEF BecomesReady, _start_keep_alive, Connected, start, QueueInv, TypeOK,
     LinkTypes, SessionOrNone, CallerTypes, RadioTypes, HasClient, Pairing
<1>9. ASSUME NEW c \in Callers, ConnectAborted(c) PROVE LinkTypes'
  BY <1>9 DEF ConnectAborted, Escapes, QueueInv, TypeOK, LinkTypes, SessionOrNone,
     CallerTypes, RadioTypes, HasClient, Pairing
<1>10. ASSUME NEW c \in Callers, NEW active \in BOOLEAN, _start_notify_safe(c, active)
      PROVE  LinkTypes'
  BY <1>10 DEF _start_notify_safe, Connected, start, QueueInv, TypeOK, LinkTypes,
     SessionOrNone, CallerTypes, RadioTypes, HasClient, Pairing
<1>11. ASSUME _keep_alive_loop PROVE LinkTypes'
  BY <1>11 DEF _keep_alive_loop, QueueInv, TypeOK, LinkTypes, SessionOrNone,
     CallerTypes, RadioTypes, HasClient, Pairing
<1>12. ASSUME ProbeWritten PROVE LinkTypes'
  BY <1>12 DEF ProbeWritten, QueueInv, TypeOK, LinkTypes, SessionOrNone, CallerTypes,
     RadioTypes, HasClient, Pairing
<1>13. ASSUME ProbeFails PROVE LinkTypes'
  BY <1>13 DEF ProbeFails, Cleanup, _on_disconnect, QueueInv, TypeOK, LinkTypes,
     SessionOrNone, CallerTypes, RadioTypes, HasClient, Pairing
<1>14. ASSUME ProbeDies PROVE LinkTypes'
  BY <1>14 DEF ProbeDies, Escapes, QueueInv, TypeOK, LinkTypes, SessionOrNone,
     CallerTypes, RadioTypes, HasClient, Pairing
<1>15. ASSUME NEW s \in Sessions, ProbeCleanupEnds(s) PROVE LinkTypes'
  BY <1>15 DEF ProbeCleanupEnds, CleanupEnds, _on_disconnect, QueueInv, TypeOK,
     LinkTypes, SessionOrNone, CallerTypes, RadioTypes, HasClient, Pairing
<1>16. ASSUME NEW s \in Sessions, ProbeCleanupDies(s) PROVE LinkTypes'
  BY <1>16 DEF ProbeCleanupDies, Escapes, QueueInv, TypeOK, LinkTypes, SessionOrNone,
     CallerTypes, RadioTypes, HasClient, Pairing
<1>17. ASSUME CommandWritten PROVE LinkTypes'
  BY <1>17 DEF CommandWritten, _start_keep_alive, Drop, NoPacket, Escapes, QueueInv,
     TypeOK, LinkTypes, SessionOrNone, CallerTypes, RadioTypes, HasClient, Pairing
<1>18. ASSUME WriteFails PROVE LinkTypes'
  BY <1>18 DEF WriteFails, Cleanup, _on_disconnect, FailedAttempt, Drop, NoPacket,
     QueueInv, TypeOK, LinkTypes, SessionOrNone, CallerTypes, RadioTypes, HasClient,
     Pairing
<1>19. ASSUME WriteCleanupEnds PROVE LinkTypes'
  BY <1>19 DEF WriteCleanupEnds, CleanupEnds, _on_disconnect, FailedAttempt, Drop,
     NoPacket, QueueInv, TypeOK, LinkTypes, SessionOrNone, CallerTypes, RadioTypes,
     HasClient, Pairing
<1>20. ASSUME DrainAndClose PROVE LinkTypes'
  BY <1>20 DEF DrainAndClose, Close, Cleanup, Escapes, QueueInv, TypeOK, LinkTypes,
     SessionOrNone, CallerTypes, RadioTypes, HasClient, Pairing
<1>21. ASSUME StopEnds PROVE LinkTypes'
  BY <1>21 DEF StopEnds, CleanupEnds, Escapes, QueueInv, TypeOK, LinkTypes,
     SessionOrNone, CallerTypes, RadioTypes, HasClient, Pairing
<1>22. ASSUME disconnect PROVE LinkTypes'
  BY <1>22 DEF disconnect, Drop, NoPacket, Close, Cleanup, Escapes, QueueInv, TypeOK,
     LinkTypes, SessionOrNone, CallerTypes, RadioTypes, HasClient, Pairing
<1>23. ASSUME NEW c \in Callers, NEW data \in PairAnswers, pair(c, data)
      PROVE  LinkTypes'
  BY <1>23, <1>f DEF pair
<1>24. ASSUME Take \/ SendAgain \/ WriteDies \/ Recover \/ send_command PROVE LinkTypes'
  BY <1>24, <1>f DEF Take, _send_now, Drop, SendAgain, WriteDies, Escapes, Recover,
     send_command, enqueue
<1>25. ASSUME NEW m \in Perishable, Expire(m) PROVE LinkTypes'
  BY <1>25, <1>f DEF Expire
<1>26. ASSUME NEW s \in Sessions, LinkLost(s) \/ _handle_notification(s)
      PROVE  LinkTypes'
  BY <1>26, <1>f DEF LinkLost, _handle_notification
<1>27. CASE UNCHANGED vars
  BY <1>27, <1>f DEF vars, taskVars
<1>. QED  BY <1>1, <1>2, <1>3, <1>4, <1>5, <1>6, <1>7, <1>8, <1>9, <1>10, <1>11, <1>12,
     <1>13, <1>14, <1>15, <1>16, <1>17, <1>18, <1>19, <1>20, <1>21, <1>22, <1>23, <1>24,
     <1>25, <1>26, <1>27 DEF Next, Step, Caller, KeepAlive, Worker, Stopper

\* Where the callers of connect() and disconnect() have come to: a connect makes
\* no more attempts than _connect_with_retry allows.
LEMMA CallerStep == QueueInv /\ [Next]_vars => CallerTypes'
<1> SUFFICES ASSUME QueueInv, [Next]_vars PROVE CallerTypes'
  OBVIOUS
<1> USE DEF linkVars, callerVars, keepVars, queueVars, workVars, hearVars, radioVars
<1>f. ASSUME UNCHANGED <<callerVars, stopper>> PROVE CallerTypes'
  BY <1>f DEF QueueInv, TypeOK, CallerTypes, LinkTypes, Pairing, SessionOrNone,
     RadioTypes
<1>1. ASSUME NEW c \in Callers, connect(c) PROVE CallerTypes'
  BY <1>1 DEF connect, Connected, start, QueueInv, TypeOK, CallerTypes, LinkTypes,
     Pairing, SessionOrNone, RadioTypes
<1>2. ASSUME NEW c \in Callers, NotFound(c) PROVE CallerTypes'
  BY <1>2 DEF NotFound, QueueInv, TypeOK, CallerTypes, LinkTypes, Pairing,
     SessionOrNone, RadioTypes
<1>3. ASSUME NEW c \in Callers, _connect_with_retry(c) PROVE CallerTypes'
  BY <1>3, NextWithin DEF _connect_with_retry, QueueInv, TypeOK, LinkTypes, CallerTypes,
     RadioTypes, Pairing
<1>4. ASSUME NEW c \in Callers, RetryOrGiveUp(c) PROVE CallerTypes'
  BY <1>4, NextWithin DEF RetryOrGiveUp, QueueInv, TypeOK, CallerTypes
<1>5. ASSUME NEW c \in Callers, NEW data \in PairAnswers, pair(c, data)
      PROVE  CallerTypes'
  BY <1>5 DEF pair, QueueInv, TypeOK, CallerTypes, LinkTypes, Pairing, SessionOrNone,
     RadioTypes
<1>6. ASSUME NEW c \in Callers, NEW data \in PairAnswers, set_mesh_credentials(c, data)
      PROVE  CallerTypes'
  BY <1>6 DEF set_mesh_credentials, make_session_key, QueueInv, TypeOK, CallerTypes,
     LinkTypes, Pairing, SessionOrNone, RadioTypes
<1>7. ASSUME NEW c \in Callers, NEW data \in PairAnswers, PairFails(c, data)
      PROVE  CallerTypes'
  BY <1>7 DEF PairFails, Cleanup, QueueInv, TypeOK, CallerTypes, LinkTypes, Pairing,
     SessionOrNone, RadioTypes
<1>8. ASSUME NEW c \in Callers, PairCleanupEnds(c) PROVE CallerTypes'
  BY <1>8 DEF PairCleanupEnds, CleanupEnds, QueueInv, TypeOK, CallerTypes, LinkTypes,
     Pairing, SessionOrNone, RadioTypes
<1>9. ASSUME NEW c \in Callers, BecomesReady(c) PROVE CallerTypes'
  BY <1>9 DEF BecomesReady, _start_keep_alive, Connected, start, QueueInv, TypeOK,
     CallerTypes, LinkTypes, Pairing, SessionOrNone, RadioTypes
<1>10. ASSUME NEW c \in Callers, ConnectAborted(c) PROVE CallerTypes'
  BY <1>10 DEF ConnectAborted, Escapes, QueueInv, TypeOK, CallerTypes, LinkTypes,
     Pairing, SessionOrNone, RadioTypes
<1>11. ASSUME NEW c \in Callers, NEW active \in BOOLEAN, _start_notify_safe(c, active)
      PROVE  CallerTypes'
  BY <1>11 DEF _start_notify_safe, Connected, start, QueueInv, TypeOK, CallerTypes,
     LinkTypes, Pairing, SessionOrNone, RadioTypes
<1>12. ASSUME DrainAndClose PROVE CallerTypes'
  BY <1>12 DEF DrainAndClose, Close, Cleanup, Escapes, QueueInv, TypeOK, CallerTypes,
     LinkTypes, Pairing, SessionOrNone, RadioTypes
<1>13. ASSUME StopEnds PROVE CallerTypes'
  BY <1>13 DEF StopEnds, CleanupEnds, Escapes, QueueInv, TypeOK, CallerTypes, LinkTypes,
     Pairing, SessionOrNone, RadioTypes
<1>14. ASSUME disconnect PROVE CallerTypes'
  BY <1>14 DEF disconnect, Drop, NoPacket, Close, Cleanup, Escapes, QueueInv, TypeOK,
     CallerTypes, LinkTypes, Pairing, SessionOrNone, RadioTypes
<1>15. ASSUME _keep_alive_loop \/ ProbeWritten \/ ProbeFails \/ ProbeDies \/ Take \/
            SendAgain \/ CommandWritten
      PROVE  CallerTypes'
  BY <1>15, <1>f DEF _keep_alive_loop, ProbeWritten, ProbeFails, Cleanup,
     _on_disconnect, ProbeDies, Escapes, Take, _send_now, Drop, SendAgain,
     CommandWritten, _start_keep_alive
<1>16. ASSUME WriteFails \/ WriteCleanupEnds \/ WriteDies \/ Recover \/ send_command
      PROVE  CallerTypes'
  BY <1>16, <1>f DEF WriteFails, Cleanup, _on_disconnect, FailedAttempt, Drop,
     WriteCleanupEnds, CleanupEnds, WriteDies, Escapes, Recover, send_command, enqueue
<1>17. ASSUME NEW s \in Sessions, ProbeCleanupEnds(s) \/ ProbeCleanupDies(s) \/
            LinkLost(s) \/ _handle_notification(s)
      PROVE  CallerTypes'
  BY <1>17, <1>f DEF ProbeCleanupEnds, CleanupEnds, _on_disconnect, ProbeCleanupDies,
     Escapes, LinkLost, _handle_notification
<1>18. ASSUME NEW m \in Perishable, Expire(m) PROVE CallerTypes'
  BY <1>18, <1>f DEF Expire
<1>19. CASE UNCHANGED vars
  BY <1>19, <1>f DEF vars, taskVars
<1>. QED  BY <1>1, <1>2, <1>3, <1>4, <1>5, <1>6, <1>7, <1>8, <1>9, <1>10, <1>11, <1>12,
     <1>13, <1>14, <1>15, <1>16, <1>17, <1>18, <1>19 DEF Next, Step, Caller, KeepAlive,
     Worker, Stopper

\* The worker and its queue: no more attempts than send_retries, no more
\* commands than max_size (device_dispatcher.py).
LEMMA WorkerStep == QueueInv /\ [Next]_vars => WorkerTypes'
<1> SUFFICES ASSUME QueueInv, [Next]_vars PROVE WorkerTypes'
  OBVIOUS
<1> USE DEF linkVars, callerVars, keepVars, queueVars, workVars, hearVars, radioVars
<1>f. ASSUME UNCHANGED <<running, workVars, queueVars, written>> PROVE WorkerTypes'
  BY <1>f DEF QueueInv, TypeOK, WorkerTypes, WorkerHolds
<1>1. ASSUME NEW c \in Callers, connect(c) PROVE WorkerTypes'
  BY <1>1 DEF connect, Connected, start, QueueInv, TypeOK, WorkerTypes, WorkerHolds
<1>2. ASSUME NEW c \in Callers, BecomesReady(c) PROVE WorkerTypes'
  BY <1>2 DEF BecomesReady, _start_keep_alive, Connected, start, QueueInv, TypeOK,
     WorkerTypes, WorkerHolds
<1>3. ASSUME NEW c \in Callers, NEW active \in BOOLEAN, _start_notify_safe(c, active)
      PROVE  WorkerTypes'
  BY <1>3 DEF _start_notify_safe, Connected, start, QueueInv, TypeOK, WorkerTypes,
     WorkerHolds
<1>4. ASSUME Take PROVE WorkerTypes'
  <2> DEFINE m == Head(queue)
  <2>1. queue' = Tail(queue) /\ queue \in Seq(Commands) /\ queue # <<>>
    BY <1>4 DEF Take, QueueInv, TypeOK, WorkerTypes
  <2>2. m \in Commands /\ queue' \in Seq(Commands) /\ Len(queue') <= max_size
    BY <2>1, TakeHead DEF QueueInv, TypeOK, WorkerTypes
  <2> HIDE DEF m
  <2>3. CASE m \in stale
    BY <1>4, <2>2, <2>3 DEF Take, m, QueueInv, TypeOK, WorkerTypes
  <2>4. CASE m \notin stale /\ is_connected
    <3>1. _send_now(m, 1) /\ UNCHANGED <<running, stale, made, written>>
      BY <1>4, <2>4 DEF Take, m
    <3>. QED  BY <2>2, <3>1, SendNow DEF QueueInv, TypeOK, WorkerTypes
  <2>5. CASE m \notin stale /\ ~is_connected
    BY <1>4, <2>2, <2>5 DEF Take, m, QueueInv, TypeOK, WorkerTypes
  <2>. QED  BY <2>3, <2>4, <2>5
<1>5. ASSUME SendAgain PROVE WorkerTypes'
  <2>1. held \in Commands
    BY <1>5 DEF SendAgain, _send_now, QueueInv, WorkerHolds
  <2>2. PICK n \in Tries : _send_now(held, n)
    BY <1>5, NextWithin DEF SendAgain, QueueInv, TypeOK, WorkerTypes, WorkerHolds
  <2>. QED  BY <1>5, <2>1, <2>2, SendNow DEF SendAgain, QueueInv, TypeOK, WorkerTypes
<1>6. ASSUME CommandWritten PROVE WorkerTypes'
  <2>2. written' \in Seq(Writes)
    BY <1>6, PacketOnAir DEF CommandWritten, QueueInv, TypeOK, WorkerTypes
  <2>3. \E w \in {"getting", "recovering"} : Drop(w)
    BY <1>6 DEF CommandWritten
  <2>. QED  BY <1>6, <2>2, <2>3 DEF CommandWritten, Drop, QueueInv, TypeOK, WorkerTypes
<1>7. ASSUME WriteFails PROVE WorkerTypes'
  <2>1. \/ FailedAttempt
        \/ worker' = "closing" /\ workOn' = client /\ UNCHANGED <<held, tries, packet>>
    BY <1>7 DEF WriteFails
  <2>2. client \in SessionOrNone
    BY DEF QueueInv, TypeOK, LinkTypes
  <2>3. written' \in Seq(Writes)
    BY <1>7, PacketOnAir DEF WriteFails, QueueInv, TypeOK, WorkerTypes
  <2>. QED  BY <1>7, <2>1, <2>2, <2>3 DEF WriteFails, FailedAttempt, Drop, QueueInv, TypeOK,
            WorkerTypes
<1>8. ASSUME WriteCleanupEnds PROVE WorkerTypes'
  BY <1>8 DEF WriteCleanupEnds, CleanupEnds, _on_disconnect, FailedAttempt, Drop,
     NoPacket, QueueInv, TypeOK, WorkerTypes, WorkerHolds
<1>9. ASSUME WriteDies PROVE WorkerTypes'
  <2>1. written' \in Seq(Writes)
    BY <1>9, PacketOnAir DEF WriteDies, QueueInv, TypeOK, WorkerTypes
  <2>. QED  BY <1>9, <2>1 DEF WriteDies, Drop, NoPacket, Escapes, QueueInv, TypeOK,
            WorkerTypes, WorkerHolds
<1>10. ASSUME Recover PROVE WorkerTypes'
  BY <1>10 DEF Recover, QueueInv, TypeOK, WorkerTypes, WorkerHolds
<1>11. ASSUME DrainAndClose PROVE WorkerTypes'
  BY <1>11 DEF DrainAndClose, Close, Cleanup, Escapes, QueueInv, TypeOK, WorkerTypes,
     WorkerHolds
<1>12. ASSUME disconnect PROVE WorkerTypes'
  BY <1>12 DEF disconnect, Drop, NoPacket, Close, Cleanup, Escapes, QueueInv, TypeOK,
     WorkerTypes, WorkerHolds
<1>13. ASSUME send_command PROVE WorkerTypes'
  <2>1. made' \in 0..Len(Requests) /\ made + 1 \in Commands
    BY <1>13, NextWithin DEF send_command, QueueInv, TypeOK, WorkerTypes
  <2>2. queue' \in Seq(Commands) /\ Len(queue') <= max_size
    <3>1. queue' \in {queue, Append(queue, made + 1)}
      BY <1>13 DEF send_command, enqueue
    <3>2. CASE queue' = queue
      BY <3>2 DEF QueueInv, TypeOK, WorkerTypes
    <3>3. CASE queue' # queue
      <4>1. queue' = Append(queue, made + 1) /\ Len(queue) < max_size
        BY <1>13, <3>3 DEF send_command, enqueue
      <4>2. queue \in Seq(Commands) /\ Len(queue) \in Nat
        BY DEF QueueInv, TypeOK, WorkerTypes
      <4>. QED  BY <2>1, <4>1, <4>2
    <3>. QED  BY <3>2, <3>3
  <2>. QED  BY <1>13, <2>1, <2>2 DEF send_command, QueueInv, TypeOK, WorkerTypes
<1>14. ASSUME NEW m \in Perishable, Expire(m) PROVE WorkerTypes'
  BY <1>14 DEF Expire, QueueInv, TypeOK, WorkerTypes, WorkerHolds
<1>15. ASSUME NEW c \in Callers, NotFound(c) \/ _connect_with_retry(c) \/
            RetryOrGiveUp(c) \/ PairCleanupEnds(c) \/ ConnectAborted(c)
      PROVE  WorkerTypes'
  BY <1>15, <1>f DEF NotFound, _connect_with_retry, RetryOrGiveUp, PairCleanupEnds,
     CleanupEnds, ConnectAborted, Escapes
<1>16. ASSUME NEW c \in Callers, NEW data \in PairAnswers, pair(c, data) \/
            set_mesh_credentials(c, data) \/ PairFails(c, data)
      PROVE  WorkerTypes'
  BY <1>16, <1>f DEF pair, set_mesh_credentials, PairFails, Cleanup
<1>17. ASSUME _keep_alive_loop \/ ProbeWritten \/ ProbeFails \/ ProbeDies \/ StopEnds
      PROVE  WorkerTypes'
  BY <1>17, <1>f DEF _keep_alive_loop, ProbeWritten, ProbeFails, Cleanup,
     _on_disconnect, ProbeDies, Escapes, StopEnds, CleanupEnds
<1>18. ASSUME NEW s \in Sessions, ProbeCleanupEnds(s) \/ ProbeCleanupDies(s) \/
            LinkLost(s) \/ _handle_notification(s)
      PROVE  WorkerTypes'
  BY <1>18, <1>f DEF ProbeCleanupEnds, CleanupEnds, _on_disconnect, ProbeCleanupDies,
     Escapes, LinkLost, _handle_notification
<1>19. CASE UNCHANGED vars
  BY <1>19, <1>f DEF vars, taskVars
<1>. QED  BY <1>1, <1>2, <1>3, <1>4, <1>5, <1>6, <1>7, <1>8, <1>9, <1>10, <1>11, <1>12,
     <1>13, <1>14, <1>15, <1>16, <1>17, <1>18, <1>19 DEF Next, Step, Caller, KeepAlive,
     Worker, Stopper

\* Sessions: only clients that were opened are provisioned, asked to disconnect
\* or subscribed.
LEMMA RadioStep == QueueInv /\ [Next]_vars => RadioTypes'
<1> SUFFICES ASSUME QueueInv, [Next]_vars PROVE RadioTypes'
  OBVIOUS
<1> USE DEF linkVars, callerVars, keepVars, queueVars, workVars, hearVars, radioVars
<1>0. overlap' \in BOOLEAN
  BY DEF Next, QueueInv, TypeOK, RadioTypes, vars
<1>f. ASSUME UNCHANGED <<radioVars, escaped>> PROVE RadioTypes'
  BY <1>f, <1>0 DEF QueueInv, TypeOK, RadioTypes, LinkTypes, CallerTypes, SessionOrNone,
     HasClient, Pairing
<1>1. ASSUME NEW c \in Callers, _connect_with_retry(c) PROVE RadioTypes'
  BY <1>1, <1>0, NextWithin DEF _connect_with_retry, QueueInv, TypeOK, LinkTypes, CallerTypes,
     RadioTypes
<1>2. ASSUME NEW c \in Callers, NEW data \in PairAnswers, set_mesh_credentials(c, data)
      PROVE  RadioTypes'
  BY <1>2, <1>0 DEF set_mesh_credentials, make_session_key, QueueInv, TypeOK,
     RadioTypes, LinkTypes, CallerTypes, SessionOrNone, HasClient, Pairing
<1>3. ASSUME NEW c \in Callers, NEW data \in PairAnswers, PairFails(c, data)
      PROVE  RadioTypes'
  BY <1>3, <1>0 DEF PairFails, Cleanup, QueueInv, TypeOK, RadioTypes, LinkTypes,
     CallerTypes, SessionOrNone, HasClient, Pairing
<1>4. ASSUME NEW c \in Callers, ConnectAborted(c) PROVE RadioTypes'
  BY <1>4, <1>0 DEF ConnectAborted, Escapes, QueueInv, TypeOK, RadioTypes, LinkTypes,
     CallerTypes, SessionOrNone, HasClient, Pairing
<1>5. ASSUME NEW c \in Callers, NEW active \in BOOLEAN, _start_notify_safe(c, active)
      PROVE  RadioTypes'
  BY <1>5, <1>0 DEF _start_notify_safe, Connected, start, QueueInv, TypeOK, RadioTypes,
     LinkTypes, CallerTypes, SessionOrNone, HasClient, Pairing
<1>6. ASSUME ProbeFails PROVE RadioTypes'
  BY <1>6, <1>0 DEF ProbeFails, Cleanup, _on_disconnect, QueueInv, TypeOK, RadioTypes,
     LinkTypes, CallerTypes, SessionOrNone, HasClient, Pairing
<1>7. ASSUME ProbeDies PROVE RadioTypes'
  BY <1>7, <1>0 DEF ProbeDies, Escapes, QueueInv, TypeOK, RadioTypes, LinkTypes,
     CallerTypes, SessionOrNone, HasClient, Pairing
<1>8. ASSUME NEW s \in Sessions, ProbeCleanupDies(s) PROVE RadioTypes'
  BY <1>8, <1>0 DEF ProbeCleanupDies, Escapes, QueueInv, TypeOK, RadioTypes, LinkTypes,
     CallerTypes, SessionOrNone, HasClient, Pairing
<1>9. ASSUME CommandWritten PROVE RadioTypes'
  BY <1>9, <1>0 DEF CommandWritten, _start_keep_alive, Drop, NoPacket, Escapes,
     QueueInv, TypeOK, RadioTypes, LinkTypes, CallerTypes, SessionOrNone, HasClient,
     Pairing
<1>10. ASSUME WriteFails PROVE RadioTypes'
  BY <1>10, <1>0 DEF WriteFails, Cleanup, _on_disconnect, FailedAttempt, Drop, NoPacket,
     QueueInv, TypeOK, RadioTypes, LinkTypes, CallerTypes, SessionOrNone, HasClient,
     Pairing
<1>11. ASSUME WriteDies PROVE RadioTypes'
  BY <1>11, <1>0 DEF WriteDies, Drop, NoPacket, Escapes, QueueInv, TypeOK, RadioTypes,
     LinkTypes, CallerTypes, SessionOrNone, HasClient, Pairing
<1>12. ASSUME DrainAndClose PROVE RadioTypes'
  BY <1>12, <1>0 DEF DrainAndClose, Close, Cleanup, Escapes, QueueInv, TypeOK,
     RadioTypes, LinkTypes, CallerTypes, SessionOrNone, HasClient, Pairing
<1>13. ASSUME StopEnds PROVE RadioTypes'
  BY <1>13, <1>0 DEF StopEnds, CleanupEnds, Escapes, QueueInv, TypeOK, RadioTypes,
     LinkTypes, CallerTypes, SessionOrNone, HasClient, Pairing
<1>14. ASSUME disconnect PROVE RadioTypes'
  BY <1>14, <1>0 DEF disconnect, Drop, NoPacket, Close, Cleanup, Escapes, QueueInv,
     TypeOK, RadioTypes, LinkTypes, CallerTypes, SessionOrNone, HasClient, Pairing
<1>15. ASSUME NEW s \in Sessions, LinkLost(s) PROVE RadioTypes'
  BY <1>15, <1>0 DEF LinkLost, QueueInv, TypeOK, RadioTypes, LinkTypes, CallerTypes,
     SessionOrNone, HasClient, Pairing
<1>16. ASSUME NEW s \in Sessions, _handle_notification(s) PROVE RadioTypes'
  BY <1>16, <1>0 DEF _handle_notification, QueueInv, TypeOK, RadioTypes, LinkTypes,
     CallerTypes, SessionOrNone, HasClient, Pairing
<1>17. ASSUME NEW c \in Callers, connect(c) \/ NotFound(c) \/ RetryOrGiveUp(c) \/
            PairCleanupEnds(c) \/ BecomesReady(c)
      PROVE  RadioTypes'
  BY <1>17, <1>f DEF connect, Connected, start, NotFound, RetryOrGiveUp,
     PairCleanupEnds, CleanupEnds, BecomesReady, _start_keep_alive
<1>18. ASSUME NEW c \in Callers, NEW data \in PairAnswers, pair(c, data)
      PROVE  RadioTypes'
  BY <1>18, <1>f DEF pair
<1>19. ASSUME _keep_alive_loop \/ ProbeWritten \/ Take \/ SendAgain \/ WriteCleanupEnds
            \/ Recover \/ send_command
      PROVE  RadioTypes'
  BY <1>19, <1>f DEF _keep_alive_loop, ProbeWritten, Take, _send_now, Drop, SendAgain,
     WriteCleanupEnds, CleanupEnds, _on_disconnect, FailedAttempt, Recover,
     send_command, enqueue
<1>20. ASSUME NEW s \in Sessions, ProbeCleanupEnds(s) PROVE RadioTypes'
  BY <1>20, <1>f DEF ProbeCleanupEnds, CleanupEnds, _on_disconnect
<1>21. ASSUME NEW m \in Perishable, Expire(m) PROVE RadioTypes'
  BY <1>21, <1>f DEF Expire
<1>22. CASE UNCHANGED vars
  BY <1>22, <1>f DEF vars, taskVars
<1>. QED  BY <1>1, <1>2, <1>3, <1>4, <1>5, <1>6, <1>7, <1>8, <1>9, <1>10, <1>11, <1>12,
     <1>13, <1>14, <1>15, <1>16, <1>17, <1>18, <1>19, <1>20, <1>21, <1>22 DEF Next,
     Step, Caller, KeepAlive, Worker, Stopper

\* The types hold at first, and every step keeps them.
LEMMA TypeInit == Init => TypeOK
<1> SUFFICES ASSUME Init PROVE TypeOK
  OBVIOUS
<1>1. LinkTypes
  BY DEF Init, LinkTypes
<1>2. CallerTypes
  BY DEF Init, CallerTypes
<1>3. WorkerTypes
  <2>1. queue \in Seq(Commands) /\ Len(queue) <= max_size /\ written \in Seq(Writes)
    BY DEF Init
  <2>2. made \in 0..Len(Requests)
    BY DEF Init
  <2>. QED  BY <2>1, <2>2 DEF Init, WorkerTypes
<1>4. RadioTypes
  BY DEF Init, RadioTypes
<1>. QED  BY <1>1, <1>2, <1>3, <1>4 DEF TypeOK

\* Every step keeps the types.
LEMMA TypeStep == QueueInv /\ [Next]_vars => TypeOK'
BY LinkStep, CallerStep, WorkerStep, RadioStep DEF TypeOK

-----------------------------------------------------------------------------
(* The worker and the order of the commands.                               *)

\* A connect() has its client from the first answer of the device on
\* (connect, _connect_with_retry).
LEMMA ClientStep == QueueInv /\ [Next]_vars => HasClient'
<1> SUFFICES ASSUME QueueInv, [Next]_vars PROVE HasClient'
  OBVIOUS
<1> USE DEF linkVars, callerVars, keepVars, queueVars, workVars, hearVars, radioVars
<1>f. ASSUME UNCHANGED <<pc, mine>> PROVE HasClient'
  BY <1>f DEF QueueInv, TypeOK, HasClient, CallerTypes, LinkTypes, RadioTypes,
     SessionOrNone, Pairing
<1>1. ASSUME NEW c \in Callers, connect(c) PROVE HasClient'
  BY <1>1 DEF connect, Connected, start, QueueInv, TypeOK, HasClient, CallerTypes,
     LinkTypes, RadioTypes, SessionOrNone, Pairing
<1>2. ASSUME NEW c \in Callers, NotFound(c) PROVE HasClient'
  BY <1>2 DEF NotFound, QueueInv, TypeOK, HasClient, CallerTypes, LinkTypes, RadioTypes,
     SessionOrNone, Pairing
<1>3. ASSUME NEW c \in Callers, _connect_with_retry(c) PROVE HasClient'
  BY <1>3, NextWithin DEF _connect_with_retry, QueueInv, TypeOK, LinkTypes, CallerTypes,
     RadioTypes, HasClient, Pairing
<1>4. ASSUME NEW c \in Callers, RetryOrGiveUp(c) PROVE HasClient'
  BY <1>4 DEF RetryOrGiveUp, QueueInv, TypeOK, HasClient, CallerTypes, LinkTypes,
     RadioTypes, SessionOrNone, Pairing
<1>5. ASSUME NEW c \in Callers, NEW data \in PairAnswers, pair(c, data) PROVE HasClient'
  BY <1>5 DEF pair, QueueInv, TypeOK, HasClient, CallerTypes, LinkTypes, RadioTypes,
     SessionOrNone, Pairing
<1>6. ASSUME NEW c \in Callers, NEW data \in PairAnswers, set_mesh_credentials(c, data)
      PROVE  HasClient'
  BY <1>6 DEF set_mesh_credentials, make_session_key, QueueInv, TypeOK, HasClient,
     CallerTypes, LinkTypes, RadioTypes, SessionOrNone, Pairing
<1>7. ASSUME NEW c \in Callers, NEW data \in PairAnswers, PairFails(c, data)
      PROVE  HasClient'
  BY <1>7 DEF PairFails, Cleanup, QueueInv, TypeOK, HasClient, CallerTypes, LinkTypes,
     RadioTypes, SessionOrNone, Pairing
<1>8. ASSUME NEW c \in Callers, PairCleanupEnds(c) PROVE HasClient'
  BY <1>8 DEF PairCleanupEnds, CleanupEnds, QueueInv, TypeOK, HasClient, CallerTypes,
     LinkTypes, RadioTypes, SessionOrNone, Pairing
<1>9. ASSUME NEW c \in Callers, BecomesReady(c) PROVE HasClient'
  BY <1>9 DEF BecomesReady, _start_keep_alive, Connected, start, QueueInv, TypeOK,
     HasClient, CallerTypes, LinkTypes, RadioTypes, SessionOrNone, Pairing
<1>10. ASSUME NEW c \in Callers, ConnectAborted(c) PROVE HasClient'
  BY <1>10 DEF ConnectAborted, Escapes, QueueInv, TypeOK, HasClient, CallerTypes,
     LinkTypes, RadioTypes, SessionOrNone, Pairing
<1>11. ASSUME NEW c \in Callers, NEW active \in BOOLEAN, _start_notify_safe(c, active)
      PROVE  HasClient'
  BY <1>11 DEF _start_notify_safe, Connected, start, QueueInv, TypeOK, HasClient,
     CallerTypes, LinkTypes, RadioTypes, SessionOrNone, Pairing
<1>12. ASSUME _keep_alive_loop \/ ProbeWritten \/ ProbeFails \/ ProbeDies \/ Take \/
            SendAgain \/ CommandWritten
      PROVE  HasClient'
  BY <1>12, <1>f DEF _keep_alive_loop, ProbeWritten, ProbeFails, Cleanup,
     _on_disconnect, ProbeDies, Escapes, Take, _send_now, Drop, SendAgain,
     CommandWritten, _start_keep_alive
<1>13. ASSUME WriteFails \/ WriteCleanupEnds \/ WriteDies \/ Recover \/ DrainAndClose \/
            StopEnds \/ disconnect
      PROVE  HasClient'
  BY <1>13, <1>f DEF WriteFails, Cleanup, _on_disconnect, FailedAttempt, Drop,
     WriteCleanupEnds, CleanupEnds, WriteDies, Escapes, Recover, DrainAndClose, Close,
     StopEnds, disconnect
<1>14. ASSUME send_command PROVE HasClient'
  BY <1>14, <1>f DEF send_command, enqueue
<1>15. ASSUME NEW s \in Sessions, ProbeCleanupEnds(s) \/ ProbeCleanupDies(s) \/
            LinkLost(s) \/ _handle_notification(s)
      PROVE  HasClient'
  BY <1>15, <1>f DEF ProbeCleanupEnds, CleanupEnds, _on_disconnect, ProbeCleanupDies,
     Escapes, LinkLost, _handle_notification
<1>16. ASSUME NEW m \in Perishable, Expire(m) PROVE HasClient'
  BY <1>16, <1>f DEF Expire
<1>17. CASE UNCHANGED vars
  BY <1>17, <1>f DEF vars, taskVars
<1>. QED  BY <1>1, <1>2, <1>3, <1>4, <1>5, <1>6, <1>7, <1>8, <1>9, <1>10, <1>11, <1>12,
     <1>13, <1>14, <1>15, <1>16, <1>17 DEF Next, Step, Caller, KeepAlive, Worker,
     Stopper

\* The worker holds one command from taking it to dropping it
\* (device_dispatcher.py, _worker).
LEMMA HoldsStep == QueueInv /\ [Next]_vars => WorkerHolds'
<1> SUFFICES ASSUME QueueInv, [Next]_vars PROVE WorkerHolds'
  OBVIOUS
<1> USE DEF linkVars, callerVars, keepVars, queueVars, workVars, hearVars, radioVars
<1>f. ASSUME UNCHANGED <<running, workVars>> PROVE WorkerHolds'
  BY <1>f DEF QueueInv, TypeOK, WorkerHolds, WorkerTypes
<1>1. ASSUME NEW c \in Callers, connect(c) PROVE WorkerHolds'
  BY <1>1 DEF connect, Connected, start, QueueInv, TypeOK, WorkerHolds, WorkerTypes
<1>2. ASSUME NEW c \in Callers, BecomesReady(c) PROVE WorkerHolds'
  BY <1>2 DEF BecomesReady, _start_keep_alive, Connected, start, QueueInv, TypeOK,
     WorkerHolds, WorkerTypes
<1>3. ASSUME NEW c \in Callers, NEW active \in BOOLEAN, _start_notify_safe(c, active)
      PROVE  WorkerHolds'
  BY <1>3 DEF _start_notify_safe, Connected, start, QueueInv, TypeOK, WorkerHolds,
     WorkerTypes
<1>4. ASSUME Take PROVE WorkerHolds'
  <2> DEFINE m == Head(queue)
  <2>1. m \in Commands /\ held = 0 /\ running
    BY <1>4, TakeHead DEF Take, QueueInv, TypeOK, WorkerTypes, WorkerHolds
  <2> HIDE DEF m
  <2>2. CASE is_connected /\ m \notin stale
    <3>1. _send_now(m, 1) /\ UNCHANGED running
      BY <1>4, <2>2 DEF Take, m
    <3>. QED  BY <2>1, <3>1, SendNow DEF QueueInv, WorkerHolds
  <2>3. CASE ~is_connected \/ m \in stale
    BY <1>4, <2>1, <2>3 DEF Take, m, QueueInv, WorkerHolds
  <2>. QED  BY <2>2, <2>3
<1>5. ASSUME SendAgain PROVE WorkerHolds'
  <2>1. held \in Commands /\ running
    BY <1>5 DEF SendAgain, QueueInv, WorkerHolds
  <2>2. PICK n \in Tries : _send_now(held, n)
    BY <1>5, NextWithin DEF SendAgain, QueueInv, TypeOK, WorkerTypes, WorkerHolds
  <2>. QED  BY <1>5, <2>1, <2>2, SendNow DEF SendAgain, QueueInv, WorkerHolds
<1>6. ASSUME CommandWritten PROVE WorkerHolds'
  BY <1>6 DEF CommandWritten, _start_keep_alive, Drop, NoPacket, Escapes, QueueInv,
     TypeOK, WorkerHolds, WorkerTypes
<1>7. ASSUME WriteFails PROVE WorkerHolds'
  BY <1>7 DEF WriteFails, Cleanup, _on_disconnect, FailedAttempt, Drop, NoPacket,
     QueueInv, TypeOK, WorkerHolds, WorkerTypes
<1>8. ASSUME WriteCleanupEnds PROVE WorkerHolds'
  BY <1>8 DEF WriteCleanupEnds, CleanupEnds, _on_disconnect, FailedAttempt, Drop,
     NoPacket, QueueInv, TypeOK, WorkerHolds, WorkerTypes
<1>9. ASSUME WriteDies PROVE WorkerHolds'
  BY <1>9 DEF WriteDies, Drop, NoPacket, Escapes, QueueInv, TypeOK, WorkerHolds,
     WorkerTypes
<1>10. ASSUME Recover PROVE WorkerHolds'
  BY <1>10 DEF Recover, QueueInv, TypeOK, WorkerHolds, WorkerTypes
<1>11. ASSUME DrainAndClose PROVE WorkerHolds'
  BY <1>11 DEF DrainAndClose, Close, Cleanup, Escapes, QueueInv, TypeOK, WorkerHolds,
     WorkerTypes
<1>12. ASSUME disconnect PROVE WorkerHolds'
  BY <1>12 DEF disconnect, Drop, NoPacket, Close, Cleanup, Escapes, QueueInv, TypeOK,
     WorkerHolds, WorkerTypes
<1>13. ASSUME NEW c \in Callers, NotFound(c) \/ _connect_with_retry(c) \/
            RetryOrGiveUp(c) \/ PairCleanupEnds(c) \/ ConnectAborted(c)
      PROVE  WorkerHolds'
  BY <1>13, <1>f DEF NotFound, _connect_with_retry, RetryOrGiveUp, PairCleanupEnds,
     CleanupEnds, ConnectAborted, Escapes
<1>14. ASSUME NEW c \in Callers, NEW data \in PairAnswers, pair(c, data) \/
            set_mesh_credentials(c, data) \/ PairFails(c, data)
      PROVE  WorkerHolds'
  BY <1>14, <1>f DEF pair, set_mesh_credentials, PairFails, Cleanup
<1>15. ASSUME _keep_alive_loop \/ ProbeWritten \/ ProbeFails \/ ProbeDies \/ StopEnds \/
            send_command
      PROVE  WorkerHolds'
  BY <1>15, <1>f DEF _keep_alive_loop, ProbeWritten, ProbeFails, Cleanup,
     _on_disconnect, ProbeDies, Escapes, StopEnds, CleanupEnds, send_command, enqueue
<1>16. ASSUME NEW s \in Sessions, ProbeCleanupEnds(s) \/ ProbeCleanupDies(s) \/
            LinkLost(s) \/ _handle_notification(s)
      PROVE  WorkerHolds'
  BY <1>16, <1>f DEF ProbeCleanupEnds, CleanupEnds, _on_disconnect, ProbeCleanupDies,
     Escapes, LinkLost, _handle_notification
<1>17. ASSUME NEW m \in Perishable, Expire(m) PROVE WorkerHolds'
  BY <1>17, <1>f DEF Expire
<1>18. CASE UNCHANGED vars
  BY <1>18, <1>f DEF vars, taskVars
<1>. QED  BY <1>1, <1>2, <1>3, <1>4, <1>5, <1>6, <1>7, <1>8, <1>9, <1>10, <1>11, <1>12,
     <1>13, <1>14, <1>15, <1>16, <1>17, <1>18 DEF Next, Step, Caller, KeepAlive, Worker,
     Stopper

\* A step that at most drops what the worker holds keeps the order.
LEMMA OrderKept ==
  ASSUME QueueInv, UNCHANGED <<queue, made, written>>, held' \in {held, 0}
  PROVE  CallOrder'
<1>1. \A i \in DOMAIN queue : queue[i] > 0
  BY DEF QueueInv, TypeOK, WorkerTypes
<1>. QED  BY <1>1 DEF QueueInv, CallOrder, TypeOK, WorkerTypes

\* Taking the first command of the queue keeps the order.
LEMMA OrderTaken ==
  ASSUME QueueInv, Take
  PROVE  CallOrder' /\ StaleIsQueued'
<1> DEFINE m == Head(queue)
<1>1. /\ held = 0 /\ queue \in Seq(Commands) /\ queue # <<>> /\ queue' = Tail(queue)
      /\ UNCHANGED <<made, written>>
  BY DEF Take, QueueInv, TypeOK, WorkerTypes, WorkerHolds
<1>2. /\ m \in Commands /\ m = queue[1] /\ 1 \in DOMAIN queue
      /\ \A i \in DOMAIN queue' : i + 1 \in DOMAIN queue /\ queue'[i] = queue[i + 1]
      /\ \A i \in DOMAIN queue : i > 1 => i - 1 \in DOMAIN queue' /\ queue'[i - 1] = queue[i]
  BY <1>1, TakeHead
<1> HIDE DEF m
<1>3. held' \in {0, m}
  <2>1. CASE m \in stale
    BY <1>1, <2>1 DEF Take, m, workVars
  <2>2. CASE m \notin stale /\ is_connected
    <3>1. _send_now(m, 1)
      BY <2>2 DEF Take, m
    <3>. QED  BY <1>2, <3>1, SendNow DEF QueueInv
  <2>3. CASE m \notin stale /\ ~is_connected
    BY <2>3 DEF Take, m
  <2>. QED  BY <2>1, <2>2, <2>3
<1>4. stale' \subseteq stale \ {m}
  BY DEF Take, m
<1>5. CallOrder
  BY DEF QueueInv
<1>6. DOMAIN queue \subseteq Nat \ {0} /\ DOMAIN queue' \subseteq Nat \ {0}
  BY <1>1
<1>7. \A i \in DOMAIN queue' : queue'[i] \in Commands /\ m < queue'[i]
  BY <1>1, <1>2, <1>5, <1>6 DEF CallOrder
<1>8. \A i, j \in DOMAIN queue' : i < j => queue'[i] < queue'[j]
  BY <1>2, <1>5, <1>6 DEF CallOrder
<1>9. made \in Nat /\ m <= made
  BY <1>2, <1>5 DEF QueueInv, TypeOK, WorkerTypes, CallOrder
<1>t. \A i \in DOMAIN written : written[i].cmd \in Nat /\ written[i].cmd < m
  <2>1. \A i \in DOMAIN written : written[i].cmd < m
    BY <1>2, <1>5 DEF CallOrder
  <2>2. \A i \in DOMAIN written : written[i] \in Writes
    BY DEF QueueInv, TypeOK, WorkerTypes
  <2>. QED  BY <2>1, <2>2 DEF Writes, CommandOrNone
<1>s. m \in Nat
  BY <1>2
<1>10. CallOrder'
  BY <1>1, <1>2, <1>3, <1>5, <1>7, <1>8, <1>9, <1>t, <1>s DEF CallOrder
<1>11. StaleIsQueued'
  <2> SUFFICES ASSUME NEW k \in stale' PROVE \E i \in DOMAIN queue' : queue'[i] = k
    BY DEF StaleIsQueued
  <2>1. PICK i \in DOMAIN queue : queue[i] = k
    BY <1>4 DEF QueueInv, StaleIsQueued
  <2>2. i > 1
    BY <1>2, <1>4, <1>6, <2>1
  <2>. QED  BY <1>2, <2>1, <2>2
<1>. QED  BY <1>10, <1>11

\* Writing the command that is held, which is then dropped or tried again,
\* keeps the order.
LEMMA OrderWritten ==
  ASSUME QueueInv, worker = "writing", OnAir, UNCHANGED <<queue, made>>, held' \in {held, 0}
  PROVE  CallOrder'
<1> DEFINE p == [cmd |-> packet.cmd, key |-> packet.key, session |-> workOn]
<1>1. held \in Commands /\ p.cmd = held /\ held \in Nat /\ held # 0
  BY DEF QueueInv, WorkerHolds, Commands
<1>2. written \in Seq(Writes) /\ queue \in Seq(Commands) /\ made \in Nat
  BY DEF QueueInv, TypeOK, WorkerTypes
<1> HIDE DEF p
<1>3. /\ DOMAIN written' = 1..(Len(written) + 1)
      /\ DOMAIN written = 1..Len(written) /\ Len(written) \in Nat
      /\ \A i \in DOMAIN written : written'[i] = written[i]
      /\ written'[Len(written) + 1] = p
  BY PacketOnAir DEF p, QueueInv, TypeOK, WorkerTypes
<1>4. CallOrder
  BY DEF QueueInv
<1>5. \A i \in DOMAIN written' :
        /\ i \in DOMAIN written \/ i = Len(written) + 1
        /\ i \in DOMAIN written => written[i].cmd <= held
  BY <1>1, <1>3, <1>4 DEF CallOrder
<1>6. \A i, j \in DOMAIN written' : i < j => written'[i].cmd <= written'[j].cmd
  <2> SUFFICES ASSUME NEW i \in DOMAIN written', NEW j \in DOMAIN written', i < j
               PROVE  written'[i].cmd <= written'[j].cmd
    OBVIOUS
  <2>1. i \in DOMAIN written
    BY <1>3
  <2>2. CASE j \in DOMAIN written
    BY <1>3, <1>4, <2>1, <2>2 DEF CallOrder
  <2>3. CASE j = Len(written) + 1
    BY <1>1, <1>3, <1>5, <2>1, <2>3
  <2>. QED  BY <1>5, <2>2, <2>3
<1>7. ASSUME NEW i \in DOMAIN written'
      PROVE  /\ written'[i].cmd <= made /\ \A j \in DOMAIN queue : written'[i].cmd < queue[j]
             /\ written'[i].cmd <= held
  <2>1. CASE i \in DOMAIN written
    BY <1>1, <1>3, <1>4, <2>1 DEF CallOrder
  <2>2. CASE i = Len(written) + 1
    BY <1>1, <1>3, <1>4, <2>2 DEF CallOrder
  <2>. QED  BY <1>5, <2>1, <2>2
<1>8. \A i \in DOMAIN queue : queue[i] > 0
  BY <1>2
<1>. QED  BY <1>1, <1>2, <1>4, <1>6, <1>7, <1>8 DEF CallOrder

\* A call is queued behind all earlier ones, or refused.
LEMMA OrderQueued ==
  ASSUME QueueInv, send_command
  PROVE  CallOrder' /\ StaleIsQueued'
<1>1. /\ made' = made + 1 /\ made \in Nat /\ queue' \in {queue, Append(queue, made + 1)}
      /\ UNCHANGED <<held, written, stale>>
  BY DEF send_command, enqueue, workVars, QueueInv, TypeOK, WorkerTypes
<1>2. queue \in Seq(Commands) /\ CallOrder /\ StaleIsQueued /\ written \in Seq(Writes)
  BY DEF QueueInv, TypeOK, WorkerTypes
<1>3. /\ held \in Nat
      /\ \A i \in DOMAIN queue : queue[i] \in Nat
      /\ \A i \in DOMAIN written : written[i].cmd \in Nat
  <2>1. held \in Nat
    BY DEF QueueInv, TypeOK, WorkerTypes, CommandOrNone
  <2>2. \A i \in DOMAIN queue : queue[i] \in Nat
    BY <1>2
  <2>3. \A i \in DOMAIN written : written[i] \in Writes
    BY <1>2
  <2>. QED  BY <2>1, <2>2, <2>3 DEF Writes, CommandOrNone
<1>4. CASE queue' = queue
  BY <1>1, <1>2, <1>3, <1>4 DEF CallOrder, StaleIsQueued
<1>5. CASE queue' = Append(queue, made + 1)
  <2>1. /\ DOMAIN queue = 1..Len(queue) /\ DOMAIN queue' = 1..(Len(queue) + 1)
        /\ Len(queue) \in Nat
        /\ \A i \in DOMAIN queue : queue'[i] = queue[i]
        /\ queue'[Len(queue) + 1] = made + 1
    BY <1>2, <1>5
  <2>2. \A i \in DOMAIN queue' : i \in DOMAIN queue \/ queue'[i] = made + 1
    BY <2>1
  <2>3. \A i, j \in DOMAIN queue' : i < j => queue'[i] < queue'[j]
    <3> SUFFICES ASSUME NEW i \in DOMAIN queue', NEW j \in DOMAIN queue', i < j
                 PROVE  queue'[i] < queue'[j]
      OBVIOUS
    <3>1. i \in DOMAIN queue
      BY <2>1
    <3>. QED  BY <1>1, <1>2, <1>3, <2>1, <2>2, <3>1 DEF CallOrder
  <2>4. \A i \in DOMAIN queue' : queue'[i] <= made' /\ held < queue'[i]
    BY <1>1, <1>2, <1>3, <2>1, <2>2 DEF CallOrder
  <2>5. \A i \in DOMAIN written : \A j \in DOMAIN queue' : written[i].cmd < queue'[j]
    <3> SUFFICES ASSUME NEW i \in DOMAIN written, NEW j \in DOMAIN queue'
                 PROVE  written[i].cmd < queue'[j]
      OBVIOUS
    <3>1. written[i].cmd \in Nat /\ written[i].cmd <= made
      BY <1>2, <1>3 DEF CallOrder
    <3>2. CASE j \in DOMAIN queue
      BY <1>2, <2>1, <3>2 DEF CallOrder
    <3>3. CASE queue'[j] = made + 1
      BY <1>1, <3>1, <3>3
    <3>. QED  BY <2>2, <3>2, <3>3
  <2>6. CallOrder'
    BY <1>1, <1>2, <1>3, <2>3, <2>4, <2>5 DEF CallOrder
  <2>7. StaleIsQueued'
    BY <1>1, <1>2, <2>1 DEF StaleIsQueued
  <2>. QED  BY <2>6, <2>7
<1>. QED  BY <1>1, <1>4, <1>5

\* Every step keeps the order of the commands (device_dispatcher.py).
LEMMA OrderStep == QueueInv /\ [Next]_vars => CallOrder'
<1> SUFFICES ASSUME QueueInv, [Next]_vars PROVE CallOrder'
  OBVIOUS
<1> USE DEF linkVars, callerVars, keepVars, queueVars, workVars, hearVars, radioVars
<1>1. ASSUME Take PROVE CallOrder'
  BY <1>1, OrderTaken
<1>2. ASSUME SendAgain PROVE CallOrder'
  <2>1. held \in Commands
    BY <1>2 DEF SendAgain, QueueInv, WorkerHolds
  <2>2. PICK n \in Tries : _send_now(held, n)
    BY <1>2, NextWithin DEF SendAgain, QueueInv, TypeOK, WorkerTypes, WorkerHolds
  <2>. QED  BY <1>2, <2>1, <2>2, SendNow, OrderKept DEF SendAgain, QueueInv
<1>3. ASSUME CommandWritten PROVE CallOrder'
  BY <1>3, OrderWritten DEF CommandWritten, Drop
<1>4. ASSUME WriteFails PROVE CallOrder'
  <2>1. /\ worker = "writing" /\ UNCHANGED <<queue, made>> /\ held' \in {held, 0}
        /\ OnAir \/ UNCHANGED written
    BY <1>4 DEF WriteFails, FailedAttempt, Drop
  <2>. QED  BY <2>1, OrderKept, OrderWritten
<1>5. ASSUME WriteCleanupEnds PROVE CallOrder'
  BY <1>5, OrderKept DEF WriteCleanupEnds, CleanupEnds, _on_disconnect, FailedAttempt,
     Drop, NoPacket
<1>6. ASSUME WriteDies PROVE CallOrder'
  <2>1. /\ UNCHANGED <<queue, made>> /\ held' = 0
        /\ (worker = "writing" /\ OnAir) \/ UNCHANGED written
    BY <1>6 DEF WriteDies, Drop
  <2>. QED  BY <2>1, OrderKept, OrderWritten
<1>7. ASSUME DrainAndClose PROVE CallOrder'
  <2>1. queue' = <<>> /\ UNCHANGED <<held, made, written>>
    BY <1>7 DEF DrainAndClose, Close
  <2>. QED  BY <2>1 DEF QueueInv, CallOrder
<1>8. ASSUME disconnect PROVE CallOrder'
  BY <1>8, OrderKept DEF disconnect, Drop, NoPacket, Close, Cleanup, Escapes
<1>9. ASSUME send_command PROVE CallOrder'
  BY <1>9, OrderQueued
<1>10. ASSUME NEW c \in Callers, connect(c) \/ NotFound(c) \/ _connect_with_retry(c) \/
            RetryOrGiveUp(c) \/ PairCleanupEnds(c) \/ BecomesReady(c) \/
            ConnectAborted(c)
      PROVE  CallOrder'
  BY <1>10, OrderKept DEF connect, Connected, start, NotFound, _connect_with_retry,
     RetryOrGiveUp, PairCleanupEnds, CleanupEnds, BecomesReady, _start_keep_alive,
     ConnectAborted, Escapes
<1>11. ASSUME NEW c \in Callers, NEW data \in PairAnswers, pair(c, data) \/
            set_mesh_credentials(c, data) \/ PairFails(c, data)
      PROVE  CallOrder'
  BY <1>11, OrderKept DEF pair, set_mesh_credentials, make_session_key, PairFails,
     Cleanup
<1>12. ASSUME NEW c \in Callers, NEW active \in BOOLEAN, _start_notify_safe(c, active)
      PROVE  CallOrder'
  BY <1>12, OrderKept DEF _start_notify_safe, Connected, start
<1>13. ASSUME _keep_alive_loop \/ ProbeWritten \/ ProbeFails \/ ProbeDies \/ Recover \/
            StopEnds
      PROVE  CallOrder'
  BY <1>13, OrderKept DEF _keep_alive_loop, ProbeWritten, ProbeFails, Cleanup,
     _on_disconnect, ProbeDies, Escapes, Recover, StopEnds, CleanupEnds
<1>14. ASSUME NEW s \in Sessions, ProbeCleanupEnds(s) \/ ProbeCleanupDies(s) \/
            LinkLost(s) \/ _handle_notification(s)
      PROVE  CallOrder'
  BY <1>14, OrderKept DEF ProbeCleanupEnds, CleanupEnds, _on_disconnect,
     ProbeCleanupDies, Escapes, LinkLost, _handle_notification
<1>15. ASSUME NEW m \in Perishable, Expire(m) PROVE CallOrder'
  BY <1>15, OrderKept DEF Expire
<1>16. CASE UNCHANGED vars
  BY <1>16, OrderKept DEF vars, taskVars
<1>. QED  BY <1>1, <1>2, <1>3, <1>4, <1>5, <1>6, <1>7, <1>8, <1>9, <1>10, <1>11, <1>12,
     <1>13, <1>14, <1>15, <1>16 DEF Next, Step, Caller, KeepAlive, Worker, Stopper

\* Every step that takes a command from the queue forgets that its time passed.
LEMMA StaleStep == QueueInv /\ [Next]_vars => StaleIsQueued'
<1> SUFFICES ASSUME QueueInv, [Next]_vars PROVE StaleIsQueued'
  OBVIOUS
<1> USE DEF linkVars, callerVars, keepVars, queueVars, workVars, hearVars, radioVars,
            ToSet
<1>f. ASSUME UNCHANGED <<queue, stale>> PROVE StaleIsQueued'
  BY <1>f DEF QueueInv, StaleIsQueued
<1>1. ASSUME Take PROVE StaleIsQueued'
  BY <1>1, OrderTaken
<1>2. ASSUME DrainAndClose PROVE StaleIsQueued'
  BY <1>2 DEF DrainAndClose, Close, Cleanup, Escapes, QueueInv, StaleIsQueued
<1>3. ASSUME disconnect PROVE StaleIsQueued'
  BY <1>3 DEF disconnect, Drop, NoPacket, Close, Cleanup, Escapes, QueueInv,
     StaleIsQueued
<1>4. ASSUME send_command PROVE StaleIsQueued'
  BY <1>4, OrderQueued
<1>5. ASSUME NEW m \in Perishable, Expire(m) PROVE StaleIsQueued'
  BY <1>5 DEF Expire, QueueInv, StaleIsQueued
<1>6. ASSUME NEW c \in Callers, connect(c) \/ NotFound(c) \/ _connect_with_retry(c) \/
            RetryOrGiveUp(c) \/ PairCleanupEnds(c) \/ BecomesReady(c) \/
            ConnectAborted(c)
      PROVE  StaleIsQueued'
  BY <1>6, <1>f DEF connect, Connected, start, NotFound, _connect_with_retry,
     RetryOrGiveUp, PairCleanupEnds, CleanupEnds, BecomesReady, _start_keep_alive,
     ConnectAborted, Escapes
<1>7. ASSUME NEW c \in Callers, NEW data \in PairAnswers, pair(c, data) \/
            set_mesh_credentials(c, data) \/ PairFails(c, data)
      PROVE  StaleIsQueued'
  BY <1>7, <1>f DEF pair, set_mesh_credentials, PairFails, Cleanup
<1>8. ASSUME NEW c \in Callers, NEW active \in BOOLEAN, _start_notify_safe(c, active)
      PROVE  StaleIsQueued'
  BY <1>8, <1>f DEF _start_notify_safe, Connected, start
<1>9. ASSUME _keep_alive_loop \/ ProbeWritten \/ ProbeFails \/ ProbeDies \/ SendAgain \/
            CommandWritten \/ WriteFails
      PROVE  StaleIsQueued'
  BY <1>9, <1>f DEF _keep_alive_loop, ProbeWritten, ProbeFails, Cleanup, _on_disconnect,
     ProbeDies, Escapes, SendAgain, _send_now, Drop, CommandWritten, _start_keep_alive,
     WriteFails, FailedAttempt
<1>10. ASSUME WriteCleanupEnds \/ WriteDies \/ Recover \/ StopEnds PROVE StaleIsQueued'
  BY <1>10, <1>f DEF WriteCleanupEnds, CleanupEnds, _on_disconnect, FailedAttempt, Drop,
     WriteDies, Escapes, Recover, StopEnds
<1>11. ASSUME NEW s \in Sessions, ProbeCleanupEnds(s) \/ ProbeCleanupDies(s) \/
            LinkLost(s) \/ _handle_notification(s)
      PROVE  StaleIsQueued'
  BY <1>11, <1>f DEF ProbeCleanupEnds, CleanupEnds, _on_disconnect, ProbeCleanupDies,
     Escapes, LinkLost, _handle_notification
<1>12. CASE UNCHANGED vars
  BY <1>12, <1>f DEF vars, taskVars
<1>. QED  BY <1>1, <1>2, <1>3, <1>4, <1>5, <1>6, <1>7, <1>8, <1>9, <1>10, <1>11, <1>12
     DEF Next, Step, Caller, KeepAlive, Worker, Stopper

\* The invariant of the queue is inductive.
LEMMA QueueInvariant == Spec => []QueueInv
<1>1. Init => QueueInv
  <2> SUFFICES ASSUME Init PROVE QueueInv
    OBVIOUS
  <2>1. HasClient /\ WorkerHolds /\ CallOrder /\ StaleIsQueued
    BY DEF Init, HasClient, WorkerHolds, CallOrder, StaleIsQueued, Pairing
  <2>. QED  BY <2>1, TypeInit DEF QueueInv
<1>2. QueueInv /\ [Next]_vars => QueueInv'
  BY TypeStep, ClientStep, HoldsStep, OrderStep, StaleStep DEF QueueInv
<1>. QED  BY <1>1, <1>2, PTL DEF Spec

-----------------------------------------------------------------------------
(* The session.                                                            *)

\* A count of at most one leaves room for one task.
LEMMA AtMostOne ==
  ASSUME NEW P \in SUBSET Callers, NEW K \in SUBSET Sessions, NEW w, NEW t,
         ~(Cardinality(P) + Cardinality(K) + Cardinality({x \in {w, t} : x = "closing"})
           + (IF w = "closing" /\ t = "closing" THEN 1 ELSE 0) > 1)
  PROVE  /\ \A c, d \in P : c = d
         /\ \A r, s \in K : r = s
         /\ P # {} => K = {} /\ w # "closing" /\ t # "closing"
         /\ K # {} => w # "closing" /\ t # "closing"
         /\ w = "closing" => t # "closing"
<1> DEFINE C == {x \in {w, t} : x = "closing"}
<1>1. IsFiniteSet(P) /\ IsFiniteSet(K) /\ IsFiniteSet(C)
  <2>1. IsFiniteSet(Sessions)
    BY FS_Interval DEF Sessions
  <2>2. C \in SUBSET {"closing"} /\ IsFiniteSet({"closing"})
    BY FS_Singleton
  <2>. QED  BY <2>1, <2>2, FS_Subset
<1>2. Cardinality(P) \in Nat /\ Cardinality(K) \in Nat /\ Cardinality(C) \in Nat
  BY <1>1, FS_CardinalityType
<1>3. /\ P # {} => Cardinality(P) >= 1
      /\ K # {} => Cardinality(K) >= 1
      /\ C # {} => Cardinality(C) >= 1
  <2>1. \A S : IsFiniteSet(S) /\ Cardinality(S) \in Nat /\ S # {} => Cardinality(S) >= 1
    BY FS_EmptySet
  <2> HIDE DEF C
  <2>. QED  BY <1>1, <1>2, <2>1
<1>4. w = "closing" \/ t = "closing" => C # {}
  OBVIOUS
<1> HIDE DEF C
<1>5. Cardinality(P) + Cardinality(K) + Cardinality(C)
        + (IF w = "closing" /\ t = "closing" THEN 1 ELSE 0) <= 1
  BY <1>2 DEF C
<1>6. \A c, d \in P : c = d
  BY <1>1, <1>2, <1>3, <1>5, FS_Singleton
<1>7. \A r, s \in K : r = s
  BY <1>1, <1>2, <1>3, <1>5, FS_Singleton
<1>. QED  BY <1>2, <1>3, <1>4, <1>5, <1>6, <1>7

\* Solo is what a count of at most one says.
LEMMA NotBusySolo ==
  ASSUME TypeOK', ~(Busy' > 1)
  PROVE  Solo'
<1> DEFINE P == {c \in Callers : pc'[c] # "idle"}
<1>1. P \in SUBSET Callers /\ keepClosing' \in SUBSET Sessions
  BY DEF TypeOK, LinkTypes
<1>2. ~(Cardinality(P) + Cardinality(keepClosing')
        + Cardinality({x \in {worker', stopper'} : x = "closing"})
        + (IF worker' = "closing" /\ stopper' = "closing" THEN 1 ELSE 0) > 1)
  BY DEF Busy
<1> HIDE DEF P
<1>3. /\ \A c, d \in P : c = d
      /\ \A r, s \in keepClosing' : r = s
      /\ P # {} => keepClosing' = {} /\ worker' # "closing" /\ stopper' # "closing"
      /\ keepClosing' # {} => worker' # "closing" /\ stopper' # "closing"
      /\ worker' = "closing" => stopper' # "closing"
  BY <1>1, <1>2, AtMostOne
<1>. QED  BY <1>3 DEF P, Solo

\* What a step that leads to no overlap and no escaped exception starts from.
Quiet ==
  /\ QueueInv /\ SessionParts /\ Solo'
  /\ ~escaped'
  /\ running' /\ ~running => stopper = "idle"

\* The clean-up, with the client or without one, takes the key away and marks the
\* client as asked to disconnect (connection.py, _cleanup).
LEMMA CleanupKeeps ==
  ASSUME TypeOK, ClientAndKey, NEW st \in {state, "disconnecting"}, Cleanup(st)
  PROVE  ClientAndKey'
<1>1. client \in SessionOrNone /\ sessions \in SessionOrNone /\ client <= sessions
  BY DEF TypeOK, LinkTypes, RadioTypes, ClientAndKey
<1>2. CASE client = 0
  BY <1>2 DEF Cleanup, ClientAndKey
<1>3. CASE client # 0
  <2>1. client \in 1..sessions
    BY <1>1, <1>3, SessionsAreNat
  <2>2. /\ asked' = asked \cup {client} /\ key' = 0 /\ ~notify' /\ state' = st
        /\ UNCHANGED <<client, sessions, provisioned>>
    BY <1>3 DEF Cleanup
  <2>. QED  BY <1>3, <2>1, <2>2 DEF ClientAndKey
<1>. QED  BY <1>2, <1>3

\* Client, key and state change together, whatever connects, clean-ups and lost
\* links there are, as long as they do not overlap (connection.py).
LEMMA KeyStep == Quiet /\ [Step]_taskVars => ClientAndKey'
<1> SUFFICES ASSUME Quiet, [Step]_taskVars PROVE ClientAndKey'
  OBVIOUS
<1> USE DEF linkVars, callerVars, keepVars, queueVars, workVars, hearVars, radioVars
<1>f. ASSUME UNCHANGED <<linkVars, sessions, provisioned, asked>> PROVE ClientAndKey'
  BY <1>f DEF Quiet, SessionParts, ClientAndKey
<1>1. ASSUME NEW c \in Callers, connect(c) PROVE ClientAndKey'
  BY <1>1, SessionsAreNat DEF connect, Connected, start, Quiet, SessionParts, QueueInv,
     TypeOK, Solo, ClientAndKey, ConnectStage, OnTheWay, CleaningUp, LinkTypes,
     CallerTypes, RadioTypes, SessionOrNone, Pairing
<1>2. ASSUME NEW c \in Callers, NotFound(c) PROVE ClientAndKey'
  BY <1>2, SessionsAreNat DEF NotFound, Quiet, SessionParts, QueueInv, TypeOK, Solo,
     ClientAndKey, ConnectStage, OnTheWay, CleaningUp, LinkTypes, CallerTypes,
     RadioTypes, SessionOrNone, Pairing
<1>3. ASSUME NEW c \in Callers, _connect_with_retry(c) PROVE ClientAndKey'
  BY <1>3, SessionsAreNat DEF _connect_with_retry, Quiet, SessionParts, QueueInv,
     TypeOK, Solo, ClientAndKey, ConnectStage, OnTheWay, CleaningUp, LinkTypes,
     CallerTypes, RadioTypes, SessionOrNone, Pairing
<1>4. ASSUME NEW c \in Callers, RetryOrGiveUp(c) PROVE ClientAndKey'
  BY <1>4, SessionsAreNat DEF RetryOrGiveUp, Quiet, SessionParts, QueueInv, TypeOK,
     Solo, ClientAndKey, ConnectStage, OnTheWay, CleaningUp, LinkTypes, CallerTypes,
     RadioTypes, SessionOrNone, Pairing
<1>5. ASSUME NEW c \in Callers, NEW data \in PairAnswers, set_mesh_credentials(c, data)
      PROVE  ClientAndKey'
  BY <1>5, SessionsAreNat DEF set_mesh_credentials, make_session_key, Quiet,
     SessionParts, QueueInv, TypeOK, Solo, ClientAndKey, ConnectStage, OnTheWay,
     CleaningUp, LinkTypes, CallerTypes, RadioTypes, SessionOrNone, Pairing
<1>6. ASSUME NEW c \in Callers, NEW data \in PairAnswers, PairFails(c, data)
      PROVE  ClientAndKey'
  <2>1. CASE Cleanup(state)
    BY <2>1, CleanupKeeps DEF Quiet, SessionParts, QueueInv
  <2>2. CASE UNCHANGED <<linkVars, sessions, provisioned, asked>>
    BY <2>2 DEF Quiet, SessionParts, ClientAndKey
  <2>. QED  BY <1>6, <2>1, <2>2 DEF PairFails, Quiet
<1>7. ASSUME NEW c \in Callers, PairCleanupEnds(c) PROVE ClientAndKey'
  BY <1>7, SessionsAreNat DEF PairCleanupEnds, CleanupEnds, Quiet, SessionParts,
     QueueInv, TypeOK, Solo, ClientAndKey, ConnectStage, OnTheWay, CleaningUp,
     LinkTypes, CallerTypes, RadioTypes, SessionOrNone, Pairing
<1>8. ASSUME NEW c \in Callers, BecomesReady(c) PROVE ClientAndKey'
  BY <1>8, SessionsAreNat DEF BecomesReady, _start_keep_alive, Connected, start, Quiet,
     SessionParts, QueueInv, TypeOK, Solo, ClientAndKey, ConnectStage, OnTheWay,
     CleaningUp, LinkTypes, CallerTypes, RadioTypes, SessionOrNone, Pairing
<1>9. ASSUME NEW c \in Callers, NEW active \in BOOLEAN, _start_notify_safe(c, active)
      PROVE  ClientAndKey'
  BY <1>9, SessionsAreNat DEF _start_notify_safe, Connected, start, Quiet, SessionParts,
     QueueInv, TypeOK, Solo, ClientAndKey, ConnectStage, OnTheWay, CleaningUp,
     LinkTypes, CallerTypes, RadioTypes, SessionOrNone, Pairing
<1>10. ASSUME ProbeFails PROVE ClientAndKey'
  <2>1. CASE Cleanup(state)
    BY <2>1, CleanupKeeps DEF Quiet, SessionParts, QueueInv
  <2>2. CASE UNCHANGED <<linkVars, sessions, provisioned, asked>>
    BY <2>2 DEF Quiet, SessionParts, ClientAndKey
  <2>. QED  BY <1>10, <2>1, <2>2 DEF ProbeFails, Quiet
<1>11. ASSUME NEW s \in Sessions, ProbeCleanupEnds(s) PROVE ClientAndKey'
  BY <1>11, SessionsAreNat DEF ProbeCleanupEnds, CleanupEnds, _on_disconnect, Quiet,
     SessionParts, QueueInv, TypeOK, Solo, ClientAndKey, ConnectStage, OnTheWay,
     CleaningUp, LinkTypes, CallerTypes, RadioTypes, SessionOrNone, Pairing
<1>12. ASSUME WriteFails PROVE ClientAndKey'
  <2>1. CASE Cleanup(state)
    BY <2>1, CleanupKeeps DEF Quiet, SessionParts, QueueInv
  <2>2. CASE UNCHANGED <<linkVars, sessions, provisioned, asked>>
    BY <2>2 DEF Quiet, SessionParts, ClientAndKey
  <2>. QED  BY <1>12, <2>1, <2>2 DEF WriteFails, Quiet
<1>13. ASSUME WriteCleanupEnds PROVE ClientAndKey'
  BY <1>13, SessionsAreNat DEF WriteCleanupEnds, CleanupEnds, _on_disconnect,
     FailedAttempt, Drop, NoPacket, Quiet, SessionParts, QueueInv, TypeOK, Solo,
     ClientAndKey, ConnectStage, OnTheWay, CleaningUp, LinkTypes, CallerTypes,
     RadioTypes, SessionOrNone, Pairing
<1>14. ASSUME DrainAndClose PROVE ClientAndKey'
  <2>1. CASE Cleanup("disconnecting")
    BY <2>1, CleanupKeeps DEF Quiet, SessionParts, QueueInv
  <2>2. CASE UNCHANGED <<linkVars, sessions, provisioned, asked>>
    BY <2>2 DEF Quiet, SessionParts, ClientAndKey
  <2>. QED  BY <1>14, <2>1, <2>2 DEF DrainAndClose, Close, Escapes, Quiet
<1>15. ASSUME StopEnds PROVE ClientAndKey'
  BY <1>15, SessionsAreNat DEF StopEnds, CleanupEnds, Escapes, Quiet, SessionParts,
     QueueInv, TypeOK, Solo, ClientAndKey, ConnectStage, OnTheWay, CleaningUp,
     LinkTypes, CallerTypes, RadioTypes, SessionOrNone, Pairing
<1>16. ASSUME disconnect PROVE ClientAndKey'
  <2>1. CASE Cleanup("disconnecting")
    BY <2>1, CleanupKeeps DEF Quiet, SessionParts, QueueInv
  <2>2. CASE UNCHANGED <<linkVars, sessions, provisioned, asked>>
    BY <2>2 DEF Quiet, SessionParts, ClientAndKey
  <2>. QED  BY <1>16, <2>1, <2>2 DEF disconnect, Close, Escapes, Quiet
<1>17. ASSUME NEW c \in Callers, NEW data \in PairAnswers, pair(c, data)
      PROVE  ClientAndKey'
  BY <1>17, <1>f DEF pair
<1>18. ASSUME NEW c \in Callers, ConnectAborted(c) PROVE ClientAndKey'
  BY <1>18 DEF ConnectAborted, Escapes, Quiet
<1>19. ASSUME _keep_alive_loop \/ ProbeWritten \/ ProbeDies \/ Take \/ SendAgain \/
            CommandWritten \/ WriteDies
      PROVE  ClientAndKey'
  BY <1>19, <1>f DEF _keep_alive_loop, ProbeWritten, ProbeDies, Escapes, Take,
     _send_now, Drop, SendAgain, CommandWritten, _start_keep_alive, WriteDies
<1>20. ASSUME Recover \/ send_command PROVE ClientAndKey'
  BY <1>20, <1>f DEF Recover, send_command, enqueue
<1>21. ASSUME NEW s \in Sessions, ProbeCleanupDies(s) \/ LinkLost(s) \/
            _handle_notification(s)
      PROVE  ClientAndKey'
  BY <1>21, <1>f DEF ProbeCleanupDies, Escapes, LinkLost, _handle_notification
<1>22. ASSUME NEW m \in Perishable, Expire(m) PROVE ClientAndKey'
  BY <1>22, <1>f DEF Expire
<1>23. CASE UNCHANGED taskVars
  BY <1>23, <1>f DEF taskVars
<1>. QED  BY <1>1, <1>2, <1>3, <1>4, <1>5, <1>6, <1>7, <1>8, <1>9, <1>10, <1>11, <1>12,
     <1>13, <1>14, <1>15, <1>16, <1>17, <1>18, <1>19, <1>20, <1>21, <1>22, <1>23 DEF
     Step, Caller, KeepAlive, Worker, Stopper

\* A connect() finds what it has assigned itself (connect, _start_notify_safe).
LEMMA StageStep == Quiet /\ [Step]_taskVars => ConnectStage'
<1> SUFFICES ASSUME Quiet, [Step]_taskVars PROVE ConnectStage'
  OBVIOUS
<1> USE DEF linkVars, callerVars, keepVars, queueVars, workVars, hearVars, radioVars
<1>f. ASSUME UNCHANGED <<linkVars, pc, mine, provisioned, asked>> PROVE ConnectStage'
  BY <1>f DEF Quiet, SessionParts, ConnectStage
<1>1. ASSUME NEW c \in Callers, connect(c) PROVE ConnectStage'
  BY <1>1 DEF connect, Connected, start, Quiet, SessionParts, QueueInv, TypeOK, Solo,
     ClientAndKey, ConnectStage, OnTheWay, CleaningUp, LinkTypes, CallerTypes,
     RadioTypes, SessionOrNone, Pairing
<1>2. ASSUME NEW c \in Callers, NotFound(c) PROVE ConnectStage'
  BY <1>2 DEF NotFound, Quiet, SessionParts, QueueInv, TypeOK, Solo, ClientAndKey,
     ConnectStage, OnTheWay, CleaningUp, LinkTypes, CallerTypes, RadioTypes,
     SessionOrNone, Pairing
<1>3. ASSUME NEW c \in Callers, _connect_with_retry(c) PROVE ConnectStage'
  <2>1. sessions + 1 \notin asked /\ client = 0 /\ key = 0
    BY <1>3, SessionsAreNat DEF _connect_with_retry, Quiet, SessionParts, QueueInv, TypeOK,
       ClientAndKey, ConnectStage, RadioTypes
  <2>. QED  BY <1>3, <2>1 DEF _connect_with_retry, Quiet, SessionParts, QueueInv, TypeOK,
            Solo, ConnectStage, CallerTypes, Pairing
<1>4. ASSUME NEW c \in Callers, RetryOrGiveUp(c) PROVE ConnectStage'
  BY <1>4 DEF RetryOrGiveUp, Quiet, SessionParts, QueueInv, TypeOK, Solo, ClientAndKey,
     ConnectStage, OnTheWay, CleaningUp, LinkTypes, CallerTypes, RadioTypes,
     SessionOrNone, Pairing
<1>5. ASSUME NEW c \in Callers, NEW data \in PairAnswers, pair(c, data)
      PROVE  ConnectStage'
  BY <1>5 DEF pair, Quiet, SessionParts, QueueInv, TypeOK, Solo, ClientAndKey,
     ConnectStage, OnTheWay, CleaningUp, LinkTypes, CallerTypes, RadioTypes,
     SessionOrNone, Pairing
<1>6. ASSUME NEW c \in Callers, NEW data \in PairAnswers, set_mesh_credentials(c, data)
      PROVE  ConnectStage'
  BY <1>6 DEF set_mesh_credentials, make_session_key, Quiet, SessionParts, QueueInv,
     TypeOK, Solo, ClientAndKey, ConnectStage, OnTheWay, CleaningUp, LinkTypes,
     CallerTypes, RadioTypes, SessionOrNone, Pairing
<1>7. ASSUME NEW c \in Callers, NEW data \in PairAnswers, PairFails(c, data)
      PROVE  ConnectStage'
  BY <1>7 DEF PairFails, Cleanup, Quiet, SessionParts, QueueInv, TypeOK, Solo,
     ClientAndKey, ConnectStage, OnTheWay, CleaningUp, LinkTypes, CallerTypes,
     RadioTypes, SessionOrNone, Pairing
<1>8. ASSUME NEW c \in Callers, PairCleanupEnds(c) PROVE ConnectStage'
  BY <1>8 DEF PairCleanupEnds, CleanupEnds, Quiet, SessionParts, QueueInv, TypeOK, Solo,
     ClientAndKey, ConnectStage, OnTheWay, CleaningUp, LinkTypes, CallerTypes,
     RadioTypes, SessionOrNone, Pairing
<1>9. ASSUME NEW c \in Callers, BecomesReady(c) PROVE ConnectStage'
  BY <1>9 DEF BecomesReady, _start_keep_alive, Connected, start, Quiet, SessionParts,
     QueueInv, TypeOK, Solo, ClientAndKey, ConnectStage, OnTheWay, CleaningUp,
     LinkTypes, CallerTypes, RadioTypes, SessionOrNone, Pairing
<1>10. ASSUME NEW c \in Callers, ConnectAborted(c) PROVE ConnectStage'
  BY <1>10 DEF ConnectAborted, Escapes, Quiet
<1>11. ASSUME NEW c \in Callers, NEW active \in BOOLEAN, _start_notify_safe(c, active)
      PROVE  ConnectStage'
  BY <1>11 DEF _start_notify_safe, Connected, start, Quiet, SessionParts, QueueInv,
     TypeOK, Solo, ClientAndKey, ConnectStage, OnTheWay, CleaningUp, LinkTypes,
     CallerTypes, RadioTypes, SessionOrNone, Pairing
<1>12. ASSUME ProbeFails PROVE ConnectStage'
  BY <1>12 DEF ProbeFails, Cleanup, _on_disconnect, Quiet, SessionParts, QueueInv,
     TypeOK, Solo, ClientAndKey, ConnectStage, OnTheWay, CleaningUp, LinkTypes,
     CallerTypes, RadioTypes, SessionOrNone, Pairing
<1>13. ASSUME NEW s \in Sessions, ProbeCleanupEnds(s) PROVE ConnectStage'
  BY <1>13 DEF ProbeCleanupEnds, CleanupEnds, _on_disconnect, Quiet, SessionParts,
     QueueInv, TypeOK, Solo, ClientAndKey, ConnectStage, OnTheWay, CleaningUp,
     LinkTypes, CallerTypes, RadioTypes, SessionOrNone, Pairing
<1>14. ASSUME WriteFails PROVE ConnectStage'
  BY <1>14 DEF WriteFails, Cleanup, _on_disconnect, FailedAttempt, Drop, NoPacket,
     Quiet, SessionParts, QueueInv, TypeOK, Solo, ClientAndKey, ConnectStage, OnTheWay,
     CleaningUp, LinkTypes, CallerTypes, RadioTypes, SessionOrNone, Pairing
<1>15. ASSUME WriteCleanupEnds PROVE ConnectStage'
  BY <1>15 DEF WriteCleanupEnds, CleanupEnds, _on_disconnect, FailedAttempt, Drop,
     NoPacket, Quiet, SessionParts, QueueInv, TypeOK, Solo, ClientAndKey, ConnectStage,
     OnTheWay, CleaningUp, LinkTypes, CallerTypes, RadioTypes, SessionOrNone, Pairing
<1>16. ASSUME DrainAndClose PROVE ConnectStage'
  BY <1>16 DEF DrainAndClose, Close, Cleanup, Escapes, Quiet, SessionParts, QueueInv,
     TypeOK, Solo, ClientAndKey, ConnectStage, OnTheWay, CleaningUp, LinkTypes,
     CallerTypes, RadioTypes, SessionOrNone, Pairing
<1>17. ASSUME StopEnds PROVE ConnectStage'
  BY <1>17 DEF StopEnds, CleanupEnds, Escapes, Quiet, SessionParts, QueueInv, TypeOK,
     Solo, ClientAndKey, ConnectStage, OnTheWay, CleaningUp, LinkTypes, CallerTypes,
     RadioTypes, SessionOrNone, Pairing
<1>18. ASSUME disconnect PROVE ConnectStage'
  BY <1>18 DEF disconnect, Drop, NoPacket, Close, Cleanup, Escapes, Quiet, SessionParts,
     QueueInv, TypeOK, Solo, ClientAndKey, ConnectStage, OnTheWay, CleaningUp,
     LinkTypes, CallerTypes, RadioTypes, SessionOrNone, Pairing
<1>19. ASSUME _keep_alive_loop \/ ProbeWritten \/ ProbeDies \/ Take \/ SendAgain \/
            CommandWritten \/ WriteDies
      PROVE  ConnectStage'
  BY <1>19, <1>f DEF _keep_alive_loop, ProbeWritten, ProbeDies, Escapes, Take,
     _send_now, Drop, SendAgain, CommandWritten, _start_keep_alive, WriteDies
<1>20. ASSUME Recover \/ send_command PROVE ConnectStage'
  BY <1>20, <1>f DEF Recover, send_command, enqueue
<1>21. ASSUME NEW s \in Sessions, ProbeCleanupDies(s) \/ LinkLost(s) \/
            _handle_notification(s)
      PROVE  ConnectStage'
  BY <1>21, <1>f DEF ProbeCleanupDies, Escapes, LinkLost, _handle_notification
<1>22. ASSUME NEW m \in Perishable, Expire(m) PROVE ConnectStage'
  BY <1>22, <1>f DEF Expire
<1>23. CASE UNCHANGED taskVars
  BY <1>23, <1>f DEF taskVars
<1>. QED  BY <1>1, <1>2, <1>3, <1>4, <1>5, <1>6, <1>7, <1>8, <1>9, <1>10, <1>11, <1>12,
     <1>13, <1>14, <1>15, <1>16, <1>17, <1>18, <1>19, <1>20, <1>21, <1>22, <1>23 DEF
     Step, Caller, KeepAlive, Worker, Stopper

\* No state on the way is left behind: the task that set it is still there.
LEMMA WayStep == Quiet /\ [Step]_taskVars => OnTheWay'
<1> SUFFICES ASSUME Quiet, [Step]_taskVars PROVE OnTheWay'
  OBVIOUS
<1> USE DEF linkVars, callerVars, keepVars, queueVars, workVars, hearVars, radioVars
<1>f. ASSUME UNCHANGED <<state, pc, stopper>> PROVE OnTheWay'
  BY <1>f DEF Quiet, SessionParts, OnTheWay
<1>1. ASSUME NEW c \in Callers, connect(c) PROVE OnTheWay'
  BY <1>1 DEF connect, Connected, start, Quiet, SessionParts, QueueInv, TypeOK, Solo,
     ClientAndKey, ConnectStage, OnTheWay, CleaningUp, LinkTypes, CallerTypes,
     RadioTypes, SessionOrNone, Pairing
<1>2. ASSUME NEW c \in Callers, NotFound(c) PROVE OnTheWay'
  BY <1>2 DEF NotFound, Quiet, SessionParts, QueueInv, TypeOK, Solo, ClientAndKey,
     ConnectStage, OnTheWay, CleaningUp, LinkTypes, CallerTypes, RadioTypes,
     SessionOrNone, Pairing
<1>3. ASSUME NEW c \in Callers, _connect_with_retry(c) PROVE OnTheWay'
  BY <1>3 DEF _connect_with_retry, Quiet, SessionParts, QueueInv, TypeOK, Solo,
     ClientAndKey, ConnectStage, OnTheWay, CleaningUp, LinkTypes, CallerTypes,
     RadioTypes, SessionOrNone, Pairing
<1>4. ASSUME NEW c \in Callers, RetryOrGiveUp(c) PROVE OnTheWay'
  BY <1>4 DEF RetryOrGiveUp, Quiet, SessionParts, QueueInv, TypeOK, Solo, ClientAndKey,
     ConnectStage, OnTheWay, CleaningUp, LinkTypes, CallerTypes, RadioTypes,
     SessionOrNone, Pairing
<1>5. ASSUME NEW c \in Callers, NEW data \in PairAnswers, pair(c, data) PROVE OnTheWay'
  BY <1>5 DEF pair, Quiet, SessionParts, QueueInv, TypeOK, Solo, ClientAndKey,
     ConnectStage, OnTheWay, CleaningUp, LinkTypes, CallerTypes, RadioTypes,
     SessionOrNone, Pairing
<1>6. ASSUME NEW c \in Callers, NEW data \in PairAnswers, set_mesh_credentials(c, data)
      PROVE  OnTheWay'
  BY <1>6 DEF set_mesh_credentials, make_session_key, Quiet, SessionParts, QueueInv,
     TypeOK, Solo, ClientAndKey, ConnectStage, OnTheWay, CleaningUp, LinkTypes,
     CallerTypes, RadioTypes, SessionOrNone, Pairing
<1>7. ASSUME NEW c \in Callers, NEW data \in PairAnswers, PairFails(c, data)
      PROVE  OnTheWay'
  BY <1>7 DEF PairFails, Cleanup, Quiet, SessionParts, QueueInv, TypeOK, Solo,
     ClientAndKey, ConnectStage, OnTheWay, CleaningUp, LinkTypes, CallerTypes,
     RadioTypes, SessionOrNone, Pairing
<1>8. ASSUME NEW c \in Callers, PairCleanupEnds(c) PROVE OnTheWay'
  BY <1>8 DEF PairCleanupEnds, CleanupEnds, Quiet, SessionParts, QueueInv, TypeOK, Solo,
     ClientAndKey, ConnectStage, OnTheWay, CleaningUp, LinkTypes, CallerTypes,
     RadioTypes, SessionOrNone, Pairing
<1>9. ASSUME NEW c \in Callers, BecomesReady(c) PROVE OnTheWay'
  BY <1>9 DEF BecomesReady, _start_keep_alive, Connected, start, Quiet, SessionParts,
     QueueInv, TypeOK, Solo, ClientAndKey, ConnectStage, OnTheWay, CleaningUp,
     LinkTypes, CallerTypes, RadioTypes, SessionOrNone, Pairing
<1>10. ASSUME NEW c \in Callers, ConnectAborted(c) PROVE OnTheWay'
  BY <1>10 DEF ConnectAborted, Escapes, Quiet
<1>11. ASSUME NEW c \in Callers, NEW active \in BOOLEAN, _start_notify_safe(c, active)
      PROVE  OnTheWay'
  BY <1>11 DEF _start_notify_safe, Connected, start, Quiet, SessionParts, QueueInv,
     TypeOK, Solo, ClientAndKey, ConnectStage, OnTheWay, CleaningUp, LinkTypes,
     CallerTypes, RadioTypes, SessionOrNone, Pairing
<1>12. ASSUME ProbeFails PROVE OnTheWay'
  BY <1>12 DEF ProbeFails, Cleanup, _on_disconnect, Quiet, SessionParts, QueueInv,
     TypeOK, Solo, ClientAndKey, ConnectStage, OnTheWay, CleaningUp, LinkTypes,
     CallerTypes, RadioTypes, SessionOrNone, Pairing
<1>13. ASSUME NEW s \in Sessions, ProbeCleanupEnds(s) PROVE OnTheWay'
  BY <1>13 DEF ProbeCleanupEnds, CleanupEnds, _on_disconnect, Quiet, SessionParts,
     QueueInv, TypeOK, Solo, ClientAndKey, ConnectStage, OnTheWay, CleaningUp,
     LinkTypes, CallerTypes, RadioTypes, SessionOrNone, Pairing
<1>14. ASSUME WriteFails PROVE OnTheWay'
  BY <1>14 DEF WriteFails, Cleanup, _on_disconnect, FailedAttempt, Drop, NoPacket,
     Quiet, SessionParts, QueueInv, TypeOK, Solo, ClientAndKey, ConnectStage, OnTheWay,
     CleaningUp, LinkTypes, CallerTypes, RadioTypes, SessionOrNone, Pairing
<1>15. ASSUME WriteCleanupEnds PROVE OnTheWay'
  BY <1>15 DEF WriteCleanupEnds, CleanupEnds, _on_disconnect, FailedAttempt, Drop,
     NoPacket, Quiet, SessionParts, QueueInv, TypeOK, Solo, ClientAndKey, ConnectStage,
     OnTheWay, CleaningUp, LinkTypes, CallerTypes, RadioTypes, SessionOrNone, Pairing
<1>16. ASSUME DrainAndClose PROVE OnTheWay'
  BY <1>16 DEF DrainAndClose, Close, Cleanup, Escapes, Quiet, SessionParts, QueueInv,
     TypeOK, Solo, ClientAndKey, ConnectStage, OnTheWay, CleaningUp, LinkTypes,
     CallerTypes, RadioTypes, SessionOrNone, Pairing
<1>17. ASSUME StopEnds PROVE OnTheWay'
  BY <1>17 DEF StopEnds, CleanupEnds, Escapes, Quiet, SessionParts, QueueInv, TypeOK,
     Solo, ClientAndKey, ConnectStage, OnTheWay, CleaningUp, LinkTypes, CallerTypes,
     RadioTypes, SessionOrNone, Pairing
<1>18. ASSUME disconnect PROVE OnTheWay'
  BY <1>18 DEF disconnect, Drop, NoPacket, Close, Cleanup, Escapes, Quiet, SessionParts,
     QueueInv, TypeOK, Solo, ClientAndKey, ConnectStage, OnTheWay, CleaningUp,
     LinkTypes, CallerTypes, RadioTypes, SessionOrNone, Pairing
<1>19. ASSUME _keep_alive_loop \/ ProbeWritten \/ ProbeDies \/ Take \/ SendAgain \/
            CommandWritten \/ WriteDies
      PROVE  OnTheWay'
  BY <1>19, <1>f DEF _keep_alive_loop, ProbeWritten, ProbeDies, Escapes, Take,
     _send_now, Drop, SendAgain, CommandWritten, _start_keep_alive, WriteDies
<1>20. ASSUME Recover \/ send_command PROVE OnTheWay'
  BY <1>20, <1>f DEF Recover, send_command, enqueue
<1>21. ASSUME NEW s \in Sessions, ProbeCleanupDies(s) \/ LinkLost(s) \/
            _handle_notification(s)
      PROVE  OnTheWay'
  BY <1>21, <1>f DEF ProbeCleanupDies, Escapes, LinkLost, _handle_notification
<1>22. ASSUME NEW m \in Perishable, Expire(m) PROVE OnTheWay'
  BY <1>22, <1>f DEF Expire
<1>23. CASE UNCHANGED taskVars
  BY <1>23, <1>f DEF taskVars
<1>. QED  BY <1>1, <1>2, <1>3, <1>4, <1>5, <1>6, <1>7, <1>8, <1>9, <1>10, <1>11, <1>12,
     <1>13, <1>14, <1>15, <1>16, <1>17, <1>18, <1>19, <1>20, <1>21, <1>22, <1>23 DEF
     Step, Caller, KeepAlive, Worker, Stopper

\* A clean-up under way keeps its client, and no probe is written without a key
\* (_handle_disconnect, _keep_alive_loop).
LEMMA CleaningStep == Quiet /\ [Step]_taskVars => CleaningUp'
<1> SUFFICES ASSUME Quiet, [Step]_taskVars PROVE CleaningUp'
  OBVIOUS
<1> USE DEF linkVars, callerVars, keepVars, queueVars, workVars, hearVars, radioVars
<1>1. ASSUME NEW c \in Callers, connect(c) PROVE CleaningUp'
  BY <1>1 DEF connect, Connected, start, Quiet, SessionParts, QueueInv, TypeOK, Solo,
     ClientAndKey, ConnectStage, OnTheWay, CleaningUp, LinkTypes, CallerTypes,
     RadioTypes, SessionOrNone, Pairing
<1>2. ASSUME NEW c \in Callers, NotFound(c) PROVE CleaningUp'
  BY <1>2 DEF NotFound, Quiet, SessionParts, QueueInv, TypeOK, Solo, ClientAndKey,
     ConnectStage, OnTheWay, CleaningUp, LinkTypes, CallerTypes, RadioTypes,
     SessionOrNone, Pairing
<1>3. ASSUME NEW c \in Callers, _connect_with_retry(c) PROVE CleaningUp'
  BY <1>3 DEF _connect_with_retry, Quiet, SessionParts, QueueInv, TypeOK, Solo,
     ClientAndKey, ConnectStage, OnTheWay, CleaningUp, LinkTypes, CallerTypes,
     RadioTypes, SessionOrNone, Pairing
<1>4. ASSUME NEW c \in Callers, RetryOrGiveUp(c) PROVE CleaningUp'
  BY <1>4 DEF RetryOrGiveUp, Quiet, SessionParts, QueueInv, TypeOK, Solo, ClientAndKey,
     ConnectStage, OnTheWay, CleaningUp, LinkTypes, CallerTypes, RadioTypes,
     SessionOrNone, Pairing
<1>5. ASSUME NEW c \in Callers, NEW data \in PairAnswers, set_mesh_credentials(c, data)
      PROVE  CleaningUp'
  BY <1>5 DEF set_mesh_credentials, make_session_key, Quiet, SessionParts, QueueInv,
     TypeOK, Solo, ClientAndKey, ConnectStage, OnTheWay, CleaningUp, LinkTypes,
     CallerTypes, RadioTypes, SessionOrNone, Pairing
<1>6. ASSUME NEW c \in Callers, NEW data \in PairAnswers, PairFails(c, data)
      PROVE  CleaningUp'
  BY <1>6 DEF PairFails, Cleanup, Quiet, SessionParts, QueueInv, TypeOK, Solo,
     ClientAndKey, ConnectStage, OnTheWay, CleaningUp, LinkTypes, CallerTypes,
     RadioTypes, SessionOrNone, Pairing
<1>7. ASSUME NEW c \in Callers, PairCleanupEnds(c) PROVE CleaningUp'
  BY <1>7 DEF PairCleanupEnds, CleanupEnds, Quiet, SessionParts, QueueInv, TypeOK, Solo,
     ClientAndKey, ConnectStage, OnTheWay, CleaningUp, LinkTypes, CallerTypes,
     RadioTypes, SessionOrNone, Pairing
<1>8. ASSUME NEW c \in Callers, BecomesReady(c) PROVE CleaningUp'
  BY <1>8 DEF BecomesReady, _start_keep_alive, Connected, start, Quiet, SessionParts,
     QueueInv, TypeOK, Solo, ClientAndKey, ConnectStage, OnTheWay, CleaningUp,
     LinkTypes, CallerTypes, RadioTypes, SessionOrNone, Pairing
<1>9. ASSUME NEW c \in Callers, NEW active \in BOOLEAN, _start_notify_safe(c, active)
      PROVE  CleaningUp'
  BY <1>9 DEF _start_notify_safe, Connected, start, Quiet, SessionParts, QueueInv,
     TypeOK, Solo, ClientAndKey, ConnectStage, OnTheWay, CleaningUp, LinkTypes,
     CallerTypes, RadioTypes, SessionOrNone, Pairing
<1>10. ASSUME _keep_alive_loop PROVE CleaningUp'
  BY <1>10 DEF _keep_alive_loop, Quiet, SessionParts, QueueInv, TypeOK, Solo,
     ClientAndKey, ConnectStage, OnTheWay, CleaningUp, LinkTypes, CallerTypes,
     RadioTypes, SessionOrNone, Pairing
<1>11. ASSUME ProbeWritten PROVE CleaningUp'
  BY <1>11 DEF ProbeWritten, Quiet, SessionParts, QueueInv, TypeOK, Solo, ClientAndKey,
     ConnectStage, OnTheWay, CleaningUp, LinkTypes, CallerTypes, RadioTypes,
     SessionOrNone, Pairing
<1>12. ASSUME ProbeFails PROVE CleaningUp'
  BY <1>12 DEF ProbeFails, Cleanup, _on_disconnect, Quiet, SessionParts, QueueInv,
     TypeOK, Solo, ClientAndKey, ConnectStage, OnTheWay, CleaningUp, LinkTypes,
     CallerTypes, RadioTypes, SessionOrNone, Pairing
<1>13. ASSUME ProbeDies PROVE CleaningUp'
  BY <1>13 DEF ProbeDies, Escapes, Quiet
<1>14. ASSUME NEW s \in Sessions, ProbeCleanupEnds(s) PROVE CleaningUp'
  BY <1>14 DEF ProbeCleanupEnds, CleanupEnds, _on_disconnect, Quiet, SessionParts,
     QueueInv, TypeOK, Solo, ClientAndKey, ConnectStage, OnTheWay, CleaningUp,
     LinkTypes, CallerTypes, RadioTypes, SessionOrNone, Pairing
<1>15. ASSUME NEW s \in Sessions, ProbeCleanupDies(s) PROVE CleaningUp'
  BY <1>15 DEF ProbeCleanupDies, Escapes, Quiet
<1>16. ASSUME Take PROVE CleaningUp'
  BY <1>16 DEF Take, _send_now, Drop, NoPacket, encode_command_packet, crypt_payload,
     is_connected, Quiet, SessionParts, QueueInv, TypeOK, Solo, ClientAndKey,
     ConnectStage, OnTheWay, CleaningUp, LinkTypes, CallerTypes, RadioTypes,
     SessionOrNone, Pairing
<1>17. ASSUME SendAgain PROVE CleaningUp'
  BY <1>17 DEF SendAgain, _send_now, Drop, NoPacket, encode_command_packet,
     crypt_payload, is_connected, Quiet, SessionParts, QueueInv, TypeOK, Solo,
     ClientAndKey, ConnectStage, OnTheWay, CleaningUp, LinkTypes, CallerTypes,
     RadioTypes, SessionOrNone, Pairing
<1>18. ASSUME CommandWritten PROVE CleaningUp'
  BY <1>18 DEF CommandWritten, _start_keep_alive, Drop, NoPacket, Escapes, Quiet,
     SessionParts, QueueInv, TypeOK, Solo, ClientAndKey, ConnectStage, OnTheWay,
     CleaningUp, LinkTypes, CallerTypes, RadioTypes, SessionOrNone, Pairing
<1>19. ASSUME WriteFails PROVE CleaningUp'
  BY <1>19 DEF WriteFails, Cleanup, _on_disconnect, FailedAttempt, Drop, NoPacket,
     Quiet, SessionParts, QueueInv, TypeOK, Solo, ClientAndKey, ConnectStage, OnTheWay,
     CleaningUp, LinkTypes, CallerTypes, RadioTypes, SessionOrNone, Pairing
<1>20. ASSUME WriteCleanupEnds PROVE CleaningUp'
  BY <1>20 DEF WriteCleanupEnds, CleanupEnds, _on_disconnect, FailedAttempt, Drop,
     NoPacket, Quiet, SessionParts, QueueInv, TypeOK, Solo, ClientAndKey, ConnectStage,
     OnTheWay, CleaningUp, LinkTypes, CallerTypes, RadioTypes, SessionOrNone, Pairing
<1>21. ASSUME WriteDies PROVE CleaningUp'
  BY <1>21 DEF WriteDies, Escapes, Quiet
<1>22. ASSUME Recover PROVE CleaningUp'
  BY <1>22 DEF Recover, Quiet, SessionParts, QueueInv, TypeOK, Solo, ClientAndKey,
     ConnectStage, OnTheWay, CleaningUp, LinkTypes, CallerTypes, RadioTypes,
     SessionOrNone, Pairing
<1>23. ASSUME DrainAndClose PROVE CleaningUp'
  BY <1>23 DEF DrainAndClose, Close, Cleanup, Escapes, Quiet, SessionParts, QueueInv,
     TypeOK, Solo, ClientAndKey, ConnectStage, OnTheWay, CleaningUp, LinkTypes,
     CallerTypes, RadioTypes, SessionOrNone, Pairing
<1>24. ASSUME StopEnds PROVE CleaningUp'
  BY <1>24 DEF StopEnds, CleanupEnds, Escapes, Quiet, SessionParts, QueueInv, TypeOK,
     Solo, ClientAndKey, ConnectStage, OnTheWay, CleaningUp, LinkTypes, CallerTypes,
     RadioTypes, SessionOrNone, Pairing
<1>25. ASSUME disconnect PROVE CleaningUp'
  BY <1>25 DEF disconnect, Drop, NoPacket, Close, Cleanup, Escapes, Quiet, SessionParts,
     QueueInv, TypeOK, Solo, ClientAndKey, ConnectStage, OnTheWay, CleaningUp,
     LinkTypes, CallerTypes, RadioTypes, SessionOrNone, Pairing
<1>26. ASSUME NEW c \in Callers, NEW data \in PairAnswers, pair(c, data)
      PROVE  CleaningUp'
  BY <1>26 DEF pair, Quiet, SessionParts, QueueInv, TypeOK, Solo, ClientAndKey,
     ConnectStage, OnTheWay, CleaningUp, LinkTypes, CallerTypes, RadioTypes,
     SessionOrNone, Pairing
<1>27. ASSUME NEW c \in Callers, ConnectAborted(c) PROVE CleaningUp'
  BY <1>27 DEF ConnectAborted, Escapes, Quiet
<1>28. ASSUME send_command PROVE CleaningUp'
  BY <1>28 DEF send_command, enqueue, Quiet, SessionParts, QueueInv, TypeOK, Solo,
     ClientAndKey, ConnectStage, OnTheWay, CleaningUp, LinkTypes, CallerTypes,
     RadioTypes, SessionOrNone, Pairing
<1>29. ASSUME NEW m \in Perishable, Expire(m) PROVE CleaningUp'
  BY <1>29 DEF Expire, Quiet, SessionParts, QueueInv, TypeOK, Solo, ClientAndKey,
     ConnectStage, OnTheWay, CleaningUp, LinkTypes, CallerTypes, RadioTypes,
     SessionOrNone, Pairing
<1>30. ASSUME NEW s \in Sessions, LinkLost(s) \/ _handle_notification(s)
      PROVE  CleaningUp'
  BY <1>30 DEF LinkLost, _handle_notification, Quiet, SessionParts, QueueInv, TypeOK,
     Solo, ClientAndKey, ConnectStage, OnTheWay, CleaningUp, LinkTypes, CallerTypes,
     RadioTypes, SessionOrNone, Pairing
<1>31. CASE UNCHANGED taskVars
  BY <1>31 DEF taskVars, Quiet, SessionParts, QueueInv, TypeOK, Solo, ClientAndKey,
     ConnectStage, OnTheWay, CleaningUp, LinkTypes, CallerTypes, RadioTypes,
     SessionOrNone, Pairing
<1>. QED  BY <1>1, <1>2, <1>3, <1>4, <1>5, <1>6, <1>7, <1>8, <1>9, <1>10, <1>11, <1>12,
     <1>13, <1>14, <1>15, <1>16, <1>17, <1>18, <1>19, <1>20, <1>21, <1>22, <1>23, <1>24,
     <1>25, <1>26, <1>27, <1>28, <1>29, <1>30, <1>31 DEF Step, Caller, KeepAlive,
     Worker, Stopper

\* Whoever ends the connection of a running dispatcher clears its event
\* (_on_disconnect, MeshDevice.disconnect).
LEMMA EventStep == Quiet /\ [Step]_taskVars => EventTrue'
<1> SUFFICES ASSUME Quiet, [Step]_taskVars PROVE EventTrue'
  OBVIOUS
<1> USE DEF linkVars, callerVars, keepVars, queueVars, workVars, hearVars, radioVars
<1>f. ASSUME UNCHANGED <<state, running, event, stopper>> PROVE EventTrue'
  BY <1>f DEF Quiet, SessionParts, EventTrue
<1>1. ASSUME NEW c \in Callers, connect(c) PROVE EventTrue'
  BY <1>1 DEF connect, Connected, start, Quiet, SessionParts, QueueInv, TypeOK,
     WorkerHolds, Solo, ClientAndKey, ConnectStage, OnTheWay, CleaningUp, EventTrue,
     LinkTypes, CallerTypes, WorkerTypes, Pairing
<1>2. ASSUME NEW c \in Callers, NotFound(c) PROVE EventTrue'
  BY <1>2 DEF NotFound, Quiet, SessionParts, QueueInv, TypeOK, WorkerHolds, Solo,
     ClientAndKey, ConnectStage, OnTheWay, CleaningUp, EventTrue, LinkTypes,
     CallerTypes, WorkerTypes, Pairing
<1>3. ASSUME NEW c \in Callers, _connect_with_retry(c) PROVE EventTrue'
  BY <1>3 DEF _connect_with_retry, Quiet, SessionParts, QueueInv, TypeOK, WorkerHolds,
     Solo, ClientAndKey, ConnectStage, OnTheWay, CleaningUp, EventTrue, LinkTypes,
     CallerTypes, WorkerTypes, Pairing
<1>4. ASSUME NEW c \in Callers, RetryOrGiveUp(c) PROVE EventTrue'
  BY <1>4 DEF RetryOrGiveUp, Quiet, SessionParts, QueueInv, TypeOK, WorkerHolds, Solo,
     ClientAndKey, ConnectStage, OnTheWay, CleaningUp, EventTrue, LinkTypes,
     CallerTypes, WorkerTypes, Pairing
<1>5. ASSUME NEW c \in Callers, NEW data \in PairAnswers, set_mesh_credentials(c, data)
      PROVE  EventTrue'
  BY <1>5 DEF set_mesh_credentials, make_session_key, Quiet, SessionParts, QueueInv,
     TypeOK, WorkerHolds, Solo, ClientAndKey, ConnectStage, OnTheWay, CleaningUp,
     EventTrue, LinkTypes, CallerTypes, WorkerTypes, Pairing
<1>6. ASSUME NEW c \in Callers, NEW data \in PairAnswers, PairFails(c, data)
      PROVE  EventTrue'
  BY <1>6 DEF PairFails, Cleanup, Quiet, SessionParts, QueueInv, TypeOK, WorkerHolds,
     Solo, ClientAndKey, ConnectStage, OnTheWay, CleaningUp, EventTrue, LinkTypes,
     CallerTypes, WorkerTypes, Pairing
<1>7. ASSUME NEW c \in Callers, PairCleanupEnds(c) PROVE EventTrue'
  BY <1>7 DEF PairCleanupEnds, CleanupEnds, Quiet, SessionParts, QueueInv, TypeOK,
     WorkerHolds, Solo, ClientAndKey, ConnectStage, OnTheWay, CleaningUp, EventTrue,
     LinkTypes, CallerTypes, WorkerTypes, Pairing
<1>8. ASSUME NEW c \in Callers, BecomesReady(c) PROVE EventTrue'
  BY <1>8 DEF BecomesReady, _start_keep_alive, Connected, start, Quiet, SessionParts,
     QueueInv, TypeOK, WorkerHolds, Solo, ClientAndKey, ConnectStage, OnTheWay,
     CleaningUp, EventTrue, LinkTypes, CallerTypes, WorkerTypes, Pairing
<1>9. ASSUME NEW c \in Callers, NEW active \in BOOLEAN, _start_notify_safe(c, active)
      PROVE  EventTrue'
  BY <1>9 DEF _start_notify_safe, Connected, start, Quiet, SessionParts, QueueInv,
     TypeOK, WorkerHolds, Solo, ClientAndKey, ConnectStage, OnTheWay, CleaningUp,
     EventTrue, LinkTypes, CallerTypes, WorkerTypes, Pairing
<1>10. ASSUME ProbeFails PROVE EventTrue'
  BY <1>10 DEF ProbeFails, Cleanup, _on_disconnect, Quiet, SessionParts, QueueInv,
     TypeOK, WorkerHolds, Solo, ClientAndKey, ConnectStage, OnTheWay, CleaningUp,
     EventTrue, LinkTypes, CallerTypes, WorkerTypes, Pairing
<1>11. ASSUME NEW s \in Sessions, ProbeCleanupEnds(s) PROVE EventTrue'
  BY <1>11 DEF ProbeCleanupEnds, CleanupEnds, _on_disconnect, Quiet, SessionParts,
     QueueInv, TypeOK, WorkerHolds, Solo, ClientAndKey, ConnectStage, OnTheWay,
     CleaningUp, EventTrue, LinkTypes, CallerTypes, WorkerTypes, Pairing
<1>12. ASSUME Take PROVE EventTrue'
  BY <1>12 DEF Take, _send_now, Drop, NoPacket, encode_command_packet, crypt_payload,
     is_connected, Quiet, SessionParts, QueueInv, TypeOK, WorkerHolds, Solo,
     ClientAndKey, ConnectStage, OnTheWay, CleaningUp, EventTrue, LinkTypes,
     CallerTypes, WorkerTypes, Pairing
<1>13. ASSUME SendAgain PROVE EventTrue'
  BY <1>13 DEF SendAgain, _send_now, Drop, NoPacket, encode_command_packet,
     crypt_payload, is_connected, Quiet, SessionParts, QueueInv, TypeOK, WorkerHolds,
     Solo, ClientAndKey, ConnectStage, OnTheWay, CleaningUp, EventTrue, LinkTypes,
     CallerTypes, WorkerTypes, Pairing
<1>14. ASSUME CommandWritten PROVE EventTrue'
  BY <1>14 DEF CommandWritten, _start_keep_alive, Drop, NoPacket, Escapes, Quiet,
     SessionParts, QueueInv, TypeOK, WorkerHolds, Solo, ClientAndKey, ConnectStage,
     OnTheWay, CleaningUp, EventTrue, LinkTypes, CallerTypes, WorkerTypes, Pairing
<1>15. ASSUME WriteFails PROVE EventTrue'
  BY <1>15 DEF WriteFails, Cleanup, _on_disconnect, FailedAttempt, Drop, NoPacket,
     Quiet, SessionParts, QueueInv, TypeOK, WorkerHolds, Solo, ClientAndKey,
     ConnectStage, OnTheWay, CleaningUp, EventTrue, LinkTypes, CallerTypes, WorkerTypes,
     Pairing
<1>16. ASSUME WriteCleanupEnds PROVE EventTrue'
  BY <1>16 DEF WriteCleanupEnds, CleanupEnds, _on_disconnect, FailedAttempt, Drop,
     NoPacket, Quiet, SessionParts, QueueInv, TypeOK, WorkerHolds, Solo, ClientAndKey,
     ConnectStage, OnTheWay, CleaningUp, EventTrue, LinkTypes, CallerTypes, WorkerTypes,
     Pairing
<1>17. ASSUME WriteDies PROVE EventTrue'
  BY <1>17 DEF WriteDies, Escapes, Quiet
<1>18. ASSUME Recover PROVE EventTrue'
  BY <1>18 DEF Recover, Quiet, SessionParts, QueueInv, TypeOK, WorkerHolds, Solo,
     ClientAndKey, ConnectStage, OnTheWay, CleaningUp, EventTrue, LinkTypes,
     CallerTypes, WorkerTypes, Pairing
<1>19. ASSUME DrainAndClose PROVE EventTrue'
  BY <1>19 DEF DrainAndClose, Close, Cleanup, Escapes, Quiet, SessionParts, QueueInv,
     TypeOK, WorkerHolds, Solo, ClientAndKey, ConnectStage, OnTheWay, CleaningUp,
     EventTrue, LinkTypes, CallerTypes, WorkerTypes, Pairing
<1>20. ASSUME StopEnds PROVE EventTrue'
  BY <1>20 DEF StopEnds, CleanupEnds, Escapes, Quiet, SessionParts, QueueInv, TypeOK,
     WorkerHolds, Solo, ClientAndKey, ConnectStage, OnTheWay, CleaningUp, EventTrue,
     LinkTypes, CallerTypes, WorkerTypes, Pairing
<1>21. ASSUME disconnect PROVE EventTrue'
  BY <1>21 DEF disconnect, Drop, NoPacket, Close, Cleanup, Escapes, Quiet, SessionParts,
     QueueInv, TypeOK, WorkerHolds, Solo, ClientAndKey, ConnectStage, OnTheWay,
     CleaningUp, EventTrue, LinkTypes, CallerTypes, WorkerTypes, Pairing
<1>22. ASSUME NEW c \in Callers, NEW data \in PairAnswers, pair(c, data)
      PROVE  EventTrue'
  BY <1>22, <1>f DEF pair
<1>23. ASSUME NEW c \in Callers, ConnectAborted(c) PROVE EventTrue'
  BY <1>23 DEF ConnectAborted, Escapes, Quiet
<1>24. ASSUME _keep_alive_loop \/ ProbeWritten \/ ProbeDies \/ send_command
      PROVE  EventTrue'
  BY <1>24, <1>f DEF _keep_alive_loop, ProbeWritten, ProbeDies, Escapes, send_command,
     enqueue
<1>25. ASSUME NEW s \in Sessions, ProbeCleanupDies(s) \/ LinkLost(s) \/
            _handle_notification(s)
      PROVE  EventTrue'
  BY <1>25, <1>f DEF ProbeCleanupDies, Escapes, LinkLost, _handle_notification
<1>26. ASSUME NEW m \in Perishable, Expire(m) PROVE EventTrue'
  BY <1>26, <1>f DEF Expire
<1>27. CASE UNCHANGED taskVars
  BY <1>27, <1>f DEF taskVars
<1>. QED  BY <1>1, <1>2, <1>3, <1>4, <1>5, <1>6, <1>7, <1>8, <1>9, <1>10, <1>11, <1>12,
     <1>13, <1>14, <1>15, <1>16, <1>17, <1>18, <1>19, <1>20, <1>21, <1>22, <1>23, <1>24,
     <1>25, <1>26, <1>27 DEF Step, Caller, KeepAlive, Worker, Stopper

\* A clean-up ends the subscription of the client it disconnects.
LEMMA CleanupSeals ==
  ASSUME Sealed, NEW st, Cleanup(st),
         \A i \in DOMAIN written' : written'[i].key = written'[i].session,
         worker' = "writing" => packet'.key = workOn'
  PROVE  Sealed'
<1>1. /\ subscribed' \subseteq subscribed \ {client} /\ client' = client
      /\ asked' \subseteq asked \cup {client} /\ UNCHANGED <<sessions, dropped>>
  BY DEF Cleanup
<1>. QED  BY <1>1 DEF Sealed

\* Packets are sealed with the key of the client they are written to, and every
\* status of the connection in use can be opened (device.py, connection.py).
LEMMA SealedStep == Quiet /\ [Step]_taskVars => Sealed'
<1> SUFFICES ASSUME Quiet, [Step]_taskVars PROVE Sealed'
  OBVIOUS
<1> USE DEF linkVars, callerVars, keepVars, queueVars, workVars, hearVars, radioVars
<1>f. ASSUME UNCHANGED <<linkVars, sessions, asked, hearVars, workVars, written>> PROVE Sealed'
  BY <1>f DEF Quiet, SessionParts, Sealed
<1>1. ASSUME NEW c \in Callers, connect(c) PROVE Sealed'
  BY <1>1 DEF connect, Connected, start, Quiet, SessionParts, QueueInv, TypeOK, Solo,
     ClientAndKey, ConnectStage, CleaningUp, Sealed, LinkTypes, CallerTypes, RadioTypes,
     SessionOrNone, Pairing
<1>2. ASSUME NEW c \in Callers, NotFound(c) PROVE Sealed'
  BY <1>2 DEF NotFound, Quiet, SessionParts, QueueInv, TypeOK, Solo, ClientAndKey,
     ConnectStage, CleaningUp, Sealed, LinkTypes, CallerTypes, RadioTypes,
     SessionOrNone, Pairing
<1>3. ASSUME NEW c \in Callers, _connect_with_retry(c) PROVE Sealed'
  <2>1. client = 0 /\ sessions \in Nat /\ 1..sessions \subseteq 1..(sessions + 1)
    BY <1>3, SessionsAreNat DEF _connect_with_retry, Quiet, SessionParts, QueueInv, TypeOK,
       RadioTypes, ConnectStage
  <2>2. sessions + 1 \notin subscribed /\ 0 \notin subscribed
    BY <2>1 DEF Quiet, SessionParts, Sealed
  <2>. QED  BY <1>3, <2>1, <2>2 DEF _connect_with_retry, Quiet, SessionParts, Sealed
<1>4. ASSUME NEW c \in Callers, RetryOrGiveUp(c) PROVE Sealed'
  BY <1>4 DEF RetryOrGiveUp, Quiet, SessionParts, QueueInv, TypeOK, Solo, ClientAndKey,
     ConnectStage, CleaningUp, Sealed, LinkTypes, CallerTypes, RadioTypes,
     SessionOrNone, Pairing
<1>5. ASSUME NEW c \in Callers, NEW data \in PairAnswers, set_mesh_credentials(c, data)
      PROVE  Sealed'
  BY <1>5 DEF set_mesh_credentials, make_session_key, Quiet, SessionParts, QueueInv,
     TypeOK, Solo, ClientAndKey, ConnectStage, CleaningUp, Sealed, LinkTypes,
     CallerTypes, RadioTypes, SessionOrNone, Pairing
<1>6. ASSUME NEW c \in Callers, NEW data \in PairAnswers, PairFails(c, data)
      PROVE  Sealed'
  BY <1>6 DEF PairFails, Cleanup, Quiet, SessionParts, QueueInv, TypeOK, Solo,
     ClientAndKey, ConnectStage, CleaningUp, Sealed, LinkTypes, CallerTypes, RadioTypes,
     SessionOrNone, Pairing
<1>7. ASSUME NEW c \in Callers, PairCleanupEnds(c) PROVE Sealed'
  BY <1>7 DEF PairCleanupEnds, CleanupEnds, Quiet, SessionParts, QueueInv, TypeOK, Solo,
     ClientAndKey, ConnectStage, CleaningUp, Sealed, LinkTypes, CallerTypes, RadioTypes,
     SessionOrNone, Pairing
<1>8. ASSUME NEW c \in Callers, BecomesReady(c) PROVE Sealed'
  BY <1>8 DEF BecomesReady, _start_keep_alive, Connected, start, Quiet, SessionParts,
     QueueInv, TypeOK, Solo, ClientAndKey, ConnectStage, CleaningUp, Sealed, LinkTypes,
     CallerTypes, RadioTypes, SessionOrNone, Pairing
<1>9. ASSUME NEW c \in Callers, NEW active \in BOOLEAN, _start_notify_safe(c, active)
      PROVE  Sealed'
  <2>1. /\ mine[c] = client /\ client \notin asked /\ key = client
        /\ client \in 1..sessions
    BY <1>9, SessionsAreNat DEF _start_notify_safe, Quiet, SessionParts, QueueInv, TypeOK,
       LinkTypes, RadioTypes, ClientAndKey, ConnectStage, HasClient
  <2>. QED  BY <1>9, <2>1 DEF _start_notify_safe, Connected, start, Quiet, SessionParts,
            Sealed, QueueInv, WorkerHolds
<1>10. ASSUME ProbeFails PROVE Sealed'
  <2>1. UNCHANGED written /\ (worker' = "writing" => packet'.key = workOn')
    BY <1>10 DEF ProbeFails, Quiet, SessionParts, Sealed
  <2>2. CASE Cleanup(state)
    BY <2>1, <2>2, CleanupSeals DEF Quiet, SessionParts, Sealed
  <2>3. CASE UNCHANGED <<linkVars, sessions, asked, subscribed>>
    <3>1. UNCHANGED dropped
      BY <1>10 DEF ProbeFails, Cleanup
    <3>. QED  BY <2>1, <2>3, <3>1 DEF Quiet, SessionParts, Sealed
  <2>. QED  BY <1>10, <2>2, <2>3 DEF ProbeFails, Quiet
<1>11. ASSUME NEW s \in Sessions, ProbeCleanupEnds(s) PROVE Sealed'
  BY <1>11 DEF ProbeCleanupEnds, CleanupEnds, _on_disconnect, Quiet, SessionParts,
     QueueInv, TypeOK, Solo, ClientAndKey, ConnectStage, CleaningUp, Sealed, LinkTypes,
     CallerTypes, RadioTypes, SessionOrNone, Pairing
<1>12. ASSUME Take PROVE Sealed'
  <2>1. Head(queue) \in Commands
    BY <1>12, TakeHead DEF Take, Quiet, QueueInv, TypeOK, WorkerTypes
  <2>2. \/ _send_now(Head(queue), 1)
        \/ worker' \in {"getting", "waiting"}
    BY <1>12 DEF Take
  <2>3. worker' = "writing" => packet'.key = workOn'
    BY <2>1, <2>2, SendNow DEF Quiet, SessionParts, ClientAndKey, QueueInv
  <2>. QED  BY <1>12, <2>3 DEF Take, Quiet, SessionParts, Sealed
<1>13. ASSUME SendAgain PROVE Sealed'
  <2>1. held \in Commands
    BY <1>13 DEF SendAgain, Quiet, QueueInv, WorkerHolds
  <2>2. PICK n \in Tries : _send_now(held, n)
    BY <1>13, NextWithin DEF SendAgain, Quiet, QueueInv, TypeOK, WorkerTypes, WorkerHolds
  <2>3. worker' = "writing" => packet'.key = workOn'
    BY <2>1, <2>2, SendNow DEF Quiet, SessionParts, ClientAndKey, QueueInv
  <2>. QED  BY <1>13, <2>3 DEF SendAgain, Quiet, SessionParts, Sealed
<1>14. ASSUME CommandWritten PROVE Sealed'
  <2> DEFINE p == [cmd |-> packet.cmd, key |-> packet.key, session |-> workOn]
  <2>1. p.key = p.session /\ worker' # "writing"
    BY <1>14 DEF CommandWritten, Drop, Quiet, SessionParts, Sealed
  <2> HIDE DEF p
  <2>3. \A i \in DOMAIN written' : \/ i \in DOMAIN written /\ written'[i] = written[i]
                                   \/ written'[i] = p
    BY <1>14, PacketOnAir DEF CommandWritten, p, Quiet, QueueInv, TypeOK, WorkerTypes
  <2>. QED  BY <1>14, <2>1, <2>3 DEF CommandWritten, Quiet, SessionParts, Sealed
<1>15. ASSUME WriteFails PROVE Sealed'
  <2> DEFINE p == [cmd |-> packet.cmd, key |-> packet.key, session |-> workOn]
  <2>a. p.key = p.session /\ \A i \in DOMAIN written : written[i].key = written[i].session
    BY <1>15 DEF WriteFails, Quiet, SessionParts, Sealed
  <2> HIDE DEF p
  <2>b. \A i \in DOMAIN written' : \/ i \in DOMAIN written /\ written'[i] = written[i]
                                   \/ written'[i] = p
    BY <1>15, PacketOnAir DEF WriteFails, p, Quiet, QueueInv, TypeOK, WorkerTypes
  <2>1. /\ \A i \in DOMAIN written' : written'[i].key = written'[i].session
        /\ worker' # "writing"
    BY <1>15, <2>a, <2>b DEF WriteFails, FailedAttempt, Drop
  <2>2. CASE Cleanup(state)
    BY <2>1, <2>2, CleanupSeals DEF Quiet, SessionParts, Sealed
  <2>3. CASE UNCHANGED <<linkVars, sessions, asked, subscribed>>
    <3>1. UNCHANGED dropped
      BY <1>15 DEF WriteFails, FailedAttempt, Drop, Cleanup
    <3>. QED  BY <2>1, <2>3, <3>1 DEF Quiet, SessionParts, Sealed
  <2>. QED  BY <1>15, <2>2, <2>3 DEF WriteFails, FailedAttempt, Drop, Quiet
<1>16. ASSUME WriteCleanupEnds PROVE Sealed'
  BY <1>16 DEF WriteCleanupEnds, CleanupEnds, _on_disconnect, FailedAttempt, Drop,
     NoPacket, Quiet, SessionParts, QueueInv, TypeOK, Solo, ClientAndKey, ConnectStage,
     CleaningUp, Sealed, LinkTypes, CallerTypes, RadioTypes, SessionOrNone, Pairing
<1>17. ASSUME WriteDies PROVE Sealed'
  BY <1>17 DEF WriteDies, Escapes, Quiet
<1>18. ASSUME Recover PROVE Sealed'
  BY <1>18 DEF Recover, Quiet, SessionParts, QueueInv, TypeOK, Solo, ClientAndKey,
     ConnectStage, CleaningUp, Sealed, LinkTypes, CallerTypes, RadioTypes,
     SessionOrNone, Pairing
<1>19. ASSUME DrainAndClose PROVE Sealed'
  <2>1. UNCHANGED written /\ (worker' = "writing" => packet'.key = workOn')
    BY <1>19 DEF DrainAndClose, Close, Escapes, Quiet, SessionParts, Sealed
  <2>2. CASE Cleanup("disconnecting")
    BY <2>1, <2>2, CleanupSeals DEF Quiet, SessionParts, Sealed
  <2>3. CASE UNCHANGED <<linkVars, sessions, asked, subscribed>>
    <3>1. UNCHANGED dropped
      BY <1>19 DEF DrainAndClose, Close, Escapes, Cleanup
    <3>. QED  BY <2>1, <2>3, <3>1 DEF Quiet, SessionParts, Sealed
  <2>. QED  BY <1>19, <2>2, <2>3 DEF DrainAndClose, Close, Escapes, Quiet
<1>20. ASSUME StopEnds PROVE Sealed'
  BY <1>20 DEF StopEnds, CleanupEnds, Escapes, Quiet, SessionParts, QueueInv, TypeOK,
     Solo, ClientAndKey, ConnectStage, CleaningUp, Sealed, LinkTypes, CallerTypes,
     RadioTypes, SessionOrNone, Pairing
<1>21. ASSUME disconnect PROVE Sealed'
  <2>1. UNCHANGED written /\ (worker' = "writing" => packet'.key = workOn')
    BY <1>21 DEF disconnect, Close, Drop, Escapes, Quiet, SessionParts, Sealed
  <2>2. CASE Cleanup("disconnecting")
    BY <2>1, <2>2, CleanupSeals DEF Quiet, SessionParts, Sealed
  <2>3. CASE UNCHANGED <<linkVars, sessions, asked, subscribed>>
    <3>1. UNCHANGED dropped
      BY <1>21 DEF disconnect, Close, Drop, Escapes, Cleanup
    <3>. QED  BY <2>1, <2>3, <3>1 DEF Quiet, SessionParts, Sealed
  <2>. QED  BY <1>21, <2>2, <2>3 DEF disconnect, Close, Drop, Escapes, Quiet
<1>22. ASSUME NEW s \in Sessions, _handle_notification(s) PROVE Sealed'
  <2>1. s = client => key = client /\ client # 0
    BY <1>22 DEF _handle_notification, Quiet, SessionParts, Sealed
  <2>. QED  BY <1>22, <2>1 DEF _handle_notification, decrypt_notification, verify_checksum,
            crypt_payload, make_session_key, Quiet, SessionParts, Sealed
<1>23. ASSUME NEW c \in Callers, NEW data \in PairAnswers, pair(c, data) PROVE Sealed'
  BY <1>23, <1>f DEF pair
<1>24. ASSUME NEW c \in Callers, ConnectAborted(c) PROVE Sealed'
  BY <1>24 DEF ConnectAborted, Escapes, Quiet
<1>25. ASSUME _keep_alive_loop \/ ProbeWritten \/ ProbeDies \/ send_command
      PROVE  Sealed'
  BY <1>25, <1>f DEF _keep_alive_loop, ProbeWritten, ProbeDies, Escapes, send_command,
     enqueue
<1>26. ASSUME NEW s \in Sessions, ProbeCleanupDies(s) \/ LinkLost(s) PROVE Sealed'
  BY <1>26, <1>f DEF ProbeCleanupDies, Escapes, LinkLost
<1>27. ASSUME NEW m \in Perishable, Expire(m) PROVE Sealed'
  BY <1>27, <1>f DEF Expire
<1>28. CASE UNCHANGED taskVars
  BY <1>28, <1>f DEF taskVars
<1>. QED  BY <1>1, <1>2, <1>3, <1>4, <1>5, <1>6, <1>7, <1>8, <1>9, <1>10, <1>11, <1>12,
     <1>13, <1>14, <1>15, <1>16, <1>17, <1>18, <1>19, <1>20, <1>21, <1>22, <1>23, <1>24,
     <1>25, <1>26, <1>27, <1>28 DEF Step, Caller, KeepAlive, Worker, Stopper

\* A step that writes nothing and leaves the client in place, drops it or opens
\* a new one.
LEMMA RepeatKept ==
  ASSUME Quiet, UNCHANGED written,
         \/ UNCHANGED <<client, sessions>>
         \/ client' = 0 /\ UNCHANGED sessions
         \/ client' = sessions + 1 /\ sessions' = sessions + 1,
         \/ held' = 0 /\ worker' # "writing"
         \/ UNCHANGED <<held, worker, workOn>>
         \/ held' = held /\ worker' \notin {"writing", "closing"} /\ worker # "closing"
         \/ held' = held /\ worker' # "writing" /\ client' = 0
  PROVE  Repeats'
<1>1. sessions \in Nat /\ client \in Nat /\ client' \in Nat /\ workOn \in Nat /\ Repeats
  BY SessionsAreNat DEF Quiet, SessionParts, QueueInv, TypeOK, LinkTypes, RadioTypes, WorkerTypes
<1>2. \A i \in DOMAIN written : written[i].session \in Nat
  <2>1. \A i \in DOMAIN written : written[i] \in Writes
    BY DEF Quiet, QueueInv, TypeOK, WorkerTypes
  <2>. QED  BY <2>1, SessionsAreNat DEF Writes
<1>. QED  BY <1>1, <1>2 DEF Repeats

\* A packet that is on the air.
LEMMA RepeatWritten ==
  ASSUME Quiet, worker = "writing", OnAir, UNCHANGED <<client, sessions>>,
         worker' # "writing",
         held' = 0 \/ client = 0 \/ (held' = held /\ worker' = "closing")
  PROVE  Repeats'
<1> DEFINE p == [cmd |-> packet.cmd, key |-> packet.key, session |-> workOn]
<1>1. /\ sessions \in Nat /\ client \in Nat /\ workOn \in Nat /\ Repeats
      /\ held \in Commands /\ packet.cmd = held /\ held # 0
      /\ client' = client /\ workOn <= sessions
  BY SessionsAreNat DEF Quiet, SessionParts, QueueInv, TypeOK, LinkTypes, RadioTypes,
     WorkerTypes, WorkerHolds, Repeats, Commands
<1>2. p.cmd = held /\ p.session = workOn
  BY <1>1
<1> HIDE DEF p
<1>3. /\ DOMAIN written' = 1..(Len(written) + 1)
      /\ DOMAIN written = 1..Len(written) /\ Len(written) \in Nat
      /\ \A i \in DOMAIN written : written'[i] = written[i]
      /\ written'[Len(written) + 1] = p
  BY PacketOnAir DEF p, Quiet, QueueInv, TypeOK, WorkerTypes
<1>4. \A i \in DOMAIN written' : written'[i].session <= sessions'
  BY <1>1, <1>2, <1>3 DEF Repeats
<1>5. ASSUME NEW i \in DOMAIN written', NEW j \in DOMAIN written', i < j,
            written'[i].cmd = written'[j].cmd
      PROVE  written'[i].session < written'[j].session
  <2>1. i \in DOMAIN written
    BY <1>3, <1>5
  <2>2. CASE j \in DOMAIN written
    BY <1>1, <1>3, <1>5, <2>1, <2>2 DEF Repeats
  <2>3. CASE j = Len(written) + 1
    <3>1. written[i].cmd = held
      BY <1>2, <1>3, <1>5, <2>1, <2>3
    <3>. QED  BY <1>1, <1>2, <1>3, <2>1, <2>3, <3>1 DEF Repeats
  <2>. QED  BY <1>3, <2>2, <2>3
<1>. QED  BY <1>1, <1>4, <1>5 DEF Repeats

\* The worker writes a command only to the client in place, and after a failed
\* write that client is gone before the next attempt.
LEMMA RepeatStep == Quiet /\ [Step]_taskVars => Repeats'
<1> SUFFICES ASSUME Quiet, [Step]_taskVars PROVE Repeats'
  OBVIOUS
<1> USE DEF linkVars, callerVars, keepVars, queueVars, workVars, hearVars, radioVars
<1>a. /\ running <=> worker # "off"
      /\ sessions \in Nat /\ client \in Nat /\ client <= sessions /\ Repeats
  BY SessionsAreNat DEF Quiet, SessionParts, QueueInv, TypeOK, LinkTypes, RadioTypes,
     ClientAndKey, WorkerHolds
<1>f. ASSUME UNCHANGED <<client, sessions, held, worker, workOn, written>> PROVE Repeats'
  BY <1>f, RepeatKept
<1>1. ASSUME NEW c \in Callers, connect(c) \/ BecomesReady(c) \/ ConnectAborted(c)
      PROVE  Repeats'
  <2>1. /\ UNCHANGED <<client, sessions, held, workOn, written>>
        /\ worker' = worker \/ (worker = "off" /\ worker' = "getting")
    BY <1>1, <1>a DEF connect, Connected, start, BecomesReady, _start_keep_alive,
       ConnectAborted, Escapes
  <2>. QED  BY <2>1, RepeatKept
<1>2. ASSUME NEW c \in Callers, NotFound(c) \/ _connect_with_retry(c) \/ RetryOrGiveUp(c)
            \/ PairCleanupEnds(c)
      PROVE  Repeats'
  <2>1. /\ UNCHANGED <<held, worker, workOn, written>>
        /\ \/ UNCHANGED <<client, sessions>>
           \/ client' = 0 /\ UNCHANGED sessions
           \/ client' = sessions + 1 /\ sessions' = sessions + 1
    BY <1>2 DEF NotFound, _connect_with_retry, RetryOrGiveUp, PairCleanupEnds, CleanupEnds
  <2>. QED  BY <2>1, RepeatKept
<1>3. ASSUME NEW c \in Callers, NEW data \in PairAnswers, pair(c, data) \/
            set_mesh_credentials(c, data) \/ PairFails(c, data)
      PROVE  Repeats'
  BY <1>3, <1>f DEF pair, set_mesh_credentials, PairFails, Cleanup
<1>4. ASSUME NEW c \in Callers, NEW active \in BOOLEAN, _start_notify_safe(c, active)
      PROVE  Repeats'
  <2>1. /\ UNCHANGED <<client, sessions, held, workOn, written>>
        /\ worker' = worker \/ (worker = "off" /\ worker' = "getting")
    BY <1>4, <1>a DEF _start_notify_safe, Connected, start
  <2>. QED  BY <2>1, RepeatKept
<1>5. ASSUME _keep_alive_loop \/ ProbeWritten \/ ProbeFails \/ ProbeDies \/ send_command
      PROVE  Repeats'
  BY <1>5, <1>f DEF _keep_alive_loop, ProbeWritten, ProbeFails, Cleanup, _on_disconnect,
     ProbeDies, Escapes, send_command, enqueue
<1>6. ASSUME NEW s \in Sessions, ProbeCleanupEnds(s) \/ ProbeCleanupDies(s) \/
            LinkLost(s) \/ _handle_notification(s)
      PROVE  Repeats'
  <2>1. /\ UNCHANGED <<sessions, held, worker, workOn, written>> /\ client' \in {client, 0}
    BY <1>6 DEF ProbeCleanupEnds, CleanupEnds, _on_disconnect, ProbeCleanupDies, Escapes,
       LinkLost, _handle_notification
  <2>. QED  BY <2>1, RepeatKept
<1>7. ASSUME Take PROVE Repeats'
  <2>1. /\ Head(queue) \in Commands /\ Head(queue) = queue[1] /\ 1 \in DOMAIN queue
    BY <1>7, TakeHead DEF Take, Quiet, QueueInv, TypeOK, WorkerTypes
  <2>2. UNCHANGED <<client, sessions, written>>
    BY <1>7 DEF Take
  <2>3. \/ UNCHANGED <<held, worker, workOn>>
        \/ worker' = "waiting" /\ held' = Head(queue)
        \/ _send_now(Head(queue), 1)
    BY <1>7 DEF Take
  <2>4. /\ held' \in {held, 0, Head(queue)}
        /\ worker' = "writing" => worker = "writing" \/ workOn' = client
        /\ worker' = "writing" /\ worker # "writing" => workOn' <= sessions
    BY <1>a, <2>1, <2>3, SendNow DEF Quiet, QueueInv, _send_now, Drop
  <2>5. worker = "getting"
    BY <1>7 DEF Take
  <2>6. \A i \in DOMAIN written : written[i].cmd # Head(queue)
    <3>1. \A i \in DOMAIN written : written[i].cmd < queue[1] /\ queue[1] \in Nat
      BY <2>1 DEF Quiet, QueueInv, CallOrder, Commands
    <3>2. \A i \in DOMAIN written : written[i] \in Writes
      BY DEF Quiet, QueueInv, TypeOK, WorkerTypes
    <3>. QED  BY <2>1, <3>1, <3>2 DEF Writes, CommandOrNone
  <2>7. held = 0
    BY <2>5 DEF Quiet, QueueInv, WorkerHolds
  <2>. QED  BY <1>a, <2>2, <2>4, <2>5, <2>6, <2>7 DEF Repeats
<1>8. ASSUME SendAgain PROVE Repeats'
  <2>1. held \in Commands /\ worker \in {"waiting", "backoff"}
    BY <1>8 DEF SendAgain, Quiet, QueueInv, WorkerHolds
  <2>2. PICK n \in Tries : _send_now(held, n)
    BY <1>8, NextWithin DEF SendAgain, Quiet, QueueInv, TypeOK, WorkerTypes, WorkerHolds
  <2>3. UNCHANGED <<client, sessions, written>>
    BY <1>8 DEF SendAgain
  <2>4. \/ held' = 0 /\ worker' = "getting"
        \/ held' = held /\ worker' = "writing" /\ workOn' = client /\ client # 0
    BY <2>2 DEF _send_now, Drop
  <2>. QED  BY <1>a, <2>1, <2>3, <2>4 DEF Repeats
<1>9. ASSUME CommandWritten PROVE Repeats'
  <2>1. worker = "writing" /\ OnAir /\ UNCHANGED <<client, sessions>> /\ held' = 0
        /\ worker' # "writing"
    BY <1>9 DEF CommandWritten, Drop
  <2>. QED  BY <2>1, RepeatWritten
<1>10. ASSUME WriteFails PROVE Repeats'
  <2>1. state # "disconnecting"
    BY <1>10, <1>a DEF WriteFails, Quiet, SessionParts, OnTheWay, EventTrue
  <2>2. /\ worker = "writing" /\ (OnAir \/ UNCHANGED written)
        /\ UNCHANGED <<client, sessions>> /\ worker' # "writing"
        /\ held' = 0 \/ (held' = held /\ (client = 0 \/ worker' = "closing"))
        /\ worker' = "closing" => held' = held
    BY <1>10, <2>1 DEF WriteFails, Cleanup, FailedAttempt, Drop
  <2>3. CASE OnAir
    BY <2>2, <2>3, RepeatWritten
  <2>4. CASE UNCHANGED written
    BY <1>a, <2>2, <2>4 DEF Repeats
  <2>. QED  BY <2>2, <2>3, <2>4
<1>11. ASSUME WriteCleanupEnds PROVE Repeats'
  <2>1. UNCHANGED <<sessions, written>> /\ client' = 0 /\ held' \in {held, 0}
        /\ worker' \in {"backoff", "getting"}
    BY <1>11 DEF WriteCleanupEnds, CleanupEnds, FailedAttempt, Drop
  <2>. QED  BY <2>1, RepeatKept
<1>12. ASSUME WriteDies PROVE Repeats'
  BY <1>12 DEF WriteDies, Escapes, Quiet
<1>13. ASSUME Recover \/ DrainAndClose \/ StopEnds \/ disconnect PROVE Repeats'
  <2>1. /\ UNCHANGED <<sessions, written>> /\ client' \in {client, 0}
        /\ \/ UNCHANGED <<held, worker, workOn>>
           \/ held' = 0 /\ worker' # "writing"
    <3>1. CASE Recover
      BY <3>1 DEF Recover, Quiet, QueueInv, WorkerHolds
    <3>2. CASE DrainAndClose
      BY <3>2 DEF DrainAndClose, Close, Cleanup, Escapes, Quiet, QueueInv, WorkerHolds
    <3>3. CASE StopEnds
      BY <3>3 DEF StopEnds, CleanupEnds, Escapes
    <3>4. CASE disconnect
      BY <3>4 DEF disconnect, Close, Cleanup, Drop, Escapes
    <3>. QED  BY <1>13, <3>1, <3>2, <3>3, <3>4
  <2>. QED  BY <2>1, RepeatKept
<1>14. ASSUME NEW m \in Perishable, Expire(m) PROVE Repeats'
  BY <1>14, <1>f DEF Expire
<1>15. CASE UNCHANGED taskVars
  BY <1>15, <1>f DEF taskVars
<1>. QED  BY <1>1, <1>2, <1>3, <1>4, <1>5, <1>6, <1>7, <1>8, <1>9, <1>10, <1>11, <1>12,
     <1>13, <1>14, <1>15 DEF Step, Caller, KeepAlive, Worker, Stopper

\* An exception that escaped stays on record.
LEMMA EscapedStays == Step /\ escaped => escaped'
BY DEF Step, Caller, KeepAlive, Worker, Stopper, connect, NotFound, _connect_with_retry,
   RetryOrGiveUp, pair, set_mesh_credentials, PairFails, Cleanup, PairCleanupEnds,
   BecomesReady, ConnectAborted, Escapes, _start_notify_safe, _keep_alive_loop,
   ProbeWritten, ProbeFails, ProbeDies, ProbeCleanupEnds, ProbeCleanupDies, Take,
   SendAgain, CommandWritten, WriteFails, WriteCleanupEnds, WriteDies, Recover,
   DrainAndClose, Close, StopEnds, disconnect, send_command, Expire, LinkLost,
   _handle_notification

\* Every step keeps the invariant of the session.
LEMMA SessionStep == QueueInv /\ SessionInv /\ [Next]_vars => SessionInv'
<1> SUFFICES ASSUME QueueInv, SessionInv, [Next]_vars, ~overlap', ~escaped'
             PROVE  SessionParts'
  BY DEF SessionInv
<1>1. CASE UNCHANGED vars
  <2>1. UNCHANGED taskVars /\ ~overlap /\ ~escaped
    BY <1>1 DEF vars, taskVars
  <2>2. Quiet
    BY <2>1 DEF Quiet, SessionInv, SessionParts, Solo, taskVars, callerVars, keepVars, workVars
  <2>. QED  BY <2>1, <2>2, KeyStep, StageStep, WayStep, CleaningStep, EventStep, SealedStep,
            RepeatStep DEF SessionParts, Quiet
<1>2. CASE Next
  <2>1. Step /\ ~overlap /\ ~(Busy' > 1) /\ ~(running' /\ ~running /\ stopper # "idle")
    BY <1>2 DEF Next
  <2>2. ~escaped
    BY <2>1, EscapedStays
  <2>3. Solo'
    BY <2>1, TypeStep, NotBusySolo
  <2>4. Quiet
    BY <2>1, <2>2, <2>3 DEF Quiet, SessionInv
  <2>. QED  BY <2>1, <2>4, KeyStep, StageStep, WayStep, CleaningStep, EventStep, SealedStep,
            RepeatStep DEF SessionParts, Quiet
<1>. QED  BY <1>1, <1>2

\* The invariants of the queue and of the session hold in every reachable state.
LEMMA SessionInvariant == Spec => [](QueueInv /\ SessionInv)
<1>1. Init => SessionInv
  <2> SUFFICES ASSUME Init PROVE SessionParts
    BY DEF SessionInv
  <2>1. Solo /\ ConnectStage /\ OnTheWay /\ CleaningUp /\ EventTrue
    BY DEF Init, Solo, ConnectStage, OnTheWay, CleaningUp, EventTrue, Pairing
  <2>2. ClientAndKey /\ Sealed /\ Repeats
    BY DEF Init, ClientAndKey, Sealed, Repeats
  <2>. QED  BY <2>1, <2>2 DEF SessionParts
<1>. QED  BY <1>1, QueueInvariant, SessionStep, PTL DEF Spec

\* With nothing under way, no task is in a connect or a clean-up.
LEMMA AtRest ==
  ASSUME TypeOK, Busy = 0
  PROVE  (\A c \in Callers : pc[c] = "idle") /\ keepClosing = {} /\ stopper # "closing"
<1> DEFINE P == {c \in Callers : pc[c] # "idle"}
           C == {x \in {worker, stopper} : x = "closing"}
<1>1. IsFiniteSet(P) /\ IsFiniteSet(keepClosing) /\ IsFiniteSet(C)
  <2>1. IsFiniteSet(Sessions)
    BY FS_Interval DEF Sessions
  <2>2. C \in SUBSET {"closing"} /\ IsFiniteSet({"closing"})
    BY FS_Singleton
  <2>. QED  BY <2>1, <2>2, FS_Subset DEF TypeOK, LinkTypes
<1>2. Cardinality(P) \in Nat /\ Cardinality(keepClosing) \in Nat /\ Cardinality(C) \in Nat
  BY <1>1, FS_CardinalityType
<1>3. Cardinality(P) + Cardinality(keepClosing) + Cardinality(C)
        + (IF worker = "closing" /\ stopper = "closing" THEN 1 ELSE 0) = 0
  BY DEF Busy
<1> HIDE DEF P, C
<1>4. Cardinality(P) = 0 /\ Cardinality(keepClosing) = 0 /\ Cardinality(C) = 0
  BY <1>2, <1>3
<1>5. P = {} /\ keepClosing = {} /\ C = {}
  BY <1>1, <1>4, FS_EmptySet
<1>. QED  BY <1>5 DEF P, C

-----------------------------------------------------------------------------
(* The properties of the link.                                             *)

(***************************************************************************)
(* Type correctness, with every attempt counter and the queue within its   *)
(* limit, under any interleaving of connects, probes, writes, lost links   *)
(* and disconnects (connection.py, device.py, device_dispatcher.py).       *)
(***************************************************************************)
THEOREM TypeCorrect == Spec => []TypeOK
BY QueueInvariant, PTL DEF QueueInv

(***************************************************************************)
(* Commands reach the radio in the order of the calls, and none whose time *)
(* to live passed while it was queued, for any number of calls, sessions,  *)
(* retries and restarts of the dispatcher (device_dispatcher.py, _worker   *)
(* and _send_now).                                                         *)
(***************************************************************************)
THEOREM OrderedCommands == Spec => []InOrderAndFresh
<1>1. QueueInv => InOrderAndFresh
  <2> SUFFICES ASSUME QueueInv PROVE InOrderAndFresh
    OBVIOUS
  <2>1. ASSUME NEW i \in DOMAIN written, written[i].cmd \in stale PROVE FALSE
    <3>1. PICK j \in DOMAIN queue : queue[j] = written[i].cmd
      BY <2>1 DEF QueueInv, StaleIsQueued
    <3>2. written[i].cmd < queue[j] /\ queue[j] \in Nat
      BY <3>1 DEF QueueInv, CallOrder, TypeOK, WorkerTypes
    <3>. QED  BY <3>1, <3>2
  <2>. QED  BY <2>1 DEF QueueInv, CallOrder, InOrderAndFresh
<1>. QED  BY QueueInvariant, <1>1, PTL

(***************************************************************************)
(* As long as connects and clean-ups do not overlap and fail only with     *)
(* errors the code handles: READY means a provisioned client with its key, *)
(* at rest nothing is left behind, a waiting worker is really without a    *)
(* connection, packets and statuses match the key of their session, and a  *)
(* command is on the air twice only over different sessions                *)
(* (connection.py, connect, _cleanup; device_dispatcher.py, _worker).      *)
(***************************************************************************)
THEOREM ConsistentSessions == Spec => []SessionConsistent
<1>1. QueueInv /\ SessionInv => SessionConsistent
  <2> SUFFICES ASSUME QueueInv, SessionParts PROVE SessionConsistent
    BY DEF SessionInv, SessionConsistent
  <2> USE DEF SessionParts, QueueInv
  <2>1. state = "ready" => client \in provisioned /\ (key = client \/ client \in asked)
    BY DEF ClientAndKey
  <2>2. ASSUME Busy = 0
        PROVE  /\ state \in {"ready", "disconnected"}
               /\ state = "disconnected" => client = 0 /\ key = 0 /\ ~notify
               /\ \A s \in 1..sessions : s = client \/ s \in asked
    <3>1. (\A c \in Callers : pc[c] = "idle") /\ stopper # "closing"
      BY <2>2, AtRest
    <3>2. state \notin {"connecting", "pairing", "disconnecting"}
      BY <3>1 DEF OnTheWay, Pairing
    <3>. QED  BY <3>2 DEF ClientAndKey, TypeOK, LinkTypes
  <2>3. worker = "waiting" /\ event => is_connected
    BY DEF EventTrue, WorkerHolds, is_connected
  <2>4. \A p \in ToSet(written) : verify_checksum(make_session_key(p.session), p)
    BY DEF Sealed, ToSet, verify_checksum, make_session_key
  <2>. QED  BY <2>1, <2>2, <2>3, <2>4 DEF SessionConsistent, Sealed, Repeats
<1>. QED  BY SessionInvariant, <1>1, PTL
=============================================================================
