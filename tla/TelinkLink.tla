----------------------------- MODULE TelinkLink -----------------------------
(***************************************************************************)
(* A Telink device: BLEConnection (lib/connection.py) with the pairing     *)
(* handshake of lib/provisioner.py, MeshDevice (lib/device.py) and its     *)
(* command queue (lib/device_dispatcher.py).  Every await is a step        *)
(* boundary; what runs between two awaits is one action.                   *)
(*                                                                         *)
(* A session is one BLE client, numbered in the order the clients were     *)
(* opened; 0 stands for None.  The key derived on a session (random on     *)
(* both sides) is named by its session.  bleak raises OSError kinds        *)
(* ("os", time-outs too), which the code catches, and BleakError           *)
(* ("bleak"), which is no OSError and which several handlers let through.  *)
(***************************************************************************)
EXTENDS Naturals, Sequences, SequencesExt, FiniteSets

CONSTANTS
  Callers,       \* tasks that call MeshDevice.connect()
  Requests,      \* the entities' calls in the order they are made: [kind, arg]
  Perishable,    \* the ones whose time to live can pass
  max_retries,   \* BLE connection attempts per connect()
  send_retries,  \* DEFAULT_COMMAND_MAX_RETRIES
  max_size,      \* _QUEUE_MAX_SIZE
  MaxSessions    \* bound on BLE clients opened

ASSUME CallersAssumption == IsFiniteSet(Callers)
ASSUME RequestsAssumption == Requests \in Seq(ToSet(Requests))
ASSUME PerishableAssumption == Perishable \subseteq DOMAIN Requests
ASSUME BoundsAssumption ==
  /\ max_retries \in Nat \ {0} /\ send_retries \in Nat \ {0}
  /\ max_size \in Nat \ {0} /\ MaxSessions \in Nat

VARIABLES
  state,        \* BLEConnection._state
  client,       \* _client
  key,          \* _session_key
  notify,       \* _notify_active
  keepAlive,    \* the task in _keep_alive_task: none, sleeping, writing, or
                \* dead (it ended with a BleakError and is still referenced)
  keepOn,       \* the client it is writing to
  keepClosing,  \* clients a keep-alive task is disconnecting after its write failed
  pc,           \* where each caller of connect() has come to
  attempt,      \* its attempt in _connect_with_retry; 0 outside
  mine,         \* the client it pairs with, and then subscribes on; 0 outside
  stopper,      \* where MeshDevice.disconnect() has come to
  event,        \* _connected_event
  running,      \* _CommandDispatcher._running
  worker,       \* where the worker task has come to
  held,         \* the command the worker has taken from the queue
  tries,        \* attempts of _send_now on it
  workOn,       \* the client the worker writes to, or disconnects when that failed
  packet,       \* the packet it is writing
  queue,        \* _queue
  made,         \* calls made so far; a command is the number of its call
  stale,        \* commands whose time to live passed while they were queued,
                \* until they are dropped
  sessions,     \* clients opened so far
  lost,         \* sessions whose radio link went before disconnect() was called
  provisioned,  \* sessions whose device acknowledged the credentials
  asked,        \* sessions on which client.disconnect() was called
  subscribed,   \* sessions on which start_notify succeeded, until they are closed
  dropped,      \* history: a status of the connection in use could not be read
  written,      \* history: packets on the air, in order: [cmd, key, session]
  overlap,      \* history: two connects or clean-ups were under way at once
  escaped       \* history: an exception left an operation half done

linkVars == <<state, client, key, notify>>
callerVars == <<pc, attempt, mine>>
keepVars == <<keepAlive, keepOn, keepClosing>>
queueVars == <<queue, made, stale>>
workVars == <<worker, held, tries, workOn, packet>>
hearVars == <<subscribed, dropped>>
radioVars == <<sessions, lost, provisioned, asked, hearVars>>
taskVars == <<linkVars, callerVars, keepVars, stopper, event, running,
          queueVars, workVars, radioVars, written, escaped>>
vars == <<taskVars, overlap>>

Sessions == 1..MaxSessions
Commands == DOMAIN Requests
Pairing == {"pairing", "credentials"}

\* crypt_payload and make_checksum: a payload sealed under a session key, which
\* verify_checksum opens with that key and no other.  The nonces, of the packet
\* number or of the notification's header, differ within a session.
crypt_payload(k, m) == [cmd |-> m, key |-> k]
verify_checksum(k, p) == p.key = k

encode_command_packet(k, m) == crypt_payload(k, m)
NoPacket == [cmd |-> 0, key |-> 0]

SessionOrNone == Sessions \cup {0}
CommandOrNone == Commands \cup {0}
Attempts == 0..max_retries
Tries == 0..send_retries
Packets == [cmd : CommandOrNone, key : SessionOrNone]
Writes == [cmd : CommandOrNone, key : SessionOrNone, session : SessionOrNone]

LinkTypes ==
  /\ state \in {"disconnected", "connecting", "pairing", "ready", "disconnecting"}
  /\ client \in SessionOrNone /\ key \in SessionOrNone
  /\ notify \in BOOLEAN /\ event \in BOOLEAN
  /\ keepAlive \in {"none", "sleeping", "writing", "dead"}
  /\ keepOn \in SessionOrNone /\ keepClosing \subseteq Sessions

CallerTypes ==
  /\ pc \in [Callers -> {"idle", "establishing", "backoff", "firmware",
                         "subscribing", "closing"} \cup Pairing]
  /\ attempt \in [Callers -> Attempts]
  /\ mine \in [Callers -> SessionOrNone]
  /\ stopper \in {"idle", "draining", "closing"}

WorkerTypes ==
  /\ running \in BOOLEAN
  /\ worker \in {"off", "getting", "waiting", "writing", "closing", "backoff", "recovering"}
  /\ held \in CommandOrNone /\ tries \in Tries
  /\ workOn \in SessionOrNone /\ packet \in Packets
  /\ queue \in Seq(Commands) /\ Len(queue) <= max_size
  /\ stale \subseteq Perishable
  /\ made \in 0..Len(Requests)
  /\ written \in Seq(Writes)

RadioTypes ==
  /\ sessions \in SessionOrNone
  /\ lost \subseteq Sessions /\ provisioned \subseteq Sessions /\ asked \subseteq Sessions
  /\ subscribed \subseteq Sessions /\ dropped \in BOOLEAN
  /\ overlap \in BOOLEAN /\ escaped \in BOOLEAN

\* The types: the attempts of connect() and _send_now stay within their limits, the
\* queue within _QUEUE_MAX_SIZE (connection.py, device.py, device_dispatcher.py).
TypeOK == LinkTypes /\ CallerTypes /\ WorkerTypes /\ RadioTypes

Init ==
  /\ state = "disconnected" /\ client = 0 /\ key = 0 /\ notify = FALSE
  /\ keepAlive = "none" /\ keepOn = 0 /\ keepClosing = {}
  /\ pc = [c \in Callers |-> "idle"] /\ attempt = [c \in Callers |-> 0]
  /\ mine = [c \in Callers |-> 0]
  /\ stopper = "idle"
  /\ event = FALSE /\ running = FALSE
  /\ worker = "off" /\ held = 0 /\ tries = 0 /\ workOn = 0 /\ packet = NoPacket
  /\ queue = <<>> /\ made = 0 /\ stale = {}
  /\ sessions = 0 /\ lost = {} /\ provisioned = {} /\ asked = {}
  /\ subscribed = {} /\ dropped = FALSE
  /\ written = <<>> /\ overlap = FALSE /\ escaped = FALSE

is_connected == state = "ready"


\* How many connects and clean-ups are under way; each is a task of its own.
Busy == Cardinality({c \in Callers : pc[c] # "idle"}) + Cardinality(keepClosing)
        + Cardinality({t \in {worker, stopper} : t = "closing"})
        + (IF worker = "closing" /\ stopper = "closing" THEN 1 ELSE 0)

-----------------------------------------------------------------------------
(* What the handlers share.                                                *)

\* Mutant: the session key survives the clean-up.
CleanupKeepsKey(st) ==
  /\ keepAlive # "dead"
  /\ keepAlive' = "none" /\ keepOn' = 0
  /\ notify' = FALSE
  /\ asked' = IF client = 0 THEN asked ELSE asked \cup {client}
  /\ state' = IF client = 0 THEN "disconnected" ELSE st
  /\ lost' = lost \ {client}
  /\ subscribed' = subscribed \ {client}
  /\ UNCHANGED <<client, key, sessions, provisioned, dropped>>

\* The clean-up up to its await of client.disconnect(), entered with the
\* connection in state st; without a client there is nothing to await.
Cleanup(st) ==
  /\ keepAlive # "dead"
  /\ keepAlive' = "none" /\ keepOn' = 0
  /\ notify' = FALSE /\ key' = 0
  /\ asked' = IF client = 0 THEN asked ELSE asked \cup {client}
  /\ state' = IF client = 0 THEN "disconnected" ELSE st
  /\ lost' = lost \ {client}
  /\ subscribed' = subscribed \ {client}
  /\ UNCHANGED <<client, sessions, provisioned, dropped>>

\* client.disconnect() has returned (or raised an OSError).
CleanupEnds ==
  /\ client' = 0 /\ state' = "disconnected"
  /\ UNCHANGED <<key, notify>>

\* MeshDevice._on_disconnect: the event is cleared and the coordinator told.
_on_disconnect == event' = FALSE

\* _start_keep_alive: the old task is cancelled and awaited, a new one sleeps.
_start_keep_alive ==
  /\ keepAlive # "dead"
  /\ keepAlive' = "sleeping" /\ keepOn' = 0

\* _CommandDispatcher.start().
start ==
  /\ running' = TRUE
  /\ worker' = IF running THEN worker ELSE "getting"

\* An exception no handler of the operation expects has ended it.
Escapes == escaped' = TRUE

-----------------------------------------------------------------------------
(* connect().                                                              *)

\* MeshDevice.connect() once BLEConnection.connect() has returned.
Connected(c) ==
  /\ pc' = [pc EXCEPT ![c] = "idle"] /\ mine' = [mine EXCEPT ![c] = 0]
  /\ event' = TRUE
  /\ start

\* The call; a connection that is READY is left as it is.
connect(c) ==
  /\ pc[c] = "idle"
  /\ \/ /\ state = "ready"
        /\ Connected(c)
        /\ UNCHANGED <<state, attempt>>
     \/ /\ state # "ready"
        /\ state' = "connecting"
        /\ pc' = [pc EXCEPT ![c] = "establishing"]
        /\ attempt' = [attempt EXCEPT ![c] = 1]
        /\ UNCHANGED <<mine, event, running, worker>>
  /\ UNCHANGED <<client, key, notify, keepVars, stopper, held, tries,
                 workOn, packet, queueVars, radioVars, written, escaped>>

\* The device was not found by the scan: MeshConnectionError, no retry.
NotFound(c) ==
  /\ pc[c] = "establishing"
  /\ client' = 0 /\ state' = "disconnected"
  /\ pc' = [pc EXCEPT ![c] = "idle"] /\ attempt' = [attempt EXCEPT ![c] = 0]
  /\ UNCHANGED <<key, notify, mine, keepVars, stopper, event, running,
                 queueVars, workVars, radioVars, written, escaped>>

\* An attempt of _connect_with_retry: established, or failed with an error the
\* loop retries (a cancellation among them).
_connect_with_retry(c) ==
  /\ pc[c] = "establishing"
  /\ \/ /\ sessions < MaxSessions
        /\ sessions' = sessions + 1 /\ client' = sessions + 1
        /\ mine' = [mine EXCEPT ![c] = sessions + 1]
        /\ state' = "pairing"
        /\ pc' = [pc EXCEPT ![c] = "pairing"] /\ attempt' = [attempt EXCEPT ![c] = 0]
     \/ /\ client' = 0
        /\ pc' = [pc EXCEPT ![c] = "backoff"]
        /\ UNCHANGED <<sessions, mine, state, attempt>>
  /\ UNCHANGED <<key, notify, keepVars, stopper, event, running,
                 queueVars, workVars, lost, provisioned, asked, hearVars, written, escaped>>

\* Mutant: one attempt too many.
RetryOnceMore(c) ==
  /\ pc[c] = "backoff"
  /\ IF attempt[c] <= max_retries
     THEN /\ attempt' = [attempt EXCEPT ![c] = @ + 1]
          /\ pc' = [pc EXCEPT ![c] = "establishing"]
          /\ UNCHANGED state
     ELSE /\ state' = "disconnected"
          /\ pc' = [pc EXCEPT ![c] = "idle"] /\ attempt' = [attempt EXCEPT ![c] = 0]
  /\ UNCHANGED <<client, key, notify, mine, keepVars, stopper, event, running,
                 queueVars, workVars, radioVars, written, escaped>>

\* The sleep after a failed attempt; after the last one the connect fails.
RetryOrGiveUp(c) ==
  /\ pc[c] = "backoff"
  /\ IF attempt[c] < max_retries
     THEN /\ attempt' = [attempt EXCEPT ![c] = @ + 1]
          /\ pc' = [pc EXCEPT ![c] = "establishing"]
          /\ UNCHANGED state
     ELSE /\ state' = "disconnected"
          /\ pc' = [pc EXCEPT ![c] = "idle"] /\ attempt' = [attempt EXCEPT ![c] = 0]
  /\ UNCHANGED <<client, key, notify, mine, keepVars, stopper, event, running,
                 queueVars, workVars, radioVars, written, escaped>>

\* What the device may answer on the pairing characteristic; each step accepts
\* one opcode, and parse_pair_response raises on what it does not know.
PairAnswers == {"success", "failure", "set_ok", "unknown"}
parse_pair_response(st, data) == data = [pairing |-> "success", credentials |-> "set_ok"][st]

\* Both sides derive the key from their fresh random numbers and the mesh name
\* and password: it is the session's.
make_session_key(s) == s

\* provision(), whose awaits touch nothing but the client: pair() writes the
\* request, enables notifications and reads the success response.
pair(c, data) ==
  /\ pc[c] = "pairing" /\ mine[c] \notin lost /\ parse_pair_response(pc[c], data)
  /\ pc' = [pc EXCEPT ![c] = "credentials"]
  /\ UNCHANGED <<linkVars, attempt, mine, keepVars, stopper, event, running,
                 queueVars, workVars, radioVars, written, escaped>>

\* set_mesh_credentials() writes name and password and reads SET_OK; connect()
\* stores the session key.
set_mesh_credentials(c, data) ==
  /\ pc[c] = "credentials" /\ mine[c] \notin lost /\ parse_pair_response(pc[c], data)
  /\ pc' = [pc EXCEPT ![c] = "firmware"]
  /\ key' = make_session_key(mine[c])
  /\ provisioned' = provisioned \cup {mine[c]}
  /\ UNCHANGED <<state, client, notify, attempt, mine, keepVars, stopper, event,
                 running, queueVars, workVars, sessions, lost, asked, hearVars, written,
                 escaped>>

\* A step of provision() raises, or the device answers with another opcode:
\* connect() cleans up and raises.
PairFails(c, data) ==
  /\ pc[c] \in Pairing
  /\ mine[c] \in lost \/ ~parse_pair_response(pc[c], data)
  /\ Cleanup(state)
  /\ pc' = [pc EXCEPT ![c] = IF client = 0 THEN "idle" ELSE "closing"]
  /\ mine' = [mine EXCEPT ![c] = 0]
  /\ UNCHANGED <<attempt, keepClosing, stopper, event, running, queueVars,
                 workVars, written, escaped>>

PairCleanupEnds(c) ==
  /\ pc[c] = "closing"
  /\ CleanupEnds
  /\ pc' = [pc EXCEPT ![c] = "idle"]
  /\ UNCHANGED <<attempt, mine, keepVars, stopper, event, running, queueVars,
                 workVars, radioVars, written, escaped>>

\* The firmware version was read, or reading it failed with an OSError: the
\* connection is READY, the keep-alive starts, start_notify is called.
BecomesReady(c) ==
  /\ pc[c] = "firmware"
  /\ state' = "ready"
  /\ _start_keep_alive
  /\ IF client = 0
     THEN Connected(c)
     ELSE /\ pc' = [pc EXCEPT ![c] = "subscribing"] /\ mine' = [mine EXCEPT ![c] = client]
          /\ UNCHANGED <<event, running, worker>>
  /\ UNCHANGED <<client, key, notify, attempt, keepClosing, stopper,
                 queueVars, held, tries, workOn, packet, radioVars, written, escaped>>

\* start_notify has succeeded, or failed with an error that means poll-only.
_start_notify_safe(c, active) ==
  /\ pc[c] = "subscribing"
  /\ notify' = active
  /\ active => mine[c] \notin lost
  /\ subscribed' = IF active THEN subscribed \cup ({mine[c]} \ asked) ELSE subscribed
  /\ Connected(c)
  /\ UNCHANGED <<state, client, key, attempt, keepVars, stopper, queueVars, held,
                 tries, workOn, packet, sessions, lost, provisioned, asked, dropped,
                 written, escaped>>

\* connect() is cancelled in an await that does not catch the cancellation, or
\* ended by a BleakError: reading the firmware version, disconnecting after a
\* failed pairing, or awaiting a keep-alive task that has died.  Only what the
\* code has assigned so far remains.
ConnectAborted(c) ==
  /\ pc[c] \notin {"idle", "establishing"}
  /\ \/ UNCHANGED state
     \/ pc[c] = "firmware" /\ keepAlive = "dead" /\ state' = "ready"
  /\ pc' = [pc EXCEPT ![c] = "idle"] /\ mine' = [mine EXCEPT ![c] = 0]
  /\ Escapes
  /\ UNCHANGED <<client, key, notify, attempt, keepVars, stopper, event,
                 running, queueVars, workVars, radioVars, written>>

-----------------------------------------------------------------------------
(* The keep-alive task.                                                    *)

\* The interval has passed.  A loop that finds the connection not READY ends;
\* a probe that finds no client or no key returns without a word.
_keep_alive_loop ==
  /\ keepAlive = "sleeping"
  /\ CASE state # "ready" -> /\ keepAlive' = "none"
                             /\ UNCHANGED <<keepOn>>
       [] state = "ready" /\ client # 0 /\ key # 0 ->
            /\ keepAlive' = "writing" /\ keepOn' = client
       [] OTHER -> UNCHANGED <<keepAlive, keepOn>>
  /\ UNCHANGED <<linkVars, callerVars, keepClosing, stopper, event, running, queueVars,
                 workVars, radioVars, written, escaped>>

\* The probe was written.
ProbeWritten ==
  /\ keepAlive = "writing" /\ keepOn \notin lost
  /\ keepAlive' = (IF state = "ready" THEN "sleeping" ELSE "none") /\ keepOn' = 0
  /\ UNCHANGED <<linkVars, callerVars, keepClosing, stopper, event, running,
                 queueVars, workVars, radioVars, written, escaped>>

\* Mutant: the probe's failure is ignored.
ProbeFailureIgnored ==
  /\ keepAlive = "writing"
  /\ keepAlive' = "sleeping" /\ keepOn' = 0
  /\ UNCHANGED <<linkVars, callerVars, keepClosing, stopper, event, running,
                 queueVars, workVars, radioVars, written, escaped>>

\* The probe failed with an OSError: _handle_disconnect, up to its await.  The
\* task cancels itself in _stop_keep_alive, which swallows the cancellation.
ProbeFails ==
  /\ keepAlive = "writing"
  /\ \/ /\ state = "disconnecting"
        /\ keepAlive' = "none" /\ keepOn' = 0
        /\ UNCHANGED <<linkVars, keepClosing, event, radioVars>>
     \/ /\ state # "disconnecting"
        /\ Cleanup(state)
        /\ keepClosing' = IF client = 0 THEN keepClosing ELSE keepClosing \cup {client}
        /\ IF client = 0 THEN _on_disconnect ELSE UNCHANGED event
  /\ UNCHANGED <<callerVars, stopper, running, queueVars, workVars,
                 written, escaped>>

\* The probe failed with a BleakError, which ends the task.
ProbeDies ==
  /\ keepAlive = "writing"
  /\ keepAlive' = "dead" /\ keepOn' = 0
  /\ Escapes
  /\ UNCHANGED <<linkVars, callerVars, keepClosing, stopper, event, running,
                 queueVars, workVars, radioVars, written>>

\* The rest of _handle_disconnect in the keep-alive task: _on_disconnect
\* clears the event and tells the coordinator.
ProbeCleanupEnds(s) ==
  /\ s \in keepClosing
  /\ keepClosing' = keepClosing \ {s}
  /\ CleanupEnds
  /\ _on_disconnect
  /\ UNCHANGED <<callerVars, keepAlive, keepOn, stopper, running, queueVars,
                 workVars, radioVars, written, escaped>>

\* client.disconnect() raised a BleakError: nobody is told, the state stays.
ProbeCleanupDies(s) ==
  /\ s \in keepClosing
  /\ keepClosing' = keepClosing \ {s}
  /\ Escapes
  /\ UNCHANGED <<linkVars, callerVars, keepAlive, keepOn, stopper, event, running,
                 queueVars, workVars, radioVars, written>>

-----------------------------------------------------------------------------
(* Commands.                                                               *)

\* The four bytes of a 32-bit value, most significant first.
BigEndian(v) == <<v \div 16777216, (v \div 65536) % 256, (v \div 256) % 256, v % 256>>

\* encode_compact_dp for DP_TYPE_VALUE.
encode_compact_dp(dp_id, value) == <<dp_id, 2, 4>> \o BigEndian(value)

\* The opcode and parameters the methods of DeviceCommandsMixin send; empty
\* when they raise ProtocolError.
Encoded(r) ==
  LET a == r.arg IN
  CASE r.kind = "power"            -> <<210>> \o encode_compact_dp(121, IF a = 0 THEN 0 ELSE 1)
    [] r.kind = "brightness"       -> IF a \in 1..100 THEN <<210>> \o encode_compact_dp(122, a) ELSE <<>>
    [] r.kind = "color_temp"       -> IF a \in 0..255 THEN <<240, a>> ELSE <<>>
    [] r.kind = "color"            -> IF \A i \in 1..3 : a[i] \in 0..255 THEN <<226>> \o a ELSE <<>>
    [] r.kind = "color_brightness" -> IF a \in 0..255 THEN <<242, a>> ELSE <<>>
    [] r.kind = "light_mode"       -> IF a \in 0..255 THEN <<51, a>> ELSE <<>>
    [] r.kind = "mesh_address"     -> IF a \in 1..32767 THEN <<224, a % 256, a \div 256>> ELSE <<>>
    [] r.kind = "mesh_reset"       -> <<227>>

\* A full queue refuses a command (CommandQueueFullError).
enqueue(m) == queue' = IF Len(queue) < max_size THEN Append(queue, m) ELSE queue

\* The next call: with an argument out of range (ProtocolError) nothing is sent.
send_command ==
  /\ made < Len(Requests)
  /\ made' = made + 1
  /\ IF Encoded(Requests[made + 1]) # <<>> THEN enqueue(made + 1) ELSE UNCHANGED queue
  /\ UNCHANGED <<linkVars, callerVars, keepVars, stopper, event, running, stale,
                 workVars, radioVars, written, escaped>>

\* The time to live of a queued command passes.
Expire(m) ==
  /\ m \in (ToSet(queue) \cap Perishable) \ stale
  /\ stale' = stale \cup {m}
  /\ UNCHANGED <<linkVars, callerVars, keepVars, stopper, event, running, queue,
                 made, workVars, radioVars, written, escaped>>

\* The worker drops what it holds and goes back to the queue.
Drop(next) == worker' = next /\ held' = 0 /\ tries' = 0 /\ workOn' = 0 /\ packet' = NoPacket

\* _send_now up to the write: without key, client or READY the command is
\* dropped (DisconnectedError), otherwise the packet is encoded and written.
_send_now(m, n) ==
  IF key = 0
  THEN Drop("getting")
  ELSE IF state # "ready" \/ client = 0
          THEN Drop("getting")
          ELSE worker' = "writing" /\ held' = m /\ tries' = n /\ workOn' = client /\ packet' = encode_command_packet(key, m)

\* Mutant: the time to live is not checked.
TakeUnchecked ==
  /\ worker = "getting" /\ queue # <<>>
  /\ queue' = Tail(queue)
  /\ LET m == Head(queue) IN
     CASE is_connected -> _send_now(m, 1)
       [] ~is_connected ->
            /\ worker' = "waiting" /\ held' = m
            /\ UNCHANGED <<tries, workOn, packet>>
  /\ UNCHANGED <<linkVars, callerVars, keepVars, stopper, event, running, stale, made,
                 radioVars, written, escaped>>

\* The worker takes the next command, drops it when its time has passed, and
\* sends it at once or waits for the connection.
Take ==
  /\ worker = "getting" /\ queue # <<>>
  /\ queue' = Tail(queue)
  /\ LET m == Head(queue) IN
     CASE m \in stale -> stale' = stale \ {m} /\ UNCHANGED <<workVars>>
       [] m \notin stale /\ is_connected -> _send_now(m, 1) /\ UNCHANGED stale
       [] m \notin stale /\ ~is_connected ->
            /\ worker' = "waiting" /\ held' = m
            /\ UNCHANGED <<tries, workOn, packet, stale>>
  /\ UNCHANGED <<linkVars, callerVars, keepVars, stopper, event, running, made,
                 radioVars, written, escaped>>

\* The worker finds the connection there, or its backoff over, and tries again.
SendAgain ==
  /\ \/ worker = "waiting" /\ is_connected /\ _send_now(held, 1)
     \/ worker = "backoff" /\ _send_now(held, tries + 1)
  /\ UNCHANGED <<linkVars, callerVars, keepVars, stopper, event, running, queueVars,
                 radioVars, written, escaped>>

\* The packet is on the air.
OnAir == written' = Append(written, [cmd |-> packet.cmd, key |-> packet.key, session |-> workOn])

\* The write succeeded: the keep-alive timer is restarted while READY.
CommandWritten ==
  /\ worker = "writing" /\ workOn \notin lost
  /\ OnAir
  /\ \/ /\ state = "ready" /\ _start_keep_alive
        /\ Drop("getting")
        /\ UNCHANGED escaped
     \/ /\ state = "ready" /\ keepAlive = "dead"   \* awaiting the dead task raises
        /\ Drop("recovering")
        /\ Escapes
        /\ UNCHANGED <<keepAlive, keepOn>>
     \/ /\ state # "ready"
        /\ Drop("getting")
        /\ UNCHANGED <<keepAlive, keepOn, escaped>>
  /\ UNCHANGED <<linkVars, callerVars, keepClosing, stopper, event, running,
                 queueVars, radioVars>>

\* After MeshConnectionError: another attempt, or the command is dropped.
FailedAttempt ==
  IF tries < send_retries
  THEN worker' = "backoff" /\ workOn' = 0 /\ packet' = NoPacket /\ UNCHANGED <<held, tries>>
  ELSE Drop("getting")

\* The write failed with an OSError, its packet on the air or not:
\* _handle_disconnect up to its await.
WriteFails ==
  /\ worker = "writing"
  /\ OnAir \/ UNCHANGED written
  /\ \/ /\ state = "disconnecting"
        /\ FailedAttempt
        /\ UNCHANGED <<linkVars, keepAlive, keepOn, event, radioVars>>
     \/ /\ state # "disconnecting" /\ client # 0
        /\ Cleanup(state)
        /\ worker' = "closing" /\ workOn' = client
        /\ UNCHANGED <<held, tries, packet, event>>
     \/ /\ state # "disconnecting" /\ client = 0
        /\ Cleanup(state)
        /\ _on_disconnect
        /\ FailedAttempt
  /\ UNCHANGED <<callerVars, keepClosing, stopper, running, queueVars, escaped>>

\* The rest of _handle_disconnect in the worker.
WriteCleanupEnds ==
  /\ worker = "closing"
  /\ CleanupEnds
  /\ _on_disconnect
  /\ FailedAttempt
  /\ UNCHANGED <<callerVars, keepVars, stopper, running, queueVars, radioVars, written, escaped>>

\* A BleakError, of the write, of the disconnect or of a dead keep-alive
\* task, reaches the worker's last handler: the command is gone.
WriteDies ==
  /\ worker \in {"writing", "closing"}
  /\ (worker = "writing" /\ OnAir) \/ UNCHANGED written
  /\ Drop("recovering")
  /\ Escapes
  /\ UNCHANGED <<linkVars, callerVars, keepVars, stopper, event, running, queueVars, radioVars>>

Recover ==
  /\ worker = "recovering"
  /\ worker' = "getting"
  /\ UNCHANGED <<linkVars, callerVars, keepVars, stopper, event, running,
                 queueVars, held, tries, workOn, packet, radioVars, written, escaped>>

-----------------------------------------------------------------------------
(* disconnect().                                                           *)

\* BLEConnection.disconnect() up to its await; nothing to do without a connection.
Close ==
  /\ \/ /\ state = "disconnected"
        /\ stopper' = "idle"
        /\ UNCHANGED <<linkVars, keepAlive, keepOn, asked, lost, subscribed, escaped>>
     \/ /\ state # "disconnected"
        /\ Cleanup("disconnecting")
        /\ stopper' = IF client = 0 THEN "idle" ELSE "closing"
        /\ UNCHANGED escaped
     \/ /\ state # "disconnected" /\ keepAlive = "dead"
        /\ state' = "disconnecting"
        /\ stopper' = "idle"
        /\ Escapes
        /\ UNCHANGED <<client, key, notify, keepAlive, keepOn, asked, lost, subscribed>>
  /\ UNCHANGED <<callerVars, keepClosing, event, made, sessions, provisioned, dropped, written>>

\* MeshDevice.disconnect(): a dispatcher that runs is stopped first, its worker
\* cancelled wherever it waits, and what it held is gone.  One that does not run
\* keeps its queue.
disconnect ==
  /\ stopper = "idle"
  /\ \/ /\ running /\ running' = FALSE
        /\ stopper' = "draining"
        /\ Drop("off")
        /\ UNCHANGED <<linkVars, callerVars, keepVars, event, made, radioVars, written, escaped>>
     \/ /\ ~running /\ UNCHANGED <<running, workVars>>
        /\ Close
  /\ UNCHANGED <<queue, stale>>

\* The worker is gone: the queue is drained and the connection closed.
DrainAndClose ==
  /\ stopper = "draining"
  /\ queue' = <<>> /\ stale' = {}
  /\ Close
  /\ UNCHANGED <<running, workVars>>

StopEnds ==
  /\ stopper = "closing"
  /\ stopper' = "idle"
  /\ \/ CleanupEnds /\ UNCHANGED escaped
     \/ Escapes /\ UNCHANGED linkVars
  /\ UNCHANGED <<callerVars, keepVars, event, running, queueVars, workVars,
                 radioVars, written>>

-----------------------------------------------------------------------------
(* Notifications.                                                          *)

\* decrypt_notification: a status sealed by the device under its session's key.
decrypt_notification(k, n) == k # 0 /\ verify_checksum(k, n)

\* A status arrives.  One that can be read is decoded and handed to the
\* coordinator, which counts as contact with the device (module Reconnect,
\* Notified); any other is dropped, as is whatever still comes while the client
\* is being closed and the key is gone.
_handle_notification(s) ==
  /\ s \in subscribed \ lost
  /\ dropped' = (dropped \/ (/\ s = client
                             /\ ~decrypt_notification(key, crypt_payload(make_session_key(s), 0))))
  /\ UNCHANGED <<linkVars, callerVars, keepVars, stopper, event, running, queueVars, workVars,
                 sessions, lost, provisioned, asked, subscribed, written, escaped>>

-----------------------------------------------------------------------------
\* The radio link of an open client is lost; nothing in the code hears of it.
LinkLost(s) ==
  /\ s \in 1..sessions /\ s \notin lost \cup asked
  /\ lost' = lost \cup {s}
  /\ UNCHANGED <<linkVars, callerVars, keepVars, stopper, event, running,
                 queueVars, workVars, sessions, provisioned, asked, hearVars, written,
                 escaped>>

-----------------------------------------------------------------------------
Caller(c) ==
  \/ NotFound(c) \/ _connect_with_retry(c) \/ RetryOrGiveUp(c)
  \/ \E data \in PairAnswers : pair(c, data) \/ set_mesh_credentials(c, data) \/ PairFails(c, data)
  \/ PairCleanupEnds(c) \/ BecomesReady(c) \/ ConnectAborted(c)
  \/ \E active \in BOOLEAN : _start_notify_safe(c, active)

KeepAlive ==
  \/ _keep_alive_loop \/ ProbeWritten \/ ProbeFails \/ ProbeDies
  \/ \E s \in Sessions : ProbeCleanupEnds(s) \/ ProbeCleanupDies(s)

Worker == Take \/ SendAgain \/ CommandWritten \/ WriteFails \/ WriteCleanupEnds \/ WriteDies \/ Recover
Stopper == DrainAndClose \/ StopEnds

Step ==
  \/ \E c \in Callers : connect(c) \/ Caller(c)
  \/ KeepAlive \/ Worker \/ Stopper \/ disconnect
  \/ send_command \/ (\E m \in Perishable : Expire(m))
  \/ \E s \in Sessions : LinkLost(s) \/ _handle_notification(s)

\* Two operations overlap; one is also a connect() that finds the connection
\* READY and restarts the dispatcher that disconnect() is stopping.
Next ==
  /\ Step
  /\ overlap' = (overlap \/ Busy' > 1 \/ (running' /\ ~running /\ stopper # "idle"))

\* The event loop runs every task that can run; callers, entities, the clock
\* and the radio do as they please.
Fairness ==
  /\ \A c \in Callers : WF_taskVars(Caller(c))
  /\ WF_taskVars(KeepAlive) /\ WF_taskVars(Worker) /\ WF_taskVars(Stopper)

Spec == Init /\ [][Next]_vars /\ Fairness

-----------------------------------------------------------------------------
(* Properties.                                                             *)

\* As long as connects and clean-ups did not overlap and failed only with
\* errors the code handles: a READY connection has a client whose device has
\* confirmed the credentials and, unless that client is being closed, its key;
\* at rest no key or client is left behind and every BLE client ever opened is
\* the current one or was disconnected; a worker that waits for a connection
\* really waits, because the event is clear; and every packet was encrypted
\* with the key of the session it was written to, and a command is on the air
\* twice only when its write failed and the retry found a later session; and no
\* status the device sends over the connection in use is thrown away
\* (connection.py, connect, write_command and _cleanup; device_dispatcher.py,
\* _worker; device.py, _handle_notification).
SessionConsistent ==
  ~overlap /\ ~escaped =>
    /\ state = "ready" => client \in provisioned /\ (key = client \/ client \in asked)
    /\ Busy = 0 => /\ state \in {"ready", "disconnected"}
                   /\ state = "disconnected" => client = 0 /\ key = 0 /\ ~notify
                   /\ \A s \in 1..sessions : s = client \/ s \in asked
    /\ worker = "waiting" /\ event => is_connected
    /\ \A p \in ToSet(written) : verify_checksum(make_session_key(p.session), p)
    /\ \A i, j \in DOMAIN written :
         i < j /\ written[i].cmd = written[j].cmd => written[i].session < written[j].session
    /\ ~dropped

\* Whatever reconnects, stops and failed attempts lie between: commands reach
\* the air in the order they were queued, and none whose time to live passed
\* while it was queued (device_dispatcher.py, _worker and _send_now).
InOrderAndFresh ==
  /\ \A i, j \in DOMAIN written : i < j => written[i].cmd <= written[j].cmd
  /\ \A i \in DOMAIN written : written[i].cmd \notin stale

\* A link that is lost while READY is noticed by the keep-alive, unless a
\* BleakError ended that task or overlapping clean-ups took its client or key
\* away (connection.py, _keep_alive_loop and _handle_disconnect).
LossNoticed == (state = "ready" /\ client \in lost) ~> (state # "ready" \/ escaped \/ overlap)

=============================================================================
