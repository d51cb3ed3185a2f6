----------------------------- MODULE SIGClient -----------------------------
(***************************************************************************)
(* A SIG Mesh device behind a GATT proxy: SIGMeshDevice with its command   *)
(* and segment mixins (lib/sig_mesh_device*.py), the PDU layers of         *)
(* lib/sig_mesh_protocol*.py, and what the coordinator does with a         *)
(* notification.  Every await that can suspend is a step boundary.  The    *)
(* two asyncio locks are never held across such an await (the store, the   *)
(* buffers and the callbacks are all synchronous), so what they guard is   *)
(* one step.                                                               *)
(*                                                                         *)
(* A session is one BLE client, numbered as they are opened; 0 is None.    *)
(* Encryption is symbolic: a ciphertext names its key and nonce, and is    *)
(* read with both or not at all.  The mesh node is external: it drops a    *)
(* sequence number it has seen, ignores a repeated transaction, answers    *)
(* each message, and repeats the segments nobody acknowledges.             *)
(***************************************************************************)
EXTENDS Integers, Sequences, SequencesExt, FiniteSets

CONSTANTS
  Senders,      \* tasks that send; an entity's calls again if the method raised
  Programs,     \* which calls they may make: [op, arg, entity] for each.  op is
                \* power (arg 0 or 1), level or lightness (send_level of a Home
                \* Assistant brightness, on a Generic Level or a Light Lightness
                \* device), vendor, appkey or bind; entity: light.py and switch.py
                \* call, not the identify button or service
  max_retries,  \* attempts of connect()
  DEFAULT_SIG_MESH_MAX_RETRIES,  \* attempts of send_power and send_level
  DEFAULT_MAX_COMMAND_RETRIES,   \* calls send_command_with_retry makes of them
  MaxSessions,  \* bound on BLE clients opened
  MaxFaults,    \* bound on lost PDUs, failed writes, lost links, cancelled
                \* connects, failed attempts, unsolicited PDUs and disconnects
  SeqNumbers    \* sequence numbers the node may give a segmented message

\* None is no sender; a device has levels of one kind.
ASSUME SendersAssumption ==
  /\ IsFiniteSet(Senders) /\ -1 \notin Senders
  /\ Programs \subseteq
       [Senders -> [op : {"power", "level", "lightness", "vendor", "appkey", "bind"},
                    arg : 0..255, entity : BOOLEAN]]
  /\ \A program \in Programs : \A s, t \in Senders :
       ~(program[s].op = "level" /\ program[t].op = "lightness")
ASSUME BoundsAssumption ==
  /\ max_retries \in Nat \ {0} /\ DEFAULT_SIG_MESH_MAX_RETRIES \in Nat \ {0}
  /\ DEFAULT_MAX_COMMAND_RETRIES \in Nat \ {0}
  /\ MaxSessions \in Nat /\ MaxFaults \in Nat
  /\ SeqNumbers \subseteq Nat

VARIABLES
  call,       \* the call each sender makes
  client,     \* _client
  keys,       \* whether _keys is set
  tid,        \* _tid
  seq,        \* the next number of the sequence store
  connecting, \* where connect() has come to
  attempt,    \* its attempt
  mine,       \* the client of that attempt
  asked,      \* the number of its Composition Data Get
  stopping,   \* where disconnect() has come to
  stopOn,     \* the client it is closing
  pc,         \* where each sender has come to
  on,         \* the client a sender writes to
  tries,      \* its write attempt
  transaction,\* its transaction id
  number,     \* the sequence number of the PDU it writes
  written,    \* segments of the message it has written
  calls,      \* calls of its send method it has made
  pending,    \* _pending_responses, in the order of registration
  answer,     \* the request whose status a sender's future was resolved with
  buffers,    \* _segment_buffers, by seq_zero
  old,        \* buffers older than _REASSEMBLY_TIMEOUT
  composition,\* number of the message _composition was read from; -1 is None
  shown,      \* the coordinator's state: [is_on, brightness, power_w]
  link,       \* the radio link of each session: none, up or down
  unreported, \* sessions that are down and whose callback has not run
  subscribed, \* sessions with notifications
  air,        \* PDUs on their way from the node, in order
  node,       \* the node: [heard, last, on, level, parts, used, power]
  applied,    \* history: commands the node applied, in order: [of, nth, tid]
  whole,      \* history: segments received, by message
  faults,     \* faults so far
  lossy,      \* history: a PDU of either direction was lost
  unanswered, \* history: a request ended without its status
  late        \* history: a disconnection was reported to a newer connection

connVars == <<call, client, keys, connecting, attempt, mine, asked, stopping, stopOn>>
sendVars == <<tid, seq, pc, on, tries, transaction, number, written, calls>>
rxVars == <<pending, answer, buffers, old, composition, shown, whole>>
linkVars == <<link, unreported, subscribed>>
nodeVars == <<air, node, applied>>
history == <<faults, lossy, unanswered, late>>
vars == <<connVars, sendVars, rxVars, linkVars, nodeVars, history>>

Sessions == 1..MaxSessions
None == -1
MESH_SEQ_ZERO == 8192     \* seq_zero has 13 bits
SetOps == {"power", "level", "lightness"}
Status == [appkey |-> "appkey_status", bind |-> "bind_status"]
Op(s) == call[s].op
Awaits(s) == Op(s) \in {"appkey", "bind"}
(* An AppKey Add is 20 bytes: with its MIC two segments of 12. *)
Segments(s) == IF Op(s) = "appkey" THEN 2 ELSE 1

----------------------------------------------------------------------------
(* The PDU layers.                                                         *)

\* AES-CCM: a ciphertext is opened with its key and its nonce, or not at all.
mesh_aes_ccm_encrypt(key, nonce, p) == [key |-> key, nonce |-> nonce, payload |-> p]
mesh_aes_ccm_decrypt(key, nonce, c) == c.key = key /\ c.nonce = nonce

\* k2: the keys of a network; each network has its own.
k2(net) == <<"enc_key", net>>

\* MeshKeys: which key a message is under (akf): the application key, or the
\* device key for configuration messages.
MeshKeys(op) == IF op \in {"power", "level", "lightness", "vendor", "onoff_status",
                           "level_status", "lightness_status", "vendor_data"}
                THEN "app_key" ELSE "dev_key"

\* TuyaSIGMeshLight.async_turn_on: the level of a Home Assistant brightness.
async_turn_on(brightness) == brightness * 257 - 32768

\* The value each kind of message carries; send_level shifts the level for a
\* Light Lightness device, whose parameter is unsigned.  Whose it is, and of
\* which of its calls, is history: the PDU does not say.
Payload(s, t) ==
  [op |-> Op(s), of |-> s, nth |-> calls[s], tid |-> t,
   val |-> CASE Op(s) = "level"     -> async_turn_on(call[s].arg)
             [] Op(s) = "lightness" -> async_turn_on(call[s].arg) + 32768
             [] OTHER               -> call[s].arg]

\* _make_app_nonce: the number is the only field that varies here.
_make_app_nonce(q) == q
make_access_unsegmented(q, p) ==
  [seg |-> FALSE, akf |-> MeshKeys(p.op),
   body |-> mesh_aes_ccm_encrypt(MeshKeys(p.op), _make_app_nonce(q), p)]

\* make_access_segmented: every segment carries the low 13 bits of the first
\* number; the payload is encrypted under all 24.
make_access_segmented(q, p, o, n) ==
  [seg |-> TRUE, akf |-> MeshKeys(p.op),
   body |-> mesh_aes_ccm_encrypt(MeshKeys(p.op), _make_app_nonce(q), p),
   seq_zero |-> q % MESH_SEQ_ZERO, seg_o |-> o, seg_n |-> n]

encrypt_network_pdu(net, q, t) == [seq |-> q, body |-> mesh_aes_ccm_encrypt(k2(net), q, t)]

\* decrypt_network_pdu: a PDU of another network is not read.
decrypt_network_pdu(pdu) == mesh_aes_ccm_decrypt(k2("ours"), pdu.seq, pdu.body)

\* A proxy PDU; the parser keeps SAR and type, which nobody looks at.
make_proxy_pdu(n) == [sar |-> "complete", type |-> "network", payload |-> n]
parse_proxy_pdu(x) == x.payload

\* decrypt_access_payload: the key by akf, the number from the network header.
decrypt_access_payload(q, t) == mesh_aes_ccm_decrypt(t.akf, _make_app_nonce(q), t.body)

\* reassemble_and_decrypt_segments: all of 0..seg_n, of one message, and the
\* nonce is built from the 13 bits of seq_zero.
reassemble_and_decrypt_segments(b, zero) ==
  /\ DOMAIN b.segs = 0..b.seg_n
  /\ \A o \in DOMAIN b.segs :
       mesh_aes_ccm_decrypt(b.segs[o].akf, _make_app_nonce(zero), b.segs[o].body)

\* The opcode of an access payload, and what is read from its parameters: a
\* composition, or a vendor frame: a request for the time or data points.
parse_access_opcode(p) == p.op
parse_composition_data(p) == p.val
TUYA_CMD_DP_DATA == 1
TUYA_CMD_TIMESTAMP_SYNC == 2
DP_ID_POWER_W == 18
parse_tuya_vendor_frame(p) ==
  [command |-> p.val.command,
   dps |-> IF p.val.command = TUYA_CMD_TIMESTAMP_SYNC THEN {} ELSE p.val.dps]

----------------------------------------------------------------------------
SessionOrNone == 0..MaxSessions
Attempts == 0..max_retries
Tries == 0..DEFAULT_SIG_MESH_MAX_RETRIES
Calls == 0..DEFAULT_MAX_COMMAND_RETRIES
TransactionIds == 0..255
SeqZeros == 0..MESH_SEQ_ZERO - 1
FaultCounts == 0..MaxFaults

ConnTypes ==
  /\ call \in Programs
  /\ client \in SessionOrNone
  /\ connecting \in {"idle", "opening", "subscribing", "composing", "closing", "backoff"}
  /\ attempt \in Attempts /\ mine \in SessionOrNone /\ asked \in Nat
  /\ stopping \in {"idle", "unsubscribing", "closing"} /\ stopOn \in SessionOrNone

SendTypes ==
  /\ tid \in TransactionIds /\ seq \in Nat
  /\ pc \in [Senders -> {"idle", "asked", "writing", "backoff", "waiting", "done"}]
  /\ on \in [Senders -> SessionOrNone]
  /\ tries \in [Senders -> Tries]
  /\ transaction \in [Senders -> TransactionIds]
  /\ number \in [Senders -> Nat]
  /\ calls \in [Senders -> Calls]
  /\ written \in [Senders -> 0..2] /\ \A s \in Senders : written[s] <= Segments(s)

ReceiveTypes ==
  /\ pending \in Seq({s \in Senders : Awaits(s)}) /\ IsInjective(pending)
  /\ answer \in [Senders -> Senders \cup {None}]
  /\ DOMAIN buffers \subseteq SeqZeros /\ old \subseteq DOMAIN buffers
  /\ composition \in SeqNumbers \cup {None}
  /\ whole \in [SeqNumbers -> SUBSET {0, 1}]
  /\ DOMAIN shown = {"is_on", "brightness", "power_w"}
  /\ shown.brightness \in 0..255 /\ shown.power_w \in Nat

LinkTypes ==
  /\ link \in [Sessions -> {"none", "up", "down"}]
  /\ unreported \subseteq Sessions /\ subscribed \subseteq Sessions
  /\ faults \in FaultCounts

NodeTypes ==
  /\ air \in Seq(ToSet(air)) /\ applied \in Seq([of : Senders, nth : Calls, tid : TransactionIds])
  /\ DOMAIN node = {"heard", "last", "on", "level", "parts", "used", "power"}
  /\ node.heard \in Int /\ node.last \in TransactionIds \cup {None}
  /\ node.level \in Int /\ node.parts \subseteq Senders \X {0, 1}
  /\ node.used \in SeqNumbers \cup {None} /\ node.power \in Nat

FlagTypes ==
  /\ keys \in BOOLEAN /\ lossy \in BOOLEAN /\ unanswered \in BOOLEAN /\ late \in BOOLEAN
  /\ shown.is_on \in BOOLEAN /\ node.on \in BOOLEAN

\* The types: connect() and the send methods stay within their attempts, a request
\* is registered once, a buffer has a 13-bit key, and the brightness shown is one
\* byte (sig_mesh_device*.py, coordinator.py).
TypeOK == ConnTypes /\ SendTypes /\ ReceiveTypes /\ LinkTypes /\ NodeTypes /\ FlagTypes

Init ==
  /\ call \in Programs
  /\ client = 0 /\ keys = FALSE /\ tid = 0 /\ seq = 0
  /\ connecting = "idle" /\ attempt = 0 /\ mine = 0 /\ asked = 0
  /\ stopping = "idle" /\ stopOn = 0
  /\ pc = [s \in Senders |-> "idle"] /\ on = [s \in Senders |-> 0]
  /\ tries = [s \in Senders |-> 0] /\ transaction = [s \in Senders |-> 0]
  /\ number = [s \in Senders |-> 0] /\ written = [s \in Senders |-> 0]
  /\ calls = [s \in Senders |-> 0]
  /\ pending = <<>> /\ answer = [s \in Senders |-> None]
  /\ buffers = [z \in {} |-> 0] /\ old = {} /\ composition = None
  /\ shown = [is_on |-> FALSE, brightness |-> 0, power_w |-> 0]
  /\ link = [c \in Sessions |-> "none"] /\ unreported = {} /\ subscribed = {}
  /\ air = <<>>
  /\ node = [heard |-> None, last |-> None, on |-> FALSE, level |-> 0,
             parts |-> {}, used |-> None, power |-> 0]
  /\ applied = <<>> /\ whole = [q \in SeqNumbers |-> {}]
  /\ faults = 0 /\ lossy = FALSE /\ unanswered = FALSE /\ late = FALSE

is_connected == client # 0 /\ link[client] = "up"

Fault == faults < MaxFaults /\ faults' = faults + 1
NoFault == UNCHANGED faults

\* The link of session c goes down: what the node had sent over it is lost.
Down(c) ==
  /\ link' = [link EXCEPT ![c] = "down"]
  /\ unreported' = IF link[c] = "up" THEN unreported \cup {c} ELSE unreported
  /\ subscribed' = subscribed \ {c}
  /\ air' = IF link[c] = "up" THEN <<>> ELSE air
  /\ lossy' = (lossy \/ (link[c] = "up" /\ air # <<>>))

----------------------------------------------------------------------------
(* The mesh node (external).                                               *)

\* What the node knows after hearing payload p under number q, segment o.
Heard(p, q, o) ==
  LET new == p.tid # node.last
      set == IF p.op = "power" /\ new THEN [node EXCEPT !.on = p.val = 1]
             ELSE IF p.op \in {"level", "lightness"} /\ new
             THEN [node EXCEPT !.level = p.val,
                               !.on = p.val > (IF p.op = "level" THEN -32768 ELSE 0)]
             ELSE node
  IN  [set EXCEPT !.heard = q,
                  !.last = IF p.op \in SetOps THEN p.tid ELSE @,
                  !.parts = IF p.op = "appkey" THEN @ \cup {<<p.of, o>>} ELSE @]

\* The status it answers with, one unsegmented PDU.
Reply(p, op, val) ==
  make_proxy_pdu(encrypt_network_pdu("ours", 0,
    make_access_unsegmented(0, [op |-> op, of |-> p.of, tid |-> 0, val |-> val])))

Replies(p, n) ==
  CASE p.op = "power"  -> <<Reply(p, "onoff_status", IF n.on THEN 1 ELSE 0)>>
    [] p.op = "level"  -> <<Reply(p, "level_status", n.level)>>
    [] p.op = "lightness" -> <<Reply(p, "lightness_status", n.level)>>
    [] p.op = "bind"   -> <<Reply(p, Status.bind, 0)>>
    [] p.op = "appkey" -> IF {<<p.of, 0>>, <<p.of, 1>>} \subseteq n.parts
                          THEN <<Reply(p, Status.appkey, 0)>> ELSE <<>>
    [] OTHER           -> <<>>

\* Segment o of the Composition Data Status sent under number q.
CompositionSegment(q, o) ==
  make_proxy_pdu(encrypt_network_pdu("ours", q + o,
    make_access_segmented(q, [op |-> "composition", of |-> None, tid |-> 0, val |-> q], o, 1)))

Unused == {q \in SeqNumbers : q > node.used}

\* The node hears payload p; a number it has passed is a replay to it.
Hear(p, q, o) ==
  IF q <= node.heard
  THEN /\ lossy' = TRUE /\ UNCHANGED nodeVars
  ELSE /\ UNCHANGED lossy
       /\ applied' = IF p.op \in SetOps /\ p.tid # node.last
                     THEN Append(applied, [of |-> p.of, nth |-> p.nth, tid |-> p.tid])
                     ELSE applied
       /\ \/ /\ p.op # "composition" \/ Unused = {}
             /\ node' = Heard(p, q, o)
             /\ air' = air \o Replies(p, Heard(p, q, o))
          \/ /\ p.op = "composition"
             /\ \E r \in Unused :
                  /\ node' = [Heard(p, q, o) EXCEPT !.used = r]
                  /\ air' = air \o <<CompositionSegment(r, 0), CompositionSegment(r, 1)>>

\* A write on session c: delivered if the link is up, or lost on the way.
Delivered(c, p, q, o) == link[c] = "up" /\ Hear(p, q, o)
LostOnAir == lossy' = TRUE /\ UNCHANGED nodeVars

\* GATT writes of one client complete in the order they were begun.
WritesBefore(c, q) ==
  \/ \E s \in Senders : pc[s] = "writing" /\ on[s] = c /\ number[s] < q
  \/ connecting = "composing" /\ mine = c /\ asked < q

\* The node repeats a segment nobody has acknowledged.
SegmentRepeated(o) ==
  /\ node.used # None /\ Fault
  /\ \E c \in subscribed : link[c] = "up"
  /\ air' = Append(air, CompositionSegment(node.used, o))
  /\ UNCHANGED <<connVars, sendVars, rxVars, linkVars, node, applied,
                 lossy, unanswered, late>>

\* The node asks for the time or reports the power it draws; or a PDU of another
\* mesh, or a beacon, comes by.
UnsolicitedHeard(net, frame) ==
  /\ Fault
  /\ \E c \in subscribed : link[c] = "up"
  /\ air' = Append(air, make_proxy_pdu(encrypt_network_pdu(net, 0, make_access_unsegmented(0,
              [op |-> "vendor_data", of |-> None, tid |-> 0, val |-> frame]))))
  /\ node' = IF net = "ours" /\ frame.dps # {} THEN [node EXCEPT !.power = 57] ELSE node
  /\ UNCHANGED <<connVars, sendVars, rxVars, linkVars, applied,
                 lossy, unanswered, late>>

\* A PDU is lost before it reaches the client.
PDULost ==
  /\ air # <<>> /\ Fault
  /\ air' = Tail(air) /\ lossy' = TRUE
  /\ UNCHANGED <<connVars, sendVars, rxVars, linkVars, node, applied,
                 unanswered, late>>

LinkLost(c) ==
  /\ link[c] = "up" /\ Fault
  /\ Down(c)
  /\ UNCHANGED <<connVars, sendVars, rxVars, node, applied, unanswered, late>>

----------------------------------------------------------------------------
(* connect() and disconnect().                                             *)

\* connect() returns or raises: its locals are gone.
ConnectEnds == connecting' = "idle" /\ attempt' = 0 /\ mine' = 0 /\ asked' = 0

\* _load_keys: the secrets are in memory, so nothing is awaited.
_load_keys == keys' = TRUE

\* Its callers call it for a device that is not connected.
connect ==
  /\ connecting = "idle" /\ ~is_connected
  /\ \E c \in Sessions : link[c] = "none"
  /\ _load_keys
  /\ connecting' = "opening" /\ attempt' = 1
  /\ UNCHANGED <<call, client, mine, asked, stopping, stopOn, sendVars, rxVars, linkVars,
                 nodeVars, history>>

\* The attempt failed: its client, if it has one, is disconnected; then a pause.
AttemptFails(c) == connecting' = (IF c = 0 THEN "backoff" ELSE "closing")

\* The device was found and client c opened on it.
Opened(c) ==
  /\ link[c] = "none" /\ \A d \in 1..c - 1 : link[d] # "none"
  /\ link' = [link EXCEPT ![c] = "up"] /\ mine' = c

\* An open client has the proxy service with both characteristics or it has
\* not, which fails the attempt like a device that is not found.
_resolve_proxy_characteristics ==
  /\ connecting = "opening"
  /\ \/ /\ \E c \in Sessions :
             /\ Opened(c)
             /\ \/ connecting' = "subscribing" /\ NoFault
                \/ AttemptFails(c) /\ Fault
     \/ AttemptFails(0) /\ Fault /\ UNCHANGED <<link, mine>>
  /\ UNCHANGED <<call, client, keys, attempt, asked, stopping, stopOn, sendVars, rxVars,
                 unreported, subscribed, nodeVars, lossy, unanswered, late>>

\* A failure costs a fault, unless the link is down and there is no other way.
FaultIfUp(c) == IF link[c] = "up" THEN Fault ELSE NoFault

\* start_notify returns or fails, which is tolerated; the client becomes
\* current and request_composition_data begins on it.
request_composition_data ==
  /\ connecting = "subscribing"
  /\ \/ link[mine] = "up" /\ subscribed' = subscribed \cup {mine} /\ NoFault
     \/ UNCHANGED subscribed /\ FaultIfUp(mine)
  /\ client' = mine
  /\ IF keys
     THEN /\ connecting' = "composing" /\ asked' = seq /\ seq' = seq + 1
          /\ UNCHANGED <<attempt, mine>>
     ELSE ConnectEnds /\ UNCHANGED seq
  /\ UNCHANGED <<call, keys, stopping, stopOn, tid, pc, on, tries, transaction,
                 number, written, calls, rxVars, link, unreported, nodeVars,
                 lossy, unanswered, late>>

\* The Composition Data Get is written or fails.  A BleakError or a time-out
\* is tolerated and ends connect(); any other OSError fails the attempt.
CompositionAsked ==
  /\ connecting = "composing" /\ ~WritesBefore(mine, asked)
  /\ \/ /\ ConnectEnds /\ NoFault
        /\ Delivered(mine, [op |-> "composition", of |-> None, tid |-> None, val |-> 0],
                     asked, 0)
     \/ /\ LostOnAir /\ FaultIfUp(mine)
        /\ \/ ConnectEnds
           \/ AttemptFails(mine) /\ UNCHANGED <<attempt, mine, asked>>
  /\ UNCHANGED <<call, client, keys, stopping, stopOn, sendVars, rxVars,
                 linkVars, unanswered, late>>

\* client.disconnect() of the failed attempt.
AttemptClosed ==
  /\ connecting = "closing"
  /\ Down(mine)
  /\ connecting' = "backoff"
  /\ UNCHANGED <<call, client, keys, attempt, mine, asked, stopping, stopOn, sendVars,
                 rxVars, node, applied, faults, unanswered, late>>

NextAttempt ==
  /\ connecting = "backoff"
  /\ IF attempt < max_retries
     THEN connecting' = "opening" /\ attempt' = attempt + 1 /\ mine' = 0 /\ asked' = 0
     ELSE ConnectEnds
  /\ UNCHANGED <<call, client, keys, stopping, stopOn, sendVars, rxVars, linkVars,
                 nodeVars, history>>

\* The task that runs connect() is cancelled; nothing is undone.
ConnectCancelled ==
  /\ connecting # "idle" /\ Fault
  /\ ConnectEnds
  /\ UNCHANGED <<call, client, keys, stopping, stopOn, sendVars, rxVars,
                 linkVars, nodeVars, lossy, unanswered, late>>

\* disconnect() with neither client nor keys has nothing to do.
disconnect ==
  /\ stopping = "idle" /\ (client # 0 \/ keys) /\ Fault
  /\ IF client # 0
     THEN stopping' = "unsubscribing" /\ UNCHANGED keys
     ELSE keys' = FALSE /\ UNCHANGED stopping
  /\ stopOn' = client
  /\ UNCHANGED <<call, client, connecting, attempt, mine, asked, sendVars, rxVars,
                 linkVars, nodeVars, lossy, unanswered, late>>

\* stop_notify returned: the client is read again, and may be None by now.
Unsubscribed ==
  /\ stopping = "unsubscribing"
  /\ stopOn' = client
  /\ stopping' = IF client = 0 THEN "idle" ELSE "closing"
  /\ subscribed' = subscribed \ {stopOn}
  /\ UNCHANGED <<call, client, keys, connecting, attempt, mine, asked, sendVars, rxVars,
                 link, unreported, nodeVars, history>>

\* client.disconnect() returned: the client, whichever it is now, and the
\* keys are dropped.
Closed ==
  /\ stopping = "closing"
  /\ Down(stopOn)
  /\ client' = 0 /\ keys' = FALSE /\ stopping' = "idle" /\ stopOn' = 0
  /\ late' = (late \/ client \notin {0, stopOn})
  /\ UNCHANGED <<call, connecting, attempt, mine, asked, sendVars, rxVars, node, applied,
                 faults, unanswered>>

\* Mutant: the report leaves the client in place.
ReportKeepsClient(c) ==
  /\ c \in unreported
  /\ unreported' = unreported \ {c}
  /\ late' = (late \/ client \notin {0, c} \/ (connecting = "subscribing" /\ mine = c))
  /\ UNCHANGED <<call, client, keys, connecting, attempt, mine, asked, stopping, stopOn, sendVars, rxVars,
                 link, subscribed, nodeVars, faults, lossy, unanswered>>

\* The callback of client c: it does not look which client is current.
_on_ble_disconnect(c) ==
  /\ c \in unreported
  /\ unreported' = unreported \ {c}
  /\ client' = 0
  /\ late' = (late \/ client \notin {0, c} \/ (connecting = "subscribing" /\ mine = c))
  /\ UNCHANGED <<call, keys, connecting, attempt, mine, asked, stopping, stopOn, sendVars, rxVars,
                 link, subscribed, nodeVars, faults, lossy, unanswered>>

----------------------------------------------------------------------------
(* The send methods.                                                       *)

Retried(s) == Op(s) \in SetOps

\* Mutant: one attempt too many.
OneRetryMore(s) == Retried(s) /\ tries[s] <= DEFAULT_SIG_MESH_MAX_RETRIES

MayRetry(s) == Retried(s) /\ tries[s] < DEFAULT_SIG_MESH_MAX_RETRIES

\* _next_seq and _next_seqs: n numbers, the first of which is q.
_next_seqs(n) == seq' = seq + n

\* Where a sender goes when the n-th call of its method raised MeshConnectionError
\* or "Not connected".  The commands of an entity go through send_command_with_retry,
\* which calls the method again after a pause; those of the button and of the
\* identify service do not.
send_command_with_retry(s, n) ==
  IF call[s].entity /\ Retried(s) /\ n < DEFAULT_MAX_COMMAND_RETRIES THEN "idle" ELSE "done"

\* The check at the start of every method, and all up to the first write.  A
\* request registers its future before it writes; the transaction id is taken
\* once for all attempts of this call.
Send(s) ==
  /\ pc[s] = IF Op(s) = "vendor" THEN "asked" ELSE "idle"
  /\ calls' = [calls EXCEPT ![s] = @ + 1]
  /\ IF client = 0 \/ ~keys
     THEN /\ pc' = [pc EXCEPT ![s] = send_command_with_retry(s, calls[s] + 1)]
          /\ UNCHANGED <<tid, seq, on, tries, transaction, number, written, pending>>
     ELSE /\ pc' = [pc EXCEPT ![s] = "writing"]
          /\ on' = [on EXCEPT ![s] = client]
          /\ tries' = [tries EXCEPT ![s] = 1]
          /\ number' = [number EXCEPT ![s] = seq]
          /\ _next_seqs(Segments(s))
          /\ IF Retried(s)
             THEN transaction' = [transaction EXCEPT ![s] = tid] /\ tid' = (tid + 1) % 256
             ELSE UNCHANGED <<transaction, tid>>
          /\ pending' = IF Awaits(s) THEN Append(pending, s) ELSE pending
          /\ UNCHANGED written
  /\ UNCHANGED <<connVars, answer, buffers, old, composition, shown, whole, linkVars,
                 nodeVars, history>>

send_power(s) == Op(s) = "power" /\ Send(s)
send_level(s) == Op(s) \in {"level", "lightness"} /\ Send(s)
send_vendor_command(s) == Op(s) = "vendor" /\ Send(s)
send_config_appkey_add(s) == Op(s) = "appkey" /\ Send(s)
send_config_model_app_bind(s) == Op(s) = "bind" /\ Send(s)

\* The methods that wait for a status drop their registration however they end.
Unregister(s) ==
  IF s \in ToSet(pending)
  THEN \E i \in DOMAIN pending : pending[i] = s /\ pending' = RemoveAt(pending, i)
  ELSE UNCHANGED pending

Leaves(s, next) ==
  /\ pc' = [pc EXCEPT ![s] = next]
  /\ on' = [on EXCEPT ![s] = 0] /\ tries' = [tries EXCEPT ![s] = 0]
  /\ number' = [number EXCEPT ![s] = 0] /\ transaction' = [transaction EXCEPT ![s] = 0]
  /\ written' = [written EXCEPT ![s] = 0]
  /\ Unregister(s)
  /\ unanswered' = (unanswered \/ (Awaits(s) /\ answer[s] = None))
  /\ UNCHANGED calls

\* The method returns, or raises what nobody retries.
Ends(s) == Leaves(s, "done")

\* write_gatt_char returned: the next segment after a pause, the wait for the
\* status, or the end.
Written(s) ==
  /\ pc[s] = "writing" /\ ~WritesBefore(on[s], number[s])
  /\ IF Awaits(s)
     THEN /\ pc' = [pc EXCEPT ![s] = IF written[s] + 1 < Segments(s)
                                     THEN "backoff" ELSE "waiting"]
          /\ written' = [written EXCEPT ![s] = @ + 1]
          /\ number' = [number EXCEPT ![s] = @ + 1]
          /\ UNCHANGED <<on, tries, transaction, pending, calls, unanswered>>
     ELSE Ends(s)
  /\ \/ Delivered(on[s], Payload(s, transaction[s]), number[s], written[s]) /\ NoFault
     \/ LostOnAir /\ FaultIfUp(on[s])
  /\ UNCHANGED <<connVars, tid, seq, answer, buffers, old, composition, shown, whole,
                 linkVars, late>>

\* It raised, whether or not the PDU left: another attempt, or the method raises.
WriteFails(s) ==
  /\ pc[s] = "writing" /\ ~WritesBefore(on[s], number[s])
  /\ IF MayRetry(s)
     THEN /\ pc' = [pc EXCEPT ![s] = "backoff"]
          /\ UNCHANGED <<on, tries, transaction, number, written, pending, calls, unanswered>>
     ELSE Leaves(s, send_command_with_retry(s, calls[s]))
  /\ FaultIfUp(on[s])
  /\ \/ Delivered(on[s], Payload(s, transaction[s]), number[s], written[s])
     \/ LostOnAir
  /\ UNCHANGED <<connVars, tid, seq, answer, buffers, old, composition, shown, whole,
                 linkVars, late>>

\* Mutant: every attempt takes a transaction id of its own.
FreshTransaction(s) ==
  /\ number' = [number EXCEPT ![s] = seq]
  /\ tries' = [tries EXCEPT ![s] = @ + 1]
  /\ tid' = (tid + 1) % 256
  /\ transaction' = [transaction EXCEPT ![s] = tid]

\* A new attempt takes a new number and keeps the transaction id.
NextTry(s) ==
  /\ number' = [number EXCEPT ![s] = seq]
  /\ tries' = [tries EXCEPT ![s] = @ + 1]
  /\ UNCHANGED <<tid, transaction>>

\* After the pause keys and client are read again: one that is None by now is
\* an AttributeError, which no handler catches and nobody retries.
SendAgain(s) ==
  /\ pc[s] = "backoff"
  /\ IF client = 0 \/ ~keys
     THEN Ends(s) /\ UNCHANGED tid
     ELSE /\ pc' = [pc EXCEPT ![s] = "writing"]
          /\ on' = [on EXCEPT ![s] = client]
          /\ IF Retried(s) THEN NextTry(s) ELSE UNCHANGED <<number, tries, tid, transaction>>
          /\ UNCHANGED <<written, pending, calls, unanswered>>
  /\ seq' = IF Retried(s) THEN seq + 1 ELSE seq
  /\ UNCHANGED <<connVars, answer, buffers, old, composition, shown, whole,
                 linkVars, nodeVars, faults, lossy, late>>

\* The future is resolved, or the time to wait for it is over.
Resumed(s) ==
  /\ pc[s] = "waiting" /\ answer[s] # None
  /\ Ends(s)
  /\ UNCHANGED <<connVars, tid, seq, answer, buffers, old, composition, shown, whole,
                 linkVars, nodeVars, faults, lossy, late>>

TimedOut(s) ==
  /\ pc[s] = "waiting" /\ answer[s] = None
  /\ Fault
  /\ Ends(s)
  /\ UNCHANGED <<connVars, tid, seq, answer, buffers, old, composition, shown, whole,
                 linkVars, nodeVars, lossy, late>>

----------------------------------------------------------------------------
(* Notifications.                                                          *)

\* Mutant: the newest registration takes the status.
NewestFirst(op) ==
  LET match == {i \in DOMAIN pending : Status[Op(pending[i])] = op}
  IN  IF match = {} THEN 0 ELSE CHOOSE i \in match : \A j \in match : j <= i

\* The registration a status resolves: the oldest of its opcode; 0 is none.
Matched(op) ==
  LET match == {i \in DOMAIN pending : Status[Op(pending[i])] = op}
  IN  IF match = {} THEN 0 ELSE CHOOSE i \in match : \A j \in match : i <= j

\* round((level + 32768) * 255 / 65535), the quotient being by 257.
Brightness(level) == (2 * (level + 32768) + 257) \div 514

_on_onoff_update(val) == [shown EXCEPT !.is_on = val = 1]

\* Mutant: a level leaves is_on as it was.
LevelKeepsOn(level) == [shown EXCEPT !.brightness = Brightness(level)]

_on_level_update(level) ==
  [shown EXCEPT !.brightness = Brightness(level), !.is_on = Brightness(level) > 0]

\* The data points of a vendor frame: the power, in tenths of a watt.
_on_vendor_update(frame) ==
  LET power == {dp \in frame.dps : dp.dp_id = DP_ID_POWER_W}
  IN  IF power = {} THEN shown
      ELSE [shown EXCEPT !.power_w = (CHOOSE dp \in power : TRUE).value]

\* A request for the time starts _send_timestamp_response in a task of its
\* own, which calls send_vendor_command.
_send_timestamp_response ==
  LET free == {s \in Senders : Op(s) = "vendor" /\ pc[s] = "idle"}
  IN  IF free = {} THEN UNCHANGED pc
      ELSE \E s \in free : pc' = [pc EXCEPT ![s] = "asked"]

\* _dispatch_access_payload_unlocked: a registered request takes the status;
\* otherwise its opcode decides.
_dispatch_access_payload_unlocked(p) ==
  LET op == parse_access_opcode(p)
      i == Matched(op)
  IN  IF i # 0
      THEN /\ answer' = [answer EXCEPT ![pending[i]] = p.of]
           /\ pending' = RemoveAt(pending, i)
           /\ UNCHANGED <<shown, composition, pc>>
      ELSE /\ UNCHANGED <<answer, pending>>
           /\ shown' = CASE op = "onoff_status"     -> _on_onoff_update(p.val)
                         [] op = "level_status"     -> _on_level_update(p.val)
                         [] op = "lightness_status" -> _on_level_update(p.val - 32768)
                         [] op = "vendor_data"      -> _on_vendor_update(parse_tuya_vendor_frame(p))
                         [] OTHER                   -> shown
           /\ composition' = IF op = "composition" THEN parse_composition_data(p) ELSE composition
           /\ IF op = "vendor_data" /\ p.val.command = TUYA_CMD_TIMESTAMP_SYNC
              THEN _send_timestamp_response ELSE UNCHANGED pc

\* parse_segment_header puts a segment in the buffer of its (src, dst, seq_zero, aid);
\* here one node sends to one address with one key, so that seq_zero tells the buffers
\* apart.  seg_n is that of the segment that opened the buffer.
Collected(t) ==
  LET b == IF t.seq_zero \in DOMAIN buffers THEN buffers[t.seq_zero]
           ELSE [seg_n |-> t.seg_n, segs |-> [o \in {} |-> t]]
  IN  [b EXCEPT !.segs = [o \in DOMAIN b.segs \cup {t.seg_o} |->
                            IF o = t.seg_o THEN t ELSE b.segs[o]]]

\* Mutant: seg_n is taken for the number of segments.
CompleteEarly(b) == Cardinality(DOMAIN b.segs) = b.seg_n

Complete(b) == Cardinality(DOMAIN b.segs) = b.seg_n + 1

\* _clean_stale_buffers, after the segment was added: what is left of bs.
_clean_stale_buffers(bs) == [z \in DOMAIN bs \ old |-> bs[z]]

\* _handle_segment: collect, complete (_complete_reassembly pops the buffer
\* and dispatches what can be decrypted), then drop the stale buffers.
_handle_segment(t) ==
  LET zero == t.seq_zero
      b == Collected(t)
      kept == IF Complete(b) THEN [z \in DOMAIN buffers \ {zero} |-> buffers[z]]
              ELSE [z \in DOMAIN buffers \cup {zero} |->
                      IF z = zero THEN b ELSE buffers[z]]
      q == t.body.payload.val
  IN  /\ buffers' = _clean_stale_buffers(kept)
      /\ old' = {}
      /\ whole' = [r \in SeqNumbers |->
                     IF r % MESH_SEQ_ZERO \in old /\ ~Complete(b) THEN {}
                     ELSE IF r = q THEN whole[r] \cup {t.seg_o} ELSE whole[r]]
      /\ IF Complete(b) /\ reassemble_and_decrypt_segments(b, zero)
         THEN _dispatch_access_payload_unlocked(t.body.payload)
         ELSE UNCHANGED <<answer, pending, shown, composition, pc>>

\* _on_notify and the task it starts for _process_notify: a PDU that cannot be
\* read is dropped.  disconnect() cancels a task that has not run; for the
\* device that is a lost PDU.
_process_notify ==
  /\ air # <<>>
  /\ \E c \in subscribed : link[c] = "up"
  /\ LET pdu == parse_proxy_pdu(Head(air))
         t == pdu.body.payload
     IN  /\ air' = Tail(air)
         /\ IF ~keys \/ ~decrypt_network_pdu(pdu)
            THEN /\ lossy' = (lossy \/ ~keys)
                 /\ UNCHANGED <<rxVars, pc>>
            ELSE /\ UNCHANGED lossy
                 /\ IF t.seg THEN _handle_segment(t)
                    ELSE /\ IF decrypt_access_payload(pdu.seq, t)
                            THEN _dispatch_access_payload_unlocked(t.body.payload)
                            ELSE UNCHANGED <<answer, pending, shown, composition, pc>>
                         /\ UNCHANGED <<buffers, old, whole>>
  /\ UNCHANGED <<connVars, tid, seq, on, tries, transaction, number, written, calls,
                 linkVars, node, applied, faults, unanswered, late>>

\* _REASSEMBLY_TIMEOUT passes over a buffer.
BufferAges(z) ==
  /\ z \notin old /\ Fault
  /\ old' = old \cup {z}
  /\ UNCHANGED <<connVars, sendVars, pending, answer, buffers, composition, shown, whole,
                 linkVars, nodeVars, lossy, unanswered, late>>

----------------------------------------------------------------------------
Frames == {[command |-> TUYA_CMD_TIMESTAMP_SYNC, dps |-> {}],
           [command |-> TUYA_CMD_DP_DATA, dps |-> {[dp_id |-> DP_ID_POWER_W, value |-> 57]}]}

ConnStep ==
  \/ connect \/ _resolve_proxy_characteristics
  \/ request_composition_data \/ CompositionAsked \/ AttemptClosed \/ NextAttempt
  \/ ConnectCancelled
  \/ disconnect \/ Unsubscribed \/ Closed

SenderStep(s) ==
  \/ send_power(s) \/ send_level(s) \/ send_vendor_command(s)
  \/ send_config_appkey_add(s) \/ send_config_model_app_bind(s)
  \/ Written(s) \/ WriteFails(s) \/ SendAgain(s) \/ Resumed(s) \/ TimedOut(s)

Radio ==
  \/ \E c \in Sessions : LinkLost(c) \/ _on_ble_disconnect(c)
  \/ \E o \in {0, 1} : SegmentRepeated(o)
  \/ \E net \in {"ours", "other"} : \E frame \in Frames : UnsolicitedHeard(net, frame)
  \/ PDULost \/ _process_notify
  \/ \E z \in DOMAIN buffers : BufferAges(z)

Next == ConnStep \/ (\E s \in Senders : SenderStep(s)) \/ Radio

Spec == Init /\ [][Next]_vars

----------------------------------------------------------------------------
(* Properties.                                                             *)

\* As long as every disconnection is reported before the next connection is
\* set up, _client is the connection there is: a client that is current and
\* down is about to be reported, and once connect() has stored a client that
\* is up, nothing but its own loss or disconnect() takes its place.
ClientTracked ==
  ~late =>
    /\ client # 0 /\ link[client] = "down" => client \in unreported
    /\ \A c \in subscribed : link[c] = "up" /\ ~(connecting # "idle" /\ mine = c)
                               => client = c

\* Nothing disturbs the requests: none is given up, no PDU is lost or written to a
\* dead link, every disconnection is reported before the next connection, and there is
\* one AppKey Add at most, whose two segments no other AppKey Add comes between.
Undisturbed ==
  /\ ~lossy /\ ~unanswered /\ ~late
  /\ \A s \in Senders : pc[s] = "writing" => link[on[s]] = "up"
  /\ \A s, t \in Senders : Op(s) = "appkey" /\ Op(t) = "appkey" => s = t

\* Requests are told apart by their opcode only (_dispatch_access_payload_unlocked);
\* while nothing disturbs them, oldest first still gives each its own status.
AnsweredInOrder == Undisturbed => \A s \in Senders : answer[s] \in {None, s}

\* A segmented message that arrives whole, before its buffer is too old, is
\* read exactly when its number fits the 13 bits of seq_zero, however its
\* segments are repeated and whatever connection they came over.
WholeIsRead ==
  \A q \in SeqNumbers :
    /\ whole[q] = {0, 1} /\ q < MESH_SEQ_ZERO => composition # None
    /\ composition = q => q < MESH_SEQ_ZERO

\* A write that failed after the PDU had left is tried again under the same
\* transaction id (send_power, send_level): the node never applies one call of
\* the method twice in a row.  (send_command_with_retry calls the method again, and
\* each of its calls takes a new id: those are different calls here.)
NotAppliedTwice ==
  \A i \in 1..Len(applied) - 1 :
    <<applied[i].of, applied[i].nth>> # <<applied[i + 1].of, applied[i + 1].nth>>

\* When nothing is on its way and no PDU was lost, Home Assistant shows the
\* node's on/off state, whether it was last set by OnOff, Level or Lightness,
\* and the power it reported last, which frames of other meshes do not change
\* (coordinator.py, _on_level_update, _on_onoff_update, _on_vendor_update).
ShownIsActual ==
  ~lossy /\ air = <<>> => shown.is_on = node.on /\ shown.power_w = node.power
=============================================================================
