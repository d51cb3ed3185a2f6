---------------------------- MODULE Provisioning ----------------------------
(***************************************************************************)
(* Adding a SIG Mesh plug: the step of the config flow that provisions it  *)
(* (config_flow_sig.py: async_step_sig_plug, run_provision) and the        *)
(* PB-GATT provisioner it runs (lib/sig_mesh_provisioner*.py).  The user   *)
(* submits the form, and again after an error; run_provision gives the     *)
(* provisioner sixty seconds and cancels it wherever it is then.  Every    *)
(* await is a step boundary.                                               *)
(*                                                                         *)
(* Key pairs and random numbers are fresh: the provisioner's are named by  *)
(* the run, the device's by the BLE session.  The key derivations are      *)
(* symbolic terms.  The device is external: it follows the provisioning    *)
(* protocol, starts again when its link goes, may reject the data, and     *)
(* may want another authentication than No OOB.                            *)
(***************************************************************************)
EXTENDS Naturals, Sequences, SequencesExt, FiniteSets

CONSTANTS
  max_retries,  \* BLE connection attempts per run
  MaxRuns,      \* bound on submissions of the form
  MaxSessions,  \* bound on BLE clients opened
  MaxFaults,    \* bound on lost PDUs, lost links and failed calls
  Kinds         \* devices to be met: good, oob or full

ASSUME BoundsAssumption ==
  /\ max_retries \in Nat \ {0}
  /\ MaxRuns \in Nat /\ MaxSessions \in Nat /\ MaxFaults \in Nat
  /\ Kinds \subseteq {"good", "oob", "full"}

VARIABLES
  flow,       \* where the flow has come to
  runs,       \* submissions so far; the present run is the last
  attempt,    \* connection attempt of _connect
  client,     \* the provisioner's client; 0 is None
  then,       \* what follows once a failed attempt's client is closed
  outcome,    \* what provision() will end with: none, error or result
  step,       \* the step of _run_exchange
  part,       \* segments of its PDU written
  event,      \* rx_event is set
  rx,         \* rx_buffer
  sar,        \* rx_sar_buffer
  got,        \* what the device has sent: [caps, pub, conf, random]
  result,     \* the ProvisioningResult: [run, dev_key]
  creds,      \* the keys in the config entry
  sessions,   \* clients opened so far
  open,       \* clients that are connected
  subscribed, \* notifications are on
  air,        \* segments on their way from the device
  dev,        \* the device
  faults,     \* faults so far
  completed,  \* history: the present run received Complete
  expired,    \* history: the sixty seconds of the present run passed
  leaked      \* history: clients abandoned by a cancellation or a failed close

runVars == <<flow, runs, attempt, client, then, outcome>>
exchVars == <<step, part, event, rx, sar, got>>
resultVars == <<result, creds>>
radioVars == <<sessions, open, subscribed, air, dev>>
history == <<faults, completed, expired, leaked>>
vars == <<runVars, exchVars, resultVars, radioVars, history>>

None == <<>>
NoPDU == [type |-> "none", body |-> None]
Nothing == [caps |-> None, pub |-> None, conf |-> None, random |-> None]
NoResult == [net |-> 0, dev_key |-> None]

\* The steps of the exchange, by the PDU that is sent in them, and the answer
\* that is awaited in each.
Sends == <<"invite", "start", "public_key", "confirmation", "random", "data">>
Awaited == <<"capabilities", "none", "public_key", "confirmation", "random", "complete">>
Steps == DOMAIN Sends
Exchanging == {"pairing", "subscribing", "sending", "pausing", "receiving", "settling"}
Connecting == {"connecting", "services", "closing", "backoff"}
Leaving == {"unsubscribing", "disconnecting", "releasing"}
Ended == {"form", "created", "aborted"}

\* _wrap_provisioning_pdu: the SAR fields of a PDU in n segments.
_wrap_provisioning_pdu(n) ==
  IF n = 1 THEN <<"complete">>
  ELSE [i \in 1..n |-> IF i = 1 THEN "first" ELSE IF i = n THEN "last" ELSE "continuation"]

\* A public key does not fit one segment, nor do the data, at the smallest MTU.
Parts(t) == IF t = "public_key" THEN 3 ELSE IF t = "data" THEN 2 ELSE 1

----------------------------------------------------------------------------
(* Key derivation, as terms.                                               *)

ECDH(a, b) == {a, b}
s1(m) == <<"s1", m>>
k1(n, salt, p) == <<p, n, salt>>
aes_cmac(k, m) == <<"cmac", k, m>>

\* ConfirmationInputs, from both public keys and the capabilities.
ConfSalt(caps, ours, theirs) == s1(<<caps, ours, theirs>>)
ConfKey(secret, salt) == k1(secret, salt, "prck")
ProvSalt(salt, r, q) == s1(<<salt, r, q>>)
DevKey(secret, salt) == k1(secret, salt, "prdk")
SessionKey(secret, salt) == k1(secret, salt, "prsk")

Ours == <<"provisioner", runs>>        \* the key pair, and the random number
Theirs == <<"device", client>>

\* What the provisioner computes from what it has received.
Secret == ECDH(Ours, got.pub)
Salt == ConfSalt(got.caps, Ours, got.pub)
FullSalt == ProvSalt(Salt, Ours, got.random)

\* The body of the PDU of step k.
Body(k) ==
  CASE k = 4 -> aes_cmac(ConfKey(Secret, Salt), Ours)
    [] k = 6 -> SessionKey(Secret, FullSalt)
    [] OTHER -> Ours

----------------------------------------------------------------------------
Attempts == 0..max_retries
RunOrNone == 0..MaxRuns
Clients == 1..MaxSessions
ClientOrNone == 0..MaxSessions

FlowTypes ==
  /\ flow \in Ended \cup Connecting \cup Exchanging \cup Leaving \cup {"rebooting", "configuring"}
  /\ runs \in RunOrNone /\ attempt \in Attempts
  /\ client \in ClientOrNone
  /\ then \in {"none", "raise", "retry"}
  /\ outcome \in {"none", "error", "result"}

ExchangeTypes ==
  /\ step \in {0} \cup Steps /\ part \in 0..3
  /\ sar \in Seq(ToSet(sar)) /\ Len(sar) <= 2

ResultTypes == result.net \in RunOrNone /\ creds.net \in RunOrNone

RadioTypes ==
  /\ sessions \in ClientOrNone /\ open \subseteq Clients
  /\ air \in Seq(ToSet(air))
  /\ DOMAIN dev = {"phase", "heard", "kind", "pub", "conf", "random", "dev_key", "net"}
  /\ dev.phase \in {0} \cup Steps /\ dev.heard \in 0..2 /\ dev.kind \in Kinds
  /\ dev.net \in RunOrNone
  /\ faults \in 0..MaxFaults
  /\ leaked \subseteq Clients

FlagTypes ==
  /\ event \in BOOLEAN /\ subscribed \in BOOLEAN
  /\ completed \in BOOLEAN /\ expired \in BOOLEAN

\* The types: _connect makes no more than max_retries attempts, however its clients
\* are closed (sig_mesh_provisioner_connection.py, _connect), and what is kept of a
\* PDU until its last segment is never more than its other segments.
TypeOK == FlowTypes /\ ExchangeTypes /\ ResultTypes /\ RadioTypes /\ FlagTypes

Init ==
  /\ flow = "form" /\ runs = 0 /\ attempt = 0 /\ client = 0
  /\ then = "none" /\ outcome = "none"
  /\ step = 0 /\ part = 0 /\ event = FALSE /\ rx = NoPDU /\ sar = <<>> /\ got = Nothing
  /\ result = NoResult /\ creds = NoResult
  /\ sessions = 0 /\ open = {} /\ subscribed = FALSE /\ air = <<>>
  /\ dev \in [phase : {0}, heard : {0}, kind : Kinds, pub : {None}, conf : {None},
              random : {None}, dev_key : {None}, net : {0}]
  /\ faults = 0 /\ completed = FALSE /\ expired = FALSE /\ leaked = {}

Fault == faults < MaxFaults /\ faults' = faults + 1

----------------------------------------------------------------------------
(* The device and the radio (external).                                    *)

\* A device whose link goes forgets an exchange it has not finished.
Reset ==
  IF dev.phase = 6 THEN dev
  ELSE [dev EXCEPT !.phase = 0, !.heard = 0, !.pub = None, !.conf = None, !.random = None]

\* Client c is closed: nothing more comes over it.
Close(c) ==
  /\ open' = open \ {c}
  /\ air' = <<>> /\ subscribed' = FALSE
  /\ dev' = IF c \in open THEN Reset ELSE dev
  /\ UNCHANGED sessions

\* The segments of a PDU of the device.
Segments(type, body) ==
  LET w == _wrap_provisioning_pdu(Parts(type))
  IN  [i \in DOMAIN w |-> [sar |-> w[i], type |-> type, body |-> body, part |-> i]]

DevSecret == ECDH(Theirs, dev.pub)
DevSalt == ConfSalt(<<"caps", client>>, dev.pub, Theirs)
DevConfirmation ==
  IF dev.kind = "oob" THEN aes_cmac(ConfKey(DevSecret, DevSalt), <<"oob", client>>)
  ELSE aes_cmac(ConfKey(DevSecret, DevSalt), Theirs)

Fails == /\ dev' = [Reset EXCEPT !.heard = 0]
         /\ air' = air \o Segments("failed", None)

Answers(d, type, body) == dev' = [d EXCEPT !.heard = 0] /\ air' = air \o Segments(type, body)

\* The device has the PDU of step k with body b.
Reacts(k, b) ==
  LET d == [dev EXCEPT !.phase = k]
  IN  IF k # dev.phase + 1 THEN Fails ELSE
      CASE k = 1 -> Answers(d, "capabilities", <<"caps", client>>)
        [] k = 2 -> dev' = [d EXCEPT !.heard = 0] /\ UNCHANGED air
        [] k = 3 -> Answers([d EXCEPT !.pub = b], "public_key", Theirs)
        [] k = 4 -> Answers([d EXCEPT !.conf = b], "confirmation", DevConfirmation)
        [] k = 5 -> IF dev.conf = aes_cmac(ConfKey(DevSecret, DevSalt), b)
                    THEN Answers([d EXCEPT !.random = b], "random", Theirs)
                    ELSE Fails
        [] k = 6 -> LET salt == ProvSalt(DevSalt, dev.random, Theirs)
                    IN  IF dev.kind # "full" /\ b = SessionKey(DevSecret, salt)
                        THEN Answers([d EXCEPT !.dev_key = DevKey(DevSecret, salt),
                                               !.net = runs], "complete", None)
                        ELSE Fails

\* It hears a segment of step k; the reaction needs all of them.
Hears(k, b) ==
  IF dev.heard + 1 < Parts(Sends[k])
  THEN dev' = [dev EXCEPT !.heard = @ + 1] /\ UNCHANGED air
  ELSE Reacts(k, b)

LinkLost ==
  /\ client \in open /\ Fault
  /\ Close(client)
  /\ UNCHANGED <<runVars, exchVars, resultVars, completed, expired, leaked>>

PDULost ==
  /\ air # <<>> /\ Fault
  /\ air' = Tail(air)
  /\ UNCHANGED <<runVars, exchVars, resultVars, sessions, open, subscribed, dev,
                 completed, expired, leaked>>

----------------------------------------------------------------------------
(* async_step_sig_plug and _connect.                                       *)

Goes(f) == flow' = f /\ UNCHANGED <<runs, attempt, client, then, outcome>>

\* The form is submitted: new keys, a new provisioner, sixty seconds.
async_step_sig_plug ==
  /\ flow = "form" /\ runs < MaxRuns
  /\ runs' = runs + 1 /\ flow' = "connecting" /\ attempt' = 1
  /\ client' = 0 /\ then' = "none" /\ outcome' = "none"
  /\ result' = NoResult /\ completed' = FALSE /\ expired' = FALSE
  /\ UNCHANGED <<exchVars, creds, radioVars, faults, leaked>>

\* What _run_exchange keeps in its local variables goes when it is left.
ExchangeGone ==
  /\ step' = 0 /\ part' = 0 /\ event' = FALSE /\ rx' = NoPDU /\ sar' = <<>> /\ got' = Nothing

\* provision() is over without a result: the form is shown with the error.
RunFails ==
  /\ flow' = "form" /\ attempt' = 0 /\ client' = 0 /\ then' = "none" /\ outcome' = "none"
  /\ ExchangeGone
  /\ UNCHANGED runs

\* The device is not in the scan, or the connector fails or times out.
ConnectFails ==
  /\ flow = "connecting" /\ Fault
  /\ Goes("backoff")
  /\ UNCHANGED <<exchVars, resultVars, radioVars, completed, expired, leaked>>

\* A new client is not subscribed, and what a client abandoned earlier still
\* hears goes to the buffers of the exchange that subscribed it, which is over.
Connected ==
  /\ flow = "connecting" /\ sessions < MaxSessions
  /\ sessions' = sessions + 1 /\ open' = open \cup {sessions + 1}
  /\ client' = sessions + 1
  /\ flow' = "services" /\ UNCHANGED <<runs, attempt, then, outcome>>
  /\ subscribed' = FALSE /\ air' = <<>>
  /\ UNCHANGED <<exchVars, resultVars, dev, history>>

\* The services are listed: without the provisioning service or without a link
\* the client is closed and the error raised; an error of the call itself closes
\* it for another attempt, but a time-out is tolerated, whatever the device is.
CloseClient(why) == flow' = "closing" /\ then' = why /\ UNCHANGED <<runs, attempt, client, outcome>>

_connect ==
  /\ flow = "services"
  /\ \/ client \in open /\ dev.phase # 6 /\ Goes("pairing") /\ UNCHANGED faults
     \/ (client \notin open \/ dev.phase = 6) /\ CloseClient("raise") /\ UNCHANGED faults
     \/ (CloseClient("retry") \/ Goes("pairing")) /\ Fault
  /\ UNCHANGED <<exchVars, resultVars, radioVars, completed, expired, leaked>>

AttemptClosed ==
  /\ flow = "closing"
  /\ Close(client)
  /\ IF then = "raise" THEN RunFails
     ELSE /\ flow' = "backoff" /\ client' = 0 /\ then' = "none"
          /\ UNCHANGED <<runs, attempt, outcome, exchVars>>
  /\ UNCHANGED <<resultVars, history>>

\* disconnect() raised: suppressed before the error is raised; before another
\* attempt an OSError is suppressed too, but a BleakError ends the run.
AttemptNotClosed ==
  /\ flow = "closing" /\ Fault
  /\ \/ RunFails
     \/ /\ then = "retry"
        /\ flow' = "backoff" /\ client' = 0 /\ then' = "none"
        /\ UNCHANGED <<runs, attempt, outcome, exchVars>>
  /\ leaked' = leaked \cup {client}
  /\ UNCHANGED <<resultVars, radioVars, completed, expired>>

\* Mutant: one attempt too many.
OneAttemptMore == attempt <= max_retries

MoreAttempts == attempt < max_retries

NextAttempt ==
  /\ flow = "backoff"
  /\ IF MoreAttempts
     THEN /\ flow' = "connecting" /\ attempt' = attempt + 1
          /\ UNCHANGED <<runs, client, then, outcome, exchVars>>
     ELSE RunFails
  /\ UNCHANGED <<resultVars, radioVars, history>>

----------------------------------------------------------------------------
(* _run_exchange.                                                          *)

\* It ends by an error or with the result; provision() then closes the client.
Ends(how) ==
  /\ flow' = "unsubscribing" /\ outcome' = how
  /\ ExchangeGone
  /\ UNCHANGED <<runs, attempt, client, then>>

\* pair() may fail with an OSError or a time-out; a BleakError ends the run.
Paired ==
  /\ flow = "pairing"
  /\ \/ Goes("subscribing") /\ UNCHANGED <<exchVars, faults>>
     \/ Ends("error") /\ Fault
  /\ UNCHANGED <<resultVars, radioVars, completed, expired, leaked>>

Subscribed ==
  /\ flow = "subscribing"
  /\ \/ /\ client \in open /\ dev.phase # 6 /\ UNCHANGED faults
        /\ Goes("sending") /\ step' = 1
        /\ subscribed' = TRUE /\ UNCHANGED <<part, event, rx, sar, got>>
     \/ /\ Ends("error") /\ UNCHANGED subscribed
        /\ IF client \in open /\ dev.phase # 6 THEN Fault ELSE UNCHANGED faults
  /\ UNCHANGED <<resultVars, sessions, open, air, dev, completed, expired, leaked>>

\* send_prov: one write per segment; the device may hear it before the write
\* has returned.  The sleeps after it are the pause.
send_prov ==
  /\ flow = "sending" /\ client \in open
  /\ Goes("pausing") /\ part' = part + 1
  /\ \/ Hears(step, Body(step)) /\ UNCHANGED faults
     \/ Fault /\ UNCHANGED <<dev, air>>
  /\ UNCHANGED <<step, event, rx, sar, got, resultVars, sessions, open, subscribed,
                 completed, expired, leaked>>

\* The write raises: the link is down, or the call failed, whether or not the
\* device has heard the segment.
SendFails ==
  /\ flow = "sending"
  /\ Ends("error")
  /\ \/ client \notin open /\ UNCHANGED <<dev, air, faults>>
     \/ client \in open /\ Fault /\ (Hears(step, Body(step)) \/ UNCHANGED <<dev, air>>)
  /\ UNCHANGED <<resultVars, sessions, open, subscribed, completed, expired, leaked>>

\* The next segment; or the next step, if no answer is awaited; or recv_prov,
\* which begins with a new event, whatever has arrived by then.
recv_prov ==
  /\ flow = "pausing"
  /\ IF part < Parts(Sends[step])
     THEN Goes("sending") /\ UNCHANGED <<step, part, event>>
     ELSE IF Awaited[step] = "none"
     THEN Goes("sending") /\ step' = step + 1 /\ part' = 0 /\ UNCHANGED event
     ELSE Goes("receiving") /\ event' = FALSE /\ part' = 0 /\ UNCHANGED step
  /\ UNCHANGED <<rx, sar, got, resultVars, radioVars, history>>

\* The bytes of the segments put together: the PDU, if none is missing.
Reassembled(segs) ==
  IF Len(segs) = Parts(segs[1].type)
     /\ \A i \in DOMAIN segs : segs[i].part = i /\ segs[i].type = segs[1].type
  THEN [type |-> segs[1].type, body |-> segs[1].body]
  ELSE [type |-> "garbage", body |-> None]

\* _process_notify, under its lock, which is never contended.
_process_notify ==
  /\ air # <<>> /\ subscribed /\ flow \in Exchanging
  /\ LET n == Head(air)
     IN  CASE n.sar = "complete" ->
                /\ rx' = Reassembled(<<n>>) /\ event' = TRUE /\ UNCHANGED sar
           [] n.sar = "first" -> sar' = <<n>> /\ UNCHANGED <<rx, event>>
           [] n.sar = "continuation" -> sar' = Append(sar, n) /\ UNCHANGED <<rx, event>>
           [] n.sar = "last" ->
                /\ rx' = Reassembled(Append(sar, n)) /\ event' = TRUE /\ sar' = <<>>
  /\ air' = Tail(air)
  /\ UNCHANGED <<runVars, step, part, got, resultVars, sessions, open, subscribed, dev,
                 history>>

\* Mutant: any readable PDU is taken for Complete.
AnythingCompletes(t) == t # "garbage"

\* The answer to the data: anything but Complete is an error.
Completes(t) == t = "complete"

\* check_pdu and the checks of each step; the public key must be whole, the
\* confirmation must be the one of the random number that follows it.
check_pdu(k) ==
  IF k = 6 THEN Completes(rx.type)
  ELSE /\ rx.type = Awaited[k]
       /\ k = 5 => got.conf = aes_cmac(ConfKey(Secret, Salt), rx.body)

Learned(k) ==
  CASE k = 1 -> [got EXCEPT !.caps = rx.body]
    [] k = 3 -> [got EXCEPT !.pub = rx.body]
    [] k = 4 -> [got EXCEPT !.conf = rx.body]
    [] k = 5 -> [got EXCEPT !.random = rx.body]
    [] OTHER -> got

\* recv_prov returns rx_buffer as it is then.
Received ==
  /\ flow = "receiving" /\ event
  /\ IF ~check_pdu(step)
     THEN Ends("error") /\ UNCHANGED <<result, completed>>
     ELSE IF step = 6
     THEN /\ Goes("settling")
          /\ result' = [net |-> runs, dev_key |-> DevKey(Secret, FullSalt)]
          /\ completed' = TRUE
          /\ UNCHANGED exchVars
     ELSE /\ Goes("sending") /\ step' = step + 1
          /\ got' = Learned(step)
          /\ UNCHANGED <<part, event, rx, sar, result, completed>>
  /\ UNCHANGED <<creds, radioVars, faults, expired, leaked>>

ReceiveTimesOut ==
  /\ flow = "receiving" /\ ~event
  /\ Ends("error")
  /\ UNCHANGED <<resultVars, radioVars, history>>

Settled ==
  /\ flow = "settling"
  /\ Ends("result")
  /\ UNCHANGED <<resultVars, radioVars, history>>

----------------------------------------------------------------------------
(* The end of provision(), and run_provision.                              *)

\* Mutant: the client is not disconnected.
NotDisconnected ==
  /\ flow = "unsubscribing"
  /\ Goes("releasing")
  /\ UNCHANGED <<exchVars, resultVars, radioVars, history>>

\* The finally clause of provision(): stop_notify, disconnect, a pause.
Unsubscribed ==
  /\ flow = "unsubscribing"
  /\ Goes("disconnecting")
  /\ UNCHANGED <<exchVars, resultVars, radioVars, history>>

Disconnected ==
  /\ flow = "disconnecting"
  /\ Goes("releasing")
  /\ \/ Close(client) /\ UNCHANGED <<faults, leaked>>
     \/ Fault /\ leaked' = leaked \cup {client} /\ UNCHANGED radioVars
  /\ UNCHANGED <<exchVars, resultVars, completed, expired>>

provision ==
  /\ flow = "releasing"
  /\ IF outcome = "result" THEN Goes("rebooting") /\ UNCHANGED exchVars ELSE RunFails
  /\ UNCHANGED <<resultVars, radioVars, history>>

\* The sixty seconds are over: the task is cancelled where it stands.  The
\* exchange is left through the finally clause; _connect has none, and a
\* finally clause that is cancelled skips the rest.
Expires ==
  /\ flow \in Connecting \cup Exchanging \cup Leaving /\ ~expired
  /\ expired' = TRUE
  /\ IF flow \in Exchanging THEN Ends("error") ELSE RunFails
  /\ leaked' = IF flow \in {"services", "closing", "unsubscribing", "disconnecting"}
               THEN leaked \cup {client} ELSE leaked
  /\ UNCHANGED <<resultVars, radioVars, faults, completed>>

\* After the reboot the device is configured over the proxy: the connection
\* fails, or the call of a method that does not exist; both are logged only.
Rebooted ==
  /\ flow = "rebooting"
  /\ Goes("configuring")
  /\ UNCHANGED <<exchVars, resultVars, radioVars, history>>

\* The entry is created, unless another flow has made one for the device, which
\* ends this one and its keys (_abort_if_unique_id_configured).
run_provision ==
  /\ flow = "configuring"
  /\ \/ Goes("created") /\ creds' = result
     \/ Goes("aborted") /\ UNCHANGED creds
  /\ UNCHANGED <<exchVars, result, radioVars, history>>

----------------------------------------------------------------------------
Task ==
  \/ ConnectFails \/ Connected \/ _connect \/ AttemptClosed \/ AttemptNotClosed
  \/ NextAttempt
  \/ Paired \/ Subscribed \/ send_prov \/ SendFails \/ recv_prov \/ Received
  \/ ReceiveTimesOut \/ Settled
  \/ Unsubscribed \/ Disconnected \/ provision \/ Rebooted \/ run_provision

Next == async_step_sig_plug \/ Task \/ Expires \/ _process_notify \/ LinkLost \/ PDULost

\* The event loop runs the task until it has ended: calls return or raise, and
\* the timers run out.
Spec == Init /\ [][Next]_vars /\ WF_vars(Task) /\ WF_vars(Expires)

----------------------------------------------------------------------------
(* Properties.                                                             *)

\* An entry holds the keys the device was given in that very run; and when the
\* form is shown again although the device was provisioned, with keys nobody has,
\* it was cut off after the data had left: its Complete did not come in time, or
\* the sixty seconds ran out.
Agreement ==
  /\ creds # NoResult => dev.phase = 6 /\ dev.net = creds.net /\ dev.dev_key = creds.dev_key
  /\ flow = "form" /\ dev.net = runs /\ runs > 0 => ~completed \/ expired

\* Every submission ends, whatever is lost, and then no client is left
\* connected but those a cancellation or a failing disconnect() abandoned.
RunEnds == (flow \notin Ended) ~> (flow \in Ended /\ open \subseteq leaked)

=============================================================================
