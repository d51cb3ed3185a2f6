------------------------- MODULE ProvisioningProofs -------------------------
(***************************************************************************)
(* Proofs about Provisioning for every number of attempts, of submissions  *)
(* of the form, of BLE clients and of faults, and every kind of device.    *)
(***************************************************************************)
EXTENDS Provisioning, SequenceFacts

USE BoundsAssumption

-----------------------------------------------------------------------------
(* The invariant.                                                          *)

\* From the moment the services are listed until the client is disconnected
\* there is a client; an abandoned one is a client.
HasClient ==
  /\ client <= sessions
  /\ flow \in {"services", "closing", "unsubscribing", "disconnecting"} \cup Exchanging =>
       client # 0

\* Where the exchange has come to: while it sends, a segment is left to send,
\* and it waits only for an answer that comes.
InStep ==
  /\ flow \in {"sending", "pausing", "receiving"} => step \in Steps
  /\ flow = "sending" => part < Parts(Sends[step])
  /\ flow \notin {"sending", "pausing"} => part = 0
  /\ flow \notin Exchanging => sar = <<>> /\ rx = NoPDU
  /\ flow \notin {"sending", "pausing", "receiving", "settling"} => step = 0
  /\ flow = "settling" => step = 6
  /\ flow = "receiving" => Awaited[step] # "none"

\* What the device sends: a public key in three segments, the rest in one; and
\* Complete only once it has its keys.
SarOf(p) == IF p = 1 THEN "first" ELSE IF p = 3 THEN "last" ELSE "continuation"
IsPublicKey(n) == n.type = "public_key"
SegmentTrue(n, phase) ==
  /\ IsPublicKey(n) => n.part \in 1..3 /\ n.sar = SarOf(n.part)
  /\ ~IsPublicKey(n) => n.sar = "complete"
  /\ n.type = "complete" => phase = 6
SegmentsTrue == \A i \in DOMAIN air : SegmentTrue(air[i], dev.phase)

\* The device sends its public key once in an exchange, so that the segments
\* kept, and those on their way, are in their order.
InOrder ==
  /\ \A i, j \in DOMAIN air :
       i < j /\ IsPublicKey(air[i]) /\ IsPublicKey(air[j]) => air[i].part < air[j].part
  /\ \A i \in DOMAIN sar : IsPublicKey(sar[i]) /\ sar[i].part \in 1..2
  /\ \A i, j \in DOMAIN sar : i < j => sar[i].part < sar[j].part
  /\ \A i \in DOMAIN sar, j \in DOMAIN air :
       IsPublicKey(air[j]) => sar[i].part < air[j].part
  /\ flow = "services" => air = <<>>
  /\ flow \in Exchanging /\ (sar # <<>> \/ \E i \in DOMAIN air : IsPublicKey(air[i])) =>
       step >= 3 /\ dev.phase \notin {1, 2}

\* A device met in an exchange, once it is subscribed to, that has its keys was given
\* them in this exchange, and computed them from what the provisioner knows.
Talking == {"sending", "pausing", "receiving", "settling"}
ProvisionedHere ==
  /\ rx.type = "complete" => dev.phase = 6
  /\ flow \in Talking /\ dev.phase = 6 =>
       step = 6 /\ dev.net = runs /\ dev.dev_key = DevKey(Secret, FullSalt)

\* A result is on its way to the entry, and is what the device has.
Succeeding ==
  \/ flow = "settling"
  \/ flow \in Leaving /\ outcome = "result"
  \/ flow \in {"rebooting", "configuring", "created"}
ResultHeld ==
  /\ Succeeding =>
       dev.phase = 6 /\ dev.net = result.net /\ dev.dev_key = result.dev_key
  /\ creds # NoResult => flow = "created" /\ creds = result
  /\ completed /\ ~expired => Succeeding \/ flow = "aborted"

IInv ==
  /\ TypeOK /\ HasClient /\ InStep /\ SegmentsTrue /\ InOrder
  /\ ProvisionedHere /\ ResultHeld

-----------------------------------------------------------------------------
(* Steps and segments.                                                     *)

\* The steps of the exchange and the segments of their PDUs.
LEMMA StepFacts ==
  /\ Steps = 1..6
  /\ \A k \in Steps : Parts(Sends[k]) \in 1..3 /\ (k # 2 => Awaited[k] # "none")
  /\ Awaited[2] = "none" /\ Parts(Sends[6]) = 2
  /\ Sends[1] = "invite" /\ Sends[2] = "start" /\ Sends[3] = "public_key"
  /\ Sends[4] = "confirmation" /\ Sends[5] = "random" /\ Sends[6] = "data"
<1>1. DOMAIN Sends = 1..6
  BY DEF Sends
<1>2. /\ Sends[1] = "invite" /\ Sends[2] = "start" /\ Sends[3] = "public_key"
      /\ Sends[4] = "confirmation" /\ Sends[5] = "random" /\ Sends[6] = "data"
  BY DEF Sends
<1>3. /\ Awaited[1] = "capabilities" /\ Awaited[2] = "none" /\ Awaited[3] = "public_key"
      /\ Awaited[4] = "confirmation" /\ Awaited[5] = "random" /\ Awaited[6] = "complete"
  BY DEF Awaited
<1>4. Steps = 1..6
  BY <1>1 DEF Steps
<1>5. \A k \in Steps : k = 1 \/ k = 2 \/ k = 3 \/ k = 4 \/ k = 5 \/ k = 6
  BY <1>4
<1>6. \A t : Parts(t) \in 1..3
  BY DEF Parts
<1>7. Parts("data") = 2
  BY DEF Parts
<1>. QED  BY <1>2, <1>3, <1>4, <1>5, <1>6, <1>7

\* A PDU of the device: a public key in three segments, another PDU in one.
LEMMA SegmentFacts ==
  ASSUME NEW t \in {"failed", "capabilities", "public_key", "confirmation", "random",
                       "complete"},
         NEW body
  PROVE  /\ Segments(t, body) \in Seq(ToSet(Segments(t, body)))
         /\ \A i \in DOMAIN Segments(t, body) :
              LET n == Segments(t, body)[i]
              IN  /\ n.type = t /\ n.part = i /\ i \in 1..3
                  /\ t = "public_key" => n.sar = SarOf(i)
                  /\ t # "public_key" => n.sar = "complete" /\ i = 1
<1> DEFINE S == Segments(t, body)
           w == _wrap_provisioning_pdu(Parts(t))
<1>1. t = "public_key" => w = [i \in 1..3 |-> SarOf(i)]
  <2>1. _wrap_provisioning_pdu(3) = [i \in 1..3 |-> SarOf(i)]
    <3>1. 3 # 1
      OBVIOUS
    <3>. QED  BY <3>1, Zenon DEF _wrap_provisioning_pdu, SarOf
  <2>2. Parts("public_key") = 3
    BY DEF Parts
  <2>. QED  BY <2>1, <2>2
<1>2. t # "public_key" => w = <<"complete">>
  BY DEF _wrap_provisioning_pdu, Parts
<1> HIDE DEF w
<1>3. PICK k \in 1..3 :
         /\ DOMAIN w = 1..k
         /\ t # "public_key" => k = 1
         /\ \A i \in 1..k : w[i] = IF t = "public_key" THEN SarOf(i) ELSE "complete"
  <2>1. CASE t = "public_key"
    BY <1>1, <2>1
  <2>2. CASE t # "public_key"
    <3>1. DOMAIN w = 1..1 /\ w[1] = "complete"
      BY <1>2, <2>2
    <3>. QED  BY <2>2, <3>1
  <2>. QED  BY <2>1, <2>2
<1>4. S = [i \in 1..k |-> [sar |-> w[i], type |-> t, body |-> body, part |-> i]]
  BY <1>3 DEF Segments, w
<1>5. \A i \in 1..k : /\ S[i].type = t /\ S[i].part = i /\ S[i].sar = w[i]
  BY <1>4
<1>6. DOMAIN S = 1..k /\ S \in [1..k -> ToSet(S)]
  BY <1>4 DEF ToSet
<1>7. S \in Seq(ToSet(S))
  <2> HIDE DEF S
  <2>. QED  BY <1>6, SeqDef
<1> HIDE DEF S
<1>8. /\ S \in Seq(ToSet(S))
      /\ \A i \in DOMAIN S :
           LET n == S[i]
           IN  /\ n.type = t /\ n.part = i /\ i \in 1..3
               /\ t = "public_key" => n.sar = SarOf(i)
               /\ t # "public_key" => n.sar = "complete" /\ i = 1
  BY <1>3, <1>5, <1>6, <1>7
<1>. QED  BY <1>8 DEF S

-----------------------------------------------------------------------------
(* The device.                                                             *)

Answer == {"failed", "capabilities", "public_key", "confirmation", "random", "complete"}

\* What a segment that reaches the device changes: nothing that is looked at, or
\* its phase; it answers with a failure, with the next PDU, or with Complete once
\* it has computed its key from the secret and the numbers of both sides.
Silent ==
  /\ air' = air /\ dev'.net = dev.net /\ dev'.dev_key = dev.dev_key
  /\ dev'.phase = dev.phase \/ (step = 2 /\ dev.phase = 1 /\ dev'.phase = 2)

Failing ==
  /\ air' = air \o Segments("failed", None)
  /\ dev'.net = dev.net /\ dev'.dev_key = dev.dev_key
  /\ dev'.phase = IF dev.phase = 6 THEN 6 ELSE 0

Following ==
  /\ step \in {1, 3, 4, 5} /\ dev.phase = step - 1 /\ dev'.phase = step
  /\ dev'.net = dev.net /\ dev'.dev_key = dev.dev_key
  /\ \E t \in Answer \ {"complete"} : \E b :
       (step = 3 <=> t = "public_key") /\ air' = air \o Segments(t, b)

Completing ==
  /\ step = 6 /\ dev'.phase = 6 /\ air' = air \o Segments("complete", None)
  /\ dev'.net = runs /\ dev'.dev_key = DevKey(Secret, FullSalt)

\* A device is a record of its fields.
LEMMA DeviceRecord ==
  ASSUME RadioTypes
  PROVE  /\ DOMAIN Reset = DOMAIN dev /\ Reset.kind = dev.kind /\ Reset.net = dev.net
         /\ Reset.dev_key = dev.dev_key
         /\ Reset.phase = IF dev.phase = 6 THEN 6 ELSE 0
         /\ Reset.heard \in 0..2
BY DEF RadioTypes, Reset

LEMMA DeviceReacts ==
  ASSUME RadioTypes, step \in Steps, Reacts(step, Body(step))
  PROVE  /\ DOMAIN dev' = DOMAIN dev /\ dev'.kind = dev.kind /\ dev'.heard = 0
         /\ Silent \/ Failing \/ Following \/ Completing
<1> USE StepFacts
<1> DEFINE d == [dev EXCEPT !.phase = step]
<1>d. /\ DOMAIN d = DOMAIN dev /\ d.phase = step /\ d.kind = dev.kind
      /\ d.net = dev.net /\ d.dev_key = dev.dev_key
  BY DEF RadioTypes
<1>f. ASSUME Fails
      PROVE  DOMAIN dev' = DOMAIN dev /\ dev'.kind = dev.kind /\ dev'.heard = 0 /\ Failing
  <2>1. /\ DOMAIN Reset = DOMAIN dev /\ Reset.kind = dev.kind /\ Reset.net = dev.net
        /\ Reset.dev_key = dev.dev_key
        /\ Reset.phase = IF dev.phase = 6 THEN 6 ELSE 0
    BY DeviceRecord
  <2>2. dev' = [Reset EXCEPT !.heard = 0] /\ air' = air \o Segments("failed", None)
    BY <1>f DEF Fails
  <2> HIDE DEF d
  <2>. QED  BY <2>1, <2>2 DEF Failing, RadioTypes
<1>a. ASSUME NEW e, DOMAIN e = DOMAIN dev, e.phase = step, e.kind = dev.kind,
             e.net = dev.net, e.dev_key = dev.dev_key, dev.phase = step - 1,
             step \in {1, 3, 4, 5},
             NEW t \in Answer \ {"complete"}, step = 3 <=> t = "public_key", NEW b,
             Answers(e, t, b)
      PROVE  DOMAIN dev' = DOMAIN dev /\ dev'.kind = dev.kind /\ dev'.heard = 0 /\ Following
  <2>1. dev' = [e EXCEPT !.heard = 0] /\ air' = air \o Segments(t, b)
    BY <1>a DEF Answers
  <2> HIDE DEF d
  <2>. QED  BY <1>a, <2>1 DEF Following, RadioTypes
<1>1. CASE step # dev.phase + 1
  BY <1>1, <1>f DEF Reacts
<1>2. CASE step = dev.phase + 1
  <2>0. dev.phase = step - 1 /\ dev.phase \in 0..5
    BY <1>2 DEF RadioTypes
  <2>1. CASE step = 1
    <3>1. Answers(d, "capabilities", <<"caps", client>>)
      BY <1>2, <2>1 DEF Reacts
    <3> HIDE DEF d
    <3>. QED  BY <1>a, <1>d, <2>0, <2>1, <3>1 DEF Answer
  <2>2. CASE step = 2
    <3>1. dev' = [d EXCEPT !.heard = 0] /\ air' = air
      BY <1>2, <2>2 DEF Reacts
    <3>. QED  BY <2>0, <2>2, <3>1 DEF Silent, RadioTypes
  <2>3. CASE step = 3
    <3> DEFINE e == [d EXCEPT !.pub = Body(step)]
    <3>1. Answers(e, "public_key", Theirs)
      BY <1>2, <2>3 DEF Reacts
    <3>2. /\ DOMAIN e = DOMAIN dev /\ e.phase = step /\ e.kind = dev.kind
          /\ e.net = dev.net /\ e.dev_key = dev.dev_key
      BY DEF RadioTypes
    <3> HIDE DEF d, e
    <3>. QED  BY <1>a, <2>0, <2>3, <3>1, <3>2 DEF Answer
  <2>4. CASE step = 4
    <3> DEFINE e == [d EXCEPT !.conf = Body(step)]
    <3>1. Answers(e, "confirmation", DevConfirmation)
      BY <1>2, <2>4 DEF Reacts
    <3>2. /\ DOMAIN e = DOMAIN dev /\ e.phase = step /\ e.kind = dev.kind
          /\ e.net = dev.net /\ e.dev_key = dev.dev_key
      BY DEF RadioTypes
    <3> HIDE DEF d, e
    <3>. QED  BY <1>a, <2>0, <2>4, <3>1, <3>2 DEF Answer
  <2>5. CASE step = 5
    <3> DEFINE e == [d EXCEPT !.random = Body(step)]
    <3>1. Fails \/ Answers(e, "random", Theirs)
      BY <1>2, <2>5 DEF Reacts
    <3>2. /\ DOMAIN e = DOMAIN dev /\ e.phase = step /\ e.kind = dev.kind
          /\ e.net = dev.net /\ e.dev_key = dev.dev_key
      BY DEF RadioTypes
    <3> HIDE DEF d, e
    <3>. QED  BY <1>a, <1>f, <2>0, <2>5, <3>1, <3>2 DEF Answer
  <2>6. CASE step = 6
    <3> DEFINE salt == ProvSalt(DevSalt, dev.random, Theirs)
               e == [d EXCEPT !.dev_key = DevKey(DevSecret, salt), !.net = runs]
    <3>1. \/ Fails
          \/ Answers(e, "complete", None) /\ Body(6) = SessionKey(DevSecret, salt)
      BY <1>2, <2>6 DEF Reacts
    <3>2. /\ DOMAIN e = DOMAIN dev /\ e.phase = step /\ e.kind = dev.kind
          /\ e.net = runs /\ e.dev_key = DevKey(DevSecret, salt)
      BY DEF RadioTypes
    <3> HIDE DEF d, e
    <3>3. CASE Answers(e, "complete", None) /\ Body(6) = SessionKey(DevSecret, salt)
      <4>1. Body(6) = SessionKey(Secret, FullSalt)
        BY DEF Body
      <4>2. Secret = DevSecret /\ FullSalt = salt
        BY <3>3, <4>1 DEF SessionKey, k1
      <4>3. dev' = [e EXCEPT !.heard = 0] /\ air' = air \o Segments("complete", None)
        BY <3>3 DEF Answers
      <4> HIDE DEF salt
      <4>. QED  BY <2>6, <3>2, <4>2, <4>3 DEF Completing, RadioTypes
    <3>. QED  BY <1>f, <3>1, <3>3
  <2>. QED  BY <2>1, <2>2, <2>3, <2>4, <2>5, <2>6
<1>. QED  BY <1>1, <1>2 DEF RadioTypes

\* A write, heard or lost, whether it returns or raises.
Writes == flow = "sending" /\ (Hears(step, Body(step)) \/ UNCHANGED <<dev, air>>)

LEMMA BothWrite == (send_prov => Writes) /\ (SendFails => Writes)
BY DEF send_prov, SendFails, Writes

LEMMA SendProv ==
  ASSUME IInv, Writes
  PROVE  /\ step \in Steps /\ part < Parts(Sends[step])
         /\ DOMAIN dev' = DOMAIN dev /\ dev'.kind = dev.kind /\ dev'.heard \in 0..2
         /\ Silent \/ Failing \/ Following \/ Completing
<1>1. step \in Steps /\ part < Parts(Sends[step])
  BY DEF IInv, InStep, Writes
<1>2. CASE UNCHANGED <<dev, air>>
  BY <1>1, <1>2 DEF Silent, IInv, TypeOK, RadioTypes
<1>3. CASE Hears(step, Body(step))
  <2>1. CASE Reacts(step, Body(step))
    BY <1>1, <2>1, DeviceReacts DEF IInv, TypeOK
  <2>2. CASE dev.heard + 1 < Parts(Sends[step]) /\ dev' = [dev EXCEPT !.heard = @ + 1]
             /\ air' = air
    BY <1>1, <2>2, StepFacts DEF Silent, IInv, TypeOK, RadioTypes
  <2>. QED  BY <1>3, <2>1, <2>2 DEF Hears
<1>. QED  BY <1>2, <1>3 DEF Writes

\* A notification: a whole PDU, or a segment of the public key.
LEMMA Notified ==
  ASSUME IInv, _process_notify
  PROVE  /\ flow \in Exchanging /\ UNCHANGED <<runVars, step, part, got, resultVars, dev>>
         /\ 1 \in DOMAIN air /\ air' = Tail(air) /\ air \in Seq(ToSet(air)) /\ air # <<>>
         /\ \/ /\ ~IsPublicKey(air[1])
               /\ rx' = Reassembled(<<air[1]>>) /\ event' = TRUE /\ UNCHANGED sar
            \/ /\ IsPublicKey(air[1]) /\ air[1].part = 1
               /\ sar' = <<air[1]>> /\ UNCHANGED <<rx, event>>
            \/ /\ IsPublicKey(air[1]) /\ air[1].part = 2
               /\ sar' = Append(sar, air[1]) /\ UNCHANGED <<rx, event>>
            \/ /\ IsPublicKey(air[1]) /\ air[1].part = 3
               /\ rx' = Reassembled(Append(sar, air[1])) /\ event' = TRUE /\ sar' = <<>>
<1>1. air \in Seq(ToSet(air)) /\ air # <<>> /\ Head(air) = air[1] /\ 1 \in DOMAIN air
  BY TailTyped DEF _process_notify, IInv, TypeOK, RadioTypes
<1> DEFINE n == air[1]
<1>2. \/ ~IsPublicKey(n) /\ n.sar = "complete"
      \/ IsPublicKey(n) /\ n.part = 1 /\ n.sar = "first"
      \/ IsPublicKey(n) /\ n.part = 2 /\ n.sar = "continuation"
      \/ IsPublicKey(n) /\ n.part = 3 /\ n.sar = "last"
  BY <1>1 DEF IInv, SegmentsTrue, SegmentTrue, SarOf
<1> HIDE DEF n
<1>3. /\ n.sar = "complete" => rx' = Reassembled(<<n>>) /\ event' = TRUE /\ UNCHANGED sar
      /\ n.sar = "first" => sar' = <<n>> /\ UNCHANGED <<rx, event>>
      /\ n.sar = "continuation" => sar' = Append(sar, n) /\ UNCHANGED <<rx, event>>
      /\ n.sar = "last" =>
           rx' = Reassembled(Append(sar, n)) /\ event' = TRUE /\ sar' = <<>>
  BY <1>1 DEF _process_notify, n
<1>4. \/ ~IsPublicKey(n) /\ rx' = Reassembled(<<n>>) /\ event' = TRUE /\ UNCHANGED sar
      \/ IsPublicKey(n) /\ n.part = 1 /\ sar' = <<n>> /\ UNCHANGED <<rx, event>>
      \/ IsPublicKey(n) /\ n.part = 2 /\ sar' = Append(sar, n) /\ UNCHANGED <<rx, event>>
      \/ /\ IsPublicKey(n) /\ n.part = 3
         /\ rx' = Reassembled(Append(sar, n)) /\ event' = TRUE /\ sar' = <<>>
  BY <1>2, <1>3
<1>5. flow \in Exchanging /\ UNCHANGED <<runVars, step, part, got, resultVars, dev>>
      /\ air' = Tail(air)
  BY DEF _process_notify
<1>. QED  BY <1>1, <1>4, <1>5 DEF n

-----------------------------------------------------------------------------
(* The steps keep the invariant.                                           *)

\* The bounded types: their least values, and the values after an increment.
LEMMA BoundFacts ==
  /\ 0 \in Attempts /\ 1 \in Attempts /\ 0 \in RunOrNone /\ 0 \in ClientOrNone
  /\ Clients = ClientOrNone \ {0}
  /\ \A n \in Attempts : n < max_retries => n + 1 \in Attempts
  /\ \A n \in RunOrNone : n < MaxRuns => n + 1 \in RunOrNone
  /\ \A n \in ClientOrNone : n < MaxSessions => n + 1 \in Clients /\ n < n + 1
BY DEF Attempts, RunOrNone, Clients, ClientOrNone

USE BoundFacts

\* The flow: no more attempts than _connect makes.
LEMMA FlowStep == IInv /\ [Next]_vars => FlowTypes'
<1> SUFFICES ASSUME IInv, [Next]_vars PROVE FlowTypes'
  OBVIOUS
<1> USE DEF runVars, exchVars, resultVars, radioVars, history, Ended, Connecting,
            Exchanging, Leaving
<1>1. ASSUME async_step_sig_plug PROVE FlowTypes'
  BY <1>1 DEF async_step_sig_plug, IInv, TypeOK, FlowTypes, RadioTypes
<1>2. ASSUME ConnectFails PROVE FlowTypes'
  BY <1>2 DEF ConnectFails, Goes, Fault, IInv, TypeOK, FlowTypes, RadioTypes
<1>3. ASSUME Connected PROVE FlowTypes'
  BY <1>3 DEF Connected, IInv, TypeOK, FlowTypes, RadioTypes
<1>4. ASSUME _connect PROVE FlowTypes'
  BY <1>4 DEF _connect, Goes, CloseClient, Fault, IInv, TypeOK, FlowTypes, RadioTypes
<1>5. ASSUME AttemptClosed PROVE FlowTypes'
  BY <1>5 DEF AttemptClosed, Close, Reset, RunFails, IInv, TypeOK, FlowTypes, RadioTypes
<1>6. ASSUME AttemptNotClosed PROVE FlowTypes'
  BY <1>6 DEF AttemptNotClosed, RunFails, Fault, IInv, TypeOK, FlowTypes, RadioTypes
<1>7. ASSUME NextAttempt PROVE FlowTypes'
  BY <1>7 DEF NextAttempt, MoreAttempts, RunFails, IInv, TypeOK, FlowTypes, RadioTypes
<1>8. ASSUME Paired PROVE FlowTypes'
  BY <1>8 DEF Paired, Goes, Ends, Fault, IInv, TypeOK, FlowTypes, RadioTypes
<1>9. ASSUME Subscribed PROVE FlowTypes'
  BY <1>9 DEF Subscribed, Goes, Ends, Fault, IInv, TypeOK, FlowTypes, RadioTypes
<1>10. ASSUME send_prov PROVE FlowTypes'
  BY <1>10 DEF send_prov, Goes, Fault, IInv, TypeOK, FlowTypes, RadioTypes
<1>11. ASSUME SendFails PROVE FlowTypes'
  BY <1>11 DEF SendFails, Ends, IInv, TypeOK, FlowTypes, RadioTypes
<1>12. ASSUME recv_prov PROVE FlowTypes'
  BY <1>12 DEF recv_prov, Goes, IInv, TypeOK, FlowTypes, RadioTypes
<1>13. ASSUME Received PROVE FlowTypes'
  BY <1>13 DEF Received, Goes, Ends, IInv, TypeOK, FlowTypes, RadioTypes
<1>14. ASSUME ReceiveTimesOut PROVE FlowTypes'
  BY <1>14 DEF ReceiveTimesOut, Ends, IInv, TypeOK, FlowTypes, RadioTypes
<1>15. ASSUME Settled PROVE FlowTypes'
  BY <1>15 DEF Settled, Ends, IInv, TypeOK, FlowTypes, RadioTypes
<1>16. ASSUME Unsubscribed PROVE FlowTypes'
  BY <1>16 DEF Unsubscribed, Goes, IInv, TypeOK, FlowTypes, RadioTypes
<1>17. ASSUME Disconnected PROVE FlowTypes'
  BY <1>17 DEF Disconnected, Goes, Close, Reset, Fault, IInv, TypeOK, FlowTypes,
     RadioTypes
<1>18. ASSUME provision PROVE FlowTypes'
  BY <1>18 DEF provision, Goes, RunFails, IInv, TypeOK, FlowTypes, RadioTypes
<1>19. ASSUME Rebooted PROVE FlowTypes'
  BY <1>19 DEF Rebooted, Goes, IInv, TypeOK, FlowTypes, RadioTypes
<1>20. ASSUME run_provision PROVE FlowTypes'
  BY <1>20 DEF run_provision, Goes, IInv, TypeOK, FlowTypes, RadioTypes
<1>21. ASSUME Expires PROVE FlowTypes'
  BY <1>21 DEF Expires, Ends, RunFails, IInv, TypeOK, FlowTypes, RadioTypes
<1>22. ASSUME _process_notify PROVE FlowTypes'
  BY <1>22 DEF _process_notify, IInv, TypeOK, FlowTypes, RadioTypes
<1>23. ASSUME LinkLost PROVE FlowTypes'
  BY <1>23 DEF LinkLost, Fault, Close, Reset, IInv, TypeOK, FlowTypes, RadioTypes
<1>24. ASSUME PDULost PROVE FlowTypes'
  BY <1>24 DEF PDULost, Fault, IInv, TypeOK, FlowTypes, RadioTypes
<1>25. CASE UNCHANGED vars
  BY <1>25 DEF vars, IInv, TypeOK, FlowTypes, RadioTypes
<1>. QED  BY <1>1, <1>2, <1>3, <1>4, <1>5, <1>6, <1>7, <1>8, <1>9, <1>10, <1>11, <1>12,
     <1>13, <1>14, <1>15, <1>16, <1>17, <1>18, <1>19, <1>20, <1>21, <1>22, <1>23, <1>24,
     <1>25 DEF Next, Task

\* An exchange that is left leaves nothing.
LEMMA GoneTypes ==
  ASSUME ExchangeGone
  PROVE  /\ ExchangeTypes' /\ step' = 0 /\ part' = 0 /\ sar' = <<>> /\ rx' = NoPDU
<1>1. step' = 0 /\ part' = 0 /\ sar' = <<>> /\ rx' = NoPDU
  BY DEF ExchangeGone
<1>. QED  BY <1>1, EmptyTyped DEF ExchangeTypes

\* The exchange: of the public key, no more than two segments are kept.
LEMMA ExchangeStep == IInv /\ [Next]_vars => ExchangeTypes'
<1> SUFFICES ASSUME IInv, [Next]_vars PROVE ExchangeTypes'
  OBVIOUS
<1> USE DEF runVars, exchVars, resultVars, radioVars, history, Ended, Connecting,
            Exchanging, Leaving
<1>f. ASSUME UNCHANGED <<exchVars>> PROVE ExchangeTypes'
  BY <1>f, GoneTypes DEF IInv, TypeOK, ExchangeTypes
<1>1. ASSUME AttemptClosed PROVE ExchangeTypes'
  BY <1>1, GoneTypes DEF AttemptClosed, Close, Reset, RunFails, IInv, TypeOK,
     ExchangeTypes
<1>2. ASSUME AttemptNotClosed PROVE ExchangeTypes'
  BY <1>2, GoneTypes DEF AttemptNotClosed, RunFails, Fault, IInv, TypeOK, ExchangeTypes
<1>3. ASSUME NextAttempt PROVE ExchangeTypes'
  BY <1>3, GoneTypes DEF NextAttempt, MoreAttempts, RunFails, IInv, TypeOK,
     ExchangeTypes
<1>4. ASSUME Paired PROVE ExchangeTypes'
  BY <1>4, GoneTypes DEF Paired, Goes, Ends, Fault, IInv, TypeOK, ExchangeTypes
<1>5. ASSUME Subscribed PROVE ExchangeTypes'
  BY <1>5, StepFacts, GoneTypes DEF Subscribed, Goes, Ends, IInv, TypeOK, ExchangeTypes,
     InStep
<1>6. ASSUME send_prov PROVE ExchangeTypes'
  BY <1>6, SendProv, BothWrite, StepFacts DEF send_prov, Goes, Fault, IInv, TypeOK, ExchangeTypes, InStep
<1>7. ASSUME SendFails PROVE ExchangeTypes'
  BY <1>7, GoneTypes DEF SendFails, Ends, IInv, TypeOK, ExchangeTypes
<1>8. ASSUME recv_prov PROVE ExchangeTypes'
  BY <1>8, StepFacts DEF recv_prov, Goes, IInv, TypeOK, ExchangeTypes, InStep
<1>9. ASSUME Received PROVE ExchangeTypes'
  <2>1. \/ ExchangeGone
        \/ UNCHANGED <<step, part, sar>>
        \/ step # 6 /\ step' = step + 1 /\ UNCHANGED <<part, sar>>
    BY <1>9 DEF Received, Ends
  <2>2. step \in Steps
    BY <1>9 DEF Received, IInv, InStep
  <2>. QED  BY <2>1, <2>2, StepFacts, GoneTypes DEF IInv, TypeOK, ExchangeTypes
<1>10. ASSUME ReceiveTimesOut PROVE ExchangeTypes'
  BY <1>10, GoneTypes DEF ReceiveTimesOut, Ends, IInv, TypeOK, ExchangeTypes
<1>11. ASSUME Settled PROVE ExchangeTypes'
  BY <1>11, GoneTypes DEF Settled, Ends, IInv, TypeOK, ExchangeTypes
<1>12. ASSUME provision PROVE ExchangeTypes'
  BY <1>12, GoneTypes DEF provision, Goes, RunFails, IInv, TypeOK, ExchangeTypes
<1>13. ASSUME Expires PROVE ExchangeTypes'
  BY <1>13, GoneTypes DEF Expires, Ends, RunFails, IInv, TypeOK, ExchangeTypes
<1>14. ASSUME _process_notify PROVE ExchangeTypes'
  <2>1. sar' \in Seq(ToSet(sar')) /\ Len(sar') <= 2
    <3>1. CASE sar' = Append(sar, air[1]) /\ IsPublicKey(air[1]) /\ air[1].part = 2
      <4>1. \A i \in DOMAIN sar : sar[i].part = 1
        BY <1>14, <3>1, Notified DEF IInv, InOrder
      <4>2. Len(sar) <= 1
        BY <4>1 DEF IInv, InOrder, TypeOK, ExchangeTypes
      <4>. QED  BY <3>1, <4>2, AppendTyped DEF IInv, TypeOK, ExchangeTypes
    <3>2. CASE sar' = <<air[1]>>
      <4>1. sar' \in Seq(ToSet(sar')) /\ Len(sar') = 1
        BY <3>2, OneTyped
      <4>. QED  BY <4>1
    <3>3. CASE sar' = sar
      BY <3>3 DEF IInv, TypeOK, ExchangeTypes
    <3>4. CASE sar' = <<>>
      <4>1. sar' \in Seq(ToSet(sar')) /\ Len(sar') = 0
        BY <3>4, EmptyTyped
      <4>. QED  BY <4>1
    <3>. QED  BY <1>14, <3>1, <3>2, <3>3, <3>4, Notified
  <2>. QED  BY <1>14, <2>1, Notified DEF IInv, TypeOK, ExchangeTypes
<1>15. ASSUME async_step_sig_plug \/ ConnectFails \/ Connected \/ _connect \/
            Unsubscribed \/ Disconnected \/ Rebooted
      PROVE  ExchangeTypes'
  BY <1>15, <1>f DEF async_step_sig_plug, ConnectFails, Goes, Fault, Connected,
     _connect, CloseClient, Unsubscribed, Disconnected, Close, Reset, Rebooted
<1>16. ASSUME run_provision \/ LinkLost \/ PDULost PROVE ExchangeTypes'
  BY <1>16, <1>f DEF run_provision, Goes, LinkLost, Fault, Close, Reset, PDULost
<1>17. CASE UNCHANGED vars
  BY <1>17, <1>f DEF vars
<1>. QED  BY <1>1, <1>2, <1>3, <1>4, <1>5, <1>6, <1>7, <1>8, <1>9, <1>10, <1>11, <1>12,
     <1>13, <1>14, <1>15, <1>16, <1>17 DEF Next, Task

\* The result and the entry name submissions of the form.
LEMMA ResultStep == IInv /\ [Next]_vars => ResultTypes'
<1> SUFFICES ASSUME IInv, [Next]_vars PROVE ResultTypes'
  OBVIOUS
<1> USE DEF runVars, exchVars, resultVars, radioVars, history, Ended, Connecting,
            Exchanging, Leaving
<1>f. ASSUME UNCHANGED <<resultVars>> PROVE ResultTypes'
  BY <1>f DEF IInv, TypeOK, ResultTypes, FlowTypes, NoResult
<1>1. ASSUME async_step_sig_plug PROVE ResultTypes'
  BY <1>1 DEF async_step_sig_plug, IInv, TypeOK, ResultTypes, FlowTypes, NoResult
<1>2. ASSUME Received PROVE ResultTypes'
  <2>1. result' = result \/ \E k : result' = [net |-> runs, dev_key |-> k]
    BY <1>2 DEF Received
  <2>2. creds' = creds
    BY <1>2 DEF Received
  <2>. QED  BY <2>1, <2>2 DEF IInv, TypeOK, ResultTypes, FlowTypes
<1>3. ASSUME run_provision PROVE ResultTypes'
  BY <1>3 DEF run_provision, Goes, IInv, TypeOK, ResultTypes, FlowTypes, NoResult
<1>4. ASSUME ConnectFails \/ Connected \/ _connect \/ AttemptClosed \/ AttemptNotClosed
            \/ NextAttempt \/ Paired
      PROVE  ResultTypes'
  BY <1>4, <1>f DEF ConnectFails, Goes, Fault, Connected, _connect, CloseClient,
     AttemptClosed, Close, Reset, RunFails, AttemptNotClosed, NextAttempt, MoreAttempts,
     Paired, Ends
<1>5. ASSUME Subscribed \/ send_prov \/ SendFails \/ recv_prov \/ ReceiveTimesOut \/
            Settled \/ Unsubscribed
      PROVE  ResultTypes'
  BY <1>5, <1>f DEF Subscribed, Goes, Ends, Fault, send_prov, SendFails, recv_prov,
     ReceiveTimesOut, Settled, Unsubscribed
<1>6. ASSUME Disconnected \/ provision \/ Rebooted \/ Expires \/ _process_notify \/
            LinkLost \/ PDULost
      PROVE  ResultTypes'
  BY <1>6, <1>f DEF Disconnected, Goes, Close, Reset, Fault, provision, RunFails,
     Rebooted, Expires, Ends, _process_notify, LinkLost, PDULost
<1>7. CASE UNCHANGED vars
  BY <1>7, <1>f DEF vars
<1>. QED  BY <1>1, <1>2, <1>3, <1>4, <1>5, <1>6, <1>7 DEF Next, Task

\* Closing a client keeps the types.
LEMMA CloseTypes ==
  ASSUME RadioTypes, NEW c, Close(c)
  PROVE  /\ sessions' \in ClientOrNone /\ open' \subseteq Clients
         /\ air' \in Seq(ToSet(air'))
         /\ DOMAIN dev' = DOMAIN dev /\ dev'.phase \in {0} \cup Steps
         /\ dev'.heard \in 0..2 /\ dev'.kind = dev.kind /\ dev'.net = dev.net
BY DeviceRecord, EmptyTyped DEF RadioTypes, Close

\* The device and the radio.
LEMMA RadioStep == IInv /\ [Next]_vars => RadioTypes'
<1> SUFFICES ASSUME IInv, [Next]_vars PROVE RadioTypes'
  OBVIOUS
<1> USE DEF runVars, exchVars, resultVars, radioVars, history, Ended, Connecting,
            Exchanging, Leaving
<1>f. ASSUME UNCHANGED <<radioVars, faults, leaked>> PROVE RadioTypes'
  BY <1>f DEF IInv, TypeOK, RadioTypes, FlowTypes, HasClient
<1>1. ASSUME ConnectFails PROVE RadioTypes'
  BY <1>1 DEF ConnectFails, Goes, Fault, IInv, TypeOK, RadioTypes, FlowTypes, HasClient
<1>2. ASSUME Connected PROVE RadioTypes'
  BY <1>2, EmptyTyped DEF Connected, IInv, TypeOK, RadioTypes
<1>3. ASSUME _connect PROVE RadioTypes'
  BY <1>3 DEF _connect, Goes, CloseClient, Fault, IInv, TypeOK, RadioTypes, FlowTypes,
     HasClient
<1>4. ASSUME AttemptClosed PROVE RadioTypes'
  BY <1>4, CloseTypes DEF AttemptClosed, IInv, TypeOK, RadioTypes
<1>5. ASSUME AttemptNotClosed PROVE RadioTypes'
  BY <1>5 DEF AttemptNotClosed, RunFails, Fault, IInv, TypeOK, RadioTypes, FlowTypes,
     HasClient
<1>6. ASSUME Paired PROVE RadioTypes'
  BY <1>6 DEF Paired, Goes, Ends, Fault, IInv, TypeOK, RadioTypes, FlowTypes, HasClient
<1>7. ASSUME Subscribed PROVE RadioTypes'
  BY <1>7 DEF Subscribed, Fault, IInv, TypeOK, RadioTypes
<1>8. ASSUME send_prov \/ SendFails PROVE RadioTypes'
  <2>1. /\ DOMAIN dev' = DOMAIN dev /\ dev'.kind = dev.kind /\ dev'.heard \in 0..2
        /\ Silent \/ Failing \/ Following \/ Completing
    BY <1>8, SendProv, BothWrite
  <2>2. dev'.phase \in {0} \cup Steps /\ dev'.net \in RunOrNone
    BY <2>1, StepFacts DEF Silent, Failing, Following, Completing, IInv, TypeOK, RadioTypes,
       FlowTypes
  <2>3. air' \in Seq(ToSet(air'))
    <3>1. air' = air \/ \E t \in Answer : \E b : air' = air \o Segments(t, b)
      BY <2>1 DEF Silent, Failing, Following, Completing, Answer
    <3>2. air \in Seq(ToSet(air))
      BY DEF IInv, TypeOK, RadioTypes
    <3>3. ASSUME NEW t \in Answer, NEW b, air' = air \o Segments(t, b)
          PROVE  air' \in Seq(ToSet(air'))
      <4>1. Segments(t, b) \in Seq(ToSet(Segments(t, b)))
        BY SegmentFacts DEF Answer
      <4>. QED  BY <3>2, <3>3, <4>1, ConcatTyped
    <3>. QED  BY <3>1, <3>2, <3>3
  <2>. QED  BY <1>8, <2>1, <2>2, <2>3 DEF send_prov, SendFails, Fault,
            IInv, TypeOK, RadioTypes
<1>9. ASSUME Disconnected PROVE RadioTypes'
  BY <1>9, CloseTypes DEF Disconnected, Fault, IInv, TypeOK, RadioTypes, FlowTypes,
     HasClient
<1>10. ASSUME Expires PROVE RadioTypes'
  BY <1>10 DEF Expires, Ends, RunFails, IInv, TypeOK, RadioTypes, FlowTypes, HasClient
<1>11. ASSUME _process_notify PROVE RadioTypes'
  BY <1>11, TailTyped DEF _process_notify, IInv, TypeOK, RadioTypes
<1>12. ASSUME LinkLost PROVE RadioTypes'
  BY <1>12, CloseTypes DEF LinkLost, Fault, IInv, TypeOK, RadioTypes
<1>13. ASSUME PDULost PROVE RadioTypes'
  BY <1>13, TailTyped DEF PDULost, Fault, IInv, TypeOK, RadioTypes
<1>14. ASSUME async_step_sig_plug \/ NextAttempt \/ recv_prov \/ Received
            \/ ReceiveTimesOut \/ Settled
      PROVE  RadioTypes'
  BY <1>14, <1>f DEF async_step_sig_plug, NextAttempt, MoreAttempts, RunFails,
     Ends, recv_prov, Goes, Received, ReceiveTimesOut, Settled
<1>15. ASSUME Unsubscribed \/ provision \/ Rebooted \/ run_provision PROVE RadioTypes'
  BY <1>15, <1>f DEF Unsubscribed, Goes, provision, RunFails, Rebooted, run_provision
<1>16. CASE UNCHANGED vars
  BY <1>16, <1>f DEF vars
<1>. QED  BY <1>1, <1>2, <1>3, <1>4, <1>5, <1>6, <1>7, <1>8, <1>9, <1>10, <1>11, <1>12,
     <1>13, <1>14, <1>15, <1>16 DEF Next, Task

\* Flags stay flags.
LEMMA FlagStep == IInv /\ [Next]_vars => FlagTypes'
<1> SUFFICES ASSUME IInv, [Next]_vars PROVE FlagTypes'
  OBVIOUS
<1> USE DEF runVars, exchVars, resultVars, radioVars, history, Ended, Connecting,
            Exchanging, Leaving
<1>f. ASSUME UNCHANGED <<event, subscribed, completed, expired>> PROVE FlagTypes'
  BY <1>f DEF IInv, TypeOK, FlagTypes, ExchangeGone
<1>1. ASSUME async_step_sig_plug PROVE FlagTypes'
  BY <1>1 DEF async_step_sig_plug, IInv, TypeOK, FlagTypes, ExchangeGone
<1>2. ASSUME Connected PROVE FlagTypes'
  BY <1>2 DEF Connected, IInv, TypeOK, FlagTypes, ExchangeGone
<1>3. ASSUME AttemptClosed PROVE FlagTypes'
  BY <1>3 DEF AttemptClosed, Close, Reset, RunFails, IInv, TypeOK, FlagTypes,
     ExchangeGone
<1>4. ASSUME AttemptNotClosed PROVE FlagTypes'
  BY <1>4 DEF AttemptNotClosed, RunFails, Fault, IInv, TypeOK, FlagTypes, ExchangeGone
<1>5. ASSUME NextAttempt PROVE FlagTypes'
  BY <1>5 DEF NextAttempt, MoreAttempts, RunFails, IInv, TypeOK, FlagTypes, ExchangeGone
<1>6. ASSUME Paired PROVE FlagTypes'
  BY <1>6 DEF Paired, Goes, Ends, Fault, IInv, TypeOK, FlagTypes, ExchangeGone
<1>7. ASSUME Subscribed PROVE FlagTypes'
  BY <1>7 DEF Subscribed, Goes, Ends, Fault, IInv, TypeOK, FlagTypes, ExchangeGone
<1>8. ASSUME SendFails PROVE FlagTypes'
  BY <1>8 DEF SendFails, Ends, IInv, TypeOK, FlagTypes, ExchangeGone
<1>9. ASSUME recv_prov PROVE FlagTypes'
  BY <1>9 DEF recv_prov, Goes, IInv, TypeOK, FlagTypes, ExchangeGone
<1>10. ASSUME Received PROVE FlagTypes'
  BY <1>10 DEF Received, Goes, Ends, IInv, TypeOK, FlagTypes, ExchangeGone
<1>11. ASSUME ReceiveTimesOut PROVE FlagTypes'
  BY <1>11 DEF ReceiveTimesOut, Ends, IInv, TypeOK, FlagTypes, ExchangeGone
<1>12. ASSUME Settled PROVE FlagTypes'
  BY <1>12 DEF Settled, Ends, IInv, TypeOK, FlagTypes, ExchangeGone
<1>13. ASSUME Disconnected PROVE FlagTypes'
  BY <1>13 DEF Disconnected, Goes, Close, Reset, Fault, IInv, TypeOK, FlagTypes,
     ExchangeGone
<1>14. ASSUME provision PROVE FlagTypes'
  BY <1>14 DEF provision, Goes, RunFails, IInv, TypeOK, FlagTypes, ExchangeGone
<1>15. ASSUME Expires PROVE FlagTypes'
  BY <1>15 DEF Expires, Ends, RunFails, IInv, TypeOK, FlagTypes, ExchangeGone
<1>16. ASSUME _process_notify PROVE FlagTypes'
  <2>1. event' = event \/ event' = TRUE
    BY <1>16, Notified
  <2>. QED  BY <1>16, <2>1 DEF _process_notify, IInv, TypeOK, FlagTypes
<1>17. ASSUME LinkLost PROVE FlagTypes'
  BY <1>17 DEF LinkLost, Fault, Close, Reset, IInv, TypeOK, FlagTypes, ExchangeGone
<1>18. ASSUME ConnectFails \/ _connect \/ send_prov \/ Unsubscribed \/ Rebooted \/
            run_provision \/ PDULost
      PROVE  FlagTypes'
  BY <1>18, <1>f DEF ConnectFails, Goes, Fault, _connect, CloseClient, send_prov,
     Unsubscribed, Rebooted, run_provision, PDULost
<1>19. CASE UNCHANGED vars
  BY <1>19, <1>f DEF vars
<1>. QED  BY <1>1, <1>2, <1>3, <1>4, <1>5, <1>6, <1>7, <1>8, <1>9, <1>10, <1>11, <1>12,
     <1>13, <1>14, <1>15, <1>16, <1>17, <1>18, <1>19 DEF Next, Task

\* A client is forgotten only where none is needed.
LEMMA ClientStep == IInv /\ [Next]_vars => HasClient'
<1> SUFFICES ASSUME IInv, [Next]_vars PROVE HasClient'
  OBVIOUS
<1> USE DEF runVars, exchVars, resultVars, radioVars, history, Ended, Connecting,
            Exchanging, Leaving
<1>1. ASSUME async_step_sig_plug PROVE HasClient'
  BY <1>1 DEF async_step_sig_plug, IInv, TypeOK, HasClient, FlowTypes, RadioTypes,
     ClientOrNone
<1>2. ASSUME ConnectFails PROVE HasClient'
  BY <1>2 DEF ConnectFails, Goes, Fault, IInv, TypeOK, HasClient, FlowTypes, RadioTypes,
     ClientOrNone
<1>3. ASSUME Connected PROVE HasClient'
  BY <1>3 DEF Connected, IInv, TypeOK, RadioTypes, HasClient, ClientOrNone
<1>4. ASSUME _connect PROVE HasClient'
  BY <1>4 DEF _connect, Goes, CloseClient, Fault, IInv, TypeOK, HasClient, FlowTypes,
     RadioTypes, ClientOrNone
<1>5. ASSUME AttemptClosed PROVE HasClient'
  BY <1>5 DEF AttemptClosed, Close, Reset, RunFails, IInv, TypeOK, HasClient, FlowTypes,
     RadioTypes, ClientOrNone
<1>6. ASSUME AttemptNotClosed PROVE HasClient'
  BY <1>6 DEF AttemptNotClosed, RunFails, Fault, IInv, TypeOK, HasClient, FlowTypes,
     RadioTypes, ClientOrNone
<1>7. ASSUME NextAttempt PROVE HasClient'
  BY <1>7 DEF NextAttempt, MoreAttempts, RunFails, IInv, TypeOK, HasClient, FlowTypes,
     RadioTypes, ClientOrNone
<1>8. ASSUME Paired PROVE HasClient'
  BY <1>8 DEF Paired, Goes, Ends, Fault, IInv, TypeOK, HasClient, FlowTypes, RadioTypes,
     ClientOrNone
<1>9. ASSUME Subscribed PROVE HasClient'
  BY <1>9 DEF Subscribed, Goes, Ends, Fault, IInv, TypeOK, HasClient, FlowTypes,
     RadioTypes, ClientOrNone
<1>10. ASSUME send_prov PROVE HasClient'
  BY <1>10 DEF send_prov, Goes, IInv, HasClient
<1>11. ASSUME SendFails PROVE HasClient'
  BY <1>11 DEF SendFails, Ends, IInv, TypeOK, HasClient, FlowTypes, RadioTypes,
     ClientOrNone
<1>12. ASSUME recv_prov PROVE HasClient'
  BY <1>12 DEF recv_prov, Goes, IInv, TypeOK, HasClient, FlowTypes, RadioTypes,
     ClientOrNone
<1>13. ASSUME Received PROVE HasClient'
  BY <1>13 DEF Received, Goes, Ends, IInv, TypeOK, HasClient, FlowTypes, RadioTypes,
     ClientOrNone
<1>14. ASSUME ReceiveTimesOut PROVE HasClient'
  BY <1>14 DEF ReceiveTimesOut, Ends, IInv, TypeOK, HasClient, FlowTypes, RadioTypes,
     ClientOrNone
<1>15. ASSUME Settled PROVE HasClient'
  BY <1>15 DEF Settled, Ends, IInv, TypeOK, HasClient, FlowTypes, RadioTypes,
     ClientOrNone
<1>16. ASSUME Unsubscribed PROVE HasClient'
  BY <1>16 DEF Unsubscribed, Goes, IInv, TypeOK, HasClient, FlowTypes, RadioTypes,
     ClientOrNone
<1>17. ASSUME Disconnected PROVE HasClient'
  BY <1>17 DEF Disconnected, Goes, Close, Reset, Fault, IInv, TypeOK, HasClient,
     FlowTypes, RadioTypes, ClientOrNone
<1>18. ASSUME provision PROVE HasClient'
  BY <1>18 DEF provision, Goes, RunFails, IInv, TypeOK, HasClient, FlowTypes,
     RadioTypes, ClientOrNone
<1>19. ASSUME Rebooted PROVE HasClient'
  BY <1>19 DEF Rebooted, Goes, IInv, TypeOK, HasClient, FlowTypes, RadioTypes,
     ClientOrNone
<1>20. ASSUME run_provision PROVE HasClient'
  BY <1>20 DEF run_provision, Goes, IInv, TypeOK, HasClient, FlowTypes, RadioTypes,
     ClientOrNone
<1>21. ASSUME Expires PROVE HasClient'
  BY <1>21 DEF Expires, Ends, RunFails, IInv, TypeOK, HasClient, FlowTypes, RadioTypes,
     ClientOrNone
<1>22. ASSUME _process_notify PROVE HasClient'
  BY <1>22, Notified DEF _process_notify, IInv, HasClient
<1>23. ASSUME LinkLost PROVE HasClient'
  BY <1>23 DEF LinkLost, Close, IInv, HasClient
<1>24. ASSUME PDULost PROVE HasClient'
  BY <1>24 DEF PDULost, IInv, HasClient
<1>25. CASE UNCHANGED vars
  BY <1>25 DEF vars, IInv, TypeOK, HasClient, FlowTypes, RadioTypes, ClientOrNone
<1>. QED  BY <1>1, <1>2, <1>3, <1>4, <1>5, <1>6, <1>7, <1>8, <1>9, <1>10, <1>11, <1>12,
     <1>13, <1>14, <1>15, <1>16, <1>17, <1>18, <1>19, <1>20, <1>21, <1>22, <1>23, <1>24,
     <1>25 DEF Next, Task

\* Segments are sent one by one, and the steps follow each other.
LEMMA InStepStep == IInv /\ [Next]_vars => InStep'
<1> SUFFICES ASSUME IInv, [Next]_vars PROVE InStep'
  OBVIOUS
<1> USE DEF runVars, exchVars, resultVars, radioVars, history, Ended, Connecting,
            Exchanging, Leaving
<1>1. ASSUME async_step_sig_plug PROVE InStep'
  BY <1>1, GoneTypes DEF async_step_sig_plug, IInv, InStep
<1>2. ASSUME ConnectFails PROVE InStep'
  BY <1>2, GoneTypes DEF ConnectFails, Goes, Fault, IInv, InStep
<1>3. ASSUME Connected PROVE InStep'
  BY <1>3, GoneTypes DEF Connected, IInv, InStep
<1>4. ASSUME _connect PROVE InStep'
  BY <1>4, GoneTypes DEF _connect, Goes, CloseClient, Fault, IInv, InStep
<1>5. ASSUME AttemptClosed PROVE InStep'
  BY <1>5, GoneTypes DEF AttemptClosed, Close, Reset, RunFails, IInv, InStep
<1>6. ASSUME AttemptNotClosed PROVE InStep'
  BY <1>6, GoneTypes DEF AttemptNotClosed, RunFails, Fault, IInv, InStep
<1>7. ASSUME NextAttempt PROVE InStep'
  BY <1>7, GoneTypes DEF NextAttempt, MoreAttempts, RunFails, IInv, InStep
<1>8. ASSUME Paired PROVE InStep'
  BY <1>8, GoneTypes DEF Paired, Goes, Ends, Fault, IInv, InStep
<1>9. ASSUME Subscribed PROVE InStep'
  <2>1. Ends("error") \/ (flow' = "sending" /\ step' = 1 /\ UNCHANGED <<part, event, rx, sar>>)
    BY <1>9 DEF Subscribed, Goes
  <2>. QED  BY <1>9, <2>1, StepFacts, GoneTypes DEF Ends, Subscribed, IInv, InStep
<1>10. ASSUME send_prov PROVE InStep'
  BY <1>10, SendProv, BothWrite, StepFacts DEF send_prov, Goes, IInv, InStep
<1>11. ASSUME SendFails PROVE InStep'
  BY <1>11, GoneTypes DEF SendFails, Ends, IInv, InStep
<1>12. ASSUME recv_prov PROVE InStep'
  <2>1. step \in Steps
    BY <1>12 DEF recv_prov, IInv, InStep
  <2>2. CASE part < Parts(Sends[step])
    BY <1>12, <2>1, <2>2 DEF recv_prov, Goes, IInv, InStep
  <2>3. CASE part >= Parts(Sends[step]) /\ Awaited[step] = "none"
    BY <1>12, <2>1, <2>3, StepFacts DEF recv_prov, Goes, IInv, InStep
  <2>4. CASE part >= Parts(Sends[step]) /\ Awaited[step] # "none"
    BY <1>12, <2>1, <2>4, StepFacts DEF recv_prov, Goes, IInv, InStep
  <2>. QED  BY <2>1, <2>2, <2>3, <2>4, StepFacts DEF IInv, TypeOK, ExchangeTypes
<1>13. ASSUME Received PROVE InStep'
  <2>1. step \in Steps /\ part = 0
    BY <1>13 DEF Received, IInv, InStep
  <2>2. CASE ~check_pdu(step)
    BY <1>13, <2>2, GoneTypes DEF Received, Ends, InStep
  <2>3. CASE step = 6 /\ check_pdu(step)
    BY <1>13, <2>1, <2>3 DEF Received, Goes, IInv, InStep
  <2>4. CASE step # 6 /\ check_pdu(step)
    BY <1>13, <2>1, <2>4, StepFacts DEF Received, Goes, InStep
  <2>. QED  BY <2>2, <2>3, <2>4
<1>14. ASSUME ReceiveTimesOut PROVE InStep'
  BY <1>14, GoneTypes DEF ReceiveTimesOut, Ends, IInv, InStep
<1>15. ASSUME Settled PROVE InStep'
  BY <1>15, GoneTypes DEF Settled, Ends, IInv, InStep
<1>16. ASSUME Unsubscribed PROVE InStep'
  BY <1>16, GoneTypes DEF Unsubscribed, Goes, IInv, InStep
<1>17. ASSUME Disconnected PROVE InStep'
  BY <1>17, GoneTypes DEF Disconnected, Goes, Close, Reset, Fault, IInv, InStep
<1>18. ASSUME provision PROVE InStep'
  BY <1>18, GoneTypes DEF provision, Goes, RunFails, IInv, InStep
<1>19. ASSUME Rebooted PROVE InStep'
  BY <1>19, GoneTypes DEF Rebooted, Goes, IInv, InStep
<1>20. ASSUME run_provision PROVE InStep'
  BY <1>20, GoneTypes DEF run_provision, Goes, IInv, InStep
<1>21. ASSUME Expires PROVE InStep'
  BY <1>21, GoneTypes DEF Expires, Ends, RunFails, IInv, InStep
<1>22. ASSUME _process_notify PROVE InStep'
  BY <1>22, Notified DEF IInv, InStep
<1>23. ASSUME LinkLost PROVE InStep'
  BY <1>23, GoneTypes DEF LinkLost, Fault, Close, Reset, IInv, InStep
<1>24. ASSUME PDULost PROVE InStep'
  BY <1>24, GoneTypes DEF PDULost, Fault, IInv, InStep
<1>25. CASE UNCHANGED vars
  BY <1>25, GoneTypes DEF vars, IInv, InStep
<1>. QED  BY <1>1, <1>2, <1>3, <1>4, <1>5, <1>6, <1>7, <1>8, <1>9, <1>10, <1>11, <1>12,
     <1>13, <1>14, <1>15, <1>16, <1>17, <1>18, <1>19, <1>20, <1>21, <1>22, <1>23, <1>24,
     <1>25 DEF Next, Task

\* What the device sends is true when it is heard: it does not lose its keys.
LEMMA SegmentsStep == IInv /\ [Next]_vars => SegmentsTrue'
<1> SUFFICES ASSUME IInv, [Next]_vars PROVE SegmentsTrue'
  OBVIOUS
<1> USE DEF runVars, exchVars, resultVars, radioVars, history, Ended, Connecting,
            Exchanging, Leaving
<1>f. ASSUME UNCHANGED <<air, dev>> PROVE SegmentsTrue'
  BY <1>f DEF IInv, SegmentsTrue
<1>1. ASSUME Connected PROVE SegmentsTrue'
  BY <1>1, EmptyTyped DEF Connected, SegmentsTrue
<1>2. ASSUME AttemptClosed PROVE SegmentsTrue'
  BY <1>2, DeviceRecord DEF AttemptClosed, Close, IInv, TypeOK, SegmentsTrue
<1>3. ASSUME send_prov \/ SendFails PROVE SegmentsTrue'
  <2>0. dev.phase = 6 => dev'.phase = 6
    BY <1>3, SendProv, BothWrite, StepFacts DEF Silent, Failing, Following, Completing
  <2>1. CASE air' = air
    BY <2>0, <2>1 DEF IInv, SegmentsTrue, SegmentTrue
  <2>2. ASSUME NEW t \in Answer, NEW b, air' = air \o Segments(t, b),
               t = "complete" => dev'.phase = 6, dev.phase = 6 => dev'.phase = 6
        PROVE  SegmentsTrue'
    <3>1. ASSUME NEW i \in DOMAIN air' PROVE SegmentTrue(air'[i], dev'.phase)
      <4>1. \/ i \in DOMAIN air /\ air'[i] = air[i]
            \/ /\ i - Len(air) \in DOMAIN Segments(t, b)
               /\ air'[i] = Segments(t, b)[i - Len(air)]
        BY <2>2, SegmentFacts, ConcatTyped DEF Answer, IInv, TypeOK, RadioTypes
      <4>2. CASE i \in DOMAIN air /\ air'[i] = air[i]
        BY <2>2, <4>2 DEF IInv, SegmentsTrue, SegmentTrue
      <4>3. ASSUME NEW j \in DOMAIN Segments(t, b), air'[i] = Segments(t, b)[j]
            PROVE  SegmentTrue(air'[i], dev'.phase)
        <5> DEFINE n == air'[i]
        <5>1. /\ n.type = t /\ n.part = j /\ j \in 1..3
              /\ t = "public_key" => n.sar = SarOf(j)
              /\ t # "public_key" => n.sar = "complete"
          BY <4>3, SegmentFacts DEF Answer
        <5> HIDE DEF n
        <5>2. SegmentTrue(n, dev'.phase)
          BY <2>2, <5>1 DEF SegmentTrue, IsPublicKey
        <5>. QED  BY <5>2 DEF n
      <4>. QED  BY <4>1, <4>2, <4>3
    <3>. QED  BY <3>1 DEF SegmentsTrue
  <2>. QED  BY <1>3, <2>0, <2>1, <2>2, SendProv, BothWrite DEF Silent, Failing, Following, Completing,
            Answer
<1>4. ASSUME Disconnected PROVE SegmentsTrue'
  BY <1>4, DeviceRecord DEF Disconnected, Close, IInv, TypeOK, SegmentsTrue
<1>5. ASSUME _process_notify PROVE SegmentsTrue'
  <2>1. air' = Tail(air) /\ air \in Seq(ToSet(air)) /\ air # <<>> /\ dev' = dev
    BY <1>5, Notified
  <2>. QED  BY <2>1, TailTyped DEF IInv, SegmentsTrue
<1>6. ASSUME LinkLost PROVE SegmentsTrue'
  BY <1>6, DeviceRecord DEF LinkLost, Close, IInv, TypeOK, SegmentsTrue
<1>7. ASSUME PDULost PROVE SegmentsTrue'
  BY <1>7, TailTyped DEF PDULost, IInv, TypeOK, RadioTypes, SegmentsTrue
<1>8. ASSUME async_step_sig_plug \/ ConnectFails \/ _connect \/ AttemptNotClosed \/
            NextAttempt \/ Paired \/ Subscribed
      PROVE  SegmentsTrue'
  BY <1>8, <1>f DEF async_step_sig_plug, ConnectFails, Goes, Fault, _connect,
     CloseClient, AttemptNotClosed, RunFails, NextAttempt, MoreAttempts, Paired, Ends,
     Subscribed
<1>9. ASSUME recv_prov \/ Received \/ ReceiveTimesOut \/ Settled \/
            Unsubscribed \/ provision
      PROVE  SegmentsTrue'
  BY <1>9, <1>f DEF Ends, recv_prov, Goes, Received, ReceiveTimesOut,
     Settled, Unsubscribed, provision, RunFails
<1>10. ASSUME Rebooted \/ run_provision \/ Expires PROVE SegmentsTrue'
  BY <1>10, <1>f DEF Rebooted, Goes, run_provision, Expires, Ends, RunFails
<1>11. CASE UNCHANGED vars
  BY <1>11, <1>f DEF vars
<1>. QED  BY <1>1, <1>2, <1>3, <1>4, <1>5, <1>6, <1>7, <1>8, <1>9, <1>10, <1>11 DEF
     Next, Task

\* The device computes its keys in the last step, from what the provisioner has
\* learned, which no longer changes then.
LEMMA ProvisionedStep == IInv /\ [Next]_vars => ProvisionedHere'
<1> SUFFICES ASSUME IInv, [Next]_vars PROVE ProvisionedHere'
  OBVIOUS
<1> USE DEF runVars, exchVars, resultVars, radioVars, history, Ended, Connecting,
            Exchanging, Leaving, Talking
<1>1. ASSUME async_step_sig_plug PROVE ProvisionedHere'
  BY <1>1, GoneTypes DEF async_step_sig_plug, IInv, ProvisionedHere, NoPDU, Secret,
     Salt, FullSalt, Ours
<1>2. ASSUME ConnectFails PROVE ProvisionedHere'
  BY <1>2, GoneTypes DEF ConnectFails, Goes, Fault, IInv, ProvisionedHere, NoPDU,
     Secret, Salt, FullSalt, Ours
<1>3. ASSUME Connected PROVE ProvisionedHere'
  BY <1>3, GoneTypes DEF Connected, IInv, ProvisionedHere, NoPDU, Secret, Salt,
     FullSalt, Ours
<1>4. ASSUME _connect PROVE ProvisionedHere'
  BY <1>4, GoneTypes DEF _connect, Goes, CloseClient, Fault, IInv, ProvisionedHere,
     NoPDU, Secret, Salt, FullSalt, Ours
<1>5. ASSUME AttemptClosed PROVE ProvisionedHere'
  BY <1>5, DeviceRecord, GoneTypes DEF AttemptClosed, Close, RunFails, Goes, NoPDU, Secret, Salt,
     FullSalt, Ours, IInv, TypeOK, ProvisionedHere
<1>6. ASSUME AttemptNotClosed PROVE ProvisionedHere'
  BY <1>6, GoneTypes DEF AttemptNotClosed, RunFails, Fault, IInv, ProvisionedHere,
     NoPDU, Secret, Salt, FullSalt, Ours
<1>7. ASSUME NextAttempt PROVE ProvisionedHere'
  BY <1>7, GoneTypes DEF NextAttempt, MoreAttempts, RunFails, IInv, ProvisionedHere,
     NoPDU, Secret, Salt, FullSalt, Ours
<1>8. ASSUME Paired PROVE ProvisionedHere'
  BY <1>8, GoneTypes DEF Paired, Goes, Ends, Fault, IInv, ProvisionedHere, NoPDU,
     Secret, Salt, FullSalt, Ours
<1>9. ASSUME Subscribed PROVE ProvisionedHere'
  <2>1. CASE Ends("error")
    BY <2>1, GoneTypes DEF Ends, NoPDU, ProvisionedHere
  <2>2. CASE dev.phase # 6 /\ Goes("sending")
    BY <1>9, <2>2 DEF Subscribed, Goes, Ends, IInv, ProvisionedHere
  <2>. QED  BY <1>9, <2>1, <2>2 DEF Subscribed
<1>10. ASSUME send_prov PROVE ProvisionedHere'
  <2>1. /\ UNCHANGED <<rx, step, got, runs>> /\ flow' = "pausing" /\ flow = "sending"
        /\ Secret' = Secret /\ FullSalt' = FullSalt
    BY <1>10 DEF send_prov, Goes, Secret, FullSalt, Salt, Ours
  <2>2. /\ dev.phase = 6 => dev'.phase = 6 /\ (dev'.net = dev.net \/ step = 6)
        /\ dev'.phase = 6 => \/ Completing
                             \/ dev.phase = 6 /\ dev'.net = dev.net /\ dev'.dev_key = dev.dev_key
    BY <1>10, SendProv, BothWrite, StepFacts DEF Silent, Failing, Following, Completing
  <2>3. DevKey(Secret, FullSalt)' = DevKey(Secret, FullSalt)
    BY <2>1
  <2>. QED  BY <2>1, <2>2, <2>3 DEF Completing, IInv, ProvisionedHere
<1>11. ASSUME SendFails PROVE ProvisionedHere'
  BY <1>11, GoneTypes DEF SendFails, Ends, IInv, ProvisionedHere, NoPDU, Secret, Salt,
     FullSalt, Ours
<1>12. ASSUME recv_prov PROVE ProvisionedHere'
  <2>1. step' = step \/ step = 2
    BY <1>12, StepFacts DEF recv_prov, IInv, InStep
  <2>. QED  BY <1>12, <2>1 DEF recv_prov, Goes, IInv, ProvisionedHere, Secret, Salt, FullSalt,
            Ours
<1>13. ASSUME Received PROVE ProvisionedHere'
  <2>1. CASE ~check_pdu(step)
    BY <1>13, <2>1, GoneTypes DEF Received, Ends, NoPDU, ProvisionedHere
  <2>2. CASE check_pdu(step) /\ step = 6
    BY <1>13, <2>2 DEF Received, Goes, IInv, ProvisionedHere, Secret, Salt, FullSalt, Ours
  <2>3. CASE check_pdu(step) /\ step # 6
    BY <1>13, <2>3 DEF Received, Goes, IInv, ProvisionedHere
  <2>. QED  BY <2>1, <2>2, <2>3
<1>14. ASSUME ReceiveTimesOut PROVE ProvisionedHere'
  BY <1>14, GoneTypes DEF ReceiveTimesOut, Ends, IInv, ProvisionedHere, NoPDU, Secret,
     Salt, FullSalt, Ours
<1>15. ASSUME Settled PROVE ProvisionedHere'
  BY <1>15, GoneTypes DEF Settled, Ends, IInv, ProvisionedHere, NoPDU, Secret, Salt,
     FullSalt, Ours
<1>16. ASSUME Unsubscribed PROVE ProvisionedHere'
  BY <1>16, GoneTypes DEF Unsubscribed, Goes, IInv, ProvisionedHere, NoPDU, Secret,
     Salt, FullSalt, Ours
<1>17. ASSUME Disconnected PROVE ProvisionedHere'
  BY <1>17, DeviceRecord, GoneTypes DEF Disconnected, Close, RunFails, Goes, NoPDU, Secret, Salt,
     FullSalt, Ours, IInv, TypeOK, ProvisionedHere
<1>18. ASSUME provision PROVE ProvisionedHere'
  BY <1>18, GoneTypes DEF provision, Goes, RunFails, IInv, ProvisionedHere, NoPDU,
     Secret, Salt, FullSalt, Ours
<1>19. ASSUME Rebooted PROVE ProvisionedHere'
  BY <1>19, GoneTypes DEF Rebooted, Goes, IInv, ProvisionedHere, NoPDU, Secret, Salt,
     FullSalt, Ours
<1>20. ASSUME run_provision PROVE ProvisionedHere'
  BY <1>20, GoneTypes DEF run_provision, Goes, IInv, ProvisionedHere, NoPDU, Secret,
     Salt, FullSalt, Ours
<1>21. ASSUME Expires PROVE ProvisionedHere'
  BY <1>21, GoneTypes DEF Expires, Ends, RunFails, IInv, ProvisionedHere, NoPDU, Secret,
     Salt, FullSalt, Ours
<1>22. ASSUME _process_notify PROVE ProvisionedHere'
  <2>1. rx' = rx \/ rx'.type = "garbage" \/ rx'.type = air[1].type \/ rx'.type = "public_key"
    <3>1. \A segs : Reassembled(segs).type \in {"garbage", segs[1].type}
      BY DEF Reassembled
    <3>2. <<air[1]>>[1] = air[1]
      OBVIOUS
    <3>3. CASE rx' = Reassembled(Append(sar, air[1])) /\ IsPublicKey(air[1])
      <4>1. Append(sar, air[1])[1] \in {sar[1], air[1]} /\ (sar = <<>> \/ 1 \in DOMAIN sar)
        BY DEF IInv, TypeOK, ExchangeTypes
      <4>2. Append(sar, air[1])[1].type = "public_key"
        BY <3>3, <4>1, AppendTyped DEF IInv, InOrder, IsPublicKey, TypeOK, ExchangeTypes
      <4>. QED  BY <3>1, <3>3, <4>2
    <3>. QED  BY <1>22, <3>1, <3>2, <3>3, Notified
  <2>2. air[1].type = "complete" => dev.phase = 6
    BY <1>22, Notified DEF IInv, SegmentsTrue, SegmentTrue
  <2>. QED  BY <1>22, <2>1, <2>2, Notified DEF IInv, ProvisionedHere, Secret, Salt, FullSalt,
            Ours
<1>23. ASSUME LinkLost PROVE ProvisionedHere'
  BY <1>23, DeviceRecord, GoneTypes DEF LinkLost, Close, RunFails, Goes, NoPDU, Secret, Salt,
     FullSalt, Ours, IInv, TypeOK, ProvisionedHere
<1>24. ASSUME PDULost PROVE ProvisionedHere'
  BY <1>24, GoneTypes DEF PDULost, Fault, IInv, ProvisionedHere, NoPDU, Secret, Salt,
     FullSalt, Ours
<1>25. CASE UNCHANGED vars
  BY <1>25, GoneTypes DEF vars, IInv, ProvisionedHere, NoPDU, Secret, Salt, FullSalt,
     Ours
<1>. QED  BY <1>1, <1>2, <1>3, <1>4, <1>5, <1>6, <1>7, <1>8, <1>9, <1>10, <1>11, <1>12,
     <1>13, <1>14, <1>15, <1>16, <1>17, <1>18, <1>19, <1>20, <1>21, <1>22, <1>23, <1>24,
     <1>25 DEF Next, Task

\* From Complete on, a result is on its way to the entry, unless the time is over.
LEMMA ResultHeldStep == IInv /\ [Next]_vars => ResultHeld'
<1> SUFFICES ASSUME IInv, [Next]_vars PROVE ResultHeld'
  OBVIOUS
<1> USE DEF runVars, exchVars, resultVars, radioVars, history, Ended, Connecting,
            Exchanging, Leaving
<1>1. ASSUME async_step_sig_plug PROVE ResultHeld'
  BY <1>1 DEF async_step_sig_plug, IInv, ResultHeld, Succeeding, NoResult
<1>2. ASSUME ConnectFails PROVE ResultHeld'
  BY <1>2 DEF ConnectFails, Goes, Fault, IInv, ResultHeld, Succeeding, NoResult
<1>3. ASSUME Connected PROVE ResultHeld'
  BY <1>3 DEF Connected, IInv, ResultHeld, Succeeding, NoResult
<1>4. ASSUME _connect PROVE ResultHeld'
  BY <1>4 DEF _connect, Goes, CloseClient, Fault, IInv, ResultHeld, Succeeding, NoResult
<1>5. ASSUME AttemptClosed PROVE ResultHeld'
  BY <1>5, DeviceRecord DEF AttemptClosed, Close, RunFails, Goes, Succeeding, NoResult, IInv, TypeOK,
     ResultHeld
<1>6. ASSUME AttemptNotClosed PROVE ResultHeld'
  BY <1>6 DEF AttemptNotClosed, RunFails, Fault, IInv, ResultHeld, Succeeding, NoResult
<1>7. ASSUME NextAttempt PROVE ResultHeld'
  BY <1>7 DEF NextAttempt, MoreAttempts, RunFails, IInv, ResultHeld, Succeeding,
     NoResult
<1>8. ASSUME Paired PROVE ResultHeld'
  BY <1>8 DEF Paired, Goes, Ends, Fault, IInv, ResultHeld, Succeeding, NoResult
<1>9. ASSUME Subscribed PROVE ResultHeld'
  BY <1>9 DEF Subscribed, Goes, Ends, Fault, IInv, ResultHeld, Succeeding, NoResult
<1>10. ASSUME send_prov PROVE ResultHeld'
  BY <1>10, SendProv, BothWrite DEF send_prov, Goes, Silent, Failing, Following, Completing,
     Succeeding, IInv, ResultHeld
<1>11. ASSUME SendFails PROVE ResultHeld'
  BY <1>11 DEF SendFails, Ends, IInv, ResultHeld, Succeeding, NoResult
<1>12. ASSUME recv_prov PROVE ResultHeld'
  BY <1>12 DEF recv_prov, Goes, IInv, ResultHeld, Succeeding, NoResult
<1>13. ASSUME Received PROVE ResultHeld'
  <2>1. CASE ~check_pdu(step)
    BY <1>13, <2>1 DEF Received, Ends, Succeeding, IInv, ResultHeld
  <2>2. CASE check_pdu(step) /\ step = 6
    <3>1. rx.type = "complete"
      BY <2>2 DEF check_pdu, Completes
    <3>2. dev.phase = 6 /\ dev.net = runs /\ dev.dev_key = DevKey(Secret, FullSalt)
      BY <1>13, <3>1 DEF Received, IInv, ProvisionedHere, Talking
    <3>3. result' = [net |-> runs, dev_key |-> DevKey(Secret, FullSalt)] /\ flow' = "settling"
      BY <1>13, <2>2 DEF Received, Goes
    <3>. QED  BY <1>13, <3>2, <3>3 DEF Received, Succeeding, IInv, ResultHeld
  <2>3. CASE check_pdu(step) /\ step # 6
    BY <1>13, <2>3 DEF Received, Goes, Succeeding, IInv, ResultHeld
  <2>. QED  BY <2>1, <2>2, <2>3
<1>14. ASSUME ReceiveTimesOut PROVE ResultHeld'
  BY <1>14 DEF ReceiveTimesOut, Ends, IInv, ResultHeld, Succeeding, NoResult
<1>15. ASSUME Settled PROVE ResultHeld'
  BY <1>15 DEF Settled, Ends, IInv, ResultHeld, Succeeding, NoResult
<1>16. ASSUME Unsubscribed PROVE ResultHeld'
  BY <1>16 DEF Unsubscribed, Goes, IInv, ResultHeld, Succeeding, NoResult
<1>17. ASSUME Disconnected PROVE ResultHeld'
  BY <1>17, DeviceRecord DEF Disconnected, Close, RunFails, Goes, Succeeding, NoResult, IInv, TypeOK,
     ResultHeld
<1>18. ASSUME provision PROVE ResultHeld'
  BY <1>18 DEF provision, Goes, RunFails, IInv, ResultHeld, Succeeding, NoResult
<1>19. ASSUME Rebooted PROVE ResultHeld'
  BY <1>19 DEF Rebooted, Goes, IInv, ResultHeld, Succeeding, NoResult
<1>20. ASSUME run_provision PROVE ResultHeld'
  <2>1. creds = NoResult /\ flow = "configuring" /\ UNCHANGED <<dev, result, completed, expired>>
    BY <1>20 DEF run_provision, IInv, ResultHeld
  <2>2. CASE Goes("created") /\ creds' = result
    BY <1>20, <2>1, <2>2 DEF Goes, IInv, ResultHeld, Succeeding
  <2>3. CASE Goes("aborted") /\ UNCHANGED creds
    BY <1>20, <2>1, <2>3 DEF Goes, IInv, ResultHeld, Succeeding
  <2>. QED  BY <1>20, <2>2, <2>3 DEF run_provision
<1>21. ASSUME Expires PROVE ResultHeld'
  BY <1>21 DEF Expires, Ends, RunFails, IInv, ResultHeld, Succeeding, NoResult
<1>22. ASSUME _process_notify PROVE ResultHeld'
  BY <1>22, Notified DEF _process_notify, Succeeding, IInv, ResultHeld
<1>23. ASSUME LinkLost PROVE ResultHeld'
  BY <1>23, DeviceRecord DEF LinkLost, Close, RunFails, Goes, Succeeding, NoResult, IInv, TypeOK,
     ResultHeld
<1>24. ASSUME PDULost PROVE ResultHeld'
  BY <1>24 DEF PDULost, Fault, IInv, ResultHeld, Succeeding, NoResult
<1>25. CASE UNCHANGED vars
  BY <1>25 DEF vars, IInv, ResultHeld, Succeeding, NoResult
<1>. QED  BY <1>1, <1>2, <1>3, <1>4, <1>5, <1>6, <1>7, <1>8, <1>9, <1>10, <1>11, <1>12,
     <1>13, <1>14, <1>15, <1>16, <1>17, <1>18, <1>19, <1>20, <1>21, <1>22, <1>23, <1>24,
     <1>25 DEF Next, Task

\* Segments stay in their order.
LEMMA InOrderStep == IInv /\ [Next]_vars => InOrder'
<1> SUFFICES ASSUME IInv, [Next]_vars PROVE InOrder'
  OBVIOUS
<1> USE DEF runVars, exchVars, resultVars, radioVars, history, Ended, Connecting,
            Exchanging, Leaving
<1>1. ASSUME async_step_sig_plug PROVE InOrder'
  BY <1>1, GoneTypes, EmptyTyped DEF async_step_sig_plug, IInv, InStep, InOrder
<1>2. ASSUME ConnectFails PROVE InOrder'
  BY <1>2, GoneTypes, EmptyTyped DEF ConnectFails, Goes, Fault, IInv, InStep, InOrder
<1>3. ASSUME Connected PROVE InOrder'
  BY <1>3, EmptyTyped DEF Connected, IInv, InStep, InOrder
<1>4. ASSUME _connect PROVE InOrder'
  BY <1>4, EmptyTyped DEF _connect, Goes, CloseClient, IInv, InStep, InOrder
<1>5. ASSUME AttemptClosed PROVE InOrder'
  BY <1>5, DeviceRecord, EmptyTyped, GoneTypes DEF AttemptClosed, Close, RunFails, Goes, IInv, TypeOK,
     InStep, InOrder
<1>6. ASSUME AttemptNotClosed PROVE InOrder'
  BY <1>6, GoneTypes, EmptyTyped DEF AttemptNotClosed, RunFails, Fault, IInv, InStep,
     InOrder
<1>7. ASSUME NextAttempt PROVE InOrder'
  BY <1>7, GoneTypes, EmptyTyped DEF NextAttempt, MoreAttempts, RunFails, IInv, InStep,
     InOrder
<1>8. ASSUME Paired PROVE InOrder'
  BY <1>8, GoneTypes, EmptyTyped DEF Paired, Goes, Ends, Fault, IInv, InStep, InOrder
<1>9. ASSUME Subscribed PROVE InOrder'
  <2>1. CASE Ends("error")
    BY <1>9, <2>1, GoneTypes, EmptyTyped DEF Subscribed, Ends, IInv, InOrder
  <2>2. sar = <<>> /\ \A i \in DOMAIN air : ~IsPublicKey(air[i])
    BY <1>9 DEF Subscribed, IInv, InStep, InOrder
  <2>. QED  BY <1>9, <2>1, <2>2, EmptyTyped DEF Subscribed, Goes, IInv, InOrder
<1>10. ASSUME send_prov \/ SendFails PROVE InOrder'
  <2>0. \/ send_prov /\ flow' = "pausing" /\ UNCHANGED <<sar, step>>
        \/ SendFails /\ flow' = "unsubscribing" /\ sar' = <<>>
    BY <1>10 DEF send_prov, SendFails, Goes, Ends, ExchangeGone
  <2>1. /\ flow = "sending" /\ flow' # "services" /\ step \in Steps
        /\ DOMAIN sar' \subseteq DOMAIN sar /\ \A i \in DOMAIN sar' : sar'[i] = sar[i]
        /\ flow' \in Exchanging => sar' = sar /\ step' = step
    BY <2>0, SendProv, BothWrite, EmptyTyped DEF send_prov, SendFails
  <2>2. CASE air' = air
    <3>1. dev'.phase \notin {1, 2} \/ step < 3 \/ dev'.phase = dev.phase
      BY <1>10, SendProv, BothWrite, StepFacts DEF Silent, Failing, Following, Completing, IInv, TypeOK, RadioTypes
    <3>. QED  BY <2>1, <2>2, <3>1, StepFacts DEF IInv, InOrder
  <2>3. ASSUME NEW t \in Answer, NEW b, air' = air \o Segments(t, b),
               t = "public_key" => step = 3 /\ dev.phase = 2 /\ dev'.phase = 3,
               step >= 3 => dev'.phase \notin {1, 2}
        PROVE  InOrder'
    <3> DEFINE r == Segments(t, b)
    <3>1. /\ air \in Seq(ToSet(air)) /\ r \in Seq(ToSet(r)) /\ Len(air) \in Nat
          /\ DOMAIN air = 1..Len(air)
          /\ DOMAIN r \subseteq 1..3
          /\ \A i \in DOMAIN r : r[i].type = t /\ r[i].part = i
      BY SegmentFacts DEF Answer, IInv, TypeOK, RadioTypes
    <3> HIDE DEF r
    <3>2. \A i \in DOMAIN air' :
             \/ i \in DOMAIN air /\ air'[i] = air[i]
             \/ i \in Nat /\ i > Len(air) /\ i - Len(air) \in DOMAIN r /\ air'[i] = r[i - Len(air)]
      BY <2>3, <3>1, ConcatTyped DEF r
    <3>3. CASE t # "public_key"
      <4>1. \A i \in DOMAIN air' : IsPublicKey(air'[i]) => i \in DOMAIN air /\ air'[i] = air[i]
        BY <3>1, <3>2, <3>3 DEF IsPublicKey
      <4>2. /\ \A i, j \in DOMAIN air' : i < j /\ IsPublicKey(air'[i]) /\ IsPublicKey(air'[j]) =>
                 air'[i].part < air'[j].part
            /\ \A i \in DOMAIN sar, j \in DOMAIN air' :
                 IsPublicKey(air'[j]) => sar[i].part < air'[j].part
        BY <4>1 DEF IInv, InOrder
      <4>3. sar # <<>> \/ (\E i \in DOMAIN air' : IsPublicKey(air'[i])) => step >= 3
        BY <2>1, <4>1 DEF IInv, InOrder
      <4>. QED  BY <2>1, <2>3, <4>2, <4>3 DEF IInv, InOrder
    <3>4. CASE t = "public_key"
      <4>1. sar = <<>> /\ \A i \in DOMAIN air : ~IsPublicKey(air[i])
        BY <2>1, <2>3, <3>4 DEF IInv, InOrder
      <4>2. \A i \in DOMAIN air' : IsPublicKey(air'[i]) =>
               i - Len(air) \in DOMAIN r /\ i \in Nat /\ air'[i].part = i - Len(air)
        BY <3>1, <3>2, <4>1
      <4>3. \A i, j \in DOMAIN air' : i < j /\ IsPublicKey(air'[i]) /\ IsPublicKey(air'[j]) =>
               air'[i].part < air'[j].part
        BY <3>1, <4>2
      <4>4. DOMAIN sar' = {}
        BY <2>1, <4>1, EmptyTyped
      <4>5. dev'.phase \notin {1, 2} /\ flow' # "services"
            /\ (flow' \in Exchanging => step' >= 3)
        BY <2>1, <2>3, <3>4
      <4>. QED  BY <4>3, <4>4, <4>5 DEF InOrder
    <3>. QED  BY <3>3, <3>4
  <2>4. \/ air' = air
        \/ \E t \in Answer : \E b : air' = air \o Segments(t, b)
              /\ (t = "public_key" => step = 3 /\ dev.phase = 2 /\ dev'.phase = 3)
    <3>1. "failed" \in Answer /\ "complete" \in Answer
      BY DEF Answer
    <3>2. CASE Failing
      BY <3>1, <3>2 DEF Failing
    <3>3. CASE Completing
      BY <3>1, <3>3 DEF Completing
    <3>4. CASE Following
      BY <3>4 DEF Following
    <3>. QED  BY <1>10, SendProv, BothWrite, <3>2, <3>3, <3>4 DEF Silent
  <2>5. air' # air /\ step >= 3 => dev'.phase \notin {1, 2}
    BY <1>10, SendProv, BothWrite, StepFacts DEF Silent, Failing, Following, Completing
  <2>. QED  BY <2>2, <2>3, <2>4, <2>5
<1>12. ASSUME recv_prov PROVE InOrder'
  <2>1. step' = step \/ (step = 2 /\ step' = 3)
    BY <1>12, StepFacts DEF recv_prov, IInv, InStep
  <2>. QED  BY <1>12, <2>1 DEF recv_prov, Goes, IInv, InOrder
<1>13. ASSUME Received PROVE InOrder'
  <2>1. CASE ~check_pdu(step)
    BY <1>13, <2>1, GoneTypes, EmptyTyped DEF Received, Ends, IInv, InOrder
  <2>2. CASE check_pdu(step)
    <3>1. /\ step \in Steps /\ (step' = step \/ step' = step + 1) /\ flow' # "services"
          /\ UNCHANGED <<air, sar, dev>> /\ flow \in Exchanging
      BY <1>13, <2>2 DEF Received, Goes, IInv, InStep
    <3>2. step >= 3 => step' >= 3
      BY <3>1, StepFacts
    <3>. QED  BY <3>1, <3>2 DEF IInv, InOrder
  <2>. QED  BY <2>1, <2>2
<1>14. ASSUME ReceiveTimesOut PROVE InOrder'
  BY <1>14, GoneTypes, EmptyTyped DEF ReceiveTimesOut, Ends, IInv, InStep, InOrder
<1>15. ASSUME Settled PROVE InOrder'
  BY <1>15, GoneTypes, EmptyTyped DEF Settled, Ends, IInv, InStep, InOrder
<1>16. ASSUME Unsubscribed PROVE InOrder'
  BY <1>16, GoneTypes, EmptyTyped DEF Unsubscribed, Goes, IInv, InStep, InOrder
<1>17. ASSUME Disconnected PROVE InOrder'
  BY <1>17, DeviceRecord, EmptyTyped, GoneTypes DEF Disconnected, Close, RunFails, Goes, IInv, TypeOK,
     InStep, InOrder
<1>18. ASSUME provision PROVE InOrder'
  BY <1>18, GoneTypes, EmptyTyped DEF provision, Goes, RunFails, IInv, InStep, InOrder
<1>19. ASSUME Rebooted PROVE InOrder'
  BY <1>19, GoneTypes, EmptyTyped DEF Rebooted, Goes, IInv, InStep, InOrder
<1>20. ASSUME run_provision PROVE InOrder'
  BY <1>20, GoneTypes, EmptyTyped DEF run_provision, Goes, IInv, InStep, InOrder
<1>21. ASSUME Expires PROVE InOrder'
  BY <1>21, GoneTypes, EmptyTyped DEF Expires, Ends, RunFails, IInv, InStep, InOrder
<1>22. ASSUME _process_notify PROVE InOrder'
  <2>1. /\ air \in Seq(ToSet(air)) /\ air # <<>> /\ air' = Tail(air) /\ 1 \in DOMAIN air
        /\ UNCHANGED <<flow, step, dev>> /\ flow \in Exchanging
    BY <1>22, Notified
  <2>2. \A i \in DOMAIN air' : i + 1 \in DOMAIN air /\ air'[i] = air[i + 1]
    BY <2>1, TailTyped
  <2>3. DOMAIN air \subseteq Nat /\ DOMAIN air' \subseteq Nat /\ \A i \in DOMAIN air' : 1 < i + 1
    BY <2>1, TailTyped
  <2>4. \A i, j \in DOMAIN air' :
           i < j /\ IsPublicKey(air'[i]) /\ IsPublicKey(air'[j]) => air'[i].part < air'[j].part
    BY <2>2, <2>3 DEF IInv, InOrder
  <2>5. (\E i \in DOMAIN air' : IsPublicKey(air'[i])) \/ sar' # <<>> =>
           step >= 3 /\ dev.phase \notin {1, 2}
    BY <1>22, <2>1, <2>2, Notified DEF IInv, InOrder
  <2>6. /\ \A i \in DOMAIN sar' : IsPublicKey(sar'[i]) /\ sar'[i].part \in 1..2
        /\ \A i, j \in DOMAIN sar' : i < j => sar'[i].part < sar'[j].part
        /\ \A i \in DOMAIN sar', j \in DOMAIN air' :
             IsPublicKey(air'[j]) => sar'[i].part < air'[j].part
    <3>1. CASE sar' = sar
      BY <2>2, <3>1 DEF IInv, InOrder
    <3>2. CASE sar' = <<>>
      BY <3>2, EmptyTyped
    <3>3. CASE sar' = <<air[1]>> /\ IsPublicKey(air[1]) /\ air[1].part = 1
      <4>1. DOMAIN sar' = {1} /\ sar'[1] = air[1]
        BY <3>3, OneTyped
      <4>. QED  BY <2>1, <2>2, <2>3, <3>3, <4>1 DEF IInv, InOrder
    <3>4. CASE sar' = Append(sar, air[1]) /\ IsPublicKey(air[1]) /\ air[1].part = 2
      <4>1. /\ sar \in Seq(ToSet(sar)) /\ Len(sar) \in Nat /\ DOMAIN sar = 1..Len(sar)
            /\ DOMAIN sar' = 1..Len(sar) + 1
            /\ \A i \in DOMAIN sar : sar'[i] = sar[i]
            /\ sar'[Len(sar) + 1] = air[1]
        BY <3>4, AppendTyped DEF IInv, TypeOK, ExchangeTypes
      <4>2. \A i \in DOMAIN sar : sar[i].part < 2 /\ sar[i].part \in 1..2
        BY <2>1, <3>4 DEF IInv, InOrder
      <4>3. \A j \in DOMAIN air' : IsPublicKey(air'[j]) => 2 < air'[j].part
        BY <2>1, <2>2, <2>3, <3>4 DEF IInv, InOrder
      <4>4. \A i \in DOMAIN sar' : i \in DOMAIN sar \/ i = Len(sar) + 1
        BY <4>1
      <4>5. \A i \in DOMAIN sar' : /\ IsPublicKey(sar'[i]) /\ sar'[i].part \in 1..2
                                   /\ sar'[i].part < 2 <=> i \in DOMAIN sar
        BY <3>4, <4>1, <4>2, <4>4 DEF IInv, InOrder
      <4>6. \A i, j \in DOMAIN sar' : i < j => sar'[i].part < sar'[j].part
        BY <3>4, <4>1, <4>2, <4>4 DEF IInv, InOrder
      <4>. QED  BY <4>3, <4>5, <4>6, <2>2 DEF IInv, SegmentsTrue, SegmentTrue
    <3>. QED  BY <1>22, <3>1, <3>2, <3>3, <3>4, Notified
  <2>. QED  BY <2>1, <2>4, <2>5, <2>6 DEF InOrder
<1>23. ASSUME LinkLost PROVE InOrder'
  BY <1>23, DeviceRecord, EmptyTyped, GoneTypes DEF LinkLost, Close, RunFails, Goes, IInv, TypeOK,
     InStep, InOrder
<1>24. ASSUME PDULost PROVE InOrder'
  BY <1>24, TailTyped DEF PDULost, IInv, TypeOK, RadioTypes, InOrder
<1>25. CASE UNCHANGED vars
  BY <1>25, GoneTypes, EmptyTyped DEF vars, IInv, InStep, InOrder
<1>. QED  BY <1>1, <1>2, <1>3, <1>4, <1>5, <1>6, <1>7, <1>8, <1>9, <1>10, <1>12,
     <1>13, <1>14, <1>15, <1>16, <1>17, <1>18, <1>19, <1>20, <1>21, <1>22, <1>23, <1>24,
     <1>25 DEF Next, Task

-----------------------------------------------------------------------------
(* The theorems.                                                           *)

LEMMA InitInvariant == Init => IInv
<1> SUFFICES ASSUME Init PROVE IInv
  OBVIOUS
<1> USE BoundFacts, StepFacts, EmptyTyped
<1>d. /\ DOMAIN dev = {"phase", "heard", "kind", "pub", "conf", "random", "dev_key", "net"}
      /\ dev.phase = 0 /\ dev.heard = 0 /\ dev.kind \in Kinds /\ dev.net = 0
  BY DEF Init
<1>1. FlowTypes /\ ResultTypes /\ FlagTypes
  BY DEF Init, FlowTypes, ResultTypes, FlagTypes, NoResult, Ended
<1>2. ExchangeTypes
  BY DEF Init, ExchangeTypes
<1>3. RadioTypes
  BY <1>d DEF Init, RadioTypes
<1>4. HasClient /\ InStep
  BY DEF Init, HasClient, InStep, Exchanging
<1>5. SegmentsTrue /\ InOrder
  BY DEF Init, SegmentsTrue, InOrder, Exchanging
<1>6. ProvisionedHere /\ ResultHeld
  BY DEF Init, ProvisionedHere, ResultHeld, Succeeding, NoPDU, NoResult, Exchanging, Leaving
<1>. QED  BY <1>1, <1>2, <1>3, <1>4, <1>5, <1>6 DEF IInv, TypeOK

\* The invariant holds in every state.
THEOREM Invariant == Spec => []IInv
<1>1. IInv /\ [Next]_vars => IInv'
  BY FlowStep, ExchangeStep, ResultStep, RadioStep, FlagStep, ClientStep, InStepStep,
     SegmentsStep, ProvisionedStep, ResultHeldStep, InOrderStep DEF IInv, TypeOK
<1>. QED  BY InitInvariant, <1>1, PTL DEF Spec

\* Variables keep their types, whatever is lost: _connect makes at most max_retries
\* attempts, and no more than two segments of a PDU are kept
\* (sig_mesh_provisioner_connection.py, _connect; sig_mesh_provisioner_exchange.py,
\* _process_notify).
THEOREM TypeCorrect == Spec => []TypeOK
BY Invariant, PTL DEF IInv

\* An entry holds the keys the device was given in that very run, and a run that
\* received Complete fails only when its sixty seconds are over
\* (config_flow_sig.py, run_provision; sig_mesh_provisioner_exchange.py,
\* _run_exchange).
THEOREM KeysAgree == Spec => []Agreement
<1>1. IInv => Agreement
  BY DEF IInv, ResultHeld, Agreement, Succeeding, Leaving
<1>. QED  BY Invariant, <1>1, PTL

=============================================================================
